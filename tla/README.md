# Verification of secmatch

secmatch takes compiled vulnerability templates and a response and says what
matches. It reads no files but correlation rules and starts no threads of its own except the workers
that `rayon` uses while a database compiles. Its difficulty is therefore not a
network protocol but *attribution and completeness*: a match is found through
arenas, shared automaton patterns, chunked regex sets, caches and carry-over
buffers, and must still be the match of the right value of the right template,
reported exactly once, or, for a negative matcher, exactly when it is absent.

This directory holds TLA+ models of that machinery, TLC configurations that
check them on small instances, and TLAPS proofs of what should hold for every
instance. The file paths below are relative to the repository.

## 1. The system's parts

| Component (source) | State it keeps | Operations | What is hard, and what makes it correct |
|---|---|---|---|
| Database compilation (`src/database/compile.rs`) | a batch per template; then the arena, seven collections of references, word groups, regex sets, negative matchers | `compile` | Parallel workers, indices local to a batch and shifted by a merge, errors of one worker, values that are skipped, rewritten or rejected, 16- and 32-bit index limits. *Correct*: every reference points at the text it was interned for, the result does not depend on the schedule, nothing wanted is missing, nothing malformed is accepted. |
| Database scan (`src/database/scan.rs`, `regex_scan.rs`, `mod.rs`) | matches, `seen`, `fired` of one call | `scan`, `pattern_count` | Seven phases share the three lists; entries share patterns; offsets cross the header/body boundary; absences are inferred from what the other phases recorded. *Correct*: the matches are those of every value taken alone. |
| Streaming matcher (`src/streaming/`) | retained buffer, matched ids, early-stop flag, byte count | `new`, `feed`, `should_cancel`, `matched_patterns`, `bytes_saved`, `into_buffer` | A pattern may span any number of chunks; the buffer is bounded by the caller; the search may be overlapping or not. *Correct*: what is reported depends on the bytes, not on their chunking. |
| DSL caches (`src/dsl/cache.rs`) | map, tick | `get_or_compile`, `get_or_parse`, `evict_lru` | Batch eviction at the limit, a tick that wraps, failures kept by one cache and not by the other, a lookup after an eviction. *Correct*: answers are those of the compiler; the cache is bounded and drops the least recently used. |
| DSL parser (`src/dsl/parser.rs`) | none | `parse_expression` | Precedence, escapes, integers out of range, trailing tokens. *Correct*: an expression parses to the one tree of a grammar, or is rejected because it has none. |
| DSL evaluator (`src/dsl/evaluator.rs`, `src/dsl/mod.rs`), functions (`src/dsl/functions/`) | depth and operation counters of one evaluation | `evaluate_dsl`, `evaluate_dsl_with_variables`, forty-seven functions | Budgets, short circuits, chains walked without recursion, unchecked integer arithmetic, failures that become `false`. *Correct*: the value is what the expression means, unless a budget is spent; each operation is charged once; modest expressions are not refused. |
| Text path (`src/text.rs`) | none | `request_matches_text`, `matcher_satisfied_text`, `collect_matched_values_text`, `matcher_values_text` | Counts texts where the database counts value indexes. *Correct*: agrees with a scan wherever both read a matcher alike. |
| Conditions and transforms (`src/evaluator.rs`) | data and failures of one chain | `matcher_satisfied`, `evaluate_condition`, `substitute_variables`, `transform_response_checked` | `And`/`Or` over hit sets and negation; substitution in hash-map order; chains of transforms in which one fails. *Correct*: no undecoded data passes for decoded; a comparison means what its operands say. |
| Inter-template state (`src/inter_template.rs`) | exports and export cache per target | `export_variable`, `export_template_variables`, `clear_target`, `clear`, `substitute_variables_with_imports` | Qualified names that may clash, two maps that must agree, rescanning of inserted values with a bound of 64 substitutions. *Correct*: an export writes its own template's variables on its own target only, and both maps tell the same; substitution ends and leaves nothing it could replace. |
| Correlation (`src/correlation.rs`) | the loaded rules, what is known of each target | `correlate_findings`, `correlate_findings_with_rules_dir`, rule loading | Overrides between rule files and built-in rules in the order of a listing that may fail; findings of many targets mixed. *Correct*: one rule per id, none lost; one finding per target and rule that its own findings satisfy. |
| Extractors (`src/extractor.rs`, `src/json_util.rs`) | none | `extract_from_response`, `extract_variables_from_response` | Regex groups, keys shared by extractors, spellings of JSON paths. *Correct*: the last extractor that yields wins; a path is found however it is spelled. |

Interactions. `compile` builds a `CompiledDatabase`, immutable from then on,
that any number of scans read; a scan calls the DSL evaluator for DSL matchers,
which uses the thread's AST cache and, through its regex functions, the thread's
regex cache. The streaming matcher uses the automaton of a database. Conditions
combine the matches of a scan; the text path comes to the same verdicts without
a database. A response is transformed, extractors (which use the regex cache)
take values from it, and these are substituted into conditions and feed the
inter-template state. Correlation works on the findings of many responses.

Callbacks, locks and messages do not exist. Concurrency is confined to the
parallel collection in `compile`; the caches are thread-local.

## 2. Modules

    RecencyList  <--implements--  LruCache          LruCacheProofs, MCLruCache
    StreamSearch <--implements--  StreamingMatcher  StreamingMatcherProofs, MCStreaming
    ExportStore  <--implements--  InterTemplate
    InterTemplate    <--extends-- Substitution      InterTemplateProofs, MCSubstitution
    DatabaseCompile  <--extends-- DatabaseScan  <--extends-- TextMatching
                                                    DatabaseCompileProofs, DatabaseScanProofs,
                                                    MCTemplates, MCCompile, MCDatabase
    DslParser <-- DslFunctions <-- DslEvaluator <-- Dsl       (extends)   MCDsl
    ResponseText <--extends-- Response              ResponseProofs, MCResponse
    Correlation                                     CorrelationProofs, MCCorrelation
    SequenceLemmas                                  (used by the proofs about sequences)

**DatabaseCompile.** `templates`, `todo` and `batches` are the slice, what each
worker has still to visit and its `TemplatePatternBatch`. `CollectDsl`,
`SkipEmpty`, `CollectValue` and `Reject` are one round of the inner loop of a
worker for one value (a DSL matcher is stored whole, in one round); workers
interleave freely. `MergeBatch` is one round of the merge loop,
`BuildWordAutomaton`, `BuildRegexSets` and `FlattenNegatives` the three passes
over the merged entries. The seven collections of the code are one sequence
`refs` whose elements carry kind and part; "the entries of kind k in part p" is a
subsequence of it, in the same order as in the code's collection. A reference carries the data of the code's
entry (bytes, compiled regex, number), so that attribution can be compared with the
template. Texts are model values; what parsing, hex decoding and the regex
engine make of them are constant functions (the reference of `NothingDropped`, `Asked`, states for itself which values are wanted), and the only regexes are sets of
single bytes and the empty regex.

**DatabaseScan** extends it with the phases of `scan`. The hits of a phase are the
rounds of its innermost loop that find something (`WordHits` is the overlapping search
with its dispatch on offsets, `NamedHits`, `RegexHits`, `NumberHits` and `DslHits` the
other loops), each with its place in the loop. `RecordHit` takes the next of
them: it is `record_hit` with its two sets, and the tests before it in
`regex_set_scan` and in the loop over the DSL matchers. `FailScan` is the round that
ends the scan with an error, `NextPhase` the end of a loop, and `ReportAbsence` one round of
`emit_negative`. `VisitHeader` goes on to a header not yet visited: the code
iterates a hash map there, modelled by every order. `Expected` is the reference: the
matches of each value of each template, without arena, groups, sets or offsets.

**TextMatching** has `text.rs` and `matcher_satisfied` as operators: both are
pure. They are compared in the states in which a scan of the same text
has ended, so that the run composes compilation, scan, conditions and text path.
`ReadAlike` names what the two do not read alike: parts a text does not have,
status values (a number or a substring), binaries (whose case the automaton
ignores) and regexes that the compilation rewrites. The values of a matcher that
are in the text, which the code pushes to a list, are kept by their places in the
matcher, so that a value given twice counts twice here as there.

**StreamingMatcher** has one action, `Feed`. The two branches of the code (empty
buffer, carry-over) compute the same window and the same tail with different
copies, and the model states the common result. `stream` is a history variable.
**StreamSearch** is the abstract promise: after each chunk the reported ids are
those occurring in everything received.

**LruCache** is both caches, with `GetOrCompile` (keeps successes) and
`GetOrParse` (keeps failures too and looks up again after an eviction). The key
is the expression (or the pattern), and `Outcome` what the parser makes of it.
**RecencyList** is the abstract promise: a list of keys, most recent first.

**InterTemplate** has the two maps of `InterTemplateState` and one action per
operation that writes them. A name is the sequence of its segments between dots,
so that `"{id}.{name}"` is a concatenation and two names can clash as they do in
the code. The lists of the cache, which get a variable once per export, are sets.
**ExportStore** is the abstract promise, indexed by target, template and variable.
**Substitution** adds the loop of `substitute_variables_with_imports`, one action
per way a round can end: `Replace`, `Skip` (not found, or the reference stands
for itself) and `Return`. Texts are sequences of tokens; single braces are not
tokens, so a brace next to a pair is not covered. A call borrows the state, which
therefore changes only between calls. `Expanded` is the reference: all
references replaced at the same time.

**DslParser** is the lexer and the recursive descent, one operator per function
of the parser, over texts that are sequences of characters (a word such as `len`
counts as one letter). **DslFunctions** has the values and seventeen of the functions,
**DslEvaluator** the evaluation with its two counters passed along; a failure of any kind has
no counters, as every error is passed up at once. **Dsl** is `evaluate_dsl_with_variables`:
reject or parse a text, then evaluate it in a context (a response, variables,
the two budgets, and whether the build checks overflow). The cache between parsing and
evaluating is `LruCache`, whose transparency is proved. `Derivations` and `Meaning` are the
references: all derivation trees of a token sequence, and the value of an
expression without budgets, stacks or a width of integers.

**ResponseText** has the pure operations on a response's text: decoders, JSON
paths, extraction by one extractor, substitution, comparison. A text is a sequence of tokens and an
encoding is a token in front of what it encodes. A decoder takes that token off, but
it also decodes, without a report, any other text that is well formed in its encoding: `Readable` says which
texts are (a hex text or a short word may be valid base64), and the bytes they hold are a `Raw` token and
the text. Whitespace is the blank and a newline, which stands for all the rest that `trim()` takes. **Response** is a response on its way through the loops: one
transform, one extractor, one variable per step, the variables in any
order. The three functions are called one after the other as their documentation intends.

**Correlation** has one action per round of each loop: the next entry of the
directory (in any order), a listing that fails, a built-in rule added, a finding collected, a target
taken (in any order), a rule evaluated. Values and tags are sets: only membership is asked.

`PROJECT.json` maps each definition to its lines. Operators commented "a slip"
are mistakes a programmer could have made in the definition that follows them;
each is substituted for that definition in a run to show that the property of
the run notices.

## 3. Runs

| Run | Question | Bounds |
|---|---|---|
| `DatabaseCompile` | Are references attributed to their texts, in template order and complete, and do errors fail closed, under every interleaving of the workers? | All ordered pairs of nineteen templates (words, binaries, regexes, named headers, numbers, expressions; four faulty kinds), one triple that fills an arena of ten, and one that crosses its limit, so that an index wraps. Chunks of two regexes, indices up to 2. |
| `DatabaseScan` | Does a scan report exactly what the templates say, and does the text path agree with it? | Nine slices, 367 responses: all headers of up to one and bodies of up to two bytes over `a`, `A`, `b`; two header names, two statuses, two lengths, four sets of true expressions; raw texts for the text path. |
| `StreamingRecall` | With an overlapping automaton and a buffer as long as the seam, is the result independent of the chunking? | Two letters, patterns of two to four bytes (two overlap themselves, one is the end of another), chunks of up to two bytes, eight bytes: a match can span four chunks, and the buffer has been drained. |
| `StreamingFallback` | What survives with the non-overlapping search and a buffer shorter than the seam? | As above, buffer of two: the pattern of four bytes is too long for it. |
| `AstCache` | Does the cache answer as the parser would, and implement the recency list? | Capacity three, batches of two, five keys, nine requests: at least two evictions. |
| `RegexCache` | What survives when the tick wraps around? | The same, tick modulo five. |
| `Substitution` | Are the exports one store per target and template, and is the cache exact? Does substitution end, leave nothing, and replace plain values as if at once? | Two targets, two templates, two variables, one with a dot and one that both templates export, two exported values with and without a reference: every state of the exports. Calls are made in those with at most one export per target (`MaxExports`), as a text refers to one. Texts of up to three pieces (references, stray braces, a word), six maps of locals (none, plain, self-referring, mutually cyclic, growing, hiding an import); limit three. |
| `Dsl` | Is an expression lexed and parsed to the one tree of the grammar, and evaluated to its meaning, with the budgets charged as they should be? | 24078 texts: all of up to four characters of an alphabet of blanks, quotes, escapes and half symbols, all sentences of up to four to six tokens of small vocabularies, and families of operations, chains and calls. Integers end at 11, texts at four bytes; budgets of nine and of three, with and without overflow checks. |
| `Correlation` | Are the rules those of the files and the built-in ones, and is each target reported for exactly its own findings? | Up to two files, each sound, malformed or not a rule file, that override each other or a built-in rule; a directory absent, unreadable or failing at any entry; up to three findings on two targets. |
| `Response` | Is decoding accounted for, whatever the chain? Which extractor wins? Is a path found however it is spelled, and does a comparison survive substitution? | 19 bodies with up to three encodings, sound, corrupt or too long (`MaxInflated` 3), seven texts that are well formed in an encoding by chance, among them hex digits read as base64, all chains of up to three decoders and eight others; all lists of up to two of ten extractors; 504 conditions with up to two variables, whose values may hold operators, quotes or braces, or end with a newline, as an array with an empty last element does. |
| `HeavyRegexes`, `VariablePriority` | Expected violations, see below. | One slice; two expressions. |

The bounds of chunk size, index width, capacity, substitutions, string budget,
gzip output and integers replace 200, 2^16, 2^32, 256, 64, 2^20, 10 MiB and 2^63 - 1.
The mechanisms compare against the bound and never against another constant,
so a small bound exercises the same branches, and the passing instances reach
each side of each of them: a full chunk and a remainder, the last index and one
too many, an eviction and none, an expression that spends its budget and one that
does not, an exact sum and one that overflows.

Fairness. `Substitution` assumes weak fairness of its loop, a `while` inside one
call that nothing else can interrupt: once entered it is executed to its end, and
what has to be shown is that the end exists. No other model is fair or
states liveness: `compile`, `scan`, `feed` and the lookups are made when the
caller likes, and that each terminates is plain from its loops over finite
collections. The deadlock check is disabled for `AstCache`, whose tick is bounded
by `MaxTick`, and for `Dsl`, `VariablePriority`, `Correlation` and `Response`, in
which a behaviour is one call and stops when the call returns.

### Disagreements between code and comments

- `HeavyRegexes`. `build_regex_sets` drops a chunk that does not build although
  each of its regexes compiles alone (the size limit applies to the set as a
  whole). The compilation succeeds, and a scan never looks for those regexes;
  negative ones are reported as absent. The comments say the path fails closed.
- `VariablePriority`. A variable named `body_0`, `status_code_0` or `header_0`
  hides what the response says of itself, because the names with `_0` are looked
  up after the variables. The documentation of `evaluate_dsl_with_variables` says
  built-in identifiers come first.

### Known limits

What the code does at the edges that the properties leave out. Each was met
while modelling; the properties say so in their assumptions.

- *Compilation.* The merge checks that the offset of a batch fits an index and then adds the
  offset to the indices of the batch without a check. The last batch may therefore cross the limit:
  the compilation succeeds and some of its references point at texts of the
  first templates. The slice `Crossing` of `DatabaseCompile` gets there, and `AttributionExact` and
  `ScanIsExact` assume `ArenaFits`. A binary of blanks passes the test for emptiness and decodes to no bytes,
  so that the automaton gets an empty pattern. DSL matchers are exempt from the
  limit on the number of values, and a positive one beyond it makes a scan fail.
- *Scan.* Of a repeated header only the occurrence that the header index points at
  is scanned (`scan.rs:76`). Binaries ignore case in the automaton and keep it
  in a named header (`scan.rs:97`).
- *Streaming.* With a buffer shorter than the seam, matches that span chunks are lost, of patterns
  more than a byte longer than the buffer; `ChunkingIndependent` and `CancelIffOccurred` promise nothing of
  these, and `ImplementsSearch` assumes `SeamFits`.
- *Inter-template state.* The bound of 64 substitutions, meant for cycles, also cuts long texts
  without any. Qualified names clash when template ids have dots; `ImplementsStore` is false then, and is checked and proved without clashes (`NoNameClash`).
- *DSL.* The parser's recursion has no bound (`parser.rs:490`). `parse_expression`
  rejects a trailing blank, which its caller trims. The output budget covers
  `repeat`, `replace` and the random functions only. Which argument of `regex` is
  the pattern is guessed from its characters (`regex_utils.rs:9`). The
  evaluation runs while the thread's AST cache is borrowed (`dsl/mod.rs:42`), which
  a function that evaluated another expression would trip over; none does.
- *Text path.* A negative matcher on a header part is always satisfied on raw text.
  Statuses are substrings there, so that an empty one is contained in any text.
  Binaries keep their case and regexes are not rewritten. For a negative matcher that is
  satisfied, the values that are present are collected.
- *Transforms and conditions.* A text that is well formed in an encoding by chance, such as the digits
  of a hex text given to a base64 decoder, is decoded and nothing is reported: what is not reported is that the
  data was not meant for the decoder. `DecodingIsAccountedFor` promises that each step not reported has decoded
  its data, so that encoding again leads back to the body. A gzip body is cut at 10 MiB without a report, and
  damage behind the cut is not noticed. A JSON path that is missing leaves
  empty data and reports no failure. Brackets after brackets or at the start of a
  path get one dot too many (`a[][]b` becomes `a.#..#.b`). Values that hold
  placeholders, operators or quotes change the condition they are put into, and whitespace at the ends of a
  value is lost unless the template puts quotes around it. A
  `contains` with an empty operand without quotes at either end is false, as trimming takes its blank.
- *Correlation.* The TOML in the module's documentation names the fields `type`
  and `match` (`correlation.rs:17-20`), which is not what the parser expects: a file written
  after it is skipped. `correlate_findings` says that it loads
  `rules/correlations/` and does not (485-487). A condition that asks for all of
  two kinds compares each finding's kind with both and never holds. These are disagreements between
  documentation and code as those above; they have no runs of their own.

## 4. Proofs

`StreamingMatcherProofs` proves every property of the streaming matcher for all
patterns, streams, chunks and buffers. The invariant `IInv` says that the buffer is the
last `MaxBuffer` bytes of the stream and that the reported ids lie between those
that occur in a part already scanned and those that occur in the whole. It is needed because
`ChunkingIndependent` alone is not inductive: that a new occurrence lies in the
scanned window follows from its length and from the buffer being the stream's
tail. No theorem but the refinement of `StreamSearch` assumes anything of the size of the buffer: recall and the
cancel theorem speak of the patterns of at most `MaxBuffer` + 1 bytes (`Carried`), which the window of a feed is long
enough for (`ScanWindowOfStream`), and these are all when the buffer holds the seam (`SeamFits`, `AllCarried`).
Recall and the refinement assume `Overlapping`; `StreamingFallback` shows what is left without.
`BufferIsTrailingWindow` and `SavingsAreEarned` are proved and have no run of their own.

`LruCacheProofs` proves, for both caches and any capacity and batch that
`LruCache` allows, type correctness and the bound on the size (also when the
tick wraps), transparency (for the AST cache as long as the tick does not wrap)
and that evictions take the least recently used entries (same assumption,
`NoWrap`). The strengthening is that entries have distinct ticks, none above `next_tick`.
With `NoWrap`, the AST cache implements `RecencyList`: the place of a key in the list is
one more than the number of newer entries, and every request, with or without an eviction,
is one step of the list.

`InterTemplateProofs` proves that the cache of exports and the exports agree
after any sequence of exports and clears (their conjunction with the types is
inductive as it stands), and, assuming `NoNameClash`, that the state implements
`ExportStore`. The assumption holds when no template id has a dot, and is what
the code would need and does not check: without it an export may overwrite
another template's variable. It goes on to the substitution loop, for any texts,
values and limit: `NothingLeft` needs to know of a call that is not over that the
loop has passed over whole references only, all of them settled
(`CallInv`). The point that is easy to get wrong is `Replace`, which leaves the text
before `start` as it is, so that references there stay settled. `TextAssumption` says that values
are sequences of tokens, `NameAssumption` that a name is a sequence of segments. `CallsKeepTheState` (a behaviour
with calls is, to the exports, one without) carries the theorems about the exports over.
`PlainIsSimultaneous` is proved from the second invariant of the loop, `PlainInv`: while no value
contains a reference, the text is the expanded text up to some closing braces of the input and the input
from there on (`ReplacedUpTo`), nothing after `start` and before that place opens a reference, and there were
at most as many substitutions as references up to it. It is needed because positions shift with
every value: a round is right because the next reference of the text is the next one of the
input, `Shift(n)` tokens further on (`ShiftedReference`), stray and unclosed braces included, and the limit is
large enough because each substitution has a reference of its own. Which pieces the
expanded text is made of (`ExpandedIsJoined`) is proved by way of a least counterexample.

`DatabaseCompileProofs` proves all properties of the `DatabaseCompile` run, for any
templates and every schedule of the workers. Its invariant `IInv` joins the shapes with four
accounts. `BatchInv`: a batch holds the sound values its worker has visited, each once and in order,
and each reference finds its text in the arena of the batch. `MergeInv`: the merged lists hold the
same of the templates merged. `PhaseInv`: no template is merged before all are
collected, and the groups, sets and absences are those of the entries. `ErrorInv`: an error blames a
template at fault. The properties speak of merged databases only, so that none
is inductive: order and attribution of merged references come from those of the batches
(`RefsJoin` says that joining two sound lists with a shift is sound, and serves
collecting, which appends one entry, as well as merging, which appends a batch).
Assumed are `TemplateAssumption` (templates are lists of requests, which are lists of matchers) and
`LimitAssumption`. `AttributionExact` assumes `ArenaFits`. That every regex is
in a set is proved when `ChunkSize <= SetLimit`, that is, when a set of as many
heavy regexes as a chunk has builds; `HeavyRegexes` shows that it takes this.

`DatabaseScanProofs` proves that every scan is exact, of any database that compiles, any response
and any order of the headers, under the same two hypotheses (`ScanIsExact`
states `ArenaFits` itself). There are two halves. The first is about the phases: `SoundPhase` says that the
hits of a phase are those of the values that belong to it, that the first hit of a value finds what the
template's value finds in the response, and that places in the loop tell hits apart. This is where arena, word groups, regex sets and
the dispatch of offsets between headers and body disappear; `SoundPhase` is proved of each
of the seven phases. The second half is the account of the loop, `ScanInv`: every hit of every phase is still to come or its
key is recorded; while hits are recorded only positive keys are emitted, and negative ones that fired were found;
the matches are the results of the emitted keys, each once. It is needed because an
absence is reported for keys no phase has recorded, so that the last phase is right only if none before it lost a
hit. Assumed are `ResponseAssumption` and `PatternAssumption` (texts are sequences, and no header
is called like a part). From it and the account of the compilation follows `TextAgreesWithScan`, for any
raw text without headers: a matcher's places in the text path are the
keys the scan has recorded, and the conditions are evaluated alike on both. `EmptyAssumption`
says what parsing does: the empty text is no number.

`ResponseProofs` proves all five properties of the `Response` run, for every response, chain of transforms, list of
extractors and condition. `DecodingIsAccountedFor` compares the body with the data encoded again by all
transforms that were not reported, which is not inductive, since a step adds its encoding at the inner end. `DecodeInv` says instead that there is a
history of the data, one entry per transform run, each the decoding of the one before or equal to it when the
transform failed. From it `HistoryIsWithin` shows that what the chain has come through stays texts of which each
encoding is spelled in one way, none longer than the body, and `HistoryIsUndone` that encoding again leads back entry by entry,
up to an end that was cut.
`ExtractInv` says of the extractors run so far that the last that yields wins.

`SubstitutionIsSimultaneous` takes two more invariants. With `ExtractInv`, `TextInv` gives that body, names and values are
texts over `Tokens`, through every decoder and extractor (`TransformedIsText`, `YieldsAreTexts`).
`SubstituteInv` says that the condition so far is the original one with the variables already
taken substituted all at once, and that the verdict is that of the text. It is kept by `OneMoreVariable`: while names and values have no
braces and braces alternate in the condition, substituting one more variable after some others is substituting them all at once.
Positions shift with each value; the lemma avoids counting them by cutting a shortest counterexample at its first placeholder
(`FirstPlaceholder`) and substituting the parts each on its own (`SubstitutedInParts`: no placeholder is cut in two).

`ComparisonSurvives` follows the verdict back to the operands. The placeholders of a comparison are those of its operands
(`ComparisonIsSubstituted`: operators, quotes and blanks are no braces). Values bring whitespace, and trimming the condition takes what is at its ends:
padding, of which an operand may have any amount without a change of meaning (`PaddingIsIgnored`, `ComparisonIsTrimmed`). The
operator is found where it was put (`OperandsAreFound`, for one with blanks and one without), also where the operand next to it
begins or ends with blanks of its own, and normalizing an operand gives what it means: itself between quotes, else itself trimmed
(`OperandIsMeant`).
It needs the names to be free of operators, quotes and blanks, too: a name that holds
an operator and has no variable stays in the condition and would be split at.

`SpellingsAgree` is proved token by token. Each token of a path leaves a piece of at most two tokens in the spelling
(`PathIsSpelled`), and normalizing, which looks one token ahead and one behind, turns the pieces of the
spelling back into the tokens of the path (`TokenIsRestored`, one case per kind of neighbour;
`SpellingIsNormalized` puts them together). The paths are those of `IsPath`: keys and brackets between dots, with no brackets
at the start or after brackets, which the code does not normalize to a path (see the known limits).

Assumed are `TokensAssumption` (the tokens that the code itself writes or looks for are tokens, of which there may be any others), `DocumentsAssumption`
(what gjson finds has a text, unless it is null), `ReadableAssumption` (what is well formed in an encoding is a text; any text may be),
`MaxInflatedAssumption` and `RequestAssumption` (the shape of a call; of its body, that the encoding of bytes which were read from a text
is that text, `IsCanonical`). There are no assumptions
on the other tokens; that the named ones differ follows from their names.
What decoders, paths and regexes make of a text is as in `ResponseText`.

`SequenceLemmas` has what these proofs share: concatenations and parts of sequences element by
element, least and greatest elements of sets of naturals, and pieces joined one after the other (`JoinsExist` proves that the
recursion defines a function).

`CorrelationProofs` proves all five properties of `Correlation` for any files,
listings, findings, kinds and tags. `RuleInv` joins the types, `OneRulePerId` and
`RulesAreLoaded` with `LoadInv`, which says where each rule of a half-loaded engine came
from and which files it owes: unique ids survive `AddBuiltin` because of its test and an
override because it replaces in place. `InfoInv` says that what is known of a target
is the union of the findings read so far, and `ReportInv` that the
correlations are those of the targets taken before and of the rules
evaluated of the current one; `CorrelationsExact` follows when both loops have ended.

What stays with TLC:

- The six properties of the DSL. Expressions are trees, and the parser, the evaluator and the references they
  are compared with recurse over them. Their modules use recursive operators, which puts `Dsl` beyond the SMT
  prover, and what they say of all expressions takes induction over trees, whose theorems have operator
  parameters that the provers cannot instantiate.
- Liveness and ENABLED: that substitution ends (`SubstitutionTerminates`). What carries it is proved: every round ends
  the call, uses up a substitution or passes over more of an unchanged text (`EveryRoundAdvances`). That under the
  fairness of the loop such a call reaches its end is left to TLC.
- What needs a run by its nature: that the hypotheses of the theorems are needed
  (`HeavyRegexes`, `StreamingFallback`, `RegexCache`).

## 5. Not modelled

Thirty of the forty-seven DSL functions: those whose result is random, a hash, an encoding, a
date or a gadget (`rand_*`, `md5`, `base64`, `date_time`...), `json_extract`, `compare_versions`, and
variants of modelled ones (`all_match`, `any_match`, `regex_find_all`, `trim`,
`reverse`, `line_count`, `dec_to_hex`, ...). None has state. The escapes `\r` and
`\t` are left out, and so are template ids and the formatting of errors. A regex is reduced to the bytes it matches one at a time, so greedy or
anchored matching is not covered; an encoding is reduced to a token, and gjson to a table from paths to values. How a response's header index picks one of several headers of
the same name is outside this repository.

## 6. Plan

What is left, in order of importance:

1. The functions of the DSL that are not modelled, as far as they have a budget or a boundary.
2. Proofs about the DSL: the lexer with a recursive function over the text's positions in place of the recursive
   operators, so that `LexingIsFaithful` can be proved like `SpellingsAgree`.
