-------------------------- MODULE DatabaseCompile --------------------------
(***************************************************************************)
(* database/compile.rs: compiling templates into one CompiledDatabase.     *)
(* The templates are collected in parallel, each into a batch of its own;  *)
(* the batches are then merged in the order of the templates, and the      *)
(* word automaton, the regex sets and the list of negative matchers are    *)
(* built from the merged entries.                                          *)
(*                                                                         *)
(* The text of a value is abstract: the constants say what the parsers     *)
(* and the regex engine make of it.  A regex is the set of the bytes it    *)
(* matches, one at a time; the empty regex matches the empty string.       *)
(* Indices count from 1 where the code counts from 0, except pattern_index *)
(* whose arithmetic matters.                                               *)
(***************************************************************************)
EXTENDS Integers, Sequences, FiniteSets

CONSTANTS
    HeaderName,   \* Names of MatchPart::Named, in lower case.
    TemplateSets, \* The slices of templates a caller may compile.
    WordBytes,    \* Text -> bytes: value.as_bytes().
    HexBytes,     \* Text -> bytes, defined where hex_decode succeeds.
    Number,       \* Text -> Nat, defined where the text parses as a number.
    Class,        \* Text -> set of bytes, defined where the regex compiles.
    Rewritten,    \* Text -> text: template_var_regex_pattern, pcre_compat_fix.
    Holes,        \* The texts that contain a template hole, "{{".
    Heavy,        \* Regexes large enough that few of them fit in one RegexSet,
    SetLimit,     \* namely this many: RegexSet has a size limit.
    ChunkSize,    \* Regexes per RegexSet: 200 in the code.
    U16Max,       \* u16::MAX, the largest request, matcher or value index.
    U32Max        \* u32::MAX, the largest index into the pattern arena.

ASSUME LimitAssumption ==
    /\ ChunkSize \in Nat \ {0}
    /\ SetLimit \in Nat \ {0}
    /\ U16Max \in Nat \ {0}
    /\ U32Max \in Nat \ {0}

\* The unnamed parts of a response.
Part == {"Body", "Header", "All"}

\* A MatcherDef; every text has bytes.  A template is a sequence of requests, a
\* request one of matchers.
Matcher == [kind : {"Word", "Binary", "Regex", "Status", "Size", "Dsl"}, part : Part \cup HeaderName,
            negative : BOOLEAN, values : Seq(DOMAIN WordBytes)]

ASSUME TemplateAssumption == TemplateSets \subseteq Seq(Seq(Seq(Matcher)))

VARIABLES
    templates,    \* The slice being compiled.
    phase,        \* How far compile has come, see Phases.
    error,        \* Why the compilation failed, and for which template (0: none).
    todo,         \* Per template, the matcher values its worker has not visited.
    batches,      \* Per template, its TemplatePatternBatch.
    merged,       \* The number of batches merged.
    patterns,     \* The pattern arena.
    refs,         \* Every PatternRef with the data of its entry, in merge order.
    dsl_matchers,
    word_groups,  \* Unique bytes of an automaton pattern -> its PatternRefs.
    regex_sets,   \* Per part, the index chunks of the RegexSets that were built.
    negative_matchers

collecting == <<todo, batches>>
merging    == <<merged, patterns, refs, dsl_matchers>>
indexes    == <<word_groups, regex_sets, negative_matchers>>
database   == <<templates, phase, error, collecting, merging, indexes>>

Phases == {"idle", "collect", "automaton", "sets", "ready", "failed"}

Empty == ""

NoError    == [kind |-> "None", template |-> 0]
EmptyBatch == [patterns |-> <<>>, refs |-> <<>>, dsl |-> <<>>]

Named(part) == part \in HeaderName

-----------------------------------------------------------------------------
\* What one value of a matcher becomes.

\* The text of the regex that runs: template holes are always expanded, and
\* PCRE-only syntax is rewritten when the regex does not compile as it stands.
RuntimeText(value) ==
    IF value \in DOMAIN Rewritten /\ (value \in Holes \/ value \notin DOMAIN Class)
    THEN Rewritten[value]
    ELSE value

Accepted(kind, value) ==
    \/ kind = "Word"
    \/ kind = "Binary" /\ value \in DOMAIN HexBytes
    \/ kind = "Regex"  /\ RuntimeText(value) \in DOMAIN Class
    \/ kind = "Status" /\ value \in DOMAIN Number /\ Number[value] <= U16Max
    \/ kind = "Size"   /\ value \in DOMAIN Number

\* The texts interned for a value; its pattern_index is that of the last.
Interned(kind, value) ==
    IF kind = "Regex" /\ RuntimeText(value) # value
    THEN <<value, RuntimeText(value)>>
    ELSE <<value>>

\* What the entry keeps beside its PatternRef.
EntryData(kind, value) ==
    CASE kind = "Word"               -> WordBytes[value]
      [] kind = "Binary"             -> HexBytes[value]
      [] kind = "Regex"              -> Class[RuntimeText(value)]
      [] kind \in {"Status", "Size"} -> Number[value]

-----------------------------------------------------------------------------
\* The slots <<request, matcher, value>> a worker visits.  A DSL matcher is
\* stored whole, in one slot with value 0.
ValueSlots(def, r, m) ==
    IF def.kind = "Dsl" THEN {<<r, m, 0>>} ELSE {<<r, m, v>> : v \in DOMAIN def.values}

Slots(template) ==
    UNION {UNION {ValueSlots(template[r][m], r, m) : m \in DOMAIN template[r]} :
              r \in DOMAIN template}

Before(a, b) ==
    \/ a[1] < b[1]
    \/ a[1] = b[1] /\ a[2] < b[2]
    \/ a[1] = b[1] /\ a[2] = b[2] /\ a[3] < b[3]

\* A slip: visit the last slot first.
LastSlot(t) == CHOOSE s \in todo[t] : \A other \in todo[t] : other = s \/ Before(other, s)

Slot(t) == CHOOSE s \in todo[t] : \A other \in todo[t] : other = s \/ Before(s, other)

Def(t, s) == templates[t][s[1]][s[2]]

Value(t, s) == Def(t, s).values[s[3]]

IsDsl(t, s) == Def(t, s).kind = "Dsl"

\* A slip: drop empty regexes with the others.
SkippedOfAnyKind(t, s) == ~IsDsl(t, s) /\ Value(t, s) = Empty

\* Empty values are dropped, except empty regexes.
Skipped(t, s) == Def(t, s).kind \notin {"Dsl", "Regex"} /\ Value(t, s) = Empty

\* checked_u16_index refuses the 0-based index of position i.
TooFar(i) == i - 1 > U16Max

\* The arena of the batch cannot index the last text of the value.
ArenaFull(t, s) ==
    Len(batches[t].patterns) + Len(Interned(Def(t, s).kind, Value(t, s))) - 1 > U32Max

OverLimit(t, s) ==
    \/ ~IsDsl(t, s) /\ Len(Def(t, s).values) > U16Max
    \/ ~Skipped(t, s) /\ (TooFar(s[1]) \/ TooFar(s[2]))
    \/ ~IsDsl(t, s) /\ ~Skipped(t, s) /\ ArenaFull(t, s)

Malformed(t, s) ==
    ~IsDsl(t, s) /\ ~Skipped(t, s) /\ ~Accepted(Def(t, s).kind, Value(t, s))

-----------------------------------------------------------------------------
Init ==
    /\ templates         = <<>>
    /\ phase             = "idle"
    /\ error             = NoError
    /\ todo              = <<>>
    /\ batches           = <<>>
    /\ merged            = 0
    /\ patterns          = <<>>
    /\ refs              = <<>>
    /\ dsl_matchers      = <<>>
    /\ word_groups       = <<>>
    /\ regex_sets        = [p \in Part |-> {}]
    /\ negative_matchers = {}

\* Any error returns from compile and drops whatever was built.
Fail(kind, t) ==
    /\ phase' = "failed"
    /\ error' = [kind |-> kind, template |-> t]
    /\ UNCHANGED <<templates, collecting, merging, indexes>>

\* CompiledDatabase::compile is called; each call builds a database of its own.
Compile(slice) ==
    /\ phase \in {"idle", "ready", "failed"}
    /\ phase'     = IF Len(slice) > U32Max THEN "failed" ELSE "collect"
    /\ error'     = IF Len(slice) > U32Max
                    THEN [kind |-> "TemplateValidation", template |-> 0] ELSE NoError
    /\ templates' = slice
    /\ todo'      = [t \in DOMAIN slice |-> Slots(slice[t])]
    /\ batches'   = [t \in DOMAIN slice |-> EmptyBatch]
    /\ merged'    = 0
    /\ patterns' = <<>> /\ refs' = <<>> /\ dsl_matchers' = <<>>
    /\ word_groups' = <<>>
    /\ regex_sets' = [p \in Part |-> {}]
    /\ negative_matchers' = {}

\* The worker of template t advances to its next slot.
Visit(t) ==
    /\ phase = "collect"
    /\ todo[t] # {}
    /\ ~OverLimit(t, Slot(t))
    /\ ~Malformed(t, Slot(t))
    /\ todo' = [todo EXCEPT ![t] = @ \ {Slot(t)}]
    /\ UNCHANGED <<templates, phase, error, merging, indexes>>

CollectDsl(t) ==
    /\ Visit(t)
    /\ IsDsl(t, Slot(t))
    /\ batches' = [batches EXCEPT ![t].dsl = Append(@, <<t, Slot(t)[1], Slot(t)[2]>>)]

SkipEmpty(t) ==
    /\ Visit(t)
    /\ Skipped(t, Slot(t))
    /\ UNCHANGED batches

\* A slip: the index of the text after the one interned.
RefPastTheEnd(t, s, index) ==
    [key |-> <<t>> \o s, kind |-> Def(t, s).kind, part |-> Def(t, s).part,
     negative |-> Def(t, s).negative, pattern_index |-> index + 1,
     data |-> EntryData(Def(t, s).kind, Value(t, s))]

\* The PatternRef of a slot, with the data of its entry.
NewRef(t, s, index) ==
    [key |-> <<t>> \o s, kind |-> Def(t, s).kind, part |-> Def(t, s).part,
     negative |-> Def(t, s).negative, pattern_index |-> index,
     data |-> EntryData(Def(t, s).kind, Value(t, s))]

CollectValue(t) ==
    /\ Visit(t)
    /\ ~IsDsl(t, Slot(t))
    /\ ~Skipped(t, Slot(t))
    /\ LET arena == batches[t].patterns \o Interned(Def(t, Slot(t)).kind, Value(t, Slot(t)))
       IN  batches' = [batches EXCEPT
              ![t].patterns = arena,
              ![t].refs     = Append(@, NewRef(t, Slot(t), Len(arena) - 1))]

\* A slip: blame the last template of the slice.
RejectLast(t) ==
    /\ phase = "collect"
    /\ todo[t] # {}
    /\ \/ OverLimit(t, Slot(t)) /\ Fail("TemplateValidation", Len(templates))
       \/ Malformed(t, Slot(t)) /\ ~OverLimit(t, Slot(t)) /\ Fail("PatternCompile", Len(templates))

\* A worker's error ends the whole collection.
Reject(t) ==
    /\ phase = "collect"
    /\ todo[t] # {}
    /\ \/ OverLimit(t, Slot(t)) /\ Fail("TemplateValidation", t)
       \/ Malformed(t, Slot(t)) /\ ~OverLimit(t, Slot(t)) /\ Fail("PatternCompile", t)

-----------------------------------------------------------------------------
\* A slip: the references of one kind of entry keep the indices of their batch.
ShiftedButRegexes(batch, offset) ==
    [i \in DOMAIN batch.refs |->
        IF batch.refs[i].kind = "Regex" THEN batch.refs[i]
        ELSE [batch.refs[i] EXCEPT !.pattern_index = (@ + offset) % (U32Max + 1)]]

\* The batch's indices move by its offset in the arena, a u32 addition.
Shifted(batch, offset) ==
    [i \in DOMAIN batch.refs |->
        [batch.refs[i] EXCEPT !.pattern_index = (@ + offset) % (U32Max + 1)]]

Collected == \A t \in DOMAIN templates : todo[t] = {}

MergeBatch ==
    /\ phase = "collect"
    /\ Collected
    /\ merged < Len(templates)
    /\ \/ /\ Len(patterns) > U32Max
          /\ Fail("TemplateValidation", 0)
       \/ /\ Len(patterns) <= U32Max
          /\ LET batch == batches[merged + 1]
             IN  /\ refs'         = refs \o Shifted(batch, Len(patterns))
                 /\ patterns'     = patterns \o batch.patterns
                 /\ dsl_matchers' = dsl_matchers \o batch.dsl
          /\ merged' = merged + 1
          /\ UNCHANGED <<templates, phase, error, collecting, indexes>>

PatternOf(i) == patterns[refs[i].pattern_index + 1]

\* The unnamed words and binaries share one automaton.
WordIndices ==
    {i \in DOMAIN refs : refs[i].kind \in {"Word", "Binary"} /\ ~Named(refs[i].part)}

\* A slip: the automaton pattern belongs to the first entry with its bytes.
FirstOfGroup ==
    [raw \in {refs[i].data : i \in WordIndices} |->
        {i \in WordIndices : refs[i].data = raw /\
            \A j \in WordIndices : refs[j].data = raw => i <= j}]

\* Entries with identical bytes share one pattern of the automaton.
Groups ==
    [raw \in {refs[i].data : i \in WordIndices} |->
        {i \in WordIndices : refs[i].data = raw}]

\* Both Aho-Corasick builders may refuse the patterns.
BuildWordAutomaton ==
    /\ phase = "collect"
    /\ Collected
    /\ merged = Len(templates)
    /\ \/ /\ WordIndices # {}
          /\ Fail("PatternCompile", 0)
       \/ /\ word_groups' = Groups
          /\ phase' = "automaton"
          /\ UNCHANGED <<templates, error, collecting, merging, regex_sets, negative_matchers>>

RegexIndices(part) == {i \in DOMAIN refs : refs[i].kind = "Regex" /\ refs[i].part = part}

\* The position of i in the indices s, from 0.
Rank(i, s) == Cardinality({j \in s : j < i})

\* The indices that share a RegexSet with i.
ChunkOf(i, s) == {j \in s : Rank(j, s) \div ChunkSize = Rank(i, s) \div ChunkSize}

\* A slip: cut s into full chunks only.
FullChunksOf(s) == {c \in {ChunkOf(i, s) : i \in s} : Cardinality(c) = ChunkSize}

\* The chunks of at most ChunkSize indices that s is cut into.
ChunksOf(s) == {ChunkOf(i, s) : i \in s}

InvalidIn(chunk) == {i \in chunk : PatternOf(i) \notin DOMAIN Class}

\* RegexSet::new on the texts of a chunk.
Builds(chunk) ==
    /\ InvalidIn(chunk) = {}
    /\ Cardinality({i \in chunk : PatternOf(i) \in Heavy}) <= SetLimit

\* A chunk that does not build is an error when one of its regexes is invalid on
\* its own; otherwise nothing is kept of it.
BuildRegexSets ==
    /\ phase = "automaton"
    /\ IF \E p \in Part : \E chunk \in ChunksOf(RegexIndices(p)) : InvalidIn(chunk) # {}
       THEN Fail("PatternCompile", 0)
       ELSE /\ regex_sets' = [p \in Part |-> {c \in ChunksOf(RegexIndices(p)) : Builds(c)}]
            /\ phase' = "sets"
            /\ UNCHANGED <<templates, error, collecting, merging, word_groups, negative_matchers>>

NegativeRefs ==
    {[key |-> refs[i].key, value |-> PatternOf(i), values |-> <<PatternOf(i)>>] :
        i \in {j \in DOMAIN refs : refs[j].negative}}

DslDef(at) == templates[at[1]][at[2]][at[3]]

\* Every value of every DSL matcher in `ats`, by key.
DslValues(ats) ==
    UNION {{[key |-> Append(at, v), value |-> DslDef(at).values[v], values |-> DslDef(at).values] :
               v \in DOMAIN DslDef(at).values} : at \in ats}

NegativeDsl ==
    DslValues({dsl_matchers[i] : i \in
        {j \in DOMAIN dsl_matchers : DslDef(dsl_matchers[j]).negative}})

FlattenNegatives ==
    /\ phase = "sets"
    /\ \/ \E entry \in NegativeDsl :
             TooFar(entry.key[4]) /\ Fail("TemplateValidation", entry.key[1])
       \/ /\ \A entry \in NegativeDsl : ~TooFar(entry.key[4])
          /\ negative_matchers' = NegativeRefs \cup NegativeDsl
          /\ phase' = "ready"
          /\ UNCHANGED <<templates, error, collecting, merging, word_groups, regex_sets>>

CompileNext ==
    \/ \E slice \in TemplateSets : Compile(slice)
    \/ \E t \in DOMAIN templates :
          CollectDsl(t) \/ SkipEmpty(t) \/ CollectValue(t) \/ Reject(t)
    \/ MergeBatch
    \/ BuildWordAutomaton
    \/ BuildRegexSets
    \/ FlattenNegatives

CompileSpec == Init /\ [][CompileNext]_database

-----------------------------------------------------------------------------
ValueAt(key) == templates[key[1]][key[2]][key[3]].values[key[4]]

KindAt(key) == templates[key[1]][key[2]][key[3]].kind

\* The slots a template asks to match: every regex, the empty one included,
\* which occurs in any text, and every value of another kind that has a byte.
Asked(t) ==
    {s \in Slots(templates[t]) :
        LET kind == Def(t, s).kind
        IN  kind = "Regex" \/ (kind # "Dsl" /\ Value(t, s) # Empty)}

\* The keys of the values the templates ask to match.
WantedRefs == UNION {{<<t>> \o s : s \in Asked(t)} : t \in DOMAIN templates}

DslMatchers ==
    UNION {{<<t, s[1], s[2]>> : s \in {u \in Slots(templates[t]) : IsDsl(t, u)}} :
              t \in DOMAIN templates}

WantedDsl == {entry.key : entry \in DslValues(DslMatchers)}

Wanted == WantedRefs \cup WantedDsl

Faults(t) == {s \in Slots(templates[t]) : OverLimit(t, s) \/ Malformed(t, s)}

KeyBefore(a, b) == a[1] < b[1] \/ (a[1] = b[1] /\ Before(Tail(a), Tail(b)))

\* The shape of the compiler's state.
TypeOK ==
    /\ phase \in Phases
    /\ error.template \in 0..Len(templates)
    /\ DOMAIN todo = DOMAIN templates /\ DOMAIN batches = DOMAIN templates
    /\ \A t \in DOMAIN templates : todo[t] \subseteq Slots(templates[t])
    /\ merged \in 0..Len(templates)
    /\ \A t \in DOMAIN batches : \A i \in DOMAIN batches[t].refs :
          batches[t].refs[i].pattern_index \in 0..Len(batches[t].patterns) - 1
    /\ \A i \in DOMAIN refs : refs[i].pattern_index \in 0..Len(patterns) - 1

\* No text lies beyond the reach of a u32 index.
ArenaFits == Len(patterns) <= U32Max + 1

\* A reference points at the very text it was made for, after any interleaving
\* of the workers and any merge, as long as indices reach the whole arena: the
\* wrong text would report a match of one template under another's pattern.
AttributionExact ==
    ArenaFits =>
        \A i \in DOMAIN refs :
            /\ refs[i].pattern_index + 1 \in DOMAIN patterns
            /\ PatternOf(i) = IF KindAt(refs[i].key) = "Regex"
                              THEN RuntimeText(ValueAt(refs[i].key)) ELSE ValueAt(refs[i].key)

\* The result of a compilation does not depend on which worker ended first: the
\* references are in the order of the templates, each exactly once.
RefsInTemplateOrder ==
    /\ \A i, j \in DOMAIN refs : i < j => KeyBefore(refs[i].key, refs[j].key)
    /\ \A i, j \in DOMAIN dsl_matchers : i < j => Before(dsl_matchers[i], dsl_matchers[j])

\* A database that compiles has an entry for every value of the templates that
\* is not an empty one, and an absence to report for every negative one.
NothingDropped ==
    phase = "ready" =>
        /\ {refs[i].key : i \in DOMAIN refs} = WantedRefs
        /\ {dsl_matchers[i] : i \in DOMAIN dsl_matchers} = DslMatchers
        /\ {entry.key : entry \in negative_matchers} =
              {k \in Wanted : templates[k[1]][k[2]][k[3]].negative}

\* One bad value anywhere fails the whole compilation, and the template an error
\* names is one that has a value at fault (or a DSL value beyond the limit).
FailsClosed ==
    /\ phase = "ready" =>
          \A t \in DOMAIN templates : \A s \in Slots(templates[t]) : ~Malformed(t, s)
    /\ phase = "failed" /\ error.template # 0 =>
          \/ Faults(error.template) # {}
          \/ \E k \in WantedDsl : k[1] = error.template /\ TooFar(k[4])

\* Every unnamed regex is in some RegexSet, so that a scan looks for it.
RegexesAreScanned ==
    phase = "ready" =>
        \A i \in DOMAIN refs :
            refs[i].kind = "Regex" /\ ~Named(refs[i].part) =>
                \E chunk \in regex_sets[refs[i].part] : i \in chunk
=============================================================================
