---------------------------- MODULE DatabaseScan ----------------------------
(***************************************************************************)
(* database/scan.rs and regex_scan.rs: scanning one response with a        *)
(* compiled database.  A scan goes through fixed phases that share the     *)
(* lists of matches, of emitted keys (seen) and of negative keys whose     *)
(* pattern was present (fired); the last phase reports the absences.       *)
(*                                                                         *)
(* The hits of a phase are the rounds of its innermost loop that find      *)
(* something; one step takes the next of them.                             *)
(***************************************************************************)
EXTENDS DatabaseCompile, SequencesExt

CONSTANTS
    Fold,       \* Byte -> byte: the ASCII lower case.
    Responses   \* The responses a caller may scan.

IsSequence(s) == s \in Seq(Range(s))

\* The shape of a response; a header of a name has the value that the header
\* index points at.
ASSUME ResponseAssumption ==
    \A resp \in Responses :
        /\ IsSequence(resp.headers)
        /\ IsSequence(resp.body)
        /\ \A name \in DOMAIN resp.header_map : IsSequence(resp.header_map[name])

\* The bytes of a word and of a binary are sequences, and no header is named
\* like an unnamed part.
ASSUME PatternAssumption ==
    /\ \A value \in DOMAIN WordBytes : IsSequence(WordBytes[value])
    /\ \A value \in DOMAIN HexBytes : IsSequence(HexBytes[value])
    /\ HeaderName \cap Part = {}

VARIABLES
    stage,      \* The phase of the scan; "idle", "done" or "error".
    response,   \* The response of the scan.
    names,      \* The headers that are still to be visited.
    pending,    \* The hits of the phase that are still to be recorded.
    matches,    \* The matches found so far.
    seen,       \* Keys of values that were emitted.
    fired       \* Keys of negative values that were present.

scanning == <<stage, response, names, pending, matches, seen, fired>>
vars     == <<database, scanning>>

NoResponse == [status |-> 0]

-----------------------------------------------------------------------------
AllBytes(resp) == resp.headers \o resp.body

\* The 0-based offsets at which `needle` occurs in s.
Occurrences(needle, s) ==
    {n \in 0..Len(s) - Len(needle) : \A j \in DOMAIN needle : s[n + j] = needle[j]}

\* The same up to ASCII case.
OccurrencesIgnoringCase(needle, s) ==
    {n \in 0..Len(s) - Len(needle) : \A j \in DOMAIN needle : Fold[s[n + j]] = Fold[needle[j]]}

\* What a regex finds in s.
Finds(class, s) ==
    IF class = {} THEN {[offset |-> n, text |-> Empty] : n \in 0..Len(s)}
    ELSE {[offset |-> n - 1, text |-> s[n]] : n \in {m \in DOMAIN s : s[m] \in class}}

\* The first of some finds.
Leftmost(finds) == {f \in finds : \A g \in finds : f.offset <= g.offset}

\* Of each distinct text the first find.
Distinct(finds) == {f \in finds : \A g \in finds : g.text = f.text => f.offset <= g.offset}

\* The part of the response a matcher of an unnamed part looks at.
View(resp, part) ==
    CASE part = "All" -> AllBytes(resp) [] part = "Header" -> resp.headers
      [] part = "Body" -> resp.body

-----------------------------------------------------------------------------
\* A round that finds something for entry i; `at` is its place in the loop.
Hit(i, finds, at) ==
    [key |-> refs[i].key, negative |-> refs[i].negative, values |-> <<PatternOf(i)>>,
     finds |-> finds, at |-> at]

Literal(i, offset) == {[text |-> PatternOf(i), offset |-> offset]}

\* The overlapping search reports occurrences by their end, the longest first;
\* each is a hit of the entries of its group whose part it lies in.
WordHits(resp) ==
    LET header_len == Len(resp.headers)
        hit(i, start, end) ==
            CASE refs[i].part = "All" -> {Hit(i, Literal(i, start), <<end, start, i>>)}
              [] refs[i].part = "Header" /\ end <= header_len ->
                    {Hit(i, Literal(i, start), <<end, start, i>>)}
              [] refs[i].part = "Body" /\ start >= header_len ->
                    {Hit(i, Literal(i, start - header_len), <<end, start, i>>)}
              [] OTHER -> {}
    IN  UNION {UNION {hit(i, start, start + Len(raw)) :
                         i \in word_groups[raw],
                         start \in OccurrencesIgnoringCase(raw, AllBytes(resp))} :
                  raw \in DOMAIN word_groups}

\* The entries of a header name, on the value that the header index points at:
\* words ignore case, binaries do not, and a regex reports its first match.
NamedHits(name) ==
    LET text == response.header_map[name]
        entries(kind) ==
            {i \in DOMAIN refs : refs[i].kind = kind /\ Named(refs[i].part) /\ refs[i].part = name}
    IN  {Hit(i, Literal(i, 0), <<1, i, 0>>) :
            i \in {j \in entries("Word") :
                      OccurrencesIgnoringCase(WordBytes[PatternOf(j)], text) # {}}}
        \cup {Hit(i, Literal(i, 0), <<2, i, 0>>) :
                 i \in {j \in entries("Binary") : Occurrences(refs[j].data, text) # {}}}
        \cup {Hit(i, Leftmost(Finds(refs[i].data, text)), <<3, i, 0>>) :
                 i \in {j \in entries("Regex") : Finds(refs[j].data, text) # {}}}

\* regex_set_scan: the sets of one part say which regexes match, and each of
\* those then reports where.
RegexHits(part) ==
    {Hit(i, Finds(refs[i].data, View(response, part)), <<i, 0, 0>>) :
        i \in {j \in UNION regex_sets[part] :
                  Finds(Class[PatternOf(j)], View(response, part)) # {}}}

\* The status and the size indexes.
NumberHits ==
    LET entries(kind, number) == {i \in DOMAIN refs : refs[i].kind = kind /\ refs[i].data = number}
    IN  {Hit(i, Literal(i, 0), <<1, i, 0>>) : i \in entries("Status", response.status)}
        \cup {Hit(i, Literal(i, 0), <<2, i, 0>>) : i \in entries("Size", response.content_length)}

\* The value v of the n-th DSL matcher.
DslHit(n, v) ==
    LET def == DslDef(dsl_matchers[n])
    IN  [key |-> Append(dsl_matchers[n], v), negative |-> def.negative, values |-> def.values,
         finds |-> {[text |-> def.values[v], offset |-> 0]}, at |-> <<n, v, 0>>]

\* The values of the DSL matchers that are true of the response.
DslHits ==
    UNION {{DslHit(n, v) :
               v \in {u \in DOMAIN DslDef(dsl_matchers[n]).values :
                         DslDef(dsl_matchers[n]).values[u] \in response.true_dsl}} :
              n \in DOMAIN dsl_matchers}

-----------------------------------------------------------------------------
Scan(resp) ==
    /\ phase = "ready"
    /\ stage \in {"idle", "done", "error"}
    /\ stage'    = "words"
    /\ response' = resp
    /\ names'    = {}
    /\ pending'  = WordHits(resp)
    /\ matches' = <<>> /\ seen' = {} /\ fired' = {}
    /\ UNCHANGED database

\* The element of a set of finds at position n, in the order of the text.
Nth(finds, n) == CHOOSE f \in finds : Cardinality({g \in finds : g.offset <= f.offset}) = n

\* A text that a hit finds again is emitted once, where it occurs first.
Emissions(hit) ==
    [n \in 1..Cardinality(Distinct(hit.finds)) |->
        LET find == Nth(Distinct(hit.finds), n)
        IN  [key |-> hit.key, values |-> hit.values, value |-> find.text, offset |-> find.offset,
             negative |-> FALSE]]

NextHit == CHOOSE hit \in pending : \A other \in pending : other = hit \/ Before(hit.at, other.at)

Recording == {"words", "named", "Body", "Header", "All", "numbers", "dsl"}

\* A true DSL value whose index does not fit fails the scan.
Unusable(hit) == stage = "dsl" /\ TooFar(hit.key[4])

\* record_hit, and what regex_set_scan and the DSL loop have in its place: the
\* pattern of an entry was present.
RecordHit ==
    /\ stage \in Recording
    /\ pending # {}
    /\ ~Unusable(NextHit)
    /\ pending' = pending \ {NextHit}
    /\ LET hit == NextHit
       IN  \/ hit.negative /\ fired' = fired \cup {hit.key} /\ UNCHANGED <<seen, matches>>
           \/ ~hit.negative /\ hit.key \in seen /\ UNCHANGED <<seen, fired, matches>>
           \/ /\ ~hit.negative /\ hit.key \notin seen
              /\ seen' = seen \cup {hit.key}
              /\ matches' = matches \o Emissions(hit)
              /\ UNCHANGED fired
    /\ UNCHANGED <<database, stage, response, names>>

FailScan ==
    /\ stage = "dsl"
    /\ pending # {}
    /\ Unusable(NextHit)
    /\ stage'   = "error"
    /\ matches' = <<>>
    /\ pending' = {}
    /\ UNCHANGED <<database, response, names, seen, fired>>

\* The loops of a phase have ended, and `next` begins with these hits.
Enter(next, hits) ==
    /\ pending = {}
    /\ stage'   = next
    /\ pending' = hits
    /\ UNCHANGED <<database, response, matches, seen, fired>>

\* The header index is a hash map: its names come in any order.
VisitHeader ==
    /\ stage = "named"
    /\ \E name \in names :
          /\ names' = names \ {name}
          /\ Enter("named", NamedHits(name))

NextPhase ==
    \/ stage = "words"   /\ Enter("named", {}) /\ names' = DOMAIN response.header_map
    \/ /\ names' = names
       /\ \/ stage = "named" /\ names = {} /\ Enter("Body", RegexHits("Body"))
          \/ stage = "Body"    /\ Enter("Header", RegexHits("Header"))
          \/ stage = "Header"  /\ Enter("All", RegexHits("All"))
          \/ stage = "All"     /\ Enter("numbers", NumberHits)
          \/ stage = "numbers" /\ Enter("dsl", DslHits)
          \/ stage = "dsl"     /\ Enter("absence", negative_matchers)
          \/ stage = "absence" /\ Enter("done", {})

\* emit_negative for a negative matcher that did not fire.
ReportAbsence ==
    /\ stage = "absence"
    /\ \E negative \in pending :
          /\ pending' = pending \ {negative}
          /\ \/ negative.key \in fired \cup seen /\ UNCHANGED <<matches, seen>>
             \/ /\ negative.key \notin fired \cup seen
                /\ seen' = seen \cup {negative.key}
                /\ matches' = Append(matches,
                      [key |-> negative.key, values |-> negative.values, value |-> negative.value,
                       offset |-> 0, negative |-> TRUE])
    /\ UNCHANGED <<database, stage, response, names, fired>>

ScanNext ==
    \/ \E resp \in Responses : Scan(resp)
    \/ RecordHit
    \/ FailScan
    \/ VisitHeader
    \/ NextPhase
    \/ ReportAbsence

ScanInit ==
    /\ Init
    /\ stage    = "idle"
    /\ response = NoResponse
    /\ names    = {}
    /\ pending  = {}
    /\ matches  = <<>>
    /\ seen     = {}
    /\ fired    = {}

\* A database is not changed by a scan, so that compiling after one would only
\* repeat what compiling before one does.
CompileStep ==
    /\ stage = "idle"
    /\ CompileNext
    /\ UNCHANGED scanning

Next == CompileStep \/ ScanNext

Spec == ScanInit /\ [][Next]_vars

-----------------------------------------------------------------------------
\* What a scan should report, stated value by value on the templates, without
\* the arena, the groups, the regex sets or the dispatch on offsets.

\* What is found of a value of a matcher.
Found(def, value) ==
    LET named == Named(def.part)
        absent == named /\ def.part \notin DOMAIN response.header_map
        text == IF named THEN response.header_map[def.part] ELSE View(response, def.part)
        at(offsets) == {[text |-> value, offset |-> n] : n \in offsets}
        whole(present) == IF present THEN at({0}) ELSE {}
        literal(offsets) == IF named THEN whole(offsets # {}) ELSE Leftmost(at(offsets))
    IN  CASE def.kind = "Status" -> whole(Number[value] = response.status)
          [] def.kind = "Size"   -> whole(Number[value] = response.content_length)
          [] def.kind = "Dsl"    -> whole(value \in response.true_dsl)
          [] def.kind \in {"Word", "Binary", "Regex"} /\ absent -> {}
          [] def.kind = "Word" /\ ~absent ->
                literal(OccurrencesIgnoringCase(WordBytes[value], text))
          [] def.kind = "Binary" /\ ~absent ->
                literal(IF named THEN Occurrences(HexBytes[value], text)
                        ELSE OccurrencesIgnoringCase(HexBytes[value], text))
          [] def.kind = "Regex" /\ ~absent ->
                LET finds == Finds(Class[RuntimeText(value)], text)
                IN  IF named THEN Leftmost(finds) ELSE Distinct(finds)

DefAt(key) == templates[key[1]][key[2]][key[3]]

FoundAt(key) == Found(DefAt(key), ValueAt(key))

\* The text a value is reported under.
Reported(key) == IF DefAt(key).kind = "Regex" THEN RuntimeText(ValueAt(key)) ELSE ValueAt(key)

Result(key, value, offset) ==
    [key |-> key, values |-> IF DefAt(key).kind = "Dsl" THEN DefAt(key).values ELSE <<Reported(key)>>,
     value |-> value, offset |-> offset, negative |-> DefAt(key).negative]

\* A positive value is reported where it is found, a negative one when it is not.
ResultsOf(key) ==
    IF ~DefAt(key).negative THEN {Result(key, f.text, f.offset) : f \in FoundAt(key)}
    ELSE IF FoundAt(key) = {} THEN {Result(key, Reported(key), 0)} ELSE {}

Expected == UNION {ResultsOf(key) : key \in Wanted}

\* pattern_count(): the entries and the values of the DSL matchers.
PatternCount ==
    Len(refs) + Cardinality(UNION {{n} \X DOMAIN DslDef(dsl_matchers[n]).values :
                                      n \in DOMAIN dsl_matchers})

\* The matches of a scan are exactly those of the templates' values taken one by
\* one: none is lost to batching, grouping or deduplication, none is reported
\* twice, and a negative value is reported exactly when it is absent.
\* pattern_count is the number of the values looked for.
ScanIsExact ==
    stage = "done" /\ ArenaFits =>
        /\ Range(matches) = Expected
        /\ Len(matches) = Cardinality(Expected)
        /\ PatternCount = Cardinality(Wanted)
=============================================================================
