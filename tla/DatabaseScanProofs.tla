------------------------- MODULE DatabaseScanProofs -------------------------
(***************************************************************************)
(* A scan is exact for every database that compiles, every response and    *)
(* every order of the headers: the matches it reports are those of the     *)
(* values of the templates taken one by one.  On raw text, the text path   *)
(* comes to the same verdicts.                                             *)
(***************************************************************************)
EXTENDS TextMatching, DatabaseCompileProofs

\* The phase in which the values of a matcher are looked for.
PhaseOf(def) ==
    CASE def.kind = "Dsl" -> "dsl"
      [] def.kind \in {"Status", "Size"} -> "numbers"
      [] def.kind \in {"Word", "Binary", "Regex"} /\ Named(def.part) -> "named"
      [] def.kind \in {"Word", "Binary"} /\ ~Named(def.part) -> "words"
      [] def.kind = "Regex" /\ ~Named(def.part) -> def.part

\* The hits of a phase.
HitsOf(s) ==
    CASE s = "words" -> WordHits(response)
      [] s = "named" -> UNION {NamedHits(name) : name \in DOMAIN response.header_map}
      [] s \in Part -> RegexHits(s)
      [] s = "numbers" -> NumberHits
      [] s = "dsl" -> DslHits

\* The phases to come, and the hits that are still to be recorded.
Later ==
    CASE stage = "words" -> Recording \ {"words"}
      [] stage = "named" -> Part \cup {"numbers", "dsl"}
      [] stage = "Body" -> {"Header", "All", "numbers", "dsl"}
      [] stage = "Header" -> {"All", "numbers", "dsl"}
      [] stage = "All" -> {"numbers", "dsl"}
      [] stage = "numbers" -> {"dsl"}
      [] OTHER -> {}

Left(hit) ==
    \/ stage \in Recording /\ hit \in pending
    \/ \E name \in names : hit \in NamedHits(name)
    \/ \E s \in Later : hit \in HitsOf(s)

Distinctly(s) == \A a, b \in DOMAIN s : s[a] = s[b] => a = b

\* The shape of a scan, which runs on a database that has compiled.
ScanTypes ==
    /\ stage \in Recording \cup {"idle", "absence", "done", "error"}
    /\ stage # "idle" => phase = "ready" /\ response \in Responses
    /\ names # {} => stage = "named"
    /\ stage = "named" => names \subseteq DOMAIN response.header_map

\* What is pending belongs to the phase, and to none of the headers to come.
PendingInv ==
    /\ stage \in Recording => pending \subseteq HitsOf(stage)
    /\ stage = "named" => \A hit \in pending : DefAt(hit.key).part \notin names
    /\ stage = "absence" => pending \subseteq negative_matchers
    /\ stage = "done" => pending = {}

\* Every hit is still to be recorded, or was; and so is every absence.
RecordInv ==
    /\ \A s \in Recording : \A hit \in HitsOf(s) : Left(hit) \/ hit.key \in seen \cup fired
    /\ stage \in {"absence", "done"} =>
          \A entry \in negative_matchers : entry \in pending \/ entry.key \in seen \cup fired

\* Only positive values are emitted while hits are recorded, and absent negative
\* ones afterwards; a negative value that fired was found.
KeyInv ==
    /\ \A k \in seen : k \in Wanted /\ (Negative(k) => FoundAt(k) = {})
    /\ \A k \in fired : k \in Wanted /\ Negative(k) /\ FoundAt(k) # {}

\* The matches are the results of the keys emitted, each once.
MatchInv ==
    /\ IsSeq(matches)
    /\ Range(matches) = UNION {ResultsOf(k) : k \in seen}
    /\ Distinctly(matches)

Account == PendingInv /\ RecordInv /\ KeyInv /\ MatchInv

ScanInv == ScanTypes /\ (stage \notin {"idle", "error"} /\ ArenaFits => Account)

-----------------------------------------------------------------------------
\* What is found in a text.

\* Finitely many finds, of which no two begin at the same offset.
Ordered(F) ==
    /\ IsFiniteSet(F)
    /\ \A f \in F : f.offset \in Nat /\ f = [text |-> f.text, offset |-> f.offset]
    /\ \A f, g \in F : f.offset = g.offset => f = g

\* Some of such finds are such finds.
LEMMA PartIsOrdered ==
    ASSUME NEW F, Ordered(F), NEW G \in SUBSET F
    PROVE  Ordered(G)
<1>1. IsFiniteSet(G)
  BY FS_Subset DEF Ordered
<1> QED
  BY <1>1 DEF Ordered

\* A regex finds at most one text at an offset.
LEMMA FindsAreOrdered ==
    ASSUME NEW s, IsSeq(s), NEW class
    PROVE  Ordered(Finds(class, s))
<1>1. Len(s) \in Nat /\ DOMAIN s = 1..Len(s)
  BY SeqDomain
<1>2. CASE class = {}
  <2> DEFINE f == [n \in 0..Len(s) |-> [offset |-> n, text |-> Empty]]
             F == {[offset |-> n, text |-> Empty] : n \in 0..Len(s)}
  <2>1. Finds(class, s) = F
    BY <1>2 DEF Finds
  <2>2. IsFiniteSet(0..Len(s))
    BY <1>1, FS_Interval
  <2>3. f \in Surjection(0..Len(s), F)
    BY Fun_IsSurj
  <2>4. IsFiniteSet(F)
    <3> HIDE DEF f, F
    <3> QED
      BY <2>2, <2>3, FS_Surjection
  <2> QED
    BY <2>1, <2>4, <1>1 DEF Ordered
<1>3. CASE class # {}
  <2> DEFINE D == {m \in DOMAIN s : s[m] \in class}
             f == [n \in D |-> [offset |-> n - 1, text |-> s[n]]]
             F == {[offset |-> n - 1, text |-> s[n]] : n \in D}
  <2>1. Finds(class, s) = F
    BY <1>3 DEF Finds
  <2>2. IsFiniteSet(D)
    <3>1. IsFiniteSet(1..Len(s))
      BY <1>1, FS_Interval
    <3> QED
      BY <3>1, <1>1, FS_Subset
  <2>3. f \in Surjection(D, F)
    BY Fun_IsSurj
  <2>4. IsFiniteSet(F)
    <3> HIDE DEF f, F, D
    <3> QED
      BY <2>2, <2>3, FS_Surjection
  <2>5. ASSUME NEW g \in F
        PROVE  g.offset \in Nat /\ g = [text |-> g.text, offset |-> g.offset]
    BY <1>1
  <2>6. ASSUME NEW g \in F, NEW h \in F, g.offset = h.offset
        PROVE  g = h
    <3>1. PICK m \in D : g = [offset |-> m - 1, text |-> s[m]]
      OBVIOUS
    <3>2. PICK n \in D : h = [offset |-> n - 1, text |-> s[n]]
      OBVIOUS
    <3> QED
      BY <3>1, <3>2, <2>6, <1>1
  <2> QED
    BY <2>1, <2>4, <2>5, <2>6 DEF Ordered
<1> QED
  BY <1>2, <1>3

\* One find is ordered, distinct and the leftmost.
LEMMA OneFind ==
    ASSUME NEW text, NEW n \in Nat, NEW F, F = {[text |-> text, offset |-> n]}
    PROVE  Ordered(F) /\ Distinct(F) = F /\ Leftmost(F) = F
<1>1. IsFiniteSet(F)
  BY FS_Singleton
<1> QED
  BY <1>1 DEF Ordered, Distinct, Leftmost

\* The leftmost find is distinct, and there is one if anything is found.
LEMMA LeftmostIsDistinct ==
    ASSUME NEW F, Ordered(F)
    PROVE  Distinct(Leftmost(F)) = Leftmost(F) /\ (F # {} => Leftmost(F) # {})
<1>1. Distinct(Leftmost(F)) = Leftmost(F)
  BY DEF Distinct, Leftmost
<1>2. ASSUME F # {}
      PROVE  Leftmost(F) # {}
  <2> DEFINE T == {f.offset : f \in F}
  <2>1. T \in SUBSET Nat /\ T # {}
    BY <1>2 DEF Ordered
  <2>2. PICK n \in T : \A m \in T : n <= m
    <3> HIDE DEF T
    <3> QED
      BY <2>1, LeastNat
  <2> QED
    BY <2>2 DEF Leftmost
<1> QED
  BY <1>1, <1>2

\* If anything is found, a text is found first.
LEMMA SomethingIsDistinct ==
    ASSUME NEW F, Ordered(F), F # {}
    PROVE  Distinct(F) # {}
<1>1. PICK f \in Leftmost(F) : TRUE
  BY LeftmostIsDistinct
<1>2. f \in Distinct(F)
  BY DEF Leftmost, Distinct
<1> QED
  BY <1>2

\* Finds have places in the order of the text, one each.
LEMMA PlacesOfFinds ==
    ASSUME NEW F, Ordered(F)
    PROVE  /\ Cardinality(F) \in Nat
           /\ \A n \in 1..Cardinality(F) : Nth(F, n) \in F
           /\ \A f \in F : \E n \in 1..Cardinality(F) : Nth(F, n) = f
           /\ \A m, n \in 1..Cardinality(F) : Nth(F, m) = Nth(F, n) => m = n
<1> DEFINE N == Cardinality(F)
           upto(f) == {g \in F : g.offset <= f.offset}
           rank == [f \in F |-> Cardinality(upto(f))]
<1>1. N \in Nat /\ IsFiniteSet(F)
  BY FS_CardinalityType DEF Ordered
<1>2. ASSUME NEW f \in F
      PROVE  IsFiniteSet(upto(f)) /\ Cardinality(upto(f)) \in 1..N
  <2>1. f \in upto(f) /\ upto(f) \in SUBSET F
    BY DEF Ordered
  <2> HIDE DEF upto
  <2>2. /\ IsFiniteSet(upto(f)) /\ Cardinality(upto(f)) \in Nat
        /\ Cardinality(upto(f)) <= N /\ Cardinality(upto(f)) # 0
    BY <2>1, <1>1, FS_Subset, FS_CardinalityType, FS_EmptySet
  <2> QED
    BY <2>2, <1>1
<1>3. ASSUME NEW f \in F, NEW g \in F, Cardinality(upto(f)) = Cardinality(upto(g))
      PROVE  f = g
  <2>1. f.offset \in Nat /\ g.offset \in Nat /\ (f.offset = g.offset => f = g)
    BY DEF Ordered
  <2>2. ASSUME NEW a \in F, NEW b \in F, a.offset < b.offset
        PROVE  Cardinality(upto(a)) # Cardinality(upto(b))
    <3>1. upto(a) \in SUBSET upto(b) /\ b \in upto(b) /\ b \notin upto(a)
      BY <2>2 DEF Ordered
    <3>2. upto(a) # upto(b)
      BY <3>1
    <3> HIDE DEF upto
    <3> QED
      BY <3>1, <3>2, <1>2, FS_Subset
  <2>3. ~(f.offset < g.offset) /\ ~(g.offset < f.offset)
    BY <2>2, <1>3
  <2> QED
    BY <2>1, <2>3
<1>4. ASSUME NEW f \in F
      PROVE  Nth(F, Cardinality(upto(f))) = f
  <2>1. PICK n : n = Cardinality(upto(f))
    OBVIOUS
  <2>2. \A g \in F : Cardinality(upto(g)) = n => g = f
    BY <1>3, <2>1
  <2>3. Nth(F, n) = CHOOSE g \in F : Cardinality(upto(g)) = n
    BY DEF Nth
  <2> HIDE DEF upto
  <2> QED
    BY <2>1, <2>2, <2>3
<1>5. rank \in Injection(F, 1..N)
  <2> HIDE DEF upto
  <2>1. rank \in [F -> 1..N]
    BY <1>2
  <2>2. \A f, g \in F : rank[f] = rank[g] => f = g
    BY <1>3
  <2> HIDE DEF rank, N
  <2> QED
    BY <2>1, <2>2, Fun_IsInj
<1>6. rank \in Surjection(F, 1..N)
  <2>1. IsFiniteSet(1..N) /\ Cardinality(1..N) = N
    BY <1>1, FS_Interval
  <2>2. Cardinality(F) = Cardinality(1..N)
    BY <2>1
  <2> HIDE DEF rank, N
  <2> QED
    BY <2>1, <2>2, <1>5, FS_Injection
<1>7. ASSUME NEW n \in 1..N
      PROVE  \E f \in F : Nth(F, n) = f /\ Cardinality(upto(f)) = n
  <2>1. PICK f \in F : rank[f] = n
    <3> HIDE DEF rank
    <3> QED
      BY <1>6 DEF Surjection
  <2>2. Cardinality(upto(f)) = n
    BY <2>1
  <2> QED
    BY <2>2, <1>4
<1>8. \A m, n \in 1..N : Nth(F, m) = Nth(F, n) => m = n
  <2> HIDE DEF upto
  <2> QED
    BY <1>7
<1>9. \A f \in F : \E n \in 1..N : Nth(F, n) = f
  <2> HIDE DEF upto
  <2> QED
    BY <1>2, <1>4
<1>10. \A n \in 1..N : Nth(F, n) \in F
  BY <1>7
<1> QED
  BY <1>1, <1>8, <1>9, <1>10

\* A hit emits each distinct text it finds, once.
LEMMA EmissionsOfHit ==
    ASSUME NEW hit, NEW F, F = Distinct(hit.finds), Ordered(F)
    PROVE  /\ IsSeq(Emissions(hit)) /\ Distinctly(Emissions(hit))
           /\ Range(Emissions(hit)) =
                 {[key |-> hit.key, values |-> hit.values, value |-> f.text, offset |-> f.offset,
                   negative |-> FALSE] : f \in F}
<1> DEFINE match(f) == [key |-> hit.key, values |-> hit.values, value |-> f.text,
                        offset |-> f.offset, negative |-> FALSE]
           N == Cardinality(F)
           e == Emissions(hit)
<1>1. e = [n \in 1..N |-> match(Nth(F, n))]
  BY DEF Emissions
<1>2. /\ N \in Nat
      /\ \A n \in 1..N : Nth(F, n) \in F
      /\ \A f \in F : \E n \in 1..N : Nth(F, n) = f
      /\ \A m, n \in 1..N : Nth(F, m) = Nth(F, n) => m = n
  BY PlacesOfFinds
<1>3. DOMAIN e = 1..N /\ \A n \in 1..N : e[n] = match(Nth(F, n))
  BY <1>1
<1>4. ASSUME NEW f \in F, NEW g \in F, match(f) = match(g)
      PROVE  f = g
  <2>1. f.offset = g.offset
    <3>1. match(f).offset = f.offset /\ match(g).offset = g.offset
      OBVIOUS
    <3> QED
      BY <3>1, <1>4
  <2> QED
    BY <2>1 DEF Ordered
<1> HIDE DEF e, N
<1>5. IsSeq(e)
  <2>1. e = [n \in 1..N |-> e[n]]
    BY <1>1, <1>3
  <2> QED
    BY <2>1, <1>2, FunctionIsSeq
<1>6. Distinctly(e)
  <2> SUFFICES ASSUME NEW a \in 1..N, NEW b \in 1..N, e[a] = e[b]
               PROVE  a = b
    BY <1>3 DEF Distinctly
  <2>1. Nth(F, a) = Nth(F, b)
    BY <1>2, <1>3, <1>4
  <2> QED
    BY <2>1, <1>2
<1>7. Range(e) = {match(f) : f \in F}
  <2>1. ASSUME NEW m \in Range(e)
        PROVE  m \in {match(f) : f \in F}
    BY <1>2, <1>3 DEF Range
  <2>2. ASSUME NEW f \in F
        PROVE  match(f) \in Range(e)
    <3>1. PICK n \in 1..N : Nth(F, n) = f
      BY <1>2
    <3>2. n \in DOMAIN e /\ e[n] = match(f)
      BY <3>1, <1>3
    <3> QED
      BY <3>2 DEF Range
  <2> QED
    BY <2>1, <2>2
<1> QED
  BY <1>5, <1>6, <1>7 DEF e, match

-----------------------------------------------------------------------------
\* Occurrences in the headers and the body of a response laid end to end.

\* An occurrence that ends with the headers, or begins with the body, is one in
\* that part.
LEMMA OccurrencesInParts ==
    ASSUME NEW h, IsSeq(h), NEW b, IsSeq(b), NEW w, IsSeq(w)
    PROVE  /\ \A n : n \in OccurrencesIgnoringCase(w, h) <=>
                        n \in OccurrencesIgnoringCase(w, h \o b) /\ n + Len(w) <= Len(h)
           /\ \A n \in Nat : n \in OccurrencesIgnoringCase(w, b) <=>
                        Len(h) + n \in OccurrencesIgnoringCase(w, h \o b)
           /\ \A s \in {h, b, h \o b} : OccurrencesIgnoringCase(w, s) \subseteq Nat
<1> DEFINE s == h \o b
           Occ(t, n) == \A j \in DOMAIN w : Fold[t[n + j]] = Fold[w[j]]
<1>1. IsJoin(s, h, b)
  BY JoinElements
<1> HIDE DEF s
<1>2. /\ Len(w) \in Nat /\ DOMAIN w = 1..Len(w)
      /\ Len(h) \in Nat /\ DOMAIN h = 1..Len(h)
      /\ Len(b) \in Nat /\ DOMAIN b = 1..Len(b)
      /\ Len(s) = Len(h) + Len(b)
      /\ \A i \in 1..Len(h) : s[i] = h[i]
      /\ \A i \in 1..Len(b) : s[Len(h) + i] = b[i]
  BY <1>1, SeqDomain DEF IsJoin
<1>3. \A t, n : n \in OccurrencesIgnoringCase(w, t) <=> n \in 0..Len(t) - Len(w) /\ Occ(t, n)
  BY DEF OccurrencesIgnoringCase
<1>4. ASSUME NEW n \in 0..Len(h) - Len(w)
      PROVE  Occ(h, n) <=> Occ(s, n)
  <2>1. \A j \in DOMAIN w : n + j \in 1..Len(h)
    BY <1>2
  <2> QED
    BY <2>1, <1>2
<1>5. ASSUME NEW n \in 0..Len(b) - Len(w)
      PROVE  Occ(b, n) <=> Occ(s, Len(h) + n)
  <2>1. ASSUME NEW j \in DOMAIN w
        PROVE  s[(Len(h) + n) + j] = b[n + j]
    <3>1. n + j \in 1..Len(b) /\ (Len(h) + n) + j = Len(h) + (n + j)
      BY <1>2
    <3> QED
      BY <3>1, <1>2
  <2> QED
    BY <2>1
<1>6. ASSUME NEW n
      PROVE  n \in OccurrencesIgnoringCase(w, h) <=>
                n \in OccurrencesIgnoringCase(w, s) /\ n + Len(w) <= Len(h)
  <2>1. n \in 0..Len(h) - Len(w) <=> n \in 0..Len(s) - Len(w) /\ n + Len(w) <= Len(h)
    BY <1>2
  <2> HIDE DEF Occ
  <2> QED
    BY <2>1, <1>3, <1>4
<1>7. ASSUME NEW n \in Nat
      PROVE  n \in OccurrencesIgnoringCase(w, b) <=> Len(h) + n \in OccurrencesIgnoringCase(w, s)
  <2>1. n \in 0..Len(b) - Len(w) <=> Len(h) + n \in 0..Len(s) - Len(w)
    BY <1>2
  <2> HIDE DEF Occ
  <2> QED
    BY <2>1, <1>3, <1>5
<1>8. \A t \in {h, b, s} : OccurrencesIgnoringCase(w, t) \subseteq Nat
  BY <1>2 DEF OccurrencesIgnoringCase
<1> QED
  BY <1>6, <1>7, <1>8 DEF s

-----------------------------------------------------------------------------
\* The entries of a database that has compiled.

\* A scan runs on such a database.
Scannable == IInv /\ phase = "ready" /\ ArenaFits /\ response \in Responses

\* An entry of the database stands for a value of the templates.
LEMMA EntryFacts ==
    ASSUME IInv, phase = "ready", ArenaFits, NEW i \in DOMAIN refs, NEW k, k = refs[i].key
    PROVE  /\ i \in Nat
           /\ k \in WantedRefs
           /\ DefAt(k) \in Matcher /\ DefAt(k).kind # "Dsl"
           /\ ValueAt(k) \in DOMAIN WordBytes
           /\ refs[i].kind = DefAt(k).kind
           /\ refs[i].part = DefAt(k).part
           /\ refs[i].negative = DefAt(k).negative
           /\ refs[i].data = EntryData(DefAt(k).kind, ValueAt(k))
           /\ PatternOf(i) = Reported(k)
           /\ Accepted(DefAt(k).kind, ValueAt(k))
           /\ \A j \in DOMAIN refs : refs[j].key = k => j = i
<1>1. merged = Len(templates) /\ Collected
  BY DEF IInv, PhaseInv
<1>2. DOMAIN templates = 1..merged /\ templates \in Seq(Seq(Seq(Matcher)))
  BY <1>1, LenProperties DEF IInv, ShapeInv
<1>3. k \in WantedRefs
  BY <1>1, RefsMerged
<1>4. PICK t \in DOMAIN templates :
         \E u \in Slots(templates[t]) : ~IsDsl(t, u) /\ ~Skipped(t, u) /\ k = <<t>> \o u
  BY <1>3, AskedSlots DEF WantedRefs
<1>5. PICK u \in Slots(templates[t]) : ~IsDsl(t, u) /\ ~Skipped(t, u) /\ k = <<t>> \o u
  BY <1>4
<1>6. IsKey(k, t, u)
  BY <1>2, <1>5, SlotKey
<1>7. DefAt(k) = Def(t, u) /\ ValueAt(k) = Value(t, u)
  BY <1>6 DEF IsKey, DefAt, ValueAt, Def, Value
<1>8. Def(t, u) \in Matcher /\ u[3] \in DOMAIN Def(t, u).values
  <2>1. templates[t] \in Seq(Seq(Matcher))
    BY <1>2, ElementOfSeq, LenProperties
  <2> QED
    BY <2>1, <1>5, SlotsOfTemplate DEF Def, IsDsl
<1>9. Value(t, u) \in DOMAIN WordBytes
  <2>1. Def(t, u).values \in Seq(DOMAIN WordBytes)
    BY <1>8 DEF Matcher
  <2> QED
    BY <2>1, <1>8, ElementOfSeq, LenProperties DEF Value
<1>10. refs[i] = NewRef(t, u, refs[i].pattern_index)
  <2>1. refs[i] = NewRef(k[1], Tail(k), refs[i].pattern_index)
    BY DEF IInv, MergeInv, RefsHold
  <2> QED
    BY <2>1, <1>6 DEF IsKey
<1>11. /\ refs[i].kind = Def(t, u).kind /\ refs[i].part = Def(t, u).part
       /\ refs[i].negative = Def(t, u).negative
       /\ refs[i].data = EntryData(Def(t, u).kind, Value(t, u))
  BY <1>10 DEF NewRef
<1>12. PatternOf(i) = Reported(k)
  <2>1. /\ refs[i].pattern_index \in 0..Len(patterns) - 1
        /\ patterns[refs[i].pattern_index + 1] = TextAt(k)
    BY DEF IInv, MergeInv, RefsHold, ArenaFits
  <2> QED
    BY <2>1 DEF PatternOf, TextAt, Reported, KindAt, DefAt
<1>13. Accepted(Def(t, u).kind, Value(t, u))
  <2>1. u \in Visited(t)
    BY <1>1, <1>5 DEF Collected, Visited
  <2>2. ~Malformed(t, u)
    BY <2>1 DEF IInv, BatchInv, BatchOK
  <2> QED
    BY <2>2, <1>5 DEF Malformed
<1>14. i \in Nat /\ DOMAIN refs \subseteq Nat
  BY SeqDomain DEF IInv, ShapeInv
<1>15. ASSUME NEW j \in DOMAIN refs, refs[j].key = k
       PROVE  j = i
  <2>1. ~KeyBefore(k, k)
    <3>1. k[1] = t /\ Tail(k) = u
      BY <1>6 DEF IsKey
    <3>2. t \in Nat
      BY LenProperties, <1>2
    <3>3. u[1] \in Nat /\ u[2] \in Nat /\ u[3] \in Nat
      BY <1>6 DEF IsKey
    <3>4. ~(t < t) /\ ~Before(u, u)
      BY <3>2, <3>3 DEF Before
    <3> QED
      BY <3>1, <3>4 DEF KeyBefore
  <2>2. \A a, b \in DOMAIN refs : a < b => KeyBefore(refs[a].key, refs[b].key)
    BY DEF IInv, MergeInv, RefsHold
  <2>3. ~(i < j) /\ ~(j < i)
    BY <2>1, <2>2, <1>15
  <2> QED
    BY <2>3, <1>14
<1> QED
  BY <1>3, <1>5, <1>7, <1>8, <1>9, <1>11, <1>12, <1>13, <1>14, <1>15 DEF IsDsl

\* Every value of the templates that is no expression has an entry.
LEMMA EntryExists ==
    ASSUME IInv, phase = "ready", NEW k \in WantedRefs
    PROVE  \E i \in DOMAIN refs : refs[i].key = k
<1>1. merged = Len(templates)
  BY DEF IInv, PhaseInv
<1> QED
  BY <1>1, RefsMerged

\* The parts of a response are sequences.
LEMMA ResponseParts ==
    ASSUME response \in Responses
    PROVE  /\ IsSeq(response.headers) /\ IsSeq(response.body) /\ IsSeq(AllBytes(response))
           /\ \A part \in Part : IsSeq(View(response, part))
           /\ \A name \in DOMAIN response.header_map : IsSeq(response.header_map[name])
<1>1. /\ IsSeq(response.headers) /\ IsSeq(response.body)
      /\ \A name \in DOMAIN response.header_map : IsSeq(response.header_map[name])
  BY ResponseAssumption DEF IsSequence, IsSeq, Range
<1>2. IsSeq(AllBytes(response))
  BY <1>1, JoinElements DEF IsJoin, AllBytes
<1> QED
  BY <1>1, <1>2 DEF View, Part

\* The bytes of a word or a binary are a sequence.
LEMMA BytesAreSequences ==
    ASSUME NEW kind \in {"Word", "Binary"}, NEW value \in DOMAIN WordBytes, Accepted(kind, value)
    PROVE  IsSeq(EntryData(kind, value))
<1>1. CASE kind = "Word"
  <2>1. IsSequence(WordBytes[value])
    BY PatternAssumption
  <2> QED
    BY <2>1, <1>1 DEF EntryData, IsSequence, IsSeq, Range
<1>2. CASE kind = "Binary"
  <2>1. value \in DOMAIN HexBytes
    BY <1>2 DEF Accepted
  <2>2. IsSequence(HexBytes[value])
    BY <2>1, PatternAssumption
  <2> QED
    BY <2>2, <1>2 DEF EntryData, IsSequence, IsSeq, Range
<1> QED
  BY <1>1, <1>2

-----------------------------------------------------------------------------
\* The hits of each phase.

\* What is asked of a hit of phase s: it stands for a value that is found, and
\* carries what its matches are made of.
SoundHit(hit, s) ==
    /\ hit.key \in Wanted
    /\ hit.negative = Negative(hit.key)
    /\ hit.values = IF DefAt(hit.key).kind = "Dsl" THEN DefAt(hit.key).values
                    ELSE <<Reported(hit.key)>>
    /\ PhaseOf(DefAt(hit.key)) = s
    /\ hit.at \in Nat \X Nat \X Nat
    /\ Ordered(Distinct(hit.finds))
    /\ FoundAt(hit.key) # {}

\* The first of the hits of its key.
FirstOfKey(hit, s) ==
    \A other \in HitsOf(s) : other.key = hit.key => other = hit \/ Before(hit.at, other.at)

\* What is asked of a phase: the first hit of a value finds what is found of it,
\* no two hits have the same place, and a value that is found has a hit.
SoundPhase(s) ==
    /\ \A hit \in HitsOf(s) :
          SoundHit(hit, s) /\ (FirstOfKey(hit, s) => Distinct(hit.finds) = FoundAt(hit.key))
    /\ \A hit, other \in HitsOf(s) : hit.at = other.at => hit = other
    /\ \A k \in Wanted : PhaseOf(DefAt(k)) = s /\ FoundAt(k) # {} =>
          \E hit \in HitsOf(s) : hit.key = k

\* The hit of an entry has the key, the sign and the values of the entry.
LEMMA HitOfEntry ==
    ASSUME IInv, phase = "ready", ArenaFits, NEW i \in DOMAIN refs, NEW k, k = refs[i].key,
           NEW finds, NEW at, NEW hit, hit = Hit(i, finds, at)
    PROVE  /\ hit.key = k /\ hit.finds = finds /\ hit.at = at
           /\ hit.key \in Wanted
           /\ hit.negative = Negative(hit.key)
           /\ hit.values = IF DefAt(hit.key).kind = "Dsl" THEN DefAt(hit.key).values
                           ELSE <<Reported(hit.key)>>
<1>1. /\ k \in WantedRefs /\ DefAt(k).kind # "Dsl"
      /\ refs[i].negative = DefAt(k).negative
      /\ PatternOf(i) = Reported(k)
  BY EntryFacts
<1>2. /\ hit.key = k /\ hit.negative = refs[i].negative /\ hit.values = <<PatternOf(i)>>
      /\ hit.finds = finds /\ hit.at = at
  BY DEF Hit
<1> QED
  BY <1>1, <1>2 DEF Wanted, Negative, DefAt

\* The n-th DSL matcher, and the key of its value v.
DslDefAt(n)    == DslDef(dsl_matchers[n])
DslKeyAt(n, v) == Append(dsl_matchers[n], v)

\* A value of a DSL matcher of the database is one of the templates.
LEMMA DslKeyFacts ==
    ASSUME IInv, phase = "ready", NEW n \in DOMAIN dsl_matchers, NEW def, def = DslDefAt(n),
           NEW v \in DOMAIN def.values, NEW k, k = DslKeyAt(n, v)
    PROVE  /\ n \in Nat /\ v \in Nat
           /\ k \in WantedDsl /\ k[4] = v
           /\ DefAt(k) = def /\ def \in Matcher /\ def.kind = "Dsl"
           /\ ValueAt(k) = def.values[v]
           /\ \A m \in DOMAIN dsl_matchers : \A w : DslKeyAt(m, w) = k => m = n /\ w = v
<1> USE DEF DslDefAt, DslKeyAt
<1>1. merged = Len(templates)
  BY DEF IInv, PhaseInv
<1>2. DOMAIN templates = 1..Len(templates) /\ templates \in Seq(Seq(Seq(Matcher)))
  BY <1>1, LenProperties DEF IInv, ShapeInv
<1>3. \A m \in DOMAIN dsl_matchers : dsl_matchers[m] \in DslMatchers
  BY <1>1, DslMerged
<1>4. ASSUME NEW at \in DslMatchers
      PROVE  /\ at = <<at[1], at[2], at[3]>> /\ at[1] \in Nat /\ at[2] \in Nat /\ at[3] \in Nat
             /\ DslDef(at) \in Matcher /\ DslDef(at).kind = "Dsl"
  <2>1. PICK t \in DOMAIN templates :
           at \in {<<t, s[1], s[2]>> : s \in {u \in Slots(templates[t]) : IsDsl(t, u)}}
    BY DEF DslMatchers
  <2>2. PICK u \in Slots(templates[t]) : IsDsl(t, u) /\ at = <<t, u[1], u[2]>>
    BY <2>1
  <2>3. templates[t] \in Seq(Seq(Matcher)) /\ t \in Nat
    BY <1>2, ElementOfSeq
  <2>4. /\ u[1] \in Nat /\ u[2] \in Nat /\ templates[t][u[1]][u[2]] \in Matcher
    BY <2>3, SlotsOfTemplate
  <2> QED
    BY <2>2, <2>3, <2>4 DEF IsDsl, Def, DslDef
<1>5. PICK at \in DslMatchers : at = dsl_matchers[n]
  BY <1>3
<1>6. k = <<at[1], at[2], at[3], v>>
  <2>1. Append(<<at[1], at[2], at[3]>>, v) = <<at[1], at[2], at[3], v>>
    BY KeyOfDslValue
  <2> QED
    BY <2>1, <1>4, <1>5
<1>7. DefAt(k) = def /\ ValueAt(k) = def.values[v] /\ k[4] = v
  BY <1>5, <1>6 DEF DefAt, ValueAt, DslDef
<1>8. def \in Matcher /\ def.kind = "Dsl"
  BY <1>4, <1>5
<1>9. k \in WantedDsl
  <2>1. [key |-> k, value |-> def.values[v], values |-> def.values] \in DslValues(DslMatchers)
    <3>1. k = Append(at, v) /\ def = DslDef(at) /\ v \in DOMAIN def.values
      BY <1>5
    <3> QED
      BY ONLY <3>1, at \in DslMatchers DEF DslValues
  <2> QED
    BY <2>1 DEF WantedDsl
<1>10. n \in Nat /\ DOMAIN dsl_matchers \subseteq Nat
  BY SeqDomain DEF IInv, ShapeInv
<1>11. v \in Nat
  <2>1. def.values \in Seq(DOMAIN WordBytes)
    BY <1>8 DEF Matcher
  <2> QED
    BY <2>1, LenProperties
<1>12. ASSUME NEW m \in DOMAIN dsl_matchers, NEW w, DslKeyAt(m, w) = k
       PROVE  m = n /\ w = v
  <2>1. PICK other \in DslMatchers : other = dsl_matchers[m]
    BY <1>3
  <2>2. k = <<other[1], other[2], other[3], w>>
    <3>1. Append(<<other[1], other[2], other[3]>>, w) = <<other[1], other[2], other[3], w>>
      BY KeyOfDslValue
    <3> QED
      BY <3>1, <1>4, <1>12, <2>1
  <2>3. other[1] = at[1] /\ other[2] = at[2] /\ other[3] = at[3] /\ w = v
    BY <2>2, <1>6
  <2>4. other = at
    BY <2>3, <1>4
  <2>5. ~Before(at, at)
    BY <1>4 DEF Before
  <2>6. \A a, b \in DOMAIN dsl_matchers : a < b => Before(dsl_matchers[a], dsl_matchers[b])
    BY DEF IInv, MergeInv, DslHold
  <2>7. ~(m < n) /\ ~(n < m)
    BY <2>1, <2>4, <2>5, <2>6, <1>5
  <2> QED
    BY <2>3, <2>7, <1>10
<1> QED
  BY <1>7, <1>8, <1>9, <1>10, <1>11, <1>12

\* Every value of an expression of the templates is one of a DSL matcher of the
\* database.
LEMMA DslKeyExists ==
    ASSUME IInv, phase = "ready", NEW k \in WantedDsl
    PROVE  \E n \in DOMAIN dsl_matchers : \E v \in DOMAIN DslDefAt(n).values : k = DslKeyAt(n, v)
<1>1. DslMatchers = {dsl_matchers[i] : i \in DOMAIN dsl_matchers}
  BY DslMerged DEF IInv, PhaseInv
<1>2. PICK entry \in DslValues(DslMatchers) : k = entry.key
  BY DEF WantedDsl
<1>3. PICK at \in DslMatchers :
         entry \in {[key |-> Append(at, v), value |-> DslDef(at).values[v],
                     values |-> DslDef(at).values] : v \in DOMAIN DslDef(at).values}
  BY <1>2 DEF DslValues
<1>4. PICK v \in DOMAIN DslDef(at).values : k = Append(at, v)
  BY <1>2, <1>3
<1> QED
  BY <1>1, <1>4 DEF DslDefAt, DslKeyAt

\* A value that is no expression has an entry.
LEMMA EntryOfValue ==
    ASSUME IInv, phase = "ready", NEW k \in Wanted, PhaseOf(DefAt(k)) # "dsl"
    PROVE  \E i \in DOMAIN refs : refs[i].key = k
<1>1. k \notin WantedDsl
  <2> SUFFICES ASSUME k \in WantedDsl
               PROVE  FALSE
    OBVIOUS
  <2>1. PICK n \in DOMAIN dsl_matchers : \E v \in DOMAIN DslDefAt(n).values : k = DslKeyAt(n, v)
    BY DslKeyExists
  <2>2. PICK v \in DOMAIN DslDefAt(n).values : k = DslKeyAt(n, v)
    BY <2>1
  <2>3. DefAt(k).kind = "Dsl"
    BY <2>2, DslKeyFacts
  <2> QED
    BY <2>3 DEF PhaseOf
<1>2. k \in WantedRefs
  BY <1>1 DEF Wanted
<1> QED
  BY <1>2, EntryExists

\* One find, of a text as a whole.
One(text) == {[text |-> text, offset |-> 0]}

\* What is found of a value, by the kind and the part of its matcher.
LEMMA FoundCases ==
    ASSUME NEW def, NEW value, NEW part, part = def.part, NEW text,
           text = IF Named(part) THEN response.header_map[part] ELSE View(response, part)
    PROVE  /\ def.kind = "Status" =>
                 Found(def, value) = IF Number[value] = response.status THEN One(value) ELSE {}
           /\ def.kind = "Size" =>
                 Found(def, value) = IF Number[value] = response.content_length THEN One(value) ELSE {}
           /\ def.kind = "Dsl" =>
                 Found(def, value) = IF value \in response.true_dsl THEN One(value) ELSE {}
           /\ Named(part) /\ part \notin DOMAIN response.header_map =>
                 (def.kind \in {"Word", "Binary", "Regex"} => Found(def, value) = {})
           /\ Named(part) /\ part \in DOMAIN response.header_map =>
                 /\ def.kind = "Word" => Found(def, value) =
                       IF OccurrencesIgnoringCase(WordBytes[value], text) # {} THEN One(value) ELSE {}
                 /\ def.kind = "Binary" => Found(def, value) =
                       IF Occurrences(HexBytes[value], text) # {} THEN One(value) ELSE {}
                 /\ def.kind = "Regex" =>
                       Found(def, value) = Leftmost(Finds(Class[RuntimeText(value)], text))
           /\ ~Named(part) =>
                 /\ def.kind \in {"Word", "Binary"} => Found(def, value) =
                       Leftmost({[text |-> value, offset |-> n] :
                                    n \in OccurrencesIgnoringCase(EntryData(def.kind, value), text)})
                 /\ def.kind = "Regex" =>
                       Found(def, value) = Distinct(Finds(Class[RuntimeText(value)], text))
<1> DEFINE absent == Named(part) /\ part \notin DOMAIN response.header_map
           at(offsets) == {[text |-> value, offset |-> n] : n \in offsets}
           whole(present) == IF present THEN at({0}) ELSE {}
           literal(offsets) == IF Named(part) THEN whole(offsets # {}) ELSE Leftmost(at(offsets))
<1>1. Found(def, value) =
        CASE def.kind = "Status" -> whole(Number[value] = response.status)
          [] def.kind = "Size"   -> whole(Number[value] = response.content_length)
          [] def.kind = "Dsl"    -> whole(value \in response.true_dsl)
          [] def.kind \in {"Word", "Binary", "Regex"} /\ absent -> {}
          [] def.kind = "Word" /\ ~absent -> literal(OccurrencesIgnoringCase(WordBytes[value], text))
          [] def.kind = "Binary" /\ ~absent ->
                literal(IF Named(part) THEN Occurrences(HexBytes[value], text)
                        ELSE OccurrencesIgnoringCase(HexBytes[value], text))
          [] def.kind = "Regex" /\ ~absent ->
                IF Named(part) THEN Leftmost(Finds(Class[RuntimeText(value)], text))
                ELSE Distinct(Finds(Class[RuntimeText(value)], text))
  BY DEF Found
<1>2. at({0}) = One(value)
  BY DEF One
<1>3. \A present \in BOOLEAN : whole(present) = IF present THEN One(value) ELSE {}
  BY <1>2
<1>4. /\ Named(part) => \A offsets : literal(offsets) = whole(offsets # {})
      /\ ~Named(part) => \A offsets : literal(offsets) = Leftmost(at(offsets))
  OBVIOUS
<1>5. /\ def.kind = "Word" => EntryData(def.kind, value) = WordBytes[value]
      /\ def.kind = "Binary" => EntryData(def.kind, value) = HexBytes[value]
  BY DEF EntryData
<1> HIDE DEF whole, literal
<1>6. CASE def.kind = "Status"
  BY <1>1, <1>3, <1>6
<1>7. CASE def.kind = "Size"
  BY <1>1, <1>3, <1>7
<1>8. CASE def.kind = "Dsl"
  <2>1. Found(def, value) = whole(value \in response.true_dsl)
    BY <1>1, <1>8
  <2>2. whole(value \in response.true_dsl) = IF value \in response.true_dsl THEN One(value) ELSE {}
    BY <1>2 DEF whole
  <2> QED
    BY <2>1, <2>2, <1>8
<1>9. CASE def.kind = "Word"
  BY <1>1, <1>3, <1>4, <1>5, <1>9
<1>10. CASE def.kind = "Binary"
  BY <1>1, <1>3, <1>4, <1>5, <1>10
<1>11. CASE def.kind = "Regex"
  BY <1>1, <1>11
<1>12. CASE def.kind \notin {"Status", "Size", "Dsl", "Word", "Binary", "Regex"}
  BY <1>12
<1> QED
  BY <1>6, <1>7, <1>8, <1>9, <1>10, <1>11, <1>12

\* In a header that is present, a literal is found as a whole, and a regex once.
LEMMA FoundNamed ==
    ASSUME NEW def, NEW value, Named(def.part), def.part \in DOMAIN response.header_map
    PROVE  /\ def.kind = "Word" => Found(def, value) =
                 IF OccurrencesIgnoringCase(WordBytes[value], response.header_map[def.part]) # {}
                 THEN One(value) ELSE {}
           /\ def.kind = "Binary" => Found(def, value) =
                 IF Occurrences(HexBytes[value], response.header_map[def.part]) # {}
                 THEN One(value) ELSE {}
           /\ def.kind = "Regex" => Found(def, value) =
                 Leftmost(Finds(Class[RuntimeText(value)], response.header_map[def.part]))
<1>1. {[text |-> value, offset |-> n] : n \in {0}} = One(value)
  BY DEF One
<1>2. CASE def.kind = "Word"
  BY <1>1, <1>2 DEF Found
<1>3. CASE def.kind = "Binary"
  BY <1>1, <1>3 DEF Found
<1>4. CASE def.kind = "Regex"
  BY <1>4 DEF Found
<1> QED
  BY <1>2, <1>3, <1>4

\* The values of a matcher are looked for in one phase, which its kind and its part
\* determine.
LEMMA PhaseCases ==
    ASSUME NEW def \in Matcher
    PROVE  /\ PhaseOf(def) \in Recording
           /\ PhaseOf(def) = "dsl" <=> def.kind = "Dsl"
           /\ PhaseOf(def) = "numbers" <=> def.kind \in {"Status", "Size"}
           /\ PhaseOf(def) = "named" <=>
                 def.kind \in {"Word", "Binary", "Regex"} /\ Named(def.part)
           /\ PhaseOf(def) = "words" <=> def.kind \in {"Word", "Binary"} /\ ~Named(def.part)
           /\ \A p \in Part : PhaseOf(def) = p <=> def.kind = "Regex" /\ def.part = p
<1>1. /\ def.kind \in {"Word", "Binary", "Regex", "Status", "Size", "Dsl"}
      /\ Named(def.part) \/ def.part \in Part
      /\ \A p \in Part : ~Named(p)
  BY PatternAssumption DEF Matcher, Named
<1> QED
  BY <1>1 DEF PhaseOf, Part, Recording

\* A hit that entry i has in phase s, found at `at`.
EntryHit(hit, i, F, at, s) ==
    /\ hit = Hit(i, F, at)
    /\ at \in Nat \X Nat \X Nat
    /\ PhaseOf(DefAt(refs[i].key)) = s
    /\ Ordered(Distinct(F))
    /\ FoundAt(refs[i].key) # {}

\* A phase is sound if its hits are those of its entries, at places of their own.
LEMMA PhaseOfEntries ==
    ASSUME Scannable, NEW s, s # "dsl",
           \A hit \in HitsOf(s) : \E i \in DOMAIN refs : \E F, at :
              /\ EntryHit(hit, i, F, at, s)
              /\ FirstOfKey(hit, s) => Distinct(F) = FoundAt(refs[i].key),
           \A hit, other \in HitsOf(s) : hit.at = other.at => hit = other,
           \A i \in DOMAIN refs : PhaseOf(DefAt(refs[i].key)) = s /\ FoundAt(refs[i].key) # {} =>
              \E hit \in HitsOf(s) : hit.key = refs[i].key
    PROVE  SoundPhase(s)
<1>1. ASSUME NEW hit \in HitsOf(s)
      PROVE  SoundHit(hit, s) /\ (FirstOfKey(hit, s) => Distinct(hit.finds) = FoundAt(hit.key))
  <2>1. PICK i \in DOMAIN refs : \E F, at :
           /\ EntryHit(hit, i, F, at, s)
           /\ FirstOfKey(hit, s) => Distinct(F) = FoundAt(refs[i].key)
    OBVIOUS
  <2>2. PICK F, at :
           /\ EntryHit(hit, i, F, at, s)
           /\ FirstOfKey(hit, s) => Distinct(F) = FoundAt(refs[i].key)
    BY <2>1
  <2>3. PICK k : k = refs[i].key
    OBVIOUS
  <2>4. /\ hit.key = k /\ hit.finds = F /\ hit.at = at
        /\ hit.key \in Wanted
        /\ hit.negative = Negative(hit.key)
        /\ hit.values = IF DefAt(hit.key).kind = "Dsl" THEN DefAt(hit.key).values
                        ELSE <<Reported(hit.key)>>
    BY <2>1, <2>2, <2>3, HitOfEntry DEF EntryHit, Scannable
  <2> QED
    BY <2>2, <2>3, <2>4 DEF EntryHit, SoundHit
<1>2. ASSUME NEW k \in Wanted, PhaseOf(DefAt(k)) = s, FoundAt(k) # {}
      PROVE  \E hit \in HitsOf(s) : hit.key = k
  <2>1. PICK i \in DOMAIN refs : refs[i].key = k
    BY <1>2, EntryOfValue DEF Scannable
  <2> QED
    BY <2>1, <1>2
<1> QED
  BY <1>1, <1>2 DEF SoundPhase

\* The hits in the indexes of numbers are those of the statuses and the sizes.
LEMMA NumbersAreSound ==
    ASSUME Scannable
    PROVE  SoundPhase("numbers")
<1> USE DEF Scannable
<1>1. HitsOf("numbers") = NumberHits
  BY DEF HitsOf, Part
<1> DEFINE Same(i) == refs[i].data = IF refs[i].kind = "Status" THEN response.status
                                     ELSE response.content_length
           place(i) == <<IF refs[i].kind = "Status" THEN 1 ELSE 2, i, 0>>
<1>2. ASSUME NEW i \in DOMAIN refs, refs[i].kind \in {"Status", "Size"}
      PROVE  /\ Literal(i, 0) = One(ValueAt(refs[i].key))
             /\ FoundAt(refs[i].key) = IF Same(i) THEN One(ValueAt(refs[i].key)) ELSE {}
             /\ PhaseOf(DefAt(refs[i].key)) = "numbers"
             /\ i \in Nat
  <2>1. PICK k : k = refs[i].key
    OBVIOUS
  <2>2. /\ refs[i].kind = DefAt(k).kind /\ PatternOf(i) = Reported(k) /\ i \in Nat
        /\ refs[i].data = Number[ValueAt(k)]
    BY <2>1, <1>2, EntryFacts DEF EntryData
  <2>3. Literal(i, 0) = One(ValueAt(k))
    BY <2>2, <1>2 DEF Reported, Literal, One
  <2>4. FoundAt(k) = IF Same(i) THEN One(ValueAt(k)) ELSE {}
    BY <2>2, <1>2, FoundCases DEF FoundAt
  <2> QED
    BY <2>1, <2>2, <2>3, <2>4, <1>2 DEF PhaseOf
<1>3. ASSUME NEW i \in DOMAIN refs, PhaseOf(DefAt(refs[i].key)) = "numbers"
      PROVE  refs[i].kind \in {"Status", "Size"}
  <2>1. PICK k : k = refs[i].key
    OBVIOUS
  <2>2. DefAt(k) \in Matcher /\ refs[i].kind = DefAt(k).kind
    BY <2>1, EntryFacts
  <2> QED
    BY <2>1, <2>2, <1>3, PhaseCases
<1>4. NumberHits =
        {Hit(i, Literal(i, 0), place(i)) :
            i \in {j \in DOMAIN refs : refs[j].kind \in {"Status", "Size"} /\ Same(j)}}
  BY DEF NumberHits
<1>5. ASSUME NEW hit \in NumberHits
      PROVE  \E i \in DOMAIN refs : \E F, at :
                /\ EntryHit(hit, i, F, at, "numbers")
                /\ Distinct(F) = FoundAt(refs[i].key)
  <2>1. PICK i \in DOMAIN refs : /\ refs[i].kind \in {"Status", "Size"} /\ Same(i)
                                /\ hit = Hit(i, Literal(i, 0), place(i))
    BY <1>4
  <2>2. PICK F : F = One(ValueAt(refs[i].key))
    OBVIOUS
  <2>3. Ordered(F) /\ Distinct(F) = F /\ F # {}
    BY <2>2, OneFind DEF One
  <2>4. place(i) \in Nat \X Nat \X Nat
    BY <2>1, <1>2
  <2>5. /\ Literal(i, 0) = F /\ FoundAt(refs[i].key) = F /\ PhaseOf(DefAt(refs[i].key)) = "numbers"
    BY <2>1, <2>2, <1>2
  <2>6. EntryHit(hit, i, F, place(i), "numbers") /\ Distinct(F) = FoundAt(refs[i].key)
    BY <2>1, <2>3, <2>4, <2>5 DEF EntryHit
  <2> QED
    BY <2>6
<1>6. ASSUME NEW hit \in NumberHits, NEW other \in NumberHits, hit.at = other.at
      PROVE  hit = other
  <2>1. PICK i \in DOMAIN refs : hit = Hit(i, Literal(i, 0), place(i))
    BY <1>4
  <2>2. PICK j \in DOMAIN refs : other = Hit(j, Literal(j, 0), place(j))
    BY <1>4
  <2>3. hit.at = place(i) /\ other.at = place(j)
    BY <2>1, <2>2 DEF Hit
  <2>4. i = j
    BY <2>3, <1>6
  <2> QED
    BY <2>1, <2>2, <2>4
<1>7. ASSUME NEW i \in DOMAIN refs, PhaseOf(DefAt(refs[i].key)) = "numbers",
             FoundAt(refs[i].key) # {}
      PROVE  \E hit \in NumberHits : hit.key = refs[i].key
  <2>1. Hit(i, Literal(i, 0), place(i)) \in NumberHits
    BY <1>2, <1>3, <1>4, <1>7
  <2>2. Hit(i, Literal(i, 0), place(i)).key = refs[i].key
    BY DEF Hit
  <2> QED
    BY <2>1, <2>2
<1> HIDE DEF place, Same
<1>8. \A hit \in HitsOf("numbers") : \E i \in DOMAIN refs : \E F, at :
         /\ EntryHit(hit, i, F, at, "numbers")
         /\ FirstOfKey(hit, "numbers") => Distinct(F) = FoundAt(refs[i].key)
  BY <1>1, <1>5
<1>9. \A hit, other \in HitsOf("numbers") : hit.at = other.at => hit = other
  BY <1>1, <1>6
<1>10. \A i \in DOMAIN refs : PhaseOf(DefAt(refs[i].key)) = "numbers" /\ FoundAt(refs[i].key) # {} =>
          \E hit \in HitsOf("numbers") : hit.key = refs[i].key
  BY <1>1, <1>7
<1> QED
  BY <1>8, <1>9, <1>10, PhaseOfEntries

\* The hits in the regex sets of a part are those of its regexes, as every regex is
\* in a set.
LEMMA RegexesAreSound ==
    ASSUME Scannable, ChunkSize <= SetLimit, NEW part \in Part
    PROVE  SoundPhase(part)
<1> USE DEF Scannable
<1> DEFINE text == View(response, part)
           found(i) == Finds(refs[i].data, text)
           place(i) == <<i, 0, 0>>
<1>1. HitsOf(part) = RegexHits(part) /\ part # "dsl" /\ part \notin HeaderName
  BY PatternAssumption DEF HitsOf, Part
<1>2. UNION regex_sets[part] = RegexIndices(part)
  <2>1. regex_sets[part] = {c \in ChunksOf(RegexIndices(part)) : Builds(c)}
    BY DEF IInv, PhaseInv
  <2>2. UNION regex_sets[part] \subseteq RegexIndices(part)
    BY <2>1 DEF ChunksOf, ChunkOf
  <2>3. RegexesAreScanned
    BY EveryChunkBuilds
  <2>4. RegexIndices(part) \subseteq UNION regex_sets[part]
    BY <2>3, <1>1 DEF RegexesAreScanned, RegexIndices, Named
  <2> QED
    BY <2>2, <2>4
<1>3. ASSUME NEW i \in RegexIndices(part)
      PROVE  /\ i \in Nat
             /\ refs[i].data = Class[PatternOf(i)]
             /\ FoundAt(refs[i].key) = Distinct(found(i))
             /\ PhaseOf(DefAt(refs[i].key)) = part
  <2>1. PICK k : k = refs[i].key
    OBVIOUS
  <2>2. i \in DOMAIN refs /\ refs[i].kind = "Regex" /\ refs[i].part = part
    BY DEF RegexIndices
  <2>3. /\ DefAt(k).kind = "Regex" /\ DefAt(k).part = part /\ DefAt(k) \in Matcher
        /\ PatternOf(i) = Reported(k) /\ i \in Nat
        /\ refs[i].data = Class[RuntimeText(ValueAt(k))]
    BY <2>1, <2>2, EntryFacts DEF EntryData
  <2>4. PatternOf(i) = RuntimeText(ValueAt(k))
    BY <2>3 DEF Reported
  <2>5. FoundAt(k) = Distinct(found(i))
    <3>1. PICK def, value : def = DefAt(k) /\ value = ValueAt(k)
      OBVIOUS
    <3>2. ~Named(part) /\ def.part = part /\ def.kind = "Regex"
      BY <3>1, <2>3, <1>1 DEF Named
    <3>3. Found(def, value) = Distinct(Finds(Class[RuntimeText(value)], View(response, part)))
      BY <3>2, FoundCases
    <3> QED
      BY <3>1, <3>3, <2>3 DEF FoundAt
  <2>6. PhaseOf(DefAt(k)) = part
    BY <2>3, PhaseCases
  <2> QED
    BY <2>1, <2>3, <2>4, <2>5, <2>6
<1>4. \A i \in DOMAIN refs : PhaseOf(DefAt(refs[i].key)) = part => i \in RegexIndices(part)
  <2> SUFFICES ASSUME NEW i \in DOMAIN refs, NEW k, k = refs[i].key, PhaseOf(DefAt(k)) = part
               PROVE  i \in RegexIndices(part)
    OBVIOUS
  <2>1. DefAt(k) \in Matcher /\ refs[i].kind = DefAt(k).kind /\ refs[i].part = DefAt(k).part
    BY EntryFacts
  <2> QED
    BY <2>1, PhaseCases DEF RegexIndices
<1>5. ASSUME NEW i \in RegexIndices(part)
      PROVE  Ordered(Distinct(found(i))) /\ (found(i) # {} <=> Distinct(found(i)) # {})
  <2>1. IsSeq(text)
    BY ResponseParts
  <2>2. Ordered(found(i))
    BY <2>1, FindsAreOrdered
  <2>3. Distinct(found(i)) \subseteq found(i)
    BY DEF Distinct
  <2> HIDE DEF found
  <2> QED
    BY <2>2, <2>3, PartIsOrdered, SomethingIsDistinct
<1>6. RegexHits(part) =
        {Hit(i, found(i), place(i)) : i \in {j \in RegexIndices(part) : found(j) # {}}}
  BY <1>2, <1>3 DEF RegexHits
<1> HIDE DEF found
<1>7. ASSUME NEW hit \in RegexHits(part)
      PROVE  \E i \in DOMAIN refs : \E F, at :
                /\ EntryHit(hit, i, F, at, part)
                /\ Distinct(F) = FoundAt(refs[i].key)
  <2>1. PICK i \in RegexIndices(part) : found(i) # {} /\ hit = Hit(i, found(i), place(i))
    BY <1>6
  <2>2. EntryHit(hit, i, found(i), place(i), part)
    BY <2>1, <1>3, <1>5 DEF EntryHit
  <2>3. i \in DOMAIN refs
    BY DEF RegexIndices
  <2> QED
    BY <2>2, <2>3, <1>3
<1>8. ASSUME NEW hit \in RegexHits(part), NEW other \in RegexHits(part), hit.at = other.at
      PROVE  hit = other
  <2>1. PICK i \in RegexIndices(part) : hit = Hit(i, found(i), place(i))
    BY <1>6
  <2>2. PICK j \in RegexIndices(part) : other = Hit(j, found(j), place(j))
    BY <1>6
  <2>3. hit.at = place(i) /\ other.at = place(j)
    BY <2>1, <2>2 DEF Hit
  <2>4. i = j
    BY <2>3, <1>8
  <2> QED
    BY <2>1, <2>2, <2>4
<1>9. ASSUME NEW i \in DOMAIN refs, PhaseOf(DefAt(refs[i].key)) = part, FoundAt(refs[i].key) # {}
      PROVE  \E hit \in RegexHits(part) : hit.key = refs[i].key
  <2>1. i \in RegexIndices(part) /\ found(i) # {}
    BY <1>3, <1>4, <1>5, <1>9
  <2>2. Hit(i, found(i), place(i)) \in RegexHits(part)
    BY <2>1, <1>6
  <2>3. Hit(i, found(i), place(i)).key = refs[i].key
    BY DEF Hit
  <2> QED
    BY <2>2, <2>3
<1> QED
  BY <1>1, <1>7, <1>8, <1>9, PhaseOfEntries

\* The hits in the headers are those of the values looked for in a named header.
LEMMA NamedAreSound ==
    ASSUME Scannable
    PROVE  SoundPhase("named")
<1> USE DEF Scannable
<1> DEFINE present(i) == refs[i].part \in DOMAIN response.header_map
           text(i) == response.header_map[refs[i].part]
           found(i) ==
              CASE refs[i].kind = "Word" ->
                      IF OccurrencesIgnoringCase(refs[i].data, text(i)) # {}
                      THEN Literal(i, 0) ELSE {}
                [] refs[i].kind = "Binary" ->
                      IF Occurrences(refs[i].data, text(i)) # {} THEN Literal(i, 0) ELSE {}
                [] refs[i].kind = "Regex" -> Leftmost(Finds(refs[i].data, text(i)))
           place(i) == <<CASE refs[i].kind = "Word" -> 1 [] refs[i].kind = "Binary" -> 2
                           [] refs[i].kind = "Regex" -> 3, i, 0>>
           entries == {i \in DOMAIN refs : /\ refs[i].kind \in {"Word", "Binary", "Regex"}
                                           /\ Named(refs[i].part)}
<1>1. HitsOf("named") = UNION {NamedHits(name) : name \in DOMAIN response.header_map}
  BY DEF HitsOf, Part
<1>2. ASSUME NEW i \in entries
      PROVE  /\ i \in Nat
             /\ refs[i].kind = "Word" => refs[i].data = WordBytes[PatternOf(i)]
             /\ FoundAt(refs[i].key) = IF present(i) THEN found(i) ELSE {}
             /\ PhaseOf(DefAt(refs[i].key)) = "named"
             /\ present(i) => IsSeq(text(i))
  <2>1. PICK k : k = refs[i].key
    OBVIOUS
  <2>2. /\ DefAt(k).kind = refs[i].kind /\ DefAt(k).part = refs[i].part /\ DefAt(k) \in Matcher
        /\ PatternOf(i) = Reported(k) /\ i \in Nat
        /\ refs[i].data = EntryData(DefAt(k).kind, ValueAt(k))
    BY <2>1, EntryFacts
  <2>3. PhaseOf(DefAt(k)) = "named"
    BY <2>2, PhaseCases
  <2>4. refs[i].kind \in {"Word", "Binary"} =>
           PatternOf(i) = ValueAt(k) /\ Literal(i, 0) = One(ValueAt(k))
    BY <2>2 DEF Reported, Literal, One
  <2>5. /\ refs[i].kind = "Word" => refs[i].data = WordBytes[ValueAt(k)]
        /\ refs[i].kind = "Binary" => refs[i].data = HexBytes[ValueAt(k)]
        /\ refs[i].kind = "Regex" => refs[i].data = Class[RuntimeText(ValueAt(k))]
    BY <2>2 DEF EntryData
  <2>6. FoundAt(k) = IF present(i) THEN found(i) ELSE {}
    <3>1. PICK def, value, part : def = DefAt(k) /\ value = ValueAt(k) /\ part = refs[i].part
      OBVIOUS
    <3>2. Named(part) /\ def.part = part /\ def.kind = refs[i].kind
      BY <3>1, <2>2
    <3>3. part \notin DOMAIN response.header_map => Found(def, value) = {}
      BY <3>2, FoundCases
    <3>5. part \in DOMAIN response.header_map =>
             /\ def.kind = "Word" => Found(def, value) =
                   IF OccurrencesIgnoringCase(WordBytes[value], response.header_map[part]) # {}
                   THEN One(value) ELSE {}
             /\ def.kind = "Binary" => Found(def, value) =
                   IF Occurrences(HexBytes[value], response.header_map[part]) # {}
                   THEN One(value) ELSE {}
             /\ def.kind = "Regex" =>
                   Found(def, value) =
                      Leftmost(Finds(Class[RuntimeText(value)], response.header_map[part]))
      BY <3>2, FoundNamed
    <3>8. FoundAt(k) = Found(def, value)
      BY <3>1 DEF FoundAt
    <3> QED
      BY <3>1, <3>2, <3>3, <3>5, <3>8, <2>4, <2>5
  <2>7. present(i) => IsSeq(text(i))
    BY ResponseParts
  <2> QED
    BY <2>1, <2>2, <2>3, <2>4, <2>5, <2>6, <2>7
<1>3. \A i \in DOMAIN refs : PhaseOf(DefAt(refs[i].key)) = "named" => i \in entries
  <2> SUFFICES ASSUME NEW i \in DOMAIN refs, NEW k, k = refs[i].key, PhaseOf(DefAt(k)) = "named"
               PROVE  i \in entries
    OBVIOUS
  <2>1. DefAt(k) \in Matcher /\ refs[i].kind = DefAt(k).kind /\ refs[i].part = DefAt(k).part
    BY EntryFacts
  <2> QED
    BY <2>1, PhaseCases
<1>4. ASSUME NEW i \in entries, present(i)
      PROVE  /\ Ordered(found(i)) /\ Distinct(found(i)) = found(i)
             /\ refs[i].kind = "Regex" => (found(i) # {} <=> Finds(refs[i].data, text(i)) # {})
  <2>1. CASE refs[i].kind = "Regex"
    <3> DEFINE F == Finds(refs[i].data, text(i))
    <3>1. found(i) = Leftmost(F)
      BY <2>1
    <3>2. Ordered(F)
      BY <1>2, <1>4, FindsAreOrdered
    <3>3. Leftmost(F) \subseteq F
      BY DEF Leftmost
    <3> HIDE DEF F, found
    <3>4. /\ Ordered(Leftmost(F)) /\ Distinct(Leftmost(F)) = Leftmost(F)
          /\ F # {} <=> Leftmost(F) # {}
      BY <3>2, <3>3, PartIsOrdered, LeftmostIsDistinct
    <3> QED
      BY <3>1, <3>4 DEF F
  <2>2. CASE refs[i].kind \in {"Word", "Binary"}
    <3>1. found(i) = {} \/ found(i) = {[text |-> PatternOf(i), offset |-> 0]}
      BY <2>2 DEF Literal
    <3>2. Ordered({}) /\ Distinct({}) = {}
      BY FS_EmptySet DEF Ordered, Distinct
    <3> HIDE DEF found
    <3> QED
      BY <3>1, <3>2, <2>2, OneFind
  <2> QED
    BY <2>1, <2>2
<1>5. ASSUME NEW name \in DOMAIN response.header_map, NEW hit \in NamedHits(name)
      PROVE  \E i \in entries : present(i) /\ found(i) # {} /\ hit = Hit(i, found(i), place(i))
  <2> DEFINE of(kind) ==
         {i \in DOMAIN refs : refs[i].kind = kind /\ Named(refs[i].part) /\ refs[i].part = name}
  <2>1. CASE \E i \in of("Word") : /\ OccurrencesIgnoringCase(WordBytes[PatternOf(i)],
                                                           response.header_map[name]) # {}
                                  /\ hit = Hit(i, Literal(i, 0), <<1, i, 0>>)
    BY <2>1, <1>2 DEF Literal
  <2>2. CASE \E i \in of("Binary") : /\ Occurrences(refs[i].data, response.header_map[name]) # {}
                                    /\ hit = Hit(i, Literal(i, 0), <<2, i, 0>>)
    BY <2>2 DEF Literal
  <2>3. CASE \E i \in of("Regex") :
                /\ Finds(refs[i].data, response.header_map[name]) # {}
                /\ hit = Hit(i, Leftmost(Finds(refs[i].data, response.header_map[name])),
                             <<3, i, 0>>)
    BY <2>3, <1>4
  <2> QED
    BY <2>1, <2>2, <2>3 DEF NamedHits
<1>6. ASSUME NEW i \in entries, present(i), found(i) # {}
      PROVE  \E name \in DOMAIN response.header_map : Hit(i, found(i), place(i)) \in NamedHits(name)
  <2>1. PICK name \in DOMAIN response.header_map : name = refs[i].part
    BY <1>6
  <2>2. CASE refs[i].kind = "Word"
    BY <2>1, <2>2, <1>2, <1>6 DEF NamedHits
  <2>3. CASE refs[i].kind = "Binary"
    BY <2>1, <2>3, <1>2, <1>6 DEF NamedHits
  <2>4. CASE refs[i].kind = "Regex"
    BY <2>1, <2>4, <1>4, <1>6 DEF NamedHits
  <2> QED
    BY <2>2, <2>3, <2>4
<1> HIDE DEF found
<1>7. ASSUME NEW hit \in HitsOf("named")
      PROVE  \E i \in DOMAIN refs : \E F, at :
                /\ EntryHit(hit, i, F, at, "named")
                /\ Distinct(F) = FoundAt(refs[i].key)
  <2>1. PICK name \in DOMAIN response.header_map : hit \in NamedHits(name)
    BY <1>1
  <2>2. PICK i \in entries : present(i) /\ found(i) # {} /\ hit = Hit(i, found(i), place(i))
    BY <1>5, <2>1
  <2>3. EntryHit(hit, i, found(i), place(i), "named")
    BY <2>2, <1>2, <1>4 DEF EntryHit
  <2>4. Distinct(found(i)) = FoundAt(refs[i].key)
    BY <2>2, <1>2, <1>4
  <2> QED
    BY <2>3, <2>4
<1>8. ASSUME NEW hit \in HitsOf("named"), NEW other \in HitsOf("named"), hit.at = other.at
      PROVE  hit = other
  <2> DEFINE Placed(h) == \E i \in entries : h = Hit(i, found(i), place(i))
  <2>0. Placed(hit) /\ Placed(other)
    <3>1. \A name \in DOMAIN response.header_map : \A h \in NamedHits(name) : Placed(h)
      BY <1>5
    <3> HIDE DEF Placed
    <3> QED
      BY <3>1, <1>1
  <2>1. PICK i \in entries : hit = Hit(i, found(i), place(i))
    BY <2>0
  <2>2. PICK j \in entries : other = Hit(j, found(j), place(j))
    BY <2>0
  <2>3. hit.at = place(i) /\ other.at = place(j)
    BY <2>1, <2>2 DEF Hit
  <2>4. i = j
    BY <2>3, <1>8
  <2> QED
    BY <2>1, <2>2, <2>4
<1>9. ASSUME NEW i \in DOMAIN refs, PhaseOf(DefAt(refs[i].key)) = "named",
             FoundAt(refs[i].key) # {}
      PROVE  \E hit \in HitsOf("named") : hit.key = refs[i].key
  <2>1. i \in entries /\ present(i) /\ found(i) # {}
    BY <1>2, <1>3, <1>9
  <2>2. Hit(i, found(i), place(i)) \in HitsOf("named")
    BY <2>1, <1>1, <1>6
  <2>3. Hit(i, found(i), place(i)).key = refs[i].key
    BY DEF Hit
  <2> QED
    BY <2>2, <2>3
<1> QED
  BY <1>7, <1>8, <1>9, PhaseOfEntries

\* The leftmost of the occurrences of a text.
LEMMA LeftmostOfTexts ==
    ASSUME NEW O \in SUBSET Nat, NEW n \in O, NEW text,
           NEW all, all = {[text |-> text, offset |-> m] : m \in O}
    PROVE  /\ Leftmost(all) # {}
           /\ (\A m \in O : n <= m) => Leftmost(all) = {[text |-> text, offset |-> n]}
<1> DEFINE find(m) == [text |-> text, offset |-> m]
<1>1. ASSUME NEW k \in O, \A m \in O : k <= m
      PROVE  Leftmost(all) = {find(k)}
  <2>1. find(k) \in Leftmost(all)
    <3>1. ASSUME NEW g \in all
          PROVE  find(k).offset <= g.offset
      <4>1. PICK m \in O : g = find(m)
        OBVIOUS
      <4> QED
        BY <4>1, <1>1
    <3> QED
      BY <3>1 DEF Leftmost
  <2>2. ASSUME NEW f \in Leftmost(all)
        PROVE  f = find(k)
    <3>1. PICK m \in O : f = find(m)
      BY DEF Leftmost
    <3>2. find(k) \in all
      OBVIOUS
    <3>3. f.offset <= find(k).offset
      BY <3>2 DEF Leftmost
    <3>4. m <= k
      BY <3>1, <3>3
    <3>5. m = k
      BY <3>4, <1>1
    <3> QED
      BY <3>1, <3>5
  <2> QED
    BY <2>1, <2>2
<1>2. PICK k \in O : \A m \in O : k <= m
  BY LeastNat
<1> QED
  BY <1>1, <1>2

\* The hits of the automaton are those of the words and binaries looked for in an
\* unnamed part, at every occurrence in that part; the first of an entry is the
\* leftmost.
LEMMA WordsAreSound ==
    ASSUME Scannable
    PROVE  SoundPhase("words")
<1> USE DEF Scannable
<1> DEFINE part(i) == refs[i].part
           size(i) == Len(refs[i].data)
           base(i) == IF part(i) = "Body" THEN Len(response.headers) ELSE 0
           occurrences(i) == OccurrencesIgnoringCase(refs[i].data, View(response, part(i)))
           place(i, n) == <<base(i) + n + size(i), base(i) + n, i>>
           hit_at(i, n) == Hit(i, Literal(i, n), place(i, n))
           header_len == Len(response.headers)
           hit_of(i, start, end) ==
                CASE refs[i].part = "All" -> {Hit(i, Literal(i, start), <<end, start, i>>)}
                  [] refs[i].part = "Header" /\ end <= header_len ->
                        {Hit(i, Literal(i, start), <<end, start, i>>)}
                  [] refs[i].part = "Body" /\ start >= header_len ->
                        {Hit(i, Literal(i, start - header_len), <<end, start, i>>)}
                  [] OTHER -> {}
<1>1. HitsOf("words") = WordHits(response)
  BY DEF HitsOf, Part
<1>2. word_groups = Groups
  BY DEF IInv, PhaseInv
<1>3. ASSUME NEW i \in WordIndices
      PROVE  /\ i \in DOMAIN refs /\ i \in Nat
             /\ part(i) \in Part
             /\ IsSeq(refs[i].data) /\ size(i) \in Nat
             /\ PhaseOf(DefAt(refs[i].key)) = "words"
             /\ FoundAt(refs[i].key) =
                   Leftmost({[text |-> PatternOf(i), offset |-> n] : n \in occurrences(i)})
  <2>1. PICK k, def, value : k = refs[i].key /\ def = DefAt(k) /\ value = ValueAt(k)
    OBVIOUS
  <2>2. i \in DOMAIN refs /\ refs[i].kind \in {"Word", "Binary"} /\ ~Named(part(i))
    BY DEF WordIndices
  <2>3. /\ def.kind = refs[i].kind /\ def.part = part(i) /\ def \in Matcher
        /\ PatternOf(i) = Reported(k) /\ i \in Nat
        /\ refs[i].data = EntryData(def.kind, value)
        /\ Accepted(def.kind, value) /\ value \in DOMAIN WordBytes
    BY <2>1, <2>2, EntryFacts
  <2>4. PatternOf(i) = value
    BY <2>1, <2>2, <2>3 DEF Reported
  <2>5. IsSeq(refs[i].data) /\ size(i) \in Nat
    BY <2>2, <2>3, BytesAreSequences, SeqDomain
  <2>6. PhaseOf(def) = "words"
    BY <2>2, <2>3, PhaseCases
  <2>7. part(i) \in Part
    BY <2>2, <2>3 DEF Matcher, Named
  <2>8. Found(def, value) = Leftmost({[text |-> value, offset |-> n] : n \in occurrences(i)})
    BY <2>2, <2>3, FoundCases
  <2> QED
    BY <2>1, <2>2, <2>3, <2>4, <2>5, <2>6, <2>7, <2>8 DEF FoundAt
<1>4. /\ IsSeq(response.headers) /\ IsSeq(response.body)
      /\ Len(response.headers) \in Nat
      /\ AllBytes(response) = response.headers \o response.body
  BY ResponseParts, SeqDomain DEF AllBytes
<1>5. ASSUME NEW i \in WordIndices
      PROVE  /\ occurrences(i) \subseteq Nat
             /\ base(i) \in Nat
             /\ \A n \in Nat : n \in occurrences(i) <=>
                   /\ base(i) + n \in OccurrencesIgnoringCase(refs[i].data, AllBytes(response))
                   /\ part(i) = "Header" => n + size(i) <= Len(response.headers)
             /\ OccurrencesIgnoringCase(refs[i].data, AllBytes(response)) \subseteq Nat
  <2>1. PICK h, b, w : h = response.headers /\ b = response.body /\ w = refs[i].data
    OBVIOUS
  <2>2. /\ \A n : n \in OccurrencesIgnoringCase(w, h) <=>
                    n \in OccurrencesIgnoringCase(w, h \o b) /\ n + Len(w) <= Len(h)
        /\ \A n \in Nat : n \in OccurrencesIgnoringCase(w, b) <=>
                    Len(h) + n \in OccurrencesIgnoringCase(w, h \o b)
        /\ \A s \in {h, b, h \o b} : OccurrencesIgnoringCase(w, s) \subseteq Nat
    <3>1. IsSeq(h) /\ IsSeq(b) /\ IsSeq(w)
      BY <2>1, <1>3, <1>4
    <3> QED
      BY ONLY <3>1, OccurrencesInParts
  <2>3. /\ part(i) = "Header" => View(response, part(i)) = h
        /\ part(i) = "Body" => View(response, part(i)) = b
        /\ part(i) = "All" => View(response, part(i)) = h \o b
    BY <2>1, <1>4 DEF View
  <2> DEFINE all == OccurrencesIgnoringCase(refs[i].data, AllBytes(response))
  <2>7. all = OccurrencesIgnoringCase(w, h \o b) /\ all \subseteq Nat
    <3>1. all = OccurrencesIgnoringCase(w, h \o b)
      BY <2>1, <1>4
    <3> HIDE DEF all
    <3> QED
      BY <2>2, <3>1
  <2>4. CASE part(i) = "Header"
    <3>1. base(i) = 0 /\ \A n \in Nat : base(i) + n = n
      BY <2>4
    <3>2. occurrences(i) = OccurrencesIgnoringCase(w, h) /\ size(i) = Len(w)
      BY <2>1, <2>3, <2>4
    <3>3. /\ OccurrencesIgnoringCase(w, h) \subseteq Nat
          /\ \A n : n \in OccurrencesIgnoringCase(w, h) <=> n \in all /\ n + Len(w) <= Len(h)
      BY <2>2, <2>7
    <3> HIDE DEF base, occurrences, size, all
    <3>4. \A n \in Nat : n \in occurrences(i) <=>
             base(i) + n \in all /\ n + size(i) <= Len(response.headers)
      BY <2>1, <3>1, <3>2, <3>3
    <3> QED
      BY <2>4, <2>7, <3>1, <3>2, <3>3, <3>4 DEF all
  <2>5. CASE part(i) = "Body"
    <3>1. base(i) = Len(h) /\ base(i) \in Nat
      BY <2>1, <2>5, <1>4
    <3>2. occurrences(i) = OccurrencesIgnoringCase(w, b)
      BY <2>1, <2>3, <2>5
    <3>3. OccurrencesIgnoringCase(w, b) \subseteq Nat
      BY <2>2
    <3> HIDE DEF base, occurrences, all
    <3>4. \A n \in Nat : n \in occurrences(i) <=> base(i) + n \in all
      BY <2>2, <2>7, <3>1, <3>2
    <3>5. part(i) # "Header"
      BY <2>5
    <3> QED
      BY <2>7, <3>1, <3>2, <3>3, <3>4, <3>5 DEF all
  <2>6. CASE part(i) = "All"
    <3>1. base(i) = 0 /\ \A n \in Nat : base(i) + n = n
      BY <2>6
    <3>2. occurrences(i) = OccurrencesIgnoringCase(w, h \o b) /\ AllBytes(response) = h \o b
      BY <2>1, <2>3, <2>6, <1>4
    <3>3. OccurrencesIgnoringCase(w, h \o b) \subseteq Nat
      BY <2>2
    <3> HIDE DEF base, occurrences
    <3> QED
      BY <2>1, <2>6, <3>1, <3>2, <3>3
  <2> QED
    BY <2>4, <2>5, <2>6, <1>3 DEF Part
<1>6. ASSUME NEW hit \in WordHits(response)
      PROVE  \E i \in WordIndices : \E n \in occurrences(i) : hit = hit_at(i, n)
  <2>1. PICK raw \in DOMAIN Groups : \E i \in Groups[raw] :
           \E start \in OccurrencesIgnoringCase(raw, AllBytes(response)) :
              hit \in hit_of(i, start, start + Len(raw))
    BY <1>2 DEF WordHits
  <2>2. PICK i \in Groups[raw] : \E start \in OccurrencesIgnoringCase(raw, AllBytes(response)) :
              hit \in hit_of(i, start, start + Len(raw))
    BY <2>1
  <2>3. PICK start \in OccurrencesIgnoringCase(raw, AllBytes(response)) :
              hit \in hit_of(i, start, start + Len(raw))
    BY <2>2
  <2>4. i \in WordIndices /\ raw = refs[i].data
    BY <2>1, <2>2 DEF Groups
  <2>5. start \in Nat /\ Len(raw) = size(i) /\ size(i) \in Nat /\ header_len \in Nat
    BY <2>3, <2>4, <1>3, <1>4, <1>5
  <2>6. CASE part(i) = "All"
    <3>1. hit = Hit(i, Literal(i, start), <<start + size(i), start, i>>)
      BY <2>3, <2>5, <2>6
    <3>2. start \in occurrences(i) /\ base(i) + start = start
      BY <2>3, <2>4, <2>5, <2>6, <1>5
    <3>3. hit = hit_at(i, start)
      BY <3>1, <3>2
    <3> QED
      BY <2>4, <3>2, <3>3
  <2>7. CASE part(i) = "Header"
    <3>1. hit = Hit(i, Literal(i, start), <<start + size(i), start, i>>) /\ start + size(i) <= header_len
      BY <2>3, <2>5, <2>7
    <3>2. start \in occurrences(i) /\ base(i) + start = start
      BY <2>3, <2>4, <2>5, <2>7, <3>1, <1>5
    <3>3. hit = hit_at(i, start)
      BY <3>1, <3>2
    <3> QED
      BY <2>4, <3>2, <3>3
  <2>8. CASE part(i) = "Body"
    <3>1. /\ hit = Hit(i, Literal(i, start - header_len), <<start + size(i), start, i>>)
          /\ start >= header_len
      BY <2>3, <2>5, <2>8
    <3>2. PICK n \in Nat : n = start - header_len /\ base(i) + n = start
      <4>1. base(i) = header_len
        BY <2>8
      <4>2. start - header_len \in Nat /\ header_len + (start - header_len) = start
        BY <2>5, <3>1
      <4> QED
        BY <4>1, <4>2
    <3>3. n \in occurrences(i)
      BY <2>3, <2>4, <2>8, <3>2, <1>5
    <3>4. hit = hit_at(i, n)
      BY <3>1, <3>2
    <3> QED
      BY <2>4, <3>3, <3>4
  <2> QED
    BY <2>4, <2>6, <2>7, <2>8, <1>3 DEF Part
<1>7. ASSUME NEW i \in WordIndices, NEW n \in occurrences(i)
      PROVE  hit_at(i, n) \in WordHits(response)
  <2>1. PICK raw : raw = refs[i].data
    OBVIOUS
  <2>2. PICK start : start = base(i) + n
    OBVIOUS
  <2>3. raw \in DOMAIN Groups /\ i \in Groups[raw]
    BY <2>1 DEF Groups
  <2>4. /\ n \in Nat /\ base(i) \in Nat /\ size(i) \in Nat /\ header_len \in Nat
        /\ start \in OccurrencesIgnoringCase(raw, AllBytes(response))
        /\ part(i) = "Header" => n + size(i) <= header_len
    BY <2>1, <2>2, <1>3, <1>4, <1>5
  <2>5. hit_at(i, n) \in hit_of(i, start, start + Len(raw))
    <3>1. start = n + base(i) /\ Len(raw) = size(i)
      BY <2>1, <2>2, <2>4
    <3>2. CASE part(i) = "All"
      BY <3>2, <2>1, <2>2, <2>4
    <3>3. CASE part(i) = "Header"
      BY <3>3, <2>1, <2>2, <2>4
    <3>4. CASE part(i) = "Body"
      <4>1. base(i) = header_len /\ start >= header_len /\ start - header_len = n
        BY <3>4, <2>2, <2>4
      <4> QED
        BY <3>4, <4>1, <2>1, <2>2
    <3> QED
      BY <3>2, <3>3, <3>4, <1>3 DEF Part
  <2>6. WordHits(response) =
           UNION {UNION {hit_of(j, from, from + Len(w)) :
                            j \in Groups[w],
                            from \in OccurrencesIgnoringCase(w, AllBytes(response))} :
                     w \in DOMAIN Groups}
    BY <1>2 DEF WordHits
  <2> HIDE DEF hit_of, hit_at
  <2> QED
    BY <2>3, <2>4, <2>5, <2>6
<1>8. ASSUME NEW hit \in HitsOf("words")
      PROVE  \E i \in DOMAIN refs : \E F, at :
                /\ EntryHit(hit, i, F, at, "words")
                /\ FirstOfKey(hit, "words") => Distinct(F) = FoundAt(refs[i].key)
  <2>1. PICK i \in WordIndices : \E n \in occurrences(i) : hit = hit_at(i, n)
    BY <1>1, <1>6
  <2>2. PICK n \in occurrences(i) : hit = hit_at(i, n)
    BY <2>1
  <2> DEFINE find(m) == [text |-> PatternOf(i), offset |-> m]
             F == {find(n)}
             all == {find(m) : m \in occurrences(i)}
  <2>3. /\ n \in Nat /\ base(i) \in Nat /\ size(i) \in Nat /\ i \in Nat /\ i \in DOMAIN refs
        /\ occurrences(i) \subseteq Nat
    BY <1>3, <1>5
  <2>4. hit = Hit(i, F, place(i, n)) /\ hit.at = place(i, n) /\ hit.key = refs[i].key
    BY <2>2 DEF Hit, Literal
  <2>5. place(i, n) \in Nat \X Nat \X Nat
    BY <2>3
  <2>6. Ordered(F) /\ Distinct(F) = F
    BY <2>3, OneFind
  <2>7. FoundAt(refs[i].key) = Leftmost(all)
    BY <1>3
  <2>8. ASSUME FirstOfKey(hit, "words"), NEW m \in occurrences(i)
        PROVE  n <= m
    <3>1. hit_at(i, m) \in HitsOf("words")
      BY <1>1, <1>7
    <3>2. hit_at(i, m).key = refs[i].key /\ hit_at(i, m).at = place(i, m)
      BY DEF Hit
    <3>3. hit_at(i, m) = hit \/ Before(hit.at, hit_at(i, m).at)
      BY <2>8, <2>4, <3>1, <3>2 DEF FirstOfKey
    <3>4. place(i, m) = place(i, n) \/ Before(place(i, n), place(i, m))
      BY <3>2, <3>3, <2>4
    <3>5. m \in Nat
      BY <2>3
    <3>6. base(i) + m = base(i) + n \/ base(i) + n + size(i) < base(i) + m + size(i)
             \/ base(i) + n < base(i) + m
      BY <3>4 DEF Before
    <3> QED
      BY <3>5, <3>6, <2>3
  <2>9. FirstOfKey(hit, "words") => Leftmost(all) = F
    BY <2>3, <2>8, LeftmostOfTexts
  <2>10. Leftmost(all) # {}
    <3>1. occurrences(i) \in SUBSET Nat /\ n \in occurrences(i)
      BY <2>2, <2>3
    <3> HIDE DEF occurrences
    <3> QED
      BY <3>1, LeftmostOfTexts
  <2>11. EntryHit(hit, i, F, place(i, n), "words")
    BY <2>4, <2>5, <2>6, <2>7, <2>10, <1>3 DEF EntryHit
  <2> QED
    BY <2>3, <2>6, <2>7, <2>9, <2>11
<1>9. ASSUME NEW hit \in HitsOf("words"), NEW other \in HitsOf("words"), hit.at = other.at
      PROVE  hit = other
  <2> DEFINE Placed(h) == \E i \in WordIndices : \E n \in occurrences(i) : h = hit_at(i, n)
  <2>1. Placed(hit) /\ Placed(other)
    BY <1>1, <1>6
  <2>2. PICK i \in WordIndices : \E n \in occurrences(i) : hit = hit_at(i, n)
    BY <2>1
  <2>3. PICK n \in occurrences(i) : hit = hit_at(i, n)
    BY <2>2
  <2>4. PICK j \in WordIndices : \E m \in occurrences(j) : other = hit_at(j, m)
    BY <2>1
  <2>5. PICK m \in occurrences(j) : other = hit_at(j, m)
    BY <2>4
  <2>6. hit.at = place(i, n) /\ other.at = place(j, m)
    BY <2>3, <2>5 DEF Hit
  <2>7. i = j /\ base(i) + n = base(j) + m
    BY <2>6, <1>9
  <2>8. n \in Nat /\ m \in Nat /\ base(i) \in Nat
    BY <2>7, <1>5
  <2>9. n = m
    <3> HIDE DEF base
    <3> QED
      BY <2>7, <2>8
  <2> QED
    BY <2>3, <2>5, <2>7, <2>9
<1>10. ASSUME NEW i \in DOMAIN refs, PhaseOf(DefAt(refs[i].key)) = "words",
              FoundAt(refs[i].key) # {}
       PROVE  \E hit \in HitsOf("words") : hit.key = refs[i].key
  <2>1. i \in WordIndices
    <3>1. PICK k : k = refs[i].key
      OBVIOUS
    <3>2. DefAt(k) \in Matcher /\ refs[i].kind = DefAt(k).kind /\ refs[i].part = DefAt(k).part
      BY <3>1, EntryFacts
    <3> QED
      BY <3>1, <3>2, <1>10, PhaseCases DEF WordIndices
  <2>2. PICK n \in occurrences(i) : TRUE
    BY <2>1, <1>3, <1>10 DEF Leftmost
  <2>3. hit_at(i, n) \in HitsOf("words")
    BY <2>1, <1>1, <1>7
  <2>4. hit_at(i, n).key = refs[i].key
    BY DEF Hit
  <2> QED
    BY <2>3, <2>4
<1> QED
  BY <1>8, <1>9, <1>10, PhaseOfEntries

\* The hits of the DSL loop are those of the expressions that are true.
LEMMA DslIsSound ==
    ASSUME Scannable
    PROVE  SoundPhase("dsl")
<1> USE DEF Scannable
<1> DEFINE true(n) == {v \in DOMAIN DslDefAt(n).values : DslDefAt(n).values[v] \in response.true_dsl}
<1>1. HitsOf("dsl") = UNION {{DslHit(n, v) : v \in true(n)} : n \in DOMAIN dsl_matchers}
  BY DEF HitsOf, Part, DslHits, DslDefAt
<1>2. ASSUME NEW n \in DOMAIN dsl_matchers, NEW v \in DOMAIN DslDefAt(n).values,
             NEW k, k = DslKeyAt(n, v), NEW hit, hit = DslHit(n, v)
      PROVE  /\ hit.key = k /\ hit.at = <<n, v, 0>> /\ hit.at \in Nat \X Nat \X Nat
             /\ k \in Wanted /\ hit.negative = Negative(k)
             /\ DefAt(k).kind = "Dsl" /\ hit.values = DefAt(k).values
             /\ PhaseOf(DefAt(k)) = "dsl"
             /\ hit.finds = One(ValueAt(k))
             /\ FoundAt(k) = IF v \in true(n) THEN One(ValueAt(k)) ELSE {}
  <2>1. PICK def : def = DslDefAt(n)
    OBVIOUS
  <2>2. /\ n \in Nat /\ v \in Nat /\ k \in WantedDsl
        /\ DefAt(k) = def /\ def \in Matcher /\ def.kind = "Dsl"
        /\ ValueAt(k) = def.values[v]
    BY <2>1, <1>2, DslKeyFacts
  <2>3. /\ hit.key = k /\ hit.at = <<n, v, 0>> /\ hit.negative = def.negative
        /\ hit.values = def.values /\ hit.finds = One(def.values[v])
    BY <2>1, <1>2 DEF DslHit, DslKeyAt, DslDefAt, One
  <2>4. Negative(k) = def.negative
    BY <2>2 DEF Negative, DefAt
  <2>5. FoundAt(k) = IF def.values[v] \in response.true_dsl THEN One(def.values[v]) ELSE {}
    BY <2>2, FoundCases DEF FoundAt
  <2>6. PhaseOf(def) = "dsl"
    BY <2>2, PhaseCases
  <2> QED
    BY <2>1, <2>2, <2>3, <2>4, <2>5, <2>6 DEF Wanted
<1>3. ASSUME NEW hit \in HitsOf("dsl")
      PROVE  \E n \in DOMAIN dsl_matchers : \E v \in true(n) : hit = DslHit(n, v)
  BY <1>1
<1>4. ASSUME NEW hit \in HitsOf("dsl")
      PROVE  SoundHit(hit, "dsl") /\ Distinct(hit.finds) = FoundAt(hit.key)
  <2>1. PICK n \in DOMAIN dsl_matchers : \E v \in true(n) : hit = DslHit(n, v)
    BY <1>3
  <2>2. PICK v \in true(n) : hit = DslHit(n, v)
    BY <2>1
  <2>3. PICK k : k = DslKeyAt(n, v)
    OBVIOUS
  <2>4. /\ hit.key = k /\ hit.at \in Nat \X Nat \X Nat
        /\ k \in Wanted /\ hit.negative = Negative(k)
        /\ DefAt(k).kind = "Dsl" /\ hit.values = DefAt(k).values
        /\ PhaseOf(DefAt(k)) = "dsl"
        /\ hit.finds = One(ValueAt(k)) /\ FoundAt(k) = One(ValueAt(k))
    BY <2>1, <2>2, <2>3, <1>2
  <2>5. /\ Ordered(One(ValueAt(k))) /\ Distinct(One(ValueAt(k))) = One(ValueAt(k))
        /\ One(ValueAt(k)) # {}
    BY OneFind DEF One
  <2> QED
    BY <2>4, <2>5 DEF SoundHit
<1>5. ASSUME NEW hit \in HitsOf("dsl"), NEW other \in HitsOf("dsl"), hit.at = other.at
      PROVE  hit = other
  <2>1. PICK n \in DOMAIN dsl_matchers : \E v \in true(n) : hit = DslHit(n, v)
    BY <1>3
  <2>2. PICK v \in true(n) : hit = DslHit(n, v)
    BY <2>1
  <2>3. PICK m \in DOMAIN dsl_matchers : \E w \in true(m) : other = DslHit(m, w)
    BY <1>3
  <2>4. PICK w \in true(m) : other = DslHit(m, w)
    BY <2>3
  <2>5. hit.at = <<n, v, 0>> /\ other.at = <<m, w, 0>>
    BY <2>1, <2>2, <2>3, <2>4, <1>2
  <2>6. n = m /\ v = w
    BY <2>5, <1>5
  <2> QED
    BY <2>2, <2>4, <2>6
<1>6. ASSUME NEW k \in Wanted, PhaseOf(DefAt(k)) = "dsl", FoundAt(k) # {}
      PROVE  \E hit \in HitsOf("dsl") : hit.key = k
  <2>1. k \in WantedDsl
    <3> SUFFICES ASSUME k \in WantedRefs
                 PROVE  FALSE
      BY DEF Wanted
    <3>1. PICK i \in DOMAIN refs : refs[i].key = k
      BY EntryExists
    <3>2. DefAt(k) \in Matcher /\ DefAt(k).kind # "Dsl"
      BY <3>1, EntryFacts
    <3> QED
      BY <3>2, <1>6, PhaseCases
  <2>2. PICK n \in DOMAIN dsl_matchers : \E v \in DOMAIN DslDefAt(n).values : k = DslKeyAt(n, v)
    BY <2>1, DslKeyExists
  <2>3. PICK v \in DOMAIN DslDefAt(n).values : k = DslKeyAt(n, v)
    BY <2>2
  <2>4. v \in true(n) /\ DslHit(n, v).key = k
    BY <2>2, <2>3, <1>2, <1>6
  <2>5. DslHit(n, v) \in HitsOf("dsl")
    BY <2>2, <2>4, <1>1
  <2> QED
    BY <2>4, <2>5
<1> QED
  BY <1>4, <1>5, <1>6 DEF SoundPhase

\* So it is in every phase.
LEMMA PhasesAreSound ==
    ASSUME Scannable, ChunkSize <= SetLimit
    PROVE  \A s \in Recording : SoundPhase(s)
BY WordsAreSound, NamedAreSound, RegexesAreSound, NumbersAreSound, DslIsSound DEF Recording, Part


-----------------------------------------------------------------------------
\* The results of the values.

\* A value the templates ask for is one of a matcher.
LEMMA MatcherOfValue ==
    ASSUME Scannable, NEW k \in Wanted
    PROVE  DefAt(k) \in Matcher /\ Negative(k) = DefAt(k).negative
<1> USE DEF Scannable
<1>1. DefAt(k) \in Matcher
  <2>1. CASE k \in WantedRefs
    <3>1. PICK i \in DOMAIN refs : refs[i].key = k
      BY <2>1, EntryExists
    <3> QED
      BY <3>1, EntryFacts
  <2>2. CASE k \in WantedDsl
    <3>1. PICK n \in DOMAIN dsl_matchers : \E v \in DOMAIN DslDefAt(n).values : k = DslKeyAt(n, v)
      BY <2>2, DslKeyExists
    <3>2. PICK v \in DOMAIN DslDefAt(n).values : k = DslKeyAt(n, v)
      BY <3>1
    <3> QED
      BY <3>1, <3>2, DslKeyFacts
  <2> QED
    BY <2>1, <2>2 DEF Wanted
<1> QED
  BY <1>1 DEF Negative, DefAt

\* Results of different values differ.
LEMMA ResultsByKey ==
    ASSUME NEW k, NEW m \in ResultsOf(k)
    PROVE  m.key = k
BY DEF ResultsOf, Result

\* The negative matchers that are listed are those of the negative values, with
\* what an absence is reported with.
LEMMA AbsenceFacts ==
    ASSUME Scannable
    PROVE  /\ {entry.key : entry \in negative_matchers} = {k \in Wanted : Negative(k)}
           /\ \A entry \in negative_matchers :
                 /\ entry.value = Reported(entry.key)
                 /\ entry.values = IF DefAt(entry.key).kind = "Dsl" THEN DefAt(entry.key).values
                                   ELSE <<Reported(entry.key)>>
<1> USE DEF Scannable
<1>1. merged = Len(templates) /\ negative_matchers = NegativeRefs \cup NegativeDsl
  BY DEF IInv, PhaseInv
<1>2. {entry.key : entry \in negative_matchers} = {k \in Wanted : Negative(k)}
  <2>1. {entry.key : entry \in negative_matchers}
           = {entry.key : entry \in NegativeRefs} \cup {entry.key : entry \in NegativeDsl}
    BY <1>1
  <2> QED
    BY <1>1, <2>1, NegativeRefKeys, NegativeDslKeys DEF Wanted
<1>3. ASSUME NEW entry \in NegativeRefs
      PROVE  /\ entry.value = Reported(entry.key)
             /\ DefAt(entry.key).kind # "Dsl" /\ entry.values = <<Reported(entry.key)>>
  <2>1. PICK i \in DOMAIN refs :
           entry = [key |-> refs[i].key, value |-> PatternOf(i), values |-> <<PatternOf(i)>>]
    BY DEF NegativeRefs
  <2>2. PICK k : k = refs[i].key
    OBVIOUS
  <2>3. DefAt(k).kind # "Dsl" /\ PatternOf(i) = Reported(k)
    BY <2>1, <2>2, EntryFacts
  <2> QED
    BY <2>1, <2>2, <2>3
<1>4. ASSUME NEW entry \in NegativeDsl
      PROVE  /\ entry.value = Reported(entry.key)
             /\ DefAt(entry.key).kind = "Dsl" /\ entry.values = DefAt(entry.key).values
  <2>1. PICK n \in DOMAIN dsl_matchers : \E v \in DOMAIN DslDefAt(n).values :
           entry = [key |-> DslKeyAt(n, v), value |-> DslDefAt(n).values[v],
                    values |-> DslDefAt(n).values]
    BY DEF NegativeDsl, DslValues, DslDefAt, DslKeyAt
  <2>2. PICK v \in DOMAIN DslDefAt(n).values :
           entry = [key |-> DslKeyAt(n, v), value |-> DslDefAt(n).values[v],
                    values |-> DslDefAt(n).values]
    BY <2>1
  <2>3. PICK k, def : k = DslKeyAt(n, v) /\ def = DslDefAt(n)
    OBVIOUS
  <2>4. DefAt(k) = def /\ def.kind = "Dsl" /\ ValueAt(k) = def.values[v]
    BY <2>1, <2>2, <2>3, DslKeyFacts
  <2> QED
    BY <2>2, <2>3, <2>4 DEF Reported
<1> QED
  BY <1>1, <1>2, <1>3, <1>4

\* The first hit of a positive value emits the results of the value.
LEMMA EmissionsAreResults ==
    ASSUME Scannable, NEW s, NEW hit, SoundHit(hit, s), ~hit.negative,
           Distinct(hit.finds) = FoundAt(hit.key)
    PROVE  /\ IsSeq(Emissions(hit)) /\ Distinctly(Emissions(hit))
           /\ Range(Emissions(hit)) = ResultsOf(hit.key)
<1>1. PICK k, F : k = hit.key /\ F = Distinct(hit.finds)
  OBVIOUS
<1>2. Ordered(F)
  BY <1>1 DEF SoundHit
<1>3. /\ IsSeq(Emissions(hit)) /\ Distinctly(Emissions(hit))
      /\ Range(Emissions(hit)) =
            {[key |-> hit.key, values |-> hit.values, value |-> f.text, offset |-> f.offset,
              negative |-> FALSE] : f \in F}
  BY <1>1, <1>2, EmissionsOfHit
<1>4. k \in Wanted /\ DefAt(k).negative = FALSE
  <2>1. k \in Wanted /\ hit.negative = Negative(k)
    BY <1>1 DEF SoundHit
  <2> QED
    BY <2>1, MatcherOfValue DEF Matcher
<1>5. hit.values = IF DefAt(k).kind = "Dsl" THEN DefAt(k).values ELSE <<Reported(k)>>
  BY <1>1 DEF SoundHit
<1>6. ResultsOf(k) = {Result(k, f.text, f.offset) : f \in FoundAt(k)}
  BY <1>4 DEF ResultsOf
<1>7. ResultsOf(k) =
        {[key |-> k, values |-> hit.values, value |-> f.text, offset |-> f.offset,
          negative |-> FALSE] : f \in F}
  <2>1. F = FoundAt(k)
    BY <1>1
  <2>2. \A f \in F : Result(k, f.text, f.offset) =
           [key |-> k, values |-> hit.values, value |-> f.text, offset |-> f.offset,
            negative |-> FALSE]
    BY ONLY <1>4, <1>5 DEF Result
  <2> QED
    BY ONLY <1>6, <2>1, <2>2
<1> QED
  BY <1>1, <1>3, <1>7

\* Two lists without repetitions that share nothing, laid end to end.
LEMMA JoinDistinctly ==
    ASSUME NEW s, IsSeq(s), NEW t, IsSeq(t), Distinctly(s), Distinctly(t),
           Range(s) \cap Range(t) = {}
    PROVE  /\ IsSeq(s \o t) /\ Distinctly(s \o t)
           /\ Range(s \o t) = Range(s) \cup Range(t)
<1> DEFINE j == s \o t
<1>1. IsJoin(j, s, t)
  BY JoinElements
<1> HIDE DEF j
<1>2. /\ IsSeq(j) /\ DOMAIN s = 1..Len(s) /\ DOMAIN t = 1..Len(t) /\ DOMAIN j = 1..Len(j)
      /\ Len(s) \in Nat /\ Len(t) \in Nat /\ Len(j) = Len(s) + Len(t)
      /\ \A i \in 1..Len(s) : j[i] = s[i]
      /\ \A i \in 1..Len(t) : j[Len(s) + i] = t[i]
  BY <1>1, SeqDomain DEF IsJoin
<1>3. ASSUME NEW i \in DOMAIN j
      PROVE  \/ i \in DOMAIN s /\ j[i] = s[i]
             \/ \E k \in DOMAIN t : i = Len(s) + k /\ j[i] = t[k]
  <2>1. CASE i <= Len(s)
    BY <2>1, <1>2
  <2>2. CASE i > Len(s)
    <3>1. i - Len(s) \in DOMAIN t /\ i = Len(s) + (i - Len(s))
      BY <2>2, <1>2
    <3> QED
      BY <3>1, <1>2
  <2> QED
    BY <2>1, <2>2, <1>2
<1>4. \A i \in DOMAIN s, k \in DOMAIN t : s[i] # t[k]
  BY DEF Range
<1>5. Distinctly(j)
  <2> SUFFICES ASSUME NEW a \in DOMAIN j, NEW b \in DOMAIN j, j[a] = j[b]
               PROVE  a = b
    BY DEF Distinctly
  <2> QED
    BY <1>3, <1>4 DEF Distinctly
<1>6. Range(j) = Range(s) \cup Range(t)
  <2>1. \A i \in DOMAIN s : i \in DOMAIN j /\ j[i] = s[i]
    BY <1>2
  <2>2. \A k \in DOMAIN t : Len(s) + k \in DOMAIN j /\ j[Len(s) + k] = t[k]
    BY <1>2
  <2> QED
    BY <2>1, <2>2, <1>3 DEF Range
<1> QED
  BY <1>2, <1>5, <1>6 DEF j

-----------------------------------------------------------------------------
\* The steps of a scan.

\* What a scan looks for, and what is found of it, depends on the database and the
\* response alone.
LEMMA SameScan ==
    ASSUME UNCHANGED <<database, response>>
    PROVE  /\ \A s : HitsOf(s)' = HitsOf(s)
           /\ \A name : NamedHits(name)' = NamedHits(name)
           /\ \A part : RegexHits(part)' = RegexHits(part)
           /\ NumberHits' = NumberHits /\ DslHits' = DslHits
           /\ \A k : DefAt(k)' = DefAt(k) /\ Negative(k)' = Negative(k)
           /\ \A k : FoundAt(k)' = FoundAt(k) /\ ResultsOf(k)' = ResultsOf(k)
           /\ Wanted' = Wanted /\ negative_matchers' = negative_matchers
           /\ ArenaFits' = ArenaFits /\ phase' = phase
<1>1. /\ templates' = templates /\ refs' = refs /\ patterns' = patterns /\ phase' = phase
      /\ dsl_matchers' = dsl_matchers /\ word_groups' = word_groups /\ regex_sets' = regex_sets
      /\ negative_matchers' = negative_matchers /\ response' = response
  BY DEF database, merging, indexes
<1>2. \A i, finds, at : Hit(i, finds, at)' = Hit(i, finds, at)
  BY <1>1 DEF Hit, PatternOf
<1>3. \A i, offset : Literal(i, offset)' = Literal(i, offset)
  BY <1>1 DEF Literal, PatternOf
<1>4. \A name : NamedHits(name)' = NamedHits(name)
  BY <1>1 DEF NamedHits, Hit, Literal, PatternOf
<1>5. \A part : RegexHits(part)' = RegexHits(part)
  BY <1>1 DEF RegexHits, Hit, PatternOf
<1>6. NumberHits' = NumberHits
  BY <1>1 DEF NumberHits, Hit, Literal, PatternOf
<1>7. DslHits' = DslHits
  BY <1>1 DEF DslHits, DslHit, DslDef
<1>8. WordHits(response)' = WordHits(response)
  BY <1>1 DEF WordHits, Hit, Literal, PatternOf
<1>9. \A s : HitsOf(s)' = HitsOf(s)
  BY <1>1, <1>4, <1>5, <1>6, <1>7, <1>8 DEF HitsOf
<1>10. \A k : DefAt(k)' = DefAt(k) /\ Negative(k)' = Negative(k) /\ ValueAt(k)' = ValueAt(k)
  BY <1>1 DEF DefAt, Negative, ValueAt
<1>11. \A k : FoundAt(k)' = FoundAt(k)
  <2>1. \A def, value : Found(def, value)' = Found(def, value)
    BY <1>1 DEF Found
  <2> QED
    BY <2>1, <1>10 DEF FoundAt
<1>12. \A k : ResultsOf(k)' = ResultsOf(k)
  BY <1>10, <1>11 DEF ResultsOf, Result, Reported
<1>13. Wanted' = Wanted
  BY <1>1 DEF Wanted, WantedRefs, Asked, WantedDsl, DslMatchers, DslValues, IsDsl, DslDef, Def, Value
<1>14. ArenaFits' = ArenaFits
  BY <1>1 DEF ArenaFits
<1> QED
  BY <1>1, <1>4, <1>5, <1>6, <1>7, <1>9, <1>10, <1>11, <1>12, <1>13, <1>14

\* A hit in a header is one of a value that is looked for there.
LEMMA PartOfNamedHit ==
    ASSUME Scannable, NEW name, NEW hit \in NamedHits(name)
    PROVE  DefAt(hit.key).part = name
<1>1. PICK i \in DOMAIN refs : refs[i].part = name /\ hit.key = refs[i].key
  BY DEF NamedHits, Hit
<1> QED
  BY <1>1, EntryFacts DEF Scannable

\* The next hit is the first of those that are pending.
LEMMA NextHitIsFirst ==
    ASSUME NEW s, SoundPhase(s), pending \subseteq HitsOf(s), pending # {}
    PROVE  /\ NextHit \in pending
           /\ \A other \in pending : other = NextHit \/ Before(NextHit.at, other.at)
<1> DEFINE T == {hit.at : hit \in pending}
<1>1. T \in SUBSET (Nat \X Nat \X Nat) /\ T # {}
  <2>1. \A hit \in pending : hit.at \in Nat \X Nat \X Nat
    BY DEF SoundPhase, SoundHit
  <2> QED
    BY <2>1
<1>2. PICK at \in T : \A other \in T : other = at \/ Before(at, other)
  <2> HIDE DEF T
  <2> QED
    BY <1>1, LeastSlot
<1>3. PICK hit \in pending : hit.at = at
  BY <1>2
<1>4. \A other \in pending : other = hit \/ Before(hit.at, other.at)
  BY <1>2, <1>3 DEF SoundPhase
<1> QED
  BY <1>3, <1>4 DEF NextHit

\* A scan that is under way, of a database all whose phases are sound.
Underway ==
    /\ Scannable /\ ScanTypes /\ Account
    /\ \A s \in Recording : SoundPhase(s)

\* A hit whose key is not recorded is still to be recorded, in this phase if it is
\* one of the phase and of a key that a pending hit has.
LEMMA StillPending ==
    ASSUME Underway, stage \in Recording, NEW hit \in pending,
           NEW other \in HitsOf(stage), other.key = hit.key, hit.key \notin seen \cup fired
    PROVE  other \in pending
<1> USE DEF Underway
<1>1. Left(other)
  BY DEF Account, RecordInv
<1>2. ASSUME NEW name \in names, other \in NamedHits(name)
      PROVE  FALSE
  <2>1. DefAt(hit.key).part = name
    BY <1>2, PartOfNamedHit
  <2> QED
    BY <2>1, <1>2 DEF Account, PendingInv, ScanTypes
<1>3. ASSUME NEW s \in Later, other \in HitsOf(s)
      PROVE  FALSE
  <2>1. s \in Recording /\ s # stage
    BY DEF Later, Recording, Part
  <2>2. PhaseOf(DefAt(other.key)) = s /\ PhaseOf(DefAt(other.key)) = stage
    BY <2>1, <1>3 DEF SoundPhase, SoundHit
  <2> QED
    BY <2>1, <2>2
<1> QED
  BY <1>1, <1>2, <1>3 DEF Left

\* Recording a hit accounts for it.
LEMMA RecordHitKeeps ==
    ASSUME Underway, RecordHit
    PROVE  Account'
<1> USE DEF Underway
<1>1. stage \in Recording /\ pending # {} /\ UNCHANGED <<database, response, stage, names>>
  BY DEF RecordHit
<1>2. PICK hit : hit = NextHit
  OBVIOUS
<1>3. SoundPhase(stage) /\ pending \subseteq HitsOf(stage)
  BY <1>1 DEF Account, PendingInv
<1>4. hit \in pending /\ \A other \in pending : other = hit \/ Before(hit.at, other.at)
  BY <1>1, <1>2, <1>3, NextHitIsFirst
<1>5. PICK k : k = hit.key
  OBVIOUS
<1>6. SoundHit(hit, stage) /\ (FirstOfKey(hit, stage) => Distinct(hit.finds) = FoundAt(k))
  BY <1>3, <1>4, <1>5 DEF SoundPhase
<1>7. k \in Wanted /\ hit.negative = Negative(k) /\ FoundAt(k) # {}
  BY <1>5, <1>6 DEF SoundHit
<1>8. /\ pending' = pending \ {hit}
      /\ \/ hit.negative /\ fired' = fired \cup {k} /\ UNCHANGED <<seen, matches>>
         \/ ~hit.negative /\ k \in seen /\ UNCHANGED <<seen, fired, matches>>
         \/ /\ ~hit.negative /\ k \notin seen
            /\ seen' = seen \cup {k}
            /\ matches' = matches \o Emissions(hit)
            /\ UNCHANGED fired
  BY <1>2, <1>5 DEF RecordHit
<1>9. /\ \A s : HitsOf(s)' = HitsOf(s)
      /\ \A name : NamedHits(name)' = NamedHits(name)
      /\ \A j : DefAt(j)' = DefAt(j) /\ Negative(j)' = Negative(j)
      /\ \A j : FoundAt(j)' = FoundAt(j) /\ ResultsOf(j)' = ResultsOf(j)
      /\ Wanted' = Wanted
  BY <1>1, SameScan
<1>10. PendingInv'
  BY <1>1, <1>3, <1>8, <1>9 DEF PendingInv, Account, Recording, Part
<1>11. RecordInv'
  <2>1. k \in seen' \cup fired' /\ seen \cup fired \subseteq seen' \cup fired'
    BY <1>8
  <2>2. Later' = Later
    BY <1>1 DEF Later
  <2>3. \A h : Left(h) => h = hit \/ Left(h)'
    BY <2>2, <1>1, <1>8, <1>9 DEF Left
  <2>4. stage' \notin {"absence", "done"}
    BY <1>1 DEF Recording, Part
  <2> QED
    BY <2>1, <2>3, <2>4, <1>5, <1>9 DEF RecordInv, Account
<1>12. KeyInv'
  BY <1>7, <1>8, <1>9 DEF KeyInv, Account
<1>13. MatchInv'
  <2>1. CASE matches' = matches /\ seen' = seen
    BY <2>1, <1>9 DEF MatchInv, Account
  <2>2. CASE /\ ~hit.negative /\ k \notin seen
             /\ seen' = seen \cup {k} /\ matches' = matches \o Emissions(hit)
    <3>1. k \notin fired
      BY <2>2, <1>7 DEF KeyInv, Account
    <3>2. FirstOfKey(hit, stage)
      <4>1. \A other \in HitsOf(stage) : other.key = hit.key => other \in pending
        BY <2>2, <3>1, <1>1, <1>4, <1>5, StillPending
      <4> QED
        BY <4>1, <1>4 DEF FirstOfKey
    <3>3. /\ IsSeq(Emissions(hit)) /\ Distinctly(Emissions(hit))
          /\ Range(Emissions(hit)) = ResultsOf(k)
      BY <2>2, <3>2, <1>5, <1>6, EmissionsAreResults
    <3>4. Range(matches) \cap Range(Emissions(hit)) = {}
      <4>1. \A m \in Range(matches) : m.key \in seen
        BY ResultsByKey DEF MatchInv, Account
      <4>2. \A m \in Range(Emissions(hit)) : m.key = k
        BY <3>3, ResultsByKey
      <4> QED
        BY <4>1, <4>2, <2>2
    <3>5. /\ IsSeq(matches \o Emissions(hit)) /\ Distinctly(matches \o Emissions(hit))
          /\ Range(matches \o Emissions(hit)) = Range(matches) \cup Range(Emissions(hit))
      <4>1. IsSeq(matches) /\ Distinctly(matches)
        BY DEF MatchInv, Account
      <4> QED
        BY <4>1, <3>3, <3>4, JoinDistinctly
    <3>6. Range(matches') = UNION {ResultsOf(j) : j \in seen'}
      BY <2>2, <3>3, <3>5 DEF MatchInv, Account
    <3>7. IsSeq(matches)' /\ Distinctly(matches)'
      BY <2>2, <3>5 DEF Distinctly
    <3> QED
      BY <3>6, <3>7, <1>9 DEF MatchInv
  <2> QED
    BY <2>1, <2>2, <1>8
<1> QED
  BY <1>10, <1>11, <1>12, <1>13 DEF Account

\* What the steps that only go on with the loops have in common: nothing is
\* recorded, and what is left stays left.
LEMMA GoingOnKeeps ==
    ASSUME Underway, UNCHANGED <<database, response, matches, seen, fired>>,
           stage' \notin {"absence", "done"}, PendingInv', \A hit : Left(hit) => Left(hit)'
    PROVE  Account'
<1> USE DEF Underway
<1>1. /\ \A s : HitsOf(s)' = HitsOf(s)
      /\ \A j : DefAt(j)' = DefAt(j) /\ Negative(j)' = Negative(j)
      /\ \A j : FoundAt(j)' = FoundAt(j) /\ ResultsOf(j)' = ResultsOf(j)
      /\ Wanted' = Wanted
  BY SameScan
<1>2. RecordInv'
  BY <1>1 DEF RecordInv, Account
<1>3. KeyInv'
  BY <1>1 DEF KeyInv, Account
<1>4. MatchInv'
  BY <1>1 DEF MatchInv, Account, Distinctly
<1> QED
  BY <1>2, <1>3, <1>4 DEF Account

\* A header is visited with its hits pending, and with none left for later.
LEMMA VisitHeaderKeeps ==
    ASSUME Underway, VisitHeader
    PROVE  Account'
<1> USE DEF Underway
<1>1. PICK name \in names : names' = names \ {name} /\ Enter("named", NamedHits(name))
  BY DEF VisitHeader
<1>2. /\ stage = "named" /\ stage' = "named" /\ pending = {} /\ pending' = NamedHits(name)
      /\ UNCHANGED <<database, response, matches, seen, fired>>
  BY <1>1 DEF VisitHeader, Enter
<1>3. /\ \A s : HitsOf(s)' = HitsOf(s)
      /\ \A other : NamedHits(other)' = NamedHits(other)
      /\ \A j : DefAt(j)' = DefAt(j)
  BY <1>2, SameScan
<1>4. PendingInv'
  <2>1. NamedHits(name) \subseteq HitsOf("named")
    <3>1. name \in DOMAIN response.header_map
      BY <1>1, <1>2 DEF ScanTypes
    <3> QED
      BY <3>1 DEF HitsOf, Part
  <2>2. \A hit \in NamedHits(name) : DefAt(hit.key).part \notin names'
    BY <1>1, PartOfNamedHit
  <2> QED
    BY <2>1, <2>2, <1>2, <1>3 DEF PendingInv
<1>5. ASSUME NEW hit, Left(hit)
      PROVE  Left(hit)'
  <2>1. Later' = Later
    BY <1>2 DEF Later
  <2>2. stage \in Recording
    BY <1>2 DEF Recording
  <2>3. CASE \E other \in names : hit \in NamedHits(other)
    BY <2>2, <2>3, <1>1, <1>2, <1>3 DEF Left
  <2>4. CASE \E s \in Later : hit \in HitsOf(s)
    BY <2>1, <2>4, <1>3 DEF Left
  <2> QED
    BY <2>3, <2>4, <1>2, <1>5 DEF Left
<1> QED
  BY <1>2, <1>4, <1>5, GoingOnKeeps

\* A phase ends with nothing pending, and the next begins with all its hits.
LEMMA NextPhaseKeeps ==
    ASSUME Underway, NextPhase
    PROVE  Account'
<1> USE DEF Underway
<1>1. /\ pending = {} /\ UNCHANGED <<database, response, matches, seen, fired>>
  BY DEF NextPhase, Enter
<1>2. /\ \A s : HitsOf(s)' = HitsOf(s)
      /\ \A name : NamedHits(name)' = NamedHits(name)
      /\ \A part : RegexHits(part)' = RegexHits(part)
      /\ NumberHits' = NumberHits /\ DslHits' = DslHits
      /\ \A j : DefAt(j)' = DefAt(j) /\ Negative(j)' = Negative(j)
      /\ \A j : FoundAt(j)' = FoundAt(j) /\ ResultsOf(j)' = ResultsOf(j)
      /\ Wanted' = Wanted /\ negative_matchers' = negative_matchers
  BY <1>1, SameScan
<1>3. CASE stage = "words" /\ Enter("named", {}) /\ names' = DOMAIN response.header_map
  <2>1. stage = "words" /\ stage' = "named" /\ pending' = {}
    BY <1>3 DEF Enter
  <2>2. PendingInv'
    BY <2>1 DEF PendingInv
  <2>3. ASSUME NEW hit, Left(hit)
        PROVE  Left(hit)'
    <3>1. names = {} /\ Later = Recording \ {"words"}
      BY <2>1 DEF Later, ScanTypes
    <3>2. PICK s \in Recording \ {"words"} : hit \in HitsOf(s)
      BY <3>1, <2>3, <1>1 DEF Left
    <3>3. Later' = Recording \ {"words", "named"}
      BY <2>1 DEF Later, Recording, Part
    <3>4. CASE s = "named"
      <4>1. PICK name \in DOMAIN response.header_map : hit \in NamedHits(name)
        BY <3>2, <3>4 DEF HitsOf, Part
      <4>2. name \in names' /\ hit \in NamedHits(name)'
        BY <4>1, <1>2, <1>3
      <4> QED
        BY <4>2 DEF Left
    <3>5. CASE s # "named"
      BY <3>2, <3>3, <3>5, <1>2 DEF Left
    <3> QED
      BY <3>4, <3>5
  <2> QED
    BY <2>1, <2>2, <2>3, <1>1, GoingOnKeeps
<1>4. ASSUME NEW s \in Recording \ {"words", "named"}, Enter(s, HitsOf(s)), names = {},
             names' = names, stage \in Recording, Later = Later' \cup {s}
      PROVE  Account'
  <2>1. stage' = s /\ pending' = HitsOf(s)
    BY <1>4 DEF Enter
  <2>2. PendingInv'
    BY <2>1, <1>2, <1>4 DEF PendingInv, Recording, Part
  <2>3. ASSUME NEW hit, Left(hit)
        PROVE  Left(hit)'
    <3>1. PICK p \in Later : hit \in HitsOf(p)
      BY <2>3, <1>1, <1>4 DEF Left
    <3>2. p = s \/ p \in Later'
      BY <3>1, <1>4
    <3> QED
      BY <2>1, <3>1, <3>2, <1>2 DEF Left
  <2>4. stage' \notin {"absence", "done"}
    BY <2>1 DEF Recording, Part
  <2> QED
    BY <2>2, <2>3, <2>4, <1>1, GoingOnKeeps
<1>5. /\ HitsOf("Body") = RegexHits("Body") /\ HitsOf("Header") = RegexHits("Header")
      /\ HitsOf("All") = RegexHits("All") /\ HitsOf("numbers") = NumberHits
      /\ HitsOf("dsl") = DslHits
  BY DEF HitsOf, Part
<1>6. names # {} => stage = "named"
  BY DEF ScanTypes
<1>7. CASE stage = "named" /\ names = {} /\ names' = names /\ Enter("Body", RegexHits("Body"))
  <2>1. Later = Later' \cup {"Body"} /\ "Body" \in Recording \ {"words", "named"}
    BY <1>7 DEF Enter, Later, Recording, Part
  <2> QED
    BY <2>1, <1>4, <1>5, <1>7 DEF Recording
<1>8. CASE stage = "Body" /\ names' = names /\ Enter("Header", RegexHits("Header"))
  <2>1. Later = Later' \cup {"Header"} /\ "Header" \in Recording \ {"words", "named"}
    BY <1>8 DEF Enter, Later, Recording, Part
  <2> QED
    BY <2>1, <1>4, <1>5, <1>6, <1>8 DEF Recording
<1>9. CASE stage = "Header" /\ names' = names /\ Enter("All", RegexHits("All"))
  <2>1. Later = Later' \cup {"All"} /\ "All" \in Recording \ {"words", "named"}
    BY <1>9 DEF Enter, Later, Recording, Part
  <2> QED
    BY <2>1, <1>4, <1>5, <1>6, <1>9 DEF Recording
<1>10. CASE stage = "All" /\ names' = names /\ Enter("numbers", NumberHits)
  <2>1. Later = Later' \cup {"numbers"} /\ "numbers" \in Recording \ {"words", "named"}
    BY <1>10 DEF Enter, Later, Recording, Part
  <2> QED
    BY <2>1, <1>4, <1>5, <1>6, <1>10 DEF Recording
<1>11. CASE stage = "numbers" /\ names' = names /\ Enter("dsl", DslHits)
  <2>1. Later = Later' \cup {"dsl"} /\ "dsl" \in Recording \ {"words", "named"}
    BY <1>11 DEF Enter, Later, Recording, Part
  <2> QED
    BY <2>1, <1>4, <1>5, <1>6, <1>11 DEF Recording
<1>12. ASSUME names' = names, stage \in {"dsl", "absence"}, stage' \in {"absence", "done"},
              stage' = "absence" => pending' = negative_matchers,
              stage = "absence" => stage' = "done", stage' = "done" => pending' = {} /\ stage = "absence"
       PROVE  Account'
  <2>1. names = {} /\ Later = {}
    BY <1>6, <1>12 DEF Later
  <2>2. \A hit : ~Left(hit)
    BY <2>1, <1>1 DEF Left
  <2>3. PendingInv'
    BY <1>2, <1>12 DEF PendingInv, Recording, Part
  <2>4. RecordInv'
    <3>1. \A s \in Recording : \A hit \in HitsOf(s) : hit.key \in seen \cup fired
      BY <2>2 DEF RecordInv, Account
    <3>2. CASE stage' = "absence"
      BY <3>1, <3>2, <1>1, <1>2, <1>12 DEF RecordInv
    <3>3. CASE stage' = "done"
      <4>1. \A entry \in negative_matchers : entry.key \in seen \cup fired
        BY <3>3, <1>1, <1>12 DEF RecordInv, Account
      <4> QED
        BY <4>1, <3>1, <1>1, <1>2 DEF RecordInv
    <3> QED
      BY <3>2, <3>3, <1>12
  <2>5. KeyInv'
    BY <1>1, <1>2 DEF KeyInv, Account
  <2>6. MatchInv'
    BY <1>1, <1>2 DEF MatchInv, Account, Distinctly
  <2> QED
    BY <2>3, <2>4, <2>5, <2>6 DEF Account
<1>13. CASE stage = "dsl" /\ names' = names /\ Enter("absence", negative_matchers)
  BY <1>12, <1>13 DEF Enter
<1>14. CASE stage = "absence" /\ names' = names /\ Enter("done", {})
  BY <1>12, <1>14 DEF Enter
<1> QED
  BY <1>3, <1>7, <1>8, <1>9, <1>10, <1>11, <1>13, <1>14 DEF NextPhase

\* An absence is reported when the value is recorded nowhere, and is then absent.
LEMMA ReportAbsenceKeeps ==
    ASSUME Underway, ReportAbsence
    PROVE  Account'
<1> USE DEF Underway
<1>1. PICK entry \in pending :
         /\ pending' = pending \ {entry}
         /\ \/ entry.key \in fired \cup seen /\ UNCHANGED <<matches, seen>>
            \/ /\ entry.key \notin fired \cup seen
               /\ seen' = seen \cup {entry.key}
               /\ matches' = Append(matches,
                     [key |-> entry.key, values |-> entry.values, value |-> entry.value,
                      offset |-> 0, negative |-> TRUE])
  BY DEF ReportAbsence
<1>2. /\ stage = "absence" /\ UNCHANGED <<database, stage, response, names, fired>>
  BY DEF ReportAbsence
<1>3. PICK k : k = entry.key
  OBVIOUS
<1>4. /\ entry \in negative_matchers /\ k \in Wanted /\ Negative(k)
      /\ entry.value = Reported(k)
      /\ entry.values = IF DefAt(k).kind = "Dsl" THEN DefAt(k).values ELSE <<Reported(k)>>
  <2>1. entry \in negative_matchers
    BY <1>1, <1>2 DEF Account, PendingInv
  <2> QED
    BY <2>1, <1>3, AbsenceFacts
<1>5. /\ \A s : HitsOf(s)' = HitsOf(s)
      /\ \A j : DefAt(j)' = DefAt(j) /\ Negative(j)' = Negative(j)
      /\ \A j : FoundAt(j)' = FoundAt(j) /\ ResultsOf(j)' = ResultsOf(j)
      /\ Wanted' = Wanted /\ negative_matchers' = negative_matchers
  BY <1>2, SameScan
<1>6. \A hit : ~Left(hit)
  BY <1>2 DEF Left, Later, Recording, Part, ScanTypes
<1>7. ASSUME k \notin fired \cup seen
      PROVE  FoundAt(k) = {}
  <2> SUFFICES ASSUME FoundAt(k) # {}
               PROVE  FALSE
    OBVIOUS
  <2>1. PICK s \in Recording : s = PhaseOf(DefAt(k))
    BY <1>4, MatcherOfValue, PhaseCases
  <2>2. PICK hit \in HitsOf(s) : hit.key = k
    BY <2>1, <1>4 DEF SoundPhase
  <2> QED
    BY <2>2, <1>6, <1>7 DEF RecordInv, Account
<1>8. k \in seen' \cup fired' /\ seen \cup fired \subseteq seen' \cup fired'
  BY <1>1, <1>2, <1>3
<1>9. PendingInv'
  BY <1>1, <1>2, <1>5 DEF PendingInv, Account, Recording, Part
<1>10. RecordInv'
  BY <1>1, <1>2, <1>3, <1>5, <1>6, <1>8 DEF RecordInv, Account
<1>11. KeyInv'
  BY <1>1, <1>2, <1>3, <1>4, <1>5, <1>7 DEF KeyInv, Account
<1>12. MatchInv'
  <2>1. CASE matches' = matches /\ seen' = seen
    BY <2>1, <1>5 DEF MatchInv, Account, Distinctly
  <2> DEFINE m == [key |-> entry.key, values |-> entry.values, value |-> entry.value,
                   offset |-> 0, negative |-> TRUE]
  <2>2. CASE k \notin fired \cup seen /\ seen' = seen \cup {k} /\ matches' = Append(matches, m)
    <3>1. DefAt(k).negative = TRUE
      BY <1>4, MatcherOfValue DEF Matcher
    <3>2. m = Result(k, Reported(k), 0)
      BY <3>1, <1>3, <1>4 DEF Result
    <3>3. ResultsOf(k) = {m}
      BY <3>1, <3>2, <2>2, <1>7 DEF ResultsOf
    <3>4. m.key = k
      BY <1>3
    <3> HIDE DEF m
    <3>5. matches' = matches \o <<m>> /\ IsSeq(<<m>>) /\ IsSeq(matches)
      BY <2>2, AppendJoins DEF MatchInv, Account
    <3>6. Distinctly(<<m>>) /\ Range(<<m>>) = {m}
      BY DEF Distinctly, Range
    <3>7. Range(matches) \cap Range(<<m>>) = {}
      <4>1. \A other \in Range(matches) : other.key \in seen
        BY ResultsByKey DEF MatchInv, Account
      <4> QED
        BY <4>1, <3>4, <3>6, <2>2
    <3>8. /\ IsSeq(matches \o <<m>>) /\ Distinctly(matches \o <<m>>)
          /\ Range(matches \o <<m>>) = Range(matches) \cup Range(<<m>>)
      <4>1. Distinctly(matches)
        BY DEF MatchInv, Account
      <4> QED
        BY <4>1, <3>5, <3>6, <3>7, JoinDistinctly
    <3>9. Range(matches') = UNION {ResultsOf(j) : j \in seen'}
      BY <2>2, <3>3, <3>5, <3>6, <3>8 DEF MatchInv, Account
    <3>10. IsSeq(matches)' /\ Distinctly(matches)'
      BY <3>5, <3>8 DEF Distinctly
    <3> QED
      BY <3>9, <3>10, <1>5 DEF MatchInv
  <2> QED
    BY <2>1, <2>2, <1>1, <1>3
<1> QED
  BY <1>9, <1>10, <1>11, <1>12 DEF Account

\* A scan begins with the hits of the automaton.
LEMMA ScanKeeps ==
    ASSUME NEW resp \in Responses, Scan(resp)
    PROVE  Account'
<1>1. /\ stage' = "words" /\ response' = resp /\ names' = {} /\ pending' = WordHits(resp)
      /\ matches' = <<>> /\ seen' = {} /\ fired' = {} /\ UNCHANGED database
  BY DEF Scan
<1>2. WordHits(resp)' = WordHits(resp)
  BY <1>1 DEF WordHits, Hit, Literal, PatternOf, database, merging, indexes
<1>3. HitsOf("words")' = pending'
  BY <1>1, <1>2 DEF HitsOf, Part
<1>4. PendingInv'
  BY <1>1, <1>3 DEF PendingInv
<1>5. RecordInv'
  <2>1. Later' = Recording \ {"words"} /\ "words" \in Recording
    BY <1>1 DEF Later, Recording
  <2>2. \A s \in Recording : \A hit \in HitsOf(s)' : Left(hit)'
    BY <1>1, <1>3, <2>1 DEF Left
  <2> QED
    BY <2>2, <1>1 DEF RecordInv
<1>6. KeyInv' /\ MatchInv'
  BY <1>1 DEF KeyInv, MatchInv, Distinctly, Range, IsSeq
<1> QED
  BY <1>4, <1>5, <1>6 DEF Account

\* Every step preserves the invariant.
LEMMA ScanStepKeeps ==
    ASSUME IInv, ScanInv, [Next]_vars, ChunkSize <= SetLimit
    PROVE  IInv' /\ ScanInv'
<1>1. IInv'
  <2>1. [CompileNext]_database
    BY DEF Next, CompileStep, ScanNext, Scan, RecordHit, FailScan, VisitHeader, NextPhase, Enter,
           ReportAbsence, vars
  <2> QED
    BY <2>1, StepKeeps
<1>2. CASE CompileStep
  <2>1. stage' = stage /\ names' = names /\ stage = "idle"
    BY <1>2 DEF CompileStep, scanning
  <2> QED
    BY <2>1, <1>1 DEF ScanInv, ScanTypes
<1>3. ASSUME stage \notin {"idle", "error"}, ArenaFits
      PROVE  Underway
  <2>1. Scannable
    BY <1>3 DEF Scannable, ScanInv, ScanTypes
  <2> QED
    BY <2>1, <1>3, PhasesAreSound DEF Underway, ScanInv
<1>4. CASE UNCHANGED vars
  <2>1. UNCHANGED <<database, response>> /\ UNCHANGED <<stage, names, pending, matches, seen, fired>>
    BY <1>4 DEF vars, scanning
  <2>2. /\ \A s : HitsOf(s)' = HitsOf(s)
        /\ \A name : NamedHits(name)' = NamedHits(name)
        /\ \A j : DefAt(j)' = DefAt(j) /\ Negative(j)' = Negative(j)
        /\ \A j : FoundAt(j)' = FoundAt(j) /\ ResultsOf(j)' = ResultsOf(j)
        /\ Wanted' = Wanted /\ negative_matchers' = negative_matchers
        /\ ArenaFits' = ArenaFits /\ phase' = phase
    BY <2>1, SameScan
  <2>3. ScanTypes'
    BY <2>1, <2>2 DEF ScanInv, ScanTypes
  <2>4. ASSUME Account
        PROVE  Account'
    <3>1. PendingInv'
      BY <2>1, <2>2, <2>4 DEF PendingInv, Account
    <3>2. RecordInv'
      <4>1. Later' = Later
        BY <2>1 DEF Later
      <4>2. \A hit : Left(hit) => Left(hit)'
        BY <4>1, <2>1, <2>2 DEF Left
      <4> QED
        BY <4>2, <2>1, <2>2, <2>4 DEF RecordInv, Account
    <3>3. KeyInv' /\ MatchInv'
      BY <2>1, <2>2, <2>4 DEF KeyInv, MatchInv, Account, Distinctly
    <3> QED
      BY <3>1, <3>2, <3>3 DEF Account
  <2> QED
    BY <2>1, <2>2, <2>3, <2>4, <1>1 DEF ScanInv
<1>5. ASSUME NEW resp \in Responses, Scan(resp)
      PROVE  ScanInv'
  <2>1. stage' = "words" /\ response' \in Responses /\ names' = {} /\ phase' = "ready"
    BY <1>5 DEF Scan, database
  <2>2. ScanTypes'
    BY <2>1 DEF ScanTypes, Recording
  <2> QED
    BY <2>2, <1>5, ScanKeeps DEF ScanInv
<1>6. ASSUME stage \notin {"idle", "error"}, UNCHANGED <<database, response>>, ScanTypes',
             Underway => Account'
      PROVE  ScanInv'
  <2>1. ArenaFits' = ArenaFits
    BY <1>6, SameScan
  <2> QED
    BY <2>1, <1>3, <1>6 DEF ScanInv
<1>7. CASE RecordHit
  <2>1. /\ stage \in Recording /\ UNCHANGED <<database, response, stage, names>> /\ phase' = phase
    BY <1>7 DEF RecordHit, database
  <2>2. ScanTypes'
    BY <2>1 DEF ScanInv, ScanTypes
  <2> QED
    BY <2>1, <2>2, <1>1, <1>6, <1>7, RecordHitKeeps DEF Recording, Part
<1>8. CASE FailScan
  <2>1. /\ stage = "dsl" /\ stage' = "error" /\ UNCHANGED <<database, response, names>> /\ phase' = phase
    BY <1>8 DEF FailScan, database
  <2> QED
    BY <2>1, <1>1 DEF ScanInv, ScanTypes
<1>9. CASE VisitHeader
  <2>1. /\ stage = "named" /\ stage' = "named" /\ UNCHANGED <<database, response>> /\ phase' = phase
        /\ names' \subseteq names
    BY <1>9 DEF VisitHeader, Enter, database
  <2>2. ScanTypes'
    BY <2>1 DEF ScanInv, ScanTypes
  <2> QED
    BY <2>1, <2>2, <1>1, <1>6, <1>9, VisitHeaderKeeps
<1>10. CASE NextPhase
  <2>1. /\ stage \notin {"idle", "error", "done"} /\ UNCHANGED <<database, response>> /\ phase' = phase
        /\ stage' \in Recording \cup {"absence", "done"}
        /\ \/ stage' = "named" /\ names' = DOMAIN response.header_map
           \/ names' = {}
    BY <1>10 DEF NextPhase, Enter, database, Recording, Part, ScanInv, ScanTypes
  <2>2. ScanTypes'
    BY <2>1 DEF ScanInv, ScanTypes
  <2> QED
    BY <2>1, <2>2, <1>1, <1>6, <1>10, NextPhaseKeeps
<1>11. CASE ReportAbsence
  <2>1. /\ stage = "absence" /\ UNCHANGED <<database, response, stage, names>> /\ phase' = phase
    BY <1>11 DEF ReportAbsence, database
  <2>2. ScanTypes'
    BY <2>1 DEF ScanInv, ScanTypes
  <2> QED
    BY <2>1, <2>2, <1>1, <1>6, <1>11, ReportAbsenceKeeps
<1> QED
  BY <1>1, <1>2, <1>4, <1>5, <1>7, <1>8, <1>9, <1>10, <1>11 DEF Next, ScanNext

-----------------------------------------------------------------------------
\* The result of a scan.

\* When the scan has ended, the results of every value are among the matches, and
\* nothing else is.
LEMMA MatchesAreExpected ==
    ASSUME Underway, stage = "done"
    PROVE  Range(matches) = Expected
<1> USE DEF Underway
<1>1. \A hit : ~Left(hit)
  BY DEF Left, Later, Recording, Part, ScanTypes
<1>2. \A s \in Recording : \A hit \in HitsOf(s) : hit.key \in seen \cup fired
  BY <1>1 DEF RecordInv, Account
<1>3. \A entry \in negative_matchers : entry.key \in seen \cup fired
  BY DEF RecordInv, PendingInv, Account
<1>4. /\ \A k \in seen : k \in Wanted /\ (Negative(k) => FoundAt(k) = {})
      /\ \A k \in fired : k \in Wanted /\ Negative(k) /\ FoundAt(k) # {}
  BY DEF KeyInv, Account
<1>5. ASSUME NEW k \in Wanted, ResultsOf(k) # {}
      PROVE  k \in seen
  <2>1. DefAt(k) \in Matcher /\ Negative(k) = DefAt(k).negative
    BY MatcherOfValue
  <2>2. CASE ~Negative(k)
    <3>1. FoundAt(k) # {}
      BY <2>1, <2>2, <1>5 DEF ResultsOf
    <3>2. PICK s \in Recording : s = PhaseOf(DefAt(k))
      BY <2>1, PhaseCases
    <3>3. PICK hit \in HitsOf(s) : hit.key = k
      BY <3>1, <3>2 DEF SoundPhase
    <3> QED
      BY <3>3, <2>2, <1>2, <1>4
  <2>3. CASE Negative(k)
    <3>1. FoundAt(k) = {}
      BY <2>1, <2>3, <1>5 DEF ResultsOf
    <3>2. PICK entry \in negative_matchers : entry.key = k
      BY <2>3, AbsenceFacts
    <3> QED
      BY <3>1, <3>2, <1>3, <1>4
  <2> QED
    BY <2>2, <2>3
<1>6. Range(matches) = UNION {ResultsOf(k) : k \in seen}
  BY DEF MatchInv, Account
<1>7. \A m : (\E k \in Wanted : m \in ResultsOf(k)) <=> (\E k \in seen : m \in ResultsOf(k))
  BY <1>4, <1>5
<1> QED
  BY <1>6, <1>7 DEF Expected

\* A function that hits everything once counts it.
LEMMA CountedOnce ==
    ASSUME NEW S, IsFiniteSet(S), NEW T, NEW f \in [S -> T],
           \A a, b \in S : f[a] = f[b] => a = b, \A t \in T : \E a \in S : f[a] = t
    PROVE  IsFiniteSet(T) /\ Cardinality(T) = Cardinality(S)
<1>1. f \in Injection(S, T) /\ f \in Surjection(S, T)
  BY DEF Injection, IsInjective, Surjection
<1> QED
  BY <1>1, FS_Surjection

\* A list without repetitions is as long as the set of its elements is large.
LEMMA LengthOfDistinct ==
    ASSUME NEW s, IsSeq(s), Distinctly(s)
    PROVE  Len(s) = Cardinality(Range(s))
<1>1. Len(s) \in Nat /\ DOMAIN s = 1..Len(s) /\ s = [i \in 1..Len(s) |-> s[i]]
  BY SeqDomain
<1>2. IsFiniteSet(1..Len(s)) /\ Cardinality(1..Len(s)) = Len(s)
  BY <1>1, FS_Interval
<1>3. /\ s \in [1..Len(s) -> Range(s)]
      /\ \A a, b \in 1..Len(s) : s[a] = s[b] => a = b
      /\ \A e \in Range(s) : \E a \in 1..Len(s) : s[a] = e
  BY <1>1 DEF Range, Distinctly
<1> QED
  BY <1>2, <1>3, CountedOnce

\* The entries are as many as the values that are no expressions.
LEMMA EntriesCount ==
    ASSUME Scannable
    PROVE  IsFiniteSet(WantedRefs) /\ Cardinality(WantedRefs) = Len(refs)
<1> USE DEF Scannable
<1> DEFINE f == [i \in DOMAIN refs |-> refs[i].key]
<1>1. Len(refs) \in Nat /\ DOMAIN refs = 1..Len(refs)
  BY SeqDomain DEF IInv, ShapeInv
<1>2. IsFiniteSet(DOMAIN refs) /\ Cardinality(DOMAIN refs) = Len(refs)
  <2>1. PICK n \in Nat : n = Len(refs)
    BY <1>1
  <2>2. IsFiniteSet(1..n) /\ Cardinality(1..n) = n
    BY FS_Interval
  <2> QED
    BY <2>1, <2>2, <1>1
<1>3. f \in [DOMAIN refs -> WantedRefs]
  BY EntryFacts
<1>4. \A i, j \in DOMAIN refs : f[i] = f[j] => i = j
  <2> SUFFICES ASSUME NEW i \in DOMAIN refs, NEW j \in DOMAIN refs, refs[i].key = refs[j].key
               PROVE  i = j
    OBVIOUS
  <2>1. PICK k : k = refs[i].key
    OBVIOUS
  <2> QED
    BY <2>1, EntryFacts
<1>5. \A k \in WantedRefs : \E i \in DOMAIN refs : f[i] = k
  BY EntryExists
<1> HIDE DEF f
<1> QED
  BY <1>2, <1>3, <1>4, <1>5, CountedOnce

\* The values of the DSL matchers are as many as those of the expressions.
LEMMA DslValuesCount ==
    ASSUME Scannable,
           NEW P, P = UNION {{n} \X DOMAIN DslDefAt(n).values : n \in DOMAIN dsl_matchers}
    PROVE  IsFiniteSet(WantedDsl) /\ Cardinality(WantedDsl) = Cardinality(P)
<1> USE DEF Scannable
<1> DEFINE q(n) == {n} \X DOMAIN DslDefAt(n).values
           Q == {q(n) : n \in DOMAIN dsl_matchers}
           g == [n \in DOMAIN dsl_matchers |-> q(n)]
           f == [p \in P |-> DslKeyAt(p[1], p[2])]
<1>1. IsFiniteSet(DOMAIN dsl_matchers)
  <2>1. Len(dsl_matchers) \in Nat /\ DOMAIN dsl_matchers = 1..Len(dsl_matchers)
    BY SeqDomain DEF IInv, ShapeInv
  <2> QED
    BY <2>1, FS_Interval
<1>2. ASSUME NEW n \in DOMAIN dsl_matchers
      PROVE  IsFiniteSet(q(n))
  <2>1. PICK def : def = DslDefAt(n)
    OBVIOUS
  <2>2. IsFiniteSet(DOMAIN def.values)
    <3>1. CASE DOMAIN def.values = {}
      BY <3>1, FS_EmptySet
    <3>2. CASE DOMAIN def.values # {}
      <4>1. PICK v \in DOMAIN def.values : TRUE
        BY <3>2
      <4>2. def \in Matcher
        BY <2>1, <4>1, DslKeyFacts
      <4>3. def.values \in Seq(DOMAIN WordBytes)
        BY <4>2 DEF Matcher
      <4>4. Len(def.values) \in Nat /\ DOMAIN def.values = 1..Len(def.values)
        BY <4>3, LenProperties
      <4> QED
        BY <4>4, FS_Interval
    <3> QED
      BY <3>1, <3>2
  <2>3. IsFiniteSet({n})
    BY FS_Singleton
  <2> QED
    BY <2>1, <2>2, <2>3, FS_Product
<1>3. IsFiniteSet(P)
  <2>1. g \in Surjection(DOMAIN dsl_matchers, Q)
    BY Fun_IsSurj
  <2>2. \A T \in Q : IsFiniteSet(T)
    BY <1>2
  <2>3. P = UNION Q
    OBVIOUS
  <2> HIDE DEF g, Q
  <2>4. IsFiniteSet(Q)
    BY <2>1, <1>1, FS_Surjection
  <2> QED
    BY <2>2, <2>3, <2>4, FS_UNION
<1>4. ASSUME NEW p \in P
      PROVE  p[1] \in DOMAIN dsl_matchers /\ p[2] \in DOMAIN DslDefAt(p[1]).values /\ p = <<p[1], p[2]>>
  OBVIOUS
<1>5. ASSUME NEW n \in DOMAIN dsl_matchers, NEW v \in DOMAIN DslDefAt(n).values
      PROVE  <<n, v>> \in P
  OBVIOUS
<1>6. f \in [P -> WantedDsl]
  <2> SUFFICES ASSUME NEW p \in P
               PROVE  DslKeyAt(p[1], p[2]) \in WantedDsl
    OBVIOUS
  <2>1. PICK n, v : n = p[1] /\ v = p[2]
    OBVIOUS
  <2> QED
    BY <2>1, <1>4, DslKeyFacts
<1>7. ASSUME NEW a \in P, NEW b \in P, f[a] = f[b]
      PROVE  a = b
  <2>1. PICK n, v : n = a[1] /\ v = a[2]
    OBVIOUS
  <2>2. PICK m, w : m = b[1] /\ w = b[2]
    OBVIOUS
  <2>3. /\ n \in DOMAIN dsl_matchers /\ v \in DOMAIN DslDefAt(n).values
        /\ m \in DOMAIN dsl_matchers
        /\ DslKeyAt(m, w) = DslKeyAt(n, v)
    BY <2>1, <2>2, <1>4, <1>7
  <2>4. m = n /\ w = v
    BY <2>3, DslKeyFacts
  <2> QED
    BY <2>1, <2>2, <2>4, <1>4
<1>8. ASSUME NEW k \in WantedDsl
      PROVE  \E p \in P : f[p] = k
  <2>1. PICK n \in DOMAIN dsl_matchers : \E v \in DOMAIN DslDefAt(n).values : k = DslKeyAt(n, v)
    BY DslKeyExists
  <2>2. PICK v \in DOMAIN DslDefAt(n).values : k = DslKeyAt(n, v)
    BY <2>1
  <2>3. <<n, v>> \in P
    BY <2>1, <2>2, <1>5
  <2>4. f[<<n, v>>] = k
    BY <2>2, <2>3
  <2> QED
    BY <2>3, <2>4
<1> HIDE DEF f
<1> QED
  BY <1>3, <1>6, <1>7, <1>8, CountedOnce

\* pattern_count counts every value the templates ask for.
LEMMA PatternsCounted ==
    ASSUME Scannable
    PROVE  PatternCount = Cardinality(Wanted)
<1> DEFINE P == UNION {{n} \X DOMAIN DslDefAt(n).values : n \in DOMAIN dsl_matchers}
<1>1. PatternCount = Len(refs) + Cardinality(P)
  BY DEF PatternCount, DslDefAt
<1> HIDE DEF P
<1>2. /\ IsFiniteSet(WantedRefs) /\ Cardinality(WantedRefs) = Len(refs)
      /\ IsFiniteSet(WantedDsl) /\ Cardinality(WantedDsl) = Cardinality(P)
  BY EntriesCount, DslValuesCount DEF P
<1>3. WantedRefs \cap WantedDsl = {}
  <2> SUFFICES ASSUME NEW k \in WantedRefs, k \in WantedDsl
               PROVE  FALSE
    OBVIOUS
  <2>1. DefAt(k).kind # "Dsl"
    <3>1. PICK i \in DOMAIN refs : refs[i].key = k
      BY EntryExists DEF Scannable
    <3> QED
      BY <3>1, EntryFacts DEF Scannable
  <2>2. PICK n \in DOMAIN dsl_matchers : \E v \in DOMAIN DslDefAt(n).values : k = DslKeyAt(n, v)
    BY DslKeyExists DEF Scannable
  <2>3. PICK v \in DOMAIN DslDefAt(n).values : k = DslKeyAt(n, v)
    BY <2>2
  <2>4. DefAt(k).kind = "Dsl"
    BY <2>2, <2>3, DslKeyFacts DEF Scannable
  <2> QED
    BY <2>1, <2>4
<1>4. Cardinality(Wanted) = Cardinality(WantedRefs) + Cardinality(WantedDsl)
  <2>1. Cardinality(WantedRefs \cup WantedDsl) =
           Cardinality(WantedRefs) + Cardinality(WantedDsl) - Cardinality(WantedRefs \cap WantedDsl)
    BY <1>2, FS_Union
  <2>2. Cardinality(WantedRefs \cap WantedDsl) = 0
    BY <1>3, FS_EmptySet
  <2>3. Cardinality(WantedRefs) \in Nat /\ Cardinality(WantedDsl) \in Nat
    BY <1>2, FS_CardinalityType
  <2> QED
    BY <2>1, <2>2, <2>3 DEF Wanted
<1> QED
  BY <1>1, <1>2, <1>4

\* Every step of compiling and of scanning keeps the account of a scan: of every hit
\* and every absence, whether it is still to be reported or was.
THEOREM ScanInvariant == ChunkSize <= SetLimit => (Spec => [](IInv /\ ScanInv))
<1> SUFFICES ASSUME ChunkSize <= SetLimit
             PROVE  Spec => [](IInv /\ ScanInv)
  OBVIOUS
<1>1. ScanInit => IInv /\ ScanInv
  <2> SUFFICES ASSUME ScanInit PROVE IInv /\ ScanInv
    OBVIOUS
  <2> QED
    BY InitHolds DEF ScanInit, ScanInv, ScanTypes
<1>2. IInv /\ ScanInv /\ [Next]_vars => (IInv /\ ScanInv)'
  BY ScanStepKeeps
<1> QED
  BY <1>1, <1>2, PTL DEF Spec

\* A scan of any response with any database that compiles reports exactly what the
\* templates say of it, value by value, each result once, and pattern_count is the
\* number of the values.
THEOREM ScanReportsExactly == ChunkSize <= SetLimit => (Spec => []ScanIsExact)
<1> SUFFICES ASSUME ChunkSize <= SetLimit
             PROVE  Spec => []ScanIsExact
  OBVIOUS
<1>1. IInv /\ ScanInv => ScanIsExact
  <2> SUFFICES ASSUME IInv, ScanInv, stage = "done", ArenaFits
               PROVE  /\ Range(matches) = Expected
                      /\ Len(matches) = Cardinality(Expected)
                      /\ PatternCount = Cardinality(Wanted)
    BY DEF ScanIsExact
  <2>1. Underway
    <3>1. Scannable
      BY DEF Scannable, ScanInv, ScanTypes
    <3> QED
      BY <3>1, PhasesAreSound DEF Underway, ScanInv
  <2>2. Range(matches) = Expected
    BY <2>1, MatchesAreExpected
  <2>3. IsSeq(matches) /\ Distinctly(matches)
    BY <2>1 DEF Underway, Account, MatchInv
  <2>4. Len(matches) = Cardinality(Range(matches))
    BY <2>3, LengthOfDistinct
  <2>5. PatternCount = Cardinality(Wanted)
    BY <2>1, PatternsCounted DEF Underway
  <2> QED
    BY <2>2, <2>4, <2>5
<1> QED
  BY <1>1, ScanInvariant, PTL

-----------------------------------------------------------------------------
\* The text path.

\* A matcher of the templates.
IsMatcherAt(t, r, m, def) ==
    /\ t \in DOMAIN templates /\ r \in DOMAIN templates[t] /\ m \in DOMAIN templates[t][r]
    /\ def = templates[t][r][m]

\* The values the database looks for of a matcher without expressions: all but the
\* empty ones, which count as regexes only.
LEMMA WantedOfMatcher ==
    ASSUME Scannable, NEW t, NEW r, NEW m, NEW def, IsMatcherAt(t, r, m, def), def.kind # "Dsl"
    PROVE  /\ def \in Matcher
           /\ \A k \in Wanted : MatcherOf(k) = <<t, r, m>> =>
                 \E n \in DOMAIN def.values : k = <<t, r, m, n>>
           /\ \A n \in DOMAIN def.values :
                 <<t, r, m, n>> \in Wanted <=> (def.kind = "Regex" \/ def.values[n] # Empty)
<1> USE DEF Scannable
<1>1. templates \in Seq(Seq(Seq(Matcher)))
  BY DEF IInv, ShapeInv
<1>2. templates[t] \in Seq(Seq(Matcher)) /\ t \in Nat
  BY <1>1, LenProperties, ElementOfSeq DEF IsMatcherAt
<1>3. templates[t][r] \in Seq(Matcher) /\ r \in Nat
  BY <1>2, LenProperties, ElementOfSeq DEF IsMatcherAt
<1>4. def \in Matcher /\ m \in Nat
  BY <1>3, LenProperties, ElementOfSeq DEF IsMatcherAt
<1>5. def.values \in Seq(DOMAIN WordBytes)
  BY <1>4 DEF Matcher
<1>6. DOMAIN def.values \subseteq Nat
  BY <1>5, LenProperties
<1>7. ASSUME NEW k \in Wanted, MatcherOf(k) = <<t, r, m>>
      PROVE  /\ k \in WantedRefs
             /\ \E n \in DOMAIN def.values : k = <<t, r, m, n>>
  <2>1. k[1] = t /\ k[2] = r /\ k[3] = m
    BY <1>7 DEF MatcherOf
  <2>2. DefAt(k) = def
    BY <2>1 DEF DefAt, IsMatcherAt
  <2>3. k \notin WantedDsl
    <3>1. SUFFICES ASSUME k \in WantedDsl PROVE FALSE
      OBVIOUS
    <3>2. PICK i \in DOMAIN dsl_matchers : \E v \in DOMAIN DslDefAt(i).values : k = DslKeyAt(i, v)
      BY <3>1, DslKeyExists
    <3>3. PICK v \in DOMAIN DslDefAt(i).values : k = DslKeyAt(i, v)
      BY <3>2
    <3>4. DefAt(k).kind = "Dsl"
      BY <3>2, <3>3, DslKeyFacts
    <3> QED
      BY <3>4, <2>2
  <2>4. k \in WantedRefs
    BY <2>3 DEF Wanted
  <2>5. PICK s \in DOMAIN templates :
           \E u \in Slots(templates[s]) : ~IsDsl(s, u) /\ k = <<s>> \o u
    BY <2>4, AskedSlots DEF WantedRefs
  <2>6. PICK u \in Slots(templates[s]) : ~IsDsl(s, u) /\ k = <<s>> \o u
    BY <2>5
  <2>7. templates[s] \in Seq(Seq(Matcher))
    BY <1>1, LenProperties, ElementOfSeq
  <2>8. /\ u \in Nat \X Nat \X Nat
        /\ ~IsDsl(s, u) => u[3] \in DOMAIN templates[s][u[1]][u[2]].values
    BY <2>7, SlotsOfTemplate DEF IsDsl, Def
  <2>9. k = <<s, u[1], u[2], u[3]>>
    BY <2>6, <2>8, KeyOfSlot
  <2>10. s = t /\ u[1] = r /\ u[2] = m
    BY <2>1, <2>9
  <2> QED
    BY <2>4, <2>6, <2>8, <2>9, <2>10 DEF IsMatcherAt
<1>8. ASSUME NEW n \in DOMAIN def.values
      PROVE  <<t, r, m, n>> \in WantedRefs <=> (def.kind = "Regex" \/ def.values[n] # Empty)
  <2>1. PICK u : u = <<r, m, n>>
    OBVIOUS
  <2>2. u \in Nat \X Nat \X Nat /\ u[1] = r /\ u[2] = m /\ u[3] = n
    BY <2>1, <1>3, <1>4, <1>6
  <2>3. Def(t, u) = def /\ Value(t, u) = def.values[n]
    BY <2>2 DEF Def, Value, IsMatcherAt
  <2>4. u \in Slots(templates[t])
    <3>1. u \in ValueSlots(templates[t][r][m], r, m)
      BY <2>1 DEF ValueSlots, IsMatcherAt
    <3> QED
      BY <3>1 DEF Slots, IsMatcherAt
  <2>5. <<t>> \o u = <<t, r, m, n>>
    BY <2>2, KeyOfSlot
  <2>6. ~Skipped(t, u) <=> (def.kind = "Regex" \/ def.values[n] # Empty)
    BY <2>3 DEF Skipped
  <2>7. ASSUME ~Skipped(t, u)
        PROVE  <<t, r, m, n>> \in WantedRefs
    <3>1. u \in {w \in Slots(templates[t]) : ~IsDsl(t, w) /\ ~Skipped(t, w)}
      BY <2>3, <2>4, <2>7 DEF IsDsl
    <3>2. <<t, r, m, n>> \in
             {<<t>> \o w : w \in {w \in Slots(templates[t]) : ~IsDsl(t, w) /\ ~Skipped(t, w)}}
      BY <2>5, <3>1
    <3> QED
      BY <3>2, AskedSlots DEF WantedRefs, IsMatcherAt
  <2>8. ASSUME <<t, r, m, n>> \in WantedRefs
        PROVE  ~Skipped(t, u)
    <3>1. PICK s \in DOMAIN templates :
             \E w \in Slots(templates[s]) : ~Skipped(s, w) /\ <<t, r, m, n>> = <<s>> \o w
      BY <2>8, AskedSlots DEF WantedRefs
    <3>2. PICK w \in Slots(templates[s]) : ~Skipped(s, w) /\ <<t, r, m, n>> = <<s>> \o w
      BY <3>1
    <3>3. w \in Nat \X Nat \X Nat
      <4>1. templates[s] \in Seq(Seq(Matcher))
        BY <1>1, LenProperties, ElementOfSeq
      <4> QED
        BY <4>1, SlotsOfTemplate
    <3>4. <<t, r, m, n>> = <<s, w[1], w[2], w[3]>>
      BY <3>2, <3>3, KeyOfSlot
    <3>5. s = t /\ w = u
      BY <3>3, <3>4, <2>1
    <3> QED
      BY <3>2, <3>5
  <2> QED
    BY <2>6, <2>7, <2>8
<1>9. ASSUME NEW n \in DOMAIN def.values
      PROVE  <<t, r, m, n>> \in Wanted <=> <<t, r, m, n>> \in WantedRefs
  <2>1. PICK k : k = <<t, r, m, n>>
    OBVIOUS
  <2>2. MatcherOf(k) = <<t, r, m>>
    BY <2>1 DEF MatcherOf
  <2>3. k \in Wanted => k \in WantedRefs
    BY <2>2, <1>7
  <2> QED
    BY <2>1, <2>3 DEF Wanted
<1> QED
  BY <1>4, <1>7, <1>8, <1>9

\* By the matches of a scan, the values of a matcher that are present are those
\* that are found.
LEMMA PresentAreFound ==
    ASSUME Scannable, Range(matches) = Expected,
           NEW t, NEW r, NEW m, NEW def, IsMatcherAt(t, r, m, def), def.kind # "Dsl"
    PROVE  PresentValues(<<t, r, m>>) =
              {n \in DOMAIN def.values : /\ <<t, r, m, n>> \in Wanted
                                         /\ FoundAt(<<t, r, m, n>>) # {}}
<1> DEFINE at == <<t, r, m>>
           key(n) == <<t, r, m, n>>
           reported == {match.key[4] : match \in MatchesOf(at)}
           wanted == {k[4] : k \in {l \in Wanted : MatcherOf(l) = at}}
<1>1. def \in Matcher
  BY WantedOfMatcher
<1>2. \A n : /\ key(n)[4] = n /\ MatcherOf(key(n)) = at
             /\ DefAt(key(n)) = def
  BY DEF MatcherOf, DefAt, IsMatcherAt
<1>3. ASSUME NEW n
      PROVE  n \in wanted <=> n \in DOMAIN def.values /\ key(n) \in Wanted
  <2>1. ASSUME n \in wanted
        PROVE  n \in DOMAIN def.values /\ key(n) \in Wanted
    <3>1. PICK k \in Wanted : MatcherOf(k) = at /\ n = k[4]
      BY <2>1
    <3>2. PICK v \in DOMAIN def.values : k = key(v)
      BY <3>1, WantedOfMatcher
    <3> QED
      BY <3>1, <3>2
  <2>2. ASSUME key(n) \in Wanted
        PROVE  n \in wanted
    BY <2>2, <1>2
  <2> QED
    BY <2>1, <2>2
<1>4. ASSUME NEW n
      PROVE  n \in reported <=> n \in wanted /\ ResultsOf(key(n)) # {}
  <2>1. ASSUME n \in reported
        PROVE  n \in wanted /\ ResultsOf(key(n)) # {}
    <3>1. PICK match \in Expected : MatcherOf(match.key) = at /\ n = match.key[4]
      BY <2>1 DEF MatchesOf
    <3>2. PICK k \in Wanted : match \in ResultsOf(k)
      BY <3>1 DEF Expected
    <3>3. match.key = k
      BY <3>2, ResultsByKey
    <3>4. PICK v \in DOMAIN def.values : k = key(v)
      BY <3>1, <3>2, <3>3, WantedOfMatcher
    <3>5. k = key(n) /\ n \in DOMAIN def.values
      BY <3>1, <3>3, <3>4
    <3> HIDE DEF key, wanted
    <3> QED
      BY <3>2, <3>5, <1>3
  <2>2. ASSUME n \in wanted, ResultsOf(key(n)) # {}
        PROVE  n \in reported
    <3>1. key(n) \in Wanted
      <4> HIDE DEF key, wanted
      <4> QED
        BY <2>2, <1>3
    <3>2. PICK match \in ResultsOf(key(n)) : TRUE
      BY <2>2
    <3>3. match.key = key(n)
      BY <3>2, ResultsByKey
    <3>4. match \in Range(matches)
      BY <3>1, <3>2 DEF Expected
    <3>5. match \in MatchesOf(at) /\ match.key[4] = n
      BY <3>3, <3>4, <1>2 DEF MatchesOf
    <3> QED
      BY <3>5
  <2> QED
    BY <2>1, <2>2
<1>5. ASSUME NEW n
      PROVE  ResultsOf(key(n)) # {} <=> IF def.negative THEN FoundAt(key(n)) = {}
                                        ELSE FoundAt(key(n)) # {}
  BY <1>2 DEF ResultsOf
<1>6. PresentValues(at) = IF def.negative THEN wanted \ reported ELSE reported
  BY DEF PresentValues, IsMatcherAt
<1> HIDE DEF key, wanted, reported
<1>7. \A n : n \in PresentValues(at) <=>
         n \in DOMAIN def.values /\ key(n) \in Wanted /\ FoundAt(key(n)) # {}
  BY <1>1, <1>3, <1>4, <1>5, <1>6
<1> QED
  BY <1>7 DEF key

\* What the text path looks for of a value is what a scan finds of it in raw text,
\* if both read the matcher alike.
LEMMA TextFinds ==
    ASSUME Scannable, RawText,
           NEW t, NEW r, NEW m, NEW def, IsMatcherAt(t, r, m, def), ReadAlike(def),
           NEW n \in DOMAIN def.values, NEW v, v = def.values[n]
    PROVE  /\ <<t, r, m, n>> \in Wanted /\ FoundAt(<<t, r, m, n>>) # {} <=>
                 OccursInText(def.kind, v, response.body)
           /\ <<t, r, m, n>> \in Wanted /\ def.kind = "Regex" =>
                 FoundAt(<<t, r, m, n>>) = Distinct(Finds(Class[v], response.body))
           /\ <<t, r, m, n>> \in Wanted /\ def.kind # "Regex" =>
                 \A f \in FoundAt(<<t, r, m, n>>) : f.text = v
<1> USE DEF Scannable
<1>1. PICK k, text : k = <<t, r, m, n>> /\ text = response.body
  OBVIOUS
<1>2. DefAt(k) = def /\ ValueAt(k) = v /\ k[4] = n
  BY <1>1 DEF DefAt, ValueAt, IsMatcherAt
<1>3. def.kind \in {"Word", "Size", "Regex"} /\ def.part \in {"Body", "All"} /\ def \in Matcher
  BY WantedOfMatcher DEF ReadAlike
<1>4. k \in Wanted <=> (def.kind = "Regex" \/ v # Empty)
  BY <1>1, <1>3, WantedOfMatcher
<1>5. k \in Wanted => Accepted(def.kind, v)
  <2>1. SUFFICES ASSUME k \in Wanted PROVE Accepted(def.kind, v)
    OBVIOUS
  <2>2. k \in WantedRefs
    <3>1. SUFFICES ASSUME k \in WantedDsl PROVE FALSE
      BY <2>1 DEF Wanted
    <3>2. PICK i \in DOMAIN dsl_matchers : \E w \in DOMAIN DslDefAt(i).values : k = DslKeyAt(i, w)
      BY <3>1, DslKeyExists
    <3>3. PICK w \in DOMAIN DslDefAt(i).values : k = DslKeyAt(i, w)
      BY <3>2
    <3>4. DefAt(k).kind = "Dsl"
      BY <3>2, <3>3, DslKeyFacts
    <3> QED
      BY <3>4, <1>2, <1>3
  <2>3. PICK i \in DOMAIN refs : refs[i].key = k
    BY <2>2, EntryExists
  <2> QED
    BY <2>3, <1>2, EntryFacts
<1>6. IsSeq(text) /\ View(response, def.part) = text /\ ~Named(def.part)
  <2>1. IsSeq(response.body) /\ response.headers = <<>>
    BY ResponseParts DEF RawText
  <2>2. <<>> \o response.body = response.body
    BY <2>1, ConcatEmptySeq DEF IsSeq
  <2> QED
    BY <1>1, <1>3, <2>1, <2>2, PatternAssumption DEF View, AllBytes, Named, Part
<1>7. FoundAt(k) = Found(def, v)
  BY <1>2 DEF FoundAt
<1>8. CASE def.kind = "Word"
  <2> DEFINE O == OccurrencesIgnoringCase(WordBytes[v], text)
             all == {[text |-> v, offset |-> o] : o \in O}
  <2>1. Found(def, v) = Leftmost(all)
    BY <1>6, <1>8 DEF Found
  <2>2. k \in Wanted => O \subseteq Nat
    <3>1. SUFFICES ASSUME k \in Wanted PROVE O \subseteq Nat
      OBVIOUS
    <3>2. v \in DOMAIN WordBytes
      BY <1>3, LenProperties DEF Matcher
    <3>3. Len(WordBytes[v]) \in Nat /\ Len(text) \in Nat
      BY <1>6, <3>2, PatternAssumption, SeqDomain, LenProperties DEF IsSequence
    <3> QED
      BY <3>3 DEF OccurrencesIgnoringCase
  <2>3. \A f \in Leftmost(all) : f.text = v
    BY DEF Leftmost
  <2>4. k \in Wanted => (Leftmost(all) # {} <=> O # {})
    <3>1. SUFFICES ASSUME k \in Wanted PROVE Leftmost(all) # {} <=> O # {}
      OBVIOUS
    <3>2. O \in SUBSET Nat
      BY <2>2, <3>1
    <3>3. O = {} => Leftmost(all) = {}
      BY DEF Leftmost
    <3>4. ASSUME O # {}
          PROVE  Leftmost(all) # {}
      <4>1. PICK P \in SUBSET Nat : P = O
        BY <3>2
      <4>2. PICK F : F = {[text |-> v, offset |-> p] : p \in P}
        OBVIOUS
      <4>3. PICK p \in P : TRUE
        BY <3>4, <4>1
      <4>4. Leftmost(F) # {}
        BY ONLY <4>2, <4>3, LeftmostOfTexts
      <4>5. all = F
        BY <4>1, <4>2
      <4> QED
        BY <4>4, <4>5
    <3> QED
      BY <3>3, <3>4
  <2>5. OccursInText(def.kind, v, text) <=> v # Empty /\ O # {}
    BY <1>8 DEF OccursInText, ContainsWord
  <2> HIDE DEF O, all
  <2> QED
    BY <1>1, <1>4, <1>7, <1>8, <2>1, <2>3, <2>4, <2>5
<1>9. CASE def.kind = "Size"
  <2>1. Found(def, v) = IF Number[v] = response.content_length THEN One(v) ELSE {}
    BY <1>9 DEF Found, One
  <2>2. response.content_length = Len(text)
    BY <1>1 DEF RawText
  <2>3. k \in Wanted <=> v # Empty
    BY <1>4, <1>9
  <2>4. k \in Wanted => v \in DOMAIN Number
    BY <1>5, <1>9 DEF Accepted
  <2>5. v \in DOMAIN Number => v # Empty
    BY EmptyAssumption
  <2>6. OccursInText(def.kind, v, text) <=> v \in DOMAIN Number /\ Number[v] = Len(text)
    BY <1>9 DEF OccursInText
  <2>7. One(v) # {} /\ \A f \in One(v) : f.text = v
    BY DEF One
  <2> QED
    BY <1>1, <1>7, <1>9, <2>1, <2>2, <2>3, <2>4, <2>5, <2>6, <2>7
<1>10. CASE def.kind = "Regex"
  <2>1. RuntimeText(v) = v
    BY <1>10 DEF ReadAlike, Range
  <2>2. Found(def, v) = Distinct(Finds(Class[v], text))
    BY <1>6, <1>10, <2>1 DEF Found
  <2>3. k \in Wanted /\ v \in DOMAIN Class
    BY <1>4, <1>5, <1>10, <2>1 DEF Accepted
  <2>4. Ordered(Finds(Class[v], text))
    BY <1>6, FindsAreOrdered
  <2>5. Distinct(Finds(Class[v], text)) # {} <=> Finds(Class[v], text) # {}
    BY <2>4, SomethingIsDistinct DEF Distinct
  <2>6. OccursInText(def.kind, v, text) <=> Finds(Class[v], text) # {}
    BY <1>10, <2>3 DEF OccursInText
  <2> QED
    BY <1>1, <1>7, <1>10, <2>2, <2>3, <2>5, <2>6
<1> QED
  BY <1>3, <1>8, <1>9, <1>10

\* The values the text path lists are at the places that the scan says are present,
\* and those of a positive matcher are values of its matches.
LEMMA TextValues ==
    ASSUME Scannable, Range(matches) = Expected, RawText,
           NEW t, NEW r, NEW m, NEW def, IsMatcherAt(t, r, m, def), ReadAlike(def),
           NEW listed, listed = MatcherValuesText(def, response.body)
    PROVE  /\ DOMAIN listed = PresentValues(<<t, r, m>>)
           /\ ~def.negative =>
                 Range(listed) \subseteq {match.value : match \in MatchesOf(<<t, r, m>>)}
<1>1. def.part \in {"Body", "All"} /\ def.kind # "Dsl"
  BY DEF ReadAlike
<1> DEFINE present == {n \in DOMAIN def.values :
                          OccursInText(def.kind, def.values[n], response.body)}
<1>2. listed = [n \in present |-> IF def.kind = "Regex"
                                 THEN FirstText(Class[def.values[n]], response.body)
                                 ELSE def.values[n]]
  BY <1>1 DEF MatcherValuesText
<1>3. \A n \in DOMAIN def.values :
         OccursInText(def.kind, def.values[n], response.body) <=>
            <<t, r, m, n>> \in Wanted /\ FoundAt(<<t, r, m, n>>) # {}
  BY TextFinds
<1>4. PresentValues(<<t, r, m>>) = present
  <2>1. PresentValues(<<t, r, m>>) =
           {n \in DOMAIN def.values : /\ <<t, r, m, n>> \in Wanted
                                      /\ FoundAt(<<t, r, m, n>>) # {}}
    BY <1>1, PresentAreFound
  <2> QED
    BY <1>3, <2>1
<1>5. ASSUME ~def.negative, NEW n \in present
      PROVE  \E match \in MatchesOf(<<t, r, m>>) : match.value = listed[n]
  <2>1. PICK k, v : k = <<t, r, m, n>> /\ v = def.values[n]
    OBVIOUS
  <2>2. k \in Wanted /\ FoundAt(k) # {} /\ DefAt(k) = def /\ MatcherOf(k) = <<t, r, m>>
    BY <1>3, <1>5, <2>1 DEF DefAt, MatcherOf, IsMatcherAt
  <2>3. \E f \in FoundAt(k) : f.text = listed[n]
    <3>1. CASE def.kind = "Regex"
      <4>1. PICK F : F = Finds(Class[v], response.body)
        OBVIOUS
      <4>2. FoundAt(k) = Distinct(F) /\ OccursInText(def.kind, v, response.body)
        BY <1>5, <2>1, <2>2, <3>1, <4>1, TextFinds
      <4>3. F # {} /\ Ordered(F)
        <5>1. IsSeq(response.body)
          BY ResponseParts DEF Scannable
        <5> QED
          BY <3>1, <4>1, <4>2, <5>1, FindsAreOrdered DEF OccursInText
      <4>4. PICK f : f = CHOOSE g \in Leftmost(F) : TRUE
        OBVIOUS
      <4>5. f \in Leftmost(F)
        BY <4>3, <4>4, LeftmostIsDistinct
      <4>6. f \in Distinct(F)
        BY <4>5 DEF Leftmost, Distinct
      <4>7. listed[n] = f.text
        BY <1>2, <1>5, <2>1, <3>1, <4>1, <4>4 DEF FirstText
      <4> QED
        BY <4>2, <4>6, <4>7
    <3>2. CASE def.kind # "Regex"
      <4>1. \A f \in FoundAt(k) : f.text = v
        BY <2>1, <2>2, <3>2, TextFinds
      <4>2. listed[n] = v
        BY <1>2, <1>5, <2>1, <3>2
      <4> QED
        BY <2>2, <4>1, <4>2
    <3> QED
      BY <3>1, <3>2
  <2>4. PICK f \in FoundAt(k) : f.text = listed[n]
    BY <2>3
  <2>5. PICK match : match = Result(k, f.text, f.offset)
    OBVIOUS
  <2>6. match \in ResultsOf(k) /\ match.value = listed[n]
    BY <1>5, <2>2, <2>4, <2>5 DEF ResultsOf, Result
  <2>7. match.key = k /\ match \in Range(matches)
    BY <2>2, <2>6, ResultsByKey DEF Expected
  <2> QED
    BY <2>2, <2>6, <2>7 DEF MatchesOf
<1> HIDE DEF present
<1>6. DOMAIN listed = present
  BY <1>2
<1> QED
  BY <1>4, <1>5, <1>6 DEF Range

\* When a scan has ended on raw text, the text path has come to the same verdicts.
LEMMA VerdictsAreTheSame ==
    ASSUME Scannable, Range(matches) = Expected, RawText
    PROVE  VerdictsAgree
<1> SUFFICES ASSUME NEW at \in RequestsReadAlike, NEW condition \in MatchCondition,
                    NEW request, request = templates[at[1]][at[2]]
             PROVE  LET verdict(m) == MatcherSatisfied(request[m], condition,
                                                       PresentValues(<<at[1], at[2], m>>))
                    IN  /\ \A m \in DOMAIN request :
                              MatcherSatisfiedText(request[m], condition, response.body) = verdict(m)
                        /\ RequestMatchesText(request, "And", condition, response.body)
                              = (request # <<>> /\ \A m \in DOMAIN request : verdict(m))
                        /\ RequestMatchesText(request, "Or", condition, response.body)
                              = (\E m \in DOMAIN request : verdict(m))
  BY DEF VerdictsAgree
<1> DEFINE verdict(m) == MatcherSatisfied(request[m], condition, PresentValues(<<at[1], at[2], m>>))
           satisfied == {m \in DOMAIN request :
                            MatcherSatisfiedText(request[m], condition, response.body)}
<1>1. ASSUME NEW m \in DOMAIN request
      PROVE  MatcherSatisfiedText(request[m], condition, response.body) = verdict(m)
  <2>1. PICK def, listed : def = request[m] /\ listed = MatcherValuesText(def, response.body)
    OBVIOUS
  <2>2. IsMatcherAt(at[1], at[2], m, def) /\ ReadAlike(def)
    BY <1>1, <2>1 DEF IsMatcherAt, RequestsReadAlike, Requests
  <2>3. DOMAIN listed = PresentValues(<<at[1], at[2], m>>)
    BY <2>1, <2>2, TextValues
  <2> QED
    BY <2>1, <2>3 DEF MatcherSatisfiedText, MatcherSatisfied
<1>2. \A m : m \in satisfied <=> m \in DOMAIN request /\ verdict(m)
  <2> HIDE DEF verdict
  <2> QED
    BY <1>1
<1> HIDE DEF verdict
<1>3. RequestMatchesText(request, "And", condition, response.body)
         = (request # <<>> /\ satisfied = DOMAIN request)
  BY DEF RequestMatchesText
<1>4. RequestMatchesText(request, "Or", condition, response.body) = (satisfied # {})
  BY DEF RequestMatchesText
<1>5. satisfied = DOMAIN request <=> \A m \in DOMAIN request : verdict(m)
  <2> HIDE DEF satisfied
  <2> QED
    BY <1>2
<1>6. satisfied # {} <=> \E m \in DOMAIN request : verdict(m)
  <2> HIDE DEF satisfied
  <2> QED
    BY <1>2
<1> HIDE DEF satisfied
<1>7. /\ \A m \in DOMAIN request :
            MatcherSatisfiedText(request[m], condition, response.body) = verdict(m)
      /\ RequestMatchesText(request, "And", condition, response.body)
            = (request # <<>> /\ \A m \in DOMAIN request : verdict(m))
      /\ RequestMatchesText(request, "Or", condition, response.body)
            = (\E m \in DOMAIN request : verdict(m))
  BY <1>1, <1>3, <1>4, <1>5, <1>6
<1> QED
  BY <1>7 DEF verdict

\* And what it has collected of positive matchers, the scan has reported.
LEMMA CollectedIsReported ==
    ASSUME Scannable, Range(matches) = Expected, RawText
    PROVE  CollectedAreReported
<1> DEFINE Met(request, at, condition) ==
              {m \in DOMAIN request :
                  MatcherSatisfied(request[m], condition, PresentValues(<<at[1], at[2], m>>))}
           Shown(at, M) == UNION {{match.value : match \in MatchesOf(<<at[1], at[2], m>>)} : m \in M}
<1> SUFFICES ASSUME NEW at \in RequestsReadAlike, NEW condition \in MatchCondition,
                    NEW request, request = templates[at[1]][at[2]],
                    \A m \in DOMAIN request : ~request[m].negative,
                    NEW internal \in SUBSET DOMAIN request
             PROVE  CollectMatchedValuesText(request, internal, condition, response.body)
                       \subseteq Shown(at, Met(request, at, condition) \ internal)
  <2>1. CollectedAreReported <=>
           (RawText =>
              \A at \in RequestsReadAlike, condition \in MatchCondition :
                 (\A m \in DOMAIN templates[at[1]][at[2]] : ~templates[at[1]][at[2]][m].negative) =>
                    \A internal \in SUBSET DOMAIN templates[at[1]][at[2]] :
                       CollectMatchedValuesText(templates[at[1]][at[2]], internal, condition, response.body)
                          \subseteq Shown(at, Met(templates[at[1]][at[2]], at, condition) \ internal))
    BY DEF CollectedAreReported
  <2> HIDE DEF Shown, Met
  <2> QED
    BY <2>1
<1>1. ASSUME NEW value \in CollectMatchedValuesText(request, internal, condition, response.body)
      PROVE  \E m \in DOMAIN request \ internal :
                /\ MatcherSatisfied(request[m], condition, PresentValues(<<at[1], at[2], m>>))
                /\ value \in {match.value : match \in MatchesOf(<<at[1], at[2], m>>)}
  <2>1. PICK m \in DOMAIN request :
           /\ m \notin internal /\ MatcherSatisfiedText(request[m], condition, response.body)
           /\ value \in Range(MatcherValuesText(request[m], response.body))
    BY DEF CollectMatchedValuesText
  <2>2. PICK def, listed : def = request[m] /\ listed = MatcherValuesText(def, response.body)
    OBVIOUS
  <2>3. IsMatcherAt(at[1], at[2], m, def) /\ ReadAlike(def)
    BY <2>1, <2>2 DEF IsMatcherAt, RequestsReadAlike, Requests
  <2>4. ~def.negative
    BY <2>1, <2>2
  <2>5. /\ DOMAIN listed = PresentValues(<<at[1], at[2], m>>)
        /\ Range(listed) \subseteq {match.value : match \in MatchesOf(<<at[1], at[2], m>>)}
    BY <2>2, <2>3, <2>4, TextValues
  <2>6. MatcherSatisfied(def, condition, PresentValues(<<at[1], at[2], m>>))
    BY <2>1, <2>2, <2>5 DEF MatcherSatisfiedText, MatcherSatisfied
  <2> QED
    BY <2>1, <2>2, <2>5, <2>6
<1> QED
  BY <1>1

\* Matching a text and scanning it come to the same verdicts and the same values,
\* for any templates that compile and any raw text.
THEOREM TextAgrees == ChunkSize <= SetLimit => (Spec => [](ArenaFits => TextAgreesWithScan))
<1> SUFFICES ASSUME ChunkSize <= SetLimit
             PROVE  Spec => [](ArenaFits => TextAgreesWithScan)
  OBVIOUS
<1>1. IInv /\ ScanInv => (ArenaFits => TextAgreesWithScan)
  <2> SUFFICES ASSUME IInv, ScanInv, ArenaFits
               PROVE  TextAgreesWithScan
    OBVIOUS
  <2>1. CASE stage # "done"
    BY <2>1 DEF TextAgreesWithScan, VerdictsAgree, CollectedAreReported, RawText
  <2>2. CASE ~RawText
    BY <2>2 DEF TextAgreesWithScan, VerdictsAgree, CollectedAreReported
  <2>3. CASE stage = "done" /\ RawText
    <3>1. Scannable
      BY <2>3 DEF Scannable, ScanInv, ScanTypes
    <3>2. Underway
      BY <2>3, <3>1, PhasesAreSound DEF Underway, ScanInv
    <3>3. Range(matches) = Expected
      BY <2>3, <3>2, MatchesAreExpected
    <3> QED
      BY <2>3, <3>1, <3>3, VerdictsAreTheSame, CollectedIsReported DEF TextAgreesWithScan
  <2> QED
    BY <2>1, <2>2, <2>3
<1> QED
  BY <1>1, ScanInvariant, PTL
=============================================================================
