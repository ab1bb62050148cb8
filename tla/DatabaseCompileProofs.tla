----------------------- MODULE DatabaseCompileProofs -----------------------
(***************************************************************************)
(* The invariants of the compilation of a database for every slice of      *)
(* templates, every interleaving of the workers and every limit.           *)
(***************************************************************************)
EXTENDS DatabaseCompile, SequenceLemmas

-----------------------------------------------------------------------------
\* Slots and keys.

\* A worker that has slots left has a first one.
LEMMA LeastSlot ==
    ASSUME NEW T \in SUBSET (Nat \X Nat \X Nat), T # {}
    PROVE  \E s \in T : \A other \in T : other = s \/ Before(s, other)
<1> DEFINE A == {s[1] : s \in T}
<1>1. PICK a \in A : \A b \in A : a <= b
  <2>1. A \in SUBSET Nat /\ A # {}
    OBVIOUS
  <2> HIDE DEF A
  <2> QED
    BY <2>1, LeastNat
<1> DEFINE B == {s[2] : s \in {u \in T : u[1] = a}}
<1>2. PICK b \in B : \A c \in B : b <= c
  <2>1. B \in SUBSET Nat /\ B # {}
    BY <1>1
  <2> HIDE DEF B
  <2> QED
    BY <2>1, LeastNat
<1> DEFINE C == {s[3] : s \in {u \in T : u[1] = a /\ u[2] = b}}
<1>3. PICK c \in C : \A d \in C : c <= d
  <2>1. C \in SUBSET Nat /\ C # {}
    BY <1>2
  <2> HIDE DEF C
  <2> QED
    BY <2>1, LeastNat
<1>4. PICK s \in T : s[1] = a /\ s[2] = b /\ s[3] = c
  BY <1>3
<1>5. ASSUME NEW o \in T
      PROVE  o = s \/ Before(s, o)
  <2>1. a <= o[1] /\ (o[1] = a => b <= o[2]) /\ (o[1] = a /\ o[2] = b => c <= o[3])
    BY <1>1, <1>2, <1>3
  <2>2. /\ o[1] \in Nat /\ o[2] \in Nat /\ o[3] \in Nat
        /\ s[1] \in Nat /\ s[2] \in Nat /\ s[3] \in Nat
    OBVIOUS
  <2>3. o[1] = s[1] /\ o[2] = s[2] /\ o[3] = s[3] => o = s
    OBVIOUS
  <2> QED
    BY <2>1, <2>2, <2>3, <1>4 DEF Before
<1> QED
  BY <1>5, <1>4

\* The key of a slot: a quadruple.
LEMMA KeyOfSlot ==
    ASSUME NEW t, NEW u \in Nat \X Nat \X Nat
    PROVE  /\ <<t>> \o u = <<t, u[1], u[2], u[3]>>
           /\ (<<t>> \o u)[1] = t /\ (<<t>> \o u)[2] = u[1]
           /\ (<<t>> \o u)[3] = u[2] /\ (<<t>> \o u)[4] = u[3]
           /\ Tail(<<t>> \o u) = u
<1> DEFINE S == {t} \cup Nat
           p == <<t>>
           k == <<t, u[1], u[2], u[3]>>
<1>1. u = <<u[1], u[2], u[3]>> /\ u[1] \in Nat /\ u[2] \in Nat /\ u[3] \in Nat
  OBVIOUS
<1>2. /\ p \in Seq(S) /\ Len(p) = 1 /\ p[1] = t
      /\ <<u[1], u[2], u[3]>> \in Seq(S) /\ Len(<<u[1], u[2], u[3]>>) = 3
      /\ k \in Seq(S) /\ Len(k) = 4
      /\ k[1] = t /\ k[2] = u[1] /\ k[3] = u[2] /\ k[4] = u[3]
  BY <1>1
<1>3. u \in Seq(S) /\ Len(u) = 3
  BY <1>1, <1>2
<1> HIDE DEF S, p, k
<1>4. /\ p \o u \in Seq(S) /\ Len(p \o u) = 4
      /\ \A i \in 1..4 : (p \o u)[i] = IF i <= 1 THEN p[i] ELSE u[i - 1]
  <2>1. /\ p \o u \in Seq(S) /\ Len(p \o u) = Len(p) + Len(u)
        /\ \A i \in 1 .. Len(p) + Len(u) :
              (p \o u)[i] = IF i <= Len(p) THEN p[i] ELSE u[i - Len(p)]
    BY <1>2, <1>3, ConcatProperties
  <2> QED
    BY <2>1, <1>2, <1>3
<1>5. \A i \in 1..4 : (p \o u)[i] = k[i]
  BY <1>2, <1>4, SMTT(20)
<1>6. p \o u = k
  BY <1>2, <1>4, <1>5, SeqEqual
<1>7. /\ Tail(k) \in Seq(S) /\ Len(Tail(k)) = 3
      /\ \A i \in 1..3 : Tail(k)[i] = k[i + 1]
  <2>1. k # <<>> /\ Len(k) - 1 = 3
    BY <1>2, EmptySeq
  <2>2. /\ Tail(k) \in Seq(S) /\ Len(Tail(k)) = Len(k) - 1
        /\ \A i \in 1 .. Len(Tail(k)) : Tail(k)[i] = k[i + 1]
    BY <2>1, <1>2, HeadTailProperties
  <2>3. Len(Tail(k)) = 3
    BY <2>1, <2>2
  <2> QED
    BY <2>2, <2>3
<1>8. \A i \in 1..3 : Tail(k)[i] = u[i]
  BY <1>7, <1>2
<1>9. Tail(k) = u
  BY <1>3, <1>7, <1>8, SeqEqual
<1>10. /\ (p \o u)[1] = t /\ (p \o u)[2] = u[1]
       /\ (p \o u)[3] = u[2] /\ (p \o u)[4] = u[3]
  BY <1>2, <1>6
<1> QED
  BY <1>6, <1>9, <1>10 DEF p, k

\* The key of a value of a DSL matcher.
LEMMA KeyOfDslValue ==
    ASSUME NEW a, NEW b, NEW c, NEW v
    PROVE  Append(<<a, b, c>>, v) = <<a, b, c, v>>
<1> DEFINE S == {a, b, c, v}
           p == <<a, b, c>>
           k == <<a, b, c, v>>
<1>1. /\ p \in Seq(S) /\ Len(p) = 3 /\ p[1] = a /\ p[2] = b /\ p[3] = c
      /\ k \in Seq(S) /\ Len(k) = 4 /\ k[1] = a /\ k[2] = b /\ k[3] = c /\ k[4] = v
      /\ v \in S
  OBVIOUS
<1> HIDE DEF S, p, k
<1>2. /\ Append(p, v) = p \o <<v>>
      /\ <<v>> \in Seq(S) /\ Len(<<v>>) = 1 /\ <<v>>[1] = v
  BY <1>1, AppendIsConcat
<1>3. /\ p \o <<v>> \in Seq(S) /\ Len(p \o <<v>>) = 4
      /\ \A i \in 1..4 : (p \o <<v>>)[i] = IF i <= 3 THEN p[i] ELSE <<v>>[i - 3]
  <2> DEFINE q == <<v>>
  <2>1. q \in Seq(S) /\ Len(q) = 1
    BY <1>2
  <2> HIDE DEF q
  <2>2. /\ p \o q \in Seq(S) /\ Len(p \o q) = Len(p) + Len(q)
        /\ \A i \in 1 .. Len(p) + Len(q) :
              (p \o q)[i] = IF i <= Len(p) THEN p[i] ELSE q[i - Len(p)]
    BY <2>1, <1>1, ConcatProperties
  <2>3. /\ p \o q \in Seq(S) /\ Len(p \o q) = 4
        /\ \A i \in 1..4 : (p \o q)[i] = IF i <= 3 THEN p[i] ELSE q[i - 3]
    BY <2>1, <2>2, <1>1
  <2> QED
    BY <2>3 DEF q
<1>4. \A i \in 1..4 : Append(p, v)[i] = k[i]
  BY <1>1, <1>2, <1>3
<1>5. Append(p, v) = k
  BY <1>1, <1>2, <1>3, <1>4, SeqEqual
<1> QED
  BY <1>5 DEF p, k

\* Where the slots of a template are.
LEMMA SlotsOfTemplate ==
    ASSUME NEW template \in Seq(Seq(Matcher)), NEW u \in Slots(template)
    PROVE  /\ u \in Nat \X Nat \X Nat
           /\ u[1] \in DOMAIN template /\ u[2] \in DOMAIN template[u[1]]
           /\ template[u[1]][u[2]] \in Matcher
           /\ IF template[u[1]][u[2]].kind = "Dsl" THEN u[3] = 0
              ELSE u[3] \in DOMAIN template[u[1]][u[2]].values
<1>1. PICK r \in DOMAIN template :
         \E m \in DOMAIN template[r] : u \in ValueSlots(template[r][m], r, m)
  BY DEF Slots
<1>2. PICK m \in DOMAIN template[r] : u \in ValueSlots(template[r][m], r, m)
  BY <1>1
<1>3. r \in Nat /\ template[r] \in Seq(Matcher)
  BY LenProperties, ElementOfSeq
<1>4. m \in Nat /\ template[r][m] \in Matcher
  BY <1>3, LenProperties, ElementOfSeq
<1>5. DOMAIN template[r][m].values \subseteq Nat
  <2>1. template[r][m].values \in Seq(DOMAIN WordBytes)
    BY <1>4 DEF Matcher
  <2> QED
    BY <2>1, LenProperties
<1> QED
  BY <1>2, <1>3, <1>4, <1>5 DEF ValueSlots

-----------------------------------------------------------------------------
\* The inductive invariant.

\* The keys of the DSL matchers, and of the values that get a reference.
DslKey(k) == IsDsl(k[1], Tail(k))
RefKey(k) == ~DslKey(k) /\ ~Skipped(k[1], Tail(k))

TextAt(k) == IF KindAt(k) = "Regex" THEN RuntimeText(ValueAt(k)) ELSE ValueAt(k)

\* rs holds one reference into the arena for every value among the keys K, in order.
RefsHold(arena, rs, K) ==
    /\ \A i \in DOMAIN rs :
          /\ rs[i].key \in K /\ RefKey(rs[i].key)
          /\ rs[i] = NewRef(rs[i].key[1], Tail(rs[i].key), rs[i].pattern_index)
          /\ rs[i].pattern_index \in 0..Len(arena) - 1
          /\ Len(arena) <= U32Max + 1 => arena[rs[i].pattern_index + 1] = TextAt(rs[i].key)
    /\ \A k \in K : RefKey(k) => \E i \in DOMAIN rs : rs[i].key = k
    /\ \A i, j \in DOMAIN rs : i < j => KeyBefore(rs[i].key, rs[j].key)

\* ds holds every DSL matcher among the keys K, in order.
DslHold(ds, K) ==
    /\ \A i \in DOMAIN ds : \E k \in K : DslKey(k) /\ ds[i] = <<k[1], k[2], k[3]>>
    /\ \A k \in K : DslKey(k) => \E i \in DOMAIN ds : ds[i] = <<k[1], k[2], k[3]>>
    /\ \A i, j \in DOMAIN ds : i < j => Before(ds[i], ds[j])

\* The keys of a template, those its worker has visited, and those merged.
KeysOf(t)      == {<<t>> \o u : u \in Slots(templates[t])}
Visited(t)     == Slots(templates[t]) \ todo[t]
VisitedKeys(t) == {<<t>> \o u : u \in Visited(t)}
MergedKeys     == UNION {KeysOf(t) : t \in 1..merged}

IsBatch(b) ==
    /\ b = [patterns |-> b.patterns, refs |-> b.refs, dsl |-> b.dsl]
    /\ IsSeq(b.patterns) /\ IsSeq(b.refs) /\ IsSeq(b.dsl)

ShapeInv ==
    /\ templates \in Seq(Seq(Seq(Matcher)))
    /\ phase \in Phases
    /\ todo = [t \in DOMAIN templates |-> todo[t]]
    /\ batches = [t \in DOMAIN templates |-> batches[t]]
    /\ \A t \in DOMAIN templates : todo[t] \subseteq Slots(templates[t]) /\ IsBatch(batches[t])
    /\ merged \in 0..Len(templates)
    /\ IsSeq(patterns) /\ IsSeq(refs) /\ IsSeq(dsl_matchers)

\* A batch holds what its worker has visited: sound slots, before all that are left.
BatchOK(t) ==
    /\ RefsHold(batches[t].patterns, batches[t].refs, VisitedKeys(t))
    /\ DslHold(batches[t].dsl, VisitedKeys(t))
    /\ \A u \in Visited(t) : ~Malformed(t, u) /\ \A v \in todo[t] : Before(u, v)

BatchInv == \A t \in DOMAIN templates : BatchOK(t)

\* The merged entries are those of the batches merged.
MergeInv ==
    /\ RefsHold(patterns, refs, MergedKeys)
    /\ DslHold(dsl_matchers, MergedKeys)

PhaseInv ==
    /\ merged > 0 => Collected
    /\ phase \in {"automaton", "sets", "ready"} =>
          merged = Len(templates) /\ Collected /\ word_groups = Groups
    /\ phase \in {"sets", "ready"} =>
          /\ \A p \in Part : \A chunk \in ChunksOf(RegexIndices(p)) : InvalidIn(chunk) = {}
          /\ regex_sets = [p \in Part |-> {c \in ChunksOf(RegexIndices(p)) : Builds(c)}]
    /\ phase = "ready" => negative_matchers = NegativeRefs \cup NegativeDsl

\* An error may name template t.
Blamed(t) == Faults(t) # {} \/ \E k \in WantedDsl : k[1] = t /\ TooFar(k[4])

ErrorInv ==
    /\ error.template \in 0..Len(templates)
    /\ phase = "failed" /\ error.template # 0 => Blamed(error.template)

IInv == ShapeInv /\ BatchInv /\ MergeInv /\ PhaseInv /\ ErrorInv

-----------------------------------------------------------------------------
\* Lists of entries.

\* The batches and the merge depend on the templates alone for what a key means.
LEMMA SameTemplates ==
    ASSUME UNCHANGED templates
    PROVE  /\ \A arena, rs, K : RefsHold(arena, rs, K)' <=> RefsHold(arena, rs, K)
           /\ \A ds, K : DslHold(ds, K)' <=> DslHold(ds, K)
           /\ \A t, u : Malformed(t, u)' <=> Malformed(t, u)
           /\ \A t : KeysOf(t)' = KeysOf(t)
<1>1. /\ \A k : DslKey(k)' <=> DslKey(k)
      /\ \A k : RefKey(k)' <=> RefKey(k)
      /\ \A k : TextAt(k)' = TextAt(k)
      /\ \A t, u, index : NewRef(t, u, index)' = NewRef(t, u, index)
  BY DEF DslKey, RefKey, TextAt, NewRef, KindAt, ValueAt, IsDsl, Skipped, Def, Value
<1>2. \A arena, rs, K : RefsHold(arena, rs, K)' <=> RefsHold(arena, rs, K)
  BY <1>1 DEF RefsHold
<1>3. \A ds, K : DslHold(ds, K)' <=> DslHold(ds, K)
  BY <1>1 DEF DslHold
<1>4. \A t, u : Malformed(t, u)' <=> Malformed(t, u)
  BY DEF Malformed, IsDsl, Skipped, Def, Value
<1> QED
  BY <1>2, <1>3, <1>4 DEF KeysOf

\* s is rs with the indices moved by `from` in an arena of `size` texts, as long as
\* that many can be indexed.
Moved(s, rs, from, size) ==
    /\ DOMAIN s = DOMAIN rs
    /\ \A i \in DOMAIN rs :
          /\ s[i].key = rs[i].key
          /\ s[i] = NewRef(rs[i].key[1], Tail(rs[i].key), s[i].pattern_index)
          /\ s[i].pattern_index \in 0..size - 1
          /\ size <= U32Max + 1 => s[i].pattern_index = rs[i].pattern_index + from

\* Lists joined: r2 with its indices moved by the arena of r1, after r1.
LEMMA RefsJoin ==
    ASSUME NEW a1, IsSeq(a1), NEW r1, IsSeq(r1), NEW K1, RefsHold(a1, r1, K1),
           NEW a2, IsSeq(a2), NEW r2, IsSeq(r2), NEW K2, RefsHold(a2, r2, K2),
           NEW r3, IsSeq(r3), Moved(r3, r2, Len(a1), Len(a1) + Len(a2)),
           \A k \in K1, l \in K2 : KeyBefore(k, l)
    PROVE  RefsHold(a1 \o a2, r1 \o r3, K1 \cup K2)
<1> DEFINE a == a1 \o a2
           r == r1 \o r3
<1>1. IsJoin(a, a1, a2)
  BY JoinElements
<1>2. IsJoin(r, r1, r3)
  BY JoinElements
<1> HIDE DEF a, r
<1> USE DEF IsJoin
<1>3. ASSUME NEW i \in DOMAIN r
      PROVE  /\ r[i].key \in K1 \cup K2 /\ RefKey(r[i].key)
             /\ r[i] = NewRef(r[i].key[1], Tail(r[i].key), r[i].pattern_index)
             /\ r[i].pattern_index \in 0..Len(a) - 1
             /\ Len(a) <= U32Max + 1 => a[r[i].pattern_index + 1] = TextAt(r[i].key)
  <2>1. CASE i \in DOMAIN r1
    <3>1. /\ r1[i].key \in K1 /\ RefKey(r1[i].key)
          /\ r1[i] = NewRef(r1[i].key[1], Tail(r1[i].key), r1[i].pattern_index)
          /\ r1[i].pattern_index \in 0..Len(a1) - 1
          /\ Len(a1) <= U32Max + 1 => a1[r1[i].pattern_index + 1] = TextAt(r1[i].key)
      BY <2>1 DEF RefsHold
    <3>2. r1[i].pattern_index + 1 \in DOMAIN a1 /\ r1[i].pattern_index \in 0..Len(a) - 1
      BY <3>1, <1>1
    <3>3. Len(a) <= U32Max + 1 => Len(a1) <= U32Max + 1
      BY <1>1, LimitAssumption
    <3> QED
      BY <3>1, <3>2, <3>3, <2>1, <1>1, <1>2
  <2>2. ASSUME NEW j \in DOMAIN r3, i = Len(r1) + j
        PROVE  <1>3!2
    <3>1. /\ r2[j].key \in K2 /\ RefKey(r2[j].key)
          /\ r2[j].pattern_index \in 0..Len(a2) - 1
          /\ Len(a2) <= U32Max + 1 => a2[r2[j].pattern_index + 1] = TextAt(r2[j].key)
      BY DEF RefsHold, Moved
    <3>2. /\ r[i] = r3[j] /\ r3[j].key = r2[j].key
          /\ r3[j] = NewRef(r2[j].key[1], Tail(r2[j].key), r3[j].pattern_index)
      BY <2>2, <1>2 DEF Moved
    <3>3. /\ r3[j].pattern_index \in 0..Len(a) - 1
          /\ Len(a) <= U32Max + 1 => r3[j].pattern_index = r2[j].pattern_index + Len(a1)
      BY <1>1 DEF Moved
    <3>4. ASSUME Len(a) <= U32Max + 1
          PROVE  a[r3[j].pattern_index + 1] = TextAt(r2[j].key)
      <4>1. r3[j].pattern_index + 1 = Len(a1) + (r2[j].pattern_index + 1)
        BY <3>1, <3>3, <3>4, <1>1
      <4>2. r2[j].pattern_index + 1 \in DOMAIN a2 /\ Len(a2) <= U32Max + 1
        BY <3>1, <3>4, <1>1, LimitAssumption
      <4> QED
        BY <4>1, <4>2, <3>1, <1>1
    <3> QED
      BY <3>1, <3>2, <3>3, <3>4
  <2> QED
    BY <2>1, <2>2, <1>2
<1>4. ASSUME NEW k \in K1 \cup K2, RefKey(k)
      PROVE  \E i \in DOMAIN r : r[i].key = k
  <2>1. CASE k \in K1
    <3>1. PICK i \in DOMAIN r1 : r1[i].key = k
      BY <2>1, <1>4 DEF RefsHold
    <3> QED
      BY <3>1, <1>2
  <2>2. CASE k \in K2
    <3>1. PICK i \in DOMAIN r2 : r2[i].key = k
      BY <2>2, <1>4 DEF RefsHold
    <3>2. Len(r1) + i \in DOMAIN r /\ r[Len(r1) + i] = r3[i] /\ r3[i].key = r2[i].key
      BY <1>2 DEF Moved
    <3> QED
      BY <3>1, <3>2
  <2> QED
    BY <2>1, <2>2
<1>5. ASSUME NEW i \in DOMAIN r, NEW j \in DOMAIN r, i < j
      PROVE  KeyBefore(r[i].key, r[j].key)
  <2>1. CASE i \in DOMAIN r1 /\ j \in DOMAIN r1
    BY <2>1, <1>5, <1>2 DEF RefsHold
  <2>2. CASE i \in DOMAIN r1 /\ j \notin DOMAIN r1
    <3>1. PICK m \in DOMAIN r3 : j = Len(r1) + m
      BY <2>2, <1>2
    <3>2. r[i] = r1[i] /\ r[j] = r3[m] /\ r3[m].key = r2[m].key
      BY <3>1, <2>2, <1>2 DEF Moved
    <3>3. r1[i].key \in K1 /\ r2[m].key \in K2
      BY <2>2 DEF RefsHold, Moved
    <3> QED
      BY <3>2, <3>3
  <2>3. CASE i \notin DOMAIN r1
    <3>1. PICK l \in DOMAIN r3 : i = Len(r1) + l
      BY <2>3, <1>2
    <3>2. PICK m \in DOMAIN r3 : j = Len(r1) + m
      BY <2>3, <1>2, <1>5
    <3>3. l < m
      BY <3>1, <3>2, <1>5, <1>2
    <3>4. KeyBefore(r2[l].key, r2[m].key)
      BY <3>3 DEF RefsHold, Moved
    <3>5. r3[l].key = r2[l].key /\ r3[m].key = r2[m].key
      BY DEF Moved
    <3> QED
      BY <3>1, <3>2, <3>4, <3>5, <1>2
  <2> QED
    BY <2>1, <2>2, <2>3
<1> QED
  BY <1>3, <1>4, <1>5 DEF RefsHold, a, r

\* The same for the lists of DSL matchers.
LEMMA DslJoin ==
    ASSUME NEW d1, IsSeq(d1), NEW K1, DslHold(d1, K1),
           NEW d2, IsSeq(d2), NEW K2, DslHold(d2, K2),
           \A k \in K1, l \in K2 : DslKey(k) /\ DslKey(l) =>
              Before(<<k[1], k[2], k[3]>>, <<l[1], l[2], l[3]>>)
    PROVE  DslHold(d1 \o d2, K1 \cup K2)
<1> DEFINE d == d1 \o d2
<1>1. IsJoin(d, d1, d2)
  BY JoinElements
<1> HIDE DEF d
<1> USE DEF IsJoin
<1>2. ASSUME NEW i \in DOMAIN d
      PROVE  \E k \in K1 \cup K2 : DslKey(k) /\ d[i] = <<k[1], k[2], k[3]>>
  <2>1. CASE i \in DOMAIN d1
    <3>1. PICK k \in K1 : DslKey(k) /\ d1[i] = <<k[1], k[2], k[3]>>
      BY <2>1 DEF DslHold
    <3>2. k \in K1 \cup K2 /\ d[i] = d1[i]
      BY <2>1, <1>1
    <3> QED
      BY <3>1, <3>2
  <2>2. ASSUME NEW j \in DOMAIN d2, i = Len(d1) + j
        PROVE  <1>2!2
    <3>1. PICK k \in K2 : DslKey(k) /\ d2[j] = <<k[1], k[2], k[3]>>
      BY DEF DslHold
    <3>2. k \in K1 \cup K2 /\ d[i] = d2[j]
      BY <2>2, <1>1
    <3> QED
      BY <3>1, <3>2
  <2> QED
    BY <2>1, <2>2, <1>1
<1>3. ASSUME NEW k \in K1 \cup K2, DslKey(k)
      PROVE  \E i \in DOMAIN d : d[i] = <<k[1], k[2], k[3]>>
  <2>1. CASE k \in K1
    <3>1. PICK i \in DOMAIN d1 : d1[i] = <<k[1], k[2], k[3]>>
      BY <2>1, <1>3 DEF DslHold
    <3>2. i \in DOMAIN d /\ d[i] = d1[i]
      BY <1>1
    <3> QED
      BY <3>1, <3>2
  <2>2. CASE k \in K2
    <3>1. PICK i \in DOMAIN d2 : d2[i] = <<k[1], k[2], k[3]>>
      BY <2>2, <1>3 DEF DslHold
    <3>2. Len(d1) + i \in DOMAIN d /\ d[Len(d1) + i] = d2[i]
      BY <1>1
    <3> QED
      BY <3>1, <3>2
  <2> QED
    BY <2>1, <2>2
<1>4. ASSUME NEW i \in DOMAIN d, NEW j \in DOMAIN d, i < j
      PROVE  Before(d[i], d[j])
  <2>1. CASE i \in DOMAIN d1 /\ j \in DOMAIN d1
    BY <2>1, <1>4, <1>1 DEF DslHold
  <2>2. CASE i \in DOMAIN d1 /\ j \notin DOMAIN d1
    <3>1. PICK m \in DOMAIN d2 : j = Len(d1) + m
      BY <2>2, <1>1
    <3>2. PICK k \in K1 : DslKey(k) /\ d1[i] = <<k[1], k[2], k[3]>>
      BY <2>2 DEF DslHold
    <3>3. PICK l \in K2 : DslKey(l) /\ d2[m] = <<l[1], l[2], l[3]>>
      BY DEF DslHold
    <3>4. d[i] = d1[i] /\ d[j] = d2[m]
      BY <3>1, <2>2, <1>1
    <3>5. Before(<<k[1], k[2], k[3]>>, <<l[1], l[2], l[3]>>)
      BY <3>2, <3>3
    <3> QED
      BY <3>2, <3>3, <3>4, <3>5
  <2>3. CASE i \notin DOMAIN d1
    <3>1. PICK l \in DOMAIN d2 : i = Len(d1) + l
      BY <2>3, <1>1
    <3>2. PICK m \in DOMAIN d2 : j = Len(d1) + m
      BY <2>3, <1>1, <1>4
    <3>3. l < m
      BY <3>1, <3>2, <1>4, <1>1
    <3>4. Before(d2[l], d2[m])
      BY <3>3 DEF DslHold
    <3> QED
      BY <3>1, <3>2, <3>4, <1>1
  <2> QED
    BY <2>1, <2>2, <2>3
<1> QED
  BY <1>2, <1>3, <1>4 DEF DslHold, d

-----------------------------------------------------------------------------
\* Collecting.

\* What the key k of slot u of template t says of the slot.
IsKey(k, t, u) ==
    /\ u \in Nat \X Nat \X Nat
    /\ k[1] = t /\ k[2] = u[1] /\ k[3] = u[2] /\ k[4] = u[3] /\ Tail(k) = u
    /\ DslKey(k) <=> IsDsl(t, u)
    /\ RefKey(k) <=> ~IsDsl(t, u) /\ ~Skipped(t, u)
    /\ DslKey(k) => k[4] = 0
    /\ TextAt(k) = IF Def(t, u).kind = "Regex" THEN RuntimeText(Value(t, u)) ELSE Value(t, u)

\* The key of a slot says of the slot all that the merge relies on.
LEMMA SlotKey ==
    ASSUME templates \in Seq(Seq(Seq(Matcher))),
           NEW t \in DOMAIN templates, NEW u \in Slots(templates[t]), NEW k, k = <<t>> \o u
    PROVE  IsKey(k, t, u)
<1>1. templates[t] \in Seq(Seq(Matcher))
  BY LenProperties, ElementOfSeq
<1>2. /\ u \in Nat \X Nat \X Nat
      /\ Def(t, u).kind = "Dsl" => u[3] = 0
  BY <1>1, SlotsOfTemplate DEF Def
<1>3. k = <<t, u[1], u[2], u[3]>> /\ Tail(k) = u
  BY <1>2, KeyOfSlot
<1>4. k[1] = t /\ k[2] = u[1] /\ k[3] = u[2] /\ k[4] = u[3]
  BY <1>2, KeyOfSlot
<1>5. /\ DslKey(k) <=> IsDsl(t, u)
      /\ RefKey(k) <=> ~IsDsl(t, u) /\ ~Skipped(t, u)
  BY <1>3, <1>4 DEF DslKey, RefKey
<1>6. TextAt(k) = IF Def(t, u).kind = "Regex" THEN RuntimeText(Value(t, u)) ELSE Value(t, u)
  BY <1>4 DEF TextAt, KindAt, ValueAt, Def, Value
<1> QED
  BY <1>2, <1>3, <1>4, <1>5, <1>6 DEF IsDsl, IsKey

\* Keys are ordered as their templates and slots are.
LEMMA KeyOrder ==
    ASSUME templates \in Seq(Seq(Seq(Matcher))),
           NEW t1 \in DOMAIN templates, NEW u1 \in Slots(templates[t1]), NEW k, k = <<t1>> \o u1,
           NEW t2 \in DOMAIN templates, NEW u2 \in Slots(templates[t2]), NEW l, l = <<t2>> \o u2,
           t1 < t2 \/ (t1 = t2 /\ Before(u1, u2))
    PROVE  /\ KeyBefore(k, l)
           /\ DslKey(k) /\ DslKey(l) => Before(<<k[1], k[2], k[3]>>, <<l[1], l[2], l[3]>>)
<1>1. /\ u1 \in Nat \X Nat \X Nat
      /\ k[1] = t1 /\ k[2] = u1[1] /\ k[3] = u1[2] /\ k[4] = u1[3] /\ Tail(k) = u1
      /\ DslKey(k) => k[4] = 0
  <2>1. IsKey(k, t1, u1)
    BY SlotKey
  <2> QED
    BY <2>1 DEF IsKey
<1>2. /\ u2 \in Nat \X Nat \X Nat
      /\ l[1] = t2 /\ l[2] = u2[1] /\ l[3] = u2[2] /\ l[4] = u2[3] /\ Tail(l) = u2
      /\ DslKey(l) => l[4] = 0
  <2>1. IsKey(l, t2, u2)
    BY SlotKey
  <2> QED
    BY <2>1 DEF IsKey
<1>3. t1 \in Nat /\ t2 \in Nat
  BY LenProperties
<1>4. KeyBefore(k, l)
  BY <1>1, <1>2 DEF KeyBefore
<1>5. ASSUME DslKey(k), DslKey(l)
      PROVE  Before(<<t1, u1[1], u1[2]>>, <<t2, u2[1], u2[2]>>)
  <2>1. u1[3] = 0 /\ u2[3] = 0
    BY <1>1, <1>5, <1>2
  <2> QED
    BY <2>1, <1>1, <1>3, <1>2 DEF Before
<1> QED
  BY <1>1, <1>4, <1>5, <1>2

\* A worker with slots left goes on with the first.
LEMMA FirstSlot ==
    ASSUME ShapeInv, NEW t \in DOMAIN templates, todo[t] # {}
    PROVE  /\ Slot(t) \in todo[t] /\ Slot(t) \in Slots(templates[t])
           /\ \A v \in todo[t] : v = Slot(t) \/ Before(Slot(t), v)
<1>1. templates[t] \in Seq(Seq(Matcher))
  BY LenProperties, ElementOfSeq DEF ShapeInv
<1>2. todo[t] \subseteq Slots(templates[t])
  BY DEF ShapeInv
<1>3. todo[t] \in SUBSET (Nat \X Nat \X Nat)
  BY <1>1, <1>2, SlotsOfTemplate
<1>4. \E s \in todo[t] : \A v \in todo[t] : v = s \/ Before(s, v)
  BY <1>3, LeastSlot
<1> QED
  BY <1>2, <1>4 DEF Slot

\* What a step of a worker does to the slots it has visited.
LEMMA VisitedGrows ==
    ASSUME ShapeInv, BatchInv, NEW t \in DOMAIN templates, Visit(t), NEW key, key = <<t>> \o Slot(t)
    PROVE  /\ templates' = templates
           /\ todo' = [s \in DOMAIN templates |-> IF s = t THEN todo[t] \ {Slot(t)} ELSE todo[s]]
           /\ VisitedKeys(t)' = VisitedKeys(t) \cup {key}
           /\ \A u \in Visited(t)' : ~Malformed(t, u) /\ \A v \in todo'[t] : Before(u, v)
           /\ \A k \in VisitedKeys(t), l \in {key} :
                 /\ KeyBefore(k, l)
                 /\ DslKey(k) /\ DslKey(l) => Before(<<k[1], k[2], k[3]>>, <<l[1], l[2], l[3]>>)
<1>1. todo[t] # {} /\ ~Malformed(t, Slot(t)) /\ templates' = templates
  BY DEF Visit
<1>2. /\ Slot(t) \in todo[t] /\ Slot(t) \in Slots(templates[t])
      /\ \A v \in todo[t] : v = Slot(t) \/ Before(Slot(t), v)
  BY <1>1, FirstSlot
<1>3. todo' = [s \in DOMAIN templates |-> IF s = t THEN todo[t] \ {Slot(t)} ELSE todo[s]]
  <2>1. todo = [s \in DOMAIN templates |-> todo[s]]
    BY DEF ShapeInv
  <2>2. todo' = [todo EXCEPT ![t] = todo[t] \ {Slot(t)}]
    BY DEF Visit
  <2> QED
    BY <2>1, <2>2
<1>4. todo'[t] = todo[t] \ {Slot(t)}
  BY <1>3
<1>5. Visited(t)' = Visited(t) \cup {Slot(t)}
  BY <1>1, <1>2, <1>4 DEF Visited
<1>6. VisitedKeys(t)' = VisitedKeys(t) \cup {key}
  BY <1>5 DEF VisitedKeys
<1>7. \A u \in Visited(t) : ~Malformed(t, u) /\ \A v \in todo[t] : Before(u, v)
  BY DEF BatchInv, BatchOK
<1>8. \A u \in Visited(t)' : ~Malformed(t, u) /\ \A v \in todo'[t] : Before(u, v)
  BY <1>1, <1>2, <1>4, <1>5, <1>7
<1>9. ASSUME NEW k \in VisitedKeys(t)
      PROVE  /\ KeyBefore(k, key)
             /\ DslKey(k) /\ DslKey(key) => Before(<<k[1], k[2], k[3]>>, <<key[1], key[2], key[3]>>)
  <2>1. PICK u \in Visited(t) : k = <<t>> \o u
    BY DEF VisitedKeys
  <2>2. u \in Slots(templates[t]) /\ Before(u, Slot(t))
    BY <1>2, <1>7 DEF Visited
  <2> QED
    BY <2>1, <2>2, <1>2, KeyOrder DEF ShapeInv
<1> QED
  BY <1>1, <1>3, <1>6, <1>8, <1>9

\* A step of a worker leaves the invariant if the batch holds the slot visited.
LEMMA VisitKeeps ==
    ASSUME IInv, NEW t \in DOMAIN templates, Visit(t), NEW key, key = <<t>> \o Slot(t),
           NEW b, IsBatch(b), batches' = [batches EXCEPT ![t] = b],
           RefsHold(b.patterns, b.refs, VisitedKeys(t) \cup {key}),
           DslHold(b.dsl, VisitedKeys(t) \cup {key})
    PROVE  IInv'
<1> USE DEF IInv
<1>1. /\ templates' = templates
      /\ todo' = [s \in DOMAIN templates |-> IF s = t THEN todo[t] \ {Slot(t)} ELSE todo[s]]
      /\ VisitedKeys(t)' = VisitedKeys(t) \cup {key}
      /\ \A u \in Visited(t)' : ~Malformed(t, u) /\ \A v \in todo'[t] : Before(u, v)
  BY VisitedGrows
<1>2. batches' = [s \in DOMAIN templates |-> IF s = t THEN b ELSE batches[s]]
  BY DEF ShapeInv
<1>3. /\ phase = "collect" /\ todo[t] # {}
      /\ UNCHANGED <<phase, error, merged, patterns, refs, dsl_matchers>>
  BY DEF Visit, merging
<1>4. ShapeInv'
  BY <1>1, <1>2, <1>3 DEF ShapeInv
<1>5. BatchInv'
  <2> SUFFICES ASSUME NEW s \in DOMAIN templates
               PROVE  BatchOK(s)'
    BY <1>1 DEF BatchInv
  <2>1. CASE s = t
    <3>1. batches'[s] = b
      BY <2>1, <1>2
    <3>2. PICK K : K = VisitedKeys(t) \cup {key}
      OBVIOUS
    <3>3. RefsHold(b.patterns, b.refs, K)' /\ DslHold(b.dsl, K)'
      BY <3>2, <1>1, SameTemplates
    <3>4. \A u \in Visited(t)' : ~Malformed(t, u)'
      BY <1>1, SameTemplates
    <3> QED
      BY <2>1, <3>1, <3>2, <3>3, <3>4, <1>1 DEF BatchOK
  <2>2. CASE s # t
    <3>1. batches'[s] = batches[s] /\ todo'[s] = todo[s]
      BY <2>2, <1>1, <1>2
    <3>2. Visited(s)' = Visited(s) /\ VisitedKeys(s)' = VisitedKeys(s)
      BY <3>1, <1>1 DEF Visited, VisitedKeys
    <3>3. BatchOK(s)
      BY DEF BatchInv
    <3> QED
      BY <3>1, <3>2, <3>3, <1>1, SameTemplates DEF BatchOK
  <2> QED
    BY <2>1, <2>2
<1>6. MergeInv'
  <2>1. MergedKeys' = MergedKeys
    BY <1>1, <1>3, SameTemplates DEF MergedKeys
  <2> QED
    BY <2>1, <1>1, <1>3, SameTemplates DEF MergeInv
<1>7. PhaseInv'
  <2>1. ~(merged > 0)
    BY <1>3 DEF PhaseInv, Collected
  <2> QED
    BY <2>1, <1>3 DEF PhaseInv
<1>8. ErrorInv'
  BY <1>1, <1>3 DEF ErrorInv
<1> QED
  BY <1>4, <1>5, <1>6, <1>7, <1>8

\* The lists of a batch when a slot brings nothing for them.
LEMMA RefsSkip ==
    ASSUME NEW arena, NEW rs, NEW K, RefsHold(arena, rs, K), NEW key, ~RefKey(key)
    PROVE  RefsHold(arena, rs, K \cup {key})
  BY DEF RefsHold

\* The DSL matchers of a batch when a slot is no DSL matcher.
LEMMA DslSkip ==
    ASSUME NEW ds, NEW K, DslHold(ds, K), NEW key, ~DslKey(key)
    PROVE  DslHold(ds, K \cup {key})
  BY DEF DslHold

\* CollectDsl adds the DSL matcher to the batch, after those visited before.
LEMMA CollectDslKeeps ==
    ASSUME IInv, NEW t \in DOMAIN templates, CollectDsl(t)
    PROVE  IInv'
<1>1. Visit(t) /\ IsDsl(t, Slot(t))
  BY DEF CollectDsl
<1>2. ShapeInv /\ BatchInv /\ templates \in Seq(Seq(Seq(Matcher)))
  BY DEF IInv, ShapeInv
<1>3. Slot(t) \in Slots(templates[t])
  BY <1>1, <1>2, FirstSlot DEF Visit
<1>4. PICK key : key = <<t>> \o Slot(t)
  OBVIOUS
<1>5. PICK at : at = <<t, Slot(t)[1], Slot(t)[2]>>
  OBVIOUS
<1>6. PICK old : old = batches[t]
  OBVIOUS
<1>7. DslKey(key) /\ ~RefKey(key) /\ at = <<key[1], key[2], key[3]>>
  <2>1. IsKey(key, t, Slot(t))
    BY <1>2, <1>3, <1>4, SlotKey
  <2> QED
    BY <2>1, <1>1, <1>5 DEF IsKey
<1>8. /\ IsBatch(old)
      /\ RefsHold(old.patterns, old.refs, VisitedKeys(t))
      /\ DslHold(old.dsl, VisitedKeys(t))
  BY <1>2, <1>6 DEF ShapeInv, BatchInv, BatchOK
<1>9. PICK dsl : dsl = old.dsl
  OBVIOUS
<1>10. IsSeq(dsl) /\ Append(dsl, at) = dsl \o <<at>> /\ IsSeq(<<at>>)
  BY <1>8, <1>9, AppendJoins DEF IsBatch
<1>11. IsSeq(dsl \o <<at>>)
  BY <1>10, JoinElements DEF IsJoin
<1>12. \A k \in VisitedKeys(t), l \in {key} : DslKey(k) /\ DslKey(l) =>
          Before(<<k[1], k[2], k[3]>>, <<l[1], l[2], l[3]>>)
  BY <1>1, <1>2, <1>4, VisitedGrows
<1>13. DslHold(<<at>>, {key})
  <2>1. DOMAIN <<at>> = {1} /\ <<at>>[1] = at
    OBVIOUS
  <2>2. \A i \in {1} : \E k \in {key} : DslKey(k) /\ at = <<k[1], k[2], k[3]>>
    BY <1>7
  <2>3. \A k \in {key} : DslKey(k) => \E i \in {1} : at = <<k[1], k[2], k[3]>>
    BY <1>7
  <2> QED
    BY <2>1, <2>2, <2>3 DEF DslHold
<1>14. DslHold(dsl \o <<at>>, VisitedKeys(t) \cup {key})
  BY <1>8, <1>9, <1>10, <1>12, <1>13, DslJoin
<1>15. RefsHold(old.patterns, old.refs, VisitedKeys(t) \cup {key})
  BY <1>7, <1>8, RefsSkip
<1>16. PICK b : b = [patterns |-> old.patterns, refs |-> old.refs, dsl |-> Append(old.dsl, at)]
  OBVIOUS
<1>17. b.patterns = old.patterns /\ b.refs = old.refs /\ b.dsl = dsl \o <<at>>
  BY <1>9, <1>10, <1>16
<1>18. IsBatch(b)
  BY <1>8, <1>11, <1>16, <1>17 DEF IsBatch
<1>19. batches' = [batches EXCEPT ![t] = b]
  <2>1. batches' = [batches EXCEPT ![t] = [old EXCEPT !.dsl = Append(old.dsl, at)]]
    BY <1>5, <1>6 DEF CollectDsl
  <2>2. [old EXCEPT !.dsl = Append(old.dsl, at)] = b
    <3>1. old = [patterns |-> old.patterns, refs |-> old.refs, dsl |-> old.dsl]
      BY <1>8 DEF IsBatch
    <3>2. PICK arena, rs, ds, new : /\ arena = old.patterns /\ rs = old.refs
                                    /\ ds = old.dsl /\ new = Append(old.dsl, at)
      OBVIOUS
    <3>3. old = [patterns |-> arena, refs |-> rs, dsl |-> ds]
      BY <3>1, <3>2
    <3>4. [old EXCEPT !.dsl = new] = [patterns |-> arena, refs |-> rs, dsl |-> new]
      BY <3>3
    <3> QED
      BY <3>2, <3>4, <1>16
  <2> QED
    BY <2>1, <2>2
<1> QED
  BY <1>1, <1>4, <1>14, <1>15, <1>17, <1>18, <1>19, VisitKeeps

\* SkipEmpty visits a slot that brings nothing.
LEMMA SkipEmptyKeeps ==
    ASSUME IInv, NEW t \in DOMAIN templates, SkipEmpty(t)
    PROVE  IInv'
<1> DEFINE key == <<t>> \o Slot(t)
<1>1. Visit(t) /\ Skipped(t, Slot(t)) /\ batches' = batches
  BY DEF SkipEmpty
<1>2. ShapeInv /\ BatchInv /\ templates \in Seq(Seq(Seq(Matcher)))
  BY DEF IInv, ShapeInv
<1>3. Slot(t) \in Slots(templates[t])
  BY <1>1, <1>2, FirstSlot DEF Visit
<1>4. ~DslKey(key) /\ ~RefKey(key)
  <2>1. ~IsDsl(t, Slot(t))
    BY <1>1 DEF Skipped, IsDsl
  <2>2. IsKey(key, t, Slot(t))
    BY <1>2, <1>3, SlotKey
  <2> QED
    BY <2>1, <2>2, <1>1 DEF IsKey
<1>5. /\ IsBatch(batches[t])
      /\ RefsHold(batches[t].patterns, batches[t].refs, VisitedKeys(t))
      /\ DslHold(batches[t].dsl, VisitedKeys(t))
  BY <1>2 DEF ShapeInv, BatchInv, BatchOK
<1>6. /\ RefsHold(batches[t].patterns, batches[t].refs, VisitedKeys(t) \cup {key})
      /\ DslHold(batches[t].dsl, VisitedKeys(t) \cup {key})
  BY <1>4, <1>5, RefsSkip, DslSkip
<1>7. batches' = [batches EXCEPT ![t] = batches[t]]
  BY <1>1, <1>2 DEF ShapeInv
<1> HIDE DEF key
<1> QED
  BY <1>1, <1>5, <1>6, <1>7, VisitKeeps DEF key

\* CollectValue interns a text and makes a reference to it: a list of one,
\* joined to the lists of the batch.
LEMMA CollectValueKeeps ==
    ASSUME IInv, NEW t \in DOMAIN templates, CollectValue(t)
    PROVE  IInv'
<1>1. Visit(t) /\ ~IsDsl(t, Slot(t)) /\ ~Skipped(t, Slot(t))
  BY DEF CollectValue
<1>2. ShapeInv /\ BatchInv /\ templates \in Seq(Seq(Seq(Matcher)))
  BY DEF IInv, ShapeInv
<1>3. Slot(t) \in Slots(templates[t])
  BY <1>1, <1>2, FirstSlot DEF Visit
<1>4. PICK key : key = <<t>> \o Slot(t)
  OBVIOUS
<1>5. PICK old : old = batches[t]
  OBVIOUS
<1>6. PICK texts : texts = Interned(Def(t, Slot(t)).kind, Value(t, Slot(t)))
  OBVIOUS
<1>7. PICK arena : arena = old.patterns \o texts
  OBVIOUS
<1>8. PICK ref : ref = NewRef(t, Slot(t), Len(arena) - 1)
  OBVIOUS
<1>9. PICK alone : alone = NewRef(t, Slot(t), Len(texts) - 1)
  OBVIOUS
<1>10. /\ ~DslKey(key) /\ RefKey(key) /\ key[1] = t /\ Tail(key) = Slot(t)
       /\ TextAt(key) = IF Def(t, Slot(t)).kind = "Regex"
                        THEN RuntimeText(Value(t, Slot(t))) ELSE Value(t, Slot(t))
  <2>1. IsKey(key, t, Slot(t))
    BY <1>2, <1>3, <1>4, SlotKey
  <2> QED
    BY <2>1, <1>1 DEF IsKey
<1>11. /\ IsBatch(old)
       /\ RefsHold(old.patterns, old.refs, VisitedKeys(t))
       /\ DslHold(old.dsl, VisitedKeys(t))
       /\ IsSeq(old.patterns) /\ IsSeq(old.refs) /\ IsSeq(old.dsl)
  BY <1>2, <1>5 DEF ShapeInv, BatchInv, BatchOK, IsBatch
<1>12. IsSeq(texts) /\ Len(texts) \in {1, 2} /\ texts[Len(texts)] = TextAt(key)
  <2>1. PICK v, w : v = Value(t, Slot(t)) /\ w = RuntimeText(Value(t, Slot(t)))
    OBVIOUS
  <2>2. /\ <<v, w>> \in Seq({v, w}) /\ Len(<<v, w>>) = 2 /\ <<v, w>>[2] = w
        /\ <<v>> \in Seq({v}) /\ Len(<<v>>) = 1 /\ <<v>>[1] = v
    OBVIOUS
  <2>3. IsSeq(<<v, w>>) /\ IsSeq(<<v>>)
    BY <2>2, SeqIsSeq
  <2>4. texts = IF Def(t, Slot(t)).kind = "Regex" /\ w # v THEN <<v, w>> ELSE <<v>>
    BY <2>1, <1>6 DEF Interned
  <2>5. TextAt(key) = IF Def(t, Slot(t)).kind = "Regex" THEN w ELSE v
    BY <2>1, <1>10
  <2> QED
    BY <2>2, <2>3, <2>4, <2>5
<1>13. /\ alone.key = key /\ alone.pattern_index = Len(texts) - 1
       /\ ref.key = key /\ ref.pattern_index = Len(arena) - 1
       /\ alone = NewRef(key[1], Tail(key), alone.pattern_index)
       /\ ref = NewRef(key[1], Tail(key), ref.pattern_index)
  <2>1. /\ alone.key = key /\ alone.pattern_index = Len(texts) - 1
        /\ ref.key = key /\ ref.pattern_index = Len(arena) - 1
    BY <1>4, <1>8, <1>9 DEF NewRef
  <2> QED
    BY <2>1, <1>8, <1>9, <1>10
<1>14. /\ IsSeq(arena)
       /\ Len(old.patterns) \in Nat /\ Len(arena) = Len(old.patterns) + Len(texts)
  BY <1>7, <1>11, <1>12, JoinElements DEF IsJoin
<1>15. /\ Append(old.refs, ref) = old.refs \o <<ref>>
       /\ IsSeq(<<ref>>) /\ IsSeq(<<alone>>)
  BY <1>11, AppendJoins
<1>16. IsSeq(old.refs \o <<ref>>)
  BY <1>11, <1>15, JoinElements DEF IsJoin
<1>17. RefsHold(texts, <<alone>>, {key})
  <2>1. DOMAIN <<alone>> = {1} /\ <<alone>>[1] = alone
    OBVIOUS
  <2>2. alone.pattern_index \in 0..Len(texts) - 1
    <3>1. Len(texts) - 1 \in 0..Len(texts) - 1
      BY <1>12
    <3> QED
      BY <3>1, <1>13
  <2>3. texts[alone.pattern_index + 1] = TextAt(key)
    <3>1. alone.pattern_index + 1 = Len(texts)
      BY <1>12, <1>13
    <3> QED
      BY <3>1, <1>12
  <2> QED
    BY <2>1, <2>2, <2>3, <1>10, <1>13 DEF RefsHold
<1>18. Moved(<<ref>>, <<alone>>, Len(old.patterns), Len(old.patterns) + Len(texts))
  <2>1. DOMAIN <<alone>> = {1} /\ DOMAIN <<ref>> = {1} /\ <<alone>>[1] = alone /\ <<ref>>[1] = ref
    OBVIOUS
  <2>2. /\ ref.pattern_index \in 0..(Len(old.patterns) + Len(texts)) - 1
        /\ ref.pattern_index = alone.pattern_index + Len(old.patterns)
    <3>1. Len(arena) - 1 \in 0..(Len(old.patterns) + Len(texts)) - 1
      <4>1. PICK m, n : m = Len(old.patterns) /\ n = Len(texts)
        OBVIOUS
      <4>2. m \in Nat /\ n \in Nat /\ n >= 1 /\ Len(arena) = m + n
        BY <4>1, <1>12, <1>14
      <4>3. (m + n) - 1 \in 0..(m + n) - 1
        BY <4>2
      <4> QED
        BY <4>1, <4>2, <4>3
    <3>2. Len(arena) - 1 = (Len(texts) - 1) + Len(old.patterns)
      BY <1>12, <1>14
    <3> QED
      BY <3>1, <3>2, <1>13
  <2> QED
    BY <2>1, <2>2, <1>13 DEF Moved
<1>19. \A k \in VisitedKeys(t), l \in {key} : KeyBefore(k, l)
  BY <1>1, <1>2, <1>4, VisitedGrows
<1>20. RefsHold(arena, Append(old.refs, ref), VisitedKeys(t) \cup {key})
  <2>1. PICK a1, r1, K1 : a1 = old.patterns /\ r1 = old.refs /\ K1 = VisitedKeys(t)
    OBVIOUS
  <2>2. PICK r2, r3, K2 : r2 = <<alone>> /\ r3 = <<ref>> /\ K2 = {key}
    OBVIOUS
  <2>3. IsSeq(a1) /\ IsSeq(r1) /\ RefsHold(a1, r1, K1)
    BY <2>1, <1>11
  <2>4. IsSeq(r2) /\ RefsHold(texts, r2, K2)
    BY <2>2, <1>15, <1>17
  <2>5. IsSeq(r3) /\ Moved(r3, r2, Len(a1), Len(a1) + Len(texts))
    BY <2>1, <2>2, <1>15, <1>18
  <2>6. \A k \in K1, l \in K2 : KeyBefore(k, l)
    BY <2>1, <2>2, <1>19
  <2>7. RefsHold(a1 \o texts, r1 \o r3, K1 \cup K2)
    BY <2>3, <2>4, <2>5, <2>6, <1>12, RefsJoin
  <2> QED
    BY <2>1, <2>2, <2>7, <1>7, <1>15
<1>21. DslHold(old.dsl, VisitedKeys(t) \cup {key})
  BY <1>10, <1>11, DslSkip
<1>22. PICK b : b = [patterns |-> arena, refs |-> Append(old.refs, ref), dsl |-> old.dsl]
  OBVIOUS
<1>23. IsBatch(b)
  BY <1>11, <1>14, <1>15, <1>16, <1>22 DEF IsBatch
<1>24. batches' = [batches EXCEPT ![t] = b]
  <2>1. batches' = [batches EXCEPT ![t].patterns = arena, ![t].refs = Append(@, ref)]
    BY <1>5, <1>6, <1>7, <1>8 DEF CollectValue
  <2>2. [batches EXCEPT ![t].patterns = arena, ![t].refs = Append(@, ref)]
           = [batches EXCEPT ![t] = [old EXCEPT !.patterns = arena, !.refs = Append(old.refs, ref)]]
    BY <1>2, <1>5, <1>11 DEF ShapeInv, IsBatch
  <2>3. [old EXCEPT !.patterns = arena, !.refs = Append(old.refs, ref)] = b
    <3>1. PICK p, q, r : p = old.patterns /\ q = old.refs /\ r = old.dsl
      OBVIOUS
    <3>2. PICK x : x = Append(old.refs, ref)
      OBVIOUS
    <3>3. old = [patterns |-> p, refs |-> q, dsl |-> r]
      BY <3>1, <1>11 DEF IsBatch
    <3>4. PICK y : y = [old EXCEPT !.patterns = arena]
      OBVIOUS
    <3>5. y = [patterns |-> arena, refs |-> q, dsl |-> r]
      BY <3>3, <3>4
    <3>6. [y EXCEPT !.refs = x] = [patterns |-> arena, refs |-> x, dsl |-> r]
      BY <3>5
    <3>7. [old EXCEPT !.patterns = arena, !.refs = x] = [y EXCEPT !.refs = x]
      BY <3>4
    <3> QED
      BY <3>1, <3>2, <3>6, <3>7, <1>22
  <2> QED
    BY <2>1, <2>2, <2>3
<1>25. b.patterns = arena /\ b.refs = Append(old.refs, ref) /\ b.dsl = old.dsl
  BY <1>22
<1> QED
  BY <1>1, <1>4, <1>20, <1>21, <1>23, <1>24, <1>25, VisitKeeps

-----------------------------------------------------------------------------
\* Failing and starting over.

\* What an error may name depends on the templates and the batches alone.
LEMMA SameBlame ==
    ASSUME UNCHANGED <<templates, batches>>
    PROVE  \A t : Blamed(t)' <=> Blamed(t)
<1>1. \A t, s : OverLimit(t, s)' <=> OverLimit(t, s)
  BY DEF OverLimit, ArenaFull, IsDsl, Skipped, Def, Value
<1>2. \A t, s : Malformed(t, s)' <=> Malformed(t, s)
  BY DEF Malformed, IsDsl, Skipped, Def, Value
<1>3. \A t : Faults(t)' = Faults(t)
  BY <1>1, <1>2 DEF Faults
<1>4. WantedDsl' = WantedDsl
  BY DEF WantedDsl, DslMatchers, DslValues, DslDef, IsDsl, Def
<1> QED
  BY <1>3, <1>4 DEF Blamed

\* The invariant of the workers and the merge is about what collecting and
\* merging change.
LEMMA SameCollection ==
    ASSUME ShapeInv, BatchInv, MergeInv, phase' \in Phases,
           UNCHANGED <<templates, collecting, merging>>
    PROVE  ShapeInv' /\ BatchInv' /\ MergeInv'
<1>1. UNCHANGED <<todo, batches, merged, patterns, refs, dsl_matchers>>
  BY DEF collecting, merging
<1>2. ShapeInv'
  BY <1>1 DEF ShapeInv
<1>3. \A t : Visited(t)' = Visited(t) /\ VisitedKeys(t)' = VisitedKeys(t)
  BY <1>1 DEF Visited, VisitedKeys
<1>4. ASSUME NEW t \in DOMAIN templates
      PROVE  BatchOK(t)'
  <2>1. BatchOK(t)
    BY DEF BatchInv
  <2> QED
    BY <2>1, <1>1, <1>3, SameTemplates DEF BatchOK
<1>5. MergedKeys' = MergedKeys
  BY <1>1, SameTemplates DEF MergedKeys
<1>6. MergeInv'
  BY <1>1, <1>5, SameTemplates DEF MergeInv
<1> QED
  BY <1>2, <1>4, <1>6 DEF BatchInv

\* A failure leaves what was built alone, and blames a template at fault or none.
LEMMA FailKeeps ==
    ASSUME IInv, NEW kind, NEW t \in 0..Len(templates), t # 0 => Blamed(t), Fail(kind, t)
    PROVE  IInv'
<1>1. /\ UNCHANGED <<templates, batches, todo, merged>>
      /\ UNCHANGED <<templates, collecting, merging>>
      /\ phase' = "failed" /\ error'.template = t
  BY DEF Fail, collecting, merging
<1>2. ShapeInv' /\ BatchInv' /\ MergeInv'
  BY <1>1, SameCollection DEF IInv, Phases
<1>3. PhaseInv'
  BY <1>1 DEF IInv, PhaseInv, Collected
<1>4. ErrorInv'
  BY <1>1, SameBlame DEF ErrorInv
<1> QED
  BY <1>2, <1>3, <1>4 DEF IInv

\* Nothing is collected from no keys.
LEMMA NothingHeld ==
    /\ IsSeq(<<>>) /\ <<>> = [i \in {} |-> <<>>[i]] /\ DOMAIN <<>> = {} /\ Len(<<>>) = 0
    /\ RefsHold(<<>>, <<>>, {}) /\ DslHold(<<>>, {})
    /\ IsBatch(EmptyBatch)
<1>1. IsSeq(<<>>) /\ Len(<<>>) = 0
  BY EmptySeq, SeqIsSeq
<1>2. DOMAIN <<>> = {} /\ <<>> = [i \in {} |-> <<>>[i]]
  <2>1. DOMAIN <<>> = 1..0 /\ <<>> = [i \in 1..0 |-> <<>>[i]] /\ 1..0 = {}
    BY <1>1, SeqDomain
  <2> QED
    BY <2>1
<1>3. RefsHold(<<>>, <<>>, {}) /\ DslHold(<<>>, {})
  BY <1>2 DEF RefsHold, DslHold
<1>4. IsBatch(EmptyBatch)
  BY <1>1 DEF IsBatch, EmptyBatch
<1> QED
  BY <1>1, <1>2, <1>3, <1>4

\* Before the first compilation nothing is collected or merged.
LEMMA InitHolds == Init => IInv
<1> SUFFICES ASSUME Init PROVE IInv
  OBVIOUS
<1>1. DOMAIN templates = {} /\ Len(templates) = 0
  BY NothingHeld DEF Init
<1>2. ShapeInv
  <2>1. templates \in Seq(Seq(Seq(Matcher)))
    BY EmptySeq DEF Init
  <2>2. todo = [t \in DOMAIN templates |-> todo[t]] /\ batches = [t \in DOMAIN templates |-> batches[t]]
    BY <1>1, NothingHeld DEF Init
  <2> QED
    BY <1>1, <2>1, <2>2, NothingHeld DEF Init, ShapeInv, Phases
<1>3. BatchInv
  BY <1>1 DEF BatchInv
<1>4. MergeInv
  <2>1. MergedKeys = {}
    BY DEF MergedKeys, Init
  <2> QED
    BY <2>1, NothingHeld DEF MergeInv, Init
<1>5. PhaseInv
  BY DEF Init, PhaseInv
<1>6. ErrorInv
  BY <1>1 DEF Init, ErrorInv, NoError
<1> QED
  BY <1>2, <1>3, <1>4, <1>5, <1>6 DEF IInv

\* Compile starts over, with empty batches and nothing merged.
LEMMA CompileKeeps ==
    ASSUME NEW slice \in TemplateSets, Compile(slice)
    PROVE  IInv'
<1> USE DEF Compile
<1>1. slice \in Seq(Seq(Seq(Matcher))) /\ Len(slice) \in Nat
  BY TemplateAssumption, LenProperties
<1>2. phase' \in {"failed", "collect"} /\ error'.template = 0
  BY DEF NoError
<1>3. ShapeInv'
  BY <1>1, <1>2, NothingHeld DEF ShapeInv, Phases
<1>4. ASSUME NEW t \in DOMAIN slice
      PROVE  BatchOK(t)'
  <2>1. Visited(t)' = {}
    BY DEF Visited
  <2>2. VisitedKeys(t)' = {}
    BY <2>1 DEF VisitedKeys
  <2>3. /\ batches'[t].patterns = <<>> /\ batches'[t].refs = <<>> /\ batches'[t].dsl = <<>>
    BY DEF EmptyBatch
  <2>4. RefsHold(<<>>, <<>>, {})' /\ DslHold(<<>>, {})'
    BY NothingHeld DEF RefsHold, DslHold
  <2> QED
    BY <2>1, <2>2, <2>3, <2>4 DEF BatchOK
<1>5. MergeInv'
  <2>1. MergedKeys' = {}
    BY DEF MergedKeys
  <2>2. RefsHold(<<>>, <<>>, {})' /\ DslHold(<<>>, {})'
    BY NothingHeld DEF RefsHold, DslHold
  <2> QED
    BY <2>1, <2>2 DEF MergeInv
<1>6. PhaseInv'
  BY <1>2 DEF PhaseInv
<1>7. ErrorInv'
  BY <1>1, <1>2 DEF ErrorInv
<1> QED
  BY <1>3, <1>4, <1>5, <1>6, <1>7 DEF IInv, BatchInv

\* Reject fails on the slot its worker has come to.
LEMMA RejectKeeps ==
    ASSUME IInv, NEW t \in DOMAIN templates, Reject(t)
    PROVE  IInv'
<1>1. Slot(t) \in Slots(templates[t])
  BY FirstSlot DEF IInv, Reject
<1>2. PICK kind : Fail(kind, t) /\ (OverLimit(t, Slot(t)) \/ Malformed(t, Slot(t)))
  BY DEF Reject
<1>3. Blamed(t)
  BY <1>1, <1>2 DEF Blamed, Faults
<1>4. t \in 0..Len(templates)
  BY LenProperties DEF IInv, ShapeInv
<1> QED
  BY <1>2, <1>3, <1>4, FailKeeps

-----------------------------------------------------------------------------
\* Merging.

\* A worker that has ended has visited every slot of its template.
LEMMA VisitedAll ==
    ASSUME NEW t \in DOMAIN templates, todo[t] = {}
    PROVE  VisitedKeys(t) = KeysOf(t)
BY DEF VisitedKeys, KeysOf, Visited

\* Indices of an arena of n texts moved by m in an addition modulo w.
LEMMA WrappedSum ==
    ASSUME NEW i \in Nat, NEW n \in Nat, i \in 0..n - 1, NEW m \in Nat, NEW w \in Nat \ {0}
    PROVE  /\ (i + m) % w \in 0..(m + n) - 1
           /\ m + n <= w => (i + m) % w = i + m
<1>1. (i + m) % w \in 0..w - 1
  OBVIOUS
<1>2. i + m < w => (i + m) % w = i + m
  OBVIOUS
<1> QED
  BY <1>1, <1>2

\* Shifted moves the references of a batch by its offset.
LEMMA ShiftedIsMoved ==
    ASSUME NEW b, IsBatch(b), NEW K, RefsHold(b.patterns, b.refs, K), NEW m \in Nat
    PROVE  IsSeq(Shifted(b, m)) /\ Moved(Shifted(b, m), b.refs, m, m + Len(b.patterns))
<1>1. PICK rs, n, s : rs = b.refs /\ n = Len(b.patterns) /\ s = Shifted(b, m)
  OBVIOUS
<1>2. n \in Nat /\ Len(rs) \in Nat /\ DOMAIN rs = 1..Len(rs)
  BY <1>1, SeqDomain DEF IsBatch
<1>3. s = [i \in DOMAIN rs |->
             [rs[i] EXCEPT !.pattern_index = (rs[i].pattern_index + m) % (U32Max + 1)]]
  BY <1>1 DEF Shifted
<1>4. DOMAIN s = DOMAIN rs /\ s = [i \in 1..Len(rs) |-> s[i]]
  BY <1>2, <1>3
<1>5. IsSeq(s)
  BY <1>2, <1>4, FunctionIsSeq
<1>6. ASSUME NEW i \in DOMAIN rs
      PROVE  /\ s[i].key = rs[i].key
             /\ s[i] = NewRef(rs[i].key[1], Tail(rs[i].key), s[i].pattern_index)
             /\ s[i].pattern_index \in 0..(m + n) - 1
             /\ m + n <= U32Max + 1 => s[i].pattern_index = rs[i].pattern_index + m
  <2>1. PICK k, j, x : k = rs[i].key /\ j = rs[i].pattern_index /\ x = (j + m) % (U32Max + 1)
    OBVIOUS
  <2>2. rs[i] = NewRef(k[1], Tail(k), j) /\ j \in 0..n - 1 /\ j \in Nat
    BY <2>1, <1>1, <1>2 DEF RefsHold
  <2>3. s[i] = [rs[i] EXCEPT !.pattern_index = x]
    BY <2>1, <1>3
  <2>4. s[i] = NewRef(k[1], Tail(k), x) /\ s[i].pattern_index = x /\ s[i].key = rs[i].key
    <3>1. PICK e : e = EntryData(Def(k[1], Tail(k)).kind, Value(k[1], Tail(k)))
      OBVIOUS
    <3>2. PICK d : d = Def(k[1], Tail(k))
      OBVIOUS
    <3>3. \A y : NewRef(k[1], Tail(k), y)
                  = [key |-> <<k[1]>> \o Tail(k), kind |-> d.kind, part |-> d.part,
                     negative |-> d.negative, pattern_index |-> y, data |-> e]
      BY <3>1, <3>2 DEF NewRef
    <3>4. PICK f, kind, part, negative :
             f = <<k[1]>> \o Tail(k) /\ kind = d.kind /\ part = d.part /\ negative = d.negative
      OBVIOUS
    <3>5. rs[i] = [key |-> f, kind |-> kind, part |-> part, negative |-> negative,
                   pattern_index |-> j, data |-> e]
      BY <2>2, <3>3, <3>4
    <3>6. s[i] = [key |-> f, kind |-> kind, part |-> part, negative |-> negative,
                  pattern_index |-> x, data |-> e]
      BY <2>3, <3>5
    <3>7. s[i] = NewRef(k[1], Tail(k), x)
      BY <3>3, <3>4, <3>6
    <3> QED
      BY <3>5, <3>6, <3>7
  <2>5. x \in 0..(m + n) - 1 /\ (m + n <= U32Max + 1 => x = j + m)
    <3>1. PICK w : w = U32Max + 1
      OBVIOUS
    <3>2. w \in Nat \ {0}
      BY <3>1, LimitAssumption
    <3>3. /\ (j + m) % w \in 0..(m + n) - 1
          /\ m + n <= w => (j + m) % w = j + m
      BY <3>2, <2>2, <1>2, WrappedSum
    <3> QED
      BY <3>1, <3>3, <2>1
  <2> QED
    BY <2>1, <2>4, <2>5
<1> QED
  BY <1>1, <1>4, <1>5, <1>6 DEF Moved

\* The keys merged come before those of the next template.
LEMMA MergedGrows ==
    ASSUME ShapeInv, merged < Len(templates), merged' = merged + 1, templates' = templates
    PROVE  /\ MergedKeys' = MergedKeys \cup KeysOf(merged + 1)
           /\ \A k \in MergedKeys, l \in KeysOf(merged + 1) :
                 /\ KeyBefore(k, l)
                 /\ DslKey(k) /\ DslKey(l) => Before(<<k[1], k[2], k[3]>>, <<l[1], l[2], l[3]>>)
<1>1. merged \in Nat /\ 1..merged + 1 = 1..merged \cup {merged + 1}
  BY LenProperties DEF ShapeInv
<1>2. MergedKeys' = MergedKeys \cup KeysOf(merged + 1)
  <2>1. MergedKeys' = UNION {KeysOf(t) : t \in 1..merged + 1}
    BY SameTemplates DEF MergedKeys
  <2> QED
    BY <2>1, <1>1 DEF MergedKeys
<1>3. ASSUME NEW k \in MergedKeys, NEW l \in KeysOf(merged + 1)
      PROVE  /\ KeyBefore(k, l)
             /\ DslKey(k) /\ DslKey(l) => Before(<<k[1], k[2], k[3]>>, <<l[1], l[2], l[3]>>)
  <2>1. PICK t \in 1..merged : k \in KeysOf(t)
    BY DEF MergedKeys
  <2>2. PICK u \in Slots(templates[t]) : k = <<t>> \o u
    BY <2>1 DEF KeysOf
  <2>3. PICK v \in Slots(templates[merged + 1]) : l = <<merged + 1>> \o v
    BY DEF KeysOf
  <2>4. t \in DOMAIN templates /\ merged + 1 \in DOMAIN templates /\ t < merged + 1
    BY <1>1, LenProperties DEF ShapeInv
  <2> QED
    BY <2>2, <2>3, <2>4, KeyOrder DEF ShapeInv
<1> QED
  BY <1>2, <1>3

\* MergeBatch joins the lists of the next batch to the merged ones, or fails.
LEMMA MergeBatchKeeps ==
    ASSUME IInv, MergeBatch
    PROVE  IInv'
<1>1. CASE Fail("TemplateValidation", 0)
  <2>1. 0 \in 0..Len(templates)
    BY LenProperties DEF IInv, ShapeInv
  <2> QED
    BY <2>1, <1>1, FailKeeps
<1>2. CASE ~Fail("TemplateValidation", 0)
  <2>1. PICK n, b, m : n = merged + 1 /\ b = batches[n] /\ m = Len(patterns)
    OBVIOUS
  <2>2. PICK s : s = Shifted(b, m)
    OBVIOUS
  <2>3. /\ refs' = refs \o s
        /\ patterns' = patterns \o b.patterns
        /\ dsl_matchers' = dsl_matchers \o b.dsl
        /\ merged' = merged + 1 /\ merged < Len(templates)
        /\ phase = "collect" /\ Collected
        /\ UNCHANGED <<templates, phase, error, todo, batches, indexes>>
    BY <1>2, <2>1, <2>2 DEF MergeBatch, collecting
  <2>4. /\ IsSeq(patterns) /\ IsSeq(refs) /\ IsSeq(dsl_matchers)
        /\ n \in DOMAIN templates /\ n \in 0..Len(templates) /\ m \in Nat
    BY <2>1, <2>3, SeqDomain, LenProperties DEF IInv, ShapeInv
  <2>5. IsBatch(b) /\ RefsHold(b.patterns, b.refs, KeysOf(n)) /\ DslHold(b.dsl, KeysOf(n))
    <3>1. todo[n] = {}
      BY <2>3, <2>4 DEF Collected
    <3>2. VisitedKeys(n) = KeysOf(n)
      BY <3>1, <2>4, VisitedAll
    <3> QED
      BY <3>2, <2>1, <2>4 DEF IInv, ShapeInv, BatchInv, BatchOK
  <2>6. IsSeq(b.patterns) /\ IsSeq(b.refs) /\ IsSeq(b.dsl)
    BY <2>5 DEF IsBatch
  <2>7. IsSeq(s) /\ Moved(s, b.refs, Len(patterns), Len(patterns) + Len(b.patterns))
    BY <2>1, <2>2, <2>4, <2>5, ShiftedIsMoved
  <2>8. /\ MergedKeys' = MergedKeys \cup KeysOf(n)
        /\ \A k \in MergedKeys, l \in KeysOf(n) : KeyBefore(k, l)
        /\ \A k \in MergedKeys, l \in KeysOf(n) : DslKey(k) /\ DslKey(l) =>
              Before(<<k[1], k[2], k[3]>>, <<l[1], l[2], l[3]>>)
    BY <2>1, <2>3, MergedGrows DEF IInv
  <2>9. RefsHold(patterns \o b.patterns, refs \o s, MergedKeys \cup KeysOf(n))
    <3>1. PICK a1, r1, K1 : a1 = patterns /\ r1 = refs /\ K1 = MergedKeys
      OBVIOUS
    <3>2. PICK a2, r2, K2 : a2 = b.patterns /\ r2 = b.refs /\ K2 = KeysOf(n)
      OBVIOUS
    <3>3. IsSeq(a1) /\ IsSeq(r1) /\ RefsHold(a1, r1, K1)
      BY <3>1, <2>4 DEF IInv, MergeInv
    <3>4. IsSeq(a2) /\ IsSeq(r2) /\ RefsHold(a2, r2, K2)
      BY <3>2, <2>5, <2>6
    <3>5. Moved(s, r2, Len(a1), Len(a1) + Len(a2)) /\ \A k \in K1, l \in K2 : KeyBefore(k, l)
      BY <3>1, <3>2, <2>7, <2>8
    <3>6. RefsHold(a1 \o a2, r1 \o s, K1 \cup K2)
      BY <3>3, <3>4, <3>5, <2>7, RefsJoin
    <3> QED
      BY <3>1, <3>2, <3>6
  <2>10. DslHold(dsl_matchers \o b.dsl, MergedKeys \cup KeysOf(n))
    <3>1. PICK d1, K1 : d1 = dsl_matchers /\ K1 = MergedKeys
      OBVIOUS
    <3>2. PICK d2, K2 : d2 = b.dsl /\ K2 = KeysOf(n)
      OBVIOUS
    <3>3. IsSeq(d1) /\ DslHold(d1, K1) /\ IsSeq(d2) /\ DslHold(d2, K2)
      BY <3>1, <3>2, <2>4, <2>5, <2>6 DEF IInv, MergeInv
    <3>4. \A k \in K1, l \in K2 : DslKey(k) /\ DslKey(l) =>
             Before(<<k[1], k[2], k[3]>>, <<l[1], l[2], l[3]>>)
      BY <3>1, <3>2, <2>8
    <3>5. DslHold(d1 \o d2, K1 \cup K2)
      BY <3>3, <3>4, DslJoin
    <3> QED
      BY <3>1, <3>2, <3>5
  <2>11. MergeInv'
    <3>1. PICK a, r, d, K : /\ a = patterns \o b.patterns /\ r = refs \o s
                            /\ d = dsl_matchers \o b.dsl /\ K = MergedKeys \cup KeysOf(n)
      OBVIOUS
    <3>2. RefsHold(a, r, K)' /\ DslHold(d, K)'
      BY <3>1, <2>3, <2>9, <2>10, SameTemplates
    <3>3. patterns' = a /\ refs' = r /\ dsl_matchers' = d /\ MergedKeys' = K
      BY <3>1, <2>3, <2>8
    <3> QED
      BY <3>2, <3>3 DEF MergeInv
  <2>12. ShapeInv'
    <3>1. IsSeq(patterns') /\ IsSeq(refs') /\ IsSeq(dsl_matchers')
      <4>1. /\ IsJoin(patterns \o b.patterns, patterns, b.patterns)
            /\ IsJoin(refs \o s, refs, s)
            /\ IsJoin(dsl_matchers \o b.dsl, dsl_matchers, b.dsl)
        BY <2>4, <2>6, <2>7, JoinElements
      <4> QED
        BY <4>1, <2>3 DEF IsJoin
    <3> QED
      BY <3>1, <2>1, <2>3, <2>4 DEF IInv, ShapeInv
  <2>13. BatchInv'
    <3>1. \A t : Visited(t)' = Visited(t) /\ VisitedKeys(t)' = VisitedKeys(t)
      BY <2>3 DEF Visited, VisitedKeys
    <3>2. ASSUME NEW t \in DOMAIN templates
          PROVE  BatchOK(t)'
      <4>1. BatchOK(t)
        BY DEF IInv, BatchInv
      <4> QED
        BY <4>1, <3>1, <2>3, SameTemplates DEF BatchOK
    <3> QED
      BY <3>2, <2>3 DEF BatchInv
  <2>14. PhaseInv'
    BY <2>3 DEF PhaseInv, Collected
  <2>15. ErrorInv'
    BY <2>3 DEF IInv, ErrorInv
  <2> QED
    BY <2>11, <2>12, <2>13, <2>14, <2>15 DEF IInv
<1> QED
  BY <1>1, <1>2

-----------------------------------------------------------------------------
\* The indexes.

\* What the groups and the RegexSets are built from depends on the merged entries
\* alone.
LEMMA SameSets ==
    ASSUME UNCHANGED <<refs, patterns>>
    PROVE  /\ \A p : ChunksOf(RegexIndices(p))' = ChunksOf(RegexIndices(p))
           /\ \A chunk : InvalidIn(chunk)' = InvalidIn(chunk)
           /\ \A chunk : Builds(chunk)' <=> Builds(chunk)
           /\ Groups' = Groups
<1>1. \A i : PatternOf(i)' = PatternOf(i)
  BY DEF PatternOf
<1>2. \A p : RegexIndices(p)' = RegexIndices(p)
  BY DEF RegexIndices
<1>3. \A p : ChunksOf(RegexIndices(p))' = ChunksOf(RegexIndices(p))
  BY <1>2 DEF ChunksOf
<1>4. \A chunk : InvalidIn(chunk)' = InvalidIn(chunk)
  BY <1>1 DEF InvalidIn
<1>5. \A chunk : Builds(chunk)' <=> Builds(chunk)
  BY <1>1, <1>4 DEF Builds
<1>6. Groups' = Groups
  BY DEF Groups, WordIndices
<1> QED
  BY <1>3, <1>4, <1>5, <1>6

\* BuildWordAutomaton changes nothing the invariant is about but the phase.
LEMMA BuildWordAutomatonKeeps ==
    ASSUME IInv, BuildWordAutomaton
    PROVE  IInv'
<1>1. CASE Fail("PatternCompile", 0)
  <2>1. 0 \in 0..Len(templates)
    BY LenProperties DEF IInv, ShapeInv
  <2> QED
    BY <2>1, <1>1, FailKeeps
<1>2. CASE ~Fail("PatternCompile", 0)
  <2>1. /\ phase' = "automaton" /\ Collected /\ merged = Len(templates)
        /\ word_groups' = Groups
        /\ UNCHANGED <<templates, error, collecting, merging>>
        /\ UNCHANGED <<templates, todo, merged, refs, patterns>>
    BY <1>2 DEF BuildWordAutomaton, collecting, merging
  <2>2. ShapeInv' /\ BatchInv' /\ MergeInv'
    BY <2>1, SameCollection DEF IInv, Phases
  <2>3. PhaseInv'
    BY <2>1, SameSets DEF PhaseInv, Collected
  <2>4. ErrorInv'
    BY <2>1 DEF IInv, ErrorInv
  <2> QED
    BY <2>2, <2>3, <2>4 DEF IInv
<1> QED
  BY <1>1, <1>2

\* BuildRegexSets keeps what builds of each part, having found no invalid regex.
LEMMA BuildRegexSetsKeeps ==
    ASSUME IInv, BuildRegexSets
    PROVE  IInv'
<1>1. CASE \E p \in Part : \E chunk \in ChunksOf(RegexIndices(p)) : InvalidIn(chunk) # {}
  <2>1. 0 \in 0..Len(templates) /\ Fail("PatternCompile", 0)
    BY <1>1, LenProperties DEF IInv, ShapeInv, BuildRegexSets
  <2> QED
    BY <2>1, FailKeeps
<1>2. CASE \A p \in Part : \A chunk \in ChunksOf(RegexIndices(p)) : InvalidIn(chunk) = {}
  <2>1. /\ phase = "automaton" /\ phase' = "sets"
        /\ regex_sets' = [p \in Part |-> {c \in ChunksOf(RegexIndices(p)) : Builds(c)}]
        /\ UNCHANGED <<templates, error, collecting, merging>>
        /\ UNCHANGED <<templates, todo, merged, refs, patterns, word_groups>>
    BY <1>2 DEF BuildRegexSets, collecting, merging
  <2>2. ShapeInv' /\ BatchInv' /\ MergeInv'
    BY <2>1, SameCollection DEF IInv, Phases
  <2>3. PhaseInv'
    BY <2>1, <1>2, SameSets DEF IInv, PhaseInv, Collected
  <2>4. ErrorInv'
    BY <2>1 DEF IInv, ErrorInv
  <2> QED
    BY <2>2, <2>3, <2>4 DEF IInv
<1> QED
  BY <1>1, <1>2

\* When all are merged, the DSL matchers held are those of the templates.
LEMMA DslMerged ==
    ASSUME IInv, merged = Len(templates)
    PROVE  {dsl_matchers[i] : i \in DOMAIN dsl_matchers} = DslMatchers
<1>1. /\ \A i \in DOMAIN dsl_matchers :
            \E k \in MergedKeys : DslKey(k) /\ dsl_matchers[i] = <<k[1], k[2], k[3]>>
      /\ \A k \in MergedKeys :
            DslKey(k) => \E i \in DOMAIN dsl_matchers : dsl_matchers[i] = <<k[1], k[2], k[3]>>
  BY DEF IInv, MergeInv, DslHold
<1>2. DOMAIN templates = 1..merged /\ templates \in Seq(Seq(Seq(Matcher)))
  BY LenProperties DEF IInv, ShapeInv
<1>3. ASSUME NEW t \in DOMAIN templates, NEW u \in Slots(templates[t]), NEW k, k = <<t>> \o u
      PROVE  (DslKey(k) <=> IsDsl(t, u)) /\ <<k[1], k[2], k[3]>> = <<t, u[1], u[2]>>
  <2>1. IsKey(k, t, u)
    BY <1>2, <1>3, SlotKey
  <2> QED
    BY <2>1 DEF IsKey
<1>4. ASSUME NEW i \in DOMAIN dsl_matchers
      PROVE  dsl_matchers[i] \in DslMatchers
  <2>1. PICK k \in MergedKeys : DslKey(k) /\ dsl_matchers[i] = <<k[1], k[2], k[3]>>
    BY <1>1
  <2>2. PICK t \in DOMAIN templates : k \in KeysOf(t)
    BY <1>2 DEF MergedKeys
  <2>3. PICK u \in Slots(templates[t]) : k = <<t>> \o u
    BY <2>2 DEF KeysOf
  <2>4. IsDsl(t, u) /\ dsl_matchers[i] = <<t, u[1], u[2]>>
    BY <2>1, <2>3, <1>3
  <2> QED
    BY <2>4 DEF DslMatchers
<1>5. ASSUME NEW at \in DslMatchers
      PROVE  \E i \in DOMAIN dsl_matchers : dsl_matchers[i] = at
  <2>1. PICK t \in DOMAIN templates :
           \E u \in Slots(templates[t]) : IsDsl(t, u) /\ at = <<t, u[1], u[2]>>
    BY DEF DslMatchers
  <2>2. PICK u \in Slots(templates[t]) : IsDsl(t, u) /\ at = <<t, u[1], u[2]>>
    BY <2>1
  <2>3. PICK k : k = <<t>> \o u
    OBVIOUS
  <2>4. k \in MergedKeys
    <3>1. k \in KeysOf(t)
      BY <2>3 DEF KeysOf
    <3> QED
      BY <3>1, <1>2 DEF MergedKeys
  <2>5. DslKey(k) /\ <<k[1], k[2], k[3]>> = at
    <3>1. IsKey(k, t, u)
      BY <2>3, <1>2, SlotKey
    <3> QED
      BY <3>1, <2>2 DEF IsKey
  <2> QED
    BY <2>4, <2>5, <1>1
<1> QED
  BY <1>4, <1>5

\* FlattenNegatives lists the negative values, or blames the template of a DSL
\* value that is too far.
LEMMA FlattenNegativesKeeps ==
    ASSUME IInv, FlattenNegatives
    PROVE  IInv'
<1>1. phase = "sets" /\ merged = Len(templates)
  BY DEF IInv, PhaseInv, FlattenNegatives
<1>2. CASE \E entry \in NegativeDsl :
              TooFar(entry.key[4]) /\ Fail("TemplateValidation", entry.key[1])
  <2>1. PICK entry \in NegativeDsl :
           TooFar(entry.key[4]) /\ Fail("TemplateValidation", entry.key[1])
    BY <1>2
  <2>2. PICK at \in DslMatchers : \E v \in DOMAIN DslDef(at).values : entry.key = Append(at, v)
    BY <1>1, DslMerged DEF NegativeDsl, DslValues
  <2>3. entry.key \in WantedDsl
    BY <1>1, DslMerged DEF WantedDsl, NegativeDsl, DslValues
  <2>4. PICK t \in DOMAIN templates : \E a, b : at = <<t, a, b>>
    BY DEF DslMatchers
  <2>5. PICK a, b, v : entry.key = Append(<<t, a, b>>, v)
    BY <2>2, <2>4
  <2>6. entry.key[1] = t
    BY <2>5, KeyOfDslValue
  <2>7. t \in 0..Len(templates)
    BY LenProperties DEF IInv, ShapeInv
  <2>8. Blamed(t)
    BY <2>1, <2>3, <2>6 DEF Blamed
  <2> QED
    BY <2>1, <2>6, <2>7, <2>8, FailKeeps
<1>3. CASE negative_matchers' = NegativeRefs \cup NegativeDsl /\ phase' = "ready" /\
           UNCHANGED <<templates, error, collecting, merging, word_groups, regex_sets>>
  <2>1. /\ UNCHANGED <<templates, todo, merged, refs, patterns, dsl_matchers, error>>
        /\ UNCHANGED <<word_groups, regex_sets>>
    BY <1>3 DEF collecting, merging
  <2>2. ShapeInv' /\ BatchInv' /\ MergeInv'
    BY <1>3, SameCollection DEF IInv, Phases
  <2>3. NegativeRefs' = NegativeRefs /\ NegativeDsl' = NegativeDsl
    BY <2>1 DEF NegativeRefs, NegativeDsl, PatternOf, DslValues, DslDef
  <2>4. PhaseInv'
    BY <1>1, <1>3, <2>1, <2>3, SameSets DEF IInv, PhaseInv, Collected
  <2>5. ErrorInv'
    BY <1>3, <2>1 DEF IInv, ErrorInv
  <2> QED
    BY <2>2, <2>4, <2>5 DEF IInv
<1> QED
  BY <1>2, <1>3 DEF FlattenNegatives

-----------------------------------------------------------------------------
\* The theorems.

\* Every step preserves the invariant.
LEMMA StepKeeps ==
    ASSUME IInv, [CompileNext]_database
    PROVE  IInv'
<1>1. CASE UNCHANGED database
  <2>1. /\ UNCHANGED <<templates, batches, todo, merged, phase, error, refs, patterns, dsl_matchers>>
        /\ UNCHANGED <<word_groups, regex_sets, negative_matchers>>
        /\ UNCHANGED <<templates, collecting, merging>>
    BY <1>1 DEF database, collecting, merging, indexes
  <2>2. ShapeInv' /\ BatchInv' /\ MergeInv'
    BY <2>1, SameCollection DEF IInv, ShapeInv
  <2>3. NegativeRefs' = NegativeRefs /\ NegativeDsl' = NegativeDsl
    BY <2>1 DEF NegativeRefs, NegativeDsl, PatternOf, DslValues, DslDef
  <2>4. PhaseInv'
    BY <2>1, <2>3, SameSets DEF IInv, PhaseInv, Collected
  <2>5. ErrorInv'
    BY <2>1, SameBlame DEF IInv, ErrorInv
  <2> QED
    BY <2>2, <2>4, <2>5 DEF IInv
<1>2. ASSUME NEW slice \in TemplateSets, Compile(slice)
      PROVE  IInv'
  BY <1>2, CompileKeeps
<1>3. ASSUME NEW t \in DOMAIN templates,
             CollectDsl(t) \/ SkipEmpty(t) \/ CollectValue(t) \/ Reject(t)
      PROVE  IInv'
  BY <1>3, CollectDslKeeps, SkipEmptyKeeps, CollectValueKeeps, RejectKeeps
<1>4. CASE MergeBatch
  BY <1>4, MergeBatchKeeps
<1>5. CASE BuildWordAutomaton
  BY <1>5, BuildWordAutomatonKeeps
<1>6. CASE BuildRegexSets
  BY <1>6, BuildRegexSetsKeeps
<1>7. CASE FlattenNegatives
  BY <1>7, FlattenNegativesKeeps
<1> QED
  BY <1>1, <1>2, <1>3, <1>4, <1>5, <1>6, <1>7 DEF CompileNext

\* The inductive invariant holds of every compilation: each worker's batch holds
\* what the worker has visited, the merged lists what is merged.
THEOREM CompileInvariant == CompileSpec => []IInv
<1>1. IInv /\ [CompileNext]_database => IInv'
  BY StepKeeps
<1> QED
  BY <1>1, InitHolds, PTL DEF CompileSpec

\* The references made in a batch stay below the length of its arena, and the
\* merged ones below that of the database's, even where the addition wraps.
THEOREM TypeCorrect == CompileSpec => []TypeOK
<1>1. IInv => TypeOK
  <2> SUFFICES ASSUME IInv PROVE TypeOK
    OBVIOUS
  <2>1. DOMAIN todo = DOMAIN templates /\ DOMAIN batches = DOMAIN templates
    <3>1. /\ todo = [t \in DOMAIN templates |-> todo[t]]
          /\ batches = [t \in DOMAIN templates |-> batches[t]]
      BY DEF IInv, ShapeInv
    <3>2. DOMAIN [t \in DOMAIN templates |-> todo[t]] = DOMAIN templates
      OBVIOUS
    <3>3. DOMAIN [t \in DOMAIN templates |-> batches[t]] = DOMAIN templates
      OBVIOUS
    <3> QED
      BY <3>1, <3>2, <3>3
  <2>2. \A t \in DOMAIN templates : \A i \in DOMAIN batches[t].refs :
           batches[t].refs[i].pattern_index \in 0..Len(batches[t].patterns) - 1
    BY DEF IInv, BatchInv, BatchOK, RefsHold
  <2>3. \A i \in DOMAIN refs : refs[i].pattern_index \in 0..Len(patterns) - 1
    BY DEF IInv, MergeInv, RefsHold
  <2> QED
    BY <2>1, <2>2, <2>3 DEF IInv, ShapeInv, ErrorInv, TypeOK
<1> QED
  BY <1>1, CompileInvariant, PTL

\* Every reference of the database finds the text it was made for in the arena:
\* the shift of Shifted is the very offset at which merge appends the batch.
THEOREM AttributionIsExact == CompileSpec => []AttributionExact
<1>1. IInv => AttributionExact
  <2> SUFFICES ASSUME IInv, ArenaFits, NEW i \in DOMAIN refs
               PROVE  /\ refs[i].pattern_index + 1 \in DOMAIN patterns
                      /\ PatternOf(i) = TextAt(refs[i].key)
    BY DEF AttributionExact, TextAt
  <2>1. /\ refs[i].pattern_index \in 0..Len(patterns) - 1
        /\ patterns[refs[i].pattern_index + 1] = TextAt(refs[i].key)
    BY DEF IInv, MergeInv, RefsHold, ArenaFits
  <2>2. Len(patterns) \in Nat /\ DOMAIN patterns = 1..Len(patterns)
    BY SeqDomain DEF IInv, ShapeInv
  <2> QED
    BY <2>1, <2>2 DEF PatternOf
<1> QED
  BY <1>1, CompileInvariant, PTL

\* Whichever worker ends first, the merged lists are in the order of the templates.
THEOREM OrderIsDeterministic == CompileSpec => []RefsInTemplateOrder
<1>1. IInv => RefsInTemplateOrder
  BY DEF IInv, MergeInv, RefsHold, DslHold, RefsInTemplateOrder
<1> QED
  BY <1>1, CompileInvariant, PTL

\* The slots asked for are those a worker stores in an entry.
LEMMA AskedSlots ==
    ASSUME NEW t
    PROVE  Asked(t) = {u \in Slots(templates[t]) : ~IsDsl(t, u) /\ ~Skipped(t, u)}
<1>1. ASSUME NEW u
      PROVE  LET kind == Def(t, u).kind
             IN  (kind = "Regex" \/ (kind # "Dsl" /\ Value(t, u) # Empty))
                    <=> ~IsDsl(t, u) /\ ~Skipped(t, u)
  BY DEF IsDsl, Skipped
<1> QED
  BY <1>1 DEF Asked

\* When all are merged, the references are those of the values to match.
LEMMA RefsMerged ==
    ASSUME IInv, merged = Len(templates)
    PROVE  {refs[i].key : i \in DOMAIN refs} = WantedRefs
<1>1. /\ \A i \in DOMAIN refs : refs[i].key \in MergedKeys /\ RefKey(refs[i].key)
      /\ \A k \in MergedKeys : RefKey(k) => \E i \in DOMAIN refs : refs[i].key = k
  BY DEF IInv, MergeInv, RefsHold
<1>2. DOMAIN templates = 1..merged /\ templates \in Seq(Seq(Seq(Matcher)))
  BY LenProperties DEF IInv, ShapeInv
<1>3. ASSUME NEW t \in DOMAIN templates, NEW u \in Slots(templates[t])
      PROVE  RefKey(<<t>> \o u) <=> ~IsDsl(t, u) /\ ~Skipped(t, u)
  <2>1. IsKey(<<t>> \o u, t, u)
    BY <1>2, SlotKey
  <2> QED
    BY <2>1 DEF IsKey
<1>4. ASSUME NEW i \in DOMAIN refs
      PROVE  refs[i].key \in WantedRefs
  <2>1. PICK t \in DOMAIN templates : refs[i].key \in KeysOf(t)
    BY <1>1, <1>2 DEF MergedKeys
  <2>2. PICK u \in Slots(templates[t]) : refs[i].key = <<t>> \o u
    BY <2>1 DEF KeysOf
  <2>3. ~IsDsl(t, u) /\ ~Skipped(t, u)
    BY <2>2, <1>1, <1>3
  <2> QED
    BY <2>2, <2>3, AskedSlots DEF WantedRefs
<1>5. ASSUME NEW k \in WantedRefs
      PROVE  \E i \in DOMAIN refs : refs[i].key = k
  <2>0. PICK t \in DOMAIN templates :
           \E u \in Slots(templates[t]) : ~IsDsl(t, u) /\ ~Skipped(t, u) /\ k = <<t>> \o u
    BY AskedSlots DEF WantedRefs
  <2>1. PICK u \in Slots(templates[t]) : ~IsDsl(t, u) /\ ~Skipped(t, u) /\ k = <<t>> \o u
    BY <2>0
  <2>2. k \in MergedKeys
    <3>1. k \in KeysOf(t)
      BY <2>1 DEF KeysOf
    <3> QED
      BY <3>1, <1>2 DEF MergedKeys
  <2>3. RefKey(k)
    BY <2>1, <1>3
  <2> QED
    BY <2>2, <2>3, <1>1
<1> QED
  BY <1>4, <1>5

\* What a key says of the sign of its matcher.
Negative(k) == templates[k[1]][k[2]][k[3]].negative

\* The absences listed for the references are those of the negative values.
LEMMA NegativeRefKeys ==
    ASSUME IInv, merged = Len(templates)
    PROVE  {entry.key : entry \in NegativeRefs} = {k \in WantedRefs : Negative(k)}
<1>1. DOMAIN templates = 1..merged /\ templates \in Seq(Seq(Seq(Matcher)))
  BY LenProperties DEF IInv, ShapeInv
<1>2. ASSUME NEW i \in DOMAIN refs
      PROVE  refs[i].negative = Negative(refs[i].key)
  <2>1. PICK k : k = refs[i].key
    OBVIOUS
  <2>2. /\ refs[i] = NewRef(k[1], Tail(k), refs[i].pattern_index)
        /\ k \in MergedKeys
    BY <2>1 DEF IInv, MergeInv, RefsHold
  <2>3. refs[i].negative = Def(k[1], Tail(k)).negative
    BY <2>2 DEF NewRef
  <2>4. PICK t \in DOMAIN templates : k \in KeysOf(t)
    BY <2>2, <1>1 DEF MergedKeys
  <2>5. PICK u \in Slots(templates[t]) : k = <<t>> \o u
    BY <2>4 DEF KeysOf
  <2>6. IsKey(k, t, u)
    BY <2>5, <1>1, SlotKey
  <2> QED
    BY <2>1, <2>3, <2>6 DEF IsKey, Def, Negative
<1>3. ASSUME NEW i \in DOMAIN refs, refs[i].negative
      PROVE  \E entry \in NegativeRefs : entry.key = refs[i].key
  <2>1. PICK entry : entry = [key |-> refs[i].key, value |-> PatternOf(i), values |-> <<PatternOf(i)>>]
    OBVIOUS
  <2>2. entry \in NegativeRefs /\ entry.key = refs[i].key
    BY <2>1, <1>3 DEF NegativeRefs
  <2> QED
    BY <2>2
<1>4. ASSUME NEW entry \in NegativeRefs
      PROVE  \E i \in DOMAIN refs : refs[i].negative /\ entry.key = refs[i].key
  BY DEF NegativeRefs
<1>5. ASSUME NEW entry \in NegativeRefs
      PROVE  entry.key \in WantedRefs /\ Negative(entry.key)
  BY <1>2, <1>4, RefsMerged
<1>6. ASSUME NEW k \in WantedRefs, Negative(k)
      PROVE  \E entry \in NegativeRefs : entry.key = k
  <2>1. PICK i \in DOMAIN refs : refs[i].key = k
    BY RefsMerged
  <2> QED
    BY <2>1, <1>2, <1>3, <1>6
<1> QED
  BY <1>5, <1>6

\* The keys of the values of DSL matchers.
LEMMA DslValueKeys ==
    ASSUME NEW ats
    PROVE  /\ \A entry \in DslValues(ats) :
                 \E at \in ats : \E v \in DOMAIN DslDef(at).values : entry.key = Append(at, v)
           /\ \A at \in ats : \A v \in DOMAIN DslDef(at).values :
                 \E entry \in DslValues(ats) : entry.key = Append(at, v)
<1>1. ASSUME NEW entry \in DslValues(ats)
      PROVE  \E at \in ats : \E v \in DOMAIN DslDef(at).values : entry.key = Append(at, v)
  BY DEF DslValues
<1>2. ASSUME NEW at \in ats, NEW v \in DOMAIN DslDef(at).values
      PROVE  \E entry \in DslValues(ats) : entry.key = Append(at, v)
  <2>1. PICK entry :
           entry = [key |-> Append(at, v), value |-> DslDef(at).values[v], values |-> DslDef(at).values]
    OBVIOUS
  <2>2. entry.key = Append(at, v)
    BY <2>1
  <2> DEFINE Values(a) ==
        {[key |-> Append(a, w), value |-> DslDef(a).values[w], values |-> DslDef(a).values] :
            w \in DOMAIN DslDef(a).values}
  <2>3. entry \in Values(at)
    BY <2>1
  <2>4. DslValues(ats) = UNION {Values(a) : a \in ats}
    BY DEF DslValues
  <2> HIDE DEF Values
  <2>5. entry \in DslValues(ats)
    BY <2>3, <2>4
  <2> QED
    BY <2>2, <2>5
<1> QED
  BY <1>1, <1>2

\* The same for the values of DSL matchers.
LEMMA NegativeDslKeys ==
    ASSUME IInv, merged = Len(templates)
    PROVE  {entry.key : entry \in NegativeDsl} = {k \in WantedDsl : Negative(k)}
<1>1. ASSUME NEW at \in DslMatchers, NEW v
      PROVE  Negative(Append(at, v)) = DslDef(at).negative
  <2>1. PICK t \in DOMAIN templates :
           \E u \in Slots(templates[t]) : at = <<t, u[1], u[2]>>
    BY DEF DslMatchers
  <2>2. PICK a, b : at = <<t, a, b>>
    BY <2>1
  <2>3. PICK k : k = Append(at, v)
    OBVIOUS
  <2>4. k = <<t, a, b, v>>
    BY <2>2, <2>3, KeyOfDslValue
  <2>5. k[1] = t /\ k[2] = a /\ k[3] = b /\ at[1] = t /\ at[2] = a /\ at[3] = b
    BY <2>2, <2>4
  <2> QED
    BY <2>3, <2>5 DEF Negative, DslDef
<1>2. NegativeDsl = DslValues({at \in DslMatchers : DslDef(at).negative})
  <2>1. {dsl_matchers[i] : i \in {j \in DOMAIN dsl_matchers : DslDef(dsl_matchers[j]).negative}}
           = {at \in DslMatchers : DslDef(at).negative}
    BY DslMerged
  <2> QED
    BY <2>1 DEF NegativeDsl
<1>3. ASSUME NEW entry \in NegativeDsl
      PROVE  entry.key \in WantedDsl /\ Negative(entry.key)
  <2>1. PICK at \in {at \in DslMatchers : DslDef(at).negative} :
           \E v \in DOMAIN DslDef(at).values : entry.key = Append(at, v)
    BY <1>2, DslValueKeys
  <2>2. PICK v \in DOMAIN DslDef(at).values : entry.key = Append(at, v)
    BY <2>1
  <2>3. PICK other \in DslValues(DslMatchers) : other.key = Append(at, v)
    BY DslValueKeys
  <2> QED
    BY <2>2, <2>3, <1>1 DEF WantedDsl
<1>4. ASSUME NEW k \in WantedDsl, Negative(k)
      PROVE  \E entry \in NegativeDsl : entry.key = k
  <2>1. PICK other \in DslValues(DslMatchers) : k = other.key
    BY DEF WantedDsl
  <2>2. PICK at \in DslMatchers : \E v \in DOMAIN DslDef(at).values : k = Append(at, v)
    BY <2>1, DslValueKeys
  <2>3. PICK v \in DOMAIN DslDef(at).values : k = Append(at, v)
    BY <2>2
  <2>4. at \in {a \in DslMatchers : DslDef(a).negative}
    BY <2>3, <1>1, <1>4
  <2>5. PICK ats : ats = {a \in DslMatchers : DslDef(a).negative}
    OBVIOUS
  <2>6. \E entry \in DslValues(ats) : entry.key = Append(at, v)
    BY <2>3, <2>4, <2>5, DslValueKeys
  <2> QED
    BY <2>3, <2>5, <2>6, <1>2
<1> QED
  BY <1>3, <1>4

\* A database that compiles holds every value the templates ask for, and every
\* absence to report: collecting, merging and flattening lose nothing.
THEOREM NothingIsDropped == CompileSpec => []NothingDropped
<1>1. IInv => NothingDropped
  <2> SUFFICES ASSUME IInv, phase = "ready"
               PROVE  /\ {refs[i].key : i \in DOMAIN refs} = WantedRefs
                      /\ {dsl_matchers[i] : i \in DOMAIN dsl_matchers} = DslMatchers
                      /\ {entry.key : entry \in negative_matchers} = {k \in Wanted : Negative(k)}
    BY DEF NothingDropped, Negative
  <2>1. merged = Len(templates) /\ negative_matchers = NegativeRefs \cup NegativeDsl
    BY DEF IInv, PhaseInv
  <2>2. {entry.key : entry \in negative_matchers}
           = {entry.key : entry \in NegativeRefs} \cup {entry.key : entry \in NegativeDsl}
    BY <2>1
  <2>3. {entry.key : entry \in negative_matchers} = {k \in Wanted : Negative(k)}
    BY <2>1, <2>2, NegativeRefKeys, NegativeDslKeys DEF Wanted
  <2> QED
    BY <2>1, <2>3, RefsMerged, DslMerged
<1> QED
  BY <1>1, CompileInvariant, PTL

\* A template with a value the engines refuse is in no database that compiles,
\* and an error that names a template names one at fault.
THEOREM CompilationFailsClosed == CompileSpec => []FailsClosed
<1>1. IInv => FailsClosed
  <2> SUFFICES ASSUME IInv PROVE FailsClosed
    OBVIOUS
  <2>1. ASSUME phase = "ready", NEW t \in DOMAIN templates, NEW s \in Slots(templates[t])
        PROVE  ~Malformed(t, s)
    <3>1. s \in Visited(t)
      BY <2>1 DEF IInv, PhaseInv, Collected, Visited
    <3> QED
      BY <3>1 DEF IInv, BatchInv, BatchOK
  <2>2. phase = "failed" /\ error.template # 0 => Blamed(error.template)
    BY DEF IInv, ErrorInv
  <2> QED
    BY <2>1, <2>2 DEF FailsClosed, Blamed
<1> QED
  BY <1>1, CompileInvariant, PTL

\* A chunk holds at most ChunkSize indices: their ranks differ.
LEMMA ChunkIsSmall ==
    ASSUME NEW S \in SUBSET Nat, IsFiniteSet(S), NEW i \in S
    PROVE  IsFiniteSet(ChunkOf(i, S)) /\ Cardinality(ChunkOf(i, S)) <= ChunkSize
<1> DEFINE below(j) == {l \in S : l < j}
           c == ChunkOf(i, S)
<1>1. \A j \in S : Rank(j, S) \in Nat /\ Rank(j, S) = Cardinality(below(j))
  BY FS_Subset, FS_CardinalityType DEF Rank
<1>2. ASSUME NEW j \in S, NEW l \in S, j < l
      PROVE  Rank(j, S) < Rank(l, S)
  <2>1. below(j) \subseteq below(l) /\ below(j) # below(l)
    <3>1. j \in below(l) /\ j \notin below(j)
      BY <1>2
    <3>2. \A m \in S : m < j => m < l
      BY <1>2
    <3> QED
      BY <3>1, <3>2
  <2>2. IsFiniteSet(below(l))
    BY FS_Subset
  <2>3. Cardinality(below(j)) <= Cardinality(below(l)) /\ Cardinality(below(j)) # Cardinality(below(l))
    <3> HIDE DEF below
    <3> QED
      BY <2>1, <2>2, FS_Subset
  <2> QED
    BY <2>3, <1>1
<1>3. PICK q, first, last :
         /\ q = Rank(i, S) \div ChunkSize
         /\ first = q * ChunkSize /\ last = first + (ChunkSize - 1)
  OBVIOUS
<1>4. first \in Nat /\ last \in Nat /\ last - first + 1 = ChunkSize /\ first <= last
  <2>1. q \in Nat
    <3>1. PICK r \in Nat, n \in Nat \ {0} : r = Rank(i, S) /\ n = ChunkSize
      BY <1>1, LimitAssumption
    <3>2. r \div n \in Nat
      OBVIOUS
    <3> QED
      BY <3>1, <3>2, <1>3
  <2>2. first \in Nat
    BY <2>1, <1>3, LimitAssumption
  <2> QED
    BY <2>2, <1>3, LimitAssumption
<1>5. \A j \in c : j \in S /\ Rank(j, S) \in first..last
  <2> SUFFICES ASSUME NEW j \in S, Rank(j, S) \div ChunkSize = q
               PROVE  Rank(j, S) \in first..last
    BY <1>3 DEF ChunkOf
  <2>1. PICK r \in Nat, n \in Nat \ {0} : r = Rank(j, S) /\ n = ChunkSize
    BY <1>1, LimitAssumption
  <2>2. r \div n \in Nat /\ (r \div n) * n <= r /\ r <= (r \div n) * n + (n - 1)
    OBVIOUS
  <2> QED
    BY <2>1, <2>2, <1>3
<1> DEFINE f == [j \in c |-> Rank(j, S)]
<1>6. f \in Injection(c, first..last)
  <2>1. ASSUME NEW j \in c, NEW l \in c, Rank(j, S) = Rank(l, S)
        PROVE  j = l
    <3>1. j \in S /\ l \in S /\ j \in Nat /\ l \in Nat
      BY <1>5
    <3>2. Rank(j, S) \in Nat
      BY <3>1, <1>1
    <3>3. j < l \/ l < j \/ j = l
      BY <3>1
    <3> QED
      BY <3>1, <3>2, <3>3, <2>1, <1>2
  <2>2. f \in [c -> first..last]
    BY <1>5
  <2>3. \A j, l \in c : f[j] = f[l] => j = l
    BY <2>1
  <2> QED
    BY <2>2, <2>3, Fun_IsInj
<1>7. IsFiniteSet(first..last) /\ Cardinality(first..last) = ChunkSize
  BY <1>4, FS_Interval
<1> HIDE DEF f, c
<1>8. IsFiniteSet(c) /\ Cardinality(c) <= Cardinality(first..last)
  BY <1>6, <1>7, FS_Injection
<1> QED
  BY <1>7, <1>8 DEF c

\* Where as many heavy regexes as a chunk has fit in a RegexSet, every chunk builds.
LEMMA EveryChunkBuilds ==
    ASSUME ChunkSize <= SetLimit, IInv
    PROVE  RegexesAreScanned
<1> SUFFICES ASSUME phase = "ready", NEW i \in DOMAIN refs,
                    refs[i].kind = "Regex", ~Named(refs[i].part)
             PROVE  \E chunk \in regex_sets[refs[i].part] : i \in chunk
  BY DEF RegexesAreScanned
<1>1. PICK p : p = refs[i].part
  OBVIOUS
<1>2. p \in Part
  <2>1. DOMAIN templates = 1..merged /\ templates \in Seq(Seq(Seq(Matcher)))
    BY LenProperties DEF IInv, ShapeInv, PhaseInv
  <2>2. PICK k : k = refs[i].key
    OBVIOUS
  <2>3. refs[i] = NewRef(k[1], Tail(k), refs[i].pattern_index) /\ k \in MergedKeys
    BY <2>2 DEF IInv, MergeInv, RefsHold
  <2>4. PICK t \in DOMAIN templates : k \in KeysOf(t)
    BY <2>1, <2>3 DEF MergedKeys
  <2>5. PICK u \in Slots(templates[t]) : k = <<t>> \o u
    BY <2>4 DEF KeysOf
  <2>6. IsKey(k, t, u)
    BY <2>1, <2>5, SlotKey
  <2>7. Def(t, u) \in Matcher
    <3>1. templates[t] \in Seq(Seq(Matcher))
      BY <2>1, ElementOfSeq, LenProperties
    <3> QED
      BY <3>1, SlotsOfTemplate DEF Def
  <2>8. p = Def(t, u).part
    <3>1. refs[i].part = Def(k[1], Tail(k)).part
      BY <2>3 DEF NewRef
    <3> QED
      BY <3>1, <1>1, <2>6 DEF IsKey
  <2> QED
    BY <1>1, <2>7, <2>8 DEF Matcher, Named
<1>3. PICK S : S = RegexIndices(p)
  OBVIOUS
<1>4. i \in S /\ S \in SUBSET Nat /\ IsFiniteSet(S)
  <2>1. DOMAIN refs = 1..Len(refs) /\ Len(refs) \in Nat
    BY SeqDomain DEF IInv, ShapeInv
  <2>2. IsFiniteSet(DOMAIN refs)
    BY <2>1, FS_Interval
  <2>3. S \subseteq DOMAIN refs /\ i \in S
    BY <1>1, <1>3 DEF RegexIndices
  <2> QED
    BY <2>1, <2>2, <2>3, FS_Subset
<1>5. PICK chunk : chunk = ChunkOf(i, S)
  OBVIOUS
<1>6. i \in chunk /\ chunk \in ChunksOf(RegexIndices(p))
  BY <1>3, <1>4, <1>5 DEF ChunksOf, ChunkOf
<1>7. IsFiniteSet(chunk) /\ Cardinality(chunk) <= ChunkSize
  BY <1>4, <1>5, ChunkIsSmall
<1>8. Cardinality({j \in chunk : PatternOf(j) \in Heavy}) <= SetLimit
  <2>1. PICK h : h = {j \in chunk : PatternOf(j) \in Heavy}
    OBVIOUS
  <2>2. h \subseteq chunk
    BY <2>1
  <2>3. Cardinality(h) <= Cardinality(chunk) /\ Cardinality(h) \in Nat /\ Cardinality(chunk) \in Nat
    BY <1>7, <2>2, FS_Subset, FS_CardinalityType
  <2> QED
    BY <1>7, <2>1, <2>3, LimitAssumption
<1>9. InvalidIn(chunk) = {} /\ regex_sets[p] = {c \in ChunksOf(RegexIndices(p)) : Builds(c)}
  BY <1>2, <1>6 DEF IInv, PhaseInv
<1> QED
  BY <1>1, <1>6, <1>8, <1>9 DEF Builds

\* Then every unnamed regex is in a RegexSet.  (HeavyRegexes shows that it needs
\* the hypothesis.)
THEOREM EveryRegexIsScanned ==
    ASSUME ChunkSize <= SetLimit
    PROVE  CompileSpec => []RegexesAreScanned
<1>1. IInv => RegexesAreScanned
  BY EveryChunkBuilds
<1> QED
  BY <1>1, CompileInvariant, PTL

=============================================================================
