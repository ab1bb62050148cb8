--------------------------- MODULE SequenceLemmas ---------------------------
(***************************************************************************)
(* What the proofs need of numbers and of sequences, whatever their        *)
(* elements.                                                               *)
(***************************************************************************)
EXTENDS SequenceTheorems, FunctionTheorems, FiniteSetTheorems, WellFoundedInduction, TLAPS

\* A set of naturals that is not empty has a least element.
LEMMA LeastNat ==
    ASSUME NEW T \in SUBSET Nat, T # {}
    PROVE  \E n \in T : \A m \in T : n <= m
<1> DEFINE R == StrictSubsetOrdering(Nat)
           F == FiniteSubsetsOf(Nat)
           U == {1..n : n \in T}
<1>1. IsWellFoundedOn(R, F)
  BY FS_StrictSubsetOrderingWellFounded
<1>2. \A n \in T : IsFiniteSet(1..n)
  BY FS_Interval
<1>3. U \subseteq F /\ U # {}
  <2>1. \A n \in T : 1..n \in SUBSET Nat
    OBVIOUS
  <2>2. \A n \in T : 1..n \in F
    BY <2>1, <1>2 DEF FiniteSubsetsOf
  <2> HIDE DEF F
  <2> QED
    BY <2>2
<1>4. PICK x \in U : \A y \in U : ~(<<y, x>> \in R)
  <2> HIDE DEF R, F, U
  <2> QED
    BY <1>1, <1>3, WFMin
<1>5. PICK n \in T : x = 1..n
  BY <1>4
<1>6. ASSUME NEW m \in T, ~(n <= m)
      PROVE  FALSE
  <2>1. 1..m \subseteq 1..n /\ 1..m # 1..n
    BY <1>6
  <2>2. <<1..m, 1..n>> \in R
    BY <2>1, <1>2 DEF StrictSubsetOrdering
  <2> QED
    BY <2>2, <1>4, <1>5
<1> QED
  BY <1>6

\* A sequence, of whatever elements.
IsSeq(s) == s \in Seq({s[i] : i \in DOMAIN s})

\* A sequence over some set is one.
LEMMA SeqIsSeq ==
    ASSUME NEW S, NEW s \in Seq(S)
    PROVE  IsSeq(s)
<1>1. s \in [1..Len(s) -> {s[i] : i \in DOMAIN s}] /\ Len(s) \in Nat
  BY LenProperties
<1> QED
  BY <1>1, SeqDef DEF IsSeq

\* The domain of a sequence is an interval, and the sequence a function on it.
LEMMA SeqDomain ==
    ASSUME NEW s, IsSeq(s)
    PROVE  Len(s) \in Nat /\ DOMAIN s = 1..Len(s) /\ s = [i \in 1..Len(s) |-> s[i]]
  BY LenProperties DEF IsSeq

\* A function on 1..n is a sequence.
LEMMA FunctionIsSeq ==
    ASSUME NEW s, NEW n \in Nat, s = [i \in 1..n |-> s[i]]
    PROVE  IsSeq(s) /\ Len(s) = n
<1>1. s \in [1..n -> {s[i] : i \in DOMAIN s}]
  OBVIOUS
<1>2. s \in Seq({s[i] : i \in DOMAIN s})
  BY <1>1, SeqDef
<1>3. DOMAIN s = 1..n /\ DOMAIN s = 1..Len(s) /\ Len(s) \in Nat
  BY <1>1, <1>2, LenProperties
<1> QED
  BY <1>2, <1>3 DEF IsSeq

\* r consists of the elements of s followed by those of t.
IsJoin(r, s, t) ==
    /\ IsSeq(r)
    /\ Len(s) \in Nat /\ DOMAIN s = 1..Len(s)
    /\ Len(t) \in Nat /\ DOMAIN t = 1..Len(t)
    /\ Len(r) = Len(s) + Len(t) /\ DOMAIN r = 1..Len(s) + Len(t)
    /\ \A i \in DOMAIN s : r[i] = s[i]
    /\ \A i \in DOMAIN t : r[Len(s) + i] = t[i]
    /\ \A i \in DOMAIN r : i \in DOMAIN s \/ \E j \in DOMAIN t : i = Len(s) + j

\* A concatenation has the elements of its parts, in order.
LEMMA JoinElements ==
    ASSUME NEW s, IsSeq(s), NEW t, IsSeq(t)
    PROVE  IsJoin(s \o t, s, t)
<1> DEFINE A == {s[i] : i \in DOMAIN s}
           B == {t[i] : i \in DOMAIN t}
           S == A \cup B
<1>1. s \in Seq(S) /\ t \in Seq(S)
  <2>1. s \in Seq(A) /\ t \in Seq(B)
    BY DEF IsSeq
  <2>2. A \subseteq S /\ B \subseteq S
    OBVIOUS
  <2> HIDE DEF A, B, S
  <2> QED
    BY <2>1, <2>2, SeqMonotonic
<1> HIDE DEF S
<1>2. /\ s \o t \in Seq(S)
      /\ Len(s \o t) = Len(s) + Len(t)
      /\ \A i \in 1 .. Len(s) + Len(t) :
            (s \o t)[i] = IF i <= Len(s) THEN s[i] ELSE t[i - Len(s)]
  BY <1>1, ConcatProperties
<1>3. /\ Len(s) \in Nat /\ DOMAIN s = 1..Len(s)
      /\ Len(t) \in Nat /\ DOMAIN t = 1..Len(t)
      /\ DOMAIN (s \o t) = 1..Len(s \o t)
  BY <1>1, <1>2, LenProperties
<1>4. IsSeq(s \o t)
  BY <1>2, SeqIsSeq
<1>5. ASSUME NEW i \in DOMAIN t
      PROVE  (s \o t)[Len(s) + i] = t[i]
  <2>1. /\ Len(s) + i \in 1..Len(s) + Len(t)
        /\ ~(Len(s) + i <= Len(s))
        /\ (Len(s) + i) - Len(s) = i
    BY <1>3
  <2> QED
    BY <2>1, <1>2
<1>6. ASSUME NEW i \in DOMAIN (s \o t)
      PROVE  i \in DOMAIN s \/ \E j \in DOMAIN t : i = Len(s) + j
  <2>1. CASE i > Len(s)
    <3>1. i - Len(s) \in DOMAIN t /\ i = Len(s) + (i - Len(s))
      BY <2>1, <1>2, <1>3
    <3> QED
      BY <3>1
  <2> QED
    BY <2>1, <1>2, <1>3
<1>7. \A i \in DOMAIN s : (s \o t)[i] = s[i]
  BY <1>2, <1>3
<1> QED
  BY <1>2, <1>3, <1>4, <1>5, <1>6, <1>7 DEF IsJoin

\* Append as a concatenation.
LEMMA AppendJoins ==
    ASSUME NEW s, IsSeq(s), NEW e
    PROVE  Append(s, e) = s \o <<e>> /\ IsSeq(<<e>>)
<1> DEFINE A == {s[i] : i \in DOMAIN s}
           S == A \cup {e}
<1>1. s \in Seq(S) /\ e \in S
  <2>1. s \in Seq(A)
    BY DEF IsSeq
  <2>2. A \subseteq S /\ e \in S
    OBVIOUS
  <2> HIDE DEF A, S
  <2> QED
    BY <2>1, <2>2, SeqMonotonic
<1>2. <<e>> \in Seq(S)
  OBVIOUS
<1> HIDE DEF S
<1> QED
  BY <1>1, <1>2, AppendIsConcat, SeqIsSeq

\* A part of a sequence has the elements between its ends.
LEMMA PartElements ==
    ASSUME NEW b, IsSeq(b), NEW m \in Nat \ {0}, NEW n \in Nat, n <= Len(b)
    PROVE  /\ IsSeq(SubSeq(b, m, n))
           /\ Len(SubSeq(b, m, n)) = IF m <= n THEN n - m + 1 ELSE 0
           /\ \A i \in 1..n - m + 1 : SubSeq(b, m, n)[i] = b[m + i - 1]
<1> DEFINE S == {b[i] : i \in DOMAIN b}
<1>1. Len(b) \in Nat /\ DOMAIN b = 1..Len(b)
  BY SeqDomain
<1>2. \A i \in m .. n : b[i] \in S
  BY <1>1
<1> HIDE DEF S
<1>3. /\ SubSeq(b, m, n) \in Seq(S)
      /\ Len(SubSeq(b, m, n)) = IF m <= n THEN n - m + 1 ELSE 0
      /\ \A i \in 1 .. n - m + 1 : SubSeq(b, m, n)[i] = b[m + i - 1]
  BY <1>2, SubSeqProperties
<1> QED
  BY <1>3, SeqIsSeq

\* A set of naturals below a bound that is not empty has a greatest element.
LEMMA GreatestNat ==
    ASSUME NEW N \in Nat, NEW T \in SUBSET (0..N), T # {}
    PROVE  \E n \in T : \A m \in T : m <= n
<1> DEFINE U == {N - n : n \in T}
<1>1. U \in SUBSET Nat /\ U # {}
  <2>1. \A n \in T : N - n \in Nat
    OBVIOUS
  <2> QED
    BY <2>1
<1>2. PICK u \in U : \A v \in U : u <= v
  <2> HIDE DEF U
  <2> QED
    BY <1>1, LeastNat
<1>3. PICK n \in T : u = N - n
  BY <1>2
<1>4. ASSUME NEW m \in T
      PROVE  m <= n
  <2>1. N - n <= N - m
    BY <1>2, <1>3
  <2> QED
    BY <2>1
<1> QED
  BY <1>3, <1>4

\* f has at each n the first n of the pieces p, joined.
AreJoined(f, p, N) == f = [n \in 0..N |-> IF n = 0 THEN <<>> ELSE f[n - 1] \o p[n]]

\* Pieces can be joined: there is a function that the recursion defines.
LEMMA JoinsExist ==
    ASSUME NEW N \in Nat, NEW p
    PROVE  \E f : AreJoined(f, p, N)
<1> DEFINE T == {k \in 0..N : ~\E f : AreJoined(f, p, k)}
<1> SUFFICES ASSUME T # {} PROVE FALSE
  OBVIOUS
<1>1. PICK k \in T : \A m \in T : k <= m
  <2>1. T \in SUBSET Nat
    OBVIOUS
  <2> HIDE DEF T
  <2> QED
    BY <2>1, LeastNat
<1>2. CASE k = 0
  <2> DEFINE g == [n \in 0..0 |-> <<>>]
  <2>1. g = [n \in 0..0 |-> IF n = 0 THEN <<>> ELSE g[n - 1] \o p[n]]
    OBVIOUS
  <2>2. AreJoined(g, p, 0)
    BY <2>1 DEF AreJoined
  <2> QED
    BY <1>1, <1>2, <2>2
<1>3. CASE k # 0
  <2>1. k - 1 \in 0..N /\ k - 1 \notin T
    BY <1>1, <1>3
  <2>2. PICK f : AreJoined(f, p, k - 1)
    BY <2>1
  <2> DEFINE g == [n \in 0..k |-> IF n = k THEN f[k - 1] \o p[k] ELSE f[n]]
  <2>3. ASSUME NEW n \in 0..k
        PROVE  g[n] = IF n = 0 THEN <<>> ELSE g[n - 1] \o p[n]
    <3>1. CASE n = k
      <4>1. k - 1 \in 0..k /\ k - 1 # k /\ k \in 0..k
        BY <1>1, <1>3
      <4>2. g[k] = f[k - 1] \o p[k] /\ g[k - 1] = f[k - 1]
        BY <4>1
      <4> QED
        BY <1>3, <3>1, <4>2
    <3>2. CASE n # k
      <4>1. n \in 0..k - 1 /\ (n # 0 => n - 1 \in 0..k /\ n - 1 # k)
        BY <1>1, <3>2
      <4>2. g[n] = f[n] /\ (n # 0 => g[n - 1] = f[n - 1])
        BY <3>2, <4>1
      <4>3. f[n] = IF n = 0 THEN <<>> ELSE f[n - 1] \o p[n]
        BY <2>2, <4>1 DEF AreJoined
      <4> QED
        BY <4>2, <4>3
    <3> QED
      BY <3>1, <3>2
  <2>4. g = [n \in 0..k |-> g[n]]
    OBVIOUS
  <2> HIDE DEF g
  <2>5. AreJoined(g, p, k)
    BY <2>3, <2>4 DEF AreJoined
  <2> QED
    BY <1>1, <2>5
<1> QED
  BY <1>2, <1>3

\* What is joined is a sequence.
LEMMA JoinsAreSequences ==
    ASSUME NEW N \in Nat, NEW S, NEW p, \A i \in 1..N : p[i] \in Seq(S),
           NEW f, AreJoined(f, p, N)
    PROVE  \A n \in 0..N : f[n] \in Seq(S)
<1> DEFINE T == {k \in 0..N : f[k] \notin Seq(S)}
<1> SUFFICES ASSUME T # {} PROVE FALSE
  OBVIOUS
<1>1. PICK k \in T : \A m \in T : k <= m
  <2>1. T \in SUBSET Nat
    OBVIOUS
  <2> HIDE DEF T
  <2> QED
    BY <2>1, LeastNat
<1>2. CASE k = 0
  BY <1>1, <1>2, EmptySeq DEF AreJoined
<1>3. CASE k # 0
  <2>1. k - 1 \in 0..N /\ k - 1 \notin T /\ k \in 1..N
    BY <1>1, <1>3
  <2>2. f[k - 1] \in Seq(S) /\ p[k] \in Seq(S)
    BY <2>1
  <2>3. f[k] = f[k - 1] \o p[k]
    BY <1>1, <1>3 DEF AreJoined
  <2>4. f[k - 1] \o p[k] \in Seq(S)
    BY <2>2, ConcatProperties
  <2> QED
    BY <1>1, <2>3, <2>4
<1> QED
  BY <1>2, <1>3

\* A part with its next element, behind another sequence.
LEMMA PartGrows ==
    ASSUME NEW S, NEW s \in Seq(S), NEW m \in 1..Len(s), NEW k \in m..Len(s),
           NEW x \in Seq(S), NEW u, u = x \o SubSeq(s, m, k - 1)
    PROVE  u \o <<s[k]>> = x \o SubSeq(s, m, k)
<1>1. PICK y, z, v : y = SubSeq(s, m, k - 1) /\ z = <<s[k]>> /\ v = SubSeq(s, m, k)
  OBVIOUS
<1>2. Len(s) \in Nat /\ \A i \in 1..Len(s) : s[i] \in S
  BY LenProperties, ElementOfSeq
<1>3. y \in Seq(S)
  <2>1. \A i \in m..k - 1 : s[i] \in S
    BY <1>2
  <2> QED
    BY <1>1, <1>2, <2>1, SubSeqProperties
<1>4. z \in Seq(S)
  BY <1>1, <1>2
<1>5. v = y \o z
  BY <1>1, SubSeqRecursiveSecond
<1>6. u = x \o y
  BY <1>1
<1>7. x \in Seq(S)
  OBVIOUS
<1>8. u \o z = x \o v
  BY ONLY <1>3, <1>4, <1>5, <1>6, <1>7
<1> QED
  BY <1>1, <1>8

\* The pieces after a and up to b are the elements of s.
AreElements(p, s, a, b) == \A i \in a + 1..b : p[i] = <<s[i]>>

\* The joined pieces continue with that part of s.
GrowsLike(f, s, a, b) == f[b] = f[a] \o SubSeq(s, a + 1, b)

\* They do if the pieces are those elements.
LEMMA JoinedElements ==
    ASSUME NEW S, NEW s \in Seq(S), NEW p, NEW f, AreJoined(f, p, Len(s)),
           NEW a \in 0..Len(s), f[a] \in Seq(S), NEW b \in a..Len(s),
           AreElements(p, s, a, b)
    PROVE  GrowsLike(f, s, a, b)
<1> SUFFICES f[b] = f[a] \o SubSeq(s, a + 1, b)
  BY DEF GrowsLike
<1> PICK N \in Nat : N = Len(s)
  BY LenProperties
<1> DEFINE joined(m) == f[a] \o SubSeq(s, a + 1, m)
           T == {k \in a..b : f[k] # joined(k)}
<1> HIDE DEF joined
<1> SUFFICES ASSUME T # {} PROVE FALSE
  BY b \in a..b DEF joined
<1>1. PICK k \in T : \A m \in T : k <= m
  <2>1. T \in SUBSET Nat
    OBVIOUS
  <2> HIDE DEF T
  <2> QED
    BY <2>1, LeastNat
<1>2. k \in a..b /\ k \in 0..N /\ f[k] # joined(k)
  BY <1>1
<1>3. CASE k = a
  <2>1. SubSeq(s, a + 1, a) = <<>>
    BY SubSeqEmpty
  <2> QED
    BY <1>2, <1>3, <2>1, ConcatEmptySeq DEF joined
<1>4. CASE k # a
  <2>1. k - 1 \in a..b /\ k - 1 \notin T /\ k # 0 /\ k \in a + 1..b
    BY <1>1, <1>4
  <2>2. f[k - 1] = f[a] \o SubSeq(s, a + 1, k - 1) /\ p[k] = <<s[k]>>
    BY <2>1 DEF joined, AreElements
  <2>3. f[k] = f[k - 1] \o p[k]
    BY <1>2, <2>1 DEF AreJoined
  <2>4. f[k - 1] \o <<s[k]>> = f[a] \o SubSeq(s, a + 1, k)
    <3>1. a + 1 \in 1..Len(s) /\ k \in a + 1..Len(s)
      BY <2>1
    <3> QED
      BY <2>2, <3>1, PartGrows
  <2> QED
    BY <1>2, <2>2, <2>3, <2>4 DEF joined
<1> QED
  BY <1>3, <1>4

\* Pieces that are empty, from a on, add nothing.
LEMMA JoinedNothing ==
    ASSUME NEW N \in Nat, NEW p, NEW f, AreJoined(f, p, N),
           NEW a \in 0..N, NEW S, f[a] \in Seq(S), NEW b \in a..N,
           \A i \in a + 1..b : p[i] = <<>>
    PROVE  f[b] = f[a]
<1> DEFINE T == {k \in a..b : f[k] # f[a]}
<1> SUFFICES ASSUME T # {} PROVE FALSE
  BY b \in a..b
<1>1. PICK k \in T : \A m \in T : k <= m
  <2>1. T \subseteq a..b /\ a..b \subseteq Nat
    OBVIOUS
  <2> HIDE DEF T
  <2> QED
    BY <2>1, LeastNat
<1>2. k - 1 \in a..b /\ k - 1 \notin T /\ k # 0 /\ k \in a + 1..b /\ k \in 0..N
  BY <1>1
<1>3. f[k - 1] = f[a] /\ p[k] = <<>>
  BY <1>2
<1>4. f[k] = f[k - 1] \o p[k]
  BY <1>2 DEF AreJoined
<1> QED
  BY <1>1, <1>3, <1>4, ConcatEmptySeq

\* The two parts of a join.
LEMMA JoinParts ==
    ASSUME NEW S, NEW x \in Seq(S), NEW y \in Seq(S), NEW r, r = x \o y
    PROVE  SubSeq(r, 1, Len(x)) = x /\ SubSeq(r, Len(x) + 1, Len(r)) = y
<1>1. /\ r \in Seq(S) /\ Len(r) = Len(x) + Len(y) /\ Len(x) \in Nat /\ Len(y) \in Nat
      /\ \A i \in 1..Len(x) + Len(y) : r[i] = IF i <= Len(x) THEN x[i] ELSE y[i - Len(x)]
  BY ConcatProperties, LenProperties
<1>2. \A i \in 1..Len(r) : r[i] \in S
  BY <1>1, ElementOfSeq
<1>3. SubSeq(r, 1, Len(x)) = x
  <2> DEFINE p == SubSeq(r, 1, Len(x))
  <2>1. /\ p \in Seq(S) /\ Len(p) = Len(x)
        /\ \A i \in 1..Len(x) : p[i] = r[i]
    <3>1. \A i \in 1..Len(x) : r[i] \in S
      BY <1>1, <1>2
    <3>2. /\ p \in Seq(S) /\ Len(p) = IF 1 <= Len(x) THEN Len(x) - 1 + 1 ELSE 0
          /\ \A i \in 1..Len(x) - 1 + 1 : p[i] = r[1 + i - 1]
      BY <1>1, <3>1, SubSeqProperties
    <3> HIDE DEF p
    <3> QED
      BY <1>1, <3>2
  <2> HIDE DEF p
  <2>2. \A i \in 1..Len(p) : p[i] = x[i]
    BY <1>1, <2>1
  <2> QED
    BY <2>1, <2>2, SeqEqual DEF p
<1>4. SubSeq(r, Len(x) + 1, Len(r)) = y
  <2> DEFINE p == SubSeq(r, Len(x) + 1, Len(r))
  <2>1. /\ p \in Seq(S) /\ Len(p) = Len(y)
        /\ \A i \in 1..Len(y) : p[i] = r[Len(x) + i]
    <3>1. \A i \in Len(x) + 1..Len(r) : r[i] \in S
      BY <1>1, <1>2
    <3>2. /\ p \in Seq(S)
          /\ Len(p) = IF Len(x) + 1 <= Len(r) THEN Len(r) - (Len(x) + 1) + 1 ELSE 0
          /\ \A i \in 1..Len(r) - (Len(x) + 1) + 1 : p[i] = r[Len(x) + 1 + i - 1]
      BY <1>1, <3>1, SubSeqProperties
    <3> HIDE DEF p
    <3>3. Len(r) - (Len(x) + 1) + 1 = Len(y) /\ (Len(x) + 1 <= Len(r) \/ Len(y) = 0)
      BY <1>1
    <3>4. ASSUME NEW i \in 1..Len(y) PROVE p[i] = r[Len(x) + i]
      <4>1. Len(x) + 1 + i - 1 = Len(x) + i
        BY <1>1
      <4> QED
        BY <3>2, <3>3, <4>1
    <3>5. Len(p) = Len(y)
      BY <1>1, <3>2, <3>3
    <3> QED
      BY <3>2, <3>4, <3>5
  <2> HIDE DEF p
  <2>2. \A i \in 1..Len(p) : p[i] = y[i]
    BY <1>1, <2>1
  <2> QED
    BY <2>1, <2>2, SeqEqual DEF p
<1> QED
  BY <1>3, <1>4

\* r is x, followed by the elements of s after n and up to k.
GoesOnLike(r, x, s, n, k) ==
    /\ Len(r) = Len(x) + (k - n)
    /\ \A i \in 1..Len(x) : r[i] = x[i]
    /\ \A j \in n + 1..k : r[j + (Len(x) - n)] = s[j]

\* So is x, joined with that part of s.
LEMMA RestIsShifted ==
    ASSUME NEW S, NEW s \in Seq(S), NEW x \in Seq(S), NEW n \in 0..Len(s), NEW k \in n..Len(s)
    PROVE  /\ x \o SubSeq(s, n + 1, k) \in Seq(S)
           /\ GoesOnLike(x \o SubSeq(s, n + 1, k), x, s, n, k)
<1> DEFINE r == x \o SubSeq(s, n + 1, k)
<1>1. Len(s) \in Nat /\ Len(x) \in Nat /\ \A i \in 1..Len(s) : s[i] \in S
  BY LenProperties, ElementOfSeq
<1>2. PICK p : p = SubSeq(s, n + 1, k)
  OBVIOUS
<1>3. p \in Seq(S) /\ Len(p) = k - n /\ \A i \in 1..k - n : p[i] = s[n + i]
  <2>1. \A i \in n + 1..k : s[i] \in S
    BY <1>1
  <2>2. /\ p \in Seq(S) /\ Len(p) = IF n + 1 <= k THEN k - (n + 1) + 1 ELSE 0
        /\ \A i \in 1..k - (n + 1) + 1 : p[i] = s[n + 1 + i - 1]
    BY <1>1, <1>2, <2>1, SubSeqProperties
  <2> QED
    BY <1>1, <2>2
<1>4. /\ r \in Seq(S) /\ Len(r) = Len(x) + Len(p)
      /\ \A i \in 1..Len(x) + Len(p) : r[i] = IF i <= Len(x) THEN x[i] ELSE p[i - Len(x)]
  BY <1>2, <1>3, ConcatProperties
<1> HIDE DEF r
<1>5. ASSUME NEW j \in n + 1..k PROVE r[j + (Len(x) - n)] = s[j]
  <2>1. PICK i \in Nat : i = j + (Len(x) - n)
    <3>1. n \in Nat /\ j \in Nat /\ j > n
      BY <1>1
    <3>2. j + (Len(x) - n) \in Nat
      BY <1>1, <3>1
    <3> QED
      BY <3>2, Zenon
  <2>2. i \in 1..Len(x) + Len(p) /\ ~(i <= Len(x)) /\ i - Len(x) \in 1..k - n
        /\ n + (i - Len(x)) = j
    BY <1>1, <1>3, <2>1
  <2> QED
    BY <1>3, <1>4, <2>1, <2>2
<1>6. GoesOnLike(r, x, s, n, k)
  BY <1>1, <1>3, <1>4, <1>5 DEF GoesOnLike
<1> QED
  BY <1>4, <1>6 DEF r

\* Of that, a part that lies in the rest is a part of the other sequence.
LEMMA ShiftedPart ==
    ASSUME NEW S, NEW s \in Seq(S), NEW r \in Seq(S), NEW a \in Nat, NEW b \in Int, NEW d \in Int,
           \A j \in a..b : s[j] \in S, \A j \in a..b : r[j + d] = s[j]
    PROVE  SubSeq(r, a + d, b + d) = SubSeq(s, a, b)
<1>1. PICK p, q : p = SubSeq(s, a, b) /\ q = SubSeq(r, a + d, b + d)
  OBVIOUS
<1>2. /\ p \in Seq(S) /\ Len(p) = IF a <= b THEN b - a + 1 ELSE 0
      /\ \A i \in 1..b - a + 1 : p[i] = s[a + i - 1]
  BY <1>1, SubSeqProperties
<1>3. \A i \in a + d..b + d : i - d \in a..b /\ (i - d) + d = i
  OBVIOUS
<1>4. \A i \in a + d..b + d : r[i] \in S
  BY <1>3
<1>5. /\ q \in Seq(S) /\ Len(q) = IF a + d <= b + d THEN (b + d) - (a + d) + 1 ELSE 0
      /\ \A i \in 1..(b + d) - (a + d) + 1 : q[i] = r[a + d + i - 1]
  BY <1>1, <1>4, SubSeqProperties
<1>6. Len(p) = Len(q)
  BY <1>2, <1>5
<1>7. ASSUME NEW i \in 1..Len(p) PROVE p[i] = q[i]
  <2>1. i \in 1..b - a + 1 /\ a + i - 1 \in a..b /\ a + d + i - 1 = (a + i - 1) + d
        /\ i \in 1..(b + d) - (a + d) + 1
    BY <1>2
  <2>2. p[i] = s[a + i - 1]
    BY <1>2, <2>1
  <2>3. q[i] = r[(a + i - 1) + d]
    BY <1>5, <2>1
  <2> QED
    BY <2>1, <2>2, <2>3
<1> QED
  BY <1>1, <1>2, <1>5, <1>6, <1>7, SeqEqual

\* Copying a part of the rest leaves the whole as it is.
LEMMA RestIsCopied ==
    ASSUME NEW S, NEW s \in Seq(S), NEW x \in Seq(S), NEW n \in 0..Len(s),
           NEW k \in n..Len(s)
    PROVE  x \o SubSeq(s, n + 1, Len(s))
              = (x \o SubSeq(s, n + 1, k)) \o SubSeq(s, k + 1, Len(s))
<1>1. PICK p, q : p = SubSeq(s, n + 1, k) /\ q = SubSeq(s, k + 1, Len(s))
  OBVIOUS
<1>2. Len(s) \in Nat /\ \A i \in 1..Len(s) : s[i] \in S
  BY LenProperties, ElementOfSeq
<1>3. p \in Seq(S) /\ q \in Seq(S)
  <2>1. \A i \in n + 1..k : s[i] \in S
    BY <1>2
  <2>2. \A i \in k + 1..Len(s) : s[i] \in S
    BY <1>2
  <2> QED
    BY <1>1, <1>2, <2>1, <2>2, SubSeqProperties
<1>4. SubSeq(s, n + 1, Len(s)) = p \o q
  <2>1. /\ n + 1 \in 1..Len(s) + 1 /\ k \in (n + 1) - 1..Len(s)
        /\ Len(s) \in k..Len(s)
    BY <1>2
  <2>2. SubSeq(s, n + 1, k) \o SubSeq(s, k + 1, Len(s)) = SubSeq(s, n + 1, Len(s))
    BY <2>1, ConcatAdjacentSubSeq
  <2> QED
    BY <1>1, <2>2
<1>5. x \in Seq(S)
  OBVIOUS
<1>6. (x \o p) \o q = x \o (p \o q)
  BY ONLY <1>3, <1>5
<1> QED
  BY <1>1, <1>4, <1>6

=============================================================================
