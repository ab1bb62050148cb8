----------------------- MODULE StreamingMatcherProofs -----------------------
(***************************************************************************)
(* The streaming matcher's invariants for every set of patterns, every     *)
(* cutting of the response into chunks and every buffer size.              *)
(***************************************************************************)
EXTENDS StreamingMatcher, SequenceTheorems, TLAPS

\* Trailing(s, n) is a suffix of s of length Min(n, Len(s)).
LEMMA TrailingProperties ==
    ASSUME NEW S, NEW s \in Seq(S), NEW n \in Nat
    PROVE  /\ Trailing(s, n) \in Seq(S)
           /\ Len(Trailing(s, n)) = IF Len(s) <= n THEN Len(s) ELSE n
           /\ \A j \in 1..Len(Trailing(s, n)) :
                 Trailing(s, n)[j] = s[(Len(s) - Len(Trailing(s, n))) + j]
<1>1. CASE Len(s) <= n
  BY <1>1 DEF Trailing
<1>2. CASE ~(Len(s) <= n)
  <2> DEFINE m == Len(s) - n + 1
  <2>1. Trailing(s, n) = SubSeq(s, m, Len(s))
    BY <1>2 DEF Trailing
  <2>2. m \in 1..Len(s) + 1 /\ Len(s) \in m-1..Len(s) /\ m \in Nat
    BY <1>2, LenProperties
  <2>0. m \in Int /\ Len(s) \in Int /\ \A i \in m..Len(s) : s[i] \in S
    BY <2>2, LenProperties, ElementOfSeq
  <2>3. /\ SubSeq(s, m, Len(s)) \in Seq(S)
        /\ Len(SubSeq(s, m, Len(s))) = Len(s) - m + 1
        /\ \A j \in 1..(Len(s) - m + 1) : SubSeq(s, m, Len(s))[j] = s[m + j - 1]
    BY <2>2, <2>0, SubSeqProperties
  <2> QED
    BY <1>2, <2>1, <2>2, <2>3
<1> QED
  BY <1>1, <1>2

\* Appending t to the last elements of s gives the last elements of s \o t.
LEMMA WindowElements ==
    ASSUME NEW S, NEW s \in Seq(S), NEW t \in Seq(S), NEW n \in Nat
    PROVE  LET w == Trailing(s, n) \o t
               skipped == Len(s) - Len(Trailing(s, n))
           IN  /\ w \in Seq(S)
               /\ skipped \in 0..Len(s)
               /\ Len(s) <= n => skipped = 0
               /\ Len(s) > n => skipped = Len(s) - n
               /\ Len(w) = Len(s \o t) - skipped
               /\ \A j \in 1..Len(w) : w[j] = (s \o t)[skipped + j]
<1> DEFINE u == Trailing(s, n)
           skipped == Len(s) - Len(u)
           ut == u \o t
           st == s \o t
<1>1. /\ u \in Seq(S) /\ Len(u) = (IF Len(s) <= n THEN Len(s) ELSE n)
      /\ \A j \in 1..Len(u) : u[j] = s[skipped + j]
  BY TrailingProperties
<1>2. /\ ut \in Seq(S) /\ Len(ut) = Len(u) + Len(t)
      /\ \A j \in 1..Len(u) + Len(t) :
            ut[j] = IF j <= Len(u) THEN u[j] ELSE t[j - Len(u)]
  BY <1>1, ConcatProperties
<1>3. /\ Len(st) = Len(s) + Len(t)
      /\ \A j \in 1..Len(s) + Len(t) :
            st[j] = IF j <= Len(s) THEN s[j] ELSE t[j - Len(s)]
  BY ConcatProperties
<1>4. Len(s) \in Nat /\ Len(t) \in Nat /\ Len(u) \in Nat
  BY <1>1, LenProperties
<1> HIDE DEF u, ut, st
<1>5. /\ skipped \in 0..Len(s)
      /\ Len(s) <= n => skipped = 0
      /\ Len(s) > n => skipped = Len(s) - n
  BY <1>1, <1>4
<1>6. ASSUME NEW j \in 1..Len(ut)
      PROVE  ut[j] = st[skipped + j]
  <2>1. j \in 1..Len(u) + Len(t) /\ skipped + j \in 1..Len(s) + Len(t)
    BY <1>2, <1>4, <1>5
  <2>2. CASE j <= Len(u)
    <3>1. ut[j] = u[j]
      BY <1>2, <2>1, <2>2
    <3>2. skipped + j <= Len(s) /\ j \in 1..Len(u)
      BY <1>4, <1>5, <2>1, <2>2
    <3>3. u[j] = s[skipped + j]
      BY <1>1, <3>2
    <3> QED
      BY <1>3, <2>1, <3>1, <3>2, <3>3
  <2>3. CASE ~(j <= Len(u))
    <3>1. ut[j] = t[j - Len(u)]
      BY <1>2, <2>1, <2>3
    <3>2. ~(skipped + j <= Len(s)) /\ (skipped + j) - Len(s) = j - Len(u)
      BY <1>4, <1>5, <2>3
    <3> QED
      BY <1>3, <2>1, <3>1, <3>2
  <2> QED
    BY <2>2, <2>3
<1>7. Len(ut) = Len(st) - skipped
  BY <1>2, <1>3, <1>4
<1> QED
  BY <1>2, <1>5, <1>6, <1>7 DEF u, ut, st

\* Keeping the last n elements of a stream commutes with appending to it.
LEMMA TrailingOfConcat ==
    ASSUME NEW S, NEW s \in Seq(S), NEW t \in Seq(S), NEW n \in Nat
    PROVE  Trailing(Trailing(s, n) \o t, n) = Trailing(s \o t, n)
<1> DEFINE ut == Trailing(s, n) \o t
           st == s \o t
           k == Len(s) - Len(Trailing(s, n))
           left == Trailing(ut, n)
           right == Trailing(st, n)
<1>1. /\ ut \in Seq(S) /\ k \in 0..Len(s)
      /\ Len(s) <= n => k = 0
      /\ Len(s) > n => k = Len(s) - n
      /\ Len(ut) = Len(st) - k
      /\ \A j \in 1..Len(ut) : ut[j] = st[k + j]
  BY WindowElements
<1>2. /\ st \in Seq(S) /\ Len(st) = Len(s) + Len(t)
      /\ Len(s) \in Nat /\ Len(t) \in Nat
  BY ConcatProperties, LenProperties
<1>3. ut \in Seq(S) /\ st \in Seq(S)
  BY <1>1, <1>2
<1> HIDE DEF ut, st, k
<1>4. /\ left \in Seq(S)
      /\ Len(left) = (IF Len(ut) <= n THEN Len(ut) ELSE n)
      /\ \A j \in 1..Len(left) : left[j] = ut[(Len(ut) - Len(left)) + j]
  BY <1>3, TrailingProperties
<1>5. /\ right \in Seq(S)
      /\ Len(right) = (IF Len(st) <= n THEN Len(st) ELSE n)
      /\ \A j \in 1..Len(right) : right[j] = st[(Len(st) - Len(right)) + j]
  BY <1>3, TrailingProperties
<1> HIDE DEF left, right
<1>6. Len(left) = Len(right) /\ Len(left) \in Nat /\ Len(left) <= Len(ut)
  <2>1. /\ Len(ut) = Len(s) + Len(t) - k /\ k \in 0..Len(s)
        /\ Len(s) <= n => k = 0
        /\ Len(s) > n => k = Len(s) - n
    BY <1>1, <1>2
  <2>2. Len(st) = Len(s) + Len(t) /\ Len(s) \in Nat /\ Len(t) \in Nat
    BY <1>2
  <2>3. /\ Len(left) = (IF Len(ut) <= n THEN Len(ut) ELSE n)
        /\ Len(right) = (IF Len(st) <= n THEN Len(st) ELSE n)
    BY <1>4, <1>5
  <2>4. CASE Len(s) <= n
    BY <2>1, <2>2, <2>3, <2>4
  <2>5. CASE Len(s) > n
    BY <2>1, <2>2, <2>3, <2>5
  <2> QED
    BY <2>2, <2>4, <2>5
<1>7. ASSUME NEW j \in 1..Len(left)
      PROVE  left[j] = right[j]
  <2> DEFINE m == (Len(ut) - Len(left)) + j
  <2>1. m \in 1..Len(ut) /\ k + m = (Len(st) - Len(right)) + j
    <3>1. /\ Len(ut) = Len(s) + Len(t) - k /\ Len(st) = Len(s) + Len(t)
          /\ Len(s) \in Nat /\ Len(t) \in Nat /\ k \in 0..Len(s)
      BY <1>1, <1>2
    <3> QED
      BY <1>6, <3>1
  <2>2. left[j] = ut[m]
    BY <1>4
  <2>3. ut[m] = st[k + m]
    BY <1>1, <2>1
  <2>4. right[j] = st[(Len(st) - Len(right)) + j]
    BY <1>5, <1>6
  <2> QED
    BY <2>1, <2>2, <2>3, <2>4
<1>8. left = right
  BY <1>4, <1>5, <1>6, <1>7, SeqEqual
<1> QED
  BY <1>8 DEF left, right, ut, st

\* Of the last m elements, the last n are the last Min(m, n) of the whole.
LEMMA TrailingOfTrailing ==
    ASSUME NEW S, NEW s \in Seq(S), NEW m \in Nat, NEW n \in Nat
    PROVE  Trailing(Trailing(s, m), n) = Trailing(s, IF m <= n THEN m ELSE n)
<1> DEFINE u == Trailing(s, m)
           least == IF m <= n THEN m ELSE n
           left == Trailing(u, n)
           right == Trailing(s, least)
<1>0. least \in Nat /\ least <= m /\ least <= n /\ least \in {m, n} /\ Len(s) \in Nat
  BY LenProperties
<1>1. /\ u \in Seq(S) /\ Len(u) = (IF Len(s) <= m THEN Len(s) ELSE m)
      /\ \A j \in 1..Len(u) : u[j] = s[(Len(s) - Len(u)) + j]
  BY TrailingProperties
<1> HIDE DEF u, least
<1>2. /\ left \in Seq(S) /\ Len(left) = (IF Len(u) <= n THEN Len(u) ELSE n)
      /\ \A j \in 1..Len(left) : left[j] = u[(Len(u) - Len(left)) + j]
  BY <1>1, TrailingProperties
<1>3. /\ right \in Seq(S) /\ Len(right) = (IF Len(s) <= least THEN Len(s) ELSE least)
      /\ \A j \in 1..Len(right) : right[j] = s[(Len(s) - Len(right)) + j]
  BY <1>0, TrailingProperties
<1> HIDE DEF left, right
<1>4. Len(left) = Len(right) /\ Len(left) \in Nat /\ Len(left) <= Len(u) /\ Len(u) \in Nat
  BY <1>0, <1>1, <1>2, <1>3
<1>5. ASSUME NEW j \in 1..Len(left)
      PROVE  left[j] = right[j]
  <2> DEFINE i == (Len(u) - Len(left)) + j
  <2>1. i \in 1..Len(u) /\ (Len(s) - Len(u)) + i = (Len(s) - Len(right)) + j
    BY <1>0, <1>4
  <2>2. left[j] = u[i] /\ u[i] = s[(Len(s) - Len(u)) + i]
    BY <1>1, <1>2, <2>1
  <2>3. right[j] = s[(Len(s) - Len(right)) + j]
    BY <1>3, <1>4
  <2> QED
    BY <2>1, <2>2, <2>3
<1>6. left = right
  BY <1>2, <1>3, <1>4, <1>5, SeqEqual
<1> QED
  BY <1>6 DEF left, right, u, least

-----------------------------------------------------------------------------
\* The patterns are non-empty byte sequences of at most Seam + 1 bytes.
LEMMA PatternLengths ==
    ASSUME NEW i \in DOMAIN Patterns
    PROVE  /\ Patterns[i] \in Seq(Byte)
           /\ Len(Patterns[i]) \in 1..Seam + 1
           /\ Seam \in Nat
<1>1. Patterns[i] \in Seq(Byte) \ {<<>>}
  BY PatternsAssumption, ElementOfSeq, LenProperties
<1>2. Len(Patterns[i]) \in Nat /\ Len(Patterns[i]) # 0
  BY <1>1, LenProperties, EmptySeq
<1>3. Len(Patterns[i]) <= MaxPatternLen /\ MaxPatternLen \in Nat
  BY MaxPatternLenAssumption
<1> QED
  BY <1>1, <1>2, <1>3 DEF Seam

\* What a stream contains, its continuation contains.
LEMMA OccurringGrows ==
    ASSUME NEW s \in Seq(Byte), NEW t \in Seq(Byte)
    PROVE  Search!Occurring(s) \subseteq Search!Occurring(s \o t)
<1> SUFFICES ASSUME NEW i \in Search!Occurring(s)
             PROVE  i \in Search!Occurring(s \o t)
  OBVIOUS
<1> DEFINE p == Patterns[i]
<1>1. PICK off \in 0..Len(s) :
        off + Len(p) <= Len(s) /\ \A j \in 1..Len(p) : s[off + j] = p[j]
  BY DEF Search!Occurring, Search!OccursAt
<1>2. i \in DOMAIN Patterns
  BY DEF Search!Occurring
<1>3. Len(s) \in Nat /\ Len(t) \in Nat /\ Len(p) \in Nat
  BY <1>2, PatternLengths, LenProperties
<1>4. /\ Len(s \o t) = Len(s) + Len(t)
      /\ \A j \in 1..Len(s) + Len(t) :
            (s \o t)[j] = IF j <= Len(s) THEN s[j] ELSE t[j - Len(s)]
  BY ConcatProperties
<1>5. ASSUME NEW j \in 1..Len(p)
      PROVE  (s \o t)[off + j] = p[j]
  <2>1. off + j \in 1..Len(s) + Len(t) /\ off + j <= Len(s)
    BY <1>1, <1>3
  <2> QED
    BY <1>1, <1>4, <2>1
<1>6. off \in 0..Len(s \o t) /\ off + Len(p) <= Len(s \o t)
  BY <1>1, <1>3, <1>4
<1> QED
  BY <1>2, <1>5, <1>6 DEF Search!Occurring, Search!OccursAt

\* What a scan window contains occurs in the stream: no false positive.
LEMMA WindowIsSound ==
    ASSUME NEW s \in Seq(Byte), NEW t \in Seq(Byte), NEW n \in Nat
    PROVE  Search!Occurring(Trailing(s, n) \o t) \subseteq Search!Occurring(s \o t)
<1> DEFINE w == Trailing(s, n) \o t
           k == Len(s) - Len(Trailing(s, n))
<1> SUFFICES ASSUME NEW i \in Search!Occurring(w)
             PROVE  i \in Search!Occurring(s \o t)
  OBVIOUS
<1> DEFINE p == Patterns[i]
<1>1. /\ k \in 0..Len(s) /\ Len(w) = Len(s \o t) - k
      /\ \A j \in 1..Len(w) : w[j] = (s \o t)[k + j]
  BY WindowElements
<1>2. PICK off \in 0..Len(w) :
        off + Len(p) <= Len(w) /\ \A j \in 1..Len(p) : w[off + j] = p[j]
  BY DEF Search!Occurring, Search!OccursAt
<1>3. i \in DOMAIN Patterns
  BY DEF Search!Occurring
<1>4. Len(s) \in Nat /\ Len(p) \in Nat /\ Len(s \o t) \in Nat
  BY <1>3, PatternLengths, LenProperties, ConcatProperties
<1> HIDE DEF w, k
<1>5. ASSUME NEW j \in 1..Len(p)
      PROVE  (s \o t)[(k + off) + j] = p[j]
  <2>1. off + j \in 1..Len(w) /\ k + (off + j) = (k + off) + j
    BY <1>1, <1>2, <1>4
  <2> QED
    BY <1>1, <1>2, <2>1
<1>6. k + off \in 0..Len(s \o t) /\ (k + off) + Len(p) <= Len(s \o t)
  BY <1>1, <1>2, <1>4
<1> QED
  BY <1>3, <1>5, <1>6 DEF Search!Occurring, Search!OccursAt

\* A pattern completed by chunk t either occurred before or lies in the window
\* that keeps all but one of its bytes: no false negative.
LEMMA WindowIsComplete ==
    ASSUME NEW s \in Seq(Byte), NEW t \in Seq(Byte), NEW n \in Nat,
           NEW i \in Search!Occurring(s \o t), Len(Patterns[i]) <= n + 1
    PROVE  i \in Search!Occurring(s) \cup Search!Occurring(Trailing(s, n) \o t)
<1> DEFINE w == Trailing(s, n) \o t
           k == Len(s) - Len(Trailing(s, n))
<1> SUFFICES i \in Search!Occurring(s) \/ i \in Search!Occurring(w)
  OBVIOUS
<1> DEFINE p == Patterns[i]
<1>1. /\ k \in 0..Len(s) /\ Len(w) = Len(s \o t) - k
      /\ Len(s) <= n => k = 0
      /\ Len(s) > n => k = Len(s) - n
      /\ \A j \in 1..Len(w) : w[j] = (s \o t)[k + j]
  BY WindowElements
<1>2. PICK off \in 0..Len(s \o t) :
        /\ off + Len(p) <= Len(s \o t)
        /\ \A j \in 1..Len(p) : (s \o t)[off + j] = p[j]
  BY DEF Search!Occurring, Search!OccursAt
<1>3. i \in DOMAIN Patterns
  BY DEF Search!Occurring
<1>4. /\ Len(s) \in Nat /\ Len(p) \in 1..n + 1 /\ n \in Nat
      /\ Len(t) \in Nat
  BY <1>3, PatternLengths, LenProperties
<1>5. /\ Len(s \o t) = Len(s) + Len(t)
      /\ \A j \in 1..Len(s) + Len(t) :
            (s \o t)[j] = IF j <= Len(s) THEN s[j] ELSE t[j - Len(s)]
  BY ConcatProperties
<1> HIDE DEF w, k
<1>6. CASE off + Len(p) <= Len(s)
  <2>1. ASSUME NEW j \in 1..Len(p)
        PROVE  s[off + j] = p[j]
    <3>1. off + j \in 1..Len(s) + Len(t) /\ off + j <= Len(s)
      BY <1>4, <1>6
    <3> QED
      BY <1>2, <1>5, <3>1
  <2>2. off \in 0..Len(s)
    BY <1>4, <1>6
  <2> QED
    BY <1>3, <1>6, <2>1, <2>2 DEF Search!Occurring, Search!OccursAt
<1>7. CASE off + Len(p) > Len(s)
  <2>1. k <= off
    <3>1. CASE Len(s) <= n
      BY <1>1, <3>1
    <3>2. CASE Len(s) > n
      <4>1. k = Len(s) - n
        BY <1>1, <3>2
      <4> QED
        BY <1>4, <1>7, <4>1
    <3> QED
      BY <1>4, <3>1, <3>2
  <2>2. /\ off - k \in 0..Len(w)
        /\ (off - k) + Len(p) <= Len(w)
    <3>1. k \in 0..Len(s) /\ Len(w) = Len(s \o t) - k
      BY <1>1
    <3>2. Len(s \o t) \in Nat
      BY <1>4, <1>5
    <3> QED
      BY ONLY <1>2, <1>4, <1>7, <2>1, <3>1, <3>2
  <2>3. ASSUME NEW j \in 1..Len(p)
        PROVE  w[(off - k) + j] = p[j]
    <3>1. (off - k) + j \in 1..Len(w) /\ k + ((off - k) + j) = off + j
      <4>1. k \in 0..Len(s) /\ Len(w) \in Nat
        BY <1>1, <1>4, <1>5
      <4> QED
        BY <1>4, <2>2, <4>1
    <3> QED
      BY <1>1, <1>2, <3>1
  <2> QED
    BY <1>3, <2>2, <2>3 DEF Search!Occurring, Search!OccursAt
<1> QED
  BY <1>4, <1>6, <1>7

-----------------------------------------------------------------------------
(***************************************************************************)
(* The inductive invariant.  Precision alone is not inductive: the window  *)
(* a feed scans is taken from the buffer, so what is found there is in the *)
(* stream only because the buffer is the tail of the stream, and the       *)
(* cancel decision follows the reported set only because the flag and the  *)
(* set agree.                                                              *)
(***************************************************************************)
FlagAgrees == can_stop_early <=> matched_patterns # {}

CountAgrees == bytes_processed = Len(stream)

ResultAgrees ==
    /\ result.kind = "MatchFound" <=> can_stop_early
    /\ result.kind = "BufferFull" => Len(buffer) >= MaxBuffer

IInv ==
    /\ TypeOK
    /\ BufferIsTrailingWindow
    /\ CountAgrees
    /\ FlagAgrees
    /\ ResultAgrees
    /\ Precision

\* Some pattern is reported when any has occurred that the buffer carries over;
\* with an overlapping search, every one of those is.
SomeRecall == Search!Occurring(stream) \cap Carried # {} => matched_patterns # {}

FullRecall == Overlapping => ChunkingIndependent

\* The window a feed scans is the end of the stream followed by the chunk, and
\* it begins early enough for every pattern the buffer carries over.
LEMMA ScanWindowOfStream ==
    ASSUME TypeOK, BufferIsTrailingWindow, NEW chunk
    PROVE  \E n \in Nat : /\ ScanWindow(chunk) = Trailing(stream, n) \o chunk
                          /\ \A i \in Carried : Len(Patterns[i]) <= n + 1
<1>1. MaxBuffer \in Nat /\ Seam \in Nat
  BY MaxBufferAssumption, MaxPatternLenAssumption DEF Seam
<1>2. Trailing(buffer, Seam)
        = Trailing(stream, IF MaxBuffer <= Seam THEN MaxBuffer ELSE Seam)
  BY <1>1, TrailingOfTrailing DEF TypeOK, BufferIsTrailingWindow
<1>3. ASSUME NEW i \in Carried
      PROVE  Len(Patterns[i]) <= (IF MaxBuffer <= Seam THEN MaxBuffer ELSE Seam) + 1
  <2>1. i \in DOMAIN Patterns /\ Len(Patterns[i]) <= MaxBuffer + 1
    BY DEF Carried
  <2>2. Len(Patterns[i]) \in 1..Seam + 1
    BY <2>1, PatternLengths
  <2> QED
    BY <1>1, <2>1, <2>2
<1>4. (IF MaxBuffer <= Seam THEN MaxBuffer ELSE Seam) \in Nat
  BY <1>1
<1> QED
  BY <1>2, <1>3, <1>4 DEF ScanWindow

\* The initial state satisfies the invariant.
LEMMA InitIInv == Init => IInv /\ SomeRecall /\ FullRecall
<1> SUFFICES ASSUME Init PROVE IInv /\ SomeRecall /\ FullRecall
  OBVIOUS
<1> USE DEF Init
<1>1. Search!Occurring(stream) = {}
  <2> SUFFICES ASSUME NEW i \in Search!Occurring(stream) PROVE FALSE
    OBVIOUS
  <2>1. i \in DOMAIN Patterns /\ \E off \in 0..0 : off + Len(Patterns[i]) <= 0
    BY DEF Search!Occurring, Search!OccursAt
  <2> QED
    BY <2>1, PatternLengths
<1>2. TypeOK
  <2>1. buffer \in Seq(Byte) /\ stream \in Seq(Byte)
    BY EmptySeq
  <2>2. result \in FeedResults
    BY DEF FeedResults
  <2> QED
    BY <2>1, <2>2 DEF TypeOK
<1>3. BufferIsTrailingWindow
  BY MaxBufferAssumption DEF BufferIsTrailingWindow, Trailing
<1> QED
  BY <1>1, <1>2, <1>3
  DEF IInv, CountAgrees, FlagAgrees, ResultAgrees, NoResult, Precision,
      SomeRecall, FullRecall, ChunkingIndependent

\* What one feed does to the parts of the invariant, for any automaton.
LEMMA FeedStep ==
    ASSUME IInv, NEW chunk \in Chunks, Feed(chunk)
    PROVE  /\ IInv'
           /\ SomeRecall  => SomeRecall'
           /\ FullRecall  => FullRecall'
<1> DEFINE window == ScanWindow(chunk)
<1>1. chunk \in Seq(Byte) /\ Len(chunk) \in Nat
  BY ChunksAssumption, LenProperties
<1>2. PICK recorded \in Recorded(window) :
        /\ matched_patterns' = matched_patterns \cup recorded
        /\ can_stop_early' = (can_stop_early \/ ~(recorded \subseteq matched_patterns))
  BY DEF Feed, Retained
<1>3. /\ recorded \subseteq Search!Occurring(window)
      /\ Search!Occurring(window) # {} => recorded # {}
      /\ Overlapping => recorded = Search!Occurring(window)
  BY DEF Recorded
<1>4. PICK n \in Nat : /\ window = Trailing(stream, n) \o chunk
                      /\ \A i \in Carried : Len(Patterns[i]) <= n + 1
  BY ScanWindowOfStream DEF IInv
<1>5. stream' = stream \o chunk /\ stream' \in Seq(Byte) /\ stream \in Seq(Byte)
  BY <1>1, ConcatProperties DEF Feed, Retained, IInv, TypeOK
<1>6. Search!Occurring(stream') = Search!Occurring(stream)'
  BY DEF Search!Occurring, Search!OccursAt
<1>7. Search!Occurring(window) \subseteq Search!Occurring(stream')
  BY <1>1, <1>4, <1>5, WindowIsSound
<1>8. Search!Occurring(stream) \subseteq Search!Occurring(stream')
  BY <1>1, <1>5, OccurringGrows
<1>9. ASSUME NEW i \in Search!Occurring(stream'), i \in Carried
      PROVE  i \in Search!Occurring(stream) \cup Search!Occurring(window)
  BY <1>1, <1>4, <1>5, <1>9, WindowIsComplete
<1> HIDE DEF window
<1>10. Precision'
  BY <1>2, <1>3, <1>6, <1>7, <1>8 DEF IInv, Precision
<1>11. FlagAgrees'
  BY <1>2 DEF IInv, FlagAgrees
<1>12. BufferIsTrailingWindow' /\ buffer' \in Seq(Byte)
  <2>1. buffer' = Trailing(Trailing(stream, MaxBuffer) \o chunk, MaxBuffer)
    BY DEF Feed, Retained, IInv, BufferIsTrailingWindow
  <2>2. buffer' = Trailing(stream', MaxBuffer)
    BY <1>1, <1>5, <2>1, MaxBufferAssumption, TrailingOfConcat
  <2> QED
    BY <1>5, <2>2, MaxBufferAssumption, TrailingProperties DEF BufferIsTrailingWindow
<1>13. CountAgrees' /\ bytes_processed' \in Nat
  <2>1. Len(stream') = Len(stream) + Len(chunk)
    BY <1>1, <1>5, ConcatProperties
  <2> QED
    BY <1>1, <2>1 DEF Feed, Retained, IInv, TypeOK, CountAgrees
<1>14. matched_patterns' \in SUBSET DOMAIN Patterns
  BY <1>2, <1>3 DEF IInv, TypeOK, Search!Occurring
<1>15. can_stop_early' \in BOOLEAN
  BY <1>2 DEF IInv, TypeOK
<1>16. result' \in FeedResults /\ ResultAgrees'
  <2>1. result' = FeedResult
    BY DEF Feed, Retained
  <2> QED
    BY <1>13, <1>14, <1>15, <2>1 DEF FeedResult, FeedResults, NoResult, ResultAgrees
<1>17. TypeOK'
  BY <1>5, <1>12, <1>13, <1>14, <1>15, <1>16 DEF TypeOK
<1>18. SomeRecall => SomeRecall'
  BY <1>2, <1>3, <1>6, <1>9 DEF SomeRecall, Carried
<1>19. FullRecall => FullRecall'
  BY <1>2, <1>3, <1>6, <1>9 DEF FullRecall, ChunkingIndependent, Carried
<1> QED
  BY <1>10, <1>11, <1>12, <1>13, <1>16, <1>17, <1>18, <1>19 DEF IInv

\* The invariants depend on the variables only.
LEMMA StutterStep ==
    ASSUME IInv, UNCHANGED vars
    PROVE  /\ IInv'
           /\ SomeRecall => SomeRecall'
           /\ FullRecall => FullRecall'
<1>1. Search!Occurring(stream)' = Search!Occurring(stream)
  BY DEF vars, Search!Occurring, Search!OccursAt
<1>2. BufferIsTrailingWindow'
  BY DEF vars, IInv, BufferIsTrailingWindow, Trailing
<1> QED
  BY <1>1, <1>2
  DEF vars, IInv, TypeOK, CountAgrees, FlagAgrees, ResultAgrees, Precision,
      SomeRecall, FullRecall, ChunkingIndependent, Carried

\* The strengthened invariant holds in every reachable state.
THEOREM Invariance == Spec => [](IInv /\ SomeRecall /\ FullRecall)
<1>1. Init => IInv /\ SomeRecall /\ FullRecall
  BY InitIInv
<1>2. IInv /\ SomeRecall /\ FullRecall /\ [Next]_vars
        => (IInv /\ SomeRecall /\ FullRecall)'
  BY FeedStep, StutterStep DEF Next
<1> QED
  BY <1>1, <1>2, PTL DEF Spec

\* The fields keep their types for every automaton and every chunking.
THEOREM TypeCorrectness == Spec => []TypeOK
<1>1. IInv => TypeOK
  BY DEF IInv
<1> QED
  BY <1>1, Invariance, PTL

\* `into_buffer` always holds exactly the last max_buffer bytes of the response.
THEOREM BufferTheorem == Spec => []BufferIsTrailingWindow
<1>1. IInv => BufferIsTrailingWindow
  BY DEF IInv
<1> QED
  BY <1>1, Invariance, PTL

\* No false positive, whatever the buffer size and the kind of automaton.
THEOREM PrecisionTheorem == Spec => []Precision
<1>1. IInv => Precision
  BY DEF IInv
<1> QED
  BY <1>1, Invariance, PTL

\* The cancel decision is exact for the patterns the buffer carries over, whatever
\* its size, even for an automaton that cannot run an overlapping search.
THEOREM CancelTheorem == Spec => []CancelIffOccurred
<1>1. IInv /\ SomeRecall => CancelIffOccurred
  BY DEF IInv, SomeRecall, FlagAgrees, Precision, CancelIffOccurred
<1> QED
  BY <1>1, Invariance, PTL

\* No false negative among the patterns the buffer carries over, whatever its size
\* and the chunking, with an overlapping search.
THEOREM RecallTheorem ==
    ASSUME Overlapping PROVE Spec => []ChunkingIndependent
<1>1. FullRecall => ChunkingIndependent
  BY DEF FullRecall
<1> QED
  BY <1>1, Invariance, PTL

\* `bytes_saved` claims savings only after a real match, whatever the buffer.
THEOREM SavingsTheorem ==
    ASSUME MaxStream \in Nat PROVE Spec => []SavingsAreEarned
<1>1. IInv => SavingsAreEarned
  <2> SUFFICES ASSUME IInv, NEW total \in 0..MaxStream + 1, BytesSaved(total) > 0
               PROVE  /\ Search!Occurring(stream) # {}
                      /\ total = Len(stream) + BytesSaved(total)
    BY DEF SavingsAreEarned
  <2>1. bytes_processed \in Nat /\ bytes_processed = Len(stream)
    BY DEF IInv, TypeOK, CountAgrees
  <2>2. can_stop_early /\ BytesSaved(total) = total - bytes_processed
    BY <2>1 DEF BytesSaved
  <2>3. Search!Occurring(stream) # {}
    BY <2>2 DEF IInv, FlagAgrees, Precision
  <2> QED
    BY <2>1, <2>2, <2>3
<1> QED
  BY <1>1, Invariance, PTL

\* Draining the stream after a result never takes that result back.
THEOREM AdvanceTheorem == Spec => ResultsOnlyAdvance
<1> DEFINE Advance == /\ Rank(result.kind) <= Rank(result'.kind)
                      /\ matched_patterns \subseteq matched_patterns'
<1>1. IInv /\ IInv' /\ [Next]_vars => [Advance]_vars
  <2> SUFFICES ASSUME IInv, IInv', NEW chunk \in Chunks, Feed(chunk)
               PROVE  Advance
    BY DEF Next
  <2>1. matched_patterns \subseteq matched_patterns' /\ (can_stop_early => can_stop_early')
    BY DEF Feed, Retained
  <2>2. result' = FeedResult
    BY DEF Feed, Retained
  <2>3. Len(buffer) >= MaxBuffer => Len(buffer') >= MaxBuffer
    <3>1. stream \in Seq(Byte) /\ chunk \in Seq(Byte) /\ stream' = stream \o chunk
      BY ChunksAssumption DEF Feed, Retained, IInv, TypeOK
    <3>2. Len(stream) <= Len(stream') /\ Len(stream) \in Nat /\ Len(stream') \in Nat
      BY <3>1, ConcatProperties, LenProperties
    <3>3. Len(buffer) = (IF Len(stream) <= MaxBuffer THEN Len(stream) ELSE MaxBuffer)
      BY <3>1, MaxBufferAssumption, TrailingProperties DEF IInv, BufferIsTrailingWindow
    <3>4. stream' \in Seq(Byte) /\ buffer' = Trailing(stream', MaxBuffer)
      BY DEF IInv, TypeOK, BufferIsTrailingWindow
    <3>5. Len(buffer') = (IF Len(stream') <= MaxBuffer THEN Len(stream') ELSE MaxBuffer)
      BY <3>4, MaxBufferAssumption, TrailingProperties
    <3> QED
      BY <3>2, <3>3, <3>5, MaxBufferAssumption
  <2>4. result.kind \in {"None", "NeedMore", "MatchFound", "BufferFull"}
    BY DEF IInv, TypeOK, FeedResults, NoResult
  <2>5. can_stop_early' => result'.kind = "MatchFound"
    BY <2>2 DEF FeedResult
  <2>6. ~can_stop_early' /\ Len(buffer') >= MaxBuffer => result'.kind = "BufferFull"
    BY <2>2 DEF FeedResult
  <2>7. result'.kind \in {"NeedMore", "MatchFound", "BufferFull"}
    BY <2>2 DEF FeedResult
  <2>8. Rank(result.kind) <= Rank(result'.kind)
    BY <2>1, <2>3, <2>4, <2>5, <2>6, <2>7 DEF Rank, IInv, ResultAgrees
  <2> QED
    BY <2>1, <2>8
<1> QED
  BY <1>1, Invariance, PTL DEF Spec, ResultsOnlyAdvance

\* With a buffer no shorter than the seam every pattern is carried over.
LEMMA AllCarried == ASSUME SeamFits PROVE Carried = DOMAIN Patterns
<1>1. MaxBuffer \in Nat /\ Seam \in Nat /\ Seam <= MaxBuffer
  BY MaxBufferAssumption, MaxPatternLenAssumption DEF Seam, SeamFits
<1>2. ASSUME NEW i \in DOMAIN Patterns
      PROVE  Len(Patterns[i]) <= MaxBuffer + 1
  BY <1>1, PatternLengths
<1> QED
  BY <1>2 DEF Carried

\* With such a buffer the chunked search refines the search over the whole
\* stream: every feed is one step of StreamSearch.
THEOREM RefinementTheorem ==
    ASSUME SeamFits, Overlapping PROVE Spec => ImplementsSearch
<1>1. Init => Search!Init
  BY DEF Init, Search!Init
<1>2. /\ IInv /\ SomeRecall /\ FullRecall
      /\ (IInv /\ SomeRecall /\ FullRecall)'
      /\ [Next]_vars
      => [Search!Next]_<<stream, matched_patterns>>
  <2> SUFFICES ASSUME IInv', FullRecall', NEW chunk \in Chunks, Feed(chunk)
               PROVE  Search!Receive(chunk)
    BY DEF Next, vars, Search!Next
  <2>1. stream' = stream \o chunk
    BY DEF Feed, Retained
  <2>2. matched_patterns' = Search!Occurring(stream)'
    BY AllCarried DEF IInv, Precision, FullRecall, ChunkingIndependent, Search!Occurring
  <2>3. Search!Occurring(stream)' = Search!Occurring(stream')
    BY DEF Search!Occurring, Search!OccursAt
  <2> QED
    BY <2>1, <2>2, <2>3 DEF Search!Receive
<1> QED
  BY <1>1, <1>2, Invariance, PTL DEF Spec, ImplementsSearch, Search!Spec, Search!vars
=============================================================================
