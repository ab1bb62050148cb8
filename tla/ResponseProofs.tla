--------------------------- MODULE ResponseProofs ---------------------------
(***************************************************************************)
(* Decoding, extraction, paths, substitution and comparison for every      *)
(* response, every chain of transforms, every list of extractors and every *)
(* condition, whichever texts happen to be well formed in an encoding.     *)
(* What gjson and the regexes find is as in ResponseText.  That a later    *)
(* extractor wins needs only to know which of them yield; substitution     *)
(* needs to know that all they yield are texts.                            *)
(***************************************************************************)
EXTENDS Response, SequenceLemmas

IsCall == request \in Requests

-----------------------------------------------------------------------------
\* The shape of a call.
LEMMA CallShape ==
    ASSUME NEW call \in Requests
    PROVE  /\ IsSeq(call.response.body)
           /\ Len(call.response.body) \in Nat
           /\ DOMAIN call.response.body = 1..Len(call.response.body)
           /\ Len(call.transforms) \in Nat /\ DOMAIN call.transforms = 1..Len(call.transforms)
           /\ Len(call.extractors) \in Nat /\ DOMAIN call.extractors = 1..Len(call.extractors)
           /\ \A n \in DOMAIN call.extractors :
                 /\ Len(call.extractors[n].patterns) \in Nat
                 /\ DOMAIN call.extractors[n].patterns = 1..Len(call.extractors[n].patterns)
                 /\ \A a, b \in call.extractors[n].name : a = b
<1>1. ASSUME NEW s, IsSequence(s)
      PROVE  IsSeq(s)
  BY <1>1 DEF IsSequence, Range, IsSeq
<1>2. ASSUME NEW s, IsSequence(s)
      PROVE  Len(s) \in Nat /\ DOMAIN s = 1..Len(s)
  BY <1>1, <1>2, SeqDomain
<1>3. /\ call.response.body \in Seq(Tokens)
      /\ IsSequence(call.transforms) /\ IsSequence(call.extractors)
      /\ \A n \in DOMAIN call.extractors :
            /\ call.extractors[n].patterns \in Seq(Text)
            /\ \A a, b \in call.extractors[n].name : a = b
  BY RequestAssumption DEF Text
<1>4. IsSeq(call.response.body) /\ \A n \in DOMAIN call.extractors : IsSeq(call.extractors[n].patterns)
  BY <1>3, SeqIsSeq
<1> QED
  BY <1>1, <1>2, <1>3, <1>4, SeqDomain

-----------------------------------------------------------------------------
\* Extraction.

Keys == UNION {KeyOf(request.extractors[n]) : n \in DOMAIN request.extractors}

\* The extractors run so far that give the key a value.
GivingSoFar(key) == {n \in Giving(key) : stage = "extract" => n < index}

\* The value an extractor takes from the first of its patterns that yields.
IsFirstYield(extractor, value, response) ==
    \E m \in DOMAIN extractor.patterns :
        /\ value \in Yields(extractor, extractor.patterns[m], response)
        /\ \A k \in 1..m - 1 : Yields(extractor, extractor.patterns[k], response) = {}

\* LastExtractorWins, of the extractors run so far.
ExtractInv ==
    /\ IsCall
    /\ index \in Nat \ {0}
    /\ IF stage = "transform" THEN DOMAIN extracted = {}
       ELSE /\ DOMAIN extracted = {key \in Keys : GivingSoFar(key) # {}}
            /\ \A key \in DOMAIN extracted :
                  IsFirstYield(request.extractors[Max(GivingSoFar(key))], extracted[key], Decoded)

\* An extractor yields what the first of its patterns yields that yields at all.
LEMMA FirstPatternYields ==
    ASSUME NEW extractor, NEW response, Len(extractor.patterns) \in Nat,
           DOMAIN extractor.patterns = 1..Len(extractor.patterns)
    PROVE  /\ \A value \in YieldsOf(extractor, response) : IsFirstYield(extractor, value, response)
           /\ YieldsOf(extractor, response) # {} <=>
                 \E m \in DOMAIN extractor.patterns :
                    Yields(extractor, extractor.patterns[m], response) # {}
<1> DEFINE of(m) == Yields(extractor, extractor.patterns[m], response)
           yielding == {m \in DOMAIN extractor.patterns : of(m) # {}}
<1>1. CASE yielding = {}
  BY <1>1 DEF YieldsOf
<1>2. CASE yielding # {}
  <2>1. yielding \in SUBSET Nat
    OBVIOUS
  <2>2. \E n \in yielding : \A m \in yielding : n <= m
    <3> HIDE DEF yielding
    <3> QED
      BY <1>2, <2>1, LeastNat
  <2>3. Min(yielding) \in yielding /\ \A m \in yielding : Min(yielding) <= m
    BY <2>2 DEF Min
  <2>4. YieldsOf(extractor, response) = of(Min(yielding))
    BY <1>2 DEF YieldsOf
  <2>5. \A k \in 1..Min(yielding) - 1 : of(k) = {}
    <3>1. ASSUME NEW k \in 1..Min(yielding) - 1
          PROVE  k \in DOMAIN extractor.patterns /\ ~(Min(yielding) <= k)
      BY <2>3
    <3> QED
      BY <3>1, <2>3
  <2>6. of(Min(yielding)) # {} /\ Min(yielding) \in DOMAIN extractor.patterns
    BY <2>3
  <2> HIDE DEF yielding
  <2> QED
    BY <2>4, <2>5, <2>6 DEF IsFirstYield
<1> QED
  BY <1>1, <1>2

\* An extractor has at most one key.
LEMMA OneKey ==
    ASSUME IsCall, NEW n \in DOMAIN request.extractors
    PROVE  /\ \A a, b \in KeyOf(request.extractors[n]) : a = b
           /\ Len(request.extractors[n].patterns) \in Nat
           /\ DOMAIN request.extractors[n].patterns = 1..Len(request.extractors[n].patterns)
<1> DEFINE extractor == request.extractors[n]
<1>1. /\ \A a, b \in extractor.name : a = b
      /\ Len(extractor.patterns) \in Nat
      /\ DOMAIN extractor.patterns = 1..Len(extractor.patterns)
  BY CallShape DEF IsCall
<1>2. CASE extractor.name # {}
  BY <1>1, <1>2 DEF KeyOf
<1>3. CASE extractor.name = {}
  <2>1. KeyOf(extractor) = {extractor.patterns[k] : k \in DOMAIN extractor.patterns \cap {1}}
    BY <1>3 DEF KeyOf
  <2>2. KeyOf(extractor) \subseteq {extractor.patterns[1]}
    BY <2>1
  <2> QED
    BY <1>1, <2>2
<1> QED
  BY <1>2, <1>3

\* What an extractor run on an earlier response gives does not change while the
\* others run.
LEMMA SameGiving ==
    ASSUME request' = request, data' = data
    PROVE  /\ Decoded' = Decoded
           /\ \A extractor : Considered(extractor)' <=> Considered(extractor)
           /\ \A key : Giving(key)' = Giving(key)
<1>1. Decoded' = Decoded
  BY DEF Decoded
<1>2. \A extractor : Considered(extractor)' <=> Considered(extractor)
  BY DEF Considered
<1> QED
  BY <1>1, <1>2 DEF Giving

\* The next extractor either gives a key a new last value or leaves the keys alone.
LEMMA ExtractKeeps == ExtractInv /\ Extract => ExtractInv'
<1> SUFFICES ASSUME ExtractInv, Extract
             PROVE  ExtractInv'
  OBVIOUS
<1> DEFINE extractor == request.extractors[index]
           values == IF Considered(extractor) THEN YieldsOf(extractor, Decoded) ELSE {}
<1>1. /\ index \in DOMAIN request.extractors /\ index \in Nat \ {0} /\ index' = index + 1
      /\ stage = "extract" /\ stage' = stage /\ request' = request /\ data' = data
      /\ DOMAIN request.extractors \subseteq Nat
  BY CallShape DEF ExtractInv, IsCall, Extract
<1>2. /\ DOMAIN extracted = {key \in Keys : GivingSoFar(key) # {}}
      /\ \A key \in DOMAIN extracted :
            IsFirstYield(request.extractors[Max(GivingSoFar(key))], extracted[key], Decoded)
  BY <1>1 DEF ExtractInv
<1>3. /\ IsCall' /\ index' \in Nat \ {0} /\ Keys' = Keys /\ Decoded' = Decoded
  BY <1>1, SameGiving DEF ExtractInv, IsCall, Keys
<1>4. ASSUME NEW key
      PROVE  /\ index \in Giving(key) <=> key \in KeyOf(extractor) /\ values # {}
             /\ GivingSoFar(key)' = GivingSoFar(key) \cup ({index} \cap Giving(key))
             /\ \A n \in GivingSoFar(key) : n \in Nat /\ n < index
  <2>1. YieldsOf(extractor, Decoded) # {} <=>
           \E m \in DOMAIN extractor.patterns : Yields(extractor, extractor.patterns[m], Decoded) # {}
    BY <1>1, OneKey, FirstPatternYields DEF ExtractInv
  <2>2. index \in Giving(key) <=> key \in KeyOf(extractor) /\ values # {}
    BY <1>1, <2>1 DEF Giving
  <2>3. Giving(key)' = Giving(key) /\ Giving(key) \subseteq Nat
    BY <1>1, SameGiving DEF Giving
  <2>4. GivingSoFar(key) = {n \in Giving(key) : n < index}
    BY <1>1 DEF GivingSoFar
  <2>5. GivingSoFar(key)' = {n \in Giving(key) : n < index + 1}
    BY <1>1, <2>3 DEF GivingSoFar
  <2>6. \A n \in Giving(key) : n < index + 1 <=> n < index \/ n = index
    BY <2>3, <1>1
  <2> QED
    BY <2>2, <2>3, <2>4, <2>5, <2>6
<1>5. CASE (values = {} \/ KeyOf(extractor) = {}) /\ extracted' = extracted
  <2>1. \A key : index \notin Giving(key)
    BY <1>4, <1>5
  <2>2. \A key : GivingSoFar(key)' = GivingSoFar(key)
    BY <1>4, <2>1
  <2> QED
    BY <1>1, <1>2, <1>3, <1>5, <2>2 DEF ExtractInv
<1>6. ASSUME NEW value \in values, NEW k \in KeyOf(extractor),
             extracted' = [j \in DOMAIN extracted \cup {k} |-> IF j = k THEN value ELSE extracted[j]]
      PROVE  ExtractInv'
  <2>1. \A key : index \in Giving(key) <=> key = k
    <3>1. \A key \in KeyOf(extractor) : key = k
      BY <1>1, OneKey DEF ExtractInv
    <3> HIDE DEF extractor, values
    <3> QED
      BY <3>1, <1>4, <1>6
  <2>2. \A key : key # k => GivingSoFar(key)' = GivingSoFar(key)
    BY <1>4, <2>1
  <2>3. GivingSoFar(k)' = GivingSoFar(k) \cup {index}
    BY <1>4, <2>1
  <2>4. k \in Keys
    BY <1>1 DEF Keys
  <2>5. DOMAIN extracted' = {key \in Keys : GivingSoFar(key)' # {}}
    <3>1. DOMAIN extracted' = DOMAIN extracted \cup {k}
      BY <1>6
    <3> QED
      BY <3>1, <1>2, <2>2, <2>3, <2>4
  <2>6. Max(GivingSoFar(k)') = index
    <3>1. index \in GivingSoFar(k)' /\ \A n \in GivingSoFar(k)' : index >= n /\ (n >= index => n = index)
      BY <2>3, <1>4, <1>1
    <3>2. /\ Max(GivingSoFar(k)') \in GivingSoFar(k)'
          /\ \A n \in GivingSoFar(k)' : Max(GivingSoFar(k)') >= n
      BY <3>1 DEF Max
    <3> QED
      BY <3>1, <3>2
  <2>7. IsFirstYield(extractor, value, Decoded)
    BY <1>1, OneKey, FirstPatternYields DEF ExtractInv
  <2>8. ASSUME NEW key \in DOMAIN extracted'
        PROVE  IsFirstYield(request.extractors[Max(GivingSoFar(key)')], extracted'[key], Decoded)
    <3>1. CASE key = k
      BY <3>1, <1>6, <2>6, <2>7
    <3>2. CASE key # k
      BY <3>2, <1>2, <1>6, <2>2
    <3> QED
      BY <3>1, <3>2
  <2> QED
    BY <1>1, <1>3, <2>5, <2>8 DEF ExtractInv
<1> QED
  BY <1>5, <1>6 DEF Extract

\* The other steps extract nothing; the one that starts the extraction does so
\* before any extractor has run, and the one that ends it when all have.
LEMMA OthersExtractNothing ==
    ExtractInv /\ (Transform \/ BodyReady \/ AllExtracted \/ (\E key \in pending : Substitute(key))
                      \/ Evaluate \/ UNCHANGED vars)
    => ExtractInv'
<1> SUFFICES ASSUME ExtractInv,
                    \/ Transform \/ BodyReady \/ AllExtracted
                    \/ (\E key \in pending : Substitute(key)) \/ Evaluate \/ UNCHANGED vars
             PROVE  ExtractInv'
  OBVIOUS
<1>1. request' = request /\ extracted' = extracted /\ IsCall' /\ Keys' = Keys
  BY DEF ExtractInv, Transform, BodyReady, AllExtracted, Substitute, Evaluate, vars, IsCall, Keys
<1>2. index \in Nat \ {0} /\ index' \in Nat \ {0}
  <2>1. index' \in {index, index + 1, 1}
    BY DEF Transform, BodyReady, AllExtracted, Substitute, Evaluate, vars
  <2> QED
    BY <2>1 DEF ExtractInv
<1>3. /\ Len(request.extractors) \in Nat
      /\ DOMAIN request.extractors = 1..Len(request.extractors)
  BY CallShape DEF ExtractInv, IsCall
<1>4. CASE stage' = "transform"
  <2>1. stage = "transform"
    BY <1>4 DEF Transform, BodyReady, AllExtracted, Substitute, Evaluate, vars
  <2> QED
    BY <2>1, <1>1, <1>2, <1>4 DEF ExtractInv
<1>5. CASE BodyReady
  <2>1. stage = "transform" /\ stage' = "extract" /\ index' = 1
    BY <1>5 DEF BodyReady
  <2>2. \A key : GivingSoFar(key)' = {}
    <3>1. \A key : Giving(key)' \subseteq DOMAIN request.extractors
      BY <1>1 DEF Giving
    <3>2. \A n \in DOMAIN request.extractors : ~(n < 1)
      BY <1>3
    <3> QED
      BY <2>1, <3>1, <3>2 DEF GivingSoFar
  <2>3. DOMAIN extracted' = {}
    BY <1>1, <2>1 DEF ExtractInv
  <2> QED
    BY <1>1, <1>2, <2>1, <2>2, <2>3 DEF ExtractInv
<1>6. CASE stage' # "transform" /\ ~BodyReady
  <2>1. stage # "transform" /\ data' = data
    BY <1>6 DEF Transform, AllExtracted, Substitute, Evaluate, vars
  <2>2. /\ Decoded' = Decoded
        /\ \A key : Giving(key)' = Giving(key)
    BY <1>1, <2>1, SameGiving
  <2>3. \A key : GivingSoFar(key)' = GivingSoFar(key)
    <3>1. CASE AllExtracted
      <4>1. /\ stage = "extract" /\ stage' = "substitute"
            /\ \A n \in DOMAIN request.extractors : n < index
        BY <3>1, <1>2, <1>3 DEF AllExtracted
      <4>2. \A key : Giving(key) \subseteq DOMAIN request.extractors
        BY DEF Giving
      <4> QED
        BY <2>2, <4>1, <4>2 DEF GivingSoFar
    <3>2. CASE ~AllExtracted
      <4>1. \/ stage' = stage /\ index' = index
            \/ stage = "substitute" /\ stage' = "done"
        BY <3>2, <1>6, <2>1 DEF Transform, Substitute, Evaluate, vars
      <4> QED
        BY <2>2, <4>1 DEF GivingSoFar
    <3> QED
      BY <3>1, <3>2
  <2>4. /\ DOMAIN extracted = {key \in Keys : GivingSoFar(key) # {}}
        /\ \A key \in DOMAIN extracted :
              IsFirstYield(request.extractors[Max(GivingSoFar(key))], extracted[key], Decoded)
    BY <2>1 DEF ExtractInv
  <2> QED
    BY <1>1, <1>2, <1>6, <2>2, <2>3, <2>4 DEF ExtractInv
<1> QED
  BY <1>4, <1>5, <1>6

\* Whatever the list of extractors, the keys they share and the patterns that
\* fail, a key ends with the value of the last extractor that yields one for it,
\* from the first of its patterns that does.
THEOREM ExtractionIsByTheLast == Spec => []LastExtractorWins
<1>1. Init => ExtractInv
  BY DEF Init, ExtractInv, IsCall
<1>2. ExtractInv /\ [Next]_vars => ExtractInv'
  BY ExtractKeeps, OthersExtractNothing DEF Next
<1>3. ExtractInv => LastExtractorWins
  <2> SUFFICES ASSUME ExtractInv, stage \in {"substitute", "done"}
               PROVE  LastExtractorWins
    BY DEF LastExtractorWins
  <2>1. \A key : GivingSoFar(key) = Giving(key)
    BY DEF GivingSoFar, Giving
  <2>2. /\ DOMAIN extracted = {key \in Keys : Giving(key) # {}}
        /\ \A key \in DOMAIN extracted :
              IsFirstYield(request.extractors[Max(Giving(key))], extracted[key], Decoded)
    BY <2>1 DEF ExtractInv
  <2> QED
    BY <2>2 DEF LastExtractorWins, Keys, IsFirstYield
<1> QED
  BY <1>1, <1>2, <1>3, PTL DEF Spec

-----------------------------------------------------------------------------
(***************************************************************************)
(* Pieces joined by FlattenSeq.                                            *)
(***************************************************************************)

\* The equations that define a join.
LEMMA JoinedEquations ==
    ASSUME NEW N \in Nat, NEW p, NEW f, AreJoined(f, p, N)
    PROVE  f[0] = <<>> /\ \A n \in 1..N : f[n] = f[n - 1] \o p[n]
<1> DEFINE e(n) == IF n = 0 THEN <<>> ELSE f[n - 1] \o p[n]
<1>1. f = [n \in 0..N |-> e(n)]
  BY DEF AreJoined
<1>2. \A n \in 0..N : f[n] = e(n)
  <2> HIDE DEF e
  <2> QED
    BY <1>1
<1>3. f[0] = <<>>
  BY <1>2, 0 \in 0..N
<1>4. ASSUME NEW n \in 1..N PROVE f[n] = f[n - 1] \o p[n]
  <2>1. n \in 0..N /\ n # 0
    OBVIOUS
  <2> QED
    BY <1>2, <2>1
<1> QED
  BY <1>3, <1>4

\* What FlattenSeq makes of pieces is what joining them one after the other
\* comes to.
LEMMA FlattenIsJoined ==
    ASSUME NEW S, NEW p \in Seq(Seq(S))
    PROVE  \E f : AreJoined(f, p, Len(p)) /\ FlattenSeq(p) = f[Len(p)] /\ FlattenSeq(p) \in Seq(S)
<1>1. PICK N \in Nat : N = Len(p)
  BY LenProperties
<1>2. \A i \in 1..N : p[i] \in Seq(S)
  BY <1>1, ElementOfSeq
<1>3. PICK f : AreJoined(f, p, N)
  BY JoinsExist
<1>4. f[0] = <<>> /\ \A n \in 1..N : f[n] = f[n - 1] \o p[n]
  BY <1>3, JoinedEquations
<1>5. \A n \in 0..N : f[n] \in Seq(S)
  BY <1>2, <1>3, JoinsAreSequences
<1>6. CASE N = 0
  <2>1. p = <<>> /\ f[0] = <<>>
    BY <1>1, <1>4, <1>6, EmptySeq
  <2> QED
    BY <1>1, <1>3, <1>6, <2>1, EmptySeq DEF FlattenSeq
<1>7. CASE N # 0
  <2> DEFINE Rec(g) == g = [i \in 1..N |-> IF i = 1 THEN p[i] ELSE g[i - 1] \o p[i]]
             h == [i \in 1..N |-> f[i]]
  <2>1. Rec(h)
    <3>1. ASSUME NEW i \in 1..N
          PROVE  f[i] = IF i = 1 THEN p[i] ELSE h[i - 1] \o p[i]
      <4>1. f[i] = f[i - 1] \o p[i] /\ f[0] = <<>>
        BY <1>4
      <4>2. CASE i = 1
        <5>1. 1 \in 1..N /\ 1 - 1 = 0
          BY <4>2
        <5>2. f[1] = <<>> \o p[1] /\ p[1] \in Seq(S)
          BY <1>2, <1>4, <5>1
        <5> QED
          BY <4>2, <5>2, ConcatEmptySeq
      <4>3. CASE i # 1
        <5>1. i - 1 \in 1..N
          BY <4>3
        <5> QED
          BY <4>1, <4>3, <5>1
      <4> QED
        BY <4>2, <4>3
    <3> QED
      BY <3>1
  <2> HIDE DEF h
  <2>2. PICK g : g = (CHOOSE x : Rec(x)) /\ Rec(g)
    BY <2>1
  <2>3. FlattenSeq(p) = g[N]
    BY <1>1, <1>7, <2>2 DEF FlattenSeq
  <2> DEFINE T == {k \in 1..N : g[k] # f[k]}
  <2>4. T = {}
    <3> SUFFICES ASSUME T # {} PROVE FALSE
      OBVIOUS
    <3>1. PICK k \in T : \A m \in T : k <= m
      <4>1. T \in SUBSET Nat
        OBVIOUS
      <4> HIDE DEF T
      <4> QED
        BY <4>1, LeastNat
    <3>2. g[k] = IF k = 1 THEN p[k] ELSE g[k - 1] \o p[k]
      BY <2>2, <3>1
    <3>3. f[k] = f[k - 1] \o p[k] /\ f[0] = <<>>
      BY <1>4, <3>1
    <3>4. CASE k = 1
      <4>1. 1 \in 1..N /\ 1 - 1 = 0
        BY <3>1, <3>4
      <4>2. f[1] = <<>> \o p[1] /\ p[1] \in Seq(S)
        BY <1>2, <1>4, <4>1
      <4> QED
        BY <3>1, <3>2, <3>4, <4>2, ConcatEmptySeq
    <3>5. CASE k # 1
      <4>1. k - 1 \in 1..N /\ k - 1 \notin T
        BY <3>1, <3>5
      <4> QED
        BY <3>1, <3>2, <3>3, <3>5, <4>1
    <3> QED
      BY <3>4, <3>5
  <2>5. g[N] = f[N]
    BY <1>7, <2>4
  <2> QED
    BY <1>1, <1>3, <1>5, <2>3, <2>5
<1> QED
  BY <1>6, <1>7

\* The pieces of two lists join to the joins of each.
LEMMA FlattenJoins ==
    ASSUME NEW S, NEW p \in Seq(Seq(S)), NEW q \in Seq(Seq(S))
    PROVE  FlattenSeq(p \o q) = FlattenSeq(p) \o FlattenSeq(q)
<1>1. PICK r, a, b : r = p \o q /\ a = Len(p) /\ b = Len(q)
  OBVIOUS
<1>2. /\ r \in Seq(Seq(S)) /\ Len(r) = a + b /\ a \in Nat /\ b \in Nat
      /\ \A i \in 1..a + b : r[i] = IF i <= a THEN p[i] ELSE q[i - a]
  BY <1>1, ConcatProperties, LenProperties
<1>3. PICK f : AreJoined(f, r, a + b) /\ FlattenSeq(r) = f[a + b]
  BY <1>2, FlattenIsJoined
<1>4. PICK g : AreJoined(g, p, a) /\ FlattenSeq(p) = g[a] /\ g[a] \in Seq(S)
  BY <1>1, FlattenIsJoined
<1>5. PICK h : AreJoined(h, q, b) /\ FlattenSeq(q) = h[b]
  BY <1>1, FlattenIsJoined
<1>6. \A n \in 0..b : h[n] \in Seq(S)
  <2>1. \A i \in 1..b : q[i] \in Seq(S)
    BY <1>1, ElementOfSeq
  <2> QED
    BY <1>2, <1>5, <2>1, JoinsAreSequences
<1>7. /\ f[0] = <<>> /\ \A n \in 1..a + b : f[n] = f[n - 1] \o r[n]
      /\ g[0] = <<>> /\ \A n \in 1..a : g[n] = g[n - 1] \o p[n]
      /\ h[0] = <<>> /\ \A n \in 1..b : h[n] = h[n - 1] \o q[n]
  <2>1. a + b \in Nat
    BY <1>2
  <2>2. f[0] = <<>> /\ \A n \in 1..a + b : f[n] = f[n - 1] \o r[n]
    BY <1>3, <2>1, JoinedEquations
  <2>3. g[0] = <<>> /\ \A n \in 1..a : g[n] = g[n - 1] \o p[n]
    <3>1. a \in Nat /\ AreJoined(g, p, a)
      BY <1>2, <1>4
    <3> QED
      BY ONLY <3>1, JoinedEquations
  <2>4. h[0] = <<>> /\ \A n \in 1..b : h[n] = h[n - 1] \o q[n]
    <3>1. b \in Nat /\ AreJoined(h, q, b)
      BY <1>2, <1>5
    <3> QED
      BY ONLY <3>1, JoinedEquations
  <2> QED
    BY <2>2, <2>3, <2>4
<1>8. f[a] = g[a]
  <2> DEFINE T == {k \in 0..a : f[k] # g[k]}
  <2>1. T = {}
    <3> SUFFICES ASSUME T # {} PROVE FALSE
      OBVIOUS
    <3>1. PICK k \in T : \A m \in T : k <= m
      <4>1. T \in SUBSET Nat
        BY <1>2
      <4> HIDE DEF T
      <4> QED
        BY <4>1, LeastNat
    <3>2. k # 0
      BY <1>7, <3>1
    <3>3. k - 1 \in 0..a /\ k - 1 \notin T /\ k \in 0..a + b /\ k \in 1..a + b /\ k <= a
      BY <1>2, <3>1, <3>2
    <3>4. f[k] = f[k - 1] \o p[k] /\ g[k] = g[k - 1] \o p[k]
      <4>1. k \in 1..a
        BY <1>2, <3>1, <3>2
      <4> QED
        BY <1>2, <1>7, <3>3, <4>1
    <3> QED
      BY <3>1, <3>3, <3>4
  <2>2. a \in 0..a
    BY <1>2
  <2> QED
    BY <2>1, <2>2
<1>9. f[a + b] = g[a] \o h[b]
  <2> DEFINE joins(k) == f[a + k] = g[a] \o h[k]
           T == {k \in 0..b : ~joins(k)}
  <2> HIDE DEF joins
  <2>1. b \in 0..b
    BY <1>2
  <2>2. T = {}
    <3> SUFFICES ASSUME T # {} PROVE FALSE
      OBVIOUS
    <3>1. PICK k \in T : \A m \in T : k <= m
      <4>1. T \in SUBSET Nat
        BY <1>2
      <4> HIDE DEF T
      <4> QED
        BY <4>1, LeastNat
    <3>2. CASE k = 0
      <4>1. h[0] = <<>>
        BY <1>7
      <4>2. f[a + k] = g[a] /\ h[k] = <<>>
        BY <1>2, <1>8, <3>2, <4>1
      <4> QED
        BY <1>4, <3>1, <4>2, ConcatEmptySeq DEF joins
    <3>3. CASE k # 0
      <4>1. k - 1 \in 0..b /\ k \in 1..b
        BY <1>2, <3>1, <3>3
      <4>2. k - 1 \notin T
        BY <1>2, <3>1, <4>1
      <4>3. /\ a + k \in 1..a + b /\ ~(a + k <= a) /\ (a + k) - a = k
            /\ (a + k) - 1 = a + (k - 1)
        BY ONLY <1>2, <4>1
      <4>4. f[a + k] = f[a + (k - 1)] \o q[k]
        BY <1>2, <1>7, <4>3
      <4>5. h[k] = h[k - 1] \o q[k]
        BY <1>7, <4>1
      <4>6. f[a + (k - 1)] = g[a] \o h[k - 1]
        BY <4>1, <4>2 DEF joins
      <4>7. PICK x, y, z : x = g[a] /\ y = h[k - 1] /\ z = q[k]
        OBVIOUS
      <4>8. x \in Seq(S) /\ y \in Seq(S) /\ z \in Seq(S)
        BY <1>1, <1>4, <1>6, <4>1, <4>7, ElementOfSeq
      <4>9. (x \o y) \o z = x \o (y \o z)
        BY ONLY <4>8
      <4> QED
        BY <3>1, <4>4, <4>5, <4>6, <4>7, <4>9 DEF joins
    <3> QED
      BY <3>2, <3>3
  <2> QED
    BY <2>1, <2>2 DEF joins
<1> QED
  BY <1>1, <1>2, <1>3, <1>4, <1>5, <1>9

\* The elements of a text, one by one, join to the text.
LEMMA FlattenElements ==
    ASSUME NEW S, NEW s \in Seq(S), NEW p, p = [i \in DOMAIN s |-> <<s[i]>>]
    PROVE  FlattenSeq(p) = s
<1>1. /\ Len(s) \in Nat /\ DOMAIN s = 1..Len(s) /\ \A i \in 1..Len(s) : s[i] \in S
  BY LenProperties, ElementOfSeq
<1>2. p \in Seq(Seq(S)) /\ Len(p) = Len(s)
  <2>1. \A i \in 1..Len(s) : <<s[i]>> \in Seq(S)
    BY <1>1
  <2>2. p \in [1..Len(s) -> Seq(S)]
    BY <1>1, <2>1
  <2>3. p \in Seq(Seq(S))
    BY <1>1, <2>2, SeqDef
  <2> QED
    BY <1>1, <2>2, <2>3, LenProperties
<1>3. PICK f : AreJoined(f, p, Len(s)) /\ FlattenSeq(p) = f[Len(s)]
  BY <1>2, FlattenIsJoined
<1>4. f[0] = <<>>
  BY <1>1, <1>3 DEF AreJoined
<1>5. AreElements(p, s, 0, Len(s))
  BY <1>1 DEF AreElements
<1>6. GrowsLike(f, s, 0, Len(s))
  <2>1. 0 \in 0..Len(s) /\ Len(s) \in 0..Len(s) /\ f[0] \in Seq(S)
    BY <1>1, <1>4, EmptySeq
  <2> QED
    BY <1>3, <1>5, <2>1, JoinedElements
<1>7. SubSeq(s, 1, Len(s)) = s
  BY SubSeqFull
<1> QED
  BY <1>3, <1>4, <1>6, <1>7, ConcatEmptySeq DEF GrowsLike

-----------------------------------------------------------------------------
(***************************************************************************)
(* Placeholders in a text.                                                 *)
(***************************************************************************)
\* The braces are tokens.
LEMMA BracesAreTokens == Open \in Tokens /\ Close \in Tokens /\ Open # Close
<1>1. Open \in Tokens /\ Close \in Tokens
  BY TokensAssumption, Zenon
<1>2. Open # Close
  BY Zenon DEF Open, Close
<1> QED
  BY <1>1, <1>2

Placeholder(key) == <<Open>> \o key \o <<Close>>

\* The elements of a placeholder.
LEMMA PlaceholderElements ==
    ASSUME NEW key \in Text
    PROVE  /\ Placeholder(key) \in Text /\ Len(Placeholder(key)) = Len(key) + 2
           /\ Placeholder(key)[1] = Open /\ Placeholder(key)[Len(key) + 2] = Close
           /\ \A j \in 1..Len(key) : Placeholder(key)[j + 1] = key[j]
<1>1. PICK n \in Nat : n = Len(key)
  BY LenProperties DEF Text
<1>2. PICK a, c, x : a = <<Open>> /\ c = <<Close>> /\ x = a \o key
  OBVIOUS
<1>3. a \in Seq(Tokens) /\ c \in Seq(Tokens) /\ key \in Seq(Tokens) /\ Len(a) = 1 /\ Len(c) = 1
      /\ a[1] = Open /\ c[1] = Close
  BY <1>2, BracesAreTokens DEF Text
<1>4. /\ x \in Seq(Tokens) /\ Len(x) = 1 + n
      /\ \A i \in 1..1 + n : x[i] = IF i <= 1 THEN a[i] ELSE key[i - 1]
  <2>1. /\ x \in Seq(Tokens) /\ Len(x) = Len(a) + Len(key)
        /\ \A i \in 1..Len(a) + Len(key) : x[i] = IF i <= Len(a) THEN a[i] ELSE key[i - Len(a)]
    BY ONLY <1>2, <1>3, ConcatProperties
  <2> QED
    BY <1>1, <1>3, <2>1
<1>5. /\ x \o c \in Seq(Tokens) /\ Len(x \o c) = n + 2
      /\ \A i \in 1..n + 2 : (x \o c)[i] = IF i <= n + 1 THEN x[i] ELSE c[i - (n + 1)]
  <2>1. /\ x \o c \in Seq(Tokens) /\ Len(x \o c) = Len(x) + Len(c)
        /\ \A i \in 1..Len(x) + Len(c) : (x \o c)[i] = IF i <= Len(x) THEN x[i] ELSE c[i - Len(x)]
    BY ONLY <1>3, <1>4, ConcatProperties
  <2>2. Len(x) + Len(c) = n + 2 /\ Len(x) = n + 1
    BY <1>1, <1>3, <1>4
  <2> QED
    BY <2>1, <2>2
<1>6. PICK p : p = x \o c /\ p = Placeholder(key)
  BY <1>2 DEF Placeholder
<1>7. p[1] = Open
  <2>1. 1 \in 1..n + 2 /\ 1 <= n + 1 /\ 1 \in 1..1 + n
    BY <1>1
  <2> QED
    BY <1>3, <1>4, <1>5, <1>6, <2>1
<1>8. p[n + 2] = Close
  <2>1. n + 2 \in 1..n + 2 /\ ~(n + 2 <= n + 1) /\ (n + 2) - (n + 1) = 1
    BY <1>1
  <2> QED
    BY <1>3, <1>5, <1>6, <2>1
<1>9. ASSUME NEW j \in 1..n PROVE p[j + 1] = key[j]
  <2>1. j + 1 \in 1..n + 2 /\ j + 1 <= n + 1 /\ j + 1 \in 1..1 + n /\ ~(j + 1 <= 1)
        /\ (j + 1) - 1 = j
    BY <1>1
  <2> QED
    BY <1>4, <1>5, <1>6, <2>1
<1> QED
  BY <1>1, <1>5, <1>6, <1>7, <1>8, <1>9 DEF Text

\* The placeholder of key stands at i.
Stands(t, key, i) ==
    /\ i \in 1..Len(t) /\ i + Len(key) + 1 <= Len(t)
    /\ t[i] = Open /\ t[i + Len(key) + 1] = Close
    /\ \A j \in 1..Len(key) : t[i + j] = key[j]

\* What it takes to start there.
LEMMA StartsIsStanding ==
    ASSUME NEW t \in Text, NEW key \in Text, NEW i \in 1..Len(t)
    PROVE  SubSeq(t, i, Min({Len(t), i + Len(key) + 1})) = Placeholder(key) <=> Stands(t, key, i)
<1>1. PICK N \in Nat, n \in Nat : N = Len(t) /\ n = Len(key) /\ \A j \in 1..N : t[j] \in Tokens
  BY LenProperties, ElementOfSeq DEF Text
<1>2. PICK m \in Nat : m = Min({N, i + n + 1}) /\ m \in {N, i + n + 1} /\ m <= N /\ m <= i + n + 1
  <2>1. \E x \in {N, i + n + 1} : \A y \in {N, i + n + 1} : x <= y
    BY <1>1
  <2>2. /\ Min({N, i + n + 1}) \in {N, i + n + 1}
        /\ \A y \in {N, i + n + 1} : Min({N, i + n + 1}) <= y
    BY <2>1 DEF Min
  <2> QED
    BY <1>1, <2>2
<1>3. PICK s, p : s = SubSeq(t, i, m) /\ p = Placeholder(key)
  OBVIOUS
<1>4. /\ s \in Seq(Tokens) /\ Len(s) = m - i + 1
      /\ \A j \in 1..m - i + 1 : s[j] = t[i + j - 1]
  <2>1. i \in Nat /\ i <= m
    BY <1>1, <1>2
  <2>2. \A j \in i..m : t[j] \in Tokens
    BY <1>1, <1>2
  <2>3. i \in Int /\ m \in Int
    BY <1>2, <2>1
  <2>4. /\ SubSeq(t, i, m) \in Seq(Tokens)
        /\ Len(SubSeq(t, i, m)) = IF i <= m THEN m - i + 1 ELSE 0
        /\ \A j \in 1..m - i + 1 : SubSeq(t, i, m)[j] = t[i + j - 1]
    BY ONLY <2>2, <2>3, SubSeqProperties
  <2> QED
    BY <1>3, <2>1, <2>4
<1>5. /\ p \in Seq(Tokens) /\ Len(p) = n + 2 /\ p[1] = Open /\ p[n + 2] = Close
      /\ \A j \in 1..n : p[j + 1] = key[j]
  BY <1>1, <1>3, PlaceholderElements DEF Text
<1>6. ASSUME s = p PROVE Stands(t, key, i)
  <2>1. m = i + n + 1 /\ i + n + 1 <= N /\ m - i + 1 = n + 2
    BY <1>1, <1>2, <1>4, <1>5, <1>6
  <2>2. t[i] = Open
    <3>1. 1 \in 1..m - i + 1 /\ i + 1 - 1 = i
      BY <1>1, <2>1
    <3> QED
      BY <1>4, <1>5, <1>6, <3>1
  <2>3. t[i + n + 1] = Close
    <3>1. n + 2 \in 1..m - i + 1 /\ i + (n + 2) - 1 = i + n + 1
      BY <1>1, <2>1
    <3> QED
      BY <1>4, <1>5, <1>6, <3>1
  <2>4. ASSUME NEW j \in 1..n PROVE t[i + j] = key[j]
    <3>1. j + 1 \in 1..m - i + 1 /\ i + (j + 1) - 1 = i + j
      BY <1>1, <2>1
    <3> QED
      BY <1>4, <1>5, <1>6, <3>1
  <2> QED
    BY <1>1, <2>1, <2>2, <2>3, <2>4 DEF Stands
<1>7. ASSUME Stands(t, key, i) PROVE s = p
  <2>1. /\ i + n + 1 <= N /\ t[i] = Open /\ t[i + n + 1] = Close
        /\ \A j \in 1..n : t[i + j] = key[j]
    BY <1>1, <1>7 DEF Stands
  <2>2. m = i + n + 1 /\ m - i + 1 = n + 2
    BY <1>1, <1>2, <2>1
  <2>3. ASSUME NEW j \in 1..n + 2 PROVE s[j] = p[j]
    <3>1. s[j] = t[i + j - 1]
      BY <1>4, <2>2
    <3>2. CASE j = 1
      <4>1. i + j - 1 = i
        BY <3>2
      <4> QED
        BY <1>5, <2>1, <3>1, <3>2, <4>1
    <3>3. CASE j = n + 2
      <4>1. i + j - 1 = i + n + 1
        BY <1>1, <3>3
      <4> QED
        BY <1>5, <2>1, <3>1, <3>3, <4>1
    <3>4. CASE j # 1 /\ j # n + 2
      <4>1. j - 1 \in 1..n /\ (j - 1) + 1 = j /\ i + j - 1 = i + (j - 1)
        BY <1>1, <3>4
      <4> QED
        BY <1>5, <2>1, <3>1, <4>1
    <3> QED
      BY <3>2, <3>3, <3>4
  <2> QED
    BY <1>4, <1>5, <2>2, <2>3, SeqEqual
<1> QED
  BY <1>1, <1>2, <1>3, <1>6, <1>7

\* A map of variables with values.
IsMap(V) == \A key \in DOMAIN V : key \in Text /\ V[key] \in Text

\* What the placeholders of a map stand at, and what lies under one.
Standing(t, V, i) == {key \in DOMAIN V : Stands(t, key, i)}
Under(t, V, i) ==
    \E j \in 1..Len(t) : \E key \in DOMAIN V : Stands(t, key, j) /\ j < i /\ i <= j + Len(key) + 1

\* The three cases of a replacement.
LEMMA ReplacementCases ==
    ASSUME NEW t \in Text, NEW V, IsMap(V), NEW i \in 1..Len(t)
    PROVE  /\ Replacement(t, V, i) \in Text
           /\ Standing(t, V, i) # {} =>
                 Replacement(t, V, i) = V[CHOOSE key \in Standing(t, V, i) : TRUE]
           /\ Standing(t, V, i) = {} /\ Under(t, V, i) => Replacement(t, V, i) = <<>>
           /\ Standing(t, V, i) = {} /\ ~Under(t, V, i) => Replacement(t, V, i) = <<t[i]>>
<1>1. DOMAIN t = 1..Len(t) /\ t[i] \in Tokens
  BY LenProperties, ElementOfSeq DEF Text
<1>2. \A j \in 1..Len(t) : StartsAt(t, V, j) = Standing(t, V, j)
  <2> SUFFICES ASSUME NEW j \in 1..Len(t), NEW key \in DOMAIN V
               PROVE  SubSeq(t, j, Min({Len(t), j + Len(key) + 1})) = <<Open>> \o key \o <<Close>>
                         <=> Stands(t, key, j)
    BY DEF StartsAt, Standing
  <2>1. key \in Text
    BY DEF IsMap
  <2> QED
    BY <2>1, StartsIsStanding DEF Placeholder
<1>3. (\E j \in DOMAIN t : \E key \in StartsAt(t, V, j) : j < i /\ i <= j + Len(key) + 1)
         <=> Under(t, V, i)
  BY <1>1, <1>2 DEF Under, Standing
<1>4. Replacement(t, V, i) =
         IF Standing(t, V, i) # {} THEN V[CHOOSE key \in Standing(t, V, i) : TRUE]
         ELSE IF Under(t, V, i) THEN <<>> ELSE <<t[i]>>
  <2>1. StartsAt(t, V, i) = Standing(t, V, i)
    BY <1>2
  <2> DEFINE lies == \E j \in DOMAIN t : \E key \in StartsAt(t, V, j) : j < i /\ i <= j + Len(key) + 1
  <2>2. Replacement(t, V, i) =
           IF StartsAt(t, V, i) # {} THEN V[CHOOSE key \in StartsAt(t, V, i) : TRUE]
           ELSE IF lies THEN <<>> ELSE <<t[i]>>
    BY DEF Replacement
  <2>3. lies <=> Under(t, V, i)
    BY <1>3
  <2> HIDE DEF lies
  <2> QED
    BY ONLY <2>1, <2>2, <2>3
<1>5. ASSUME Standing(t, V, i) # {}
      PROVE  V[CHOOSE key \in Standing(t, V, i) : TRUE] \in Text
  <2>1. PICK key : key = (CHOOSE k \in Standing(t, V, i) : TRUE) /\ key \in Standing(t, V, i)
    BY <1>5
  <2> QED
    BY <2>1 DEF Standing, IsMap
<1>6. <<t[i]>> \in Text /\ <<>> \in Text
  BY <1>1 DEF Text
<1> QED
  BY <1>4, <1>5, <1>6

\* The pieces of a substitution.
Replacements(t, V) == [i \in DOMAIN t |-> Replacement(t, V, i)]

\* What is put in place of the tokens is a list of texts.
LEMMA ReplacementsArePieces ==
    ASSUME NEW t \in Text, NEW V, IsMap(V)
    PROVE  /\ Replacements(t, V) \in Seq(Seq(Tokens))
           /\ Len(Replacements(t, V)) = Len(t) /\ Len(t) \in Nat /\ DOMAIN t = 1..Len(t)
           /\ \A i \in 1..Len(t) : Replacements(t, V)[i] = Replacement(t, V, i)
           /\ Substituted(t, V) = FlattenSeq(Replacements(t, V))
           /\ Substituted(t, V) \in Text
<1>1. Len(t) \in Nat /\ DOMAIN t = 1..Len(t)
  BY LenProperties DEF Text
<1>2. \A i \in 1..Len(t) : Replacement(t, V, i) \in Seq(Tokens)
  BY ReplacementCases DEF Text
<1>3. Replacements(t, V) \in [1..Len(t) -> Seq(Tokens)]
  BY <1>1, <1>2 DEF Replacements
<1>4. Replacements(t, V) \in Seq(Seq(Tokens))
  BY <1>1, <1>3, SeqDef
<1>5. Len(Replacements(t, V)) = Len(t)
  BY <1>1, <1>3, <1>4, LenProperties
<1>6. FlattenSeq(Replacements(t, V)) \in Seq(Tokens)
  BY <1>4, FlattenIsJoined
<1> QED
  BY <1>1, <1>4, <1>5, <1>6 DEF Substituted, Replacements, Text

\* Where a placeholder stands in a text of two parts.
LEMMA StandsInParts ==
    ASSUME NEW x \in Text, NEW y \in Text, NEW key \in Text, NEW z, z = x \o y
    PROVE  /\ \A i \in 1..Len(x) :
                 Stands(x, key, i) <=> Stands(z, key, i) /\ i + Len(key) + 1 <= Len(x)
           /\ \A i \in 1..Len(y) : Stands(y, key, i) <=> Stands(z, key, Len(x) + i)
<1>1. PICK a \in Nat, b \in Nat, n \in Nat : a = Len(x) /\ b = Len(y) /\ n = Len(key)
  BY LenProperties DEF Text
<1>2. Len(z) = a + b /\ \A i \in 1..a + b : z[i] = IF i <= a THEN x[i] ELSE y[i - a]
  <2>1. /\ Len(x \o y) = Len(x) + Len(y)
        /\ \A i \in 1..Len(x) + Len(y) : (x \o y)[i] = IF i <= Len(x) THEN x[i] ELSE y[i - Len(x)]
    BY ConcatProperties DEF Text
  <2> QED
    BY <1>1, <2>1
<1>3. /\ \A i \in 1..a : z[i] = x[i]
      /\ \A i \in 1..b : z[a + i] = y[i]
  <2>1. ASSUME NEW i \in 1..a PROVE z[i] = x[i]
    BY <1>1, <1>2
  <2>2. ASSUME NEW i \in 1..b PROVE z[a + i] = y[i]
    <3>1. a + i \in 1..a + b /\ ~(a + i <= a) /\ (a + i) - a = i
      BY <1>1
    <3> QED
      BY <1>2, <3>1
  <2> QED
    BY <2>1, <2>2
<1>4. ASSUME NEW i \in 1..a
      PROVE  Stands(x, key, i) <=> Stands(z, key, i) /\ i + n + 1 <= a
  <2>1. CASE ~(i + n + 1 <= a)
    BY <1>1, <2>1 DEF Stands
  <2>2. CASE i + n + 1 <= a
    <3>1. z[i] = x[i] /\ z[i + n + 1] = x[i + n + 1] /\ \A j \in 1..n : z[i + j] = x[i + j]
      <4>1. i \in 1..a /\ i + n + 1 \in 1..a /\ \A j \in 1..n : i + j \in 1..a
        BY <1>1, <2>2
      <4> QED
        BY <1>3, <4>1
    <3>2. i + n + 1 <= a + b /\ i \in 1..a + b
      BY <1>1, <2>2
    <3> QED
      BY <1>1, <1>2, <2>2, <3>1, <3>2 DEF Stands
  <2> QED
    BY <2>1, <2>2
<1>5. ASSUME NEW i \in 1..b
      PROVE  Stands(y, key, i) <=> Stands(z, key, a + i)
  <2>1. /\ a + i \in 1..a + b /\ (i + n + 1 <= b <=> (a + i) + n + 1 <= a + b)
    BY <1>1
  <2>2. CASE ~(i + n + 1 <= b)
    BY <1>1, <1>2, <2>1, <2>2 DEF Stands
  <2>3. CASE i + n + 1 <= b
    <3>1. /\ z[a + i] = y[i] /\ z[(a + i) + n + 1] = y[i + n + 1]
          /\ \A j \in 1..n : z[(a + i) + j] = y[i + j]
      <4>1. i \in 1..b /\ i + n + 1 \in 1..b /\ \A j \in 1..n : i + j \in 1..b
        BY <1>1, <2>3
      <4>2. (a + i) + n + 1 = a + (i + n + 1) /\ \A j \in 1..n : (a + i) + j = a + (i + j)
        BY <1>1
      <4> QED
        BY <1>3, <4>1, <4>2
    <3> QED
      BY <1>1, <1>2, <2>1, <2>3, <3>1 DEF Stands
  <2> QED
    BY <2>2, <2>3
<1> QED
  BY <1>1, <1>4, <1>5

\* No placeholder stands across the boundary of two parts.
NoneAcross(x, y, V) ==
    \A key \in DOMAIN V : \A i \in 1..Len(x) :
        Stands(x \o y, key, i) => i + Len(key) + 1 <= Len(x)

\* Then the parts are substituted each on its own.
LEMMA SubstitutedInParts ==
    ASSUME NEW x \in Text, NEW y \in Text, NEW V, IsMap(V), NoneAcross(x, y, V)
    PROVE  /\ Substituted(x \o y, V) = Substituted(x, V) \o Substituted(y, V)
           /\ Substituted(x, V) \in Text /\ Substituted(y, V) \in Text
<1>1. PICK a \in Nat, b \in Nat, z \in Text : a = Len(x) /\ b = Len(y) /\ z = x \o y
  BY LenProperties, ConcatProperties DEF Text
<1>2. Len(z) = a + b /\ \A i \in 1..a + b : z[i] = IF i <= a THEN x[i] ELSE y[i - a]
  <2>1. /\ Len(x \o y) = Len(x) + Len(y)
        /\ \A i \in 1..Len(x) + Len(y) : (x \o y)[i] = IF i <= Len(x) THEN x[i] ELSE y[i - Len(x)]
    BY ConcatProperties DEF Text
  <2> QED
    BY <1>1, <2>1
<1>3. ASSUME NEW key \in DOMAIN V
      PROVE  /\ \A i \in 1..a : Stands(z, key, i) <=> Stands(x, key, i)
             /\ \A i \in 1..b : Stands(z, key, a + i) <=> Stands(y, key, i)
             /\ \A i \in 1..a : Stands(z, key, i) => i + Len(key) + 1 <= a
             /\ Len(key) \in Nat
  <2>1. key \in Text /\ Len(key) \in Nat
    BY LenProperties DEF IsMap, Text
  <2>2. \A i \in 1..a : Stands(z, key, i) => i + Len(key) + 1 <= a
    BY <1>1 DEF NoneAcross
  <2>3. /\ \A i \in 1..Len(x) :
              Stands(x, key, i) <=> Stands(z, key, i) /\ i + Len(key) + 1 <= Len(x)
        /\ \A i \in 1..Len(y) : Stands(y, key, i) <=> Stands(z, key, Len(x) + i)
    BY <1>1, <2>1, StandsInParts
  <2> QED
    BY <1>1, <2>1, <2>2, <2>3
<1>4. ASSUME NEW i \in 1..a
      PROVE  Replacement(z, V, i) = Replacement(x, V, i)
  <2>1. i \in 1..a + b /\ z[i] = x[i]
    BY <1>1, <1>2
  <2>2. Standing(z, V, i) = Standing(x, V, i)
    BY <1>3 DEF Standing
  <2>3. Under(z, V, i) <=> Under(x, V, i)
    <3>1. \A j \in 1..a + b : j < i => j \in 1..a
      BY <1>1
    <3>2. \A j \in 1..a : j \in 1..a + b
      BY <1>1
    <3> QED
      BY <1>1, <1>2, <1>3, <3>1, <3>2 DEF Under
  <2>4. i \in 1..Len(z) /\ i \in 1..Len(x)
    BY <1>1, <1>2, <2>1
  <2>5. /\ Standing(z, V, i) # {} =>
              Replacement(z, V, i) = V[CHOOSE key \in Standing(z, V, i) : TRUE]
        /\ Standing(z, V, i) = {} /\ Under(z, V, i) => Replacement(z, V, i) = <<>>
        /\ Standing(z, V, i) = {} /\ ~Under(z, V, i) => Replacement(z, V, i) = <<z[i]>>
    BY ONLY z \in Text, <2>4, IsMap(V), ReplacementCases
  <2>6. /\ Standing(x, V, i) # {} =>
              Replacement(x, V, i) = V[CHOOSE key \in Standing(x, V, i) : TRUE]
        /\ Standing(x, V, i) = {} /\ Under(x, V, i) => Replacement(x, V, i) = <<>>
        /\ Standing(x, V, i) = {} /\ ~Under(x, V, i) => Replacement(x, V, i) = <<x[i]>>
    BY ONLY x \in Text, <2>4, IsMap(V), ReplacementCases
  <2> QED
    BY ONLY <2>1, <2>2, <2>3, <2>5, <2>6
<1>5. ASSUME NEW i \in 1..b
      PROVE  Replacement(z, V, a + i) = Replacement(y, V, i)
  <2>1. a + i \in 1..a + b /\ z[a + i] = y[i]
    <3>1. a + i \in 1..a + b /\ ~(a + i <= a) /\ (a + i) - a = i
      BY <1>1
    <3> QED
      BY <1>2, <3>1
  <2>2. Standing(z, V, a + i) = Standing(y, V, i)
    BY <1>3 DEF Standing
  <2>3. Under(z, V, a + i) <=> Under(y, V, i)
    <3>1. ASSUME NEW j \in 1..a + b, NEW key \in DOMAIN V, Stands(z, key, j),
                 j < a + i, a + i <= j + Len(key) + 1
          PROVE  Under(y, V, i)
      <4>1. ~(j <= a)
        <5> SUFFICES ASSUME j <= a PROVE FALSE
          OBVIOUS
        <5>1. j + Len(key) + 1 <= a /\ Len(key) \in Nat
          BY <1>3, <3>1
        <5> QED
          BY <3>1, <5>1
      <4>2. PICK k \in 1..b : j = a + k
        <5>1. j - a \in 1..b /\ j = a + (j - a)
          BY <4>1
        <5> QED
          BY <5>1
      <4>3. Stands(y, key, k) /\ Len(key) \in Nat
        BY <1>3, <3>1, <4>2
      <4>4. k < i /\ i <= k + Len(key) + 1
        BY <3>1, <4>2, <4>3
      <4> QED
        BY <1>1, <4>3, <4>4 DEF Under
    <3>2. ASSUME NEW k \in 1..b, NEW key \in DOMAIN V, Stands(y, key, k),
                 k < i, i <= k + Len(key) + 1
          PROVE  Under(z, V, a + i)
      <4>1. a + k \in 1..a + b /\ a + k < a + i /\ Len(key) \in Nat
        BY <1>3, <3>2
      <4>2. a + i <= (a + k) + Len(key) + 1
        BY <3>2, <4>1
      <4>3. Stands(z, key, a + k)
        BY <1>3, <3>2
      <4> QED
        BY <1>2, <4>1, <4>2, <4>3 DEF Under
    <3> QED
      BY <1>1, <1>2, <3>1, <3>2 DEF Under
  <2>4. a + i \in 1..Len(z) /\ i \in 1..Len(y)
    BY <1>1, <1>2, <2>1
  <2>5. /\ Standing(z, V, a + i) # {} =>
              Replacement(z, V, a + i) = V[CHOOSE key \in Standing(z, V, a + i) : TRUE]
        /\ Standing(z, V, a + i) = {} /\ Under(z, V, a + i) => Replacement(z, V, a + i) = <<>>
        /\ Standing(z, V, a + i) = {} /\ ~Under(z, V, a + i) =>
              Replacement(z, V, a + i) = <<z[a + i]>>
    BY ONLY z \in Text, <2>4, IsMap(V), ReplacementCases
  <2>6. /\ Standing(y, V, i) # {} =>
              Replacement(y, V, i) = V[CHOOSE key \in Standing(y, V, i) : TRUE]
        /\ Standing(y, V, i) = {} /\ Under(y, V, i) => Replacement(y, V, i) = <<>>
        /\ Standing(y, V, i) = {} /\ ~Under(y, V, i) => Replacement(y, V, i) = <<y[i]>>
    BY ONLY y \in Text, <2>4, IsMap(V), ReplacementCases
  <2> QED
    BY ONLY <2>1, <2>2, <2>3, <2>5, <2>6
<1>6. PICK p, q, r : p = Replacements(x, V) /\ q = Replacements(y, V) /\ r = Replacements(z, V)
  OBVIOUS
<1>7. /\ p \in Seq(Seq(Tokens)) /\ Len(p) = a /\ \A i \in 1..a : p[i] = Replacement(x, V, i)
      /\ Substituted(x, V) = FlattenSeq(p) /\ Substituted(x, V) \in Text
  BY <1>1, <1>6, ReplacementsArePieces
<1>8. /\ q \in Seq(Seq(Tokens)) /\ Len(q) = b /\ \A i \in 1..b : q[i] = Replacement(y, V, i)
      /\ Substituted(y, V) = FlattenSeq(q) /\ Substituted(y, V) \in Text
  BY <1>1, <1>6, ReplacementsArePieces
<1>9. /\ r \in Seq(Seq(Tokens)) /\ Len(r) = a + b
      /\ \A i \in 1..a + b : r[i] = Replacement(z, V, i)
      /\ Substituted(z, V) = FlattenSeq(r)
  <2>1. /\ Replacements(z, V) \in Seq(Seq(Tokens))
        /\ Len(Replacements(z, V)) = Len(z)
        /\ \A i \in 1..Len(z) : Replacements(z, V)[i] = Replacement(z, V, i)
        /\ Substituted(z, V) = FlattenSeq(Replacements(z, V))
    BY ONLY z \in Text, IsMap(V), ReplacementsArePieces
  <2> QED
    BY <1>2, <1>6, <2>1
<1>10. r = p \o q
  <2>1. PICK s : s = p \o q
    OBVIOUS
  <2>2. /\ s \in Seq(Seq(Tokens)) /\ Len(s) = a + b
        /\ \A i \in 1..a + b : s[i] = IF i <= a THEN p[i] ELSE q[i - a]
    <3>1. /\ p \o q \in Seq(Seq(Tokens)) /\ Len(p \o q) = Len(p) + Len(q)
          /\ \A i \in 1..Len(p) + Len(q) : (p \o q)[i] = IF i <= Len(p) THEN p[i] ELSE q[i - Len(p)]
      BY ONLY <1>7, <1>8, ConcatProperties
    <3> QED
      BY <1>7, <1>8, <2>1, <3>1
  <2>3. ASSUME NEW i \in 1..a + b PROVE r[i] = s[i]
    <3>1. CASE i <= a
      <4>1. i \in 1..a
        BY <3>1
      <4> QED
        BY <1>4, <1>7, <1>9, <2>2, <3>1, <4>1
    <3>2. CASE ~(i <= a)
      <4>1. i - a \in 1..b /\ a + (i - a) = i
        BY <3>2
      <4> QED
        BY <1>5, <1>8, <1>9, <2>2, <3>2, <4>1
    <3> QED
      BY <3>1, <3>2
  <2>4. r = s
    BY ONLY <1>9, <2>2, <2>3, SeqEqual
  <2> QED
    BY <2>1, <2>4
<1>11. FlattenSeq(p \o q) = FlattenSeq(p) \o FlattenSeq(q)
  BY ONLY <1>7, <1>8, FlattenJoins
<1> QED
  BY <1>1, <1>7, <1>8, <1>9, <1>10, <1>11

\* No braces, as of the names and values of a plain map.
Unbraced(s) == \A i \in 1..Len(s) : s[i] \notin Braces

IsPlain(V) == IsMap(V) /\ \A key \in DOMAIN V : Unbraced(key) /\ Unbraced(V[key])

\* No placeholder is left open at the end.
Settled(x) == \A i \in 1..Len(x) : x[i] = Open => \E j \in i + 1..Len(x) : x[j] \in Braces

\* What is settled is substituted on its own.
LEMMA SettledIsSubstituted ==
    ASSUME NEW x \in Text, NEW y \in Text, NEW V, IsPlain(V), Settled(x)
    PROVE  /\ Substituted(x \o y, V) = Substituted(x, V) \o Substituted(y, V)
           /\ Substituted(x, V) \in Text /\ Substituted(y, V) \in Text
<1>1. IsMap(V) /\ \A key \in DOMAIN V : Unbraced(key)
  BY DEF IsPlain
<1>2. PICK z : z = x \o y
  OBVIOUS
<1>3. PICK a \in Nat, b \in Nat : a = Len(x) /\ b = Len(y) /\ z = x \o y
  BY <1>2, LenProperties DEF Text
<1>4. \A i \in 1..a : z[i] = x[i]
  <2>1. \A i \in 1..Len(x) + Len(y) : (x \o y)[i] = IF i <= Len(x) THEN x[i] ELSE y[i - Len(x)]
    BY ConcatProperties DEF Text
  <2>2. \A i \in 1..a : i \in 1..a + b /\ i <= a
    BY <1>3
  <2> QED
    BY <1>3, <2>1, <2>2
<1>5. ASSUME NEW key \in DOMAIN V, NEW i \in 1..a, Stands(z, key, i), ~(i + Len(key) + 1 <= a)
      PROVE  FALSE
  <2>1. PICK n \in Nat : n = Len(key)
    BY <1>1, LenProperties DEF IsMap, Text
  <2>2. z[i] = Open /\ \A j \in 1..n : z[i + j] = key[j]
    BY <1>5, <2>1 DEF Stands
  <2>3. PICK j \in i + 1..a : x[j] \in Braces
    BY <1>3, <1>4, <2>2 DEF Settled
  <2>4. j - i \in 1..n /\ i + (j - i) = j /\ j \in 1..a
    BY <1>5, <2>1
  <2>5. key[j - i] \in Braces
    BY <1>4, <2>2, <2>3, <2>4
  <2> QED
    BY <1>1, <2>1, <2>4, <2>5 DEF Unbraced
<1>6. NoneAcross(x, y, V)
  BY <1>3, <1>5 DEF NoneAcross
<1> QED
  BY <1>1, <1>6, SubstitutedInParts

NothingStands(t, V) == \A key \in DOMAIN V : \A i \in 1..Len(t) : ~Stands(t, key, i)

\* A text without placeholders is left as it is.
LEMMA NothingIsSubstituted ==
    ASSUME NEW t \in Text, NEW V, IsMap(V), NothingStands(t, V)
    PROVE  Substituted(t, V) = t
<1>1. /\ DOMAIN t = 1..Len(t) /\ Substituted(t, V) = FlattenSeq(Replacements(t, V))
  BY ReplacementsArePieces
<1>2. ASSUME NEW i \in 1..Len(t)
      PROVE  Replacement(t, V, i) = <<t[i]>>
  <2>1. Standing(t, V, i) = {} /\ ~Under(t, V, i)
    BY DEF NothingStands, Standing, Under
  <2> QED
    BY ONLY <1>2, <2>1, t \in Text, IsMap(V), ReplacementCases
<1>3. PICK p : p = Replacements(t, V) /\ p = [i \in DOMAIN t |-> <<t[i]>>]
  BY <1>1, <1>2 DEF Replacements
<1>4. FlattenSeq(p) = t
  BY <1>3, FlattenElements DEF Text
<1> QED
  BY <1>1, <1>3, <1>4

\* Without braces there are no placeholders.
LEMMA UnbracedHasNone ==
    ASSUME NEW t \in Text, Unbraced(t), NEW V, IsMap(V)
    PROVE  NothingStands(t, V) /\ Settled(t)
  BY DEF NothingStands, Stands, Unbraced, Settled, Braces

\* The only braces of a placeholder are its own.
LEMMA PlaceholderBraces ==
    ASSUME NEW key \in Text, Unbraced(key), NEW i \in 1..Len(key) + 2
    PROVE  /\ Placeholder(key)[i] = Open <=> i = 1
           /\ Placeholder(key)[i] = Close <=> i = Len(key) + 2
<1>1. PICK n \in Nat : n = Len(key)
  BY LenProperties DEF Text
<1>2. /\ Placeholder(key)[1] = Open /\ Placeholder(key)[n + 2] = Close
      /\ \A j \in 1..n : Placeholder(key)[j + 1] = key[j]
  BY <1>1, PlaceholderElements
<1>3. \A j \in 1..n : key[j] # Open /\ key[j] # Close
  BY <1>1 DEF Unbraced, Braces
<1>4. CASE i = 1 \/ i = n + 2
  BY <1>1, <1>2, <1>4, BracesAreTokens
<1>5. CASE ~(i = 1 \/ i = n + 2)
  <2>1. i - 1 \in 1..n /\ (i - 1) + 1 = i
    BY <1>1, <1>5
  <2>2. Placeholder(key)[i] = key[i - 1]
    BY <1>2, <2>1
  <2> QED
    BY <1>1, <1>3, <1>5, <2>1, <2>2
<1> QED
  BY <1>4, <1>5

\* Only its own variable stands at a placeholder, and at its start.
LEMMA StandsAtPlaceholder ==
    ASSUME NEW key \in Text, Unbraced(key), NEW k \in Text, Unbraced(k),
           NEW i \in 1..Len(key) + 2
    PROVE  Stands(Placeholder(key), k, i) <=> k = key /\ i = 1
<1>1. PICK p : p = Placeholder(key)
  OBVIOUS
<1>2. PICK n \in Nat, m \in Nat : n = Len(key) /\ m = Len(k) /\ p = Placeholder(key)
  BY <1>1, LenProperties DEF Text
<1>3. /\ Len(p) = n + 2 /\ p[1] = Open /\ p[n + 2] = Close
      /\ \A j \in 1..n : p[j + 1] = key[j]
  BY <1>2, PlaceholderElements
<1>4. ASSUME NEW j \in 1..n + 2
      PROVE  (p[j] = Open <=> j = 1) /\ (p[j] = Close <=> j = n + 2)
  BY <1>2, <1>4, PlaceholderBraces
<1>5. ASSUME Stands(p, k, i)
      PROVE  k = key /\ i = 1
  <2>1. /\ i + m + 1 <= n + 2 /\ p[i] = Open /\ p[i + m + 1] = Close
        /\ \A j \in 1..m : p[i + j] = k[j]
    BY <1>2, <1>3, <1>5 DEF Stands
  <2>2. i = 1
    BY <1>2, <1>4, <2>1
  <2>3. m = n
    <3>1. i + m + 1 \in 1..n + 2 /\ p[i + m + 1] = Close
      BY <1>2, <2>1
    <3>2. i + m + 1 = n + 2
      BY <1>4, <3>1
    <3> QED
      BY <1>2, <2>2, <3>2
  <2>4. ASSUME NEW j \in 1..n PROVE k[j] = key[j]
    <3>1. 1 + j = j + 1
      OBVIOUS
    <3> QED
      BY <1>3, <2>1, <2>2, <2>3, <3>1
  <2>5. k = key
    BY <1>2, <2>3, <2>4, SeqEqual DEF Text
  <2> QED
    BY <2>2, <2>5
<1>6. ASSUME k = key, i = 1
      PROVE  Stands(p, k, i)
  <2>1. i + m + 1 = n + 2 /\ m = n
    BY <1>2, <1>6
  <2>2. \A j \in 1..m : p[i + j] = k[j]
    <3>1. \A j \in 1..n : 1 + j = j + 1
      OBVIOUS
    <3> QED
      BY <1>3, <1>6, <2>1, <3>1
  <2>3. i \in 1..n + 2
    BY <1>2
  <2> QED
    BY <1>2, <1>3, <1>6, <2>1, <2>2, <2>3 DEF Stands
<1> QED
  BY <1>2, <1>5, <1>6

\* A placeholder becomes the value of its variable, and stays without one.
LEMMA PlaceholderIsReplaced ==
    ASSUME NEW key \in Text, Unbraced(key), NEW V, IsPlain(V)
    PROVE  Substituted(Placeholder(key), V) = IF key \in DOMAIN V THEN V[key] ELSE Placeholder(key)
<1>1. PICK n \in Nat, p \in Text : n = Len(key) /\ p = Placeholder(key) /\ Len(p) = n + 2
  <2>1. Len(key) \in Nat
    BY LenProperties DEF Text
  <2> QED
    BY <2>1, PlaceholderElements
<1>2. IsMap(V)
  BY DEF IsPlain
<1>3. ASSUME NEW k \in DOMAIN V, NEW i \in 1..n + 2
      PROVE  Stands(p, k, i) <=> k = key /\ i = 1
  <2>1. k \in Text /\ Unbraced(k)
    BY DEF IsPlain, IsMap
  <2> QED
    BY <1>1, <1>3, <2>1, StandsAtPlaceholder
<1>4. CASE key \notin DOMAIN V
  <2>1. NothingStands(p, V)
    BY <1>1, <1>3, <1>4 DEF NothingStands
  <2> QED
    BY <1>1, <1>2, <1>4, <2>1, NothingIsSubstituted
<1>5. CASE key \in DOMAIN V
  <2>1. V[key] \in Seq(Tokens)
    BY <1>2, <1>5 DEF IsMap, Text
  <2>2. 1 \in 1..n + 2 /\ 1 \in 1..Len(p)
    BY <1>1
  <2>3. Replacement(p, V, 1) = V[key]
    <3>1. Standing(p, V, 1) = {key}
      BY <1>3, <1>5, <2>2 DEF Standing
    <3>2. (CHOOSE k \in Standing(p, V, 1) : TRUE) = key
      BY <3>1
    <3>3. Replacement(p, V, 1) = V[CHOOSE k \in Standing(p, V, 1) : TRUE]
      BY ONLY <2>2, <3>1, p \in Text, IsMap(V), <1>2, ReplacementCases
    <3> QED
      BY <3>2, <3>3
  <2>4. ASSUME NEW i \in 2..n + 2
        PROVE  Replacement(p, V, i) = <<>>
    <3>1. i \in 1..Len(p) /\ i \in 1..n + 2 /\ i # 1
      BY <1>1
    <3>2. Standing(p, V, i) = {}
      BY <1>3, <3>1 DEF Standing
    <3>3. Under(p, V, i)
      <4>1. Stands(p, key, 1) /\ 1 < i /\ i <= 1 + n + 1
        BY <1>3, <1>5, <2>2
      <4> QED
        BY <1>1, <1>5, <2>2, <4>1 DEF Under
    <3> QED
      BY ONLY <3>1, <3>2, <3>3, p \in Text, IsMap(V), <1>2, ReplacementCases
  <2>5. PICK r : r = Replacements(p, V)
    OBVIOUS
  <2>6. /\ r \in Seq(Seq(Tokens)) /\ Len(r) = n + 2
        /\ \A i \in 1..n + 2 : r[i] = Replacement(p, V, i)
        /\ Substituted(p, V) = FlattenSeq(r)
    BY <1>1, <1>2, <2>5, ReplacementsArePieces
  <2>7. PICK f : AreJoined(f, r, n + 2) /\ FlattenSeq(r) = f[n + 2]
    BY <2>6, FlattenIsJoined
  <2>8. f[1] = V[key]
    <3>1. f[0] = <<>> /\ \A i \in 1..n + 2 : f[i] = f[i - 1] \o r[i]
      <4>1. n + 2 \in Nat
        BY <1>1
      <4> QED
        BY ONLY <2>7, <4>1, JoinedEquations
    <3>2. f[1] = <<>> \o V[key]
      <4>1. 1 - 1 = 0
        OBVIOUS
      <4> QED
        BY <2>2, <2>3, <2>6, <3>1, <4>1
    <3> QED
      BY <2>1, <3>2, ConcatEmptySeq
  <2>9. f[n + 2] = f[1]
    <3>1. /\ n + 2 \in Nat /\ 1 \in 0..n + 2 /\ n + 2 \in 1..n + 2 /\ f[1] \in Seq(Tokens)
          /\ \A i \in 1 + 1..n + 2 : r[i] = <<>>
      BY <1>1, <2>1, <2>4, <2>6, <2>8
    <3> QED
      BY ONLY <2>7, <3>1, JoinedNothing
  <2> QED
    BY <1>1, <1>5, <2>6, <2>7, <2>8, <2>9
<1> QED
  BY <1>4, <1>5

\* A text with a placeholder is what comes before the first one, the
\* placeholder, and the rest.
LEMMA FirstPlaceholder ==
    ASSUME NEW t \in Text, Alternating(t), NEW V, IsPlain(V), ~NothingStands(t, V)
    PROVE  \E key \in DOMAIN V, a \in Text, b \in Text :
              /\ t = a \o (Placeholder(key) \o b)
              /\ Settled(a) /\ NothingStands(a, V)
              /\ Alternating(b) /\ Len(b) < Len(t)
<1>1. PICK N \in Nat : N = Len(t) /\ DOMAIN t = 1..N /\ \A j \in 1..N : t[j] \in Tokens
  BY LenProperties, ElementOfSeq DEF Text
<1>2. PICK i \in 1..N : /\ \E key \in DOMAIN V : Stands(t, key, i)
                        /\ \A m \in 1..N : (\E key \in DOMAIN V : Stands(t, key, m)) => i <= m
  <2> DEFINE T == {m \in 1..N : \E key \in DOMAIN V : Stands(t, key, m)}
  <2>1. T # {} /\ T \in SUBSET Nat
    BY <1>1 DEF NothingStands
  <2>2. PICK i \in T : \A m \in T : i <= m
    <3> HIDE DEF T
    <3> QED
      BY <2>1, LeastNat
  <2> QED
    BY <2>2
<1>3. PICK key \in DOMAIN V : Stands(t, key, i)
  BY <1>2
<1>4. key \in Text /\ Unbraced(key) /\ \A k \in DOMAIN V : k \in Text
  BY <1>3 DEF IsPlain, IsMap
<1>5. PICK n \in Nat : n = Len(key)
  BY <1>4, LenProperties DEF Text
<1>6. i + n + 1 <= N /\ t[i] = Open /\ t[i + n + 1] = Close
  BY <1>1, <1>3, <1>5 DEF Stands
<1>7. PICK a, p, b : /\ a = SubSeq(t, 1, i - 1) /\ p = SubSeq(t, i, i + n + 1)
                    /\ b = SubSeq(t, i + n + 2, N)
  OBVIOUS
<1>8. p = Placeholder(key)
  <2>1. Min({N, i + n + 1}) = i + n + 1
    <3>1. N \in Nat /\ i + n + 1 \in Nat /\ i + n + 1 <= N
      BY <1>1, <1>5, <1>6
    <3>2. \E x \in {N, i + n + 1} : \A y \in {N, i + n + 1} : x <= y
      BY <3>1
    <3>3. /\ Min({N, i + n + 1}) \in {N, i + n + 1}
          /\ \A y \in {N, i + n + 1} : Min({N, i + n + 1}) <= y
      BY <3>2 DEF Min
    <3> QED
      BY <3>1, <3>3
  <2>2. SubSeq(t, i, Min({Len(t), i + Len(key) + 1})) = Placeholder(key)
    BY <1>1, <1>3, <1>4, StartsIsStanding
  <2> QED
    BY <1>1, <1>5, <1>7, <2>1, <2>2
<1>9. /\ a \in Text /\ Len(a) = i - 1 /\ \A j \in 1..i - 1 : a[j] = t[j]
      /\ b \in Text /\ Len(b) = N - (i + n + 1)
      /\ \A j \in 1..N - (i + n + 1) : b[j] = t[(i + n + 1) + j]
  <2>1. /\ a \in Seq(Tokens) /\ Len(a) = IF 1 <= i - 1 THEN i - 1 - 1 + 1 ELSE 0
        /\ \A j \in 1..i - 1 - 1 + 1 : a[j] = t[1 + j - 1]
    <3>1. PICK c \in Nat : c = i - 1
      BY <1>1
    <3>2. 1 \in Int /\ c \in Int /\ \A j \in 1..c : t[j] \in Tokens
      BY <1>1, <3>1
    <3>3. /\ SubSeq(t, 1, c) \in Seq(Tokens)
          /\ Len(SubSeq(t, 1, c)) = IF 1 <= c THEN c - 1 + 1 ELSE 0
          /\ \A j \in 1..c - 1 + 1 : SubSeq(t, 1, c)[j] = t[1 + j - 1]
      BY ONLY <3>2, SubSeqProperties
    <3> QED
      BY ONLY <1>7, <3>1, <3>3
  <2>2. /\ b \in Seq(Tokens) /\ Len(b) = IF i + n + 2 <= N THEN N - (i + n + 2) + 1 ELSE 0
        /\ \A j \in 1..N - (i + n + 2) + 1 : b[j] = t[i + n + 2 + j - 1]
    <3>1. PICK c \in Nat : c = i + n + 2
      BY <1>1, <1>5
    <3>2. c \in Int /\ N \in Int /\ \A j \in c..N : t[j] \in Tokens
      BY <1>1, <1>5, <3>1
    <3>3. /\ SubSeq(t, c, N) \in Seq(Tokens)
          /\ Len(SubSeq(t, c, N)) = IF c <= N THEN N - c + 1 ELSE 0
          /\ \A j \in 1..N - c + 1 : SubSeq(t, c, N)[j] = t[c + j - 1]
      BY ONLY <3>2, SubSeqProperties
    <3> QED
      BY ONLY <1>7, <3>1, <3>3
  <2>3. Len(a) = i - 1 /\ \A j \in 1..i - 1 : a[j] = t[j]
    BY <2>1
  <2>4. Len(b) = N - (i + n + 1)
    <3>1. i \in Nat /\ n \in Nat /\ N \in Nat /\ i + n + 1 <= N
      BY <1>1, <1>5, <1>6
    <3> QED
      BY ONLY <2>2, <3>1
  <2>5. ASSUME NEW j \in 1..N - (i + n + 1) PROVE b[j] = t[(i + n + 1) + j]
    <3>1. j \in 1..N - (i + n + 2) + 1 /\ i + n + 2 + j - 1 = (i + n + 1) + j
      BY <1>1, <1>5
    <3> QED
      BY <2>2, <3>1
  <2> QED
    BY <2>1, <2>2, <2>3, <2>4, <2>5 DEF Text
<1>10. t = a \o (p \o b)
  <2>1. p \o b = SubSeq(t, i, N)
    <3>1. /\ t \in Seq(Tokens) /\ i \in 1..Len(t) + 1 /\ i + n + 1 \in i - 1..Len(t)
          /\ N \in i + n + 1..Len(t) /\ i + n + 1 + 1 = i + n + 2
      BY <1>1, <1>5, <1>6 DEF Text
    <3>2. SubSeq(t, i, i + n + 1) \o SubSeq(t, i + n + 1 + 1, N) = SubSeq(t, i, N)
      BY ONLY <3>1, ConcatAdjacentSubSeq
    <3> QED
      BY <1>7, <3>1, <3>2
  <2>2. a \o SubSeq(t, i, N) = SubSeq(t, 1, N)
    <3>1. /\ t \in Seq(Tokens) /\ 1 \in 1..Len(t) + 1 /\ i - 1 \in 1 - 1..Len(t)
          /\ N \in i - 1..Len(t) /\ i - 1 + 1 = i
      BY <1>1 DEF Text
    <3>2. SubSeq(t, 1, i - 1) \o SubSeq(t, i - 1 + 1, N) = SubSeq(t, 1, N)
      BY ONLY <3>1, ConcatAdjacentSubSeq
    <3> QED
      BY <1>7, <3>1, <3>2
  <2>3. SubSeq(t, 1, N) = t
    BY <1>1, SubSeqFull DEF Text
  <2> QED
    BY <2>1, <2>2, <2>3
<1>11. Settled(a)
  <2> SUFFICES ASSUME NEW j \in 1..i - 1, a[j] = Open
               PROVE  \E k \in j + 1..i - 1 : a[k] \in Braces
    BY <1>9 DEF Settled
  <2>1. j \in 1..N /\ j < i /\ t[j] = Open
    BY <1>1, <1>9
  <2>2. PICK k \in j + 1..i - 1 : t[k] \in Braces
    <3>1. t[j] = t[i] /\ t[j] \in Braces
      BY <1>6, <2>1 DEF Braces
    <3> QED
      BY <1>1, <2>1, <3>1 DEF Alternating
  <2>3. k \in 1..i - 1
    OBVIOUS
  <2> QED
    BY <1>9, <2>2, <2>3
<1>12. NothingStands(a, V)
  <2> SUFFICES ASSUME NEW k \in DOMAIN V, NEW j \in 1..i - 1, Stands(a, k, j)
               PROVE  FALSE
    BY <1>9 DEF NothingStands
  <2>1. p \o b \in Text
    <3>1. p \in Text
      BY <1>4, <1>8, PlaceholderElements
    <3> QED
      BY <1>9, <3>1, ConcatProperties DEF Text
  <2>2. \A m \in 1..Len(a) : Stands(a, k, m) <=> Stands(t, k, m) /\ m + Len(k) + 1 <= Len(a)
    <3>1. PICK y \in Text : y = p \o b
      BY <2>1
    <3>2. a \in Text /\ k \in Text /\ t = a \o y
      BY <1>4, <1>9, <1>10, <3>1
    <3> QED
      BY ONLY <3>2, StandsInParts
  <2>3. Stands(t, k, j)
    BY <1>9, <2>2
  <2>4. j \in 1..N /\ ~(i <= j)
    BY <1>1
  <2> QED
    BY <1>2, <2>3, <2>4
<1>13. Alternating(b)
  <2>1. DOMAIN b = 1..N - (i + n + 1)
    BY <1>9, LenProperties DEF Text
  <2> SUFFICES ASSUME NEW j \in 1..N - (i + n + 1), NEW m \in 1..N - (i + n + 1),
                      j < m, b[j] = b[m], b[j] \in Braces
               PROVE  \E k \in j + 1..m - 1 : b[k] \in Braces \ {b[j]}
    BY <2>1 DEF Alternating
  <2> DEFINE c == i + n + 1
  <2>2. c \in Nat /\ c + j \in 1..N /\ c + m \in 1..N /\ c + j < c + m
    BY <1>1, <1>5
  <2>3. t[c + j] = b[j] /\ t[c + m] = b[m]
    BY <1>9
  <2>4. PICK k \in c + j + 1..c + m - 1 : t[k] \in Braces \ {t[c + j]}
    <3>1. PICK x \in 1..N, y \in 1..N : x = c + j /\ y = c + m
      BY <2>2
    <3>2. x < y /\ t[x] = t[y] /\ t[x] \in Braces
      BY ONLY <2>2, <2>3, <3>1, b[j] = b[m], b[j] \in Braces
    <3>3. \E k \in x + 1..y - 1 : t[k] \in Braces \ {t[x]}
      BY ONLY <1>1, <3>2, Alternating(t) DEF Alternating
    <3> QED
      BY ONLY <3>1, <3>3
  <2>5. k - c \in j + 1..m - 1 /\ k - c \in 1..N - (i + n + 1) /\ c + (k - c) = k
    BY <1>1, <1>5, <2>2
  <2>6. b[k - c] = t[k]
    BY <1>9, <2>5
  <2> QED
    BY <2>3, <2>4, <2>5, <2>6
<1>14. Len(b) < Len(t)
  BY <1>1, <1>5, <1>9
<1> QED
  BY <1>3, <1>8, <1>9, <1>10, <1>11, <1>12, <1>13, <1>14

\* A text with the placeholder of key in it, or what stands in its place.
LEMMA SubstitutedAround ==
    ASSUME NEW V, IsPlain(V), NEW a \in Text, Settled(a), NothingStands(a, V),
           NEW q \in Text, Settled(q), NEW b \in Text
    PROVE  /\ Substituted(a \o (q \o b), V) = a \o (Substituted(q, V) \o Substituted(b, V))
           /\ Substituted(q, V) \in Text /\ Substituted(b, V) \in Text
<1>1. q \o b \in Text
  BY ConcatProperties DEF Text
<1>2. Substituted(a \o (q \o b), V) = Substituted(a, V) \o Substituted(q \o b, V)
  BY ONLY <1>1, SettledIsSubstituted, IsPlain(V), a \in Text, Settled(a)
<1>3. /\ Substituted(q \o b, V) = Substituted(q, V) \o Substituted(b, V)
      /\ Substituted(q, V) \in Text /\ Substituted(b, V) \in Text
  BY SettledIsSubstituted
<1>4. Substituted(a, V) = a
  BY NothingIsSubstituted DEF IsPlain
<1> QED
  BY <1>2, <1>3, <1>4

\* Some of the variables.
Only(V, A) == [k \in A |-> V[k]]

\* Some of a map of plain variables are one.
LEMMA SomeArePlain ==
    ASSUME NEW V, IsPlain(V), NEW A \in SUBSET DOMAIN V, NEW t
    PROVE  /\ IsPlain(Only(V, A)) /\ DOMAIN Only(V, A) = A /\ \A k \in A : Only(V, A)[k] = V[k]
           /\ NothingStands(t, V) => NothingStands(t, Only(V, A))
  BY DEF IsPlain, IsMap, Only, NothingStands

\* One more variable is substituted after others: the text is as if they had
\* been substituted all at once.
LEMMA OneMoreVariable ==
    ASSUME NEW V, IsPlain(V), NEW A \in SUBSET DOMAIN V, NEW v \in DOMAIN V \ A,
           NEW text0 \in Text, Alternating(text0)
    PROVE  Substituted(Substituted(text0, Only(V, A)), Only(V, {v}))
              = Substituted(text0, Only(V, A \cup {v}))
<1> DEFINE Agrees(t) == Substituted(Substituted(t, Only(V, A)), Only(V, {v}))
                           = Substituted(t, Only(V, A \cup {v}))
           Bad == {t \in Text : Alternating(t) /\ ~Agrees(t)}
           lengths == {Len(t) : t \in Bad}
<1> SUFFICES ASSUME Bad # {} PROVE FALSE
  OBVIOUS
<1>1. PICK N \in lengths : \A m \in lengths : N <= m
  <2>1. \A s \in Text : Len(s) \in Nat
    BY LenProperties DEF Text
  <2>2. lengths \in SUBSET Nat /\ lengths # {}
    BY <2>1
  <2> HIDE DEF lengths
  <2> QED
    BY <2>2, LeastNat
<1>2. PICK t \in Bad : Len(t) = N
  BY <1>1
<1>3. t \in Text /\ Alternating(t) /\ ~Agrees(t)
  BY <1>2
<1>4. \A b \in Text : Alternating(b) /\ Len(b) < N => Agrees(b)
  <2> SUFFICES ASSUME NEW b \in Text, Alternating(b), Len(b) < N, ~Agrees(b) PROVE FALSE
    OBVIOUS
  <2>1. Len(b) \in lengths
    OBVIOUS
  <2>2. Len(b) \in Nat /\ N \in Nat
    BY <1>2, <1>3, LenProperties DEF Text
  <2>3. N <= Len(b)
    BY <1>1, <2>1
  <2> QED
    BY <2>2, <2>3
<1>5. PICK W, X, Y : W = Only(V, A \cup {v}) /\ X = Only(V, A) /\ Y = Only(V, {v})
  OBVIOUS
<1>6. \A s : Agrees(s) <=> Substituted(Substituted(s, X), Y) = Substituted(s, W)
  BY <1>5
<1> HIDE DEF Agrees, Bad, lengths
<1>7. /\ IsPlain(W) /\ DOMAIN W = A \cup {v} /\ \A k \in DOMAIN W : W[k] = V[k]
      /\ IsPlain(X) /\ DOMAIN X = A /\ \A k \in DOMAIN X : X[k] = V[k]
      /\ IsPlain(Y) /\ DOMAIN Y = {v} /\ \A k \in DOMAIN Y : Y[k] = V[k]
      /\ \A s : NothingStands(s, W) => NothingStands(s, X) /\ NothingStands(s, Y)
  <2>1. A \in SUBSET DOMAIN V /\ {v} \in SUBSET DOMAIN V /\ A \cup {v} \in SUBSET DOMAIN V
    OBVIOUS
  <2>2. IsPlain(W) /\ DOMAIN W = A \cup {v} /\ \A k \in A \cup {v} : W[k] = V[k]
    BY <1>5, <2>1, SomeArePlain
  <2>3. IsPlain(X) /\ DOMAIN X = A /\ \A k \in A : X[k] = V[k]
    BY <1>5, <2>1, SomeArePlain
  <2>4. IsPlain(Y) /\ DOMAIN Y = {v} /\ \A k \in {v} : Y[k] = V[k]
    BY <1>5, <2>1, SomeArePlain
  <2>5. \A s : NothingStands(s, W) => NothingStands(s, X) /\ NothingStands(s, Y)
    BY <2>2, <2>3, <2>4 DEF NothingStands
  <2> QED
    BY <2>2, <2>3, <2>4, <2>5
<1>8. IsMap(W) /\ IsMap(X) /\ IsMap(Y)
  BY <1>7 DEF IsPlain
<1>9. CASE NothingStands(t, W)
  <2>1. NothingStands(t, X) /\ NothingStands(t, Y)
    BY <1>7, <1>9
  <2>2. Substituted(t, X) = t /\ Substituted(t, Y) = t /\ Substituted(t, W) = t
    BY <1>3, <1>8, <1>9, <2>1, NothingIsSubstituted
  <2> QED
    BY <1>3, <1>6, <2>2
<1>10. CASE ~NothingStands(t, W)
  <2>1. PICK key \in DOMAIN W, a \in Text, b \in Text :
           /\ t = a \o (Placeholder(key) \o b)
           /\ Settled(a) /\ NothingStands(a, W)
           /\ Alternating(b) /\ Len(b) < Len(t)
    BY <1>3, <1>7, <1>10, FirstPlaceholder
  <2>2. /\ key \in Text /\ Unbraced(key) /\ V[key] \in Text /\ Unbraced(V[key])
        /\ NothingStands(a, X) /\ NothingStands(a, Y)
    BY <1>7, <2>1 DEF IsPlain, IsMap
  <2>3. PICK p, w : p = Placeholder(key) /\ w = V[key]
    OBVIOUS
  <2>4. p \in Text /\ Settled(p) /\ w \in Text /\ Settled(w)
    <3>1. Settled(p)
      <4>1. Len(p) = Len(key) + 2 /\ p[Len(key) + 2] = Close /\ Len(key) \in Nat
        BY <2>2, <2>3, PlaceholderElements, LenProperties DEF Text
      <4> SUFFICES ASSUME NEW i \in 1..Len(key) + 2, p[i] = Open
                   PROVE  \E j \in i + 1..Len(key) + 2 : p[j] \in Braces
        BY <4>1 DEF Settled
      <4>2. i # Len(key) + 2
        BY <4>1, BracesAreTokens
      <4>3. Len(key) + 2 \in i + 1..Len(key) + 2
        BY <4>1, <4>2
      <4> QED
        BY <4>1, <4>3 DEF Braces
    <3> QED
      BY <2>2, <2>3, <3>1, PlaceholderElements, UnbracedHasNone, <1>8
  <2>5. /\ Substituted(p, W) = w
        /\ Substituted(p, X) = IF key \in A THEN w ELSE p
        /\ Substituted(p, Y) = IF key = v THEN w ELSE p
        /\ Substituted(w, Y) = w
    <3>1. Substituted(p, W) = w
      BY <1>7, <2>1, <2>2, <2>3, PlaceholderIsReplaced
    <3>2. Substituted(p, X) = IF key \in A THEN w ELSE p
      BY <1>7, <2>2, <2>3, PlaceholderIsReplaced
    <3>3. Substituted(p, Y) = IF key = v THEN w ELSE p
      BY <1>7, <2>2, <2>3, PlaceholderIsReplaced
    <3>4. Substituted(w, Y) = w
      BY <1>8, <2>2, <2>3, UnbracedHasNone, NothingIsSubstituted
    <3> QED
      BY <3>1, <3>2, <3>3, <3>4
  <2>6. PICK q : q = Substituted(p, X) /\ q \in {w, p} /\ Substituted(q, Y) = w
    BY <1>7, <2>1, <2>5
  <2>7. PICK c : c = Substituted(b, X)
    OBVIOUS
  <2>8. Substituted(t, W) = a \o (w \o Substituted(b, W))
    <3>1. Substituted(a \o (p \o b), W) = a \o (Substituted(p, W) \o Substituted(b, W))
      <4>1. /\ IsPlain(W) /\ a \in Text /\ Settled(a) /\ NothingStands(a, W) /\ b \in Text
            /\ p \in Text /\ Settled(p)
        BY <1>7, <2>1, <2>4
      <4> QED
        BY ONLY <4>1, SubstitutedAround
    <3> QED
      BY <2>1, <2>3, <2>5, <3>1
  <2>9. Substituted(t, X) = a \o (q \o c) /\ c \in Text
    <3>1. /\ Substituted(a \o (p \o b), X) = a \o (Substituted(p, X) \o Substituted(b, X))
          /\ Substituted(b, X) \in Text
      <4>1. /\ IsPlain(X) /\ a \in Text /\ Settled(a) /\ NothingStands(a, X) /\ b \in Text
            /\ p \in Text /\ Settled(p)
        BY <1>7, <2>1, <2>2, <2>4
      <4> QED
        BY ONLY <4>1, SubstitutedAround
    <3> QED
      BY <2>1, <2>3, <2>6, <2>7, <3>1
  <2>10. Substituted(a \o (q \o c), Y) = a \o (w \o Substituted(c, Y))
    <3>1. q \in Text /\ Settled(q)
      BY <2>4, <2>6
    <3>2. Substituted(a \o (q \o c), Y) = a \o (Substituted(q, Y) \o Substituted(c, Y))
      <4>1. IsPlain(Y) /\ a \in Text /\ Settled(a) /\ NothingStands(a, Y) /\ c \in Text
        BY <1>7, <2>1, <2>2, <2>9
      <4> QED
        BY ONLY <3>1, <4>1, SubstitutedAround
    <3> QED
      BY <2>6, <3>2
  <2>11. Substituted(c, Y) = Substituted(b, W)
    BY <1>2, <1>4, <1>6, <2>1, <2>7
  <2> QED
    BY <1>3, <1>6, <2>8, <2>9, <2>10, <2>11
<1> QED
  BY <1>9, <1>10

-----------------------------------------------------------------------------
(***************************************************************************)
(* What is made of texts are texts.                                        *)
(***************************************************************************)

\* A concatenation.
LEMMA ConcatIsText ==
    ASSUME NEW x \in Text, NEW y \in Text
    PROVE  x \o y \in Text
  BY ConcatProperties DEF Text

\* A part of a text.
LEMMA PartIsText ==
    ASSUME NEW s \in Text, NEW m \in Nat \ {0}, NEW n \in Int, n <= Len(s)
    PROVE  SubSeq(s, m, n) \in Text
<1>1. \A i \in m..n : s[i] \in Tokens
  <2>1. \A i \in m..n : i \in 1..Len(s)
    BY LenProperties DEF Text
  <2> QED
    BY <2>1, ElementOfSeq DEF Text
<1> QED
  BY <1>1, SubSeqProperties DEF Text

\* The first and the last of some positions.
LEMMA FirstAndLast ==
    ASSUME NEW N \in Nat, NEW T \in SUBSET (1..N), T # {}
    PROVE  /\ Min(T) \in T /\ \A m \in T : Min(T) <= m
           /\ Max(T) \in T /\ \A m \in T : Max(T) >= m
<1>1. \E n \in T : \A m \in T : n <= m
  <2>1. T \in SUBSET Nat
    OBVIOUS
  <2> QED
    BY <2>1, LeastNat
<1>2. \E n \in T : \A m \in T : n >= m
  <2>1. T \in SUBSET (0..N)
    OBVIOUS
  <2>2. PICK n \in T : \A m \in T : m <= n
    BY <2>1, GreatestNat
  <2>3. \A m \in T : n >= m
    BY <2>2
  <2> QED
    BY <2>3
<1>3. Min(T) \in T /\ \A m \in T : Min(T) <= m
  BY <1>1 DEF Min
<1>4. Max(T) \in T /\ \A m \in T : Max(T) >= m
  BY <1>2 DEF Max
<1> QED
  BY <1>3, <1>4

\* The encodings of characters, and the tokens of the bytes they happen to hold.
LEMMA RawTokens ==
    ASSUME NEW encoding \in DOMAIN Raw
    PROVE  /\ Raw[encoding] \in Tokens
           /\ encoding \in {"b64", "hex"} /\ Raw[encoding] \in {"unb64", "unhex"}
<1>1. DOMAIN Raw = {"b64", "hex"} /\ Raw.b64 = "unb64" /\ Raw.hex = "unhex"
  BY DEF Raw
<1>2. Raw.b64 \in Tokens /\ Raw.hex \in Tokens
  BY TokensAssumption, Zenon
<1> QED
  BY <1>1, <1>2

\* The decoders.
LEMMA DecodedIsText ==
    ASSUME NEW s \in Text, NEW encoding \in DOMAIN Raw
    PROVE  DecodeAs(encoding, s) \subseteq Text
<1>1. <<>> \in Text
  BY EmptySeq DEF Text
<1>2. s # <<>> => Tail(s) \in Text
  BY HeadTailProperties DEF Text
<1>3. <<Raw[encoding]>> \o s \in Text
  <2>1. <<Raw[encoding]>> \in Text
    BY RawTokens DEF Text
  <2> QED
    BY <2>1, ConcatIsText
<1> QED
  BY <1>1, <1>2, <1>3 DEF DecodeAs

\* The payload of a token.
LEMMA JwtPayloadIsText ==
    ASSUME NEW s \in Text
    PROVE  JwtPayload(s) \subseteq Text
<1> DEFINE dots == {i \in DOMAIN Visible(s) : s[i] = "."}
<1>1. CASE Cardinality(dots) # 2
  BY <1>1 DEF JwtPayload
<1>2. CASE Cardinality(dots) = 2
  <2>1. dots # {}
    BY <1>2, FS_EmptySet
  <2>2. Len(s) \in Nat /\ DOMAIN s = 1..Len(s)
    BY LenProperties DEF Text
  <2>3. DOMAIN Visible(s) \subseteq 1..Len(s)
    <3> DEFINE T == {Len(s)} \cup {i \in DOMAIN s : s[i] \in Hidden}
    <3>1. PICK m \in Nat : m = Min(T) /\ m <= Len(s)
      <4>1. T \in SUBSET Nat /\ T # {}
        BY <2>2
      <4>2. Min(T) \in T /\ \A n \in T : Min(T) <= n
        <5>1. \E n \in T : \A k \in T : n <= k
          <6> HIDE DEF T
          <6> QED
            BY <4>1, LeastNat
        <5> QED
          BY <5>1 DEF Min
      <4>3. Len(s) \in T
        OBVIOUS
      <4> HIDE DEF T
      <4> QED
        BY <4>1, <4>2, <4>3
    <3>2. Visible(s) = SubSeq(s, 1, m)
      BY <3>1 DEF Visible
    <3> HIDE DEF T
    <3>3. /\ SubSeq(s, 1, m) \in Seq(Tokens)
          /\ Len(SubSeq(s, 1, m)) = IF 1 <= m THEN m - 1 + 1 ELSE 0
      <4>1. \A i \in 1..m : s[i] \in Tokens
        <5>1. \A i \in 1..m : i \in 1..Len(s)
          BY <2>2, <3>1
        <5> QED
          BY <5>1, ElementOfSeq DEF Text
      <4>2. 1 \in Int /\ m \in Int
        BY <3>1
      <4> QED
        BY ONLY <4>1, <4>2, SubSeqProperties
    <3>4. DOMAIN SubSeq(s, 1, m) = 1..Len(SubSeq(s, 1, m)) /\ Len(SubSeq(s, 1, m)) <= m
      BY <3>1, <3>3, LenProperties
    <3> QED
      BY <2>2, <3>1, <3>2, <3>4
  <2>4. dots \in SUBSET (1..Len(s))
    BY <2>3
  <2>5. Min(dots) \in 1..Len(s) /\ Max(dots) \in 1..Len(s)
    <3> HIDE DEF dots
    <3> QED
      BY <2>1, <2>2, <2>4, FirstAndLast
  <2> HIDE DEF dots
  <2>6. SubSeq(s, Min(dots) + 1, Max(dots) - 1) \in Text
    <3>1. /\ Min(dots) + 1 \in Nat \ {0} /\ Max(dots) - 1 \in Int
          /\ Max(dots) - 1 <= Len(s)
      BY <2>2, <2>5
    <3> QED
      BY <3>1, PartIsText
  <2>7. JwtPayload(s) = DecodeAs("b64", SubSeq(s, Min(dots) + 1, Max(dots) - 1))
    BY <1>2 DEF JwtPayload, dots
  <2>8. "b64" \in DOMAIN Raw
    BY DEF Raw
  <2> QED
    BY <2>6, <2>7, <2>8, DecodedIsText
<1> QED
  BY <1>1, <1>2

\* What a gzip stream holds, as far as it is read.
LEMMA GunzipIsText ==
    ASSUME NEW s \in Text
    PROVE  Gunzip(s) \subseteq Text
<1>1. CASE s = <<>>
  BY <1>1 DEF Gunzip
<1>2. CASE s # <<>>
  <2>1. Len(s) \in Nat /\ MaxInflated + 1 \in Nat
    BY LenProperties, MaxInflatedAssumption DEF Text
  <2>2. PICK m \in Nat : m = Min({Len(s), MaxInflated + 1}) /\ m <= Len(s)
    <3>1. \E x \in {Len(s), MaxInflated + 1} : \A y \in {Len(s), MaxInflated + 1} : x <= y
      BY <2>1
    <3>2. /\ Min({Len(s), MaxInflated + 1}) \in {Len(s), MaxInflated + 1}
          /\ \A y \in {Len(s), MaxInflated + 1} : Min({Len(s), MaxInflated + 1}) <= y
      BY <3>1 DEF Min
    <3> QED
      BY <2>1, <3>2
  <2>3. SubSeq(s, 2, m) \in Text
    <3>1. 2 \in Nat \ {0} /\ m \in Int
      BY <2>2
    <3> QED
      BY <2>2, <3>1, PartIsText
  <2> QED
    BY <2>2, <2>3 DEF Gunzip
<1> QED
  BY <1>1, <1>2

\* A text without its percent escapes.
LEMMA UrlDecodedIsText ==
    ASSUME NEW s \in Text
    PROVE  UrlDecoded(s) \in Text
<1> DEFINE p == [i \in DOMAIN s |-> IF s[i] = "%" THEN <<>> ELSE <<s[i]>>]
<1>1. /\ Len(s) \in Nat /\ DOMAIN s = 1..Len(s) /\ \A i \in 1..Len(s) : s[i] \in Tokens
  BY LenProperties, ElementOfSeq DEF Text
<1>2. p \in [1..Len(s) -> Seq(Tokens)]
  BY <1>1
<1>3. p \in Seq(Seq(Tokens))
  BY <1>1, <1>2, SeqDef
<1>4. UrlDecoded(s) = s \/ UrlDecoded(s) = FlattenSeq(p)
  BY DEF UrlDecoded
<1> HIDE DEF p
<1>5. FlattenSeq(p) \in Seq(Tokens)
  BY <1>3, FlattenIsJoined
<1> QED
  BY <1>4, <1>5 DEF Text

IsRendered(value) == value.kind = "Null" \/ value.text \in Text

\* What gjson finds.
LEMMA RenderedIsText ==
    ASSUME NEW value, IsRendered(value)
    PROVE  ValueToString(value) \in Text
<1>1. "null" \in Tokens
  BY TokensAssumption, Zenon
<1>2. <<"null">> \in Text
  BY <1>1 DEF Text
<1> QED
  BY <1>2 DEF IsRendered, ValueToString

\* What a path finds is rendered, and so are the elements of an array.
LEMMA FoundIsRendered ==
    ASSUME NEW s, IsJson(s), NEW path, NEW value \in JsonAt(s, path)
    PROVE  /\ IsRendered(value)
           /\ value.kind = "Array" =>
                 /\ value.items \in Seq(Range(value.items))
                 /\ \A n \in DOMAIN value.items : IsRendered(value.items[n])
<1>1. s[2] \in DOMAIN Documents
  BY DEF IsJson
<1>2. PICK p \in DOMAIN Documents[s[2]] : value = Documents[s[2]][p]
  BY DEF JsonAt
<1> QED
  BY <1>1, <1>2, DocumentsAssumption DEF IsRendered

\* The text of what a path finds.
LEMMA JsonTextIsText ==
    ASSUME NEW value, IsRendered(value),
           value.kind = "Array" =>
              /\ value.items \in Seq(Range(value.items))
              /\ \A n \in DOMAIN value.items : IsRendered(value.items[n])
    PROVE  JsonText(value) \in Text
<1>1. CASE value.kind # "Array"
  BY <1>1, RenderedIsText DEF JsonText
<1>2. CASE value.kind = "Array"
  <2> DEFINE p == [i \in DOMAIN value.items |->
                      (IF i = 1 THEN <<>> ELSE <<Newline>>) \o ValueToString(value.items[i])]
  <2>1. Len(value.items) \in Nat /\ DOMAIN value.items = 1..Len(value.items)
    BY <1>2, LenProperties
  <2>2. ASSUME NEW i \in DOMAIN value.items
        PROVE  (IF i = 1 THEN <<>> ELSE <<Newline>>) \o ValueToString(value.items[i]) \in Seq(Tokens)
    <3>1. ValueToString(value.items[i]) \in Seq(Tokens)
      BY <1>2, RenderedIsText DEF Text
    <3>2. (IF i = 1 THEN <<>> ELSE <<Newline>>) \in Seq(Tokens)
      <4>1. Newline \in Tokens
        BY TokensAssumption, Zenon
      <4> QED
        BY <4>1
    <3> QED
      BY ONLY <3>1, <3>2, ConcatProperties
  <2>3. p \in [1..Len(value.items) -> Seq(Tokens)]
    BY <2>1, <2>2
  <2>4. p \in Seq(Seq(Tokens))
    BY <2>1, <2>3, SeqDef
  <2>5. JsonText(value) = FlattenSeq(p)
    BY <1>2 DEF JsonText
  <2> HIDE DEF p
  <2>6. FlattenSeq(p) \in Seq(Tokens)
    BY <2>4, FlattenIsJoined
  <2> QED
    BY <2>5, <2>6 DEF Text
<1> QED
  BY <1>1, <1>2

\* A transform.
LEMMA TransformedIsText ==
    ASSUME NEW s \in Text, NEW transform
    PROVE  Transformed(transform, s) \subseteq Text
<1>1. ASSUME IsJson(s)
      PROVE  (IF JsonAt(s, transform.path) = {} THEN {<<>>}
              ELSE {ValueToString(value) : value \in JsonAt(s, transform.path)}) \subseteq Text
  <2>1. \A value \in JsonAt(s, transform.path) : ValueToString(value) \in Text
    BY <1>1, FoundIsRendered, RenderedIsText
  <2>2. <<>> \in Text
    BY EmptySeq DEF Text
  <2> QED
    BY <2>1, <2>2
<1>2. "b64" \in DOMAIN Raw /\ "hex" \in DOMAIN Raw
  BY DEF Raw
<1>3. CASE transform.kind = "Base64Decode"
  BY <1>2, <1>3, DecodedIsText DEF Transformed
<1>4. CASE transform.kind = "HexDecode"
  BY <1>2, <1>4, DecodedIsText DEF Transformed
<1>5. CASE transform.kind = "UrlDecode"
  BY <1>5, UrlDecodedIsText DEF Transformed
<1>6. CASE transform.kind = "GzipDecompress"
  BY <1>6, GunzipIsText DEF Transformed
<1>7. CASE transform.kind = "JwtDecode"
  BY <1>7, JwtPayloadIsText DEF Transformed
<1>8. CASE transform.kind = "JsonParse" /\ IsJson(s)
  BY <1>1, <1>8 DEF Transformed
<1>9. CASE /\ transform.kind \notin {"Base64Decode", "HexDecode", "UrlDecode", "GzipDecompress",
                                     "JwtDecode"}
           /\ ~(transform.kind = "JsonParse" /\ IsJson(s))
  BY <1>9 DEF Transformed
<1> QED
  BY <1>3, <1>4, <1>5, <1>6, <1>7, <1>8, <1>9

Responses == [body : Text, headers : Text, header_map : Seq(Tokens \X Text)]

\* A part of a response.
LEMMA PartOfIsText ==
    ASSUME NEW response \in Responses, NEW part
    PROVE  PartOf(response, part) \in Text /\ HeaderValue(response, part) \subseteq Text
<1>1. response.body \in Text /\ response.headers \in Text
  BY DEF Responses
<1>2. \A n \in DOMAIN response.header_map : response.header_map[n][2] \in Text
  BY LenProperties, ElementOfSeq DEF Responses
<1>3. HeaderValue(response, part) \subseteq Text
  BY <1>2 DEF HeaderValue
<1>4. <<>> \in Text
  BY EmptySeq DEF Text
<1>5. CASE part = "Body"
  BY <1>1, <1>3, <1>5 DEF PartOf
<1>6. CASE part = "Header"
  BY <1>1, <1>3, <1>6 DEF PartOf
<1>7. CASE part = "All"
  <2>1. response.headers \o response.body \in Text
    BY <1>1, ConcatProperties DEF Text
  <2> QED
    BY <1>3, <1>7, <2>1 DEF PartOf
<1>8. CASE part \notin {"Body", "Header", "All"}
  <2>1. PICK H : H = HeaderValue(response, part)
    OBVIOUS
  <2>2. PartOf(response, part) = IF H = {} THEN <<>> ELSE CHOOSE value \in H : TRUE
    BY <1>8, <2>1 DEF PartOf
  <2> QED
    BY <1>3, <1>4, <2>1, <2>2
<1> QED
  BY <1>5, <1>6, <1>7, <1>8

\* The value of a pattern.
LEMMA YieldsAreTexts ==
    ASSUME NEW response \in Responses, NEW extractor, NEW pattern
    PROVE  Yields(extractor, pattern, response) \subseteq Text
<1>1. PICK s \in Text : s = PartOf(response, extractor.part)
  BY PartOfIsText
<1>2. Captures(pattern, extractor.group, s) \subseteq Text
  <2> DEFINE at == {i \in DOMAIN s : s[i] = pattern[1]}
  <2>1. CASE pattern = <<"(">> \/ at = {}
    BY <2>1 DEF Captures
  <2>2. CASE ~(pattern = <<"(">> \/ at = {})
    <3>1. Len(s) \in Nat /\ DOMAIN s = 1..Len(s)
      BY LenProperties DEF Text
    <3>2. at \in SUBSET (1..Len(s)) /\ at # {}
      BY <2>2, <3>1
    <3>3. Min(at) \in 1..Len(s)
      <4> HIDE DEF at
      <4> QED
        BY <3>1, <3>2, FirstAndLast
    <3>4. Captures(pattern, extractor.group, s) =
             {SubSeq(s, Min(at) + extractor.group, Min(at) + extractor.group) :
                 g \in {extractor.group} \cap (IF Min(at) < Len(s) THEN {0, 1} ELSE {0})}
      BY <2>2 DEF Captures
    <3> HIDE DEF at
    <3>5. ASSUME NEW g \in {extractor.group} \cap (IF Min(at) < Len(s) THEN {0, 1} ELSE {0})
          PROVE  SubSeq(s, Min(at) + extractor.group, Min(at) + extractor.group) \in Text
      <4>1. /\ Min(at) + extractor.group \in Nat \ {0} /\ Min(at) + extractor.group \in Int
            /\ Min(at) + extractor.group <= Len(s)
        BY <3>1, <3>3
      <4> QED
        BY <4>1, PartIsText
    <3> QED
      BY <3>4, <3>5
  <2> QED
    BY <2>1, <2>2
<1>3. HeaderValue(response, pattern[1]) \subseteq Text
  BY PartOfIsText
<1>4. ASSUME IsJson(s)
      PROVE  {JsonText(value) : value \in JsonAt(s, TrimOf(Whitespace, pattern))} \subseteq Text
  <2>1. \A value \in JsonAt(s, TrimOf(Whitespace, pattern)) : JsonText(value) \in Text
    BY <1>4, FoundIsRendered, JsonTextIsText
  <2> QED
    BY <2>1
<1>5. CASE extractor.kind = "Regex"
  BY <1>1, <1>2, <1>5 DEF Yields
<1>6. CASE extractor.kind = "Kval"
  BY <1>3, <1>6 DEF Yields
<1>7. CASE extractor.kind = "Json" /\ IsJson(s)
  BY <1>1, <1>4, <1>7 DEF Yields
<1>8. CASE extractor.kind \notin {"Regex", "Kval"} /\ ~(extractor.kind = "Json" /\ IsJson(s))
  BY <1>1, <1>8 DEF Yields
<1> QED
  BY <1>5, <1>6, <1>7, <1>8

-----------------------------------------------------------------------------
(***************************************************************************)
(* Decoding.  What a decoder does can be undone, up to what it has cut; so *)
(* the data that a chain leaves leads back to the body.                    *)
(***************************************************************************)

\* The data after each of the transforms, of which w[0] is before the first.
IsHistory(w) ==
    /\ w[0] = request.response.body
    /\ w[Len(request.transforms)] = data
    /\ \A n \in 1..Len(request.transforms) :
          IF n \in Taken THEN w[n] \in Transformed(request.transforms[n], w[n - 1])
          ELSE w[n] = w[n - 1]
    /\ stage = "transform" => \A n \in 0..Len(request.transforms) : index <= n + 1 => w[n] = data

\* The data has come from the body through the transforms that were taken.
DecodeInv ==
    /\ IsCall
    /\ index \in Nat \ {0}
    /\ failures \subseteq Nat
    /\ stage = "transform" => \A n \in failures : n < index
    /\ \E w : IsHistory(w)

\* A transform adds to the history what it makes of the data, or the data once
\* more.
LEMMA TransformKeeps == DecodeInv /\ Transform => DecodeInv'
<1> SUFFICES ASSUME DecodeInv, Transform
             PROVE  DecodeInv'
  OBVIOUS
<1> DEFINE L == Len(request.transforms)
<1>1. /\ index \in 1..L /\ index \in DOMAIN request.transforms
      /\ index \in Nat \ {0} /\ index' = index + 1 /\ L \in Nat /\ DOMAIN request.transforms = 1..L
      /\ stage = "transform" /\ request' = request /\ stage' = stage
  BY CallShape DEF DecodeInv, IsCall, Transform
<1>2. /\ IsCall' /\ index' \in Nat \ {0} /\ failures' \subseteq Nat
      /\ stage' = "transform" => \A n \in failures' : n < index'
  <2>1. \A n \in failures : n \in Nat /\ n < index
    BY <1>1 DEF DecodeInv
  <2>2. failures' \subseteq failures \cup {index}
    BY DEF Transform
  <2> QED
    BY <1>1, <2>1, <2>2 DEF DecodeInv, IsCall
<1>3. PICK w : IsHistory(w)
  BY DEF DecodeInv
<1>4. w[index - 1] = data
  <2>1. index - 1 \in 0..L /\ index <= (index - 1) + 1
    BY <1>1
  <2> QED
    BY <1>1, <1>3, <2>1 DEF IsHistory
<1>5. /\ \A n \in Taken : n < index
      /\ \A n \in 1..L : n < index => (n \in Taken' <=> n \in Taken)
      /\ \A n \in 1..L : n > index => n \notin Taken'
      /\ index \in Taken' <=> index \notin failures'
      /\ index \notin failures
  <2>1. failures' = failures \/ failures' = failures \cup {index}
    BY DEF Transform
  <2>2. Taken = {n \in 1..L : n \notin failures /\ n < index}
    BY <1>1 DEF Taken
  <2>3. Taken' = {n \in 1..L : n \notin failures' /\ n < index + 1}
    BY <1>1 DEF Taken
  <2>4. index \notin failures
    BY <1>1 DEF DecodeInv
  <2> QED
    BY <1>1, <2>1, <2>2, <2>3, <2>4
<1>6. PICK v : /\ \A n \in 0..L : n < index => v[n] = w[n]
               /\ \A n \in 0..L : ~(n < index) => v[n] = data'
  <2> DEFINE u == [n \in 0..L |-> IF n < index THEN w[n] ELSE data']
  <2>1. /\ \A n \in 0..L : n < index => u[n] = w[n]
        /\ \A n \in 0..L : ~(n < index) => u[n] = data'
    OBVIOUS
  <2> QED
    BY <2>1
<1>7. v[0] = request.response.body /\ v[L] = data'
  <2>1. 0 \in 0..L /\ 0 < index /\ L \in 0..L /\ ~(L < index)
    BY <1>1
  <2> QED
    BY <1>3, <1>6, <2>1 DEF IsHistory
<1>8. ASSUME NEW n \in 1..L
      PROVE  IF n \in Taken' THEN v[n] \in Transformed(request.transforms[n], v[n - 1])
             ELSE v[n] = v[n - 1]
  <2>1. n \in 0..L /\ n - 1 \in 0..L
    BY <1>1
  <2>2. CASE n < index
    <3>1. n - 1 < index
      BY <1>1, <2>2
    <3>2. v[n] = w[n] /\ v[n - 1] = w[n - 1]
      BY <1>6, <2>1, <2>2, <3>1
    <3> QED
      BY <1>3, <1>5, <2>2, <3>2 DEF IsHistory
  <2>3. CASE n > index
    <3>1. ~(n < index) /\ ~(n - 1 < index)
      BY <1>1, <2>3
    <3> QED
      BY <1>5, <1>6, <2>1, <2>3, <3>1
  <2>4. CASE n = index
    <3>1. n - 1 < index /\ ~(n < index)
      BY <1>1, <2>4
    <3>2. v[n] = data' /\ v[n - 1] = data
      BY <1>4, <1>6, <2>1, <2>4, <3>1
    <3>3. CASE failures' = failures \cup {index} /\ data' = data
      BY <1>5, <2>4, <3>2, <3>3
    <3>4. CASE failures' = failures /\ data' \in Transformed(request.transforms[index], data)
      BY <1>5, <2>4, <3>2, <3>4
    <3> QED
      BY <3>3, <3>4 DEF Transform
  <2> QED
    BY <1>1, <2>2, <2>3, <2>4
<1>9. \A n \in 0..L : index + 1 <= n + 1 => v[n] = data'
  <2>1. \A n \in 0..L : index + 1 <= n + 1 => ~(n < index)
    BY <1>1
  <2> QED
    BY <1>6, <2>1
<1>10. IsHistory(v)'
  BY <1>1, <1>7, <1>8, <1>9 DEF IsHistory
<1> QED
  BY <1>2, <1>10 DEF DecodeInv

\* No other step touches the data or what was taken.
LEMMA LaterStepsKeep ==
    DecodeInv /\ (BodyReady \/ Extract \/ AllExtracted \/ (\E key \in pending : Substitute(key))
                     \/ Evaluate \/ UNCHANGED vars)
    => DecodeInv'
<1> SUFFICES ASSUME DecodeInv,
                    \/ BodyReady \/ Extract \/ AllExtracted
                    \/ (\E key \in pending : Substitute(key)) \/ Evaluate \/ UNCHANGED vars
             PROVE  DecodeInv'
  OBVIOUS
<1>1. request' = request /\ data' = data /\ failures' = failures
  BY DEF BodyReady, Extract, AllExtracted, Substitute, Evaluate, vars
<1>2. index \in Nat \ {0} /\ index' \in Nat \ {0}
  <2>1. index' \in {index, index + 1, 1}
    BY DEF BodyReady, Extract, AllExtracted, Substitute, Evaluate, vars
  <2> QED
    BY <2>1 DEF DecodeInv
<1>3. \/ stage' = stage /\ index' = index
      \/ stage # "transform" /\ stage' # "transform"
      \/ BodyReady
  BY DEF BodyReady, Extract, AllExtracted, Substitute, Evaluate, vars
<1>4. stage' = "transform" => stage = "transform" /\ index' = index
  BY <1>3 DEF BodyReady
<1>5. Taken' = Taken
  <2>1. CASE BodyReady
    <3>1. \A n \in DOMAIN request.transforms : n < index
      BY <2>1, <1>2, CallShape DEF DecodeInv, IsCall, BodyReady
    <3> QED
      BY <2>1, <3>1, <1>1 DEF Taken, BodyReady
  <2> QED
    BY <2>1, <1>1, <1>3 DEF Taken
<1>6. PICK w : IsHistory(w)
  BY DEF DecodeInv
<1>7. IsHistory(w)'
  BY <1>1, <1>4, <1>5, <1>6 DEF IsHistory
<1> QED
  BY <1>1, <1>2, <1>4, <1>7 DEF DecodeInv, IsCall

\* A text is bytes that a text happened to encode.
IsRaw(t) == \E encoding \in DOMAIN Raw : t[1] = Raw[encoding]

\* The encoding is taken off the text, and with it nothing or its end.
IsPeeled(encoding, old, new) ==
    /\ old[1] = encoding
    /\ Len(new) < Len(old)
    /\ \A i \in 1..Len(new) : new[i] = old[i + 1]

\* The text happens to be well formed in the encoding.
IsRead(encoding, old, new) ==
    /\ encoding \in DOMAIN Raw
    /\ new[1] = Raw[encoding]
    /\ Len(new) = Len(old) + 1
    /\ \A i \in 1..Len(old) : new[i + 1] = old[i]

\* What a decoder makes of a text, with the end of it cut off or not.
IsDecoded(encoding, cut, old, new) ==
    /\ old \in Text /\ old # <<>> /\ new \in Text /\ new # <<>>
    /\ encoding \in {"b64", "hex", "gz"}
    /\ \/ IsRead(encoding, old, new)
       \/ /\ IsPeeled(encoding, old, new)
          /\ Len(new) = Len(old) - 1 \/ (cut /\ Len(old) > MaxInflated + 1)

\* A text, in the terms of the provers.
LEMMA TextShape ==
    ASSUME NEW t \in Text
    PROVE  /\ IsSeq(t) /\ Len(t) \in Nat /\ DOMAIN t = 1..Len(t)
           /\ t = <<>> <=> Len(t) = 0
           /\ t # <<>> => Len(t) >= 1
<1>1. t \in Seq(Tokens)
  BY DEF Text
<1>2. IsSeq(t)
  BY <1>1, SeqIsSeq
<1>3. Len(t) \in Nat /\ DOMAIN t = 1..Len(t)
  BY <1>2, SeqDomain
<1>4. t = <<>> <=> Len(t) = 0
  BY <1>1, EmptySeq
<1> QED
  BY <1>2, <1>3, <1>4

\* The first token and the rest.
LEMMA TailOfText ==
    ASSUME NEW t \in Text, t # <<>>
    PROVE  /\ Tail(t) \in Text /\ Head(t) = t[1] /\ Len(Tail(t)) = Len(t) - 1
           /\ \A i \in 1..Len(Tail(t)) : Tail(t)[i] = t[i + 1]
<1>1. t \in Seq(Tokens)
  BY DEF Text
<1> QED
  BY <1>1, HeadTailProperties DEF Text

\* A token before a text.
LEMMA TokenBeforeText ==
    ASSUME NEW t \in Text, NEW e \in Tokens
    PROVE  /\ <<e>> \o t \in Text /\ Len(<<e>> \o t) = Len(t) + 1
           /\ (<<e>> \o t)[1] = e
           /\ \A i \in 1..Len(t) : (<<e>> \o t)[i + 1] = t[i]
<1>1. <<e>> \in Seq(Tokens) /\ t \in Seq(Tokens) /\ Len(<<e>>) = 1 /\ <<e>>[1] = e
  BY DEF Text
<1>2. Len(t) \in Nat
  BY TextShape
<1>3. PICK r : r = <<e>> \o t
  OBVIOUS
<1>4. /\ r \in Seq(Tokens) /\ Len(r) = 1 + Len(t)
      /\ \A i \in 1..1 + Len(t) : r[i] = IF i <= 1 THEN <<e>>[i] ELSE t[i - 1]
  BY <1>1, <1>3, ConcatProperties
<1>5. r[1] = e
  <2>1. 1 \in 1..1 + Len(t) /\ 1 <= 1
    BY <1>2
  <2> QED
    BY <1>1, <1>4, <2>1
<1>6. ASSUME NEW i \in 1..Len(t)
      PROVE  r[i + 1] = t[i]
  <2>1. PICK j \in 1..1 + Len(t) : j = i + 1
    BY <1>2
  <2>2. ~(j <= 1) /\ j - 1 = i
    BY <1>2, <2>1
  <2> QED
    BY <1>4, <2>1, <2>2
<1>7. Len(r) = Len(t) + 1
  BY <1>2, <1>4
<1> QED
  BY <1>3, <1>4, <1>5, <1>6, <1>7 DEF Text

\* What a decoder does, unless it leaves nothing.
LEMMA DecoderStep ==
    ASSUME NEW transform, transform.kind \in DOMAIN Encoding,
           NEW old \in Text, NEW new \in Transformed(transform, old), new # <<>>
    PROVE  IsDecoded(Encoding[transform.kind], transform.kind = "GzipDecompress", old, new)
<1>1. new \in Text
  BY TransformedIsText
<1>2. Len(old) \in Nat /\ (old # <<>> => Len(old) >= 1)
  BY TextShape
<1>3. ASSUME NEW encoding \in DOMAIN Raw, new \in DecodeAs(encoding, old)
      PROVE  /\ old # <<>>
             /\ \/ IsRead(encoding, old, new)
                \/ IsPeeled(encoding, old, new) /\ Len(new) = Len(old) - 1
  <2>1. old # <<>>
    BY <1>3 DEF DecodeAs
  <2>2. CASE Head(old) = encoding /\ new = Tail(old)
    BY <1>2, <2>1, <2>2, TailOfText DEF IsPeeled
  <2>3. CASE new = <<Raw[encoding]>> \o old
    <3>1. PICK e \in Tokens : e = Raw[encoding]
      BY RawTokens
    <3>2. /\ Len(new) = Len(old) + 1 /\ new[1] = e
          /\ \A i \in 1..Len(old) : new[i + 1] = old[i]
      BY <2>3, <3>1, TokenBeforeText
    <3> QED
      BY <1>3, <2>1, <3>1, <3>2 DEF IsRead
  <2> QED
    BY <1>3, <2>1, <2>2, <2>3 DEF DecodeAs
<1>4. CASE transform.kind = "Base64Decode"
  <2>1. new \in DecodeAs("b64", old) /\ Encoding[transform.kind] = "b64" /\ "b64" \in DOMAIN Raw
    BY <1>4 DEF Transformed, Encoding, Raw
  <2> QED
    BY <1>1, <1>3, <2>1 DEF IsDecoded
<1>5. CASE transform.kind = "HexDecode"
  <2>1. new \in DecodeAs("hex", old) /\ Encoding[transform.kind] = "hex" /\ "hex" \in DOMAIN Raw
    BY <1>5 DEF Transformed, Encoding, Raw
  <2> QED
    BY <1>1, <1>3, <2>1 DEF IsDecoded
<1>6. CASE transform.kind = "GzipDecompress"
  <2>1. /\ old # <<>> /\ old[1] = "gz" /\ Encoding[transform.kind] = "gz"
        /\ new = SubSeq(old, 2, Min({Len(old), MaxInflated + 1}))
    <3>1. new \in Gunzip(old)
      BY <1>6 DEF Transformed
    <3>2. Encoding[transform.kind] = "gz"
      BY <1>6 DEF Encoding
    <3> QED
      BY <3>1, <3>2 DEF Gunzip
  <2>2. PICK end \in Nat : /\ new = SubSeq(old, 2, end) /\ end <= Len(old)
                           /\ end = Len(old) \/ MaxInflated + 1 < Len(old)
    <3> DEFINE ends == {Len(old), MaxInflated + 1}
    <3>1. MaxInflated + 1 \in Nat
      BY MaxInflatedAssumption
    <3>2. \E x \in ends : \A y \in ends : x <= y
      BY <3>1, <1>2
    <3>3. Min(ends) \in ends /\ \A y \in ends : Min(ends) <= y
      BY <3>2 DEF Min
    <3>4. PICK m : m = Min(ends)
      OBVIOUS
    <3>5. m \in Nat /\ m <= Len(old) /\ (m = Len(old) \/ MaxInflated + 1 < Len(old))
      BY <1>2, <3>1, <3>3, <3>4
    <3>6. new = SubSeq(old, 2, m)
      BY <2>1, <3>4
    <3> QED
      BY <3>5, <3>6
  <2>3. /\ IsSeq(new) /\ Len(new) = (IF 2 <= end THEN end - 2 + 1 ELSE 0)
        /\ \A i \in 1..end - 2 + 1 : new[i] = old[2 + i - 1]
    <3>1. 2 \in Nat \ {0} /\ IsSeq(old)
      BY TextShape
    <3> QED
      BY <2>2, <3>1, PartElements
  <2>4. Len(new) \in Nat /\ Len(new) # 0
    BY <1>1, TextShape
  <2>5. Len(new) = end - 1 /\ end - 2 + 1 = end - 1 /\ end - 1 < Len(old)
    BY <1>2, <2>2, <2>3, <2>4
  <2>6. \A i \in 1..Len(new) : new[i] = old[i + 1]
    <3>1. \A i \in 1..end - 1 : 2 + i - 1 = i + 1
      OBVIOUS
    <3> QED
      BY <2>3, <2>5, <3>1
  <2>7. Len(new) = Len(old) - 1 \/ Len(old) > MaxInflated + 1
    BY <1>2, <2>2, <2>5, MaxInflatedAssumption
  <2> QED
    BY <1>1, <1>6, <2>1, <2>5, <2>6, <2>7 DEF IsDecoded, IsPeeled
<1> QED
  BY <1>4, <1>5, <1>6 DEF Encoding

\* What the chain works on stays canonical, and stays within the length of the
\* body unless it is bytes that a text happened to encode.
IsWithin(t, N) == t \in Text /\ IsCanonical(t) /\ (t # <<>> => Len(t) <= N \/ IsRaw(t))

LEMMA DecodedIsWithin ==
    ASSUME NEW N \in Nat, NEW encoding, NEW cut, NEW old, NEW new,
           IsDecoded(encoding, cut, old, new), IsWithin(old, N)
    PROVE  IsWithin(new, N)
<1>1. /\ Len(old) \in Nat /\ Len(old) >= 1 /\ Len(new) \in Nat /\ Len(new) >= 1
      /\ new \in Text /\ old # <<>>
  BY TextShape DEF IsDecoded
<1>2. \A e \in DOMAIN Raw : e \in {"b64", "hex"} /\ Raw[e] \in {"unb64", "unhex"}
  BY RawTokens
<1>3. encoding \in {"b64", "hex", "gz"}
  BY DEF IsDecoded
<1>4. CASE IsRead(encoding, old, new)
  <2>1. IsRaw(new)
    BY <1>4 DEF IsRaw, IsRead
  <2>2. ASSUME NEW i \in 1..Len(new) - 1, NEW e \in DOMAIN Raw, new[i] = e, new[i + 1] = Raw[e]
        PROVE  FALSE
    <3>1. i # 1
      BY <1>2, <1>4, <2>2 DEF IsRead
    <3>2. PICK j \in 1..Len(old) - 1 : i = j + 1
      <4>1. i - 1 \in 1..Len(old) - 1 /\ i = (i - 1) + 1
        BY <1>1, <1>4, <3>1 DEF IsRead
      <4> QED
        BY <4>1
    <3>3. j \in 1..Len(old) /\ j + 1 \in 1..Len(old)
      BY <1>1
    <3>4. new[j + 1] = old[j] /\ new[(j + 1) + 1] = old[j + 1]
      BY <1>4, <3>3 DEF IsRead
    <3> QED
      BY <2>2, <3>2, <3>4 DEF IsWithin, IsCanonical
  <2> QED
    BY <1>1, <2>1, <2>2 DEF IsWithin, IsCanonical
<1>5. CASE IsPeeled(encoding, old, new)
  <2>1. ~IsRaw(old)
    BY <1>2, <1>3, <1>5 DEF IsRaw, IsPeeled
  <2>2. Len(new) <= N
    <3>1. Len(old) <= N /\ Len(new) < Len(old)
      BY <1>1, <1>5, <2>1 DEF IsWithin, IsPeeled
    <3> QED
      BY <1>1, <3>1
  <2>3. ASSUME NEW i \in 1..Len(new) - 1, NEW e \in DOMAIN Raw, new[i] = e, new[i + 1] = Raw[e]
        PROVE  FALSE
    <3>1. PICK j \in 1..Len(old) - 1 : j = i + 1
      <4>1. i + 1 \in 1..Len(old) - 1
        BY <1>1, <1>5 DEF IsPeeled
      <4> QED
        BY <4>1
    <3>2. i \in 1..Len(new) /\ i + 1 \in 1..Len(new)
      BY <1>1
    <3>3. new[i] = old[j] /\ new[i + 1] = old[j + 1]
      BY <1>5, <3>1, <3>2 DEF IsPeeled
    <3> QED
      BY <2>3, <3>1, <3>3 DEF IsWithin, IsCanonical
  <2> QED
    BY <1>1, <2>2, <2>3 DEF IsWithin, IsCanonical
<1> QED
  BY <1>4, <1>5 DEF IsDecoded

\* u is t, or what t begins with when something was cut.
IsUndone(u, t, cut) ==
    /\ u \in Text /\ u # <<>> /\ t # <<>>
    /\ Len(u) <= Len(t)
    /\ \A i \in 1..Len(u) : u[i] = t[i]
    /\ Len(u) = Len(t) \/ (cut /\ ~IsRaw(t))

\* Undoing a decoder as well.
LEMMA DecoderIsUndone ==
    ASSUME NEW N \in Nat, NEW encoding, NEW gzip, NEW old, NEW new, NEW cut, NEW u,
           IsDecoded(encoding, gzip, old, new), IsWithin(old, N),
           gzip /\ N > MaxInflated + 1 => cut,
           IsUndone(u, new, cut)
    PROVE  IsUndone(Encoded(encoding, u), old, cut)
<1>1. /\ Len(old) \in Nat /\ Len(old) >= 1 /\ Len(new) \in Nat /\ Len(new) >= 1
      /\ Len(u) \in Nat /\ Len(u) >= 1 /\ u \in Text /\ u # <<>>
      /\ new \in Text /\ old \in Text /\ old # <<>>
  BY TextShape DEF IsDecoded, IsUndone
<1>2. \A e \in DOMAIN Raw : e \in {"b64", "hex"} /\ Raw[e] \in {"unb64", "unhex"}
  BY RawTokens
<1>3. encoding \in {"b64", "hex", "gz"}
  BY DEF IsDecoded
<1>4. u[1] = new[1] /\ Len(u) <= Len(new) /\ \A i \in 1..Len(u) : u[i] = new[i]
  BY <1>1 DEF IsUndone
<1>5. CASE IsRead(encoding, old, new)
  <2>1. Len(u) = Len(new) /\ u[1] = Raw[encoding] /\ encoding \in DOMAIN Raw
    BY <1>4, <1>5 DEF IsUndone, IsRead, IsRaw
  <2>2. Encoded(encoding, u) = Tail(u)
    BY <1>1, <2>1 DEF Encoded
  <2>3. PICK v : v = Tail(u)
    OBVIOUS
  <2>4. v \in Text /\ Len(v) = Len(old) /\ \A i \in 1..Len(v) : v[i] = u[i + 1]
    <3>1. v \in Text /\ Len(v) = Len(u) - 1 /\ \A i \in 1..Len(v) : v[i] = u[i + 1]
      BY <1>1, <2>3, TailOfText
    <3>2. Len(u) - 1 = Len(old)
      BY <1>1, <1>5, <2>1 DEF IsRead
    <3> QED
      BY <3>1, <3>2
  <2>5. \A i \in 1..Len(v) : v[i] = old[i]
    <3>1. ASSUME NEW i \in 1..Len(v)
          PROVE  v[i] = old[i]
      <4>1. PICK j \in 1..Len(u) : j = i + 1
        <5>1. i + 1 \in 1..Len(u)
          BY <1>1, <1>5, <2>1, <2>4 DEF IsRead
        <5> QED
          BY <5>1
      <4>2. v[i] = u[j] /\ u[j] = new[j]
        BY <1>4, <2>4, <4>1
      <4>3. new[j] = old[i]
        BY <1>5, <2>4, <4>1 DEF IsRead
      <4> QED
        BY <4>2, <4>3
    <3> QED
      BY <3>1
  <2>6. v # <<>>
    BY <1>1, <2>4, TextShape
  <2> QED
    BY <1>1, <2>2, <2>3, <2>4, <2>5, <2>6 DEF IsUndone
<1>6. CASE /\ IsPeeled(encoding, old, new)
           /\ Len(new) = Len(old) - 1 \/ (gzip /\ Len(old) > MaxInflated + 1)
  <2>1. old[1] = encoding /\ Len(new) < Len(old) /\ \A i \in 1..Len(new) : new[i] = old[i + 1]
    BY <1>6 DEF IsPeeled
  <2>2. ~IsRaw(old)
    BY <1>2, <1>3, <2>1 DEF IsRaw
  <2>3. ~(encoding \in DOMAIN Raw /\ u[1] = Raw[encoding])
    <3>1. 1 \in 1..Len(old) - 1 /\ 1 \in 1..Len(new) /\ 1 + 1 = 2
      BY <1>1, <2>1
    <3>2. u[1] = old[2] /\ old[1] = encoding
      BY <1>4, <2>1, <3>1
    <3>3. \A e \in DOMAIN Raw : ~(old[1] = e /\ old[2] = Raw[e])
      BY <3>1 DEF IsWithin, IsCanonical
    <3> QED
      BY <3>2, <3>3
  <2>4. Encoded(encoding, u) = <<encoding>> \o u
    BY <2>3 DEF Encoded
  <2>5. encoding \in Tokens
    <3>1. 1 \in 1..Len(old)
      BY <1>1
    <3> QED
      BY <1>1, <2>1, <3>1, ElementOfSeq DEF Text
  <2>6. PICK v : v = <<encoding>> \o u
    OBVIOUS
  <2>7. /\ v \in Text /\ Len(v) = Len(u) + 1 /\ v[1] = encoding
        /\ \A i \in 1..Len(u) : v[i + 1] = u[i]
    BY <1>1, <2>5, <2>6, TokenBeforeText
  <2>8. Len(v) <= Len(old) /\ v # <<>>
    BY <1>1, <1>4, <2>1, <2>7, TextShape
  <2>9. ASSUME NEW i \in 1..Len(v)
        PROVE  v[i] = old[i]
    <3>1. CASE i = 1
      BY <2>1, <2>7, <3>1
    <3>2. CASE i # 1
      <4>1. PICK j \in 1..Len(u) : i = j + 1
        <5>1. i - 1 \in 1..Len(u) /\ i = (i - 1) + 1
          BY <1>1, <2>7, <3>2
        <5> QED
          BY <5>1
      <4>2. j \in 1..Len(new)
        BY <1>1, <1>4
      <4> QED
        BY <1>4, <2>1, <2>7, <4>1, <4>2
    <3> QED
      BY <3>1, <3>2
  <2>10. Len(v) = Len(old) \/ cut
    <3>1. CASE Len(u) # Len(new)
      BY <3>1 DEF IsUndone
    <3>2. CASE Len(u) = Len(new) /\ Len(new) = Len(old) - 1
      BY <1>1, <2>7, <3>2
    <3>3. CASE gzip /\ Len(old) > MaxInflated + 1
      <4>1. Len(old) <= N
        BY <1>1, <2>2 DEF IsWithin
      <4>2. N > MaxInflated + 1
        BY <1>1, <3>3, <4>1, MaxInflatedAssumption
      <4> QED
        BY <3>3, <4>2
    <3> QED
      BY <1>6, <3>1, <3>2, <3>3
  <2> QED
    BY <1>1, <2>2, <2>4, <2>6, <2>7, <2>8, <2>9, <2>10 DEF IsUndone
<1> QED
  BY <1>5, <1>6 DEF IsDecoded

\* Undone as far as K.
IsUndoing(f, K) ==
    f = [k \in 0..K |->
            IF k = 0 THEN data
            ELSE IF Len(request.transforms) + 1 - k \in Taken
            THEN Encoded(Encoding[request.transforms[Len(request.transforms) + 1 - k].kind], f[k - 1])
            ELSE f[k - 1]]

\* There is a function that the recursion defines.
LEMMA UndoingExists ==
    ASSUME NEW K \in Nat
    PROVE  \E f : IsUndoing(f, K)
<1> DEFINE T == {k \in 0..K : ~\E f : IsUndoing(f, k)}
           next(k, t) ==
               IF Len(request.transforms) + 1 - k \in Taken
               THEN Encoded(Encoding[request.transforms[Len(request.transforms) + 1 - k].kind], t)
               ELSE t
<1> SUFFICES ASSUME T # {} PROVE FALSE
  OBVIOUS
<1>1. PICK k \in T : \A m \in T : k <= m
  <2>1. T \in SUBSET Nat
    OBVIOUS
  <2> HIDE DEF T
  <2> QED
    BY <2>1, LeastNat
<1>2. \A f, m : IsUndoing(f, m) <=> f = [j \in 0..m |-> IF j = 0 THEN data ELSE next(j, f[j - 1])]
  BY DEF IsUndoing
<1> HIDE DEF next
<1>3. CASE k = 0
  <2> DEFINE g == [j \in 0..0 |-> data]
  <2>1. g = [j \in 0..0 |-> IF j = 0 THEN data ELSE next(j, g[j - 1])]
    OBVIOUS
  <2>2. IsUndoing(g, 0)
    BY <1>2, <2>1
  <2> QED
    BY <1>1, <1>3, <2>2
<1>4. CASE k # 0
  <2>1. k - 1 \in 0..K /\ k - 1 \notin T
    BY <1>1, <1>4
  <2>2. PICK f : IsUndoing(f, k - 1)
    BY <2>1
  <2> DEFINE g == [j \in 0..k |-> IF j = k THEN next(k, f[k - 1]) ELSE f[j]]
  <2>3. ASSUME NEW j \in 0..k
        PROVE  g[j] = IF j = 0 THEN data ELSE next(j, g[j - 1])
    <3>1. CASE j = k
      <4>1. k - 1 \in 0..k /\ k - 1 # k /\ k \in 0..k
        BY <1>1, <1>4
      <4>2. g[k] = next(k, f[k - 1]) /\ g[k - 1] = f[k - 1]
        BY <4>1
      <4> QED
        BY <1>4, <3>1, <4>2
    <3>2. CASE j # k
      <4>1. j \in 0..k - 1 /\ (j # 0 => j - 1 \in 0..k /\ j - 1 # k)
        BY <1>1, <3>2
      <4>2. g[j] = f[j] /\ (j # 0 => g[j - 1] = f[j - 1])
        BY <3>2, <4>1
      <4>3. f[j] = IF j = 0 THEN data ELSE next(j, f[j - 1])
        BY <1>2, <2>2, <4>1
      <4> QED
        BY <4>2, <4>3
    <3> QED
      BY <3>1, <3>2
  <2>4. g = [j \in 0..k |-> g[j]]
    OBVIOUS
  <2> HIDE DEF g
  <2>5. IsUndoing(g, k)
    BY <1>2, <2>3, <2>4
  <2> QED
    BY <1>1, <2>5
<1> QED
  BY <1>3, <1>4

\* The equations that define what is undone.
LEMMA UndoneEquations ==
    ASSUME IsCall
    PROVE  /\ Undone[0] = data
           /\ \A k \in 1..Len(request.transforms) :
                 LET n == Len(request.transforms) + 1 - k
                 IN  Undone[k] = IF n \in Taken
                                 THEN Encoded(Encoding[request.transforms[n].kind], Undone[k - 1])
                                 ELSE Undone[k - 1]
<1>1. Len(request.transforms) \in Nat
  BY CallShape DEF IsCall
<1>2. Undone = CHOOSE f : IsUndoing(f, Len(request.transforms))
  BY DEF Undone, IsUndoing
<1>3. IsUndoing(Undone, Len(request.transforms))
  BY <1>1, <1>2, UndoingExists
<1> QED
  BY <1>1, <1>3 DEF IsUndoing

\* What was taken are decoders of encodings.
TakenDecode == \A n \in Taken : request.transforms[n].kind \in DOMAIN Encoding

\* Something may have been cut off.
IsCut == \E n \in Taken : /\ request.transforms[n].kind = "GzipDecompress"
                          /\ Len(request.response.body) > MaxInflated + 1

\* Whatever the chain has come through is within the body.
LEMMA HistoryIsWithin ==
    ASSUME IsCall, TakenDecode, NEW w, IsHistory(w)
    PROVE  \A n \in 0..Len(request.transforms) : IsWithin(w[n], Len(request.response.body))
<1> DEFINE L == Len(request.transforms)
           N == Len(request.response.body)
           T == {n \in 0..L : ~IsWithin(w[n], N)}
<1> SUFFICES ASSUME T # {} PROVE FALSE
  OBVIOUS
<1>1. L \in Nat /\ N \in Nat /\ request.response.body \in Text /\ IsCanonical(request.response.body)
  BY CallShape, RequestAssumption DEF IsCall
<1>2. PICK n \in T : \A m \in T : n <= m
  <2>1. T \in SUBSET Nat
    BY <1>1
  <2> HIDE DEF T
  <2> QED
    BY <2>1, LeastNat
<1>3. n \in 0..L /\ ~IsWithin(w[n], N)
  BY <1>2
<1>4. CASE n = 0
  <2>1. IsWithin(w[n], N)
    BY <1>1, <1>4 DEF IsHistory, IsWithin
  <2> QED
    BY <1>3, <2>1
<1>5. CASE n # 0
  <2>1. n \in 1..L /\ n - 1 \in 0..L /\ n - 1 \notin T
    BY <1>1, <1>2, <1>5
  <2>2. PICK old : old = w[n - 1] /\ IsWithin(old, N)
    BY <2>1
  <2>3. CASE n \notin Taken
    BY <1>3, <2>1, <2>2, <2>3 DEF IsHistory
  <2>4. CASE n \in Taken
    <3>1. PICK new : new = w[n] /\ new \in Transformed(request.transforms[n], old)
      BY <2>1, <2>2, <2>4 DEF IsHistory
    <3>2. new # <<>>
      <4>1. <<>> \in Text /\ IsCanonical(<<>>)
        BY EmptySeq DEF Text, IsCanonical
      <4> QED
        BY <1>3, <3>1, <4>1 DEF IsWithin
    <3>3. request.transforms[n].kind \in DOMAIN Encoding /\ old \in Text
      BY <2>2, <2>4 DEF TakenDecode, IsWithin
    <3>4. PICK e, gzip : IsDecoded(e, gzip, old, new)
      BY <3>1, <3>2, <3>3, DecoderStep
    <3> QED
      BY <1>1, <1>3, <2>2, <3>1, <3>4, DecodedIsWithin
  <2> QED
    BY <2>3, <2>4
<1> QED
  BY <1>4, <1>5

\* Undoing the last k transforms leads back to what the data was before them.
LEMMA HistoryIsUndone ==
    ASSUME IsCall, TakenDecode, NEW w, IsHistory(w), data # <<>>
    PROVE  \A k \in 0..Len(request.transforms) :
              IsUndone(Undone[k], w[Len(request.transforms) - k], IsCut)
<1> DEFINE L == Len(request.transforms)
           N == Len(request.response.body)
           T == {k \in 0..L : ~IsUndone(Undone[k], w[L - k], IsCut)}
<1> SUFFICES ASSUME T # {} PROVE FALSE
  OBVIOUS
<1>1. L \in Nat /\ N \in Nat
  BY CallShape DEF IsCall
<1>2. PICK k \in T : \A m \in T : k <= m
  <2>1. T \in SUBSET Nat
    BY <1>1
  <2> HIDE DEF T
  <2> QED
    BY <2>1, LeastNat
<1>3. k \in 0..L /\ ~IsUndone(Undone[k], w[L - k], IsCut)
  BY <1>2
<1>4. \A n \in 0..L : IsWithin(w[n], N)
  BY HistoryIsWithin
<1>5. CASE k = 0
  <2>1. L - k = L /\ L \in 0..L
    BY <1>1, <1>5
  <2>2. Undone[k] = data /\ w[L - k] = data /\ data \in Text
    BY <1>4, <1>5, <2>1, UndoneEquations DEF IsHistory, IsWithin
  <2>3. IsUndone(data, data, IsCut)
    <3>1. Len(data) \in Nat
      BY <2>2, TextShape
    <3> QED
      BY <2>2, <3>1 DEF IsUndone
  <2> QED
    BY <1>3, <2>2, <2>3
<1>6. CASE k # 0
  <2>1. PICK n \in 1..L : n = L + 1 - k
    <3>1. L + 1 - k \in 1..L
      BY <1>1, <1>3, <1>6
    <3> QED
      BY <3>1
  <2>2. k \in 1..L /\ k - 1 \in 0..L /\ k - 1 \notin T /\ L - k = n - 1 /\ L - (k - 1) = n
    BY <1>1, <1>2, <1>6, <2>1
  <2>3. PICK u : u = Undone[k - 1] /\ IsUndone(u, w[n], IsCut)
    BY <2>2
  <2>4. Undone[k] = IF n \in Taken THEN Encoded(Encoding[request.transforms[n].kind], u) ELSE u
    BY <2>1, <2>2, <2>3, UndoneEquations
  <2>5. CASE n \notin Taken
    <3>1. w[n] = w[n - 1]
      BY <2>1, <2>5 DEF IsHistory
    <3> QED
      BY <1>3, <2>2, <2>3, <2>4, <2>5, <3>1
  <2>6. CASE n \in Taken
    <3>1. PICK old, new : /\ old = w[n - 1] /\ new = w[n]
                          /\ new \in Transformed(request.transforms[n], old)
      BY <2>1, <2>6 DEF IsHistory
    <3>2. PICK e : e = Encoding[request.transforms[n].kind]
      OBVIOUS
    <3>3. IsWithin(old, N) /\ old \in Text
      <4>1. n - 1 \in 0..L
        BY <1>1, <2>1
      <4> QED
        BY <1>4, <3>1, <4>1 DEF IsWithin
    <3>4. IsDecoded(e, request.transforms[n].kind = "GzipDecompress", old, new)
      <4>1. new # <<>>
        BY <2>3, <3>1 DEF IsUndone
      <4>2. request.transforms[n].kind \in DOMAIN Encoding
        BY <2>6 DEF TakenDecode
      <4> QED
        BY <3>1, <3>2, <3>3, <4>1, <4>2, DecoderStep
    <3>5. request.transforms[n].kind = "GzipDecompress" /\ N > MaxInflated + 1 => IsCut
      BY <2>6 DEF IsCut
    <3>6. IsUndone(u, new, IsCut)
      BY <2>3, <3>1
    <3>7. IsUndone(Encoded(e, u), old, IsCut)
      BY ONLY <1>1, <3>3, <3>4, <3>5, <3>6, DecoderIsUndone
    <3> QED
      BY <1>3, <2>2, <2>4, <2>6, <3>1, <3>2, <3>7
  <2> QED
    BY <2>5, <2>6
<1> QED
  BY <1>5, <1>6

\* An undone body is a prefix of the body.
LEMMA UndoneIsPrefix ==
    ASSUME NEW u, NEW t \in Text, NEW cut, IsUndone(u, t, cut)
    PROVE  IsPrefix(u, t) /\ (u = t \/ cut)
<1>1. /\ u \in Text /\ IsSeq(u) /\ Len(u) \in Nat /\ Len(u) >= 1 /\ u = [i \in 1..Len(u) |-> u[i]]
      /\ IsSeq(t) /\ Len(t) \in Nat /\ t = [i \in 1..Len(t) |-> t[i]]
      /\ Len(u) <= Len(t) /\ \A i \in 1..Len(u) : u[i] = t[i]
  BY TextShape, SeqDomain DEF IsUndone
<1>2. ASSUME NEW s, IsSeq(s), Len(u) <= Len(s), Len(s) \in Nat
      PROVE  /\ SubSeq(s, 1, Len(u)) = [i \in 1..Len(u) |-> SubSeq(s, 1, Len(u))[i]]
             /\ \A i \in 1..Len(u) : SubSeq(s, 1, Len(u))[i] = s[i]
  <2>1. PICK p : p = SubSeq(s, 1, Len(u))
    OBVIOUS
  <2>2. /\ IsSeq(p) /\ Len(p) = IF 1 <= Len(u) THEN Len(u) - 1 + 1 ELSE 0
        /\ \A i \in 1..Len(u) - 1 + 1 : p[i] = s[1 + i - 1]
    <3>1. 1 \in Nat \ {0} /\ Len(u) \in Nat
      BY <1>1
    <3>2. PICK l \in Nat : l = Len(u)
      BY <3>1
    <3>3. /\ IsSeq(SubSeq(s, 1, l)) /\ Len(SubSeq(s, 1, l)) = IF 1 <= l THEN l - 1 + 1 ELSE 0
          /\ \A i \in 1..l - 1 + 1 : SubSeq(s, 1, l)[i] = s[1 + i - 1]
      BY <1>2, <3>1, <3>2, PartElements
    <3> QED
      BY <2>1, <3>2, <3>3
  <2>3. Len(p) = Len(u) /\ Len(u) - 1 + 1 = Len(u) /\ \A i \in 1..Len(u) : 1 + i - 1 = i
    BY <1>1, <2>2
  <2> QED
    BY <2>1, <2>2, <2>3, SeqDomain
<1>3. SubSeq(u, 1, Len(u)) = SubSeq(t, 1, Len(u))
  <2>1. PICK p, q : p = SubSeq(u, 1, Len(u)) /\ q = SubSeq(t, 1, Len(u))
    OBVIOUS
  <2>2. /\ p = [i \in 1..Len(u) |-> p[i]] /\ \A i \in 1..Len(u) : p[i] = u[i]
        /\ q = [i \in 1..Len(u) |-> q[i]] /\ \A i \in 1..Len(u) : q[i] = t[i]
    BY <1>1, <1>2, <2>1
  <2>3. \A i \in 1..Len(u) : p[i] = q[i]
    BY <1>1, <2>2
  <2>4. p = q
    BY <2>2, <2>3
  <2> QED
    BY <2>1, <2>4
<1>4. IsPrefix(u, t)
  BY <1>1, <1>3 DEF IsPrefix
<1>5. ASSUME Len(u) = Len(t)
      PROVE  u = t
  BY <1>1, <1>5
<1> QED
  BY <1>4, <1>5 DEF IsUndone

\* Whatever the chain of decoders, whatever they make of the body, and however
\* many of them fail: undoing the transforms that were not reported leads back to
\* the body, or to the beginning of one that was cut.
THEOREM DecodingIsHonest == Spec => []DecodingIsAccountedFor
<1>1. Init => DecodeInv
  <2> SUFFICES ASSUME Init
               PROVE  DecodeInv
    OBVIOUS
  <2>1. /\ IsCall /\ stage = "transform" /\ index = 1 /\ failures = {}
        /\ data = request.response.body
    BY DEF Init, IsCall
  <2>2. Len(request.transforms) \in Nat /\ DOMAIN request.transforms = 1..Len(request.transforms)
    BY <2>1, CallShape DEF IsCall
  <2>3. Taken = {}
    <3>1. \A n \in DOMAIN request.transforms : ~(n < 1)
      BY <2>2
    <3> QED
      BY <3>1, <2>1 DEF Taken
  <2>4. PICK w : \A n \in 0..Len(request.transforms) : w[n] = data
    <3> DEFINE v == [n \in 0..Len(request.transforms) |-> data]
    <3>1. \A n \in 0..Len(request.transforms) : v[n] = data
      OBVIOUS
    <3> QED
      BY <3>1
  <2>5. IsHistory(w)
    <3>1. /\ 0 \in 0..Len(request.transforms)
          /\ Len(request.transforms) \in 0..Len(request.transforms)
          /\ \A n \in 1..Len(request.transforms) :
                n \in 0..Len(request.transforms) /\ n - 1 \in 0..Len(request.transforms)
      BY <2>2
    <3> QED
      BY <2>1, <2>3, <2>4, <3>1 DEF IsHistory
  <2> QED
    BY <2>1, <2>5 DEF DecodeInv
<1>2. DecodeInv /\ [Next]_vars => DecodeInv'
  BY TransformKeeps, LaterStepsKeep DEF Next
<1>3. DecodeInv => DecodingIsAccountedFor
  <2> SUFFICES ASSUME DecodeInv, data # <<>>, TakenDecode
               PROVE  /\ IsPrefix(Undone[Len(request.transforms)], request.response.body)
                      /\ \/ Undone[Len(request.transforms)] = request.response.body
                         \/ IsCut
    BY DEF DecodingIsAccountedFor, TakenDecode, IsCut
  <2>1. PICK w : IsHistory(w)
    BY DEF DecodeInv
  <2>2. PICK L \in Nat : L = Len(request.transforms)
    BY CallShape DEF DecodeInv, IsCall
  <2>3. IsUndone(Undone[L], w[L - L], IsCut)
    BY <2>1, <2>2, HistoryIsUndone DEF DecodeInv
  <2>4. w[L - L] = request.response.body /\ request.response.body \in Text
    <3>1. L - L = 0
      BY <2>2
    <3> QED
      BY <2>1, <3>1, RequestAssumption DEF IsHistory, DecodeInv, IsCall
  <2>5. PICK u, body : u = Undone[L] /\ body = request.response.body
    OBVIOUS
  <2>6. body \in Text /\ IsUndone(u, body, IsCut)
    BY <2>3, <2>4, <2>5
  <2>7. IsPrefix(u, body) /\ (u = body \/ IsCut)
    BY ONLY <2>6, UndoneIsPrefix
  <2> QED
    BY <2>2, <2>5, <2>7
<1> QED
  BY <1>1, <1>2, <1>3, PTL DEF Spec

-----------------------------------------------------------------------------
(***************************************************************************)
(* Substitution, one variable after the other in any order.                *)
(***************************************************************************)

\* The text of a call's condition.
LEMMA ConditionIsText ==
    ASSUME IsCall
    PROVE  ConditionText(request.condition) \in Text
<1> DEFINE c == request.condition
<1>1. c.left \in Text /\ c.right \in Text
  BY RequestAssumption DEF IsCall
<1>2. c.quote \in Text
  <2>1. c.quote \in {<<>>, <<DoubleQuote>>, <<SingleQuote>>}
    BY RequestAssumption DEF IsCall
  <2>2. DoubleQuote \in Tokens /\ SingleQuote \in Tokens
    BY TokensAssumption, Zenon
  <2>3. <<>> \in Text /\ <<DoubleQuote>> \in Text /\ <<SingleQuote>> \in Text
    BY <2>2 DEF Text
  <2> QED
    BY <2>1, <2>3
<1>3. <<c.operator>> \in Text
  <2>1. c.operator \in {"==", "!=", "contains"}
    BY RequestAssumption DEF IsCall
  <2>2. "==" \in Tokens /\ "!=" \in Tokens /\ "contains" \in Tokens
    BY TokensAssumption, Zenon
  <2>3. c.operator \in Tokens
    BY <2>1, <2>2
  <2> QED
    BY <2>3 DEF Text
<1>4. (IF c.spaced THEN <<Blank>> ELSE <<>>) \in Text
  <2>1. Blank \in Tokens
    BY TokensAssumption, Zenon
  <2>2. <<>> \in Text /\ <<Blank>> \in Text
    BY <2>1 DEF Text
  <2> QED
    BY <2>2
<1>5. PICK l, r, q, o, b : /\ l = c.left /\ r = c.right /\ q = c.quote /\ o = <<c.operator>>
                           /\ b = IF c.spaced THEN <<Blank>> ELSE <<>>
  OBVIOUS
<1>6. ConditionText(c) = ((q \o (l \o q)) \o b) \o (o \o (b \o (q \o (r \o q))))
  BY <1>5 DEF ConditionText
<1>7. l \in Text /\ r \in Text /\ q \in Text /\ o \in Text /\ b \in Text
  BY <1>1, <1>2, <1>3, <1>4, <1>5
<1> HIDE DEF c
<1>8. (q \o (l \o q)) \o b \in Text
  BY <1>7, ConcatIsText
<1>9. o \o (b \o (q \o (r \o q))) \in Text
  BY <1>7, ConcatIsText
<1>10. ((q \o (l \o q)) \o b) \o (o \o (b \o (q \o (r \o q)))) \in Text
  BY ONLY <1>8, <1>9, ConcatIsText
<1> QED
  BY <1>6, <1>10 DEF c

\* The body is a text, and the variables are a map of texts.
TextInv ==
    /\ data \in Text
    /\ extracted = Only(extracted, DOMAIN extracted)

\* The variables map texts to texts, whichever extractors gave them.
LEMMA VariablesAreTexts ==
    ASSUME ExtractInv, TextInv
    PROVE  IsMap(extracted) /\ Decoded \in Responses
<1>1. request.response \in Responses
  BY RequestAssumption DEF ExtractInv, IsCall, Responses
<1>2. Decoded \in Responses
  BY <1>1 DEF Decoded, Responses, TextInv
<1>3. CASE stage = "transform"
  BY <1>2, <1>3 DEF ExtractInv, IsMap
<1>4. CASE stage # "transform"
  <2>1. Keys \subseteq Text
    <3>1. ASSUME NEW n \in DOMAIN request.extractors
          PROVE  KeyOf(request.extractors[n]) \subseteq Text
      <4>1. /\ request.extractors[n].name \subseteq Text
            /\ request.extractors[n].patterns \in Seq(Text)
        BY RequestAssumption DEF ExtractInv, IsCall
      <4>2. \A m \in DOMAIN request.extractors[n].patterns : request.extractors[n].patterns[m] \in Text
        BY <4>1, LenProperties, ElementOfSeq
      <4> QED
        BY <4>1, <4>2 DEF KeyOf
    <3> QED
      BY <3>1 DEF Keys
  <2>2. \A key \in DOMAIN extracted : key \in Text
    BY <1>4, <2>1 DEF ExtractInv
  <2>3. ASSUME NEW key \in DOMAIN extracted
        PROVE  extracted[key] \in Text
    <3>1. IsFirstYield(request.extractors[Max(GivingSoFar(key))], extracted[key], Decoded)
      BY <1>4 DEF ExtractInv
    <3>2. PICK extractor, pattern : extracted[key] \in Yields(extractor, pattern, Decoded)
      BY <3>1 DEF IsFirstYield
    <3> QED
      BY <1>2, <3>2, YieldsAreTexts
  <2> QED
    BY <1>2, <2>2, <2>3 DEF IsMap
<1> QED
  BY <1>3, <1>4

\* No step puts anything but texts into the body and the variables.
LEMMA TextsStayTexts == TextInv /\ [Next]_vars => TextInv'
<1> SUFFICES ASSUME TextInv, [Next]_vars
             PROVE  TextInv'
  OBVIOUS
<1>1. CASE Transform
  <2>1. data' \in Text
    <3>1. data' = data \/ data' \in Transformed(request.transforms[index], data)
      BY <1>1 DEF Transform
    <3> QED
      BY <3>1, TransformedIsText DEF TextInv
  <2> QED
    BY <1>1, <2>1 DEF TextInv, Transform, Only
<1>2. CASE Extract
  <2>1. data' = data
    BY <1>2 DEF Extract
  <2>2. extracted' = extracted \/ \E value, key :
           extracted' = [k \in DOMAIN extracted \cup {key} |-> IF k = key THEN value ELSE extracted[k]]
    BY <1>2 DEF Extract
  <2>3. extracted' = [k \in DOMAIN extracted' |-> extracted'[k]]
    <3>1. CASE extracted' = extracted
      BY <3>1 DEF TextInv, Only
    <3>2. CASE extracted' # extracted
      BY <2>2, <3>2
    <3> QED
      BY <3>1, <3>2
  <2> QED
    BY <2>1, <2>3 DEF TextInv, Only
<1>3. CASE data' = data /\ extracted' = extracted
  BY <1>3 DEF TextInv, Only
<1> QED
  BY <1>1, <1>2, <1>3 DEF Next, BodyReady, AllExtracted, Substitute, Evaluate, vars

\* The variables that are no longer pending have been substituted as if all at
\* once, and the verdict is that of the text.
SubstituteInv ==
    /\ stage \in {"substitute", "done"} =>
          /\ pending \subseteq DOMAIN extracted
          /\ PlainVariables => text = Substituted(ConditionText(request.condition),
                                                  Only(extracted, DOMAIN extracted \ pending))
    /\ stage = "done" => pending = {} /\ verdict = EvaluateCondition(text)

\* What the property says of plain variables, in the terms of the lemmas.
LEMMA PlainIsPlain ==
    ASSUME ExtractInv, TextInv, PlainVariables
    PROVE  IsPlain(extracted) /\ Alternating(ConditionText(request.condition))
<1>1. IsMap(extracted)
  BY VariablesAreTexts
<1>2. \A s \in Text : Range(s) \cap Braces = {} => Unbraced(s)
  <2> SUFFICES ASSUME NEW s \in Text, Range(s) \cap Braces = {} PROVE Unbraced(s)
    OBVIOUS
  <2>1. DOMAIN s = 1..Len(s)
    BY LenProperties DEF Text
  <2> QED
    BY <2>1 DEF Range, Unbraced
<1>3. ASSUME NEW key \in DOMAIN extracted
      PROVE  Unbraced(key) /\ Unbraced(extracted[key])
  <2>1. key \in Text /\ extracted[key] \in Text
    BY <1>1 DEF IsMap
  <2>2. Range(key) \cap Braces = {} /\ Range(extracted[key]) \cap Braces = {}
    BY DEF PlainVariables
  <2> QED
    BY <1>2, <2>1, <2>2
<1> QED
  BY <1>1, <1>3 DEF IsPlain, PlainVariables

\* A step of the substitution deals with one variable more.
LEMMA SubstitutionKeeps == ExtractInv /\ TextInv /\ SubstituteInv /\ [Next]_vars => SubstituteInv'
<1> SUFFICES ASSUME ExtractInv, TextInv, SubstituteInv, [Next]_vars
             PROVE  SubstituteInv'
  OBVIOUS
<1>1. CASE Transform \/ BodyReady \/ Extract
  BY <1>1 DEF Transform, BodyReady, Extract, SubstituteInv
<1>2. CASE AllExtracted
  <2>1. /\ stage' = "substitute" /\ pending' = DOMAIN extracted /\ extracted' = extracted
        /\ request' = request /\ text' = ConditionText(request.condition)
    BY <1>2 DEF AllExtracted
  <2>2. Substituted(ConditionText(request.condition), Only(extracted, {}))
           = ConditionText(request.condition)
    <3>1. /\ IsMap(Only(extracted, {}))
          /\ NothingStands(ConditionText(request.condition), Only(extracted, {}))
      BY DEF IsMap, Only, NothingStands
    <3> QED
      BY <3>1, ConditionIsText, NothingIsSubstituted DEF ExtractInv
  <2>3. DOMAIN extracted \ DOMAIN extracted = {}
    OBVIOUS
  <2> QED
    BY <2>1, <2>2, <2>3 DEF SubstituteInv
<1>3. ASSUME NEW key \in pending, Substitute(key)
      PROVE  SubstituteInv'
  <2>1. /\ stage = "substitute" /\ stage' = stage /\ request' = request /\ extracted' = extracted
        /\ text' = Substituted(text, Only(extracted, {key})) /\ pending' = pending \ {key}
    BY <1>3 DEF Substitute, Only
  <2>2. pending \subseteq DOMAIN extracted
    BY <2>1 DEF SubstituteInv
  <2>3. PlainVariables' <=> PlainVariables
    BY <2>1 DEF PlainVariables
  <2>4. ASSUME PlainVariables
        PROVE  text' = Substituted(ConditionText(request.condition),
                                   Only(extracted, DOMAIN extracted \ pending'))
    <3> DEFINE A == DOMAIN extracted \ pending
    <3>1. text = Substituted(ConditionText(request.condition), Only(extracted, A))
      BY <2>1, <2>4 DEF SubstituteInv
    <3>2. DOMAIN extracted \ pending' = A \cup {key}
      BY <2>1, <2>2
    <3>3. PICK V, c, v : V = extracted /\ c = ConditionText(request.condition) /\ v = key
      OBVIOUS
    <3>4. IsPlain(V) /\ Alternating(c) /\ c \in Text
      BY <2>4, <3>3, PlainIsPlain, ConditionIsText DEF ExtractInv
    <3>5. PICK B : B = A
      OBVIOUS
    <3>6. B \in SUBSET DOMAIN V /\ v \in DOMAIN V \ B
      BY <2>2, <3>3, <3>5
    <3>7. Substituted(Substituted(c, Only(V, B)), Only(V, {v})) = Substituted(c, Only(V, B \cup {v}))
      BY ONLY <3>4, <3>6, OneMoreVariable
    <3> QED
      BY <2>1, <3>1, <3>2, <3>3, <3>5, <3>7
  <2> QED
    BY <2>1, <2>2, <2>3, <2>4 DEF SubstituteInv
<1>4. CASE Evaluate
  <2>1. /\ stage = "substitute" /\ pending = {} /\ stage' = "done" /\ pending' = pending
        /\ verdict' = EvaluateCondition(text) /\ text' = text /\ request' = request
        /\ extracted' = extracted
    BY <1>4 DEF Evaluate
  <2>2. PlainVariables' <=> PlainVariables
    BY <2>1 DEF PlainVariables
  <2> QED
    BY <2>1, <2>2 DEF SubstituteInv
<1>5. CASE UNCHANGED vars
  BY <1>5 DEF vars, SubstituteInv, PlainVariables
<1> QED
  BY <1>1, <1>2, <1>3, <1>4, <1>5 DEF Next

\* What is proved of substitution together.
TextsInv == ExtractInv /\ TextInv /\ SubstituteInv

\* The inductive invariant of substitution holds.
LEMMA TextsAlways == Spec => []TextsInv
<1>1. Init => TextsInv
  <2> SUFFICES ASSUME Init PROVE TextsInv
    OBVIOUS
  <2>1. ExtractInv
    BY DEF Init, ExtractInv, IsCall
  <2>2. TextInv
    <3>1. request.response.body \in Text
      BY RequestAssumption DEF Init
    <3> QED
      BY <3>1 DEF Init, TextInv, Only
  <2>3. SubstituteInv
    BY DEF Init, SubstituteInv
  <2> QED
    BY <2>1, <2>2, <2>3 DEF TextsInv
<1>2. TextsInv /\ [Next]_vars => TextsInv'
  BY ExtractKeeps, OthersExtractNothing, TextsStayTexts, SubstitutionKeeps DEF Next, TextsInv
<1> QED
  BY <1>1, <1>2, PTL DEF Spec

\* Whatever the order in which the hash map gives the variables, the condition
\* becomes what it would if plain variables were all substituted at once.
THEOREM SubstitutionHasNoOrder == Spec => []SubstitutionIsSimultaneous
<1>1. TextsInv => SubstitutionIsSimultaneous
  <2> SUFFICES ASSUME TextsInv, stage \in {"substitute", "done"}, pending = {}, PlainVariables
               PROVE  text = Substituted(ConditionText(request.condition), extracted)
    BY DEF SubstitutionIsSimultaneous
  <2>1. text = Substituted(ConditionText(request.condition),
                           Only(extracted, DOMAIN extracted \ pending))
    BY DEF TextsInv, SubstituteInv
  <2>2. DOMAIN extracted \ pending = DOMAIN extracted
    OBVIOUS
  <2> QED
    BY <2>1, <2>2 DEF TextsInv, TextInv
<1> QED
  BY <1>1, TextsAlways, PTL

-----------------------------------------------------------------------------
(***************************************************************************)
(* Comparisons.                                                            *)
(***************************************************************************)
Operators == {"==", "!=", "contains"}

\* The tokens of a comparison that are not of its operands.
Marks == {"==", "!=", "contains", Blank, DoubleQuote, SingleQuote}

\* The marks are tokens of their own, and no braces.
LEMMA MarksAreTokens ==
    /\ Marks \subseteq Tokens /\ Marks \cap Braces = {}
    /\ Blank \notin Operators /\ DoubleQuote \notin Operators /\ SingleQuote \notin Operators
    /\ Blank # DoubleQuote /\ Blank # SingleQuote /\ DoubleQuote # SingleQuote
<1>1. Marks \subseteq Tokens
  BY TokensAssumption, Zenon DEF Marks
<1>2. Open \notin Marks /\ Close \notin Marks
  BY Zenon DEF Marks, Open, Close, Blank, DoubleQuote, SingleQuote
<1>3. Blank \notin Operators /\ DoubleQuote \notin Operators /\ SingleQuote \notin Operators
  BY Zenon DEF Operators, Blank, DoubleQuote, SingleQuote
<1>4. Blank # DoubleQuote /\ Blank # SingleQuote /\ DoubleQuote # SingleQuote
  BY Zenon DEF Blank, DoubleQuote, SingleQuote
<1>5. Marks \cap Braces = {}
  BY <1>2 DEF Braces
<1> QED
  BY <1>1, <1>3, <1>4, <1>5

Lacks(s, token) == \A i \in 1..Len(s) : s[i] # token

\* What two texts lack, their concatenation lacks.
LEMMA ConcatLacks ==
    ASSUME NEW x \in Text, NEW y \in Text, NEW token, Lacks(x, token), Lacks(y, token)
    PROVE  x \o y \in Text /\ Lacks(x \o y, token)
<1>1. PICK a \in Nat, b \in Nat : a = Len(x) /\ b = Len(y)
  BY LenProperties DEF Text
<1>2. PICK z : z = x \o y
  OBVIOUS
<1>3. /\ z \in Text /\ Len(z) = a + b
      /\ \A i \in 1..a + b : z[i] = IF i <= a THEN x[i] ELSE y[i - a]
  <2>1. /\ x \o y \in Seq(Tokens) /\ Len(x \o y) = Len(x) + Len(y)
        /\ \A i \in 1..Len(x) + Len(y) : (x \o y)[i] = IF i <= Len(x) THEN x[i] ELSE y[i - Len(x)]
    BY ConcatProperties DEF Text
  <2> QED
    BY <1>1, <1>2, <2>1 DEF Text
<1>4. ASSUME NEW i \in 1..a + b PROVE z[i] # token
  <2>1. CASE i <= a
    <3>1. i \in 1..a
      BY <2>1
    <3> QED
      BY <1>1, <1>3, <2>1, <3>1 DEF Lacks
  <2>2. CASE ~(i <= a)
    <3>1. i - a \in 1..b
      BY <2>2
    <3> QED
      BY <1>1, <1>3, <2>2, <3>1 DEF Lacks
  <2> QED
    BY <2>1, <2>2
<1> QED
  BY <1>2, <1>3, <1>4 DEF Lacks

\* A text of one token, and the empty one.
LEMMA OneLacks ==
    ASSUME NEW c \in Tokens, NEW token, c # token
    PROVE  <<c>> \in Text /\ Lacks(<<c>>, token) /\ <<>> \in Text /\ Lacks(<<>>, token)
  BY DEF Text, Lacks

\* A token of no variable and no brace stands between what is substituted.
LEMMA SubstitutedAroundToken ==
    ASSUME NEW V, IsMap(V), NEW c \in Tokens, c \notin Braces,
           \A key \in DOMAIN V : Lacks(key, c), NEW x \in Text, NEW y \in Text
    PROVE  /\ Substituted(x \o (<<c>> \o y), V) = Substituted(x, V) \o (<<c>> \o Substituted(y, V))
           /\ Substituted(x, V) \in Text /\ Substituted(y, V) \in Text
<1>1. PICK e : e = <<c>>
  OBVIOUS
<1>2. e \in Text /\ Len(e) = 1 /\ e[1] = c /\ c # Open /\ c # Close
  BY <1>1 DEF Text, Braces
<1>3. PICK w \in Text, b \in Nat : w = e \o y /\ b = Len(y) /\ Len(w) = 1 + b /\ w[1] = c
  <2>1. /\ e \o y \in Seq(Tokens) /\ Len(e \o y) = Len(e) + Len(y)
        /\ \A i \in 1..Len(e) + Len(y) : (e \o y)[i] = IF i <= Len(e) THEN e[i] ELSE y[i - Len(e)]
    BY <1>2, ConcatProperties DEF Text
  <2>2. Len(y) \in Nat
    BY LenProperties DEF Text
  <2>3. 1 \in 1..Len(e) + Len(y) /\ 1 <= Len(e)
    BY <1>2, <2>2
  <2> QED
    BY <1>2, <2>1, <2>2, <2>3 DEF Text
<1>4. Substituted(e, V) = e
  <2>1. NothingStands(e, V)
    BY <1>2 DEF NothingStands, Stands
  <2> QED
    BY <1>2, <2>1, NothingIsSubstituted
<1>5. NoneAcross(e, y, V)
  <2>1. \A key \in DOMAIN V : \A i \in 1..Len(e) : ~Stands(e \o y, key, i)
    BY <1>2, <1>3 DEF Stands
  <2> QED
    BY <2>1 DEF NoneAcross
<1>6. NoneAcross(x, w, V)
  <2>1. PICK a \in Nat : a = Len(x)
    BY LenProperties DEF Text
  <2>2. PICK z : z = x \o w
    OBVIOUS
  <2>3. z[a + 1] = c
    <3>1. \A i \in 1..Len(x) + Len(w) : (x \o w)[i] = IF i <= Len(x) THEN x[i] ELSE w[i - Len(x)]
      BY <1>3, ConcatProperties DEF Text
    <3>2. a + 1 \in 1..Len(x) + Len(w) /\ ~(a + 1 <= Len(x)) /\ (a + 1) - Len(x) = 1
      BY <1>3, <2>1
    <3> QED
      BY <1>3, <2>2, <3>1, <3>2
  <2> SUFFICES ASSUME NEW key \in DOMAIN V, NEW i \in 1..a, Stands(z, key, i),
                      ~(i + Len(key) + 1 <= a)
               PROVE  FALSE
    BY <2>1, <2>2 DEF NoneAcross
  <2>4. PICK n \in Nat : n = Len(key)
    BY LenProperties DEF IsMap, Text
  <2>5. /\ z[i + n + 1] = Close /\ \A j \in 1..n : z[i + j] = key[j] /\ key[j] # c
    BY <2>4 DEF Stands, Lacks
  <2>6. CASE a = i + n
    <3>1. a + 1 = i + n + 1
      BY <2>6
    <3> QED
      BY <1>2, <2>3, <2>5, <3>1
  <2>7. CASE a # i + n
    <3>1. a + 1 - i \in 1..n /\ i + (a + 1 - i) = a + 1
      BY <2>4, <2>7
    <3> QED
      BY <2>3, <2>5, <3>1
  <2> QED
    BY <2>6, <2>7
<1>7. /\ Substituted(x \o w, V) = Substituted(x, V) \o Substituted(w, V)
      /\ Substituted(x, V) \in Text
  BY <1>3, <1>6, SubstitutedInParts
<1>8. /\ Substituted(e \o y, V) = Substituted(e, V) \o Substituted(y, V)
      /\ Substituted(y, V) \in Text
  BY <1>2, <1>5, SubstitutedInParts
<1> QED
  BY <1>1, <1>3, <1>4, <1>7, <1>8

\* Such a token before or after a text, or none.
LEMMA SubstitutedBetweenTokens ==
    ASSUME NEW V, IsMap(V), NEW c \in Tokens, c \notin Braces,
           \A key \in DOMAIN V : Lacks(key, c), NEW x \in Text, NEW e \in {<<>>, <<c>>}
    PROVE  /\ Substituted(x \o e, V) = Substituted(x, V) \o e
           /\ Substituted(e \o x, V) = e \o Substituted(x, V)
           /\ Substituted(x, V) \in Text /\ x \o e \in Text /\ e \o x \in Text
<1>1. <<>> \in Text /\ <<c>> \in Text /\ Substituted(x, V) \in Text
  BY ReplacementsArePieces DEF Text
<1>2. x \o e \in Text /\ e \o x \in Text
  BY <1>1, ConcatProperties DEF Text
<1>3. Substituted(<<>>, V) = <<>>
  <2>1. NothingStands(<<>>, V)
    BY DEF NothingStands
  <2> QED
    BY <1>1, <2>1, NothingIsSubstituted
<1>4. PICK s, d : s = Substituted(x, V) /\ d = <<c>>
  OBVIOUS
<1>5. \A t \in Text : t \o <<>> = t /\ <<>> \o t = t
  BY ConcatEmptySeq DEF Text
<1>6. CASE e = <<>>
  BY <1>1, <1>4, <1>5, <1>6, <1>2
<1>7. CASE e = d
  <2> DEFINE around(u, w) == Substituted(u \o (d \o w), V)
                                = Substituted(u, V) \o (d \o Substituted(w, V))
  <2>1. \A u, w \in Text : around(u, w)
    BY <1>4, SubstitutedAroundToken
  <2>2. around(x, <<>>) /\ around(<<>>, x)
    <3> HIDE DEF around
    <3> QED
      BY <1>1, <2>1
  <2>3. Substituted(x \o (d \o <<>>), V) = s \o (d \o <<>>)
    BY <1>3, <1>4, <2>2
  <2>4. Substituted(<<>> \o (d \o x), V) = <<>> \o (d \o s)
    BY <1>3, <1>4, <2>2
  <2>5. d \o <<>> = d /\ <<>> \o (d \o x) = d \o x /\ <<>> \o (d \o s) = d \o s
    <3>1. d \o x \in Text /\ d \o s \in Text
      BY <1>1, <1>4, ConcatProperties DEF Text
    <3> QED
      BY <1>1, <1>4, <1>5, <3>1
  <2> QED
    BY <1>1, <1>2, <1>4, <1>7, <2>3, <2>4, <2>5
<1> QED
  BY <1>4, <1>6, <1>7

\* An operand between quotes.
Quoted(q, operand) == q \o (operand \o q)

\* Two operands, each with a blank or none at the side of the operator.
Around(A, d, o, e, B) == (A \o d) \o (<<o>> \o (e \o B))

Quotes == {<<>>, <<DoubleQuote>>, <<SingleQuote>>}
Blanks == {<<>>, <<Blank>>}

\* What stands around operands and operators.
LEMMA QuotesAreTexts == Quotes \subseteq Text /\ Blanks \subseteq Text
<1>1. DoubleQuote \in Tokens /\ SingleQuote \in Tokens /\ Blank \in Tokens
  BY TokensAssumption, Zenon
<1> QED
  BY <1>1 DEF Quotes, Blanks, Text

\* A comparison is substituted operand by operand.
LEMMA ComparisonIsSubstituted ==
    ASSUME NEW V, IsMap(V), \A key \in DOMAIN V : \A mark \in Marks : Lacks(key, mark),
           NEW q \in Quotes, NEW b \in Blanks, NEW operator \in Operators,
           NEW l \in Text, NEW r \in Text
    PROVE  /\ Substituted(Around(Quoted(q, l), b, operator, b, Quoted(q, r)), V)
                 = Around(Quoted(q, Substituted(l, V)), b, operator, b, Quoted(q, Substituted(r, V)))
           /\ Substituted(l, V) \in Text /\ Substituted(r, V) \in Text
<1>1. ASSUME NEW mark \in Marks
      PROVE  mark \in Tokens /\ mark \notin Braces /\ \A key \in DOMAIN V : Lacks(key, mark)
  BY MarksAreTokens
<1>2. ASSUME NEW e \in Quotes \cup Blanks, NEW x \in Text
      PROVE  /\ Substituted(x \o e, V) = Substituted(x, V) \o e
             /\ Substituted(e \o x, V) = e \o Substituted(x, V)
             /\ Substituted(x, V) \in Text /\ x \o e \in Text /\ e \o x \in Text
  <2>1. PICK mark \in Marks : e \in {<<>>, <<mark>>}
    BY DEF Quotes, Blanks, Marks
  <2>2. mark \in Tokens /\ mark \notin Braces /\ \A key \in DOMAIN V : Lacks(key, mark)
    BY <1>1
  <2>3. CASE e = <<mark>>
    BY ONLY <2>2, <2>3, x \in Text, IsMap(V), SubstitutedBetweenTokens
  <2>4. CASE e = <<>>
    BY ONLY <2>2, <2>4, x \in Text, IsMap(V), SubstitutedBetweenTokens
  <2> QED
    BY ONLY <2>1, <2>3, <2>4
<1>3. PICK u, v : u = Substituted(l, V) /\ v = Substituted(r, V)
  OBVIOUS
<1>4. PICK A, B : A = l \o q /\ B = r \o q
  OBVIOUS
<1>5. /\ A \in Text /\ Substituted(A, V) = u \o q /\ u \in Text
      /\ B \in Text /\ Substituted(B, V) = v \o q /\ v \in Text
  <2>1. Substituted(l \o q, V) = Substituted(l, V) \o q /\ Substituted(l, V) \in Text /\ l \o q \in Text
    BY <1>2
  <2>2. Substituted(r \o q, V) = Substituted(r, V) \o q /\ Substituted(r, V) \in Text /\ r \o q \in Text
    BY <1>2
  <2> QED
    BY ONLY <1>3, <1>4, <2>1, <2>2
<1>6. PICK C, D : C = q \o A /\ D = q \o B
  OBVIOUS
<1>7. /\ C \in Text /\ Substituted(C, V) = q \o (u \o q)
      /\ D \in Text /\ Substituted(D, V) = q \o (v \o q)
  <2>1. q \o A \in Text /\ Substituted(q \o A, V) = q \o Substituted(A, V)
    BY <1>2, <1>5
  <2>2. q \o B \in Text /\ Substituted(q \o B, V) = q \o Substituted(B, V)
    BY <1>2, <1>5
  <2> QED
    BY ONLY <1>5, <1>6, <2>1, <2>2
<1>8. PICK L, R : L = C \o b /\ R = b \o D
  OBVIOUS
<1>9. /\ L \in Text /\ Substituted(L, V) = (q \o (u \o q)) \o b
      /\ R \in Text /\ Substituted(R, V) = b \o (q \o (v \o q))
  <2>1. L \in Text /\ Substituted(L, V) = (q \o (u \o q)) \o b
    <3>1. C \o b \in Text /\ Substituted(C \o b, V) = Substituted(C, V) \o b
      BY <1>2, <1>7
    <3> QED
      BY ONLY <1>7, <1>8, <3>1
  <2>2. R \in Text /\ Substituted(R, V) = b \o (q \o (v \o q))
    <3>1. b \o D \in Text /\ Substituted(b \o D, V) = b \o Substituted(D, V)
      BY <1>2, <1>7
    <3> QED
      BY ONLY <1>7, <1>8, <3>1
  <2> QED
    BY <2>1, <2>2
<1>10. operator \in Marks
  BY DEF Operators, Marks
<1>11. Substituted(L \o (<<operator>> \o R), V)
          = Substituted(L, V) \o (<<operator>> \o Substituted(R, V))
  <2>1. operator \in Tokens /\ operator \notin Braces /\ \A key \in DOMAIN V : Lacks(key, operator)
    BY <1>1, <1>10
  <2> QED
    BY ONLY <1>9, <2>1, IsMap(V), SubstitutedAroundToken
<1> QED
  BY <1>3, <1>4, <1>5, <1>6, <1>8, <1>9, <1>11 DEF Around, Quoted

-----------------------------------------------------------------------------
\* Trimming.

\* The elements of a concatenation.
LEMMA ConcatElements ==
    ASSUME NEW x \in Text, NEW y \in Text
    PROVE  /\ x \o y \in Text /\ Len(x) \in Nat /\ Len(y) \in Nat /\ Len(x \o y) = Len(x) + Len(y)
           /\ \A i \in 1..Len(x) : (x \o y)[i] = x[i]
           /\ \A i \in 1..Len(y) : (x \o y)[Len(x) + i] = y[i]
<1>1. PICK a \in Nat, b \in Nat : a = Len(x) /\ b = Len(y)
  BY LenProperties DEF Text
<1>2. PICK z : z = x \o y
  OBVIOUS
<1>3. /\ z \in Text /\ Len(z) = a + b
      /\ \A i \in 1..a + b : z[i] = IF i <= a THEN x[i] ELSE y[i - a]
  <2>1. /\ x \o y \in Seq(Tokens) /\ Len(x \o y) = Len(x) + Len(y)
        /\ \A i \in 1..Len(x) + Len(y) : (x \o y)[i] = IF i <= Len(x) THEN x[i] ELSE y[i - Len(x)]
    BY ConcatProperties DEF Text
  <2> QED
    BY <1>1, <1>2, <2>1 DEF Text
<1>4. \A i \in 1..a : z[i] = x[i]
  BY <1>1, <1>3
<1>5. ASSUME NEW i \in 1..b PROVE z[a + i] = y[i]
  <2>1. a + i \in 1..a + b /\ ~(a + i <= a) /\ (a + i) - a = i
    BY <1>1
  <2> QED
    BY <1>3, <2>1
<1> QED
  BY <1>1, <1>2, <1>3, <1>4, <1>5

\* Nothing before or after a text.
LEMMA NothingIsNeutral ==
    ASSUME NEW x \in Text
    PROVE  <<>> \in Text /\ x \o <<>> = x /\ <<>> \o x = x
  BY ConcatEmptySeq, EmptySeq DEF Text

\* The elements of a part.
LEMMA PartByElement ==
    ASSUME NEW z \in Text, NEW m \in 1..Len(z), NEW k \in m..Len(z)
    PROVE  /\ SubSeq(z, m, k) \in Seq(Tokens) /\ Len(SubSeq(z, m, k)) = k - m + 1
           /\ \A i \in 1..k - m + 1 : SubSeq(z, m, k)[i] = z[m + i - 1]
<1>1. PICK n \in Nat : n = Len(z)
  BY LenProperties DEF Text
<1>2. \A i \in m..k : z[i] \in Tokens
  BY <1>1, ElementOfSeq DEF Text
<1>3. m \in Int /\ k \in Int /\ m <= k
  BY <1>1
<1> QED
  BY ONLY <1>2, <1>3, SubSeqProperties

\* A part that is a text element by element.
LEMMA PartIsThatText ==
    ASSUME NEW z \in Text, NEW s \in Text, NEW k \in Nat, k + Len(s) <= Len(z),
           \A i \in 1..Len(s) : z[k + i] = s[i]
    PROVE  SubSeq(z, k + 1, k + Len(s)) = s
<1>1. PICK n \in Nat, m \in Nat : n = Len(z) /\ m = Len(s)
  BY LenProperties DEF Text
<1>2. PICK p : p = SubSeq(z, k + 1, k + m)
  OBVIOUS
<1>3. \A i \in k + 1..k + m : z[i] \in Tokens
  <2>1. \A i \in k + 1..k + m : i \in 1..n
    BY <1>1
  <2> QED
    BY <1>1, <2>1, ElementOfSeq DEF Text
<1>4. /\ k + 1 \in Int /\ k + m \in Int /\ k + m - (k + 1) + 1 = m
      /\ (~(k + 1 <= k + m) => m = 0) /\ \A i \in 1..m : k + 1 + i - 1 = k + i
  BY <1>1
<1>5. /\ p \in Seq(Tokens) /\ Len(p) = IF k + 1 <= k + m THEN k + m - (k + 1) + 1 ELSE 0
      /\ \A i \in 1..k + m - (k + 1) + 1 : p[i] = z[k + 1 + i - 1]
  BY ONLY <1>2, <1>3, <1>4, SubSeqProperties
<1>6. Len(p) = m /\ \A i \in 1..m : p[i] = s[i]
  BY <1>1, <1>4, <1>5
<1>7. s \in Seq(Tokens) /\ Len(s) = m
  BY <1>1 DEF Text
<1>8. p = s
  BY ONLY <1>5, <1>6, <1>7, SeqEqual
<1> QED
  BY <1>1, <1>2, <1>8

\* A text of these tokens only.
IsPadding(tokens, x) == \A i \in 1..Len(x) : x[i] \in tokens

\* A text that neither begins nor ends with one of them.
IsTrimmed(tokens, s) == s # <<>> => s[1] \notin tokens /\ s[Len(s)] \notin tokens

\* Padding is trimmed off what does not begin or end with it.
LEMMA PaddingIsTrimmed ==
    ASSUME NEW tokens, NEW x \in Text, NEW s \in Text, NEW y \in Text,
           IsPadding(tokens, x), IsPadding(tokens, y), IsTrimmed(tokens, s)
    PROVE  TrimOf(tokens, x \o (s \o y)) = s
<1>1. PICK a \in Nat, n \in Nat, b \in Nat : a = Len(x) /\ n = Len(s) /\ b = Len(y)
  BY LenProperties DEF Text
<1>2. PICK w, z : w = s \o y /\ z = x \o w
  OBVIOUS
<1>3. w \in Text /\ Len(w) = n + b /\ \A i \in 1..n + b : w[i] = IF i <= n THEN s[i] ELSE y[i - n]
  <2>1. /\ s \o y \in Seq(Tokens) /\ Len(s \o y) = Len(s) + Len(y)
        /\ \A i \in 1..Len(s) + Len(y) : (s \o y)[i] = IF i <= Len(s) THEN s[i] ELSE y[i - Len(s)]
    BY ConcatProperties DEF Text
  <2> QED
    BY <1>1, <1>2, <2>1 DEF Text
<1>4. /\ z \in Text /\ Len(z) = a + (n + b)
      /\ \A i \in 1..a + (n + b) : z[i] = IF i <= a THEN x[i] ELSE w[i - a]
  <2>1. /\ x \o w \in Seq(Tokens) /\ Len(x \o w) = Len(x) + Len(w)
        /\ \A i \in 1..Len(x) + Len(w) : (x \o w)[i] = IF i <= Len(x) THEN x[i] ELSE w[i - Len(x)]
    BY <1>3, ConcatProperties DEF Text
  <2>2. Len(x) = a /\ Len(w) = n + b /\ x \o w = z
    BY <1>1, <1>2, <1>3
  <2> QED
    BY ONLY <2>1, <2>2 DEF Text
<1>5. /\ \A i \in 1..a : z[i] \in tokens
      /\ \A i \in 1..n : z[a + i] = s[i]
      /\ \A i \in 1..b : z[a + n + i] \in tokens
  <2>1. ASSUME NEW i \in 1..a PROVE z[i] \in tokens
    BY <1>1, <1>4 DEF IsPadding
  <2>2. ASSUME NEW i \in 1..n PROVE z[a + i] = s[i]
    <3>1. a + i \in 1..a + (n + b) /\ ~(a + i <= a) /\ (a + i) - a = i /\ i \in 1..n + b /\ i <= n
      BY <1>1
    <3> QED
      BY <1>3, <1>4, <3>1
  <2>3. ASSUME NEW i \in 1..b PROVE z[a + n + i] \in tokens
    <3>1. /\ a + n + i \in 1..a + (n + b) /\ ~(a + n + i <= a) /\ (a + n + i) - a = n + i
          /\ n + i \in 1..n + b /\ ~(n + i <= n) /\ (n + i) - n = i
      BY <1>1
    <3> QED
      BY <1>1, <1>3, <1>4, <3>1 DEF IsPadding
  <2> QED
    BY <2>1, <2>2, <2>3
<1> DEFINE kept == {i \in DOMAIN z : z[i] \notin tokens}
<1>6. DOMAIN z = 1..a + (n + b)
  BY <1>4, LenProperties DEF Text
<1>7. ASSUME NEW i \in kept PROVE i \in a + 1..a + n
  <2>1. i \in 1..a + (n + b) /\ z[i] \notin tokens
    BY <1>6
  <2>2. ~(i <= a)
    BY <1>1, <1>5, <2>1
  <2>3. ~(i > a + n)
    <3> SUFFICES ASSUME i > a + n PROVE FALSE
      OBVIOUS
    <3>1. i - (a + n) \in 1..b /\ a + n + (i - (a + n)) = i
      BY <1>1, <2>1
    <3> QED
      BY <1>5, <2>1, <3>1
  <2> QED
    BY <1>1, <2>1, <2>2, <2>3
<1>8. CASE s = <<>>
  <2>1. n = 0
    BY <1>1, <1>8, EmptySeq
  <2>2. kept = {}
    BY <1>1, <1>7, <2>1
  <2> QED
    BY <1>2, <1>8, <2>2 DEF TrimOf
<1>9. CASE s # <<>>
  <2>1. n > 0
    BY <1>1, <1>9, EmptySeq DEF Text
  <2>2. a + 1 \in kept /\ a + n \in kept
    <3>1. 1 \in 1..n /\ n \in 1..n /\ a + 1 \in 1..a + (n + b) /\ a + n \in 1..a + (n + b)
      BY <1>1, <2>1
    <3>2. z[a + 1] \notin tokens /\ z[a + n] \notin tokens
      BY <1>1, <1>5, <1>9, <3>1 DEF IsTrimmed
    <3> QED
      BY <1>6, <3>1, <3>2
  <2>3. Min(kept) = a + 1 /\ Max(kept) = a + n
    <3>1. kept \in SUBSET (1..a + (n + b)) /\ kept # {} /\ a + (n + b) \in Nat
      BY <1>1, <1>6, <2>2
    <3> HIDE DEF kept
    <3>2. /\ Min(kept) \in kept /\ \A m \in kept : Min(kept) <= m
          /\ Max(kept) \in kept /\ \A m \in kept : Max(kept) >= m
      BY <3>1, FirstAndLast
    <3>3. Min(kept) \in a + 1..a + n /\ Max(kept) \in a + 1..a + n
      BY <1>7, <3>2
    <3>4. Min(kept) <= a + 1 /\ Max(kept) >= a + n
      BY <2>2, <3>2
    <3> QED
      BY ONLY <1>1, <3>3, <3>4, a \in Nat, n \in Nat
  <2>4. TrimOf(tokens, z) = SubSeq(z, a + 1, a + n)
    BY <2>2, <2>3 DEF TrimOf
  <2>5. /\ SubSeq(z, a + 1, a + n) \in Seq(Tokens)
        /\ Len(SubSeq(z, a + 1, a + n)) = n
        /\ \A i \in 1..n : SubSeq(z, a + 1, a + n)[i] = s[i]
    <3>1. /\ a + 1 \in Int /\ a + n \in Int
          /\ \A i \in a + 1..a + n : z[i] \in Tokens
      <4>1. \A i \in a + 1..a + n : i \in 1..Len(z)
        BY <1>1, <1>4
      <4> QED
        BY <1>1, <1>4, <4>1, ElementOfSeq DEF Text
    <3>2. /\ SubSeq(z, a + 1, a + n) \in Seq(Tokens)
          /\ Len(SubSeq(z, a + 1, a + n)) = IF a + 1 <= a + n THEN (a + n) - (a + 1) + 1 ELSE 0
          /\ \A i \in 1..(a + n) - (a + 1) + 1 : SubSeq(z, a + 1, a + n)[i] = z[(a + 1) + i - 1]
      BY ONLY <3>1, SubSeqProperties
    <3>3. (a + n) - (a + 1) + 1 = n /\ a + 1 <= a + n
      BY <1>1, <2>1
    <3>4. \A i \in 1..n : (a + 1) + i - 1 = a + i
      BY <1>1
    <3> QED
      BY <1>5, <3>2, <3>3, <3>4
  <2>6. SubSeq(z, a + 1, a + n) = s
    <3>1. s \in Seq(Tokens) /\ Len(s) = n
      BY <1>1 DEF Text
    <3> QED
      BY ONLY <2>5, <3>1, SeqEqual
  <2> QED
    BY <1>2, <2>4, <2>6
<1> QED
  BY <1>8, <1>9

\* What trimming leaves, and what it has taken off before and after.
IsParted(tokens, t, x, s, y) ==
    /\ x \in Text /\ s \in Text /\ y \in Text
    /\ t = x \o (s \o y)
    /\ IsPadding(tokens, x) /\ IsPadding(tokens, y)
    /\ IsTrimmed(tokens, s) /\ s = TrimOf(tokens, t)

\* Every text has these parts.
LEMMA TextIsParted ==
    ASSUME NEW tokens, NEW t \in Text
    PROVE  \E x, s, y : IsParted(tokens, t, x, s, y)
<1>1. PICK n \in Nat : n = Len(t) /\ DOMAIN t = 1..n
  BY TextShape
<1>2. <<>> \in Text /\ IsPadding(tokens, <<>>) /\ IsTrimmed(tokens, <<>>)
  <2>1. <<>> \in Text /\ Len(<<>>) = 0
    BY EmptySeq DEF Text
  <2> QED
    BY <2>1 DEF IsPadding, IsTrimmed
<1> DEFINE kept == {i \in DOMAIN t : t[i] \notin tokens}
<1>3. CASE kept = {}
  <2>1. IsPadding(tokens, t)
    BY <1>1, <1>3 DEF IsPadding
  <2>2. PICK e \in Text : e = <<>> /\ IsPadding(tokens, e)
    BY <1>2
  <2>3. e \o e = e /\ t \o e = t
    BY <2>2, NothingIsNeutral
  <2>4. e = TrimOf(tokens, t)
    BY <1>3, <2>2 DEF TrimOf
  <2>5. IsParted(tokens, t, t, e, e)
    BY <1>2, <2>1, <2>2, <2>3, <2>4 DEF IsParted
  <2> QED
    BY <2>5
<1>4. CASE kept # {}
  <2>1. PICK a \in 1..n, b \in 1..n : /\ a = Min(kept) /\ b = Max(kept) /\ a \in kept /\ b \in kept
                                      /\ \A i \in kept : a <= i /\ i <= b
    <3>1. kept \in SUBSET (1..n) /\ kept # {} /\ n \in Nat
      BY <1>1, <1>4
    <3> HIDE DEF kept
    <3>2. /\ Min(kept) \in kept /\ \A m \in kept : Min(kept) <= m
          /\ Max(kept) \in kept /\ \A m \in kept : Max(kept) >= m
      BY <3>1, FirstAndLast
    <3>3. \A m \in kept : m <= Max(kept)
      BY <3>1, <3>2
    <3> QED
      BY <3>1, <3>2, <3>3
  <2>2. t[a] \notin tokens /\ t[b] \notin tokens /\ a <= b
    BY <2>1
  <2>3. ASSUME NEW i \in 1..n, i < a \/ i > b
        PROVE  t[i] \in tokens
    <3> SUFFICES ASSUME t[i] \notin tokens PROVE FALSE
      OBVIOUS
    <3>1. i \in kept
      BY <1>1
    <3> HIDE DEF kept
    <3>2. a <= i /\ i <= b
      BY <2>1, <3>1
    <3> QED
      BY <2>3, <3>2
  <2>4. TrimOf(tokens, t) = SubSeq(t, a, b)
    BY <1>4, <2>1 DEF TrimOf
  <2> HIDE DEF kept
  <2>5. PICK x, s, y : x = SubSeq(t, 1, a - 1) /\ s = SubSeq(t, a, b) /\ y = SubSeq(t, b + 1, n)
    OBVIOUS
  <2>6. /\ x \in Text /\ Len(x) = a - 1 /\ \A i \in 1..a - 1 : x[i] = t[i]
        /\ s \in Text /\ Len(s) = b - a + 1 /\ \A i \in 1..b - a + 1 : s[i] = t[a + i - 1]
        /\ y \in Text /\ Len(y) = n - b /\ \A i \in 1..n - b : y[i] = t[b + i]
    <3>1. \A i \in 1..n : t[i] \in Tokens
      BY <1>1, ElementOfSeq DEF Text
    <3>2. x \in Text /\ Len(x) = a - 1 /\ \A i \in 1..a - 1 : x[i] = t[i]
      <4>1. /\ 1 \in Int /\ a - 1 \in Int /\ \A i \in 1..a - 1 : t[i] \in Tokens
        BY <3>1
      <4>2. /\ x \in Seq(Tokens) /\ Len(x) = IF 1 <= a - 1 THEN (a - 1) - 1 + 1 ELSE 0
            /\ \A i \in 1..(a - 1) - 1 + 1 : x[i] = t[1 + i - 1]
        BY ONLY <2>5, <4>1, SubSeqProperties
      <4>3. (a - 1) - 1 + 1 = a - 1 /\ (~(1 <= a - 1) => a - 1 = 0) /\ \A i \in 1..a - 1 : 1 + i - 1 = i
        OBVIOUS
      <4> QED
        BY <4>2, <4>3 DEF Text
    <3>3. s \in Text /\ Len(s) = b - a + 1 /\ \A i \in 1..b - a + 1 : s[i] = t[a + i - 1]
      <4>1. a \in 1..Len(t) /\ b \in a..Len(t)
        BY <1>1, <2>2
      <4>2. /\ SubSeq(t, a, b) \in Seq(Tokens) /\ Len(SubSeq(t, a, b)) = b - a + 1
            /\ \A i \in 1..b - a + 1 : SubSeq(t, a, b)[i] = t[a + i - 1]
        BY <4>1, PartByElement
      <4> QED
        BY <2>5, <4>2 DEF Text
    <3>4. y \in Text /\ Len(y) = n - b /\ \A i \in 1..n - b : y[i] = t[b + i]
      <4>1. /\ b + 1 \in Int /\ n \in Int /\ \A i \in b + 1..n : t[i] \in Tokens
        BY <3>1
      <4>2. /\ y \in Seq(Tokens) /\ Len(y) = IF b + 1 <= n THEN n - (b + 1) + 1 ELSE 0
            /\ \A i \in 1..n - (b + 1) + 1 : y[i] = t[b + 1 + i - 1]
        BY ONLY <2>5, <4>1, SubSeqProperties
      <4>3. /\ n - (b + 1) + 1 = n - b /\ (~(b + 1 <= n) => n - b = 0)
            /\ \A i \in 1..n - b : b + 1 + i - 1 = b + i
        OBVIOUS
      <4> QED
        BY <4>2, <4>3 DEF Text
    <3> QED
      BY <3>2, <3>3, <3>4
  <2>7. PICK w : w = s \o y
    OBVIOUS
  <2>8. /\ w \in Text /\ Len(w) = (b - a + 1) + (n - b)
        /\ \A i \in 1..b - a + 1 : w[i] = s[i]
        /\ \A i \in 1..n - b : w[(b - a + 1) + i] = y[i]
    <3>1. /\ s \o y \in Text /\ Len(s \o y) = Len(s) + Len(y)
          /\ \A i \in 1..Len(s) : (s \o y)[i] = s[i]
          /\ \A i \in 1..Len(y) : (s \o y)[Len(s) + i] = y[i]
      BY <2>6, ConcatElements
    <3> QED
      BY <2>6, <2>7, <3>1
  <2>9. PICK z : z = x \o w
    OBVIOUS
  <2>10. /\ z \in Text /\ Len(z) = (a - 1) + Len(w)
         /\ \A i \in 1..a - 1 : z[i] = x[i]
         /\ \A i \in 1..Len(w) : z[(a - 1) + i] = w[i]
    <3>1. /\ x \o w \in Text /\ Len(x \o w) = Len(x) + Len(w)
          /\ \A i \in 1..Len(x) : (x \o w)[i] = x[i]
          /\ \A i \in 1..Len(w) : (x \o w)[Len(x) + i] = w[i]
      BY <2>6, <2>8, ConcatElements
    <3> QED
      BY <2>6, <2>9, <3>1
  <2>11. Len(z) = n
    BY <2>2, <2>8, <2>10
  <2>12. ASSUME NEW i \in 1..n
         PROVE  z[i] = t[i]
    <3>1. CASE i < a
      <4>1. i \in 1..a - 1
        BY <3>1
      <4> QED
        BY <2>6, <2>10, <4>1
    <3>2. CASE a <= i /\ i <= b
      <4>1. PICK j \in 1..b - a + 1 : i = a + j - 1 /\ i = (a - 1) + j
        <5>1. i - a + 1 \in 1..b - a + 1 /\ i = a + (i - a + 1) - 1 /\ i = (a - 1) + (i - a + 1)
          BY <3>2
        <5> QED
          BY <5>1
      <4>2. j \in 1..Len(w)
        BY <2>8
      <4>3. z[i] = w[j] /\ w[j] = s[j] /\ s[j] = t[i]
        BY <2>6, <2>8, <2>10, <4>1, <4>2
      <4> QED
        BY <4>3
    <3>3. CASE i > b
      <4>1. PICK j \in 1..n - b : i = b + j
        <5>1. i - b \in 1..n - b /\ i = b + (i - b)
          BY <3>3
        <5> QED
          BY <5>1
      <4>2. PICK k \in 1..Len(w) : k = (b - a + 1) + j
        <5>1. (b - a + 1) + j \in 1..Len(w)
          BY <2>2, <2>8
        <5> QED
          BY <5>1
      <4>3. i = (a - 1) + k
        BY <4>1, <4>2
      <4>4. z[i] = w[k] /\ w[k] = y[j] /\ y[j] = t[i]
        BY <2>6, <2>8, <2>10, <4>1, <4>2, <4>3
      <4> QED
        BY <4>4
    <3> QED
      BY <3>1, <3>2, <3>3
  <2>13. z = t
    <3>1. z \in Seq(Tokens) /\ t \in Seq(Tokens) /\ Len(z) = Len(t) /\ \A i \in 1..Len(z) : z[i] = t[i]
      BY <1>1, <2>10, <2>11, <2>12 DEF Text
    <3> QED
      BY ONLY <3>1, SeqEqual
  <2>14. IsPadding(tokens, x) /\ IsPadding(tokens, y)
    <3>1. ASSUME NEW i \in 1..a - 1
          PROVE  x[i] \in tokens
      BY <2>3, <2>6
    <3>2. ASSUME NEW i \in 1..n - b
          PROVE  y[i] \in tokens
      <4>1. PICK j \in 1..n : j = b + i /\ j > b
        <5>1. b + i \in 1..n /\ b + i > b
          OBVIOUS
        <5> QED
          BY <5>1
      <4> QED
        BY <2>3, <2>6, <4>1
    <3> QED
      BY <2>6, <3>1, <3>2 DEF IsPadding
  <2>15. IsTrimmed(tokens, s)
    <3>1. 1 \in 1..b - a + 1 /\ b - a + 1 \in 1..b - a + 1 /\ a + 1 - 1 = a /\ a + (b - a + 1) - 1 = b
      BY <2>2
    <3>2. s[1] = t[a] /\ s[Len(s)] = t[b]
      BY <2>6, <3>1
    <3> QED
      BY <2>2, <3>2 DEF IsTrimmed
  <2>16. IsParted(tokens, t, x, s, y)
    BY <2>4, <2>5, <2>6, <2>7, <2>9, <2>13, <2>14, <2>15 DEF IsParted
  <2> QED
    BY <2>16
<1> QED
  BY <1>3, <1>4

\* Concatenation is associative.
LEMMA TextsAssociate ==
    ASSUME NEW first \in Text, NEW second \in Text, NEW third \in Text
    PROVE  (first \o second) \o third = first \o (second \o third)
<1>1. first \in Seq(Tokens) /\ second \in Seq(Tokens) /\ third \in Seq(Tokens)
  BY DEF Text
<1> QED
  BY ONLY <1>1, ConcatAssociative

\* A text with padding around it.
Padded(x, t, y) == x \o (t \o y)

\* What is put around a text joins what trimming has taken off it.
LEMMA PaddingIsGrouped ==
    ASSUME NEW t, NEW p, NEW k, NEW q, p \in Text, k \in Text, q \in Text, t = Padded(p, k, q),
           NEW x \in Text, NEW y \in Text
    PROVE  Padded(x, t, y) = Padded(x \o p, k, q \o y)
<1>1. p \in Text /\ k \in Text /\ q \in Text /\ t = p \o (k \o q)
  BY DEF Padded
<1>2. PICK d, e, f : d \in Text /\ e \in Text /\ f \in Text /\ d = k \o q /\ e = k \o f /\ f = q \o y
  <2>1. k \o q \in Text /\ q \o y \in Text
    BY <1>1, ConcatIsText
  <2>2. k \o (q \o y) \in Text
    BY <1>1, <2>1, ConcatIsText
  <2> QED
    BY <2>1, <2>2
<1>3. p \in Text /\ d \in Text
  BY <1>1, <1>2
<1>4. (p \o d) \o y = p \o (d \o y)
  BY <1>3, TextsAssociate
<1>5. k \in Text /\ q \in Text
  BY <1>1
<1>6. (k \o q) \o y = k \o (q \o y)
  BY <1>5, TextsAssociate
<1>7. p \in Text /\ e \in Text
  BY <1>1, <1>2
<1>8. (x \o p) \o e = x \o (p \o e)
  BY <1>7, TextsAssociate
<1> QED
  BY <1>1, <1>2, <1>4, <1>6, <1>8 DEF Padded

\* Padding before and after makes padding.
LEMMA PaddingJoins ==
    ASSUME NEW tokens, NEW x \in Text, IsPadding(tokens, x), NEW y \in Text, IsPadding(tokens, y)
    PROVE  x \o y \in Text /\ IsPadding(tokens, x \o y)
<1>1. PICK m \in Nat, n \in Nat : m = Len(x) /\ n = Len(y)
  BY TextShape
<1>2. PICK z : z = x \o y
  OBVIOUS
<1>3. /\ z \in Text /\ Len(z) = m + n
      /\ \A i \in 1..m : z[i] = x[i]
      /\ \A i \in 1..n : z[m + i] = y[i]
  <2>1. /\ x \o y \in Text /\ Len(x \o y) = Len(x) + Len(y)
        /\ \A i \in 1..Len(x) : (x \o y)[i] = x[i]
        /\ \A i \in 1..Len(y) : (x \o y)[Len(x) + i] = y[i]
    BY ConcatElements
  <2> QED
    BY <1>1, <1>2, <2>1
<1>4. ASSUME NEW i \in 1..m + n
      PROVE  z[i] \in tokens
  <2>1. CASE i <= m
    <3>1. i \in 1..m
      BY <2>1
    <3> QED
      BY <1>1, <1>3, <3>1 DEF IsPadding
  <2>2. CASE ~(i <= m)
    <3>1. PICK j \in 1..n : i = m + j
      <4>1. i - m \in 1..n /\ i = m + (i - m)
        BY <2>2
      <4> QED
        BY <4>1
    <3> QED
      BY <1>1, <1>3, <3>1 DEF IsPadding
  <2> QED
    BY <2>1, <2>2
<1> QED
  BY <1>2, <1>3, <1>4 DEF IsPadding

\* No text at all is padding, and trimmed.
LEMMA NothingIsPadding ==
    ASSUME NEW tokens
    PROVE  /\ <<>> \in Text /\ IsPadding(tokens, <<>>) /\ IsTrimmed(tokens, <<>>)
           /\ TrimOf(tokens, <<>>) = <<>>
<1>1. PICK e \in Text : e = <<>> /\ Len(e) = 0
  BY EmptySeq DEF Text
<1>2. IsPadding(tokens, e) /\ IsTrimmed(tokens, e)
  BY <1>1 DEF IsPadding, IsTrimmed
<1>3. e \o (e \o e) = e
  BY <1>1, NothingIsNeutral
<1>4. TrimOf(tokens, e \o (e \o e)) = e
  BY <1>2, PaddingIsTrimmed
<1> QED
  BY <1>1, <1>2, <1>3, <1>4

\* Trimming does not see padding.
LEMMA PaddingIsIgnored ==
    ASSUME NEW tokens, NEW x \in Text, IsPadding(tokens, x), NEW t \in Text,
           NEW y \in Text, IsPadding(tokens, y)
    PROVE  /\ TrimOf(tokens, t) \in Text /\ IsTrimmed(tokens, TrimOf(tokens, t))
           /\ TrimOf(tokens, x \o (t \o y)) = TrimOf(tokens, t)
           /\ TrimOf(tokens, x \o t) = TrimOf(tokens, t)
           /\ TrimOf(tokens, t \o y) = TrimOf(tokens, t)
<1>1. PICK p, s, r : IsParted(tokens, t, p, s, r)
  BY TextIsParted
<1>2. /\ p \in Text /\ IsPadding(tokens, p) /\ r \in Text /\ IsPadding(tokens, r)
      /\ s \in Text /\ IsTrimmed(tokens, s) /\ s = TrimOf(tokens, t) /\ t = p \o (s \o r)
  BY <1>1 DEF IsParted
<1>3. ASSUME NEW u, u \in Text, IsPadding(tokens, u), NEW v, v \in Text, IsPadding(tokens, v)
      PROVE  TrimOf(tokens, u \o (t \o v)) = s
  <2>1. PICK a, b : a = u \o p /\ b = r \o v
    OBVIOUS
  <2>2. a \in Text /\ IsPadding(tokens, a) /\ b \in Text /\ IsPadding(tokens, b)
    BY <1>2, <1>3, <2>1, PaddingJoins
  <2>3. Padded(u, t, v) = Padded(a, s, b)
    <3>1. t = Padded(p, s, r)
      BY <1>2 DEF Padded
    <3>2. u \in Text /\ v \in Text /\ p \in Text /\ s \in Text /\ r \in Text
      BY <1>2, <1>3
    <3> QED
      BY ONLY <2>1, <3>1, <3>2, PaddingIsGrouped
  <2>4. TrimOf(tokens, a \o (s \o b)) = s
    BY ONLY <1>2, <2>2, PaddingIsTrimmed
  <2>5. TrimOf(tokens, Padded(a, s, b)) = s
    BY ONLY <2>4 DEF Padded
  <2>6. TrimOf(tokens, Padded(u, t, v)) = s
    BY ONLY <2>3, <2>5
  <2> QED
    BY ONLY <2>6 DEF Padded
<1>4. PICK e \in Text : e = <<>> /\ IsPadding(tokens, e)
  BY NothingIsPadding
<1>5. x \o t \in Text /\ t \o y \in Text
  BY ConcatIsText
<1>6. x \o (t \o e) = x \o t /\ e \o (t \o y) = t \o y
  BY <1>4, <1>5, NothingIsNeutral
<1>7. TrimOf(tokens, x \o (t \o y)) = s
  BY <1>3
<1>8. TrimOf(tokens, x \o (t \o e)) = s
  BY <1>3, <1>4
<1>9. TrimOf(tokens, e \o (t \o y)) = s
  BY <1>3, <1>4
<1> QED
  BY <1>2, <1>6, <1>7, <1>8, <1>9

\* The padding before a text, or all of it.
LEMMA PaddingBefore ==
    ASSUME NEW tokens, NEW t \in Text
    PROVE  \E x, s \in Text : /\ t = x \o s /\ IsPadding(tokens, x)
                              /\ s # <<>> => s[1] \notin tokens
<1>1. PICK x, s, y : IsParted(tokens, t, x, s, y)
  BY TextIsParted
<1>2. /\ x \in Text /\ IsPadding(tokens, x) /\ y \in Text /\ IsPadding(tokens, y)
      /\ s \in Text /\ IsTrimmed(tokens, s) /\ t = x \o (s \o y)
  BY <1>1 DEF IsParted
<1>3. CASE s = <<>>
  <2>1. PICK e \in Text : e = <<>>
    BY NothingIsPadding
  <2>2. t = x \o y /\ t \o e = t
    BY <1>2, <1>3, <2>1, NothingIsNeutral
  <2>3. IsPadding(tokens, t)
    BY <1>2, <2>2, PaddingJoins
  <2> QED
    BY <2>1, <2>2, <2>3
<1>4. CASE s # <<>>
  <2>1. PICK r : r = s \o y
    OBVIOUS
  <2>2. r \in Text /\ r[1] = s[1]
    <3>1. 1 \in 1..Len(s)
      BY <1>2, <1>4, TextShape
    <3> QED
      BY <1>2, <2>1, <3>1, ConcatElements
  <2>3. r[1] \notin tokens
    BY <1>2, <1>4, <2>2 DEF IsTrimmed
  <2> QED
    BY <1>2, <2>1, <2>2, <2>3
<1> QED
  BY <1>3, <1>4

\* The padding after a text, or all of it.
LEMMA PaddingAfter ==
    ASSUME NEW tokens, NEW t \in Text
    PROVE  \E s, y \in Text : /\ t = s \o y /\ IsPadding(tokens, y)
                              /\ s # <<>> => s[Len(s)] \notin tokens
<1>1. PICK x, s, y : IsParted(tokens, t, x, s, y)
  BY TextIsParted
<1>2. /\ x \in Text /\ IsPadding(tokens, x) /\ y \in Text /\ IsPadding(tokens, y)
      /\ s \in Text /\ IsTrimmed(tokens, s) /\ t = x \o (s \o y)
  BY <1>1 DEF IsParted
<1>3. CASE s = <<>>
  <2>1. PICK e \in Text : e = <<>>
    BY NothingIsPadding
  <2>2. t = x \o y /\ e \o t = t
    BY <1>2, <1>3, <2>1, NothingIsNeutral
  <2>3. IsPadding(tokens, t)
    BY <1>2, <2>2, PaddingJoins
  <2> QED
    BY <2>1, <2>2, <2>3
<1>4. CASE s # <<>>
  <2>1. PICK r : r = x \o s
    OBVIOUS
  <2>2. r \in Text /\ r[Len(r)] = s[Len(s)]
    <3>1. Len(s) \in 1..Len(s)
      BY <1>2, <1>4, TextShape
    <3>2. /\ x \o s \in Text /\ Len(x \o s) = Len(x) + Len(s)
          /\ \A i \in 1..Len(s) : (x \o s)[Len(x) + i] = s[i]
      BY <1>2, ConcatElements
    <3> QED
      BY <2>1, <3>1, <3>2
  <2>3. r[Len(r)] \notin tokens
    BY <1>2, <1>4, <2>2 DEF IsTrimmed
  <2>4. t = r \o y
    <3>1. x \in Seq(Tokens) /\ s \in Seq(Tokens) /\ y \in Seq(Tokens)
      BY <1>2 DEF Text
    <3>2. (x \o s) \o y = x \o (s \o y)
      BY ONLY <3>1, ConcatAssociative
    <3> QED
      BY <1>2, <2>1, <3>2
  <2> QED
    BY <1>2, <2>2, <2>3, <2>4
<1> QED
  BY <1>3, <1>4

-----------------------------------------------------------------------------

\* Where a token stands.
LEMMA PositionsOfOne ==
    ASSUME NEW z \in Text, NEW c
    PROVE  Positions(<<c>>, z) = {i \in 1..Len(z) : z[i] = c}
<1>1. PICK n \in Nat : n = Len(z)
  BY LenProperties DEF Text
<1>2. PICK o : o = <<c>>
  OBVIOUS
<1>3. Len(o) = 1 /\ o[1] = c
  BY <1>2
<1>4. ASSUME NEW i \in 1..n
      PROVE  SubSeq(z, i, i) = o <=> z[i] = c
  <2>1. PICK p : p = SubSeq(z, i, i)
    OBVIOUS
  <2>2. p \in Seq(Tokens) /\ Len(p) = 1 /\ p[1] = z[i]
    <3>1. i \in i..n /\ i - i + 1 = 1 /\ 1 \in 1..1 /\ i + 1 - 1 = i
      BY <1>1
    <3>2. /\ SubSeq(z, i, i) \in Seq(Tokens) /\ Len(SubSeq(z, i, i)) = i - i + 1
          /\ \A j \in 1..i - i + 1 : SubSeq(z, i, i)[j] = z[i + j - 1]
      BY <1>1, <3>1, PartByElement
    <3> QED
      BY ONLY <2>1, <3>1, <3>2
  <2>3. z[i] = c => p = o
    <3> SUFFICES ASSUME z[i] = c PROVE p = o
      OBVIOUS
    <3>1. z[i] \in Tokens
      BY <1>1, ElementOfSeq DEF Text
    <3>2. o \in Seq(Tokens) /\ Len(o) = 1 /\ o[1] = c
      BY <1>2, <3>1
    <3>3. \A j \in 1..1 : p[j] = o[j]
      BY <2>2, <3>2
    <3> QED
      BY ONLY <2>2, <3>2, <3>3, SeqEqual
  <2> QED
    BY <1>3, <2>1, <2>2, <2>3
<1>5. Positions(o, z) = {i \in 1..n : z[i] = c}
  <2>1. /\ 1..n - 1 + 1 = 1..n
        /\ \A i \in 1..n : i + 1 - 1 = i
    BY <1>1
  <2>2. Positions(o, z) = {i \in 1..n - 1 + 1 : SubSeq(z, i, i + 1 - 1) = o}
    BY <1>1, <1>3 DEF Positions
  <2> QED
    BY <1>4, <2>1, <2>2
<1> QED
  BY <1>1, <1>2, <1>5

\* Where three tokens stand.
LEMMA PositionsOfThree ==
    ASSUME NEW z \in Text, NEW u, NEW c, NEW v
    PROVE  Positions(<<u, c, v>>, z)
              = {i \in 1..Len(z) - 2 : z[i] = u /\ z[i + 1] = c /\ z[i + 2] = v}
<1>1. PICK n \in Nat : n = Len(z)
  BY LenProperties DEF Text
<1>2. PICK needle : needle = <<u, c, v>>
  OBVIOUS
<1>3. Len(needle) = 3 /\ needle[1] = u /\ needle[2] = c /\ needle[3] = v
  BY <1>2
<1>4. ASSUME NEW i \in 1..n - 2
      PROVE  SubSeq(z, i, i + 2) = needle <=> z[i] = u /\ z[i + 1] = c /\ z[i + 2] = v
  <2>1. PICK p : p = SubSeq(z, i, i + 2)
    OBVIOUS
  <2>2. p \in Seq(Tokens) /\ Len(p) = 3 /\ p[1] = z[i] /\ p[2] = z[i + 1] /\ p[3] = z[i + 2]
    <3>1. /\ i \in 1..n /\ i + 2 \in i..n /\ i + 2 - i + 1 = 3 /\ 1 \in 1..3 /\ 2 \in 1..3 /\ 3 \in 1..3
          /\ i + 1 - 1 = i /\ i + 2 - 1 = i + 1 /\ i + 3 - 1 = i + 2
      BY <1>1
    <3>2. p \in Seq(Tokens) /\ Len(p) = 3 /\ \A j \in 1..3 : p[j] = z[i + j - 1]
      <4>1. /\ SubSeq(z, i, i + 2) \in Seq(Tokens) /\ Len(SubSeq(z, i, i + 2)) = i + 2 - i + 1
            /\ \A j \in 1..i + 2 - i + 1 : SubSeq(z, i, i + 2)[j] = z[i + j - 1]
        BY <1>1, <3>1, PartByElement
      <4> QED
        BY ONLY <2>1, <3>1, <4>1
    <3> QED
      BY <3>1, <3>2
  <2>3. (z[i] = u /\ z[i + 1] = c /\ z[i + 2] = v) => p = needle
    <3> SUFFICES ASSUME z[i] = u, z[i + 1] = c, z[i + 2] = v PROVE p = needle
      OBVIOUS
    <3>1. z[i] \in Tokens /\ z[i + 1] \in Tokens /\ z[i + 2] \in Tokens
      <4>1. i \in 1..n /\ i + 1 \in 1..n /\ i + 2 \in 1..n
        BY <1>1
      <4> QED
        BY <1>1, <4>1, ElementOfSeq DEF Text
    <3>2. needle \in Seq(Tokens)
      BY <1>2, <3>1
    <3>3. \A j \in 1..3 : p[j] = needle[j]
      BY <1>3, <2>2
    <3> QED
      BY ONLY <1>3, <2>2, <3>2, <3>3, SeqEqual
  <2> QED
    BY <1>3, <2>1, <2>2, <2>3
<1>5. Positions(needle, z) = {i \in 1..n - 2 : z[i] = u /\ z[i + 1] = c /\ z[i + 2] = v}
  <2>1. /\ 1..n - 3 + 1 = 1..n - 2
        /\ \A i \in 1..n - 2 : i + 3 - 1 = i + 2
    BY <1>1
  <2>2. Positions(needle, z) = {i \in 1..n - 3 + 1 : SubSeq(z, i, i + 3 - 1) = needle}
    BY <1>1, <1>3 DEF Positions
  <2> QED
    BY <1>4, <2>1, <2>2
<1> QED
  BY <1>1, <1>2, <1>5

\* Element by element.
IsAround(z, x, o, y) ==
    /\ z \in Text /\ x \in Text /\ y \in Text
    /\ Len(x) \in Nat /\ Len(y) \in Nat /\ Len(z) = Len(x) + (1 + Len(y))
    /\ \A i \in 1..Len(x) : z[i] = x[i]
    /\ z[Len(x) + 1] = o
    /\ \A i \in 1..Len(y) : z[Len(x) + 1 + i] = y[i]

\* z falls apart into x and y at the one o in it.
IsSplit(z, x, o, y) ==
    /\ \A i \in 1..Len(z) : z[i] = o <=> i = Len(x) + 1
    /\ Positions(<<o>>, z) = {Len(x) + 1}
    /\ SubSeq(z, 1, Len(x)) = x /\ SubSeq(z, Len(x) + 2, Len(z)) = y

\* A comparison falls apart at its operator.
LEMMA ComparisonIsSplit ==
    ASSUME NEW z, NEW x, NEW o \in Tokens, NEW y, IsAround(z, x, o, y), Lacks(x, o), Lacks(y, o)
    PROVE  /\ IsSplit(z, x, o, y) /\ o \in Range(z)
           /\ \A c : c # o /\ Lacks(x, c) /\ Lacks(y, c) => c \notin Range(z)
<1>1. PICK m \in Nat, n \in Nat : m = Len(x) /\ n = Len(y)
  BY DEF IsAround
<1>2. /\ z \in Text /\ x \in Text /\ y \in Text /\ Len(z) = m + (1 + n)
      /\ \A i \in 1..m : z[i] = x[i]
      /\ z[m + 1] = o
      /\ \A i \in 1..n : z[m + 1 + i] = y[i]
  BY <1>1 DEF IsAround
<1>3. ASSUME NEW i \in 1..m + (1 + n)
      PROVE  /\ z[i] = o <=> i = m + 1
             /\ \A c : c # o /\ Lacks(x, c) /\ Lacks(y, c) => z[i] # c
  <2>1. CASE i <= m
    <3>1. i \in 1..m /\ i # m + 1
      BY <1>1, <2>1
    <3> QED
      BY <1>1, <1>2, <3>1 DEF Lacks
  <2>2. CASE i = m + 1
    BY <1>2, <2>2
  <2>3. CASE i > m + 1
    <3>1. PICK j \in 1..n : i = m + 1 + j /\ i # m + 1
      <4>1. i - (m + 1) \in 1..n /\ i = m + 1 + (i - (m + 1)) /\ i # m + 1
        BY <1>1, <2>3
      <4> QED
        BY <4>1
    <3>2. z[i] = y[j]
      BY <1>2, <3>1
    <3> QED
      BY <1>1, <3>1, <3>2 DEF Lacks
  <2> QED
    BY <1>1, <2>1, <2>2, <2>3
<1>4. Positions(<<o>>, z) = {m + 1}
  <2>1. Positions(<<o>>, z) = {i \in 1..m + (1 + n) : z[i] = o}
    BY <1>2, PositionsOfOne
  <2>2. m + 1 \in 1..m + (1 + n)
    BY <1>1
  <2> QED
    BY <1>3, <2>1, <2>2
<1>5. DOMAIN z = 1..m + (1 + n)
  BY <1>2, LenProperties DEF Text
<1>6. o \in Range(z) /\ \A c : c # o /\ Lacks(x, c) /\ Lacks(y, c) => c \notin Range(z)
  <2>1. m + 1 \in 1..m + (1 + n)
    BY <1>1
  <2> QED
    BY <1>2, <1>3, <1>5, <2>1 DEF Range
<1>7. SubSeq(z, 1, m) = x
  <2>1. 0 \in Nat /\ 0 + m <= m + (1 + n) /\ 0 + 1 = 1 /\ 0 + m = m /\ \A i \in 1..m : 0 + i = i
    BY <1>1
  <2>2. SubSeq(z, 0 + 1, 0 + Len(x)) = x
    <3>1. 0 + Len(x) <= Len(z) /\ \A i \in 1..Len(x) : z[0 + i] = x[i]
      BY <1>1, <1>2, <2>1
    <3> QED
      BY <1>2, <2>1, <3>1, PartIsThatText
  <2> QED
    BY <1>1, <2>1, <2>2
<1>8. SubSeq(z, m + 2, m + (1 + n)) = y
  <2>1. /\ m + 1 \in Nat /\ (m + 1) + n <= m + (1 + n) /\ (m + 1) + 1 = m + 2
        /\ (m + 1) + n = m + (1 + n)
    BY <1>1
  <2>2. SubSeq(z, (m + 1) + 1, (m + 1) + Len(y)) = y
    BY <1>1, <1>2, <2>1, PartIsThatText
  <2> QED
    BY <1>1, <2>1, <2>2
<1> QED
  BY <1>1, <1>2, <1>3, <1>4, <1>6, <1>7, <1>8 DEF IsSplit

\* No quote and no blank is an operator.
LEMMA QuotedLacks ==
    ASSUME NEW q \in Quotes, NEW l \in Text, NEW e \in Blanks, NEW c \in Operators, Lacks(l, c),
           NEW A, A = Quoted(q, l)
    PROVE  Lacks(A \o e, c) /\ Lacks(e \o A, c)
<1>1. /\ DoubleQuote \in Tokens /\ SingleQuote \in Tokens /\ Blank \in Tokens
      /\ c # DoubleQuote /\ c # SingleQuote /\ c # Blank
  <2>1. DoubleQuote \in Tokens /\ SingleQuote \in Tokens /\ Blank \in Tokens
    BY TokensAssumption, Zenon
  <2> QED
    BY <2>1, MarksAreTokens
<1>2. q \in Text /\ Lacks(q, c) /\ e \in Text /\ Lacks(e, c)
  <2>1. <<DoubleQuote>> \in Text /\ Lacks(<<DoubleQuote>>, c)
    BY <1>1, OneLacks
  <2>2. <<SingleQuote>> \in Text /\ Lacks(<<SingleQuote>>, c)
    BY <1>1, OneLacks
  <2>3. <<Blank>> \in Text /\ Lacks(<<Blank>>, c) /\ <<>> \in Text /\ Lacks(<<>>, c)
    BY <1>1, OneLacks
  <2>4. q \in Text /\ Lacks(q, c)
    BY <2>1, <2>2, <2>3 DEF Quotes
  <2>5. e \in Text /\ Lacks(e, c)
    BY <2>3 DEF Blanks
  <2> QED
    BY <2>4, <2>5
<1>3. l \o q \in Text /\ Lacks(l \o q, c)
  BY <1>2, ConcatLacks
<1>4. A \in Text /\ Lacks(A, c)
  BY <1>2, <1>3, ConcatLacks DEF Quoted
<1>5. Lacks(A \o e, c)
  BY <1>2, <1>4, ConcatLacks
<1>6. Lacks(e \o A, c)
  BY <1>2, <1>4, ConcatLacks
<1> QED
  BY <1>5, <1>6

\* Whitespace is neither a quote nor an operator.
LEMMA WhitespaceIsNoMark ==
    /\ Blank \in Whitespace /\ DoubleQuote \notin Whitespace /\ SingleQuote \notin Whitespace
    /\ \A o \in Operators : o \notin Whitespace
<1>1. Blank \in Whitespace
  BY Zenon DEF Whitespace
<1>2. DoubleQuote \notin Whitespace /\ SingleQuote \notin Whitespace
  BY Zenon DEF Whitespace, Blank, Newline, DoubleQuote, SingleQuote
<1>3. \A o \in Operators : o \notin Whitespace
  BY Zenon DEF Whitespace, Blank, Newline, Operators
<1> QED
  BY <1>1, <1>2, <1>3

\* A blank, or nothing, is padding.
LEMMA BlanksArePadding ==
    ASSUME NEW b \in Blanks
    PROVE  b \in Text /\ IsPadding(Whitespace, b)
<1>1. b \in Text
  BY QuotesAreTexts
<1>2. CASE b = <<>>
  BY <1>1, <1>2, NothingIsPadding
<1>3. CASE b = <<Blank>>
  <2>1. PICK c : c = <<Blank>>
    OBVIOUS
  <2>2. Len(c) = 1 /\ c[1] = Blank
    BY <2>1
  <2>3. IsPadding(Whitespace, c)
    BY <2>2, WhitespaceIsNoMark DEF IsPadding
  <2> QED
    BY <1>1, <1>3, <2>1, <2>3
<1> QED
  BY <1>2, <1>3 DEF Blanks

\* What a text begins with, and what it ends in.
IsFirst(s, c) == s # <<>> /\ s[1] = c

IsLast(s, c) == s # <<>> /\ s[Len(s)] = c

\* A text begins with what its first part begins with, and ends in what its last
\* part ends in.
LEMMA EndsOfConcat ==
    ASSUME NEW x \in Text, NEW y \in Text, NEW c, NEW z, z = x \o y
    PROVE  /\ z \in Text
           /\ x # <<>> => (IsFirst(z, c) <=> IsFirst(x, c))
           /\ y # <<>> => (IsLast(z, c) <=> IsLast(y, c))
           /\ x # <<>> \/ y # <<>> => z # <<>>
<1>1. PICK m \in Nat, n \in Nat : /\ m = Len(x) /\ (x = <<>> <=> m = 0)
                                  /\ n = Len(y) /\ (y = <<>> <=> n = 0)
  BY TextShape
<1>2. /\ z \in Text /\ Len(z) = m + n
      /\ \A i \in 1..m : z[i] = x[i]
      /\ \A i \in 1..n : z[m + i] = y[i]
  <2>1. /\ x \o y \in Text /\ Len(x \o y) = Len(x) + Len(y)
        /\ \A i \in 1..Len(x) : (x \o y)[i] = x[i]
        /\ \A i \in 1..Len(y) : (x \o y)[Len(x) + i] = y[i]
    BY ConcatElements
  <2> QED
    BY <1>1, <2>1
<1>3. z = <<>> <=> m + n = 0
  BY <1>2, TextShape
<1>4. m # 0 => 1 \in 1..m
  BY <1>1
<1>5. n # 0 => n \in 1..n
  BY <1>1
<1>6. x # <<>> => (IsFirst(z, c) <=> IsFirst(x, c))
  BY <1>1, <1>2, <1>3, <1>4 DEF IsFirst
<1>7. y # <<>> => (IsLast(z, c) <=> IsLast(y, c))
  BY <1>1, <1>2, <1>3, <1>5 DEF IsLast
<1> QED
  BY <1>1, <1>2, <1>3, <1>6, <1>7

\* A part lacks what the text lacks.
LEMMA PartsLack ==
    ASSUME NEW x \in Text, NEW y \in Text, NEW c, NEW z, z = x \o y, Lacks(z, c)
    PROVE  Lacks(x, c) /\ Lacks(y, c)
<1>1. PICK m \in Nat, n \in Nat : m = Len(x) /\ n = Len(y)
  BY TextShape
<1>2. /\ Len(z) = m + n
      /\ \A i \in 1..m : z[i] = x[i]
      /\ \A i \in 1..n : z[m + i] = y[i]
  <2>1. /\ x \o y \in Text /\ Len(x \o y) = Len(x) + Len(y)
        /\ \A i \in 1..Len(x) : (x \o y)[i] = x[i]
        /\ \A i \in 1..Len(y) : (x \o y)[Len(x) + i] = y[i]
    BY ConcatElements
  <2> QED
    BY <1>1, <2>1
<1>3. ASSUME NEW i \in 1..m PROVE x[i] # c
  <2>1. i \in 1..m + n
    BY <1>1
  <2> QED
    BY <1>2, <2>1 DEF Lacks
<1>4. ASSUME NEW i \in 1..n PROVE y[i] # c
  <2>1. m + i \in 1..m + n
    BY <1>1
  <2> QED
    BY <1>2, <2>1 DEF Lacks
<1> QED
  BY <1>1, <1>3, <1>4 DEF Lacks

\* What trimming leaves lacks what the text lacks.
LEMMA TrimmedLacks ==
    ASSUME NEW tokens, NEW t \in Text, NEW c, Lacks(t, c)
    PROVE  TrimOf(tokens, t) \in Text /\ Lacks(TrimOf(tokens, t), c)
<1>1. PICK x, s, y : IsParted(tokens, t, x, s, y)
  BY TextIsParted
<1>2. x \in Text /\ s \in Text /\ y \in Text /\ t = x \o (s \o y) /\ s = TrimOf(tokens, t)
  BY <1>1 DEF IsParted
<1>3. PICK r : r = s \o y /\ r \in Text /\ t = x \o r
  BY <1>2, ConcatIsText
<1>4. Lacks(r, c)
  BY <1>2, <1>3, PartsLack
<1>5. Lacks(s, c)
  BY <1>2, <1>3, <1>4, PartsLack
<1> QED
  BY <1>2, <1>5

\* A text that lacks a token is what trimming it leaves of the text padded.
LEMMA PaddedIsTrimmed ==
    ASSUME NEW token \in Tokens, NEW s \in Text, Lacks(s, token), NEW e \in {<<>>, <<token>>}
    PROVE  TrimOf({token}, s) = s /\ TrimOf({token}, e \o (s \o e)) = s
<1>1. e \in Text /\ IsPadding({token}, e)
  <2>1. <<token>> \in Text /\ <<>> \in Text
    BY DEF Text
  <2>2. CASE e = <<>>
    BY <2>1, <2>2 DEF IsPadding
  <2>3. CASE e = <<token>>
    BY <2>1, <2>3 DEF IsPadding
  <2> QED
    BY <2>1, <2>2, <2>3
<1>2. IsTrimmed({token}, s)
  <2> SUFFICES ASSUME s # <<>> PROVE 1 \in 1..Len(s) /\ Len(s) \in 1..Len(s)
    BY DEF Lacks, IsTrimmed
  <2> QED
    BY TextShape
<1>3. TrimOf({token}, e \o (s \o e)) = s
  BY ONLY <1>1, <1>2, s \in Text, PaddingIsTrimmed
<1>4. PICK n : n = <<>> /\ n \in Text /\ IsPadding({token}, n)
  BY NothingIsPadding
<1>5. TrimOf({token}, n \o (s \o n)) = s
  BY ONLY <1>2, <1>4, s \in Text, PaddingIsTrimmed
<1>6. n \o (s \o n) = s
  <2>1. s \o n = s /\ n \o s = s
    BY <1>4, NothingIsNeutral
  <2> QED
    BY <2>1
<1> QED
  BY <1>3, <1>5, <1>6

\* No quote is in it.
IsUnquoted(s) == Lacks(s, DoubleQuote) /\ Lacks(s, SingleQuote)

\* What an operand stands for: whitespace at its ends counts only between quotes.
Meant(q, u) == IF q = <<>> THEN TrimOf(Whitespace, u) ELSE u

\* Quotes are taken off what lacks them.
LEMMA QuotesAreTaken ==
    ASSUME NEW q \in Quotes, NEW l \in Text, IsUnquoted(l)
    PROVE  TrimOf({SingleQuote}, TrimOf({DoubleQuote}, Quoted(q, l))) = l
<1> DEFINE A == q \o (l \o q)
<1>1. /\ DoubleQuote \in Tokens /\ SingleQuote \in Tokens /\ DoubleQuote # SingleQuote
  <2>1. DoubleQuote \in Tokens /\ SingleQuote \in Tokens
    BY TokensAssumption, Zenon
  <2> QED
    BY <2>1, MarksAreTokens
<1>2. q \in Text
  BY QuotesAreTexts
<1>3. TrimOf({DoubleQuote}, l) = l
  BY <1>1, PaddedIsTrimmed DEF IsUnquoted
<1>4. TrimOf({SingleQuote}, l) = l
  BY <1>1, PaddedIsTrimmed DEF IsUnquoted
<1>5. CASE q = <<>>
  <2>1. A = l
    BY <1>5, NothingIsNeutral
  <2> QED
    BY <1>3, <1>4, <2>1 DEF Quoted
<1>6. CASE q = <<DoubleQuote>>
  <2>1. TrimOf({DoubleQuote}, A) = l
    BY <1>1, <1>6, PaddedIsTrimmed DEF IsUnquoted
  <2> QED
    BY <1>4, <2>1 DEF Quoted
<1>7. CASE q = <<SingleQuote>>
  <2>1. A \in Text /\ Lacks(A, DoubleQuote)
    <3>1. Lacks(q, DoubleQuote)
      BY <1>1, <1>7 DEF Lacks
    <3>2. l \o q \in Text /\ Lacks(l \o q, DoubleQuote)
      BY <1>2, <3>1, ConcatLacks DEF IsUnquoted
    <3> QED
      BY <1>2, <3>1, <3>2, ConcatLacks
  <2>2. TrimOf({DoubleQuote}, A) = A
    BY <1>1, <2>1, PaddedIsTrimmed
  <2>3. TrimOf({SingleQuote}, A) = l
    BY <1>1, <1>7, PaddedIsTrimmed DEF IsUnquoted
  <2> QED
    BY <2>2, <2>3 DEF Quoted
<1> QED
  BY <1>5, <1>6, <1>7 DEF Quotes

\* What quotes begin with and end in is no whitespace.
LEMMA QuotedEnds ==
    ASSUME NEW q \in Quotes, q # <<>>, NEW u \in Text, NEW A, A = Quoted(q, u)
    PROVE  /\ A \in Text /\ A # <<>> /\ ~IsFirst(A, Blank) /\ ~IsLast(A, Blank)
           /\ A[1] \notin Whitespace /\ A[Len(A)] \notin Whitespace
<1>1. PICK c : q = <<c>> /\ c \in {DoubleQuote, SingleQuote}
  BY DEF Quotes
<1>2. c \notin Whitespace /\ c # Blank
  BY <1>1, WhitespaceIsNoMark
<1>3. q \in Text /\ Len(q) = 1 /\ q[1] = c /\ IsFirst(q, c) /\ IsLast(q, c)
  <2>1. q \in Text
    BY QuotesAreTexts
  <2>2. Len(q) = 1 /\ q[1] = c
    BY <1>1
  <2> QED
    BY <2>1, <2>2 DEF IsFirst, IsLast
<1>4. PICK r : r = u \o q /\ r \in Text /\ A = q \o r
  BY <1>3, ConcatIsText DEF Quoted
<1>5. IsLast(r, c) /\ r # <<>>
  BY <1>3, <1>4, EndsOfConcat
<1>6. A \in Text /\ IsFirst(A, c) /\ IsLast(A, c)
  <2>1. A \in Text /\ (IsFirst(A, c) <=> IsFirst(q, c)) /\ (IsLast(A, c) <=> IsLast(r, c))
    <3>1. q \in Text /\ q # <<>> /\ r \in Text /\ r # <<>> /\ A = q \o r
      BY <1>3, <1>4, <1>5
    <3> QED
      BY ONLY <3>1, EndsOfConcat
  <2> QED
    BY <1>3, <1>5, <2>1
<1> QED
  BY <1>2, <1>6 DEF IsFirst, IsLast

\* What an operand is normalized to depends on what trimming leaves of it.
LEMMA OperandIsMeant ==
    ASSUME NEW q \in Quotes, NEW u \in Text, IsUnquoted(u), NEW A, A = Quoted(q, u),
           NEW s, TrimOf(Whitespace, s) = TrimOf(Whitespace, A)
    PROVE  A \in Text /\ NormalizeOperand(s) = Meant(q, u)
<1>1. CASE q = <<>>
  <2>1. A = u
    <3>1. PICK e : e = <<>> /\ q = e /\ u \o e = u /\ e \o u = u
      BY <1>1, NothingIsNeutral
    <3> QED
      BY <3>1 DEF Quoted
  <2>2. PICK t : t = TrimOf(Whitespace, u) /\ t \in Text /\ IsUnquoted(t)
    BY TrimmedLacks DEF IsUnquoted
  <2>3. TrimOf({SingleQuote}, TrimOf({DoubleQuote}, Quoted(q, t))) = t
    BY <2>2, QuotesAreTaken
  <2>4. Quoted(q, t) = t
    <3>1. PICK e : e = <<>> /\ q = e /\ t \o e = t /\ e \o t = t
      BY <1>1, <2>2, NothingIsNeutral
    <3> QED
      BY <3>1 DEF Quoted
  <2> QED
    BY <1>1, <2>1, <2>2, <2>3, <2>4 DEF NormalizeOperand, Meant
<1>2. CASE q # <<>>
  <2>1. A \in Text /\ IsTrimmed(Whitespace, A)
    BY <1>2, QuotedEnds DEF IsTrimmed
  <2>2. PICK e : e = <<>> /\ e \in Text /\ IsPadding(Whitespace, e)
    BY NothingIsPadding
  <2>3. TrimOf(Whitespace, e \o (A \o e)) = A
    BY ONLY <2>1, <2>2, PaddingIsTrimmed
  <2>4. e \o (A \o e) = A
    <3>1. A \o e = A /\ e \o A = A
      BY <2>1, <2>2, NothingIsNeutral
    <3> QED
      BY <3>1
  <2>5. TrimOf({SingleQuote}, TrimOf({DoubleQuote}, A)) = u
    BY QuotesAreTaken
  <2> QED
    BY <1>2, <2>1, <2>3, <2>4, <2>5 DEF NormalizeOperand, Meant
<1> QED
  BY <1>1, <1>2

\* What is left of one side of a comparison, when the whitespace at that end of the
\* condition is gone; `blank` says whether there is a blank at the operator.
IsSide(s, blank, q, u, b) ==
    /\ s \in Text
    /\ NormalizeOperand(s) = Meant(q, u)
    /\ \A c \in Operators : Lacks(u, c) => Lacks(s, c)
    /\ blank => b # <<>> \/ (q = <<>> /\ Blank \in Range(u))
    /\ b # <<>> /\ (q # <<>> \/ Meant(q, u) # <<>>) => blank

\* A text of whitespace only is normalized to nothing, and is not quoted.
LEMMA PaddingMeansNothing ==
    ASSUME NEW x \in Text, IsPadding(Whitespace, x)
    PROVE  TrimOf(Whitespace, x) = <<>> /\ (x # <<>> => x[1] \in Whitespace /\ x[Len(x)] \in Whitespace)
<1>1. PICK e : e = <<>> /\ e \in Text /\ IsTrimmed(Whitespace, e) /\ TrimOf(Whitespace, e) = e
  BY NothingIsPadding
<1>2. TrimOf(Whitespace, x \o e) = TrimOf(Whitespace, e)
  BY <1>1, NothingIsPadding, PaddingIsIgnored
<1>3. x \o e = x
  BY <1>1, NothingIsNeutral
<1>4. x # <<>> => 1 \in 1..Len(x) /\ Len(x) \in 1..Len(x)
  BY TextShape
<1> QED
  BY <1>1, <1>2, <1>3, <1>4 DEF IsPadding

\* A blank at the end of an operand is one of its tokens.
LEMMA EndIsInRange ==
    ASSUME NEW s \in Text, NEW c, IsFirst(s, c) \/ IsLast(s, c)
    PROVE  c \in Range(s)
<1>1. s # <<>> /\ DOMAIN s = 1..Len(s)
  BY TextShape DEF IsFirst, IsLast
<1>2. 1 \in DOMAIN s /\ Len(s) \in DOMAIN s
  BY <1>1, TextShape
<1> QED
  BY <1>2 DEF Range, IsFirst, IsLast

\* The left side.
LEMMA LeftSide ==
    ASSUME NEW q \in Quotes, NEW u \in Text, IsUnquoted(u), NEW b \in Blanks,
           NEW p \in Text, IsPadding(Whitespace, p), NEW s \in Text,
           NEW A, A = Quoted(q, u), NEW X, X = A \o b, X = p \o s
    PROVE  IsSide(s, IsLast(s, Blank), q, u, b)
<1>1. b \in Text /\ IsPadding(Whitespace, b)
  BY BlanksArePadding
<1>2. A \in Text
  BY OperandIsMeant
<1>3. TrimOf(Whitespace, X) = TrimOf(Whitespace, A)
  <2>1. TrimOf(Whitespace, A \o b) = TrimOf(Whitespace, A)
    BY ONLY <1>1, <1>2, PaddingIsIgnored
  <2> QED
    BY <2>1
<1>4. TrimOf(Whitespace, X) = TrimOf(Whitespace, s)
  BY NothingIsPadding, PaddingIsIgnored
<1>5. NormalizeOperand(s) = Meant(q, u)
  BY <1>3, <1>4, OperandIsMeant
<1>6. ASSUME NEW c \in Operators, Lacks(u, c)
      PROVE  Lacks(s, c)
  <2>1. Lacks(X, c)
    BY <1>6, QuotedLacks
  <2> QED
    BY <2>1, PartsLack
<1>7. ASSUME IsLast(s, Blank), b = <<>>
      PROVE  q = <<>> /\ Blank \in Range(u)
  <2>1. X = A
    BY <1>2, <1>7, NothingIsNeutral
  <2>2. s # <<>>
    BY <1>7 DEF IsLast
  <2>3. IsLast(A, Blank)
    BY <1>7, <2>1, <2>2, EndsOfConcat
  <2>4. q = <<>>
    BY <2>3, QuotedEnds
  <2>5. A = u
    <3>1. PICK e : e = <<>> /\ q = e /\ u \o e = u /\ e \o u = u
      BY <2>4, NothingIsNeutral
    <3> QED
      BY <3>1 DEF Quoted
  <2> QED
    BY <2>3, <2>4, <2>5, EndIsInRange
<1>8. ASSUME b # <<>>, q # <<>> \/ Meant(q, u) # <<>>
      PROVE  IsLast(s, Blank)
  <2>1. IsLast(b, Blank)
    <3>1. PICK c : c = <<Blank>> /\ b = c
      BY <1>8 DEF Blanks
    <3>2. Len(c) = 1 /\ c[1] = Blank
      BY <3>1
    <3> QED
      BY <3>1, <3>2 DEF IsLast
  <2>2. IsLast(X, Blank)
    BY <1>1, <1>2, <1>8, <2>1, EndsOfConcat
  <2>3. s # <<>>
    <3> SUFFICES ASSUME s = <<>> PROVE FALSE
      OBVIOUS
    <3>1. X = p
      BY NothingIsNeutral
    <3>2. TrimOf(Whitespace, X) = <<>>
      BY <3>1, PaddingMeansNothing
    <3>3. CASE q = <<>>
      <4>1. Meant(q, u) = TrimOf(Whitespace, u)
        BY <3>3 DEF Meant
      <4>2. A = u
        <5>1. PICK e : e = <<>> /\ q = e /\ u \o e = u /\ e \o u = u
          BY <3>3, NothingIsNeutral
        <5> QED
          BY <5>1 DEF Quoted
      <4> QED
        BY <1>3, <1>8, <3>2, <3>3, <4>1, <4>2
    <3>4. CASE q # <<>>
      <4>1. A # <<>> /\ A[1] \notin Whitespace
        BY <3>4, QuotedEnds
      <4>2. X # <<>> /\ X[1] = A[1]
        <5>1. PICK c : c = A[1]
          OBVIOUS
        <5>2. IsFirst(A, c)
          BY <4>1, <5>1 DEF IsFirst
        <5>3. IsFirst(X, c)
          BY <1>1, <1>2, <4>1, <5>2, EndsOfConcat
        <5> QED
          BY <5>1, <5>3 DEF IsFirst
      <4> QED
        BY <3>1, <4>1, <4>2, PaddingMeansNothing
    <3> QED
      BY <3>3, <3>4
  <2> QED
    BY <2>2, <2>3, EndsOfConcat
<1> QED
  BY <1>5, <1>6, <1>7, <1>8 DEF IsSide

\* The right side.
LEMMA RightSide ==
    ASSUME NEW q \in Quotes, NEW u \in Text, IsUnquoted(u), NEW b \in Blanks,
           NEW p \in Text, IsPadding(Whitespace, p), NEW s \in Text,
           NEW A, A = Quoted(q, u), NEW X, X = b \o A, X = s \o p
    PROVE  IsSide(s, IsFirst(s, Blank), q, u, b)
<1>1. b \in Text /\ IsPadding(Whitespace, b)
  BY BlanksArePadding
<1>2. A \in Text
  BY OperandIsMeant
<1>3. TrimOf(Whitespace, X) = TrimOf(Whitespace, A)
  <2>1. TrimOf(Whitespace, b \o A) = TrimOf(Whitespace, A)
    BY ONLY <1>1, <1>2, PaddingIsIgnored
  <2> QED
    BY <2>1
<1>4. TrimOf(Whitespace, X) = TrimOf(Whitespace, s)
  BY NothingIsPadding, PaddingIsIgnored
<1>5. NormalizeOperand(s) = Meant(q, u)
  BY <1>3, <1>4, OperandIsMeant
<1>6. ASSUME NEW c \in Operators, Lacks(u, c)
      PROVE  Lacks(s, c)
  <2>1. Lacks(X, c)
    BY <1>6, QuotedLacks
  <2> QED
    BY <2>1, PartsLack
<1>7. ASSUME IsFirst(s, Blank), b = <<>>
      PROVE  q = <<>> /\ Blank \in Range(u)
  <2>1. X = A
    BY <1>2, <1>7, NothingIsNeutral
  <2>2. s # <<>>
    BY <1>7 DEF IsFirst
  <2>3. IsFirst(A, Blank)
    BY <1>7, <2>1, <2>2, EndsOfConcat
  <2>4. q = <<>>
    BY <2>3, QuotedEnds
  <2>5. A = u
    <3>1. PICK e : e = <<>> /\ q = e /\ u \o e = u /\ e \o u = u
      BY <2>4, NothingIsNeutral
    <3> QED
      BY <3>1 DEF Quoted
  <2> QED
    BY <2>3, <2>4, <2>5, EndIsInRange
<1>8. ASSUME b # <<>>, q # <<>> \/ Meant(q, u) # <<>>
      PROVE  IsFirst(s, Blank)
  <2>1. IsFirst(b, Blank)
    <3>1. PICK c : c = <<Blank>> /\ b = c
      BY <1>8 DEF Blanks
    <3>2. Len(c) = 1 /\ c[1] = Blank
      BY <3>1
    <3> QED
      BY <3>1, <3>2 DEF IsFirst
  <2>2. IsFirst(X, Blank)
    BY <1>1, <1>2, <1>8, <2>1, EndsOfConcat
  <2>3. s # <<>>
    <3> SUFFICES ASSUME s = <<>> PROVE FALSE
      OBVIOUS
    <3>1. X = p
      BY NothingIsNeutral
    <3>2. TrimOf(Whitespace, X) = <<>>
      BY <3>1, PaddingMeansNothing
    <3>3. CASE q = <<>>
      <4>1. Meant(q, u) = TrimOf(Whitespace, u)
        BY <3>3 DEF Meant
      <4>2. A = u
        <5>1. PICK e : e = <<>> /\ q = e /\ u \o e = u /\ e \o u = u
          BY <3>3, NothingIsNeutral
        <5> QED
          BY <5>1 DEF Quoted
      <4> QED
        BY <1>3, <1>8, <3>2, <3>3, <4>1, <4>2
    <3>4. CASE q # <<>>
      <4>1. A # <<>> /\ A[Len(A)] \notin Whitespace
        BY <3>4, QuotedEnds
      <4>2. X # <<>> /\ X[Len(X)] = A[Len(A)]
        <5>1. PICK c : c = A[Len(A)]
          OBVIOUS
        <5>2. IsLast(A, c)
          BY <4>1, <5>1 DEF IsLast
        <5>3. IsLast(X, c)
          BY <1>1, <1>2, <4>1, <5>2, EndsOfConcat
        <5> QED
          BY <5>1, <5>3 DEF IsLast
      <4> QED
        BY <3>1, <4>1, <4>2, PaddingMeansNothing
    <3> QED
      BY <3>3, <3>4
  <2> QED
    BY <2>2, <2>3, EndsOfConcat
<1> QED
  BY <1>5, <1>6, <1>7, <1>8 DEF IsSide

\* A text and the blank at its end, if there is one.
LEMMA BlankBefore ==
    ASSUME NEW x \in Text
    PROVE  \E A \in Text, d \in Blanks : x = A \o d /\ (IsLast(x, Blank) <=> d # <<>>)
<1>1. CASE IsLast(x, Blank)
  <2>1. PICK c : c = <<Blank>>
    OBVIOUS
  <2>2. c \in Text /\ c \in Blanks /\ Len(c) = 1 /\ c[1] = Blank /\ c # <<>>
    <3>1. c \in Blanks
      BY <2>1 DEF Blanks
    <3> QED
      BY <2>1, <3>1, QuotesAreTexts
  <2>3. PICK m : m \in Nat /\ Len(x) = m + 1 /\ x[m + 1] = Blank
    <3>1. Len(x) \in Nat /\ Len(x) >= 1 /\ x[Len(x)] = Blank
      BY <1>1, TextShape DEF IsLast
    <3>2. Len(x) - 1 \in Nat /\ Len(x) = (Len(x) - 1) + 1
      BY <3>1
    <3> QED
      BY <3>1, <3>2
  <2>4. PICK A : A \in Text /\ Len(A) = m /\ \A i \in 1..m : A[i] = x[i]
    <3>1. CASE m = 0
      <4>1. PICK e : e \in Text /\ e = <<>> /\ Len(e) = 0
        BY NothingIsPadding
      <4> QED
        BY <3>1, <4>1
    <3>2. CASE m # 0
      <4>1. 1 \in 1..Len(x) /\ m \in 1..Len(x) /\ m - 1 + 1 = m
        BY <2>3, <3>2
      <4>2. /\ SubSeq(x, 1, m) \in Seq(Tokens) /\ Len(SubSeq(x, 1, m)) = m - 1 + 1
            /\ \A i \in 1..m - 1 + 1 : SubSeq(x, 1, m)[i] = x[1 + i - 1]
        BY <4>1, PartByElement
      <4>3. \A i \in 1..m : 1 + i - 1 = i
        BY <2>3
      <4> QED
        BY <4>1, <4>2, <4>3 DEF Text
    <3> QED
      BY <3>1, <3>2
  <2>5. PICK z : z = A \o c
    OBVIOUS
  <2>6. /\ z \in Text /\ Len(z) = m + 1
        /\ \A i \in 1..m : z[i] = A[i]
        /\ z[m + 1] = Blank
    <3>1. /\ A \o c \in Text /\ Len(A \o c) = Len(A) + Len(c)
          /\ \A i \in 1..Len(A) : (A \o c)[i] = A[i]
          /\ \A i \in 1..Len(c) : (A \o c)[Len(A) + i] = c[i]
      BY <2>2, <2>4, ConcatElements
    <3>2. 1 \in 1..Len(c)
      BY <2>2
    <3> QED
      BY <2>2, <2>4, <2>5, <3>1, <3>2
  <2>7. x = z
    <3>1. x \in Seq(Tokens) /\ z \in Seq(Tokens) /\ Len(x) = Len(z)
      BY <2>3, <2>6 DEF Text
    <3>2. ASSUME NEW i \in 1..Len(x) PROVE x[i] = z[i]
      <4>1. i \in 1..m \/ i = m + 1
        BY <2>3
      <4> QED
        BY <2>3, <2>4, <2>6, <4>1
    <3> QED
      BY ONLY <3>1, <3>2, SeqEqual
  <2> QED
    BY <1>1, <2>2, <2>4, <2>5, <2>7
<1>2. CASE ~IsLast(x, Blank)
  <2>1. PICK e : e = <<>> /\ x \o e = x
    BY NothingIsNeutral
  <2>2. e \in Blanks
    BY <2>1 DEF Blanks
  <2> QED
    BY <1>2, <2>1, <2>2
<1> QED
  BY <1>1, <1>2

\* A text and the blank it begins with, if it does.
LEMMA BlankAfter ==
    ASSUME NEW y \in Text
    PROVE  \E e \in Blanks, B \in Text : y = e \o B /\ (IsFirst(y, Blank) <=> e # <<>>)
<1>1. CASE IsFirst(y, Blank)
  <2>1. PICK c : c = <<Blank>>
    OBVIOUS
  <2>2. c \in Text /\ c \in Blanks /\ Len(c) = 1 /\ c[1] = Blank /\ c # <<>>
    <3>1. c \in Blanks
      BY <2>1 DEF Blanks
    <3> QED
      BY <2>1, <3>1, QuotesAreTexts
  <2>3. PICK m : m \in Nat /\ Len(y) = m + 1 /\ y[1] = Blank
    <3>1. Len(y) \in Nat /\ Len(y) >= 1 /\ y[1] = Blank
      BY <1>1, TextShape DEF IsFirst
    <3>2. Len(y) - 1 \in Nat /\ Len(y) = (Len(y) - 1) + 1
      BY <3>1
    <3> QED
      BY <3>1, <3>2
  <2>4. PICK B : B \in Text /\ Len(B) = m /\ \A i \in 1..m : B[i] = y[i + 1]
    <3>1. CASE m = 0
      <4>1. PICK e : e \in Text /\ e = <<>> /\ Len(e) = 0
        BY NothingIsPadding
      <4> QED
        BY <3>1, <4>1
    <3>2. CASE m # 0
      <4>1. PICK k : k = m + 1
        OBVIOUS
      <4>2. k \in 2..Len(y) /\ k - 2 + 1 = m
        BY <2>3, <3>2, <4>1
      <4>3. /\ SubSeq(y, 2, k) \in Seq(Tokens) /\ Len(SubSeq(y, 2, k)) = k - 2 + 1
            /\ \A i \in 1..k - 2 + 1 : SubSeq(y, 2, k)[i] = y[2 + i - 1]
        <5>1. 2 \in 1..Len(y)
          BY <2>3, <3>2
        <5> QED
          BY <4>2, <5>1, PartByElement
      <4>4. \A i \in 1..m : 2 + i - 1 = i + 1
        BY <2>3
      <4> QED
        BY <4>2, <4>3, <4>4 DEF Text
    <3> QED
      BY <3>1, <3>2
  <2>5. PICK z : z = c \o B
    OBVIOUS
  <2>6. /\ z \in Text /\ Len(z) = 1 + m
        /\ z[1] = Blank
        /\ \A i \in 1..m : z[1 + i] = B[i]
    <3>1. /\ c \o B \in Text /\ Len(c \o B) = Len(c) + Len(B)
          /\ \A i \in 1..Len(c) : (c \o B)[i] = c[i]
          /\ \A i \in 1..Len(B) : (c \o B)[Len(c) + i] = B[i]
      BY <2>2, <2>4, ConcatElements
    <3>2. 1 \in 1..Len(c)
      BY <2>2
    <3> QED
      BY <2>2, <2>4, <2>5, <3>1, <3>2
  <2>7. y = z
    <3>1. y \in Seq(Tokens) /\ z \in Seq(Tokens) /\ Len(y) = Len(z)
      BY <2>3, <2>6 DEF Text
    <3>2. ASSUME NEW i \in 1..Len(y) PROVE y[i] = z[i]
      <4>1. CASE i = 1
        BY <2>3, <2>6, <4>1
      <4>2. CASE i # 1
        <5>1. PICK j \in 1..m : i = j + 1 /\ i = 1 + j
          <6>1. i - 1 \in 1..m /\ i = i - 1 + 1 /\ i = 1 + (i - 1)
            BY <2>3, <4>2
          <6> QED
            BY <6>1
        <5> QED
          BY <2>4, <2>6, <5>1
      <4> QED
        BY <4>1, <4>2
    <3> QED
      BY ONLY <3>1, <3>2, SeqEqual
  <2> QED
    BY <1>1, <2>2, <2>4, <2>5, <2>7
<1>2. CASE ~IsFirst(y, Blank)
  <2>1. PICK e : e = <<>> /\ e \o y = y
    BY NothingIsNeutral
  <2>2. e \in Blanks
    BY <2>1 DEF Blanks
  <2> QED
    BY <1>2, <2>1, <2>2
<1> QED
  BY <1>1, <1>2

\* The elements of two texts around a token.
LEMMA AroundElements ==
    ASSUME NEW x \in Text, NEW o \in Tokens, NEW y \in Text
    PROVE  IsAround(Padded(x, <<o>>, y), x, o, y)
<1>1. PICK w, c : c = <<o>> /\ w = c \o y
  OBVIOUS
<1>2. c \in Text /\ Len(c) = 1 /\ c[1] = o
  BY <1>1 DEF Text
<1>3. PICK m \in Nat, n \in Nat : m = Len(x) /\ n = Len(y)
  BY TextShape
<1>4. w \in Text /\ Len(w) = 1 + n /\ w[1] = o /\ \A i \in 1..n : w[1 + i] = y[i]
  <2>1. /\ c \o y \in Text /\ Len(c \o y) = Len(c) + Len(y)
        /\ \A i \in 1..Len(c) : (c \o y)[i] = c[i]
        /\ \A i \in 1..Len(y) : (c \o y)[Len(c) + i] = y[i]
    BY <1>2, ConcatElements
  <2>2. 1 \in 1..Len(c)
    BY <1>2
  <2> QED
    BY <1>1, <1>2, <1>3, <2>1, <2>2
<1>5. PICK z : z = x \o w
  OBVIOUS
<1>6. /\ z \in Text /\ Len(z) = m + (1 + n)
      /\ \A i \in 1..m : z[i] = x[i]
      /\ \A i \in 1..1 + n : z[m + i] = w[i]
  <2>1. /\ x \o w \in Text /\ Len(x \o w) = Len(x) + Len(w)
        /\ \A i \in 1..Len(x) : (x \o w)[i] = x[i]
        /\ \A i \in 1..Len(w) : (x \o w)[Len(x) + i] = w[i]
    BY <1>4, ConcatElements
  <2> QED
    BY <1>3, <1>4, <1>5, <2>1
<1>7. z[m + 1] = o
  <2>1. 1 \in 1..1 + n
    BY <1>3
  <2> QED
    BY <1>4, <1>6, <2>1
<1>8. ASSUME NEW i \in 1..n PROVE z[m + 1 + i] = y[i]
  <2>1. 1 + i \in 1..1 + n /\ m + 1 + i = m + (1 + i)
    BY <1>3
  <2>2. z[m + (1 + i)] = w[1 + i]
    BY <1>6, <2>1
  <2> QED
    BY <1>4, <2>1, <2>2
<1>9. z = Padded(x, <<o>>, y)
  BY <1>1, <1>5 DEF Padded
<1> QED
  BY <1>3, <1>6, <1>7, <1>8, <1>9 DEF IsAround

\* The operands of a comparison are found, whatever is around the operator.
LEMMA OperandsAreFound ==
    ASSUME NEW x \in Text, NEW o \in Operators, NEW y \in Text, Lacks(x, o), Lacks(y, o),
           NEW z, z = Padded(x, <<o>>, y)
    PROVE  /\ Operands(o, z)[1] = NormalizeOperand(x) /\ Operands(o, z)[2] = NormalizeOperand(y)
           /\ Positions(<<Blank, o, Blank>>, z) # {} <=> IsLast(x, Blank) /\ IsFirst(y, Blank)
<1>1. PICK A \in Text, d \in Blanks : x = A \o d /\ (IsLast(x, Blank) <=> d # <<>>)
  BY BlankBefore
<1>2. PICK e \in Blanks, B \in Text : y = e \o B /\ (IsFirst(y, Blank) <=> e # <<>>)
  BY BlankAfter
<1>3. o \in Tokens /\ o # Blank
  BY MarksAreTokens DEF Operators, Marks
<1>4. IsAround(z, x, o, y)
  BY <1>3, AroundElements
<1>5. PICK m \in Nat, n \in Nat : m = Len(x) /\ n = Len(y)
  BY <1>4 DEF IsAround
<1>6. /\ z \in Text /\ Len(z) = m + (1 + n)
      /\ \A i \in 1..m : z[i] = x[i]
      /\ \A i \in 1..n : z[m + 1 + i] = y[i]
  BY <1>4, <1>5 DEF IsAround
<1>7. /\ \A i \in 1..Len(z) : z[i] = o <=> i = m + 1
      /\ Positions(<<o>>, z) = {m + 1}
      /\ SubSeq(z, 1, m) = x /\ SubSeq(z, m + 2, Len(z)) = y
  <2>1. IsSplit(z, x, o, y)
    BY ONLY <1>3, <1>4, Lacks(x, o), Lacks(y, o), ComparisonIsSplit
  <2> QED
    BY ONLY <1>5, <2>1 DEF IsSplit
<1>8. /\ m > 0 /\ x[m] = Blank <=> d # <<>>
      /\ n > 0 /\ y[1] = Blank <=> e # <<>>
      /\ d # <<>> => m = Len(A) + 1
      /\ e # <<>> => n = 1 + Len(B) /\ \A i \in 1..Len(B) : y[1 + i] = B[i]
  <2>1. (x = <<>> <=> m = 0) /\ (y = <<>> <=> n = 0)
    BY <1>5, TextShape
  <2>2. /\ m > 0 /\ x[m] = Blank <=> d # <<>>
        /\ n > 0 /\ y[1] = Blank <=> e # <<>>
    BY <1>1, <1>2, <1>5, <2>1 DEF IsFirst, IsLast
  <2>3. d \in Text /\ e \in Text
    BY QuotesAreTexts
  <2>4. (d # <<>> => Len(d) = 1) /\ (e # <<>> => Len(e) = 1)
    BY DEF Blanks
  <2>5. Len(A \o d) = Len(A) + Len(d)
    BY <2>3, ConcatElements
  <2>6. Len(e \o B) = Len(e) + Len(B) /\ \A i \in 1..Len(B) : (e \o B)[Len(e) + i] = B[i]
    BY <2>3, ConcatElements
  <2> QED
    BY <1>1, <1>2, <1>5, <2>2, <2>4, <2>5, <2>6
<1>9. NormalizeOperand(A) = NormalizeOperand(x) /\ NormalizeOperand(B) = NormalizeOperand(y)
  <2>1. d \in Text /\ IsPadding(Whitespace, d) /\ e \in Text /\ IsPadding(Whitespace, e)
    BY BlanksArePadding
  <2>2. TrimOf(Whitespace, A \o d) = TrimOf(Whitespace, A)
    BY ONLY <2>1, A \in Text, PaddingIsIgnored
  <2>3. TrimOf(Whitespace, e \o B) = TrimOf(Whitespace, B)
    BY ONLY <2>1, B \in Text, PaddingIsIgnored
  <2> QED
    BY <1>1, <1>2, <2>2, <2>3 DEF NormalizeOperand
<1> DEFINE l == NormalizeOperand(x)
           r == NormalizeOperand(y)
           spaced == Positions(<<Blank, o, Blank>>, z)
<1>10. spaced = {i \in 1..m + (1 + n) - 2 : z[i] = Blank /\ z[i + 1] = o /\ z[i + 2] = Blank}
  BY <1>6, PositionsOfThree
<1>11. CASE d # <<>> /\ e # <<>>
  <2>1. m \in spaced
    <3>1. /\ m \in 1..m + (1 + n) - 2 /\ m + 1 \in 1..m + (1 + n) /\ m \in 1..m
          /\ 1 \in 1..n /\ m + 1 + 1 = m + 2
      BY <1>5, <1>8, <1>11
    <3>2. z[m] = Blank /\ z[m + 1] = o /\ z[m + 2] = Blank
      <4>1. z[m] = x[m]
        BY <1>6, <3>1
      <4>2. z[m + 1 + 1] = y[1]
        BY <1>6, <3>1
      <4> QED
        BY <1>6, <1>7, <1>8, <1>11, <3>1, <4>1, <4>2
    <3> QED
      BY <1>10, <3>1, <3>2
  <2>2. \A i \in spaced : i = m
    <3> SUFFICES ASSUME NEW i \in spaced PROVE i = m
      OBVIOUS
    <3>1. i \in Int /\ i + 1 \in 1..m + (1 + n) /\ z[i + 1] = o
      BY <1>5, <1>10
    <3>2. i + 1 = m + 1
      BY <1>6, <1>7, <3>1
    <3> QED
      BY <1>5, <3>1, <3>2
  <2>3. spaced = {m}
    BY <2>1, <2>2
  <2>4. Min(spaced) = m
    BY <1>5, <2>3 DEF Min
  <2>5. PICK a \in Nat, b \in Nat : a = Len(A) /\ b = Len(B)
    BY TextShape
  <2>6. SubSeq(z, 1, m - 1) = A
    <3>1. /\ 0 \in Nat /\ 0 + a <= m + (1 + n) /\ 0 + 1 = 1 /\ 0 + a = m - 1
      BY <1>5, <1>8, <1>11, <2>5
    <3>2. \A i \in 1..a : z[0 + i] = A[i]
      <4> SUFFICES ASSUME NEW i \in 1..a PROVE z[0 + i] = A[i]
        OBVIOUS
      <4>1. 0 + i = i /\ i \in 1..m
        BY <1>5, <1>8, <1>11, <2>5
      <4>2. x[i] = A[i]
        <5>1. d \in Text
          BY QuotesAreTexts
        <5>2. \A j \in 1..Len(A) : (A \o d)[j] = A[j]
          BY <1>2, <5>1, ConcatElements
        <5> QED
          BY <1>1, <2>5, <5>2
      <4> QED
        BY <1>6, <4>1, <4>2
    <3>3. SubSeq(z, 0 + 1, 0 + Len(A)) = A
      <4>1. /\ z \in Text /\ A \in Text /\ 0 \in Nat /\ 0 + Len(A) <= Len(z)
            /\ \A i \in 1..Len(A) : z[0 + i] = A[i]
        BY <1>2, <1>6, <2>5, <3>1, <3>2
      <4> QED
        BY ONLY <4>1, PartIsThatText
    <3> QED
      BY <2>5, <3>1, <3>3
  <2>7. SubSeq(z, m + 3, Len(z)) = B
    <3>1. /\ m + 2 \in Nat /\ (m + 2) + b <= m + (1 + n) /\ (m + 2) + 1 = m + 3
          /\ (m + 2) + b = m + (1 + n)
      <4>1. n = 1 + b
        BY <1>8, <1>11, <2>5
      <4> QED
        BY <4>1
    <3>2. \A i \in 1..b : z[(m + 2) + i] = B[i]
      <4> SUFFICES ASSUME NEW i \in 1..b PROVE z[(m + 2) + i] = B[i]
        OBVIOUS
      <4>1. 1 + i \in 1..n /\ (m + 2) + i = m + 1 + (1 + i)
        BY <1>5, <1>8, <1>11, <2>5
      <4>2. z[m + 1 + (1 + i)] = y[1 + i]
        BY <1>6, <4>1
      <4> QED
        BY <1>8, <1>11, <2>5, <4>1, <4>2
    <3>3. SubSeq(z, (m + 2) + 1, (m + 2) + Len(B)) = B
      <4>1. /\ z \in Text /\ B \in Text /\ m + 2 \in Nat /\ (m + 2) + Len(B) <= Len(z)
            /\ \A i \in 1..Len(B) : z[(m + 2) + i] = B[i]
        BY <1>2, <1>6, <2>5, <3>1, <3>2
      <4> QED
        BY ONLY <4>1, PartIsThatText
    <3> QED
      BY <1>6, <2>5, <3>1, <3>3
  <2>8. Operands(o, z) = <<NormalizeOperand(SubSeq(z, 1, m - 1)),
                           NormalizeOperand(SubSeq(z, m + 3, Len(z)))>>
    BY <2>3, <2>4 DEF Operands
  <2>9. Operands(o, z) = <<l, r>>
    BY <1>9, <2>6, <2>7, <2>8
  <2>10. spaced # {}
    BY <2>1
  <2> HIDE DEF spaced
  <2>11. Operands(o, z)[1] = l /\ Operands(o, z)[2] = r
    BY ONLY <2>9
  <2> QED
    BY <1>1, <1>2, <1>11, <2>10, <2>11 DEF spaced
<1>12. CASE ~(d # <<>> /\ e # <<>>)
  <2>1. spaced = {}
    <3> SUFFICES ASSUME NEW i \in spaced PROVE FALSE
      OBVIOUS
    <3>1. i \in 1..m + (1 + n) - 2 /\ z[i] = Blank /\ z[i + 1] = o /\ z[i + 2] = Blank
      BY <1>10
    <3>2. i + 1 \in 1..m + (1 + n)
      BY <1>5, <3>1
    <3>3. i + 1 = m + 1
      BY <1>6, <1>7, <3>1, <3>2
    <3>4. i = m /\ m \in 1..m /\ 1 \in 1..n /\ m + 1 + 1 = m + 2 /\ m > 0 /\ n > 0
      BY <1>5, <3>1, <3>3
    <3>5. z[m] = x[m]
      BY <1>6, <3>4
    <3>6. z[m + 1 + 1] = y[1]
      BY <1>6, <3>4
    <3> QED
      BY <1>8, <1>12, <3>1, <3>4, <3>5, <3>6
  <2>2. Min(Positions(<<o>>, z)) = m + 1
    BY <1>5, <1>7 DEF Min
  <2>3. /\ m + 1 - 1 = m /\ m + 1 + 1 = m + 2
    BY <1>5
  <2>4. Operands(o, z) = <<NormalizeOperand(SubSeq(z, 1, m + 1 - 1)),
                           NormalizeOperand(SubSeq(z, m + 1 + 1, Len(z)))>>
    BY <2>1, <2>2 DEF Operands
  <2>5. Operands(o, z) = <<l, r>>
    BY <1>7, <2>3, <2>4
  <2> HIDE DEF spaced
  <2>6. Operands(o, z)[1] = l /\ Operands(o, z)[2] = r
    BY ONLY <2>5
  <2> QED
    BY <1>1, <1>2, <1>12, <2>1, <2>6 DEF spaced
<1> QED
  BY <1>11, <1>12

\* What is to be said of a comparison.
IsVerdict(said, q, u, b, o, v) ==
    /\ o = "==" => said = (Meant(q, u) = Meant(q, v))
    /\ o = "!=" => said = (Meant(q, u) # Meant(q, v))
    /\ o = "contains" =>
          /\ said => b # <<>> \/ (q = <<>> /\ Blank \in Range(u) /\ Blank \in Range(v))
          /\ b # <<>> /\ (q # <<>> \/ (Meant(q, u) # <<>> /\ Meant(q, v) # <<>>)) =>
                said = (Meant(q, v) = <<>> \/ Positions(Meant(q, v), Meant(q, u)) # {})

\* What is left of a comparison when whitespace is trimmed off the condition.
IsCore(z, T, q, u, b, o, v) ==
    \E s, w \in Text : /\ TrimOf(Whitespace, T) = z /\ z = Padded(s, <<o>>, w)
                       /\ IsSide(s, IsLast(s, Blank), q, u, b)
                       /\ IsSide(w, IsFirst(w, Blank), q, v, b)

\* Trimming leaves both sides.
LEMMA ComparisonIsTrimmed ==
    ASSUME NEW q \in Quotes, NEW u \in Text, IsUnquoted(u), NEW v \in Text, IsUnquoted(v),
           NEW b \in Blanks, NEW o \in Operators,
           NEW T, T = Around(Quoted(q, u), b, o, b, Quoted(q, v))
    PROVE  \E z : IsCore(z, T, q, u, b, o, v)
<1>1. PICK A, B, X, Y, c : /\ A = Quoted(q, u) /\ B = Quoted(q, v)
                           /\ X = A \o b /\ Y = b \o B /\ c = <<o>>
  OBVIOUS
<1>2. o \in Tokens /\ o \notin Whitespace /\ c \in Text
  <2>1. o \in Tokens /\ o \notin Whitespace
    BY MarksAreTokens, WhitespaceIsNoMark DEF Operators, Marks
  <2> QED
    BY <1>1, <2>1 DEF Text
<1>3. X \in Text /\ Y \in Text
  <2>1. A \in Text /\ B \in Text
    BY <1>1, OperandIsMeant
  <2>2. b \in Text
    BY QuotesAreTexts
  <2> QED
    BY <1>1, <2>1, <2>2, ConcatIsText
<1>4. PICK p, s : /\ p \in Text /\ s \in Text /\ X = p \o s /\ IsPadding(Whitespace, p)
                  /\ s # <<>> => s[1] \notin Whitespace
  BY <1>3, PaddingBefore
<1>5. PICK w, r : /\ w \in Text /\ r \in Text /\ Y = w \o r /\ IsPadding(Whitespace, r)
                  /\ w # <<>> => w[Len(w)] \notin Whitespace
  BY <1>3, PaddingAfter
<1>6. IsSide(s, IsLast(s, Blank), q, u, b)
  BY <1>1, <1>4, LeftSide
<1>7. IsSide(w, IsFirst(w, Blank), q, v, b)
  BY <1>1, <1>5, RightSide
<1>8. PICK z : z = Padded(s, c, w)
  OBVIOUS
<1>9. T = Padded(p, z, r)
  <2>1. s \in Text /\ c \in Text /\ w \in Text /\ p \in Text /\ r \in Text
    BY <1>2, <1>4, <1>5
  <2>2. Padded(p, z, r) = Padded(p \o s, c, w \o r)
    BY ONLY <1>8, <2>1, PaddingIsGrouped
  <2>3. T = Padded(X, c, Y)
    BY <1>1 DEF Around, Padded
  <2> QED
    BY <1>4, <1>5, <2>2, <2>3, Zenon
<1>10. IsAround(z, s, o, w)
  BY <1>1, <1>2, <1>4, <1>5, <1>8, AroundElements
<1>11. z \in Text /\ IsTrimmed(Whitespace, z)
  <2>1. PICK m \in Nat, n \in Nat : /\ m = Len(s) /\ (s = <<>> <=> m = 0)
                                    /\ n = Len(w) /\ (w = <<>> <=> n = 0)
    BY <1>4, <1>5, TextShape
  <2>2. /\ z \in Text /\ Len(z) = m + (1 + n)
        /\ \A i \in 1..m : z[i] = s[i]
        /\ z[m + 1] = o
        /\ \A i \in 1..n : z[m + 1 + i] = w[i]
    BY <1>10, <2>1 DEF IsAround
  <2>3. z[1] \notin Whitespace
    <3>1. CASE m = 0
      BY <1>2, <2>2, <3>1
    <3>2. CASE m # 0
      <4>1. 1 \in 1..m
        BY <3>2
      <4> QED
        BY <1>4, <2>1, <2>2, <3>2, <4>1
    <3> QED
      BY <3>1, <3>2
  <2>4. z[m + (1 + n)] \notin Whitespace
    <3>1. CASE n = 0
      <4>1. m + (1 + n) = m + 1
        BY <3>1
      <4> QED
        BY <1>2, <2>2, <4>1
    <3>2. CASE n # 0
      <4>1. n \in 1..n /\ m + (1 + n) = m + 1 + n
        BY <3>2
      <4> QED
        BY <1>5, <2>1, <2>2, <3>2, <4>1
    <3> QED
      BY <3>1, <3>2
  <2> QED
    BY <2>2, <2>3, <2>4 DEF IsTrimmed
<1>12. TrimOf(Whitespace, T) = z
  <2>1. TrimOf(Whitespace, p \o (z \o r)) = z
    BY ONLY <1>4, <1>5, <1>11, PaddingIsTrimmed
  <2>2. TrimOf(Whitespace, Padded(p, z, r)) = z
    BY ONLY <2>1 DEF Padded
  <2> QED
    BY ONLY <1>9, <2>2
<1> QED
  <2>1. z = Padded(s, <<o>>, w)
    BY ONLY <1>1, <1>8
  <2> QED
    BY ONLY <1>4, <1>5, <1>6, <1>7, <1>12, <2>1 DEF IsCore

\* What evaluate_condition says of a comparison.
LEMMA ComparisonIsEvaluated ==
    ASSUME NEW q \in Quotes, NEW u \in Text, IsUnquoted(u), NEW v \in Text, IsUnquoted(v),
           \A c \in Operators : Lacks(u, c) /\ Lacks(v, c),
           NEW b \in Blanks, NEW o \in Operators
    PROVE  IsVerdict(EvaluateCondition(Around(Quoted(q, u), b, o, b, Quoted(q, v))), q, u, b, o, v)
<1>1. PICK T : T = Around(Quoted(q, u), b, o, b, Quoted(q, v))
  OBVIOUS
<1>2. PICK z : IsCore(z, T, q, u, b, o, v)
  BY <1>1, ComparisonIsTrimmed
<1>3. PICK s, w : /\ s \in Text /\ w \in Text
                  /\ TrimOf(Whitespace, T) = z /\ z = Padded(s, <<o>>, w)
                  /\ IsSide(s, IsLast(s, Blank), q, u, b)
                  /\ IsSide(w, IsFirst(w, Blank), q, v, b)
  BY <1>2 DEF IsCore
<1>4. \A c \in Operators : Lacks(s, c) /\ Lacks(w, c)
  BY <1>3 DEF IsSide
<1>5. PICK l, r : l = Meant(q, u) /\ r = Meant(q, v)
  OBVIOUS
<1>6. NormalizeOperand(s) = l /\ NormalizeOperand(w) = r
  BY <1>3, <1>5 DEF IsSide
<1>7. /\ Operands(o, z)[1] = l /\ Operands(o, z)[2] = r
      /\ Positions(<<Blank, o, Blank>>, z) # {} <=> IsLast(s, Blank) /\ IsFirst(w, Blank)
  <2>1. s \in Text /\ w \in Text /\ o \in Operators /\ Lacks(s, o) /\ Lacks(w, o)
        /\ z = Padded(s, <<o>>, w)
    BY <1>3, <1>4
  <2>2. /\ Operands(o, z)[1] = NormalizeOperand(s) /\ Operands(o, z)[2] = NormalizeOperand(w)
        /\ Positions(<<Blank, o, Blank>>, z) # {} <=> IsLast(s, Blank) /\ IsFirst(w, Blank)
    BY ONLY <2>1, OperandsAreFound
  <2> QED
    BY ONLY <1>6, <2>2
<1>8. o \in Tokens
  BY MarksAreTokens DEF Operators, Marks
<1>9. IsAround(z, s, o, w)
  BY <1>3, <1>8, AroundElements
<1>10. o \in Range(z) /\ \A c \in Operators : c # o => c \notin Range(z)
  BY <1>4, <1>8, <1>9, ComparisonIsSplit
<1>11. z # <<>>
  <2>1. Range(<<>>) = {}
    BY DEF Range
  <2> QED
    BY <1>10, <2>1
<1>12. "==" \in Operators /\ "!=" \in Operators /\ "contains" \in Operators
  BY DEF Operators
<1>13. EvaluateCondition(T) =
         CASE z = <<>> -> FALSE
           [] "==" \in Range(z) -> Operands("==", z)[1] = Operands("==", z)[2]
           [] "==" \notin Range(z) /\ "!=" \in Range(z) ->
                 Operands("!=", z)[1] # Operands("!=", z)[2]
           [] "==" \notin Range(z) /\ "!=" \notin Range(z) /\ "contains" \in Range(z) ->
                 /\ Positions(<<Blank, "contains", Blank>>, z) # {}
                 /\ Operands("contains", z)[2] = <<>>
                       \/ Positions(Operands("contains", z)[2], Operands("contains", z)[1]) # {}
           [] OTHER -> z \notin {<<>>, <<DoubleQuote, DoubleQuote>>, <<SingleQuote, SingleQuote>>}
  BY <1>3 DEF EvaluateCondition
<1>14. ASSUME o = "==" PROVE EvaluateCondition(T) = (l = r)
  BY <1>7, <1>10, <1>11, <1>12, <1>13, <1>14
<1>15. ASSUME o = "!=" PROVE EvaluateCondition(T) = (l # r)
  BY <1>7, <1>10, <1>11, <1>12, <1>13, <1>15
<1>16. ASSUME o = "contains"
       PROVE  EvaluateCondition(T) = (/\ IsLast(s, Blank) /\ IsFirst(w, Blank)
                                      /\ r = <<>> \/ Positions(r, l) # {})
  BY <1>7, <1>10, <1>11, <1>12, <1>13, <1>16
<1>17. /\ IsLast(s, Blank) => b # <<>> \/ (q = <<>> /\ Blank \in Range(u))
       /\ b # <<>> /\ (q # <<>> \/ l # <<>>) => IsLast(s, Blank)
       /\ IsFirst(w, Blank) => b # <<>> \/ (q = <<>> /\ Blank \in Range(v))
       /\ b # <<>> /\ (q # <<>> \/ r # <<>>) => IsFirst(w, Blank)
  BY <1>3, <1>5 DEF IsSide
<1>18. IsVerdict(EvaluateCondition(T), q, u, b, o, v)
  BY <1>5, <1>14, <1>15, <1>16, <1>17 DEF IsVerdict
<1> QED
  BY <1>1, <1>18

\* A plain operand holds no operator and no quote.
LEMMA PlainOperandLacks ==
    ASSUME NEW s \in Text, PlainOperand(s)
    PROVE  /\ IsUnquoted(s) /\ \A c \in Operators : Lacks(s, c)
           /\ Blank \notin Range(s) => \A mark \in Marks : Lacks(s, mark)
<1>1. DOMAIN s = 1..Len(s)
  BY LenProperties DEF Text
<1>2. \A mark \in Marks \ {Blank} : mark \notin Range(s)
  BY DEF PlainOperand, Marks
<1>3. \A mark : mark \notin Range(s) => Lacks(s, mark)
  BY <1>1 DEF Range, Lacks
<1>4. Operators \subseteq Marks \ {Blank} /\ {DoubleQuote, SingleQuote} \subseteq Marks \ {Blank}
  BY MarksAreTokens DEF Operators, Marks
<1> QED
  BY <1>2, <1>3, <1>4 DEF IsUnquoted

\* The verdict of a comparison is that of its operands with their variables.
THEOREM ComparisonIsOfItsOperands == Spec => []ComparisonSurvives
<1>1. TextsInv => ComparisonSurvives
  <2> DEFINE condition == request.condition
             first     == Substituted(condition.left, extracted)
             second    == Substituted(condition.right, extracted)
             left      == Meant(condition.quote, first)
             right     == Meant(condition.quote, second)
             compared  == CASE condition.operator = "==" -> verdict = (left = right)
                            [] condition.operator = "!=" -> verdict = (left # right)
                            [] condition.operator = "contains" ->
                                  /\ verdict => \/ condition.spaced
                                                \/ /\ condition.quote = <<>>
                                                   /\ Blank \in Range(first) /\ Blank \in Range(second)
                                  /\ condition.spaced
                                     /\ (condition.quote # <<>> \/ <<>> \notin {left, right}) =>
                                        verdict = (right = <<>> \/ Positions(right, left) # {})
  <2> SUFFICES ASSUME TextsInv, stage = "done", PlainVariables,
                      PlainOperand(first), PlainOperand(second),
                      \A key \in DOMAIN extracted : PlainOperand(key) /\ Blank \notin Range(key)
               PROVE  compared
    BY DEF ComparisonSurvives, Meant
  <2>1. PICK V, q, l, r, o : /\ V = extracted /\ q = condition.quote /\ l = condition.left
                             /\ r = condition.right /\ o = condition.operator
    OBVIOUS
  <2>2. PICK b : b = IF condition.spaced THEN <<Blank>> ELSE <<>>
    OBVIOUS
  <2>3. /\ q \in Quotes /\ l \in Text /\ r \in Text /\ o \in Operators /\ b \in Blanks
        /\ b # <<>> <=> condition.spaced
    <3>1. q \in Quotes /\ l \in Text /\ r \in Text /\ o \in Operators
      BY <2>1, RequestAssumption DEF TextsInv, ExtractInv, IsCall, Quotes, Operators
    <3>2. b \in Blanks /\ (b # <<>> <=> condition.spaced)
      BY <2>2 DEF Blanks
    <3> QED
      BY <3>1, <3>2
  <2>4. IsMap(V) /\ \A key \in DOMAIN V : \A mark \in Marks : Lacks(key, mark)
    <3>1. IsMap(V)
      BY <2>1, VariablesAreTexts DEF TextsInv
    <3> QED
      BY <2>1, <3>1, PlainOperandLacks DEF IsMap
  <2>5. PICK u, v : u = Substituted(l, V) /\ v = Substituted(r, V)
    OBVIOUS
  <2>6. ConditionText(condition) = Around(Quoted(q, l), b, o, b, Quoted(q, r))
    BY <2>1, <2>2 DEF ConditionText, Around, Quoted
  <2>7. text = Substituted(ConditionText(condition), V)
    <3>1. text = Substituted(ConditionText(condition), Only(extracted, DOMAIN extracted \ pending))
      BY DEF TextsInv, SubstituteInv
    <3>2. pending = {} /\ extracted = Only(extracted, DOMAIN extracted)
      BY DEF TextsInv, SubstituteInv, TextInv
    <3>3. DOMAIN extracted \ pending = DOMAIN extracted
      BY <3>2
    <3> QED
      BY <2>1, <3>1, <3>2, <3>3
  <2>8. /\ text = Around(Quoted(q, u), b, o, b, Quoted(q, v))
        /\ u \in Text /\ v \in Text
    <3>1. /\ Substituted(Around(Quoted(q, l), b, o, b, Quoted(q, r)), V)
                = Around(Quoted(q, Substituted(l, V)), b, o, b, Quoted(q, Substituted(r, V)))
          /\ Substituted(l, V) \in Text /\ Substituted(r, V) \in Text
      BY ONLY <2>3, <2>4, ComparisonIsSubstituted
    <3> QED
      BY <2>5, <2>6, <2>7, <3>1
  <2>9. /\ IsUnquoted(u) /\ IsUnquoted(v) /\ \A c \in Operators : Lacks(u, c) /\ Lacks(v, c)
    <3>1. PlainOperand(u) /\ PlainOperand(v)
      BY <2>1, <2>5
    <3> QED
      BY <2>8, <3>1, PlainOperandLacks
  <2>10. verdict = EvaluateCondition(Around(Quoted(q, u), b, o, b, Quoted(q, v)))
    BY <2>8 DEF TextsInv, SubstituteInv
  <2>11. PICK m, n : m = Meant(q, u) /\ n = Meant(q, v)
    OBVIOUS
  <2>12. /\ o = "==" => verdict = (m = n)
         /\ o = "!=" => verdict = (m # n)
         /\ o = "contains" =>
               /\ verdict => b # <<>> \/ (q = <<>> /\ Blank \in Range(u) /\ Blank \in Range(v))
               /\ b # <<>> /\ (q # <<>> \/ (m # <<>> /\ n # <<>>)) =>
                     verdict = (n = <<>> \/ Positions(n, m) # {})
    <3>1. IsVerdict(EvaluateCondition(Around(Quoted(q, u), b, o, b, Quoted(q, v))), q, u, b, o, v)
      BY ONLY <2>3, <2>8, <2>9, ComparisonIsEvaluated
    <3>2. IsVerdict(verdict, q, u, b, o, v)
      BY ONLY <2>10, <3>1
    <3> QED
      BY ONLY <2>11, <3>2 DEF IsVerdict
  <2>13. /\ first = u /\ second = v /\ left = m /\ right = n
         /\ condition.quote = q /\ condition.operator = o
    BY <2>1, <2>5, <2>11
  <2> HIDE DEF left, right, first, second
  <2>14. CASE o = "=="
    BY <2>12, <2>13, <2>14
  <2>15. CASE o = "!="
    BY <2>12, <2>13, <2>15
  <2>16. CASE o = "contains"
    <3>1. verdict => \/ condition.spaced
                     \/ condition.quote = <<>> /\ Blank \in Range(first) /\ Blank \in Range(second)
      BY <2>3, <2>12, <2>13, <2>16
    <3>2. ASSUME condition.spaced, condition.quote # <<>> \/ <<>> \notin {left, right}
          PROVE  verdict = (right = <<>> \/ Positions(right, left) # {})
      BY <2>3, <2>12, <2>13, <2>16, <3>2
    <3> QED
      BY <2>13, <2>16, <3>1, <3>2
  <2> QED
    BY <2>3, <2>14, <2>15, <2>16 DEF Operators
<1> QED
  BY <1>1, TextsAlways, PTL

-----------------------------------------------------------------------------
(***************************************************************************)
(* Paths, and how templates spell them.                                    *)
(***************************************************************************)

\* at[n] is where the first n pieces of t end.
IsLayout(at, p, t) ==
    /\ at[0] = 0 /\ at[Len(p)] = Len(t)
    /\ \A n \in 0..Len(p) : at[n] \in 0..Len(t)
    /\ \A n \in 1..Len(p) : /\ at[n] = at[n - 1] + Len(p[n])
                            /\ \A j \in 1..Len(p[n]) : t[at[n - 1] + j] = p[n][j]

\* Pieces that are joined can be told apart by their places.
LEMMA FlattenHasLayout ==
    ASSUME NEW p \in Seq(Seq(Tokens))
    PROVE  FlattenSeq(p) \in Text /\ \E at : IsLayout(at, p, FlattenSeq(p))
<1>1. PICK N \in Nat : N = Len(p)
  BY LenProperties
<1>2. \A i \in 1..N : p[i] \in Text
  BY <1>1, ElementOfSeq DEF Text
<1>3. PICK f : AreJoined(f, p, N) /\ FlattenSeq(p) = f[N]
  BY <1>1, FlattenIsJoined
<1>4. f[0] = <<>> /\ \A n \in 1..N : f[n] = f[n - 1] \o p[n]
  BY <1>3, JoinedEquations
<1>5. \A n \in 0..N : f[n] \in Text
  BY <1>2, <1>3, JoinsAreSequences DEF Text
<1> DEFINE at == [n \in 0..N |-> Len(f[n])]
<1>6. \A n \in 0..N : at[n] \in Nat /\ at[n] = Len(f[n])
  BY <1>5, LenProperties DEF Text
<1> HIDE DEF at
<1>7. ASSUME NEW n \in 1..N
      PROVE  /\ n - 1 \in 0..N /\ n \in 0..N
             /\ Len(p[n]) \in Nat /\ at[n] = at[n - 1] + Len(p[n])
             /\ \A i \in 1..at[n - 1] : f[n][i] = f[n - 1][i]
             /\ \A j \in 1..Len(p[n]) : f[n][at[n - 1] + j] = p[n][j]
  <2>1. n - 1 \in 0..N /\ n \in 0..N
    OBVIOUS
  <2>2. PICK x \in Text, y \in Text : x = f[n - 1] /\ y = p[n]
    BY <1>2, <1>5, <2>1
  <2>3. f[n] = x \o y
    BY <1>4, <2>2
  <2>4. /\ Len(x) \in Nat /\ Len(y) \in Nat /\ Len(x \o y) = Len(x) + Len(y)
        /\ \A i \in 1..Len(x) : (x \o y)[i] = x[i]
        /\ \A i \in 1..Len(y) : (x \o y)[Len(x) + i] = y[i]
    BY <2>2, ConcatElements
  <2>5. at[n - 1] = Len(x) /\ at[n] = Len(x \o y)
    BY <1>6, <2>1, <2>2, <2>3
  <2> QED
    BY ONLY <2>1, <2>2, <2>3, <2>4, <2>5
<1> DEFINE Placed(k) == \A n \in 1..k : /\ at[n] <= at[k]
                                       /\ \A j \in 1..Len(p[n]) : f[k][at[n - 1] + j] = p[n][j]
<1>8. \A k \in 0..N : Placed(k)
  <2> DEFINE T == {k \in 0..N : ~Placed(k)}
  <2> SUFFICES ASSUME T # {} PROVE FALSE
    OBVIOUS
  <2>1. PICK k \in T : \A m \in T : k <= m
    <3>1. T \in SUBSET Nat
      OBVIOUS
    <3> HIDE DEF T
    <3> QED
      BY <3>1, LeastNat
  <2>2. k \in 1..N
    <3>1. Placed(0)
      OBVIOUS
    <3> HIDE DEF Placed
    <3> QED
      BY <2>1, <3>1
  <2>3. Placed(k - 1)
    <3>1. PICK q \in 0..N : q = k - 1 /\ ~(k <= q)
      BY ONLY N \in Nat, <2>2
    <3>2. ~Placed(q) => q \in T
      BY ONLY <3>1
    <3>3. q \notin T
      <4> HIDE DEF T
      <4> QED
        BY ONLY <2>1, <3>1
    <3> HIDE DEF Placed, T
    <3> QED
      BY ONLY <3>1, <3>2, <3>3
  <2>4. Placed(k)
    <3> SUFFICES ASSUME NEW n \in 1..k
                 PROVE  /\ at[n] <= at[k]
                        /\ \A j \in 1..Len(p[n]) : f[k][at[n - 1] + j] = p[n][j]
      OBVIOUS
    <3>1. /\ k - 1 \in 0..N /\ k \in 0..N /\ Len(p[k]) \in Nat /\ at[k] = at[k - 1] + Len(p[k])
          /\ at[k] \in Nat /\ at[k - 1] \in Nat
          /\ \A i \in 1..at[k - 1] : f[k][i] = f[k - 1][i]
          /\ \A j \in 1..Len(p[k]) : f[k][at[k - 1] + j] = p[k][j]
      BY <1>6, <1>7, <2>2
    <3>2. CASE n = k
      BY <3>1, <3>2
    <3>3. CASE n # k
      <4>1. n \in 1..k - 1 /\ n \in 1..N
        BY <2>2, <3>3
      <4>2. at[n] <= at[k - 1] /\ \A j \in 1..Len(p[n]) : f[k - 1][at[n - 1] + j] = p[n][j]
        BY <2>3, <4>1
      <4>3. /\ Len(p[n]) \in Nat /\ at[n] = at[n - 1] + Len(p[n]) /\ at[n - 1] \in Nat /\ at[n] \in Nat
        BY <1>6, <1>7, <4>1
      <4>4. \A j \in 1..Len(p[n]) : at[n - 1] + j \in 1..at[k - 1]
        <5>1. PICK u \in Nat, v \in Nat, w \in Nat : u = at[n - 1] /\ v = Len(p[n]) /\ w = at[k - 1]
          BY <3>1, <4>3
        <5>2. u + v <= w
          BY <4>2, <4>3, <5>1
        <5>3. \A j \in 1..v : u + j \in 1..w
          BY ONLY <5>2, u \in Nat, v \in Nat, w \in Nat
        <5> QED
          BY <5>1, <5>3
      <4>5. \A j \in 1..Len(p[n]) : f[k][at[n - 1] + j] = p[n][j]
        BY ONLY <3>1, <4>2, <4>4
      <4>6. at[n] <= at[k]
        <5>1. PICK u \in Nat, v \in Nat, w \in Nat : u = at[n] /\ v = Len(p[k]) /\ w = at[k - 1]
          BY <3>1, <4>3
        <5>2. u <= w /\ at[k] = w + v
          BY <3>1, <4>2, <5>1
        <5> QED
          BY ONLY <5>1, <5>2, u \in Nat, v \in Nat, w \in Nat
      <4> QED
        BY <4>5, <4>6
    <3> QED
      BY <3>2, <3>3
  <2> QED
    BY <2>1, <2>4
<1>9. N \in 0..N /\ 0 \in 0..N
  OBVIOUS
<1>10. at[0] = 0 /\ at[N] = Len(f[N])
  <2>1. Len(<<>>) = 0
    OBVIOUS
  <2> QED
    BY <1>4, <1>6, <1>9, <2>1
<1>11. ASSUME NEW n \in 0..N PROVE at[n] \in 0..Len(f[N])
  <2>1. CASE n = 0
    BY <1>6, <1>9, <1>10, <2>1
  <2>2. CASE n # 0
    <3>1. n \in 1..N /\ Placed(N)
      BY <1>8, <1>9, <2>2
    <3>2. at[n] <= at[N]
      BY <3>1
    <3> QED
      BY <1>6, <1>9, <1>10, <3>2
  <2> QED
    BY <2>1, <2>2
<1>12. ASSUME NEW n \in 1..N
       PROVE  /\ at[n] = at[n - 1] + Len(p[n])
              /\ \A j \in 1..Len(p[n]) : f[N][at[n - 1] + j] = p[n][j]
  <2>1. Placed(N)
    BY <1>8, <1>9
  <2> QED
    BY <1>7, <2>1
<1>13. IsLayout(at, p, f[N])
  BY <1>1, <1>10, <1>11, <1>12 DEF IsLayout
<1> QED
  BY <1>3, <1>5, <1>9, <1>13

\* One token more.
LEMMA PrefixGrows ==
    ASSUME NEW s \in Text, NEW m \in 0..Len(s) - 1
    PROVE  SubSeq(s, 1, m) \o <<s[m + 1]>> = SubSeq(s, 1, m + 1)
<1>1. PICK n \in Nat : n = Len(s)
  BY LenProperties DEF Text
<1>2. PICK x : x = SubSeq(s, 1, m)
  OBVIOUS
<1>3. x \in Text
  <2>1. 1 \in Nat \ {0} /\ m \in Int /\ m <= Len(s)
    BY <1>1
  <2> QED
    BY <1>2, <2>1, PartIsText
<1>4. PICK e, k : e = <<>> /\ k = m + 1
  OBVIOUS
<1>5. e \in Seq(Tokens) /\ e \o x = x /\ e \o SubSeq(s, 1, k) = SubSeq(s, 1, k)
  <2>1. SubSeq(s, 1, k) \in Text
    <3>1. 1 \in Nat \ {0} /\ k \in Int /\ k <= Len(s)
      BY <1>1, <1>4
    <3> QED
      BY <3>1, PartIsText
  <2> QED
    BY <1>3, <1>4, <2>1, ConcatEmptySeq DEF Text
<1>6. 1 \in 1..Len(s) /\ k \in 1..Len(s) /\ k - 1 = m
  BY <1>1, <1>4
<1>7. x = e \o SubSeq(s, 1, k - 1)
  BY <1>2, <1>5, <1>6
<1>8. s \in Seq(Tokens)
  BY DEF Text
<1>9. x \o <<s[k]>> = e \o SubSeq(s, 1, k)
  BY ONLY <1>5, <1>6, <1>7, <1>8, PartGrows
<1> QED
  BY <1>2, <1>4, <1>5, <1>9

\* Two tokens at once.
LEMMA TwoMore ==
    ASSUME NEW x \in Text, NEW a \in Tokens, NEW b \in Tokens
    PROVE  x \o <<a, b>> = (x \o <<a>>) \o <<b>>
<1>1. PICK c, d : c = <<a>> /\ d = <<b>>
  OBVIOUS
<1>2. c \in Seq(Tokens) /\ d \in Seq(Tokens) /\ x \in Seq(Tokens)
  BY <1>1 DEF Text
<1>3. (x \o c) \o d = x \o (c \o d)
  BY <1>2, ConcatAssociative
<1>4. c \o d = <<a, b>>
  <2>1. PICK y, z : y = c \o d /\ z = <<a, b>>
    OBVIOUS
  <2>2. z \in Seq(Tokens) /\ Len(z) = 2 /\ z[1] = a /\ z[2] = b
    BY <2>1
  <2>3. y \in Seq(Tokens) /\ Len(y) = 2 /\ y[1] = a /\ y[2] = b
    <3>1. Len(c) = 1 /\ Len(d) = 1 /\ c[1] = a /\ d[1] = b
      BY <1>1
    <3>2. /\ c \o d \in Seq(Tokens) /\ Len(c \o d) = Len(c) + Len(d)
          /\ \A i \in 1..Len(c) + Len(d) : (c \o d)[i] = IF i <= Len(c) THEN c[i] ELSE d[i - Len(c)]
      BY <1>2, ConcatProperties
    <3>3. 1 + 1 = 2 /\ 1 \in 1..2 /\ 2 \in 1..2 /\ 1 <= 1 /\ ~(2 <= 1) /\ 2 - 1 = 1
      OBVIOUS
    <3>4. \A i \in 1..2 : y[i] = IF i <= 1 THEN c[i] ELSE d[i - 1]
      BY <2>1, <3>1, <3>2, <3>3
    <3> QED
      BY <2>1, <3>1, <3>2, <3>3, <3>4
  <2>4. \A i \in 1..2 : y[i] = z[i]
    BY <2>2, <2>3
  <2> QED
    BY ONLY <2>1, <2>2, <2>3, <2>4, SeqEqual
<1> QED
  BY <1>1, <1>3, <1>4

\* What InTemplate puts for the token at n.
Piece(path, dotted, n) ==
    LET is(m, token) == m \in DOMAIN path /\ path[m] = token
    IN  IF is(n, "#") THEN <<"[", "]">>
        ELSE IF is(n, ".") /\ (is(n + 1, "#") \/ (~dotted /\ is(n - 1, "#"))) THEN <<>>
        ELSE <<path[n]>>

Pieces(path, dotted) == [n \in DOMAIN path |-> Piece(path, dotted, n)]

\* A key or the elements of an array, then a dot, in turn.
IsRegular(path) ==
    /\ path \in Text /\ Len(path) \in Nat /\ Len(path) > 0
    /\ \A n \in 1..Len(path) : path[n] \in Tokens /\ path[n] \notin {"$", "[", "]"}
    /\ path[1] # "." /\ path[1] # "#" /\ path[Len(path)] # "."
    /\ \A n \in 1..Len(path) - 1 : path[n] = "." <=> path[n + 1] # "."
    /\ \A n \in 3..Len(path) : path[n] = "#" => path[n - 2] # "#"

\* Parity aside, this is what a path is.
LEMMA PathIsRegular ==
    ASSUME NEW path, IsPath(path)
    PROVE  IsRegular(path)
<1>1. path \in Text
  BY DEF IsPath
<1>2. PICK L \in Nat : L = Len(path)
  BY <1>1, LenProperties DEF Text
<1>3. DOMAIN path = 1..L /\ \A n \in 1..L : path[n] \in Tokens
  BY <1>1, <1>2, LenProperties, ElementOfSeq DEF Text
<1>4. /\ L % 2 = 1 /\ path[1] # "#"
      /\ \A n \in 1..L : /\ path[n] = "." <=> n % 2 = 0
                         /\ path[n] \notin {"$", "[", "]"}
                         /\ path[n] = "#" /\ n > 2 => path[n - 2] # "#"
  BY <1>2, <1>3 DEF IsPath
<1>5. L > 0 /\ 1 \in 1..L /\ L \in 1..L /\ 1 % 2 = 1
  BY <1>2, <1>4
<1>6. path[1] # "." /\ path[L] # "."
  BY <1>4, <1>5
<1>7. ASSUME NEW n \in 1..L - 1 PROVE path[n] = "." <=> path[n + 1] # "."
  <2>1. n \in 1..L /\ n + 1 \in 1..L
    BY <1>2
  <2>2. n % 2 = 0 <=> (n + 1) % 2 # 0
    BY <1>2
  <2> QED
    BY <1>4, <2>1, <2>2
<1>8. ASSUME NEW n \in 3..L PROVE path[n] = "#" => path[n - 2] # "#"
  <2>1. n \in 1..L /\ n > 2
    BY <1>2
  <2> QED
    BY <1>4, <2>1
<1> QED
  BY <1>1, <1>2, <1>3, <1>4, <1>5, <1>6, <1>7, <1>8 DEF IsRegular

\* A dot that a template leaves out.
IsLeftOut(path, dotted, n) == path[n] = "." /\ (path[n + 1] = "#" \/ (~dotted /\ path[n - 1] = "#"))

\* The pieces by cases.
LEMMA PieceCases ==
    ASSUME NEW path, IsRegular(path), NEW dotted \in BOOLEAN, NEW n \in 1..Len(path)
    PROVE  /\ path[n] = "#" => Pieces(path, dotted)[n] = <<"[", "]">>
           /\ IsLeftOut(path, dotted, n) => Pieces(path, dotted)[n] = <<>>
           /\ path[n] # "#" /\ ~IsLeftOut(path, dotted, n) => Pieces(path, dotted)[n] = <<path[n]>>
           /\ Len(Pieces(path, dotted)) = Len(path) /\ Pieces(path, dotted) \in Seq(Seq(Tokens))
<1>1. PICK L \in Nat : L = Len(path)
  BY DEF IsRegular
<1>2. DOMAIN path = 1..L /\ \A m \in 1..L : path[m] \in Tokens
  BY <1>1, LenProperties DEF IsRegular, Text
<1>3. Pieces(path, dotted) = [m \in 1..L |-> Piece(path, dotted, m)]
  BY <1>2 DEF Pieces
<1>4. "[" \in Tokens /\ "]" \in Tokens
  BY TokensAssumption, Zenon
<1>5. ASSUME NEW m \in 1..L PROVE Piece(path, dotted, m) \in Seq(Tokens)
  BY <1>2, <1>4 DEF Piece
<1>6. Pieces(path, dotted) \in [1..L -> Seq(Tokens)]
  BY <1>3, <1>5
<1>7. Pieces(path, dotted) \in Seq(Seq(Tokens)) /\ Len(Pieces(path, dotted)) = L
  BY <1>1, <1>6, SeqDef, LenProperties
<1>8. path[n] = "." => n - 1 \in 1..L /\ n + 1 \in 1..L
  BY <1>1 DEF IsRegular
<1>9. Pieces(path, dotted)[n] = Piece(path, dotted, n) /\ n \in 1..L
  BY <1>1, <1>3
<1>10. path[n] = "#" => Piece(path, dotted, n) = <<"[", "]">>
  BY <1>2, <1>9 DEF Piece
<1>11. IsLeftOut(path, dotted, n) => Piece(path, dotted, n) = <<>>
  BY <1>2, <1>8, <1>9 DEF Piece, IsLeftOut
<1>12. path[n] # "#" /\ ~IsLeftOut(path, dotted, n) => Piece(path, dotted, n) = <<path[n]>>
  BY <1>2, <1>8, <1>9 DEF Piece, IsLeftOut
<1> QED
  BY <1>1, <1>7, <1>9, <1>10, <1>11, <1>12

\* at[n] is where the first n tokens of the path end in its spelling t.
IsSpelling(t, path, dotted, at) ==
    /\ t \in Text /\ Len(t) \in Nat
    /\ at[0] = 0 /\ at[Len(path)] = Len(t)
    /\ \A n \in 0..Len(path) : at[n] \in 0..Len(t)
    /\ \A n \in 1..Len(path) :
          /\ path[n] = "#" => /\ at[n] = at[n - 1] + 2
                              /\ t[at[n - 1] + 1] = "[" /\ t[at[n - 1] + 2] = "]"
          /\ IsLeftOut(path, dotted, n) => at[n] = at[n - 1]
          /\ path[n] # "#" /\ ~IsLeftOut(path, dotted, n) =>
                at[n] = at[n - 1] + 1 /\ t[at[n - 1] + 1] = path[n]

\* The spelling of a path, token by token.
LEMMA PathIsSpelled ==
    ASSUME NEW path, IsRegular(path), NEW dotted \in BOOLEAN
    PROVE  \E at : IsSpelling(FlattenSeq(Pieces(path, dotted)), path, dotted, at)
<1>1. PICK p, t : p = Pieces(path, dotted) /\ t = FlattenSeq(p)
  OBVIOUS
<1>2. PICK L \in Nat : L = Len(path) /\ 1 \in 1..L
  BY DEF IsRegular
<1>3. p \in Seq(Seq(Tokens)) /\ Len(p) = L
  BY <1>1, <1>2, PieceCases
<1>4. t \in Text
  BY <1>1, <1>3, FlattenHasLayout
<1>5. PICK at : IsLayout(at, p, t)
  BY <1>1, <1>3, FlattenHasLayout
<1>6. ASSUME NEW n \in 1..L
      PROVE  /\ path[n] = "#" => /\ at[n] = at[n - 1] + 2
                                 /\ t[at[n - 1] + 1] = "[" /\ t[at[n - 1] + 2] = "]"
             /\ IsLeftOut(path, dotted, n) => at[n] = at[n - 1]
             /\ path[n] # "#" /\ ~IsLeftOut(path, dotted, n) =>
                   at[n] = at[n - 1] + 1 /\ t[at[n - 1] + 1] = path[n]
  <2>1. /\ at[n] = at[n - 1] + Len(p[n]) /\ at[n - 1] \in Nat
        /\ \A j \in 1..Len(p[n]) : t[at[n - 1] + j] = p[n][j]
    <3>1. n - 1 \in 0..L
      BY <1>2
    <3> QED
      BY <1>3, <1>5, <3>1 DEF IsLayout
  <2>2. /\ path[n] = "#" => p[n] = <<"[", "]">>
        /\ IsLeftOut(path, dotted, n) => p[n] = <<>>
        /\ path[n] # "#" /\ ~IsLeftOut(path, dotted, n) => p[n] = <<path[n]>>
    BY <1>1, <1>2, PieceCases
  <2>3. ASSUME path[n] = "#"
        PROVE  at[n] = at[n - 1] + 2 /\ t[at[n - 1] + 1] = "[" /\ t[at[n - 1] + 2] = "]"
    <3>1. Len(p[n]) = 2 /\ p[n][1] = "[" /\ p[n][2] = "]"
      <4>1. p[n] = <<"[", "]">>
        BY <2>2, <2>3
      <4> QED
        BY ONLY <4>1
    <3> QED
      BY <2>1, <3>1
  <2>4. ASSUME IsLeftOut(path, dotted, n)
        PROVE  at[n] = at[n - 1]
    <3>1. Len(p[n]) = 0
      BY <2>2, <2>4
    <3> QED
      BY <2>1, <3>1
  <2>5. ASSUME path[n] # "#", ~IsLeftOut(path, dotted, n)
        PROVE  at[n] = at[n - 1] + 1 /\ t[at[n - 1] + 1] = path[n]
    <3>1. Len(p[n]) = 1 /\ p[n][1] = path[n]
      <4>1. p[n] = <<path[n]>>
        BY <2>2, <2>5
      <4> QED
        BY ONLY <4>1
    <3> QED
      BY <2>1, <3>1
  <2> QED
    BY <2>3, <2>4, <2>5
<1>7. Len(t) \in Nat
  BY <1>4, LenProperties DEF Text
<1>8. IsSpelling(t, path, dotted, at)
  BY <1>2, <1>3, <1>4, <1>5, <1>6, <1>7 DEF IsLayout, IsSpelling
<1> QED
  BY <1>1, <1>8

\* Brackets at i, and what NormalizePath puts for the token at i.
Opens(t, i) == i \in 1..Len(t) - 1 /\ t[i] = "[" /\ t[i + 1] = "]"

Output(t, i) ==
    IF Opens(t, i) THEN <<".", "#">>
    ELSE IF ~Opens(t, i - 1) THEN <<t[i]>>
    ELSE IF i < Len(t) /\ t[i + 1] # "." THEN <<".">> ELSE <<>>

Outputs(t) == [i \in DOMAIN t |-> Output(t, i)]

\* g[i] is what NormalizePath has made of the first i tokens.
IsNormalizing(g, t) == g[0] = <<>> /\ \A i \in 1..Len(t) : g[i] = g[i - 1] \o Output(t, i)

\* Such a function exists, and ends with the normalized path.
LEMMA NormalizedIsJoined ==
    ASSUME NEW t \in Text
    PROVE  \E g : IsNormalizing(g, t) /\ g[Len(t)] = FlattenSeq(Outputs(t))
<1>1. PICK L \in Nat : L = Len(t)
  BY LenProperties DEF Text
<1>2. DOMAIN t = 1..L /\ \A i \in 1..L : t[i] \in Tokens
  BY <1>1, LenProperties, ElementOfSeq DEF Text
<1>3. "." \in Tokens /\ "#" \in Tokens
  BY TokensAssumption, Zenon
<1>4. ASSUME NEW i \in 1..L PROVE Output(t, i) \in Seq(Tokens)
  BY <1>2, <1>3 DEF Output
<1>5. PICK q : q = Outputs(t)
  OBVIOUS
<1>6. q = [i \in 1..L |-> Output(t, i)]
  BY <1>2, <1>5 DEF Outputs
<1>7. q \in [1..L -> Seq(Tokens)]
  BY <1>4, <1>6
<1>8. q \in Seq(Seq(Tokens)) /\ Len(q) = L
  BY <1>1, <1>7, SeqDef, LenProperties
<1>9. PICK g : AreJoined(g, q, L) /\ FlattenSeq(q) = g[L]
  BY <1>8, FlattenIsJoined
<1>10. g[0] = <<>> /\ \A i \in 1..L : g[i] = g[i - 1] \o q[i]
  BY <1>9, JoinedEquations
<1>11. \A i \in 1..L : q[i] = Output(t, i)
  BY <1>6
<1> QED
  BY <1>1, <1>5, <1>9, <1>10, <1>11 DEF IsNormalizing

\* How much of the path is there once its first n tokens are normalized: a dot
\* is put with the brackets next to it.
Restored(path, dotted, n) ==
    IF n = 0 THEN 0
    ELSE IF path[n] = "." /\ path[n + 1] = "#" THEN n - 1
    ELSE IF path[n] = "#" /\ n < Len(path) /\ ~dotted THEN n + 1
    ELSE n

\* The token at n is normalized to what is to follow.
LEMMA TokenIsRestored ==
    ASSUME NEW path, IsRegular(path), NEW dotted \in BOOLEAN, NEW t, NEW at,
           IsSpelling(t, path, dotted, at), NEW g, IsNormalizing(g, t), NEW n \in 1..Len(path),
           g[at[n - 1]] = SubSeq(path, 1, Restored(path, dotted, n - 1))
    PROVE  g[at[n]] = SubSeq(path, 1, Restored(path, dotted, n))
<1>1. PICK L \in Nat, N \in Nat : L = Len(path) /\ N = Len(t)
  BY DEF IsRegular, IsSpelling
<1>2. PICK a \in 0..N : a = at[n - 1] /\ n - 1 \in 0..L
  <2>1. n - 1 \in 0..L
    BY <1>1
  <2> QED
    BY <1>1, <2>1 DEF IsSpelling
<1>3. at[n] \in 0..N
  BY <1>1 DEF IsSpelling
<1>4. /\ path[n] = "#" => at[n] = a + 2 /\ t[a + 1] = "[" /\ t[a + 2] = "]"
      /\ IsLeftOut(path, dotted, n) => at[n] = a
      /\ path[n] # "#" /\ ~IsLeftOut(path, dotted, n) => at[n] = a + 1 /\ t[a + 1] = path[n]
  BY <1>1, <1>2 DEF IsSpelling
<1>5. \A i \in 1..N : g[i] = g[i - 1] \o Output(t, i)
  BY <1>1 DEF IsNormalizing
<1>6. /\ \A m \in 1..L : path[m] \in Tokens /\ path[m] # "[" /\ path[m] # "]"
      /\ path[1] # "." /\ path[1] # "#" /\ path[L] # "."
      /\ \A m \in 1..L - 1 : path[m] = "." <=> path[m + 1] # "."
      /\ \A m \in 3..L : path[m] = "#" => path[m - 2] # "#"
      /\ path \in Text
  BY <1>1 DEF IsRegular
<1> PICK u, v : u = Restored(path, dotted, n - 1) /\ v = Restored(path, dotted, n)
  OBVIOUS
<1> SUFFICES g[at[n]] = SubSeq(path, 1, v)
  OBVIOUS
<1>7. g[a] = SubSeq(path, 1, u)
  BY <1>2
\* A token that stands for itself.
<1>8. ASSUME path[n] # "#", ~IsLeftOut(path, dotted, n), u = n - 1, v = n
      PROVE  g[at[n]] = SubSeq(path, 1, v)
  <2>1. at[n] = a + 1 /\ t[a + 1] = path[n] /\ a + 1 \in 1..N
    BY <1>1, <1>3, <1>4, <1>8
  <2>2. t[a + 1] # "[" /\ t[a + 1] # "]"
    BY <1>1, <1>6, <2>1
  <2>3. ~Opens(t, a + 1) /\ ~Opens(t, a + 1 - 1)
    <3>1. a + 1 - 1 + 1 = a + 1
      OBVIOUS
    <3> QED
      BY <2>2, <3>1 DEF Opens
  <2>4. Output(t, a + 1) = <<path[n]>>
    BY <2>1, <2>3 DEF Output
  <2>5. g[a + 1] = g[a] \o <<path[n]>>
    <3>1. PICK i \in 1..N : i = a + 1 /\ i - 1 = a
      BY <2>1
    <3>2. g[i] = g[i - 1] \o Output(t, i)
      BY <1>5
    <3> QED
      BY ONLY <2>4, <3>1, <3>2
  <2>6. SubSeq(path, 1, n - 1) \o <<path[n]>> = SubSeq(path, 1, n)
    <3>1. n - 1 \in 0..Len(path) - 1 /\ n - 1 + 1 = n
      BY <1>1
    <3> QED
      BY <1>6, <3>1, PrefixGrows
  <2> QED
    BY <1>8, <1>7, <2>1, <2>5, <2>6
\* A dot that is left out.
<1>9. ASSUME IsLeftOut(path, dotted, n), u = v
      PROVE  g[at[n]] = SubSeq(path, 1, v)
  BY <1>4, <1>9, <1>7
\* Brackets.
<1>10. ASSUME path[n] = "#", u = n - 2, n >= 3, path[n - 1] = ".",
             v \in {n, n + 1}, v = n + 1 => n < L /\ path[n + 1] = ".",
             (a + 2 < N /\ t[a + 3] # ".") <=> v = n + 1
      PROVE  g[at[n]] = SubSeq(path, 1, v)
  <2>1. at[n] = a + 2 /\ t[a + 1] = "[" /\ t[a + 2] = "]" /\ a + 1 \in 1..N - 1 /\ a + 2 \in 1..N
    BY <1>3, <1>4, <1>10
  <2>2. Opens(t, a + 1) /\ ~Opens(t, a + 2)
    <3>1. a + 1 + 1 = a + 2
      OBVIOUS
    <3> QED
      BY <1>1, <2>1, <3>1 DEF Opens
  <2>3. Output(t, a + 1) = <<".", "#">>
    BY <2>2 DEF Output
  <2>4. Output(t, a + 2) = IF v = n + 1 THEN <<".">> ELSE <<>>
    <3>1. a + 2 - 1 = a + 1 /\ a + 2 + 1 = a + 3
      OBVIOUS
    <3> QED
      BY <1>1, <1>10, <2>2, <3>1 DEF Output
  <2>5. g[a + 1] = g[a] \o <<".", "#">>
    <3>1. PICK i \in 1..N : i = a + 1 /\ i - 1 = a
      BY <2>1
    <3>2. g[i] = g[i - 1] \o Output(t, i)
      BY <1>5
    <3> QED
      BY ONLY <2>3, <3>1, <3>2
  <2>6. PICK x : x = SubSeq(path, 1, n - 2)
    OBVIOUS
  <2>7. x \o <<".", "#">> = SubSeq(path, 1, n)
    <3>1. "." \in Tokens /\ "#" \in Tokens
      BY TokensAssumption, Zenon
    <3>2. x \in Text
      <4>1. 1 \in Nat \ {0} /\ n - 2 \in Int /\ n - 2 <= Len(path)
        BY <1>1
      <4> QED
        BY <1>6, <2>6, <4>1, PartIsText
    <3>3. x \o <<".", "#">> = (x \o <<".">>) \o <<"#">>
      BY <3>1, <3>2, TwoMore
    <3>4. x \o <<".">> = SubSeq(path, 1, n - 1)
      <4>1. n - 2 \in 0..Len(path) - 1 /\ n - 2 + 1 = n - 1
        BY <1>1, <1>10
      <4> QED
        BY <1>6, <1>10, <2>6, <4>1, PrefixGrows
    <3>5. SubSeq(path, 1, n - 1) \o <<"#">> = SubSeq(path, 1, n)
      <4>1. n - 1 \in 0..Len(path) - 1 /\ n - 1 + 1 = n
        BY <1>1
      <4> QED
        BY <1>6, <1>10, <4>1, PrefixGrows
    <3> QED
      BY <3>3, <3>4, <3>5
  <2>8. g[a + 1] = SubSeq(path, 1, n)
    BY <1>10, <1>7, <2>5, <2>6, <2>7
  <2>9. g[a + 2] = SubSeq(path, 1, n) \o Output(t, a + 2)
    <3>1. PICK i \in 1..N : i = a + 2 /\ i - 1 = a + 1
      BY <2>1
    <3>2. g[i] = g[i - 1] \o Output(t, i)
      BY <1>5
    <3> QED
      BY ONLY <2>8, <3>1, <3>2
  <2>10. CASE v = n + 1
    <3>1. SubSeq(path, 1, n) \o <<path[n + 1]>> = SubSeq(path, 1, n + 1)
      <4>1. n \in 0..Len(path) - 1
        BY <1>1, <1>10, <2>10
      <4> QED
        BY <1>6, <4>1, PrefixGrows
    <3> QED
      BY <1>10, <2>1, <2>4, <2>9, <2>10, <3>1
  <2>11. CASE v = n
    <3>1. SubSeq(path, 1, n) \in Text
      <4>1. 1 \in Nat \ {0} /\ n \in Int /\ n <= Len(path)
        BY <1>1
      <4> QED
        BY <1>6, <4>1, PartIsText
    <3>2. SubSeq(path, 1, n) \o <<>> = SubSeq(path, 1, n)
      BY <3>1, NothingIsNeutral
    <3>3. Output(t, a + 2) = <<>>
      BY <1>1, <2>4, <2>11
    <3> QED
      BY <2>1, <2>9, <2>11, <3>2, <3>3
  <2> QED
    BY <1>10, <2>10, <2>11
<1>11. CASE path[n] # "#" /\ path[n] # "."
  <2>1. ~IsLeftOut(path, dotted, n) /\ v = n
    BY <1>1, <1>11 DEF IsLeftOut, Restored
  <2>2. u = n - 1
    <3>1. CASE n = 1
      BY <3>1 DEF Restored
    <3>2. CASE n # 1
      <4>1. n - 1 \in 1..L - 1 /\ n - 1 + 1 = n /\ n - 1 # 0
        BY <1>1, <3>2
      <4>2. path[n - 1] = "."
        BY <1>6, <1>11, <4>1
      <4> QED
        BY <1>11, <4>1, <4>2 DEF Restored
    <3> QED
      BY <3>1, <3>2
  <2> QED
    BY <1>8, <1>11, <2>1, <2>2
<1>12. CASE path[n] = "."
  <2>1. /\ n - 1 \in 1..L - 1 /\ n - 1 + 1 = n /\ n - 1 # 0 /\ n + 1 \in 1..L /\ n # 0 /\ n - 1 < L
        /\ path[n - 1] # "." /\ path[n + 1] # "."
    <3>1. n # 1 /\ n # L
      BY <1>6, <1>12
    <3>2. n - 1 \in 1..L - 1 /\ n - 1 + 1 = n /\ n - 1 # 0 /\ n + 1 \in 1..L /\ n # 0 /\ n \in 1..L - 1
      BY <1>1, <3>1
    <3>3. path[n - 1] # "."
      BY <1>6, <1>12, <3>2
    <3> QED
      BY <1>1, <1>6, <1>12, <3>2, <3>3
  <2>2. CASE path[n + 1] = "#"
    <3>1. path[n - 1] # "#"
      <4>1. n + 1 \in 3..L /\ n + 1 - 2 = n - 1
        BY <1>1, <2>1
      <4> QED
        BY <1>6, <2>2, <4>1
    <3>2. v = n - 1 /\ u = n - 1 /\ IsLeftOut(path, dotted, n)
      BY <1>12, <2>1, <2>2, <3>1 DEF Restored, IsLeftOut
    <3> QED
      BY <1>9, <3>2
  <2>3. CASE path[n + 1] # "#" /\ path[n - 1] = "#" /\ ~dotted
    <3>1. v = n /\ u = n /\ IsLeftOut(path, dotted, n)
      BY <1>1, <1>12, <2>1, <2>3 DEF Restored, IsLeftOut
    <3> QED
      BY <1>9, <3>1
  <2>4. CASE path[n + 1] # "#" /\ ~(path[n - 1] = "#" /\ ~dotted)
    <3>1. v = n /\ u = n - 1 /\ ~IsLeftOut(path, dotted, n)
      BY <1>1, <1>12, <2>1, <2>4 DEF Restored, IsLeftOut
    <3> QED
      BY <1>8, <1>12, <3>1
  <2> QED
    BY <2>2, <2>3, <2>4
<1>13. CASE path[n] = "#"
  <2>1. /\ n - 1 \in 1..L - 1 /\ n - 1 + 1 = n /\ n - 1 # 0 /\ n # 0 /\ path[n - 1] = "."
    <3>1. n # 1
      BY <1>6, <1>13
    <3>2. n - 1 \in 1..L - 1 /\ n - 1 + 1 = n /\ n - 1 # 0 /\ n # 0
      BY <1>1, <3>1
    <3> QED
      BY <1>6, <1>13, <3>2
  <2>2. n >= 3
    <3>1. n - 1 # 1
      BY <1>6, <2>1
    <3> QED
      BY <1>1, <2>1, <3>1
  <2>3. u = n - 2
    BY <1>13, <2>1 DEF Restored
  <2>4. at[n] = a + 2
    BY <1>4, <1>13
  <2>5. CASE n = L
    <3>1. v = n /\ n + 1 # n
      BY <1>1, <1>13, <2>1, <2>5 DEF Restored
    <3>2. ~(a + 2 < N)
      <4>1. at[L] = N
        BY <1>1 DEF IsSpelling
      <4> QED
        BY <2>4, <2>5, <4>1
    <3> QED
      BY <1>10, <1>13, <2>1, <2>2, <2>3, <3>1, <3>2
  <2>6. CASE n < L
    <3>1. /\ n + 1 \in 1..L - 1 /\ n + 1 # 0 /\ n + 2 \in 3..L /\ n + 2 - 1 = n + 1 /\ n + 1 - 1 = n
          /\ n + 1 \in 1..L /\ n + 2 \in 1..L
          /\ path[n + 1] = "." /\ path[n + 2] # "." /\ path[n + 2] # "#"
      <4>1. n \in 1..L - 1 /\ n + 1 \in 1..L /\ n + 1 # 0
        BY <1>1, <2>6
      <4>2. path[n + 1] = "."
        BY <1>6, <1>13, <4>1
      <4>3. n + 1 # L
        BY <1>6, <4>2
      <4>4. /\ n + 1 \in 1..L - 1 /\ n + 2 \in 3..L /\ n + 1 + 1 = n + 2 /\ n + 2 - 2 = n
            /\ n + 2 - 1 = n + 1 /\ n + 1 - 1 = n /\ n + 2 \in 1..L
        BY <1>1, <4>1, <4>3
      <4>5. path[n + 2] # "."
        BY <1>6, <4>2, <4>4
      <4>6. path[n + 2] # "#"
        BY <1>6, <1>13, <4>4
      <4> QED
        BY <4>1, <4>2, <4>4, <4>5, <4>6
    <3>2. at[n + 1] \in 0..N /\ at[n + 2] \in 0..N
      <4>1. n + 1 \in 0..L /\ n + 2 \in 0..L
        BY <3>1
      <4> QED
        BY <1>1, <4>1 DEF IsSpelling
    <3>3. CASE dotted
      <4>1. v = n /\ n # n + 1
        BY <1>1, <1>13, <2>1, <3>3 DEF Restored
      <4>2. ~IsLeftOut(path, dotted, n + 1)
        <5>1. path[n + 1 + 1] # "#"
          <6>1. n + 1 + 1 = n + 2
            OBVIOUS
          <6> QED
            BY <3>1, <6>1
        <5> QED
          BY <3>3, <5>1 DEF IsLeftOut
      <4>3. at[n + 1] = at[n] + 1 /\ t[at[n] + 1] = "."
        <5>1. path[n + 1] # "#"
          BY <3>1
        <5> QED
          BY <1>1, <3>1, <4>2, <5>1 DEF IsSpelling
      <4>4. t[a + 3] = "."
        <5>1. a + 2 + 1 = a + 3
          OBVIOUS
        <5> QED
          BY <2>4, <4>3, <5>1
      <4> QED
        BY <1>10, <1>13, <2>1, <2>2, <2>3, <4>1, <4>4
    <3>4. CASE ~dotted
      <4>1. v = n + 1
        BY <1>1, <1>13, <2>1, <2>6, <3>4 DEF Restored
      <4>2. at[n + 1] = a + 2
        <5>1. IsLeftOut(path, dotted, n + 1)
          BY <1>13, <3>1, <3>4 DEF IsLeftOut
        <5>2. at[n + 1] = at[n]
          BY <1>1, <3>1, <5>1 DEF IsSpelling
        <5> QED
          BY <2>4, <5>2
      <4>3. at[n + 2] = a + 3 /\ t[a + 3] = path[n + 2]
        <5>1. path[n + 2] # "#" /\ ~IsLeftOut(path, dotted, n + 2)
          BY <3>1 DEF IsLeftOut
        <5>2. at[n + 2] = at[n + 1] + 1 /\ t[at[n + 1] + 1] = path[n + 2]
          BY <1>1, <3>1, <5>1 DEF IsSpelling
        <5>3. a + 2 + 1 = a + 3
          OBVIOUS
        <5> QED
          BY <4>2, <5>2, <5>3
      <4>4. a + 2 < N /\ t[a + 3] # "."
        BY <3>1, <3>2, <4>3
      <4> QED
        BY <1>10, <1>13, <2>1, <2>2, <2>3, <2>6, <3>1, <4>1, <4>4
    <3> QED
      BY <3>3, <3>4
  <2> QED
    BY <1>1, <2>5, <2>6
<1> QED
  BY <1>11, <1>12, <1>13

\* A spelling is normalized to the path it spells.
LEMMA SpellingIsNormalized ==
    ASSUME NEW path, IsPath(path), NEW dotted \in BOOLEAN, NEW t, t = FlattenSeq(Pieces(path, dotted))
    PROVE  /\ t \in Text /\ t # <<>> /\ t[1] # "$" /\ t[1] # "."
           /\ FlattenSeq(Outputs(t)) = path
<1>1. IsRegular(path)
  BY PathIsRegular
<1>2. PICK L \in Nat : L = Len(path) /\ L > 0 /\ 0 \in 0..L /\ L \in 0..L /\ 1 \in 1..L
  BY <1>1 DEF IsRegular
<1>3. PICK at : IsSpelling(t, path, dotted, at)
  BY <1>1, PathIsSpelled
<1>4. t \in Text /\ at[0] = 0 /\ at[L] = Len(t) /\ Len(t) \in Nat
  BY <1>2, <1>3 DEF IsSpelling
<1>5. PICK g : IsNormalizing(g, t) /\ g[Len(t)] = FlattenSeq(Outputs(t))
  BY <1>4, NormalizedIsJoined
<1>6. path \in Text /\ path[1] # "." /\ path[1] # "#" /\ path[1] # "$" /\ path[L] # "."
  BY <1>1, <1>2 DEF IsRegular
<1>7. t # <<>> /\ t[1] # "$" /\ t[1] # "."
  <2>1. ~IsLeftOut(path, dotted, 1)
    BY <1>6 DEF IsLeftOut
  <2>2. at[1] = at[1 - 1] + 1 /\ t[at[1 - 1] + 1] = path[1]
    BY <1>2, <1>3, <1>6, <2>1 DEF IsSpelling
  <2>3. 1 - 1 = 0 /\ 0 + 1 = 1
    OBVIOUS
  <2>4. at[1] = 1 /\ t[1] = path[1]
    BY <1>4, <2>2, <2>3
  <2>5. at[1] \in 0..Len(t)
    <3>1. 1 \in 0..L
      BY <1>2
    <3> QED
      BY <1>2, <1>3, <3>1 DEF IsSpelling
  <2>6. Len(t) # 0
    BY <1>4, <2>4, <2>5
  <2>7. t # <<>>
    BY ONLY <2>6
  <2> QED
    BY <1>6, <2>4, <2>7
<1> DEFINE IsThere(n) == g[at[n]] = SubSeq(path, 1, Restored(path, dotted, n))
<1>8. \A n \in 0..L : IsThere(n)
  <2> DEFINE T == {n \in 0..L : ~IsThere(n)}
  <2> SUFFICES ASSUME T # {} PROVE FALSE
    OBVIOUS
  <2>1. PICK k \in T : \A m \in T : k <= m
    <3>1. T \in SUBSET Nat
      OBVIOUS
    <3> HIDE DEF T
    <3> QED
      BY <3>1, LeastNat
  <2>2. CASE k = 0
    <3>1. g[0] = <<>> /\ Restored(path, dotted, 0) = 0
      BY <1>5 DEF IsNormalizing, Restored
    <3>2. SubSeq(path, 1, 0) = <<>>
      <4>1. 1 \in Int /\ 0 \in Int /\ 0 < 1
        OBVIOUS
      <4> QED
        BY <4>1, SubSeqEmpty
    <3>3. IsThere(0)
      BY <1>4, <3>1, <3>2
    <3> HIDE DEF IsThere
    <3> QED
      BY <2>1, <2>2, <3>3
  <2>3. CASE k # 0
    <3>1. k - 1 \in 0..L /\ k - 1 \notin T /\ k \in 1..L
      BY <2>1, <2>3
    <3>2. IsThere(k - 1)
      <4> HIDE DEF IsThere
      <4> QED
        BY <3>1
    <3>3. IsThere(k)
      BY <1>1, <1>2, <1>3, <1>5, <3>1, <3>2, TokenIsRestored
    <3> HIDE DEF IsThere
    <3> QED
      BY <2>1, <3>3
  <2> QED
    BY <2>2, <2>3
<1>9. g[at[L]] = SubSeq(path, 1, Restored(path, dotted, L))
  BY <1>2, <1>8
<1>10. Restored(path, dotted, L) = L
  BY <1>2, <1>6 DEF Restored
<1>11. SubSeq(path, 1, L) = path
  <2>1. 0 + 1 = 1 /\ 0 + L = L /\ \A i \in 1..L : 0 + i = i
    BY <1>2
  <2>2. /\ path \in Text /\ 0 \in Nat /\ 0 + Len(path) <= Len(path)
        /\ \A i \in 1..Len(path) : path[0 + i] = path[i]
    BY <1>2, <1>6, <2>1
  <2>3. SubSeq(path, 0 + 1, 0 + Len(path)) = path
    BY ONLY <2>2, PartIsThatText
  <2> QED
    BY <1>2, <2>1, <2>3
<1> QED
  BY <1>4, <1>5, <1>7, <1>9, <1>10, <1>11

\* A root is stripped off what does not begin like one.
LEMMA RootIsStripped ==
    ASSUME NEW t \in Text, t # <<>>, t[1] # "$", t[1] # ".",
           NEW root \in {<<>>, <<"$">>, <<".">>, <<"$", ".">>}
    PROVE  StripRoot(root \o t) = t
<1>1. "$" \in Tokens /\ "." \in Tokens
  BY TokensAssumption, Zenon
<1>2. root \in Text
  <2>1. <<>> \in Text /\ <<"$">> \in Text /\ <<".">> \in Text /\ <<"$", ".">> \in Text
    BY <1>1 DEF Text
  <2> QED
    BY <2>1
<1>3. PICK q : q = root \o t
  OBVIOUS
<1>4. PICK n \in Nat, k \in Nat : n = Len(t) /\ k = Len(root) /\ n > 0
  <2>1. Len(t) # 0
    BY EmptySeq DEF Text
  <2> QED
    BY <1>2, <2>1, LenProperties DEF Text
<1>5. /\ q \in Text /\ Len(q) = k + n
      /\ \A i \in 1..k : q[i] = root[i]
      /\ \A i \in 1..n : q[k + i] = t[i]
  <2>1. /\ root \o t \in Text /\ Len(root \o t) = Len(root) + Len(t)
        /\ \A i \in 1..Len(root) : (root \o t)[i] = root[i]
        /\ \A i \in 1..Len(t) : (root \o t)[Len(root) + i] = t[i]
    BY <1>2, ConcatElements
  <2> QED
    BY ONLY <1>3, <1>4, <2>1
<1>6. SubSeq(q, k + 1, k + n) = t
  <2>1. q \in Text /\ t \in Text /\ k \in Nat /\ k + Len(t) <= Len(q)
        /\ \A i \in 1..Len(t) : q[k + i] = t[i]
    BY <1>4, <1>5
  <2>2. SubSeq(q, k + 1, k + Len(t)) = t
    BY ONLY <2>1, PartIsThatText
  <2> QED
    BY <1>4, <2>2
<1>7. q # <<>>
  <2>1. Len(q) # 0
    BY <1>4, <1>5
  <2> QED
    BY ONLY <2>1
<1>8. q[k + 1] = t[1]
  <2>1. 1 \in 1..n
    BY <1>4
  <2> QED
    BY <1>5, <2>1
<1>9. Tail(q) = SubSeq(q, 2, Len(q))
  <2>1. /\ Tail(q) \in Seq(Tokens) /\ Len(Tail(q)) = Len(q) - 1
        /\ \A i \in 1..Len(q) - 1 : Tail(q)[i] = q[i + 1]
    BY <1>5, <1>7, HeadTailProperties DEF Text
  <2>2. PICK s \in Text : s = Tail(q)
    BY <2>1 DEF Text
  <2>3. /\ q \in Text /\ s \in Text /\ 1 \in Nat /\ 1 + Len(s) <= Len(q)
        /\ \A i \in 1..Len(s) : q[1 + i] = s[i]
    BY <1>4, <1>5, <2>1, <2>2
  <2>4. SubSeq(q, 1 + 1, 1 + Len(s)) = s
    BY ONLY <2>3, PartIsThatText
  <2>5. 1 + 1 = 2 /\ 1 + Len(s) = Len(q)
    BY <1>4, <1>5, <2>1, <2>2
  <2> QED
    BY <2>2, <2>4, <2>5
<1>10. CASE root = <<>>
  <2>1. q = t
    BY <1>3, <1>10, NothingIsNeutral
  <2>2. StripRoot(q) = q
    BY <2>1 DEF StripRoot
  <2> QED
    BY <1>3, <2>1, <2>2
<1>11. CASE root = <<"$">>
  <2>1. k = 1 /\ root[1] = "$"
    BY ONLY <1>4, <1>11
  <2>2. q[1] = "$" /\ q[2] = t[1] /\ 1 + 1 = 2
    <3>1. 1 \in 1..k /\ 1 + 1 = 2
      BY <2>1
    <3> QED
      BY <1>5, <1>8, <2>1, <3>1
  <2>3. StripRoot(q) = Tail(q)
    BY <1>7, <2>2 DEF StripRoot
  <2> QED
    BY <1>3, <1>5, <1>6, <1>9, <2>1, <2>2, <2>3
<1>12. CASE root = <<".">>
  <2>1. k = 1 /\ root[1] = "."
    BY ONLY <1>4, <1>12
  <2>2. q[1] = "." /\ 1 + 1 = 2
    <3>1. 1 \in 1..k /\ 1 + 1 = 2
      BY <2>1
    <3> QED
      BY <1>5, <2>1, <3>1
  <2>3. StripRoot(q) = Tail(q)
    BY <1>7, <2>2 DEF StripRoot
  <2> QED
    BY <1>3, <1>5, <1>6, <1>9, <2>1, <2>2, <2>3
<1>13. CASE root = <<"$", ".">>
  <2>1. k = 2 /\ root[1] = "$" /\ root[2] = "."
    BY ONLY <1>4, <1>13
  <2>2. q[1] = "$" /\ q[2] = "." /\ 2 + 1 = 3 /\ Len(q) > 1
    <3>1. 1 \in 1..k /\ 2 \in 1..k /\ 2 + 1 = 3 /\ 2 + n > 1
      BY <1>4, <2>1
    <3> QED
      BY <1>5, <2>1, <3>1
  <2>3. StripRoot(q) = SubSeq(q, 3, Len(q))
    BY <1>7, <2>2 DEF StripRoot
  <2> QED
    BY <1>3, <1>5, <1>6, <2>1, <2>2, <2>3
<1> QED
  BY <1>10, <1>11, <1>12, <1>13

\* A path is found however a template spells it, in every document.
THEOREM SpellingsAreOfThePath == Spec => []SpellingsAgree
<1>1. SpellingsAgree
  <2> SUFFICES ASSUME IsJson(data), NEW path \in DOMAIN Documents[data[2]], NEW dotted \in BOOLEAN,
                      NEW root \in {<<>>, <<"$">>, <<".">>, <<"$", ".">>}, IsPath(path)
               PROVE  JsonAt(data, InTemplate(root, path, dotted)) = {Documents[data[2]][path]}
    BY DEF SpellingsAgree
  <2>1. PICK t : t = FlattenSeq(Pieces(path, dotted))
    OBVIOUS
  <2>2. /\ t \in Text /\ t # <<>> /\ t[1] # "$" /\ t[1] # "."
        /\ FlattenSeq(Outputs(t)) = path
    BY <2>1, SpellingIsNormalized
  <2>3. InTemplate(root, path, dotted) = root \o t
    BY <2>1 DEF InTemplate, Pieces, Piece
  <2>4. StripRoot(root \o t) = t
    BY <2>2, RootIsStripped
  <2>5. NormalizePath(root \o t) = FlattenSeq(Outputs(StripRoot(root \o t)))
    BY DEF NormalizePath, Outputs, Output, Opens
  <2>6. NormalizePath(InTemplate(root, path, dotted)) = path
    BY <2>2, <2>3, <2>4, <2>5
  <2> QED
    BY <2>6 DEF JsonAt
<1> QED
  BY <1>1, PTL
=============================================================================
