--------------------------- MODULE LruCacheProofs ---------------------------
(***************************************************************************)
(* The DSL caches' invariants for every capacity, batch size and set of    *)
(* keys, and the expression cache as a list of its most recently used      *)
(* keys.  What depends on recency assumes that the 64-bit tick has not     *)
(* wrapped; the size bound and the regex answers do not need it.           *)
(***************************************************************************)
EXTENDS LruCache, FiniteSetTheorems, FunctionTheorems, SequenceTheorems, TLAPS

\* Every cached value is the outcome of its key.
ValuesAreOutcomes == \A k \in DOMAIN entries : entries[k].value = Outcome(k)

\* No two entries share a tick, and none is ahead of the counter.
TicksAreDistinct ==
    /\ \A k \in DOMAIN entries : entries[k].last_used <= next_tick
    /\ \A j, k \in DOMAIN entries :
          entries[j].last_used = entries[k].last_used => j = k

NoWrap == MaxTick < TickModulus

IInv == TypeOK /\ SizeBounded /\ ValuesAreOutcomes

\* es is the map g without the victims V.
Without(g, V, es) ==
    /\ DOMAIN es = DOMAIN g \ V
    /\ \A j \in DOMAIN es : es[j] = g[j]

\* V is empty, or a batch of entries of g no younger than some threshold.
AreVictims(g, V) ==
    \/ V = {}
    \/ /\ Cardinality(DOMAIN g) = Capacity + 1
       /\ Cardinality(V) = Batch
       /\ \E w \in DOMAIN g : /\ IsThreshold(g, w, Batch)
                              /\ \A v \in V : g[v].last_used <= g[w].last_used

\* The tick stays within its width.
LEMMA TickType == next_tick \in Nat => Tick \in 0..TickModulus - 1
BY TickAssumption DEF Tick

\* Below the bound the counter grows by exactly one.
LEMMA TickWithoutWrap ==
    ASSUME NoWrap, next_tick \in Nat, next_tick < MaxTick
    PROVE  Tick = next_tick + 1
<1>1. next_tick + 1 \in 0..TickModulus - 1
  BY TickAssumption DEF NoWrap
<1> QED
  BY <1>1, TickAssumption DEF Tick

\* What a miss leaves: the old entries and the new one, less some victims, and
\* never more than Capacity of them.
LEMMA InsertedProperties ==
    ASSUME SizeBounded, NEW k, k \notin DOMAIN entries, NEW tick, NEW es \in Inserted(k, tick)
    PROVE  \E V \in SUBSET (DOMAIN entries \cup {k}) :
             /\ Without(Grown(k, tick), V, es)
             /\ IsFiniteSet(DOMAIN es)
             /\ Cardinality(DOMAIN es) <= Capacity
             /\ AreVictims(Grown(k, tick), V)
<1> DEFINE D == DOMAIN entries \cup {k}
           g == Grown(k, tick)
<1>1. DOMAIN g = D /\ g = [j \in D |-> g[j]]
  BY DEF Grown
<1>2. /\ IsFiniteSet(D) /\ Cardinality(D) \in Nat
      /\ Cardinality(D) = Cardinality(DOMAIN entries) + 1
      /\ Cardinality(DOMAIN entries) \in Nat
  BY FS_AddElement, FS_CardinalityType DEF SizeBounded
<1>3. Cardinality(D) <= Capacity + 1 /\ Capacity \in Nat /\ Batch \in 1..Capacity
  BY <1>2, CapacityAssumption DEF SizeBounded
<1>4. es \in IF Cardinality(D) > Capacity THEN Evicted(g) ELSE {g}
  BY <1>1 DEF Inserted, Grown
<1> HIDE DEF g
<1>5. CASE Cardinality(D) > Capacity
  <2>1. Cardinality(D) = Capacity + 1 /\ Least(Cardinality(D), Batch) = Batch
    BY <1>2, <1>3, <1>5 DEF Least
  <2>2. PICK V \in SUBSET D :
          /\ es = [j \in D \ V |-> g[j]]
          /\ Cardinality(V) = Batch
          /\ \E w \in D : /\ IsThreshold(g, w, Batch)
                          /\ \A v \in V : g[v].last_used <= g[w].last_used
    <3>1. es \in Evicted(g)
      BY <1>4, <1>5
    <3>2. PICK V \in SUBSET D :
            /\ es = [j \in D \ V |-> g[j]]
            /\ Cardinality(V) = Least(Cardinality(D), Batch)
            /\ \E w \in D : /\ IsThreshold(g, w, Least(Cardinality(D), Batch))
                            /\ \A v \in V : g[v].last_used <= g[w].last_used
      BY <1>1, <3>1, Zenon DEF Evicted
    <3> QED
      BY <2>1, <3>2
  <2>3. DOMAIN es = D \ V /\ D \cap V = V
    BY <2>2
  <2>4. IsFiniteSet(D \ V) /\ Cardinality(D \ V) = Cardinality(D) - Cardinality(D \cap V)
    BY <1>2, FS_Difference
  <2>5. Cardinality(DOMAIN es) <= Capacity /\ IsFiniteSet(DOMAIN es)
    <3>1. Cardinality(DOMAIN es) = (Capacity + 1) - Batch
      BY <2>1, <2>2, <2>3, <2>4, Zenon
    <3> QED
      BY <1>3, <2>3, <2>4, <3>1
  <2>6. Without(g, V, es) /\ AreVictims(g, V)
    BY <1>1, <2>1, <2>2 DEF Without, AreVictims
  <2> QED
    BY <2>5, <2>6 DEF g
<1>6. CASE ~(Cardinality(D) > Capacity)
  <2>1. es = g
    BY <1>4, <1>6
  <2>2. {} \in SUBSET D /\ Without(g, {}, es) /\ AreVictims(g, {})
    BY <1>1, <2>1 DEF Without, AreVictims
  <2>3. IsFiniteSet(DOMAIN es) /\ Cardinality(DOMAIN es) <= Capacity
    BY <1>1, <1>2, <1>3, <1>6, <2>1
  <2> QED
    BY <2>2, <2>3 DEF g
<1> QED
  BY <1>5, <1>6

\* With distinct ticks the victims are exactly the entries up to the threshold,
\* so each of them is older than each survivor; and the newest entry survives.
LEMMA VictimsAreOldest ==
    ASSUME NEW D, NEW V \in SUBSET D, IsFiniteSet(D),
           NEW g, DOMAIN g = D, \A j \in D : g[j].last_used \in Nat,
           \A i, j \in D : g[i].last_used = g[j].last_used => i = j,
           NEW w \in D, NEW n \in Nat, IsThreshold(g, w, n), Cardinality(V) = n,
           \A v \in V : g[v].last_used <= g[w].last_used
    PROVE  \A v \in V, s \in D \ V : g[v].last_used < g[s].last_used
<1> DEFINE below == {j \in D : g[j].last_used < g[w].last_used}
           upto == {j \in D : g[j].last_used <= g[w].last_used}
<1>1. upto = below \cup {w} /\ w \notin below
  OBVIOUS
<1>2. IsFiniteSet(below) /\ IsFiniteSet(upto)
  BY FS_Subset
<1>3. Cardinality(upto) = Cardinality(below) + 1
  BY <1>1, <1>2, FS_AddElement
<1>4. Cardinality(below) < n /\ Cardinality(upto) >= n
  BY DEF IsThreshold
<1>5. Cardinality(upto) = n
  BY <1>2, <1>3, <1>4, FS_CardinalityType
<1>6. V \in SUBSET upto
  OBVIOUS
<1>7. V = upto
  BY <1>2, <1>5, <1>6, FS_Subset
<1> HIDE DEF below
<1> QED
  BY <1>7

-----------------------------------------------------------------------------
\* A miss that inserts keeps the types, the size bound and the values right.
LEMMA InsertStep ==
    ASSUME IInv, NEW k \in Key, k \notin DOMAIN entries,
           entries' \in Inserted(k, Tick), next_tick' = Tick
    PROVE  IInv'
<1> DEFINE D == DOMAIN entries \cup {k}
           g == Grown(k, Tick)
<1>1. PICK V \in SUBSET D :
        /\ Without(g, V, entries')
        /\ IsFiniteSet(DOMAIN entries')
        /\ Cardinality(DOMAIN entries') <= Capacity
  BY InsertedProperties DEF IInv
<1>2. DOMAIN entries' = D \ V /\ \A j \in D \ V : entries'[j] = g[j]
  BY <1>1 DEF Without, Grown
<1>3. Tick \in Nat /\ Tick \in 0..TickModulus - 1
  BY TickType, TickAssumption DEF IInv, TypeOK
<1>4. ASSUME NEW j \in D
      PROVE  g[j] \in Entry /\ g[j].value = Outcome(j)
  BY <1>3 DEF IInv, TypeOK, ValuesAreOutcomes, Grown, Entry
<1>5. TypeOK'
  BY <1>2, <1>3, <1>4 DEF IInv, TypeOK
<1>6. SizeBounded'
  BY <1>1 DEF SizeBounded
<1>7. ValuesAreOutcomes'
  BY <1>2, <1>4 DEF ValuesAreOutcomes
<1> QED
  BY <1>5, <1>6, <1>7 DEF IInv

\* A hit only renews a tick.
LEMMA HitStep ==
    ASSUME IInv, NEW k \in Key, Hit(k)
    PROVE  IInv' /\ answer'.value = Outcome(k) /\ answer'.key = k
<1>1. DOMAIN entries' = DOMAIN entries /\ k \in DOMAIN entries
  BY DEF Hit
<1>2. \A j \in DOMAIN entries :
        entries'[j] = IF j = k THEN [entries[k] EXCEPT !.last_used = Tick] ELSE entries[j]
  BY DEF Hit
<1>3. Tick \in Nat /\ Tick \in 0..TickModulus - 1
  BY TickType, TickAssumption DEF IInv, TypeOK
<1>4. entries[k] \in Entry
  BY <1>1 DEF IInv, TypeOK
<1>5. /\ [entries[k] EXCEPT !.last_used = Tick] \in Entry
      /\ [entries[k] EXCEPT !.last_used = Tick].value = entries[k].value
  BY <1>3, <1>4 DEF Entry
<1>6. TypeOK'
  BY <1>1, <1>2, <1>3, <1>5 DEF Hit, IInv, TypeOK
<1>7. SizeBounded'
  BY <1>1 DEF IInv, SizeBounded
<1>8. ValuesAreOutcomes'
  BY <1>1, <1>2, <1>5 DEF IInv, ValuesAreOutcomes
<1>9. answer'.value = Outcome(k) /\ answer'.key = k
  BY <1>1 DEF Hit, IInv, ValuesAreOutcomes
<1> QED
  BY <1>6, <1>7, <1>8, <1>9 DEF IInv

\* An empty cache satisfies all of it.
LEMMA InitIInv == Init => IInv /\ TicksAreDistinct /\ CacheIsTransparent
<1> SUFFICES ASSUME Init PROVE IInv /\ TicksAreDistinct /\ CacheIsTransparent
  OBVIOUS
<1>1. DOMAIN entries = {} /\ next_tick = 0 /\ answer = <<>>
  BY DEF Init
<1> QED
  BY <1>1, FS_EmptySet, CapacityAssumption, TickAssumption
  DEF IInv, TypeOK, SizeBounded, ValuesAreOutcomes, TicksAreDistinct, CacheIsTransparent

\* All of it depends on the three variables only.
LEMMA StutterStep ==
    ASSUME UNCHANGED vars
    PROVE  /\ IInv => IInv'
           /\ TicksAreDistinct => TicksAreDistinct'
           /\ CacheIsTransparent => CacheIsTransparent'
BY DEF vars, IInv, TypeOK, SizeBounded, ValuesAreOutcomes, TicksAreDistinct,
       CacheIsTransparent

\* Whatever the tick does, a request keeps the types, the size and the values.
LEMMA RegexStep ==
    ASSUME IInv, NEW k \in Key, GetOrCompile(k)
    PROVE  IInv' /\ CacheIsTransparent'
<1>1. CASE Hit(k)
  BY <1>1, HitStep DEF CacheIsTransparent
<1>2. CASE /\ next_tick' = Tick
           /\ k \notin Valid
           /\ answer' = [key |-> k, value |-> Failed]
           /\ UNCHANGED entries
  <2>1. Tick \in Nat /\ Tick \in 0..TickModulus - 1
    BY TickType, TickAssumption DEF IInv, TypeOK
  <2>2. IInv'
    BY <1>2, <2>1 DEF IInv, TypeOK, SizeBounded, ValuesAreOutcomes
  <2> QED
    BY <1>2, <2>2 DEF CacheIsTransparent, Outcome
<1>3. CASE /\ next_tick' = Tick
           /\ k \notin DOMAIN entries
           /\ entries' \in Inserted(k, Tick)
           /\ answer' = [key |-> k, value |-> Outcome(k)]
  BY <1>3, InsertStep DEF CacheIsTransparent
<1> QED
  BY <1>1, <1>2, <1>3 DEF GetOrCompile

\* A parse request keeps the types, the size and the values.
LEMMA AstStep ==
    ASSUME IInv, NEW k \in Key, GetOrParse(k)
    PROVE  IInv'
BY HitStep, InsertStep DEF GetOrParse

\* The regex cache respects its bound and answers as Regex::new would, even
\* when the tick wraps around.
THEOREM RegexCacheTheorem == RegexSpec => [](SizeBounded /\ CacheIsTransparent)
<1>1. Init => IInv /\ CacheIsTransparent
  BY InitIInv
<1>2. IInv /\ CacheIsTransparent /\ [RegexNext]_vars => (IInv /\ CacheIsTransparent)'
  BY RegexStep, StutterStep DEF RegexNext
<1>3. IInv => SizeBounded
  BY DEF IInv
<1> QED
  BY <1>1, <1>2, <1>3, PTL DEF RegexSpec

\* The types and the size bound of the expression cache.
THEOREM AstCacheBounded == AstSpec => [](TypeOK /\ SizeBounded)
<1>1. Init => IInv
  BY InitIInv
<1>2. IInv /\ [AstNext]_vars => IInv'
  BY AstStep, StutterStep DEF AstNext
<1>3. IInv => TypeOK /\ SizeBounded
  BY DEF IInv
<1> QED
  BY <1>1, <1>2, <1>3, PTL DEF AstSpec

-----------------------------------------------------------------------------
\* With a tick ahead of every entry, the new entry survives the eviction it
\* causes, the ticks stay distinct, and the victims are older than the rest.
LEMMA FreshInsert ==
    ASSUME IInv, TicksAreDistinct, NEW k \in Key, k \notin DOMAIN entries,
           Tick = next_tick + 1, next_tick' = Tick, entries' \in Inserted(k, Tick)
    PROVE  /\ k \in DOMAIN entries'
           /\ TicksAreDistinct'
           /\ \A v \in DOMAIN entries \ DOMAIN entries',
                 s \in DOMAIN entries \cap DOMAIN entries' :
                    entries[v].last_used < entries[s].last_used
<1> DEFINE D == DOMAIN entries \cup {k}
           g == Grown(k, Tick)
<1>1. PICK V \in SUBSET D : Without(g, V, entries') /\ AreVictims(g, V)
  BY InsertedProperties DEF IInv
<1>2. DOMAIN g = D /\ g[k].last_used = next_tick + 1
  BY DEF Grown
<1>3. \A j \in DOMAIN entries : g[j] = entries[j] /\ g[j].last_used \in 0..next_tick
  BY DEF Grown, IInv, TypeOK, Entry, TicksAreDistinct
<1>4. next_tick \in Nat /\ IsFiniteSet(D)
  BY FS_AddElement DEF IInv, TypeOK, SizeBounded
<1>5. DOMAIN entries' = D \ V /\ \A j \in D \ V : entries'[j] = g[j]
  BY <1>1, <1>2 DEF Without
<1>6. \A i, j \in D : g[i].last_used = g[j].last_used => i = j
  BY <1>2, <1>3, <1>4 DEF TicksAreDistinct
<1>7. \A j \in D : g[j].last_used \in 0..next_tick + 1
  BY <1>2, <1>3, <1>4
<1> HIDE DEF g
<1>8. \A v \in V, s \in D \ V : g[v].last_used < g[s].last_used
  <2>1. CASE V = {}
    BY <2>1
  <2>2. CASE V # {}
    <3>1. PICK w \in D : /\ IsThreshold(g, w, Batch)
                         /\ \A v \in V : g[v].last_used <= g[w].last_used
      BY <1>1, <1>2, <2>2 DEF AreVictims
    <3>2. Cardinality(V) = Batch /\ Batch \in Nat
      BY <1>1, <2>2, CapacityAssumption DEF AreVictims
    <3>3. \A j \in D : g[j].last_used \in Nat
      BY <1>4, <1>7
    <3> QED
      BY <1>2, <1>4, <1>6, <3>1, <3>2, <3>3, VictimsAreOldest
  <2> QED
    BY <2>1, <2>2
<1>9. k \notin V
  <2> SUFFICES ASSUME k \in V PROVE FALSE
    OBVIOUS
  <2>1. Cardinality(D) = Capacity + 1 /\ Cardinality(V) = Batch
    BY <1>1, <1>2 DEF AreVictims
  <2>2. V # D
    BY <2>1, CapacityAssumption
  <2>3. PICK s \in D \ V : TRUE
    BY <2>2
  <2>4. g[k].last_used < g[s].last_used
    BY <1>8
  <2> QED
    BY <1>2, <1>4, <1>7, <2>4
<1>10. TicksAreDistinct'
  <2>1. \A j \in DOMAIN entries' : entries'[j].last_used <= next_tick'
    BY <1>4, <1>5, <1>7
  <2>2. \A i, j \in DOMAIN entries' :
          entries'[i].last_used = entries'[j].last_used => i = j
    BY <1>5, <1>6
  <2> QED
    BY <2>1, <2>2 DEF TicksAreDistinct
<1>11. \A v \in DOMAIN entries \ DOMAIN entries',
          s \in DOMAIN entries \cap DOMAIN entries' :
             entries[v].last_used < entries[s].last_used
  <2> SUFFICES ASSUME NEW v \in DOMAIN entries \ DOMAIN entries',
                      NEW s \in DOMAIN entries \cap DOMAIN entries'
               PROVE  entries[v].last_used < entries[s].last_used
    OBVIOUS
  <2>1. v \in V /\ s \in D \ V
    BY <1>5
  <2> QED
    BY <1>3, <1>8, <2>1
<1> QED
  BY <1>5, <1>9, <1>10, <1>11

\* A hit evicts nothing and leaves its entry the only one with the new tick.
LEMMA FreshHit ==
    ASSUME IInv, TicksAreDistinct, NEW k \in Key, Tick = next_tick + 1, Hit(k)
    PROVE  TicksAreDistinct' /\ DOMAIN entries' = DOMAIN entries
<1>1. /\ DOMAIN entries' = DOMAIN entries
      /\ \A j \in DOMAIN entries \ {k} : entries'[j] = entries[j]
      /\ next_tick' = next_tick + 1
      /\ next_tick \in Nat
      /\ \A j \in DOMAIN entries : entries[j].last_used \in 0..next_tick
  BY DEF Hit, IInv, TypeOK, Entry, TicksAreDistinct
<1>2. k \in DOMAIN entries /\ entries[k] \in Entry
  BY DEF Hit, IInv, TypeOK
<1>3. entries'[k].last_used = next_tick + 1
  <2>1. entries'[k] = [entries[k] EXCEPT !.last_used = next_tick + 1]
    BY <1>2 DEF Hit
  <2> QED
    BY <1>2, <2>1 DEF Entry
<1> QED
  BY <1>1, <1>3 DEF TicksAreDistinct

\* One parse request below the tick's bound.
LEMMA FreshAstStep ==
    ASSUME NoWrap, IInv, TicksAreDistinct, NEW k \in Key, next_tick < MaxTick, GetOrParse(k)
    PROVE  /\ TicksAreDistinct'
           /\ CacheIsTransparent'
           /\ \A v \in DOMAIN entries \ DOMAIN entries',
                 s \in DOMAIN entries \cap DOMAIN entries' :
                    entries[v].last_used < entries[s].last_used
<1>1. Tick = next_tick + 1
  BY TickWithoutWrap DEF IInv, TypeOK
<1>2. CASE Hit(k)
  BY <1>1, <1>2, HitStep, FreshHit DEF CacheIsTransparent
<1>3. CASE /\ next_tick' = Tick
           /\ k \notin DOMAIN entries
           /\ entries' \in Inserted(k, Tick)
           /\ answer' = [key |-> k,
                         value |-> IF k \in DOMAIN entries' THEN entries'[k].value ELSE Failed]
  <2>1. k \in DOMAIN entries'
    BY <1>1, <1>3, FreshInsert
  <2>2. entries'[k].value = Outcome(k)
    BY <1>3, <2>1, InsertStep DEF IInv, ValuesAreOutcomes
  <2> QED
    BY <1>1, <1>3, <2>1, <2>2, FreshInsert DEF CacheIsTransparent
<1> QED
  BY <1>2, <1>3 DEF GetOrParse

\* One compile request below the tick's bound.
LEMMA FreshRegexStep ==
    ASSUME NoWrap, IInv, TicksAreDistinct, NEW k \in Key, next_tick < MaxTick, GetOrCompile(k)
    PROVE  /\ TicksAreDistinct'
           /\ \A v \in DOMAIN entries \ DOMAIN entries',
                 s \in DOMAIN entries \cap DOMAIN entries' :
                    entries[v].last_used < entries[s].last_used
<1>1. Tick = next_tick + 1
  BY TickWithoutWrap DEF IInv, TypeOK
<1>2. CASE Hit(k)
  BY <1>1, <1>2, FreshHit
<1>3. CASE next_tick' = Tick /\ UNCHANGED entries
  BY <1>1, <1>3 DEF IInv, TypeOK, Entry, TicksAreDistinct
<1>4. CASE /\ next_tick' = Tick
           /\ k \notin DOMAIN entries
           /\ entries' \in Inserted(k, Tick)
  BY <1>1, <1>4, FreshInsert
<1> QED
  BY <1>2, <1>3, <1>4 DEF GetOrCompile

\* The expression cache is invisible: every expression gets the parse it would
\* get without a cache, so no eviction ever turns a valid one into a failure.
THEOREM AstCacheTransparent == ASSUME NoWrap PROVE AstSpec => []CacheIsTransparent
<1>1. Init => IInv /\ TicksAreDistinct /\ CacheIsTransparent
  BY InitIInv
<1>2. IInv /\ TicksAreDistinct /\ CacheIsTransparent /\ [AstNext]_vars
        => (IInv /\ TicksAreDistinct /\ CacheIsTransparent)'
  BY AstStep, FreshAstStep, StutterStep DEF AstNext
<1> QED
  BY <1>1, <1>2, PTL DEF AstSpec

\* Both caches evict their least recently used entries and no others.
THEOREM EvictionTheorem ==
    ASSUME NoWrap
    PROVE  /\ RegexSpec => EvictsLeastRecent
           /\ AstSpec => EvictsLeastRecent
<1> DEFINE Older == \A v \in DOMAIN entries \ DOMAIN entries',
                       s \in DOMAIN entries \cap DOMAIN entries' :
                          entries[v].last_used < entries[s].last_used
<1>1. Init => IInv /\ TicksAreDistinct
  BY InitIInv
<1>2. IInv /\ TicksAreDistinct /\ [RegexNext]_vars
        => (IInv /\ TicksAreDistinct)' /\ [Older]_vars
  BY RegexStep, FreshRegexStep, StutterStep DEF RegexNext
<1>3. IInv /\ TicksAreDistinct /\ [AstNext]_vars
        => (IInv /\ TicksAreDistinct)' /\ [Older]_vars
  BY AstStep, FreshAstStep, StutterStep DEF AstNext
<1>4. RegexSpec => EvictsLeastRecent
  BY <1>1, <1>2, PTL DEF RegexSpec, EvictsLeastRecent
<1>5. AstSpec => EvictsLeastRecent
  BY <1>1, <1>3, PTL DEF AstSpec, EvictsLeastRecent
<1> QED
  BY <1>4, <1>5

-----------------------------------------------------------------------------
\* The entries used more recently than k's, and the place that gives k.
Newer(es, k) == {j \in DOMAIN es : es[j].last_used > es[k].last_used}
Pos(es, k) == Cardinality(Newer(es, k)) + 1

\* The keys of es by their ticks, the newest first.
ListOf(es) ==
    [i \in 1..Cardinality(DOMAIN es) |->
        CHOOSE k \in DOMAIN es : Cardinality(Newer(es, k)) = i - 1]

\* A finite map whose ticks are numbers, all different.
Timed(es) ==
    /\ IsFiniteSet(DOMAIN es)
    /\ \A k \in DOMAIN es : es[k].last_used \in Nat
    /\ \A j, k \in DOMAIN es : es[j].last_used = es[k].last_used => j = k

\* The list the cache is compared with, now and after a step.
LEMMA RecencyIsListOf == Recency = ListOf(entries) /\ Recency' = ListOf(entries')
BY DEF Recency, ListOf, Newer

\* Counting the newer entries numbers the keys, the newest first.
LEMMA PositionsAreRanks ==
    ASSUME NEW es, Timed(es)
    PROVE  /\ Cardinality(DOMAIN es) \in Nat
           /\ \A k \in DOMAIN es : Pos(es, k) \in 1..Cardinality(DOMAIN es)
           /\ \A j, k \in DOMAIN es :
                 es[j].last_used > es[k].last_used => Pos(es, j) < Pos(es, k)
<1> DEFINE D == DOMAIN es
<1>1. IsFiniteSet(D) /\ Cardinality(D) \in Nat
  BY FS_CardinalityType DEF Timed
<1>2. ASSUME NEW k \in D
      PROVE  /\ IsFiniteSet(Newer(es, k))
             /\ Cardinality(Newer(es, k)) \in Nat
             /\ Cardinality(Newer(es, k)) < Cardinality(D)
  <2>1. Newer(es, k) \in SUBSET D /\ k \notin Newer(es, k)
    BY DEF Newer, Timed
  <2>2. Newer(es, k) # D
    BY <2>1
  <2> QED
    BY <1>1, <2>1, <2>2, FS_Subset, FS_CardinalityType
<1>3. ASSUME NEW j \in D, NEW k \in D, es[j].last_used > es[k].last_used
      PROVE  Cardinality(Newer(es, j)) < Cardinality(Newer(es, k))
  <2>1. Newer(es, j) \in SUBSET Newer(es, k)
    BY <1>3 DEF Newer, Timed
  <2>2. j \in Newer(es, k) /\ j \notin Newer(es, j)
    BY <1>3 DEF Newer, Timed
  <2>3. Newer(es, j) # Newer(es, k)
    BY <2>2
  <2> QED
    BY <1>2, <2>1, <2>3, FS_Subset
<1> QED
  BY <1>1, <1>2, <1>3 DEF Pos

\* Every place is some key's: as many keys as places, no two at the same.
LEMMA EveryPlaceIsTaken ==
    ASSUME NEW es, Timed(es), NEW i \in 1..Cardinality(DOMAIN es)
    PROVE  \E k \in DOMAIN es : Pos(es, k) = i
<1> DEFINE D == DOMAIN es
           N == Cardinality(D)
           f == [k \in D |-> Pos(es, k)]
<1>1. N \in Nat /\ IsFiniteSet(D) /\ f \in [D -> 1..N]
  BY PositionsAreRanks DEF Timed
<1>2. IsFiniteSet(1..N) /\ Cardinality(1..N) = N
  BY <1>1, FS_Interval
<1>3. ASSUME NEW j \in D, NEW k \in D, f[j] = f[k] PROVE j = k
  <2>1. Pos(es, j) = Pos(es, k) /\ Pos(es, j) \in Nat
    BY <1>1, <1>3, PositionsAreRanks
  <2>2. ~(es[j].last_used > es[k].last_used) /\ ~(es[k].last_used > es[j].last_used)
    BY <2>1, PositionsAreRanks
  <2> QED
    BY <2>2 DEF Timed
<1>4. f \in Injection(D, 1..N)
  BY <1>1, <1>3, Fun_IsInj
<1> HIDE DEF f
<1>5. f \in Surjection(D, 1..N)
  BY <1>1, <1>2, <1>4, FS_Injection, FS_Surjection
<1>6. \E k \in D : f[k] = i
  BY <1>5 DEF Surjection
<1> QED
  BY <1>6 DEF f

\* The list holds each key at its place, and is the only one that does.
LEMMA ListHoldsKeys ==
    ASSUME NEW es, Timed(es)
    PROVE  /\ \A k \in DOMAIN es : ListOf(es)[Pos(es, k)] = k
           /\ \A s : /\ DOMAIN s = 1..Cardinality(DOMAIN es)
                     /\ s = [i \in DOMAIN s |-> s[i]]
                     /\ \A k \in DOMAIN es : s[Pos(es, k)] = k
                     => s = ListOf(es)
<1> DEFINE D == DOMAIN es
<1>1. ASSUME NEW k \in D PROVE ListOf(es)[Pos(es, k)] = k
  <2>1. Pos(es, k) \in 1..Cardinality(D) /\ Cardinality(D) \in Nat
    BY PositionsAreRanks
  <2>2. ASSUME NEW j \in D, Cardinality(Newer(es, j)) = Pos(es, k) - 1
        PROVE  j = k
    <3>1. Pos(es, j) = Pos(es, k) /\ Pos(es, k) \in Nat
      BY <2>1, <2>2 DEF Pos
    <3>2. ~(es[j].last_used > es[k].last_used) /\ ~(es[k].last_used > es[j].last_used)
      BY <3>1, PositionsAreRanks
    <3> QED
      BY <3>2 DEF Timed
  <2>3. Newer(es, k) \in SUBSET D
    BY DEF Newer
  <2>4. Cardinality(Newer(es, k)) = Pos(es, k) - 1
    BY <2>3, FS_Subset, FS_CardinalityType DEF Pos, Timed
  <2>5. (CHOOSE j \in D : Cardinality(Newer(es, j)) = Pos(es, k) - 1) = k
    BY <2>2, <2>4
  <2> QED
    BY <2>1, <2>5 DEF ListOf
<1>2. ASSUME NEW s, DOMAIN s = 1..Cardinality(D), s = [i \in DOMAIN s |-> s[i]],
             \A k \in D : s[Pos(es, k)] = k
      PROVE  s = ListOf(es)
  <2>1. ASSUME NEW i \in 1..Cardinality(D) PROVE s[i] = ListOf(es)[i]
    BY <1>1, <1>2, EveryPlaceIsTaken
  <2> DEFINE l == ListOf(es)
  <2>2. DOMAIN l = 1..Cardinality(D) /\ l = [i \in 1..Cardinality(D) |-> l[i]]
    BY DEF ListOf
  <2> HIDE DEF l
  <2>3. \A i \in 1..Cardinality(D) : s[i] = l[i]
    BY <2>1 DEF l
  <2> QED
    BY <1>2, <2>2, <2>3 DEF l
<1> QED
  BY <1>1, <1>2

\* Once k is the newest, a key newer than k's old entry moves one place back, and
\* the others stay.
LEMMA PlacesAfterHit ==
    ASSUME NEW es, Timed(es), NEW fs, Timed(fs), NEW k \in DOMAIN es,
           DOMAIN fs = DOMAIN es,
           \A j \in DOMAIN es \ {k} : fs[j] = es[j] /\ fs[j].last_used < fs[k].last_used
    PROVE  /\ Pos(fs, k) = 1
           /\ \A j \in DOMAIN es \ {k} :
                 Pos(fs, j) = IF es[j].last_used > es[k].last_used THEN Pos(es, j) + 1
                              ELSE Pos(es, j)
<1> DEFINE D == DOMAIN es
<1>1. /\ \A j \in D : fs[j].last_used \in Nat /\ es[j].last_used \in Nat
      /\ \A i, j \in D : es[i].last_used = es[j].last_used => i = j
      /\ IsFiniteSet(D)
  BY DEF Timed
<1>2. Newer(fs, k) = {}
  BY <1>1 DEF Newer
<1>3. ASSUME NEW j \in D \ {k}, es[j].last_used > es[k].last_used
      PROVE  Pos(fs, j) = Pos(es, j) + 1
  <2>1. Newer(fs, j) = Newer(es, j) \cup {k} /\ k \notin Newer(es, j)
    BY <1>1, <1>3 DEF Newer
  <2>2. Newer(es, j) \in SUBSET D
    BY DEF Newer
  <2>3. IsFiniteSet(Newer(es, j))
    BY <1>1, <2>2, FS_Subset
  <2> QED
    BY <2>1, <2>3, FS_AddElement DEF Pos
<1>4. ASSUME NEW j \in D \ {k}, ~(es[j].last_used > es[k].last_used)
      PROVE  Pos(fs, j) = Pos(es, j)
  <2>1. es[k].last_used > es[j].last_used
    BY <1>1, <1>4
  <2>2. Newer(fs, j) = Newer(es, j)
    BY <1>1, <2>1 DEF Newer
  <2> QED
    BY <2>2 DEF Pos
<1> QED
  BY <1>2, <1>3, <1>4, FS_EmptySet DEF Pos

\* A new entry takes the first place and pushes what is left of the others one
\* place back, when the entries that go are older than those that stay.
LEMMA PlacesAfterMiss ==
    ASSUME NEW es, Timed(es), NEW fs, Timed(fs), NEW k \in DOMAIN fs, k \notin DOMAIN es,
           DOMAIN fs \subseteq DOMAIN es \cup {k},
           \A j \in DOMAIN fs \ {k} : fs[j] = es[j] /\ fs[j].last_used < fs[k].last_used,
           \A v \in DOMAIN es \ DOMAIN fs, s \in DOMAIN es \cap DOMAIN fs :
              es[v].last_used < es[s].last_used
    PROVE  /\ Pos(fs, k) = 1
           /\ \A j \in DOMAIN fs \ {k} : Pos(fs, j) = Pos(es, j) + 1
<1> DEFINE D == DOMAIN fs \ {k}
<1>1. /\ \A j \in DOMAIN fs : fs[j].last_used \in Nat
      /\ \A j \in DOMAIN es : es[j].last_used \in Nat
      /\ IsFiniteSet(DOMAIN es)
  BY DEF Timed
<1>2. Newer(fs, k) = {}
  BY <1>1 DEF Newer
<1>3. ASSUME NEW j \in D
      PROVE  Pos(fs, j) = Pos(es, j) + 1
  <2>1. Newer(es, j) \in SUBSET DOMAIN es /\ k \notin Newer(es, j)
    BY DEF Newer
  <2>2. ASSUME NEW i \in Newer(es, j) PROVE i \in Newer(fs, j)
    <3>1. i \in DOMAIN es /\ es[i].last_used > es[j].last_used
      BY DEF Newer
    <3>2. i \in DOMAIN fs /\ i # k
      BY <1>1, <3>1
    <3> QED
      BY <3>1, <3>2 DEF Newer
  <2>3. ASSUME NEW i \in Newer(fs, j), i # k PROVE i \in Newer(es, j)
    BY <2>3 DEF Newer
  <2>4. k \in Newer(fs, j)
    BY <1>1 DEF Newer
  <2>5. Newer(fs, j) = Newer(es, j) \cup {k}
    BY <2>2, <2>3, <2>4
  <2>6. IsFiniteSet(Newer(es, j))
    BY <1>1, <2>1, FS_Subset
  <2> QED
    BY <2>1, <2>5, <2>6, FS_AddElement DEF Pos
<1> QED
  BY <1>2, <1>3, FS_EmptySet DEF Pos

\* A hit moves its key to the front of the list.
LEMMA HitMovesToFront ==
    ASSUME NEW es, Timed(es), NEW fs, Timed(fs), NEW k \in DOMAIN es,
           DOMAIN fs = DOMAIN es,
           \A j \in DOMAIN es \ {k} : fs[j] = es[j] /\ fs[j].last_used < fs[k].last_used,
           NEW l, l = ListOf(es), NEW p, p = Pos(es, k)
    PROVE  /\ p \in DOMAIN l /\ l[p] = k
           /\ ListOf(fs) = [i \in DOMAIN l |->
                 IF i = 1 THEN l[p] ELSE IF i <= p THEN l[i - 1] ELSE l[i]]
<1> DEFINE D == DOMAIN es
           N == Cardinality(D)
           s == [i \in DOMAIN l |-> IF i = 1 THEN l[p] ELSE IF i <= p THEN l[i - 1] ELSE l[i]]
<1>1. DOMAIN l = 1..N
  BY DEF ListOf
<1>2. N \in Nat /\ \A j \in D : /\ Pos(es, j) \in 1..N
                               /\ Pos(fs, j) \in 1..N
                               /\ l[Pos(es, j)] = j
  BY PositionsAreRanks, ListHoldsKeys
<1>3. s[Pos(fs, k)] = k
  BY <1>1, <1>2, PlacesAfterHit
<1>4. ASSUME NEW j \in D \ {k} PROVE s[Pos(fs, j)] = j
  <2>1. es[j].last_used \in Nat /\ es[k].last_used \in Nat /\ es[j].last_used # es[k].last_used
    BY DEF Timed
  <2>2. CASE es[j].last_used > es[k].last_used
    <3>1. Pos(fs, j) = Pos(es, j) + 1 /\ Pos(es, j) < p
      BY <2>2, PlacesAfterHit, PositionsAreRanks
    <3>2. /\ Pos(fs, j) \in 1..N /\ Pos(fs, j) # 1 /\ Pos(fs, j) <= p
          /\ Pos(fs, j) - 1 = Pos(es, j)
      BY <1>2, <3>1
    <3> QED
      BY <1>1, <1>2, <3>2
  <2>3. CASE es[k].last_used > es[j].last_used
    <3>1. Pos(fs, j) = Pos(es, j) /\ p < Pos(es, j)
      BY <2>1, <2>3, PlacesAfterHit, PositionsAreRanks
    <3>2. Pos(fs, j) \in 1..N /\ Pos(fs, j) # 1 /\ ~(Pos(fs, j) <= p)
      BY <1>2, <3>1
    <3> QED
      BY <1>1, <1>2, <3>1, <3>2
  <2> QED
    BY <2>1, <2>2, <2>3
<1>5. DOMAIN s = 1..Cardinality(DOMAIN fs) /\ s = [i \in DOMAIN s |-> s[i]]
  BY <1>1
<1> HIDE DEF s
<1>6. s = ListOf(fs)
  <2>1. \A j \in DOMAIN fs : s[Pos(fs, j)] = j
    BY <1>3, <1>4
  <2> QED
    BY <1>5, <2>1, ListHoldsKeys
<1> QED
  BY <1>1, <1>2, <1>6 DEF s

\* A miss puts its key in front and leaves as much of the list as fits behind.
LEMMA MissPutsInFront ==
    ASSUME NEW es, Timed(es), NEW fs, Timed(fs), NEW k \in DOMAIN fs, k \notin DOMAIN es,
           DOMAIN fs \subseteq DOMAIN es \cup {k},
           \A j \in DOMAIN fs \ {k} : fs[j] = es[j] /\ fs[j].last_used < fs[k].last_used,
           \A v \in DOMAIN es \ DOMAIN fs, s \in DOMAIN es \cap DOMAIN fs :
              es[v].last_used < es[s].last_used,
           NEW l, l = ListOf(es), NEW n, n = Cardinality(DOMAIN fs)
    PROVE  /\ \A i \in DOMAIN l : l[i] # k
           /\ ListOf(fs) = [i \in 1..n |-> IF i = 1 THEN k ELSE l[i - 1]]
<1> DEFINE s == [i \in 1..n |-> IF i = 1 THEN k ELSE l[i - 1]]
<1>1. /\ n \in Nat
      /\ \A j \in DOMAIN fs : Pos(fs, j) \in 1..n
      /\ \A j \in DOMAIN es : l[Pos(es, j)] = j /\ Pos(es, j) \in Nat \ {0}
  BY PositionsAreRanks, ListHoldsKeys
<1>2. s[Pos(fs, k)] = k
  BY <1>1, PlacesAfterMiss
<1>3. ASSUME NEW j \in DOMAIN fs \ {k} PROVE s[Pos(fs, j)] = j
  <2>1. Pos(fs, j) = Pos(es, j) + 1 /\ j \in DOMAIN es
    BY PlacesAfterMiss
  <2>2. Pos(fs, j) \in 1..n /\ Pos(fs, j) # 1 /\ Pos(fs, j) - 1 = Pos(es, j)
    BY <1>1, <2>1
  <2> QED
    BY <1>1, <2>1, <2>2
<1>4. DOMAIN s = 1..Cardinality(DOMAIN fs) /\ s = [i \in DOMAIN s |-> s[i]]
  OBVIOUS
<1> HIDE DEF s
<1>5. s = ListOf(fs)
  <2>1. \A j \in DOMAIN fs : s[Pos(fs, j)] = j
    BY <1>2, <1>3
  <2> QED
    BY <1>4, <2>1, ListHoldsKeys
<1>6. ASSUME NEW i \in DOMAIN l PROVE l[i] # k
  <2>1. i \in 1..Cardinality(DOMAIN es)
    BY DEF ListOf
  <2>2. PICK j \in DOMAIN es : Pos(es, j) = i
    BY <2>1, EveryPlaceIsTaken
  <2> QED
    BY <1>1, <2>2
<1> QED
  BY <1>5, <1>6 DEF s

\* The list of a map is a sequence as long as the map is large.
LEMMA ListLength ==
    ASSUME NEW es, Timed(es)
    PROVE  Len(ListOf(es)) = Cardinality(DOMAIN es)
<1>1. DOMAIN ListOf(es) = 1..Cardinality(DOMAIN es) /\ Cardinality(DOMAIN es) \in Nat
  BY PositionsAreRanks DEF ListOf
<1>2. ListOf(es) = [i \in 1..Cardinality(DOMAIN es) |-> ListOf(es)[i]]
  BY DEF ListOf
<1>3. ListOf(es) \in Seq({ListOf(es)[i] : i \in 1..Cardinality(DOMAIN es)})
  BY <1>1, <1>2, SeqDef
<1> QED
  BY <1>1, <1>3, LenProperties

-----------------------------------------------------------------------------
\* The cache as its invariants describe it: ticks are numbers, all different.
LEMMA EntriesAreTimed ==
    /\ IInv /\ TicksAreDistinct => Timed(entries)
    /\ IInv' /\ TicksAreDistinct' => Timed(entries')
BY DEF IInv, TypeOK, Entry, SizeBounded, TicksAreDistinct, Timed

\* A request answered from the cache is the list's first alternative.
LEMMA HitRefines ==
    ASSUME NoWrap, IInv, TicksAreDistinct, NEW k \in Key, next_tick < MaxTick, Hit(k)
    PROVE  AstList!Request(k)
<1>1. Tick = next_tick + 1 /\ next_tick \in Nat
  BY TickWithoutWrap DEF IInv, TypeOK
<1>2. IInv' /\ TicksAreDistinct' /\ k \in DOMAIN entries /\ DOMAIN entries' = DOMAIN entries
  BY <1>1, HitStep, FreshHit DEF Hit
<1>3. answer' = [key |-> k, value |-> Outcome(k)]
  BY <1>2 DEF Hit, IInv, ValuesAreOutcomes
<1>4. Timed(entries) /\ Timed(entries')
  BY <1>2, EntriesAreTimed
<1>5. \A j \in DOMAIN entries \ {k} :
         entries'[j] = entries[j] /\ entries'[j].last_used < entries'[k].last_used
  <2>1. \A j \in DOMAIN entries : entries[j] \in Entry /\ entries[j].last_used <= next_tick
    BY DEF IInv, TypeOK, TicksAreDistinct
  <2>2. /\ entries'[k] = [entries[k] EXCEPT !.last_used = Tick]
        /\ \A j \in DOMAIN entries \ {k} : entries'[j] = entries[j]
    BY <1>2 DEF Hit
  <2>3. entries'[k].last_used = Tick
    BY <1>2, <2>1, <2>2 DEF Entry
  <2> QED
    BY <1>1, <2>1, <2>2, <2>3 DEF Entry
<1>6. PICK l, fs : l = Recency /\ fs = entries'
  OBVIOUS
<1>7. PICK es : es = entries
  OBVIOUS
<1>8. l = ListOf(es) /\ Recency' = ListOf(fs)
  BY <1>6, <1>7, RecencyIsListOf
<1>9. PICK p : p = Pos(es, k)
  OBVIOUS
<1>10. /\ p \in DOMAIN l /\ l[p] = k
       /\ ListOf(fs) = [i \in DOMAIN l |->
             IF i = 1 THEN l[p] ELSE IF i <= p THEN l[i - 1] ELSE l[i]]
  BY <1>2, <1>4, <1>5, <1>6, <1>7, <1>8, <1>9, HitMovesToFront
<1>11. \E p_1 \in DOMAIN Recency :
          Recency[p_1] = k /\ Recency' = AstList!ToFront(p_1)
  BY <1>6, <1>8, <1>10 DEF AstList!ToFront
<1> QED
  BY <1>3, <1>11 DEF AstList!Request

\* A request that inserts is its second.
LEMMA MissRefines ==
    ASSUME NoWrap, IInv, TicksAreDistinct, NEW k \in Key, next_tick < MaxTick,
           GetOrParse(k), k \notin DOMAIN entries
    PROVE  AstList!Request(k)
<1>1. Tick = next_tick + 1 /\ next_tick \in Nat
  BY TickWithoutWrap DEF IInv, TypeOK
<1>2. next_tick' = Tick /\ entries' \in Inserted(k, Tick)
  BY DEF GetOrParse, Hit
<1>3. /\ IInv' /\ TicksAreDistinct' /\ k \in DOMAIN entries'
      /\ \A v \in DOMAIN entries \ DOMAIN entries',
            s \in DOMAIN entries \cap DOMAIN entries' :
               entries[v].last_used < entries[s].last_used
  BY <1>1, <1>2, InsertStep, FreshInsert
<1>4. answer' = [key |-> k, value |-> Outcome(k)]
  <2>1. answer' = [key |-> k, value |-> IF k \in DOMAIN entries' THEN entries'[k].value ELSE Failed]
    BY DEF GetOrParse, Hit
  <2> QED
    BY <1>3, <2>1 DEF IInv, ValuesAreOutcomes
<1>5. Timed(entries) /\ Timed(entries')
  BY <1>3, EntriesAreTimed
<1>6. PICK V \in SUBSET (DOMAIN entries \cup {k}) :
        /\ Without(Grown(k, Tick), V, entries')
        /\ Cardinality(DOMAIN entries') <= Capacity
        /\ AreVictims(Grown(k, Tick), V)
  BY <1>2, InsertedProperties DEF IInv
<1>7. /\ DOMAIN entries' = (DOMAIN entries \cup {k}) \ V
      /\ entries'[k].last_used = Tick
      /\ \A j \in DOMAIN entries' \ {k} : entries'[j] = entries[j]
  <2> DEFINE g == Grown(k, Tick)
  <2>1. /\ DOMAIN g = DOMAIN entries \cup {k}
        /\ g[k].last_used = Tick
        /\ \A j \in DOMAIN entries : g[j] = entries[j]
    BY DEF Grown
  <2> HIDE DEF g
  <2>2. DOMAIN entries' = DOMAIN g \ V /\ \A j \in DOMAIN entries' : entries'[j] = g[j]
    BY <1>6 DEF Without, g
  <2> QED
    BY <1>3, <2>1, <2>2
<1>8. \A j \in DOMAIN entries' \ {k} :
         entries'[j] = entries[j] /\ entries'[j].last_used < entries'[k].last_used
  <2>1. \A j \in DOMAIN entries : entries[j] \in Entry /\ entries[j].last_used <= next_tick
    BY DEF IInv, TypeOK, TicksAreDistinct
  <2> QED
    BY <1>1, <1>7, <2>1 DEF Entry
<1>9. Cardinality(DOMAIN entries') =
        IF Cardinality(DOMAIN entries) < Capacity THEN Cardinality(DOMAIN entries) + 1
        ELSE Cardinality(DOMAIN entries) + 1 - Batch
  <2> DEFINE D == DOMAIN entries \cup {k}
  <2>1. /\ IsFiniteSet(D) /\ Cardinality(D) = Cardinality(DOMAIN entries) + 1
        /\ Cardinality(DOMAIN entries) \in Nat
        /\ Cardinality(DOMAIN entries) <= Capacity
        /\ Capacity \in Nat /\ Batch \in 1..Capacity
    BY FS_AddElement, FS_CardinalityType, CapacityAssumption DEF IInv, SizeBounded
  <2>2. CASE V = {}
    <3>1. DOMAIN entries' = D
      BY <1>7, <2>2
    <3> QED
      BY <1>6, <2>1, <3>1
  <2>3. CASE V # {}
    <3>1. Cardinality(D) = Capacity + 1 /\ Cardinality(V) = Batch
      BY <1>6, <2>3 DEF AreVictims, Grown
    <3>2. D \cap V = V /\ DOMAIN entries' = D \ V
      BY <1>7
    <3>3. Cardinality(D \ V) = Cardinality(D) - Cardinality(D \cap V)
      BY <2>1, FS_Difference
    <3>4. Cardinality(DOMAIN entries') = (Capacity + 1) - Batch
      BY <3>1, <3>2, <3>3, Zenon
    <3> QED
      BY <2>1, <3>1, <3>4
  <2> QED
    BY <2>2, <2>3
<1>10. PICK l, fs : l = Recency /\ fs = entries'
  OBVIOUS
<1>11. PICK es : es = entries
  OBVIOUS
<1>12. PICK n : n = Cardinality(DOMAIN fs)
  OBVIOUS
<1>13. l = ListOf(es) /\ Recency' = ListOf(fs)
  BY <1>10, <1>11, RecencyIsListOf
<1>14. /\ \A i \in DOMAIN l : l[i] # k
       /\ ListOf(fs) = [i \in 1..n |-> IF i = 1 THEN k ELSE l[i - 1]]
  <2>1. DOMAIN fs \subseteq DOMAIN es \cup {k}
    BY <1>7, <1>10, <1>11
  <2> QED
    BY <1>3, <1>5, <1>8, <1>10, <1>11, <1>12, <1>13, <2>1, MissPutsInFront
<1>15. Recency' = AstList!InFront(k, n) /\ \A p \in DOMAIN Recency : Recency[p] # k
  BY <1>10, <1>13, <1>14 DEF AstList!InFront
<1>16. Len(Recency) = Cardinality(DOMAIN entries)
  BY <1>5, RecencyIsListOf, ListLength
<1>17. n = IF Len(Recency) < Capacity THEN Len(Recency) + 1 ELSE Len(Recency) + 1 - Batch
  BY <1>9, <1>10, <1>12, <1>16
<1> QED
  BY <1>4, <1>15, <1>17 DEF AstList!Request

\* Below the wrap of the tick, the expression cache is a list of its keys in the
\* order of their last use: each request is one step of the list, so a hit moves
\* its key to the front, and a miss drops the tail of the list and nothing else.
THEOREM AstCacheRefinesList == ASSUME NoWrap PROVE AstSpec => AstImplementsList
<1>1. Init => IInv /\ TicksAreDistinct
  BY InitIInv
<1>2. IInv /\ TicksAreDistinct /\ [AstNext]_vars => (IInv /\ TicksAreDistinct)'
  BY AstStep, FreshAstStep, StutterStep DEF AstNext
<1>3. Init => AstList!Init
  <2> SUFFICES ASSUME Init PROVE AstList!Init
    OBVIOUS
  <2>1. DOMAIN entries = {} /\ answer = <<>>
    BY DEF Init
  <2>2. Cardinality(DOMAIN entries) = 0
    BY <2>1, FS_EmptySet
  <2>3. Recency = <<>>
    BY <2>2 DEF Recency
  <2> QED
    BY <2>1, <2>3 DEF AstList!Init
<1>4. IInv /\ TicksAreDistinct /\ [AstNext]_vars => [AstList!Next]_(AstList!vars)
  <2> SUFFICES ASSUME IInv, TicksAreDistinct, [AstNext]_vars
               PROVE  [AstList!Next]_(AstList!vars)
    OBVIOUS
  <2>1. CASE AstNext
    <3>1. PICK k \in Key : next_tick < MaxTick /\ GetOrParse(k)
      BY <2>1 DEF AstNext
    <3>2. AstList!Request(k)
      <4>1. CASE Hit(k)
        BY <3>1, <4>1, HitRefines
      <4>2. CASE k \notin DOMAIN entries
        BY <3>1, <4>2, MissRefines
      <4> QED
        BY <3>1, <4>1, <4>2 DEF GetOrParse
    <3> QED
      BY <3>2 DEF AstList!Next
  <2>2. CASE UNCHANGED vars
    BY <2>2 DEF vars, AstList!vars, Recency
  <2> QED
    BY <2>1, <2>2
<1> QED
  BY <1>1, <1>2, <1>3, <1>4, PTL DEF AstSpec, AstImplementsList, AstList!Spec
=============================================================================
