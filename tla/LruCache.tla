------------------------------ MODULE LruCache ------------------------------
(***************************************************************************)
(* dsl/cache.rs: the two thread-local caches of the DSL evaluator, one of  *)
(* compiled regexes (RegexCache) and one of parsed expressions (AstCache). *)
(* They share their fields and their eviction; they differ in what a miss  *)
(* does with a key that fails to compile or parse.  A behaviour is one     *)
(* cache of one thread.                                                    *)
(***************************************************************************)
EXTENDS Integers, FiniteSets

CONSTANTS
    Key,          \* Regex patterns, or DSL expressions.
    Valid,        \* The keys that compile, or parse.
    Capacity,     \* REGEX_CACHE_CAPACITY, DSL_AST_CACHE_CAPACITY.
    Batch,        \* ..._EVICTION_BATCH_SIZE.
    TickModulus,  \* next_tick is a wrapping u64: 2^64 in the code.
    MaxTick       \* Bound: no request is made once next_tick reaches it.

ASSUME ValidAssumption    == Valid \subseteq Key
ASSUME CapacityAssumption == Capacity \in Nat /\ Batch \in 1..Capacity
ASSUME TickAssumption     == TickModulus \in Nat \ {0} /\ MaxTick \in Nat

VARIABLES
    entries,      \* The map from a key to its value and its last_used tick.
    next_tick,
    answer        \* The last request and what it returned.

vars == <<entries, next_tick, answer>>

Failed == [ok |-> FALSE]

\* What the compiler or the parser makes of a key, every time it is asked.
Outcome(k) == IF k \in Valid THEN [ok |-> TRUE, of |-> k] ELSE Failed

Init ==
    /\ entries   = [k \in {} |-> 0]
    /\ next_tick = 0
    /\ answer    = <<>>

-----------------------------------------------------------------------------
Least(m, n) == IF m <= n THEN m ELSE n

\* A slip: take the tick after the threshold.
NextThreshold(es, w, n) ==
    /\ Cardinality({k \in DOMAIN es : es[k].last_used <= es[w].last_used}) >= n + 1
    /\ Cardinality({k \in DOMAIN es : es[k].last_used < es[w].last_used}) < n + 1

\* The tick of w is times[eviction_count - 1], the n-th smallest of all ticks.
IsThreshold(es, w, n) ==
    /\ Cardinality({k \in DOMAIN es : es[k].last_used <= es[w].last_used}) >= n
    /\ Cardinality({k \in DOMAIN es : es[k].last_used < es[w].last_used}) < n

\* The maps evict_lru may leave: n entries no younger than the threshold are
\* gone.  Entries that share a tick go in the order of the hash map, any order.
Evicted(es) ==
    LET n == Least(Cardinality(DOMAIN es), Batch)
    IN  {[k \in DOMAIN es \ victims |-> es[k]] : victims \in
            {V \in SUBSET DOMAIN es :
                /\ Cardinality(V) = n
                /\ \E w \in DOMAIN es :
                      /\ IsThreshold(es, w, n)
                      /\ \A v \in V : es[v].last_used <= es[w].last_used}}

\* The map with k added, before any eviction.
Grown(k, tick) ==
    [j \in DOMAIN entries \cup {k} |->
        IF j = k THEN [value |-> Outcome(k), last_used |-> tick] ELSE entries[j]]

\* Slips: evict when the cache is only full; never evict; insert with a tick of
\* the past.
InsertedEarlyEviction(k, tick) ==
    IF Cardinality(DOMAIN Grown(k, tick)) >= Capacity THEN Evicted(Grown(k, tick))
    ELSE {Grown(k, tick)}
InsertedUnbounded(k, tick) == {Grown(k, tick)}
InsertedStale(k, tick) ==
    IF Cardinality(DOMAIN Grown(k, 0)) > Capacity THEN Evicted(Grown(k, 0)) ELSE {Grown(k, 0)}

\* Insert k with the current tick, then evict when that is one entry too many.
Inserted(k, tick) ==
    IF Cardinality(DOMAIN Grown(k, tick)) > Capacity THEN Evicted(Grown(k, tick))
    ELSE {Grown(k, tick)}

Tick == (next_tick + 1) % TickModulus

\* A hit of either cache renews the entry's tick and returns its value.
Hit(k) ==
    /\ next_tick' = Tick
    /\ k \in DOMAIN entries
    /\ entries' = [entries EXCEPT ![k].last_used = Tick]
    /\ answer'  = [key |-> k, value |-> entries[k].value]

\* RegexCache::get_or_compile keeps what compiles only; a failure still costs a
\* tick.
GetOrCompile(k) ==
    \/ Hit(k)
    \/ /\ next_tick' = Tick
       /\ k \notin DOMAIN entries
       /\ k \notin Valid
       /\ answer' = [key |-> k, value |-> Failed]
       /\ UNCHANGED entries
    \/ /\ next_tick' = Tick
       /\ k \notin DOMAIN entries
       /\ k \in Valid
       /\ entries' \in Inserted(k, Tick)
       /\ answer' = [key |-> k, value |-> Outcome(k)]

\* AstCache::get_or_parse keeps failures too, and looks the key up again after
\* the eviction: an expression evicted at once would be answered as invalid.
GetOrParse(k) ==
    \/ Hit(k)
    \/ /\ next_tick' = Tick
       /\ k \notin DOMAIN entries
       /\ entries' \in Inserted(k, Tick)
       /\ answer' = [key |-> k,
                     value |-> IF k \in DOMAIN entries' THEN entries'[k].value ELSE Failed]

RegexNext == \E k \in Key : next_tick < MaxTick /\ GetOrCompile(k)
AstNext   == \E k \in Key : next_tick < MaxTick /\ GetOrParse(k)

RegexSpec == Init /\ [][RegexNext]_vars
AstSpec   == Init /\ [][AstNext]_vars

-----------------------------------------------------------------------------
Entry == [value : {Outcome(k) : k \in Key}, last_used : Nat]

\* The shape of the map, and a tick that stays within its width.
TypeOK ==
    /\ DOMAIN entries \subseteq Key
    /\ \A k \in DOMAIN entries : entries[k] \in Entry
    /\ next_tick \in 0..TickModulus - 1

\* The cache never holds more than Capacity entries, wrap-around or not.
SizeBounded == IsFiniteSet(DOMAIN entries) /\ Cardinality(DOMAIN entries) <= Capacity

\* A request is answered with what the compiler or the parser would answer: no
\* history of hits, insertions and evictions changes what an expression means.
CacheIsTransparent == answer # <<>> => answer.value = Outcome(answer.key)

\* Every entry that is evicted was used longer ago than every one that stays.
EvictsLeastRecent ==
    [][\A v \in DOMAIN entries \ DOMAIN entries', s \in DOMAIN entries \cap DOMAIN entries' :
          entries[v].last_used < entries[s].last_used]_vars

\* The cached keys, the most recently used first.
Recency ==
    [i \in 1..Cardinality(DOMAIN entries) |->
        CHOOSE k \in DOMAIN entries :
            Cardinality({j \in DOMAIN entries :
                entries[j].last_used > entries[k].last_used}) = i - 1]

AstList == INSTANCE RecencyList WITH recent <- Recency

\* The AST cache, which keeps every key it is asked for, is a list of its most
\* recently used keys.
AstImplementsList == AstList!Spec
=============================================================================
