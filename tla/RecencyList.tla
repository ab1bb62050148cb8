---------------------------- MODULE RecencyList ----------------------------
(***************************************************************************)
(* What a bounded cache in front of a pure function promises: the answer   *)
(* is always what the function itself returns, and the cache holds the     *)
(* keys used most recently, dropping the oldest Batch of them at once when *)
(* it outgrows Capacity.  The AST cache of LruCache implements this         *)
(* specification.                                                          *)
(***************************************************************************)
EXTENDS Integers, Sequences

CONSTANTS
    Key,         \* What is asked for.
    Capacity,    \* The largest number of keys kept.
    Batch,       \* How many keys are dropped at once.
    Outcome(_)   \* The function the cache stands in front of.

VARIABLES
    recent,      \* The keys kept, the most recently used first.
    answer       \* The last request and what it got.

vars == <<recent, answer>>

Init ==
    /\ recent = <<>>
    /\ answer = <<>>

\* The list when k is in front of the keys kept, and n keys remain.
InFront(k, n) == [i \in 1..n |-> IF i = 1 THEN k ELSE recent[i - 1]]

\* The key at position p moves to the front.
ToFront(p) ==
    [i \in DOMAIN recent |->
        IF i = 1 THEN recent[p] ELSE IF i <= p THEN recent[i - 1] ELSE recent[i]]

Request(k) ==
    /\ answer' = [key |-> k, value |-> Outcome(k)]
    /\ \/ \E p \in DOMAIN recent : recent[p] = k /\ recent' = ToFront(p)
       \/ /\ \A p \in DOMAIN recent : recent[p] # k
          /\ recent' = IF Len(recent) < Capacity THEN InFront(k, Len(recent) + 1)
                       ELSE InFront(k, Len(recent) + 1 - Batch)

Next == \E k \in Key : Request(k)

Spec == Init /\ [][Next]_vars
=============================================================================
