---------------------------- MODULE StreamSearch ----------------------------
(***************************************************************************)
(* What a streaming search promises: bytes arrive in chunks of any size,   *)
(* and after each chunk the reported patterns are exactly those that occur *)
(* in the bytes received so far, however the stream was cut.  This is the  *)
(* abstract specification StreamingMatcher implements.                     *)
(***************************************************************************)
EXTENDS Integers, Sequences

CONSTANTS
    Patterns,   \* The automaton's patterns, sequences of bytes up to ASCII case.
    Chunks      \* The chunks the network may deliver.

VARIABLES
    stream,     \* Every byte received so far, in order.
    matched     \* The pattern ids reported so far.

vars == <<stream, matched>>

\* Pattern p lies in s right after its first `off` bytes.
OccursAt(p, s, off) ==
    /\ off + Len(p) <= Len(s)
    /\ \A j \in 1..Len(p) : s[off + j] = p[j]

\* The ids of the patterns that occur somewhere in s.
Occurring(s) ==
    {i \in DOMAIN Patterns : \E off \in 0..Len(s) : OccursAt(Patterns[i], s, off)}

Init ==
    /\ stream  = <<>>
    /\ matched = {}

Receive(chunk) ==
    /\ stream'  = stream \o chunk
    /\ matched' = Occurring(stream')

Next == \E chunk \in Chunks : Receive(chunk)

Spec == Init /\ [][Next]_vars
=============================================================================
