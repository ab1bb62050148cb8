----------------------------- MODULE MCStreaming -----------------------------
(***************************************************************************)
(* A two-letter alphabet and four patterns, one a suffix of another and    *)
(* two that overlap themselves; chunks of zero to two bytes, so that a     *)
(* pattern can span as many chunks as it has bytes.                        *)
(***************************************************************************)
EXTENDS StreamingMatcher

CONSTANTS a, b

MCByte     == {a, b}
MCPatterns == << <<a, b>>, <<b, a, b>>, <<a, a, a>>, <<b, b, b, b>> >>
MCChunks   == UNION {[1..n -> MCByte] : n \in 0..2}
=============================================================================
