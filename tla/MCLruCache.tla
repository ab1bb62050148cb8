----------------------------- MODULE MCLruCache -----------------------------
(***************************************************************************)
(* Five keys, one of them invalid, a capacity of three and batches of two: *)
(* the proportions of the code (256 and 128), small enough for several     *)
(* evictions within the request bound.                                     *)
(***************************************************************************)
EXTENDS LruCache

CONSTANTS k1, k2, k3, k4, bad

MCKey   == {k1, k2, k3, k4, bad}
MCValid == {k1, k2, k3, k4}
=============================================================================
