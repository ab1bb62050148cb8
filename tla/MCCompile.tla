----------------------------- MODULE MCCompile -----------------------------
(***************************************************************************)
(* A small instance of DatabaseCompile, on the templates of MCTemplates.   *)
(***************************************************************************)
EXTENDS DatabaseCompile, MCTemplates
=============================================================================
