---------------------------- MODULE ExportStore ----------------------------
(***************************************************************************)
(* What sharing variables between templates promises: every target has its *)
(* own store, an export writes variables of its own template and no other, *)
(* and nothing else changes the store but clearing it.  InterTemplate      *)
(* implements this specification.                                          *)
(***************************************************************************)
CONSTANTS
    Target,       \* The targets of a scanning session.
    TemplateId,   \* The ids of the templates that export.
    Var,          \* The names of the variables they export.
    Value         \* The values an extractor may have found.

VARIABLE store    \* What is exported: <<target, template, variable>> -> value.

Init == store = [k \in {} |-> k]

\* Template id exports the variables in the domain of `values` on target t.
Export(t, id, values) ==
    store' = [k \in DOMAIN store \cup {<<t, id, v>> : v \in DOMAIN values} |->
                 IF k \in {<<t, id, v>> : v \in DOMAIN values} THEN values[k[3]] ELSE store[k]]

ClearTarget(t) == store' = [k \in {j \in DOMAIN store : j[1] # t} |-> store[k]]

Clear == store' = [k \in {} |-> k]

Next ==
    \/ \E t \in Target, id \in TemplateId, vars \in SUBSET Var :
          \E values \in [vars -> Value] : Export(t, id, values)
    \/ \E t \in Target : ClearTarget(t)
    \/ Clear

Spec == Init /\ [][Next]_store
=============================================================================
