--------------------------- MODULE MCSubstitution ---------------------------
(***************************************************************************)
(* Two templates and two variables, one with a dot in its name: one        *)
(* template declares both, the other one of them.  Texts of up to three    *)
(* pieces, over local variables that are plain, refer to one another,      *)
(* refer to themselves or hide an exported one.                            *)
(***************************************************************************)
EXTENDS Substitution, SequencesExt

MCTemplateId == {<<"auth">>, <<"scan">>}
MCVar        == {<<"token", "id">>, <<"user">>}
MCDeclared   == [id \in MCTemplateId |-> IF id = <<"auth">> THEN MCVar ELSE {<<"user">>}]

Ref(name) == <<Open, name, Close>>

\* A plain value, and one that contains a reference.
MCValue == { << <<"t">> >>, <<Close>> \o Ref(<<"x">>)}

MCLocals ==
    {NoEntries,
     << "x" >> :> << <<"p">>, <<"q">> >>,
     << "x" >> :> Ref(<<"x">>),
     (<< "x" >> :> Ref(<<"y">>)) @@ (<< "y" >> :> Ref(<<"x">>)),
     << "x" >> :> Ref(<<"y">>) \o << <<"r">> >>,
     (<< "auth", "token", "id" >> :> <<>>) @@ (<< "x" >> :> << <<"p">> >>)}

Pieces == {Ref(<<"x">>), Ref(<<"auth", "token", "id">>), <<Open>>, <<Close>>, << <<"x">> >>}

\* Of the longest texts, those that only open.
Openings == Pieces \ {<<Close>>, << <<"x">> >>}

MCInputs ==
    {FlattenSeq(pieces) :
        pieces \in UNION {[1..n -> Pieces] : n \in 0..2} \cup [1..3 -> Openings]}

\* The exports change freely; a call begins when there are at most MaxExports of
\* them on each target.  The texts refer to a single one.
CONSTANT MaxExports

Bounded == \A t \in Target : Cardinality({k \in DOMAIN exports : k[1] = t}) <= MaxExports

MCNext ==
    \/ pc = "idle" /\ StateNext /\ UNCHANGED call
    \/ Forget
    \/ Bounded /\ \E t \in Target, locals \in Locals, text \in Inputs : Substitute(t, locals, text)
    \/ Loop

MCSpec == CallInit /\ [][MCNext]_vars /\ WF_vars(Loop)
=============================================================================
