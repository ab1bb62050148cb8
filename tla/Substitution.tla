---------------------------- MODULE Substitution ----------------------------
(***************************************************************************)
(* inter_template.rs: substitute_variables_with_imports, which replaces    *)
(* the references of a text by local or exported values, one at a time and *)
(* again in what it inserted, up to a number of substitutions.             *)
(*                                                                         *)
(* A text is a sequence of tokens: an opening or a closing pair of braces, *)
(* or a name (see InterTemplate), which outside braces is plain text.      *)
(***************************************************************************)
EXTENDS Integers, FiniteSets, InterTemplate

CONSTANTS
    Locals,            \* The maps of local variables a caller may pass.
    Inputs,            \* The texts a caller may pass.
    MAX_SUBSTITUTIONS  \* 64 in the code.

ASSUME MaxSubstitutionsAssumption == MAX_SUBSTITUTIONS \in Nat

\* A name or a pair of braces, and a text.
Token == Seq(STRING)
Text  == Seq(Token)

ASSUME TextAssumption ==
    /\ Inputs \subseteq Text
    /\ Value \subseteq Text
    /\ \A locals \in Locals : \A name \in DOMAIN locals : locals[name] \in Text

VARIABLES
    pc,            \* "idle", "loop" or "done".
    target,        \* The target of the call.
    local_vars,    \* The local variables of the call.
    input,         \* The text of the call.
    result,        \* The text so far.
    start,         \* Everything up to here has been passed over.
    substitutions  \* The number of references replaced.

call == <<pc, target, local_vars, input, result, start, substitutions>>
vars == <<state, call>>

Open  == <<"{{">>
Close == <<"}}">>

-----------------------------------------------------------------------------
\* A slip: an exported value hides a local one.
ResolveImportsFirst(ref) ==
    IF Len(ref) # 1 THEN {}
    ELSE IF Len(ref[1]) > 1 /\ IsExported(target, <<Head(ref[1])>>, Tail(ref[1]))
    THEN {exports[<<target, ref[1]>>]}
    ELSE IF ref[1] \in DOMAIN local_vars THEN {local_vars[ref[1]]}
    ELSE {}

\* resolve_variable_reference on the tokens between the braces: at most one
\* value.  A local variable hides an exported one; a name is split at its first
\* dot to be imported.
Resolve(ref) ==
    IF Len(ref) # 1 THEN {}
    ELSE IF ref[1] \in DOMAIN local_vars THEN {local_vars[ref[1]]}
    ELSE IF Len(ref[1]) > 1 /\ IsExported(target, <<Head(ref[1])>>, Tail(ref[1]))
    THEN {exports[<<target, ref[1]>>]}
    ELSE {}

\* The first opening braces of s after position n are at `open`, the first
\* closing ones after those at `close`.
NextReference(s, n, open, close) ==
    /\ open \in n + 1..Len(s) /\ s[open] = Open
    /\ close \in open + 1..Len(s) /\ s[close] = Close
    /\ \A i \in n + 1..open - 1 : s[i] # Open
    /\ \A i \in open + 1..close - 1 : s[i] # Close

Placeholder(open, close) == SubSeq(result, open, close)

RefAt(s, open, close) == SubSeq(s, open + 1, close - 1)

CallInit ==
    /\ Init
    /\ pc = "idle"
    /\ target = CHOOSE t \in Target : TRUE
    /\ local_vars = NoEntries
    /\ input = <<>> /\ result = <<>>
    /\ start = 0
    /\ substitutions = 0

\* The caller has used the result.
Forget ==
    /\ pc = "done"
    /\ pc' = "idle"
    /\ target' = CHOOSE t \in Target : TRUE
    /\ local_vars' = NoEntries
    /\ input' = <<>> /\ result' = <<>>
    /\ start' = 0
    /\ substitutions' = 0
    /\ UNCHANGED state

Substitute(t, locals, text) ==
    /\ pc = "idle"
    /\ pc' = "loop"
    /\ target' = t
    /\ local_vars' = locals
    /\ input' = text /\ result' = text
    /\ start' = 0
    /\ substitutions' = 0
    /\ UNCHANGED state

\* A slip: go on after the value that was inserted.
ReplaceOnce ==
    /\ pc = "loop"
    /\ substitutions < MAX_SUBSTITUTIONS
    /\ \E open, close \in DOMAIN result :
          /\ NextReference(result, start, open, close)
          /\ \E value \in Resolve(RefAt(result, open, close)) :
                /\ value # Placeholder(open, close)
                /\ result' = SubSeq(result, 1, open - 1) \o value
                               \o SubSeq(result, close + 1, Len(result))
                /\ start' = open + Len(value) - 1
    /\ substitutions' = substitutions + 1
    /\ UNCHANGED <<pc, target, local_vars, input, state>>

\* The next reference has a value: put it in place, and look at it again.
Replace ==
    /\ pc = "loop"
    /\ substitutions < MAX_SUBSTITUTIONS
    /\ \E open, close \in DOMAIN result :
          /\ NextReference(result, start, open, close)
          /\ \E value \in Resolve(RefAt(result, open, close)) :
                /\ value # Placeholder(open, close)
                /\ result' = SubSeq(result, 1, open - 1) \o value
                               \o SubSeq(result, close + 1, Len(result))
    /\ substitutions' = substitutions + 1
    /\ UNCHANGED <<pc, target, local_vars, input, start, state>>

\* A slip: leave an unknown variable where it is, and look at it again.
SkipInPlace ==
    /\ pc = "loop"
    /\ substitutions < MAX_SUBSTITUTIONS
    /\ \E open, close \in DOMAIN result :
          /\ NextReference(result, start, open, close)
          /\ Resolve(RefAt(result, open, close)) \subseteq {Placeholder(open, close)}
    /\ UNCHANGED vars

\* The next reference has no value, or stands for itself: pass over it.
Skip ==
    /\ pc = "loop"
    /\ substitutions < MAX_SUBSTITUTIONS
    /\ \E open, close \in DOMAIN result :
          /\ NextReference(result, start, open, close)
          /\ Resolve(RefAt(result, open, close)) \subseteq {Placeholder(open, close)}
          /\ start' = close
    /\ UNCHANGED <<pc, target, local_vars, input, result, substitutions, state>>

\* No reference is left, or too many were replaced.
Return ==
    /\ pc = "loop"
    /\ \/ substitutions >= MAX_SUBSTITUTIONS
       \/ ~\E open, close \in DOMAIN result : NextReference(result, start, open, close)
    /\ pc' = "done"
    /\ UNCHANGED <<target, local_vars, input, result, start, substitutions, state>>

Loop == Replace \/ Skip \/ Return

\* The state is borrowed while a text is substituted; between calls it changes.
Next ==
    \/ pc = "idle" /\ StateNext /\ UNCHANGED call
    \/ Forget
    \/ \E t \in Target, locals \in Locals, text \in Inputs : Substitute(t, locals, text)
    \/ Loop

\* The loop of a call runs to its end.
Spec == CallInit /\ [][Next]_vars /\ WF_vars(Loop)

-----------------------------------------------------------------------------
\* The references of s: pairs of braces that are not inside another pair, in
\* particular not after opening ones that are still open.
IsReference(s, open, close) ==
    /\ open < close /\ s[open] = Open /\ s[close] = Close
    /\ \A i \in open + 1..close - 1 : s[i] # Close
    /\ \A i \in 1..open - 1 : s[i] = Open => \E j \in i + 1..open - 1 : s[j] = Close

References(s) == {r \in (DOMAIN s) \X (DOMAIN s) : IsReference(s, r[1], r[2])}

\* What a reference should stand for: the caller's own variable, else the one
\* exported on the same target.
Meaning(ref) ==
    IF Len(ref) # 1 THEN {}
    ELSE IF ref[1] \in DOMAIN local_vars THEN {local_vars[ref[1]]}
    ELSE {exports[k] : k \in {j \in DOMAIN exports : j = <<target, ref[1]>>}}

MeaningOf(s, r) == Meaning(RefAt(s, r[1], r[2]))

\* What stands at position i of s when the references are replaced: the value
\* of a reference stands where it opens.
Piece(s, i) ==
    LET around == {r \in References(s) : r[1] <= i /\ i <= r[2] /\ MeaningOf(s, r) # {}}
    IN  IF around = {} THEN <<s[i]>>
        ELSE LET r == CHOOSE r \in around : TRUE
             IN  IF i = r[1] THEN CHOOSE value \in MeaningOf(s, r) : TRUE ELSE <<>>

\* Position -> the text up to there, with every reference replaced at the same
\* time.
ExpandedUpTo(s) ==
    LET upto[n \in 0..Len(s)] == IF n = 0 THEN <<>> ELSE upto[n - 1] \o Piece(s, n)
    IN  upto

Expanded(s) == ExpandedUpTo(s)[Len(s)]

Plain == \A r \in References(input) : \A value \in MeaningOf(input, r) :
            \A i \in DOMAIN value : value[i] # Open

\* Every call returns, cyclic values included.
SubstitutionTerminates == pc = "loop" ~> pc = "done"

\* Below the limit a call leaves no reference behind that has a value, inserted
\* ones included, except one that stands for itself.
NothingLeft ==
    pc = "done" /\ substitutions < MAX_SUBSTITUTIONS =>
        \A r \in References(result) :
            MeaningOf(result, r) \subseteq {SubSeq(result, r[1], r[2])}

\* When no value contains a reference, replacing one after the other, from left
\* to right, is replacing all at once.
PlainIsSimultaneous ==
    pc = "done" /\ Plain /\ Cardinality(References(input)) <= MAX_SUBSTITUTIONS =>
        result = Expanded(input)
=============================================================================
