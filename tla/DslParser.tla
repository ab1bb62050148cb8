------------------------------ MODULE DslParser ------------------------------
(***************************************************************************)
(* dsl/parser.rs: the lexer and the recursive-descent parser of DSL        *)
(* expressions.  A text is a sequence of characters, where a word such as  *)
(* "len" counts as one letter.  Tokens and expressions are records told    *)
(* apart by their fields.  Every parsing operator takes the tokens and a   *)
(* position and returns an expression with the position after it, or       *)
(* Rejected.                                                               *)
(***************************************************************************)
EXTENDS Integers, Sequences

CONSTANTS
    Letter,   \* What may start an identifier.
    MaxInt    \* i64::MAX: 2^63 - 1 in the code.

ASSUME LetterAssumption == Letter \cap {"0", "1", "2", "3", "4", "5", "6", "7", "8", "9"} = {}
ASSUME MaxIntAssumption == MaxInt \in Nat /\ MaxInt >= 10

MinInt == -MaxInt - 1

Numeral == [c \in {"0", "1", "2", "3", "4", "5", "6", "7", "8", "9"} |->
              CASE c = "0" -> 0 [] c = "1" -> 1 [] c = "2" -> 2 [] c = "3" -> 3 [] c = "4" -> 4
                [] c = "5" -> 5 [] c = "6" -> 6 [] c = "7" -> 7 [] c = "8" -> 8 [] c = "9" -> 9]
Digit == DOMAIN Numeral

DQ == "\""
SQ == "'"
BS == "\\"

-----------------------------------------------------------------------------
(***************************************************************************)
(* The lexer.                                                              *)
(***************************************************************************)
Sym(s) == [sym |-> s]

Symbols1 == {"(", ")", ",", "[", "]", "+", "-", "*", "/", ".", "!", ">", "<"}
Symbols2 == {<<"!", "=">>, <<"=", "=">>, <<">", "=">>, <<"<", "=">>, <<"&", "&">>, <<"|", "|">>}

NoToken == [ok |-> FALSE]
Token(t, p) == [ok |-> TRUE, token |-> t, pos |-> p]

\* The first position from p on that does not hold a character of S.
After(text, p, S) ==
    CHOOSE q \in p..Len(text) + 1 :
        /\ q = Len(text) + 1 \/ text[q] \notin S
        /\ \A i \in p..q - 1 : text[i] \in S

\* The number a sequence of digits stands for.
ValueOf(digits) ==
    LET value[n \in 0..Len(digits)] ==
            IF n = 0 THEN 0 ELSE 10 * value[n - 1] + Numeral[digits[n]]
    IN  value[Len(digits)]

\* An integer out of range is no token at all.
LexInteger(text, p) ==
    LET q == After(text, p, Digit)
        n == ValueOf(SubSeq(text, p, q - 1))
    IN  IF n <= MaxInt THEN Token([int |-> n], q) ELSE NoToken

LexIdentifier(text, p) ==
    LET q == After(text, p, Letter \cup Digit)
    IN  Token([id |-> SubSeq(text, p, q - 1)], q)

\* A slip: a backslash before a backslash stays.
EscapedRaw(c) == CASE c = "n" -> <<"\n">> [] c \in {DQ, SQ} -> <<c>> [] OTHER -> <<BS, c>>

\* What a backslash followed by c stands for: an escape that is not known keeps
\* its backslash.
Escaped(c) == CASE c = "n" -> <<"\n">> [] c \in {DQ, SQ, BS} -> <<c>> [] OTHER -> <<BS, c>>

RECURSIVE LexString(_, _, _, _)

\* The string that goes on at p, after the characters read, up to its quote.
LexString(text, p, quote, read) ==
    CASE p > Len(text)    -> NoToken
      [] text[p] = quote  -> Token([str |-> read], p + 1)
      [] text[p] = BS     -> IF p + 1 > Len(text) THEN NoToken
                             ELSE LexString(text, p + 2, quote, read \o Escaped(text[p + 1]))
      [] OTHER            -> LexString(text, p + 1, quote, Append(read, text[p]))

\* The longer symbol wins; "=", "&" and "|" do not stand alone.
LexSymbol(text, p) ==
    CASE p < Len(text) /\ SubSeq(text, p, p + 1) \in Symbols2 ->
            Token(Sym(SubSeq(text, p, p + 1)), p + 2)
      [] text[p] \in Symbols1 -> Token(Sym(<<text[p]>>), p + 1)
      [] OTHER -> NoToken

NextToken(text, p) ==
    CASE text[p] \in {DQ, SQ} -> LexString(text, p + 1, text[p], <<>>)
      [] text[p] \in Digit    -> LexInteger(text, p)
      [] text[p] \in Letter   -> LexIdentifier(text, p)
      [] OTHER                -> LexSymbol(text, p)

Invalid == [valid |-> FALSE, tokens |-> <<>>]

RECURSIVE Lex(_, _, _)

\* The text goes on after token t, if it is one.
LexAfter(text, t, tokens) ==
    IF t.ok THEN Lex(text, t.pos, Append(tokens, t.token)) ELSE Invalid

\* All tokens from p on.  Blanks are skipped before a token only, so a text
\* that ends in one has no last token and is invalid.
Lex(text, p, tokens) ==
    LET q == After(text, p, {" "})
    IN  CASE p > Len(text)                    -> [valid |-> TRUE, tokens |-> tokens]
          [] p <= Len(text) /\ q > Len(text) -> Invalid
          [] OTHER                            -> LexAfter(text, NextToken(text, q), tokens)

-----------------------------------------------------------------------------
(***************************************************************************)
(* The parser.                                                             *)
(***************************************************************************)
Binary(l, o, r) == [op |-> o, left |-> l, right |-> r]
Not(e)          == [not |-> e]
Rejected        == [ok |-> FALSE]
Parsed(e, p)    == [ok |-> TRUE, expr |-> e, pos |-> p]

\* consume: is the next token the symbol s?
Consumes(ts, p, s) == p <= Len(ts) /\ ts[p] = Sym(s)

OrOp             == {<<"|", "|">>}
AndOp            == {<<"&", "&">>}
ComparisonOps    == {<<"=", "=">>, <<"!", "=">>, <<">", "=">>, <<"<", "=">>, <<">">>, <<"<">>}
AdditiveOps      == {<<"+">>, <<"-">>}
MultiplicativeOps == {<<"*">>, <<"/">>}

OperatorAt(ts, p, ops) == p <= Len(ts) /\ \E o \in ops : ts[p] = Sym(o)

\* -e is a literal if e is one, and 0 - e otherwise.
Negated(e) ==
    IF "int" \in DOMAIN e THEN [int |-> -e.int] ELSE Binary([int |-> 0], <<"-">>, e)

\* What has been parsed, as F makes it part of a larger expression.
Then(e, F(_)) == IF e.ok THEN Parsed(F(e.expr), e.pos) ELSE Rejected

RECURSIVE ParseOr(_, _), MoreOr(_, _), ParseAnd(_, _), MoreAnd(_, _), ParseComparison(_, _),
          ParseAdditive(_, _), MoreAdditive(_, _), ParseMultiplicative(_, _),
          MoreMultiplicative(_, _), ParseUnary(_, _), MorePostfix(_, _), ParsePrimary(_, _),
          ParseItems(_, _, _, _)

\* After the items read and one more, there is a comma or the closing symbol.
MoreItems(ts, item, close, items) ==
    CASE item.ok /\ Consumes(ts, item.pos, <<",">>) ->
            ParseItems(ts, item.pos + 1, close, Append(items, item.expr))
      [] item.ok /\ Consumes(ts, item.pos, close) ->
            Parsed(Append(items, item.expr), item.pos + 1)
      [] OTHER -> Rejected

ParseItems(ts, p, close, items) == MoreItems(ts, ParseOr(ts, p), close, items)

ParseArguments(ts, p, close) ==
    IF Consumes(ts, p, close) THEN Parsed(<<>>, p + 1) ELSE ParseItems(ts, p, close, <<>>)

ParseCall(ts, p) ==
    Then(ParseArguments(ts, p + 2, <<")">>), LAMBDA es : [call |-> ts[p].id, args |-> es])

Closed(ts, e) ==
    IF e.ok /\ Consumes(ts, e.pos, <<")">>) THEN Parsed(e.expr, e.pos + 1) ELSE Rejected

ParseParenthesis(ts, p) == Closed(ts, ParseOr(ts, p + 1))

ParseList(ts, p) == Then(ParseArguments(ts, p + 1, <<"]">>), LAMBDA es : [list |-> es])

ParsePrimary(ts, p) ==
    CASE p > Len(ts)                     -> Rejected
      [] "int" \in DOMAIN ts[p]          -> Parsed(ts[p], p + 1)
      [] "str" \in DOMAIN ts[p]          -> Parsed(ts[p], p + 1)
      [] "id" \in DOMAIN ts[p]           ->
            IF Consumes(ts, p + 1, <<"(">>) THEN ParseCall(ts, p) ELSE Parsed(ts[p], p + 1)
      [] Consumes(ts, p, <<"(">>)        -> ParseParenthesis(ts, p)
      [] Consumes(ts, p, <<"[">>)        -> ParseList(ts, p)
      [] OTHER                           -> Rejected

\* Method calls on what has been read: every dot needs a name and arguments.
MorePostfix(ts, e) ==
    IF ~e.ok \/ ~Consumes(ts, e.pos, <<".">>) THEN e
    ELSE IF /\ e.pos + 1 <= Len(ts)
            /\ "id" \in DOMAIN ts[e.pos + 1]
            /\ Consumes(ts, e.pos + 2, <<"(">>)
         THEN MorePostfix(ts, Then(ParseCall(ts, e.pos + 1),
                                   LAMBDA c : [call |-> c.call, args |-> c.args,
                                               receiver |-> e.expr]))
         ELSE Rejected

ParseUnary(ts, p) ==
    IF Consumes(ts, p, <<"-">>) THEN Then(ParseUnary(ts, p + 1), Negated)
    ELSE MorePostfix(ts, ParsePrimary(ts, p))

\* The loops extend e to the left, one operator at a time.
Extend(ts, e, right) == Then(right, LAMBDA r : Binary(e.expr, ts[e.pos].sym, r))

MoreMultiplicative(ts, e) ==
    IF ~e.ok \/ ~OperatorAt(ts, e.pos, MultiplicativeOps) THEN e
    ELSE MoreMultiplicative(ts, Extend(ts, e, ParseUnary(ts, e.pos + 1)))

ParseMultiplicative(ts, p) == MoreMultiplicative(ts, ParseUnary(ts, p))

\* A slip: a loop that associates to the right.
MoreAdditiveRight(ts, e) ==
    IF ~e.ok \/ ~OperatorAt(ts, e.pos, AdditiveOps) THEN e
    ELSE Extend(ts, e, ParseAdditive(ts, e.pos + 1))

MoreAdditive(ts, e) ==
    IF ~e.ok \/ ~OperatorAt(ts, e.pos, AdditiveOps) THEN e
    ELSE MoreAdditive(ts, Extend(ts, e, ParseMultiplicative(ts, e.pos + 1)))

ParseAdditive(ts, p) == MoreAdditive(ts, ParseMultiplicative(ts, p))

\* At most one comparison; a second one is left to the check for trailing
\* tokens.  A negation takes a whole comparison.
OneComparison(ts, e) ==
    IF ~e.ok \/ ~OperatorAt(ts, e.pos, ComparisonOps) THEN e
    ELSE Extend(ts, e, ParseAdditive(ts, e.pos + 1))

ParseComparison(ts, p) ==
    IF Consumes(ts, p, <<"!">>) THEN Then(ParseComparison(ts, p + 1), Not)
    ELSE OneComparison(ts, ParseAdditive(ts, p))

MoreAnd(ts, e) ==
    IF ~e.ok \/ ~OperatorAt(ts, e.pos, AndOp) THEN e
    ELSE MoreAnd(ts, Extend(ts, e, ParseComparison(ts, e.pos + 1)))

ParseAnd(ts, p) == MoreAnd(ts, ParseComparison(ts, p))

MoreOr(ts, e) ==
    IF ~e.ok \/ ~OperatorAt(ts, e.pos, OrOp) THEN e
    ELSE MoreOr(ts, Extend(ts, e, ParseAnd(ts, e.pos + 1)))

ParseOr(ts, p) == MoreOr(ts, ParseAnd(ts, p))

\* parse_expression: all tokens must be used.
AllUsed(ts, e) == IF e.ok /\ e.pos = Len(ts) + 1 THEN e ELSE Rejected
ParseTokens(lexed) ==
    IF lexed.valid THEN AllUsed(lexed.tokens, ParseOr(lexed.tokens, 1)) ELSE Rejected
ParseExpression(text) == ParseTokens(Lex(text, 1, <<>>))
=============================================================================
