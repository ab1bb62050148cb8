-------------------------------- MODULE MCDsl --------------------------------
(***************************************************************************)
(* Every text of up to four characters of an alphabet with blanks, quotes, *)
(* escapes and half symbols; every sequence of up to five or six tokens of *)
(* small vocabularies, rendered as text; and families of operators, chains *)
(* and calls over chosen operands.  Integers end at 11, texts at four      *)
(* bytes.                                                                  *)
(***************************************************************************)
EXTENDS Dsl

MCLetter ==
    {"a", "A", "b", "n", "_0", "body", "status_code", "header_names", "contains",
     "contains_any", "starts_with", "ends_with", "to_lower", "to_upper", "header", "len",
     "to_number", "wait_for", "regex", "repeat", "replace", "substr", "split", "join", "concat"}
MCUpper == [c \in {"a"} |-> "A"]

Id(w)  == [id |-> <<w>>]
P(c)   == Sym(<<c>>)
And    == Sym(<<"&", "&">>)
Or     == Sym(<<"|", "|">>)
EqEq   == Sym(<<"=", "=">>)
One    == Int64(1)

RawTexts == UNION {[1..n -> {"1", "n", " ", "=", "!", "&", DQ, BS}] : n \in 0..4}

UpTo(n, tokens) == UNION {[1..k -> tokens] : k \in 0..n}

Sentences ==
    UpTo(5, {One, P("-"), P("+"), P("*")})
    \cup UpTo(5, {One, P("!"), EqEq, And, Or})
    \cup UpTo(5, {One, P("("), P(")"), P("-")})
    \cup UpTo(4, {Id("a"), P("("), P(")"), P(","), P("."), P("["), P("]")})
    \cup [1..6 -> {Id("a"), P("("), P(")"), P(",")}]

Values == {<<One>>, <<P("("), P("-"), Int64(11), P("-"), One, P(")")>>, <<Int64(9)>>,
           <<Int64(0)>>, <<[id |-> <<"b">>]>>, <<[id |-> <<"body", "_0">>]>>}
Operators == {P("+"), P("-"), P("*"), P("/"), EqEq, P("<"), And, Or}

Operations ==
    {x \o <<o>> \o y : x \in Values, o \in Operators, y \in Values \cup {<<P("-"), One>>}}
    \cup {x \o <<o>> \o y \o <<p>> \o z :
            x, y, z \in {<<One>>, <<Int64(0)>>, <<Id("b")>>, <<Int64(9)>>}, o, p \in Operators}
    \cup {x \o <<o, P("(")>> \o y \o <<p>> \o z \o <<P(")")>> :
            x, y, z \in {<<One>>, <<Int64(0)>>, <<Id("b")>>}, o, p \in {And, Or, EqEq, P("-")}}

Chains ==
    {Tail(FlattenSeq([i \in 1..n |-> <<o, One>>])) : n \in 2..6, o \in {And, Or, P("+")}}
    \cup {<<P("!"), P("!"), P("!"), One>>}

Text(s) == [str |-> s]
Arguments == {<<One>>, <<Text(<<"a", "A">>)>>, <<Text(<<>>)>>, <<Id("body")>>,
              <<P("["), One, P(","), Text(<<"b">>), P("]")>>}
Patterns == {<<Text(<<"a">>)>>, <<Text(<<"^", "a">>)>>, <<Text(<<"(">>)>>, <<Id("body")>>}
Whole    == {<<Text(<<"a">>)>>, <<Text(<<>>)>>, <<Text(<<"a", "b", "a">>)>>, <<One>>,
             <<P("-"), One>>, <<Id("body")>>}

Call(f, args) ==
    <<Id(f), P("(")>> \o Join(args, <<P(",")>>) \o <<P(")")>>
Method(x, f, args) == x \o <<P(".")>> \o Call(f, args)

FunctionCalls ==
    {Call(f, <<x>>) : f \in {"header", "len", "to_lower", "to_upper", "to_number", "wait_for",
                             "concat", "contains"}, x \in Arguments}
    \cup {Call(f, <<x, y>>) : f \in {"contains", "starts_with", "ends_with", "repeat", "join",
                                     "contains_any", "len"},
                              x, y \in Arguments}
    \cup {Call("regex", <<x, y>>) : x, y \in Patterns}
    \cup {Call(f, <<x, y, z>>) : f \in {"replace", "split", "substr", "concat"},
                                 x, y, z \in Whole}
    \cup {Method(x, "contains", <<y>>) : x, y \in Arguments}
    \cup {Method(x, f, <<>>) : f \in {"to_lower", "to_upper", "len"}, x \in Arguments}

MCExpression ==
    RawTexts \cup {Spelled(ts) : ts \in Sentences \cup Operations \cup Chains \cup FunctionCalls}

Response ==
    [status |-> 9, content_length |-> 2, body |-> <<"a", "b", "a", "a", "b">>, all |-> <<"a", "b">>,
     headers |-> << << <<"A">>, <<"b">> >>, << <<"a">>, <<"n">> >> >>,
     header_index |-> [k \in {<<"a">>} |-> 2]]

Ctx(variables, depth, operations, checks) ==
    [status |-> Response.status, content_length |-> Response.content_length,
     body |-> Response.body, all |-> Response.all, headers |-> Response.headers,
     header_index |-> Response.header_index, variables |-> variables,
     max_depth |-> depth, max_operations |-> operations, overflow_checks |-> checks]

NoVariables == [n \in {} |-> <<>>]
ABody       == [n \in {<<"a">>, <<"body", "_0">>} |-> IF n = <<"a">> THEN <<"+", "9">> ELSE <<"n">>]

MCContext == {Ctx(NoVariables, 9, 9, TRUE), Ctx(ABody, 9, 9, FALSE), Ctx(ABody, 3, 3, TRUE)}
Shadowed  == {Ctx(ABody, 9, 9, FALSE)}
BodyZero  == {<<"body", "_0">>, <<"!">> \o <<"body", "_0">>}
=============================================================================
