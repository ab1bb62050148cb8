--------------------------------- MODULE Dsl ---------------------------------
(***************************************************************************)
(* dsl/mod.rs: evaluate_dsl_with_variables, from the text of an expression *)
(* to a verdict, composed of the parser and the evaluator; and what both   *)
(* are compared with: a grammar that lists all derivations of a sequence   *)
(* of tokens, and a meaning of expressions without budgets, stacks or a    *)
(* width of integers.                                                      *)
(***************************************************************************)
EXTENDS DslEvaluator

CONSTANTS
    Expression,   \* The texts evaluated.
    Context       \* The responses, variables, limits and builds evaluated in.

VARIABLES
    expression,   \* The text given.
    ast,          \* What it parses to, or nothing.
    context,      \* What it is evaluated against.
    outcome       \* A value with the counters, or a failure.

vars == <<expression, ast, context, outcome>>

Nothing == [nothing |-> TRUE]

Trim(text) ==
    LET solid == {i \in DOMAIN text : text[i] # " "}
    IN  IF solid = {} THEN <<>> ELSE SubSeq(text, Min(solid), Max(solid))

Init ==
    /\ expression \in Expression
    /\ ast = Nothing
    /\ context = Nothing
    /\ outcome = Nothing

\* The expression is invalid: the verdict is false.
RejectExpression ==
    /\ ast = Nothing /\ outcome = Nothing
    /\ ~ParseExpression(Trim(expression)).ok
    /\ outcome' = Failed("parse")
    /\ UNCHANGED <<expression, ast, context>>

GetOrParse ==
    /\ ast = Nothing /\ outcome = Nothing
    /\ \E parsed \in {ParseExpression(Trim(expression))} : parsed.ok /\ ast' = parsed.expr
    /\ UNCHANGED <<expression, context, outcome>>

\* Of all outcomes only the value TRUE is a verdict of true.
Evaluate(ctx) ==
    /\ ast # Nothing /\ outcome = Nothing
    /\ context' = ctx
    /\ outcome' = Eval(ast, ctx, Fresh)
    /\ UNCHANGED <<expression, ast>>

Next ==
    \/ RejectExpression
    \/ GetOrParse
    \/ \E ctx \in Context : Evaluate(ctx)

Spec == Init /\ [][Next]_vars

-----------------------------------------------------------------------------
(***************************************************************************)
(* The grammar.  Derivations(g, ts) are all trees of the symbol g whose    *)
(* yield is ts.                                                            *)
(***************************************************************************)
SplitsAt(ts, ops) == {i \in DOMAIN ts : OperatorAt(ts, i, ops)}
Before(ts, i)     == SubSeq(ts, 1, i - 1)
Behind(ts, i)     == SubSeq(ts, i + 1, Len(ts))
Enclosed(ts, a, b) ==
    Len(ts) >= 2 /\ ts[1] = Sym(a) /\ ts[Len(ts)] = Sym(b)
Inside(ts) == SubSeq(ts, 2, Len(ts) - 1)

RECURSIVE Derivations(_, _), Lists(_)

Combined(ts, left, ops, right) ==
    UNION {{Binary(l, ts[i].sym, r) : l \in Derivations(left, Before(ts, i)),
                                      r \in Derivations(right, Behind(ts, i))} :
           i \in SplitsAt(ts, ops)}

\* One item or more, separated by commas.
Lists(ts) ==
    {<<e>> : e \in Derivations("or", ts)}
    \cup UNION {{Append(es, e) : es \in Lists(Before(ts, i)), e \in Derivations("or", Behind(ts, i))} :
                i \in SplitsAt(ts, {<<",">>})}

ListsIn(ts) == IF ts = <<>> THEN {<<>>} ELSE Lists(ts)

Calls(ts) ==
    IF Len(ts) >= 3 /\ "id" \in DOMAIN ts[1] /\ Enclosed(Tail(ts), <<"(">>, <<")">>)
    THEN {[call |-> ts[1].id, args |-> es] : es \in ListsIn(Inside(Tail(ts)))}
    ELSE {}

Derivations(g, ts) ==
    IF ts = <<>> THEN {}
    ELSE CASE g = "or"  -> Derivations("and", ts) \cup Combined(ts, "or", OrOp, "and")
           [] g = "and" -> Derivations("comparison", ts) \cup Combined(ts, "and", AndOp, "comparison")
           [] g = "comparison" ->
                Derivations("sum", ts)
                \cup Combined(ts, "sum", ComparisonOps, "sum")
                \cup {Not(e) : e \in IF ts[1] = Sym(<<"!">>) THEN Derivations("comparison", Tail(ts))
                                     ELSE {}}
           [] g = "sum" -> Derivations("product", ts) \cup Combined(ts, "sum", AdditiveOps, "product")
           [] g = "product" ->
                Derivations("unary", ts) \cup Combined(ts, "product", MultiplicativeOps, "unary")
           [] g = "unary" ->
                Derivations("postfix", ts)
                \cup {Negated(e) : e \in IF ts[1] = Sym(<<"-">>) THEN Derivations("unary", Tail(ts))
                                         ELSE {}}
           [] g = "postfix" ->
                Derivations("primary", ts)
                \cup UNION {{[call |-> c.call, args |-> c.args, receiver |-> r] :
                                c \in Calls(Behind(ts, i)), r \in Derivations("postfix", Before(ts, i))} :
                            i \in SplitsAt(ts, {<<".">>})}
           [] g = "primary" ->
                (IF Len(ts) = 1 /\ "sym" \notin DOMAIN ts[1] THEN {ts[1]} ELSE {})
                \cup Calls(ts)
                \cup (IF Enclosed(ts, <<"(">>, <<")">>) THEN Derivations("or", Inside(ts)) ELSE {})
                \cup (IF Enclosed(ts, <<"[">>, <<"]">>)
                      THEN {[list |-> es] : es \in ListsIn(Inside(ts))} ELSE {})

-----------------------------------------------------------------------------
(***************************************************************************)
(* The meaning of an expression, and the measures of its budgets.          *)
(***************************************************************************)
Operands(e) == (IF "receiver" \in DOMAIN e THEN <<e.receiver>> ELSE <<>>) \o e.args

RECURSIVE Meaning(_, _)

MeaningOfLogical(e, ctx) ==
    LET l == Meaning(e.left, ctx)
        r == Meaning(e.right, ctx)
    IN  CASE Fails(l) -> l
          [] ~Fails(l) /\ ToBool(l) = (e.op \in OrOp) -> Bool(e.op \in OrOp)
          [] OTHER -> IF Fails(r) THEN r ELSE Bool(ToBool(r))

MeaningOfArithmetic(o, a, b) ==
    CASE o = <<"/">> /\ b = 0 -> Failed("error")
      [] Exact(o, a, b) \in MinInt..MaxInt -> Int64(Exact(o, a, b))
      [] o = <<"/">> -> Failed("quotient")
      [] OTHER -> Failed("overflow")

MeaningOfOperator(o, l, r, ctx) ==
    IF o \in AdditiveOps \cup MultiplicativeOps /\ IsInt(l) /\ IsInt(r)
    THEN MeaningOfArithmetic(o, l.int, r.int)
    ELSE Combine(o, l, r, ctx)

\* Op of the meanings, unless one of them fails.
Strict(ms, Op(_)) ==
    IF \E i \in DOMAIN ms : Fails(ms[i])
    THEN ms[Min({i \in DOMAIN ms : Fails(ms[i])})]
    ELSE Op(ms)

MeaningOfArgument(name, i, m) ==
    IF MustBeInteger(name, i) /\ ~Fails(m) /\ ~IsInt(m) THEN Failed("error") ELSE m

Meaning(e, ctx) ==
    CASE "int" \in DOMAIN e  -> e
      [] "str" \in DOMAIN e  -> e
      [] "id" \in DOMAIN e   -> ResolveIdentifier(e.id, ctx)
      [] "list" \in DOMAIN e -> Strict([i \in DOMAIN e.list |-> Meaning(e.list[i], ctx)], List)
      [] "not" \in DOMAIN e  -> Strict(<<Meaning(e.not, ctx)>>, LAMBDA ms : Bool(~ToBool(ms[1])))
      [] "op" \in DOMAIN e   ->
            IF e.op \in OrOp \cup AndOp THEN MeaningOfLogical(e, ctx)
            ELSE Strict(<<Meaning(e.left, ctx), Meaning(e.right, ctx)>>,
                        LAMBDA ms : MeaningOfOperator(e.op, ms[1], ms[2], ctx))
      [] "call" \in DOMAIN e ->
            LET es == Operands(e)
                ms == [i \in DOMAIN es |-> MeaningOfArgument(e.call, i, Meaning(es[i], ctx))]
            IN  IF Supported(e.call, "receiver" \in DOMAIN e, Len(e.args))
                THEN Strict(ms, LAMBDA vs : Apply(e.call, vs, es, ctx))
                ELSE IF "receiver" \in DOMAIN e /\ Fails(ms[1]) THEN ms[1] ELSE Failed("error")

Kids(e) ==
    CASE "list" \in DOMAIN e -> e.list
      [] "not" \in DOMAIN e  -> <<e.not>>
      [] "op" \in DOMAIN e   -> <<e.left, e.right>>
      [] "call" \in DOMAIN e -> Operands(e)
      [] OTHER               -> <<>>

RECURSIVE Nesting(_), Links(_, _), Size(_), Logical(_)

\* The operands of a chain of the operator o, however its links are nested.
Links(e, o) == IF IsOp(e, o) THEN Links(e.left, o) \o Links(e.right, o) ELSE <<e>>

\* The levels of an expression, of which a chain takes one.
Nesting(e) ==
    LET kids == IF "op" \in DOMAIN e /\ e.op \in OrOp \cup AndOp THEN Links(e, e.op) ELSE Kids(e)
    IN  1 + Max({0} \cup {Nesting(kids[i]) : i \in DOMAIN kids})

\* The number of its operators, negations apart, and calls.
Size(e) ==
    FoldSeq(LAMBDA kid, n : n + Size(kid),
            IF DOMAIN e \cap {"op", "call"} = {} THEN 0 ELSE 1, Kids(e))

\* Is there an operator that may leave an operand out?
Logical(e) ==
    \/ "op" \in DOMAIN e /\ e.op \in OrOp \cup AndOp
    \/ \E i \in DOMAIN Kids(e) : Logical(Kids(e)[i])

-----------------------------------------------------------------------------
Spelling(t) ==
    CASE "sym" \in DOMAIN t -> t.sym
      [] "int" \in DOMAIN t -> Decimal(t.int)
      [] "id" \in DOMAIN t  -> t.id
      [] "str" \in DOMAIN t ->
            <<DQ>> \o FlattenSeq([i \in DOMAIN t.str |->
                        CASE t.str[i] \in {DQ, BS} -> <<BS, t.str[i]>>
                          [] t.str[i] = "\n"       -> <<BS, "n">>
                          [] OTHER                 -> <<t.str[i]>>]) \o <<DQ>>

Spelled(ts) == Join([i \in DOMAIN ts |-> Spelling(ts[i])], <<" ">>)

Tokens == Lex(Trim(expression), 1, <<>>)

\* Lexing loses nothing of a text but its blanks and its choice of quotes and
\* escapes: the tokens, spelled out in full with blanks between them, are lexed
\* to the same tokens (Lexer::next_token, lex_string).
LexingIsFaithful ==
    Tokens.valid => Lex(Spelled(Tokens.tokens), 1, <<>>) = Tokens

\* The recursive descent builds the one derivation the grammar has for the
\* tokens, and rejects exactly what has none: precedence, associations to the
\* left, one comparison at most, and no trailing tokens (Parser::parse_or to
\* parse_arguments, parse_expression).
ParsesTheGrammar ==
    LET trees == IF Tokens.valid THEN Derivations("or", Tokens.tokens) ELSE {}
    IN  /\ ast # Nothing => trees = {ast}
        /\ outcome = Failed("parse") => trees = {}

Evaluated   == ast # Nothing /\ outcome # Nothing
BudgetSpent == outcome \in {Failed("depth"), Failed("operations")}

\* Unless a budget is spent, the evaluator computes what the expression means:
\* short circuits from the left, failures wherever they are met, and exact
\* integers, or a panic where they do not fit and the build checks, or where a
\* quotient does not fit (Evaluator::eval, eval_logical_chain).
EvaluationIsMeaning ==
    Evaluated /\ ~BudgetSpent =>
        LET m == Meaning(ast, context)
        IN  CASE m = Failed("overflow") -> context.overflow_checks => outcome = Failed("panic")
              [] m = Failed("quotient") -> outcome = Failed("panic")
              [] m = Failed("error")    -> outcome = Failed("error")
              [] OTHER                  -> ~Fails(outcome) /\ outcome.value = m

\* An expression within the budgets is not failed by them: a chain of && or ||
\* of any length takes one level of depth (Evaluator::eval_logical_chain).
ModestExpressionsAreEvaluated ==
    Evaluated /\ Nesting(ast) <= context.max_depth /\ Size(ast) <= context.max_operations
        => ~BudgetSpent

\* Every operator and call evaluated is charged exactly once, and the depth
\* taken is given back (Evaluator::increment_operations, eval_call).
ChargedOnce ==
    Evaluated /\ ~Fails(outcome) =>
        /\ outcome.st.depth = 0
        /\ outcome.st.ops <= Size(ast)
        /\ ~Logical(ast) => outcome.st.ops = Size(ast)

\* repeat and replace make a text no longer than the budget or than the one they
\* are given (Evaluator::ensure_output_budget).
BudgetLimitsGrowth ==
    Evaluated /\ ~Fails(outcome) /\ "call" \in DOMAIN ast
    /\ ast.call \in {<<"repeat">>, <<"replace">>} =>
        Len(outcome.value.str)
            <= Max({MaxString, Len(Display(Meaning(ast.args[1], context)))})

WithVariables(ctx, names) == [ctx EXCEPT !.variables = [n \in names |-> ctx.variables[n]]]

\* The variables whose names the response does not define.
Unshadowed(ctx) ==
    {n \in DOMAIN ctx.variables : Fails(ResolveIdentifier(n, WithVariables(ctx, {})))}

\* "1. Built-in response identifiers ... 2. User-provided variables": a variable
\* never stands for what the response defines (evaluate_dsl_with_variables).
BuiltInsComeFirst ==
    Evaluated /\ ~Fails(outcome) =>
        outcome = Eval(ast, WithVariables(context, Unshadowed(context)), Fresh)
=============================================================================
