---------------------------- MODULE DslEvaluator ----------------------------
(***************************************************************************)
(* dsl/evaluator.rs: the evaluation of a parsed expression against a       *)
(* response, under a budget of nested and of counted operations.           *)
(*                                                                         *)
(* ctx holds what an Evaluator borrows (status, body, headers,             *)
(* header_index, all, variables) and its limits; st its two counters.  A   *)
(* failed evaluation has no counters: every error is passed on up to       *)
(* evaluate_dsl, which drops the evaluator.                                *)
(***************************************************************************)
EXTENDS DslFunctions

Done(v, st)  == [value |-> v, st |-> st]
Settled(r, st) == IF Fails(r) THEN r ELSE Done(r, st)

Fresh == [depth |-> 0, ops |-> 0]

IsInt(v) == Kind(v) = "int"

\* The block of headers as the DSL sees it.
HeaderText(ctx) ==
    FlattenSeq([i \in DOMAIN ctx.headers |->
        ctx.headers[i][1] \o <<":", " ">> \o ctx.headers[i][2] \o <<"\n">>])

\* A variable is an integer if its text is one.
VariableValue(s) == IF Fails(AsInteger(s)) THEN Str(s) ELSE AsInteger(s)

\* resolve_identifier: fixed names, then variables, then the _0 series.
ResolveIdentifier(name, ctx) ==
    CASE name = <<"status_code">>            -> Int64(ctx.status)
      [] name = <<"content_length">>         -> Int64(ctx.content_length)
      [] name = <<"body_length">>            -> Int64(Len(ctx.body))
      [] name = <<"response_headers_count">> -> Int64(Len(ctx.headers))
      [] name = <<"body">>                   -> Str(ctx.body)
      [] name \in {<<"header">>, <<"all_headers">>} -> Str(HeaderText(ctx))
      [] name = <<"all">>                    -> Str(ctx.all)
      [] name = <<"header_names">>  -> List([i \in DOMAIN ctx.headers |-> Str(ctx.headers[i][1])])
      [] name = <<"header_values">> -> List([i \in DOMAIN ctx.headers |-> Str(ctx.headers[i][2])])
      [] OTHER ->
            IF name \in DOMAIN ctx.variables THEN VariableValue(ctx.variables[name])
            ELSE CASE name = <<"status_code", "_0">> -> Int64(ctx.status)
                   [] name = <<"body", "_0">>        -> Str(ctx.body)
                   [] name = <<"header", "_0">>      -> Str(HeaderText(ctx))
                   [] OTHER                          -> Failed("error")

-----------------------------------------------------------------------------
\* An integer that wraps around, and one that is cut off towards zero.
Wrapped(n) == ((n - MinInt) % (2 * (MaxInt + 1))) + MinInt
Quotient(a, b) ==
    LET abs(n) == IF n < 0 THEN -n ELSE n
        q      == abs(a) \div abs(b)
    IN  IF (a < 0) = (b < 0) THEN q ELSE -q

\* The integer an arithmetic operator stands for.
Exact(o, a, b) ==
    CASE o = <<"+">> -> a + b
      [] o = <<"-">> -> a - b
      [] o = <<"*">> -> a * b
      [] o = <<"/">> -> Quotient(a, b)

\* Unchecked arithmetic on i64: an overflow wraps, or panics in a build with
\* overflow checks; the one quotient that overflows always panics.
Arithmetic(o, a, b, ctx) ==
    IF o = <<"/">> /\ b = 0 THEN Failed("error")
    ELSE IF Exact(o, a, b) \in MinInt..MaxInt THEN Int64(Exact(o, a, b))
    ELSE IF o = <<"/">> \/ ctx.overflow_checks THEN Failed("panic")
    ELSE Int64(Wrapped(Exact(o, a, b)))

Compares(o, a, b) ==
    CASE o = <<">">>      -> a > b
      [] o = <<"<">>      -> a < b
      [] o = <<">", "=">> -> a >= b
      [] o = <<"<", "=">> -> a <= b

\* What an operator that is not logical makes of the values of its operands.
Combine(o, a, b, ctx) ==
    CASE o = <<"=", "=">> -> Bool(a = b)
      [] o = <<"!", "=">> -> Bool(a # b)
      [] OTHER ->
            IF ~IsInt(a) \/ ~IsInt(b) THEN Failed("error")
            ELSE IF o \in ComparisonOps THEN Bool(Compares(o, a.int, b.int))
            ELSE Arithmetic(o, a.int, b.int, ctx)

\* increment_operations
Charged(st) == [st EXCEPT !.ops = @ + 1]
OutOfOperations(st, ctx) == Charged(st).ops > ctx.max_operations

RECURSIVE Eval(_, _, _), EvalAll(_, _, _, _), EvalArguments(_, _, _, _, _), EvalChain(_, _, _, _)

\* The values of a list of expressions, from the left, up to the first failure.
EvalAll(es, ctx, st, vs) ==
    IF Len(vs) = Len(es) THEN Done(List(vs), st)
    ELSE LET r == Eval(es[Len(vs) + 1], ctx, st)
         IN  IF Fails(r) THEN r ELSE EvalAll(es, ctx, r.st, Append(vs, r.value))

\* The same for the arguments of a call that follow the values vs.
EvalArguments(name, es, ctx, st, vs) ==
    IF Len(vs) = Len(es) THEN Settled(Apply(name, vs, es, ctx), st)
    ELSE LET r == Eval(es[Len(vs) + 1], ctx, st)
         IN  CASE Fails(r) -> r
               [] ~Fails(r) /\ MustBeInteger(name, Len(vs) + 1) /\ ~IsInt(r.value) ->
                    Failed("error")
               [] OTHER -> EvalArguments(name, es, ctx, r.st, Append(vs, r.value))

\* A slip: charge a call for each of its arguments as well.
EvalCallCharged(e, ctx, st, receivers) ==
    LET es == (IF receivers = <<>> THEN <<>> ELSE <<e.receiver>>) \o e.args
    IN  IF ~Supported(e.call, receivers # <<>>, Len(e.args)) THEN Failed("error")
        ELSE IF OutOfOperations(st, ctx) THEN Failed("operations")
        ELSE EvalArguments(e.call, es, ctx,
                           [st EXCEPT !.ops = @ + 1 + Len(e.args)], receivers)

\* eval_call: an unsupported call costs nothing and evaluates no argument.
EvalCall(e, ctx, st, receivers) ==
    LET es == (IF receivers = <<>> THEN <<>> ELSE <<e.receiver>>) \o e.args
    IN  IF ~Supported(e.call, receivers # <<>>, Len(e.args)) THEN Failed("error")
        ELSE IF OutOfOperations(st, ctx) THEN Failed("operations")
        ELSE EvalArguments(e.call, es, ctx, Charged(st), receivers)

EvalReceiver(e, ctx, st) ==
    LET r == Eval(e.receiver, ctx, st)
    IN  IF Fails(r) THEN r ELSE EvalCall(e, ctx, r.st, <<r.value>>)

IsOp(e, o) == "op" \in DOMAIN e /\ e.op = o

\* A slip: push the operands of a link in the order they are written.
EvalChainSwapped(o, pending, ctx, st) ==
    IF pending = <<>> THEN Done(Bool(o \in AndOp), st)
    ELSE LET e    == Last(pending)
             rest == Front(pending)
         IN  IF IsOp(e, o)
             THEN IF OutOfOperations(st, ctx) THEN Failed("operations")
                  ELSE EvalChain(o, rest \o <<e.left, e.right>>, ctx, Charged(st))
             ELSE LET r == Eval(e, ctx, st)
                  IN  CASE Fails(r) -> r
                        [] ~Fails(r) /\ ToBool(r.value) = (o \in OrOp) ->
                                Done(Bool(o \in OrOp), r.st)
                        [] OTHER -> EvalChain(o, rest, ctx, r.st)

\* eval_logical_chain: a chain of the same operator is unfolded on a stack, whose
\* top is last, and costs an operation but no depth for each of its links.
EvalChain(o, pending, ctx, st) ==
    IF pending = <<>> THEN Done(Bool(o \in AndOp), st)
    ELSE LET e    == Last(pending)
             rest == Front(pending)
         IN  IF IsOp(e, o)
             THEN IF OutOfOperations(st, ctx) THEN Failed("operations")
                  ELSE EvalChain(o, rest \o <<e.right, e.left>>, ctx, Charged(st))
             ELSE LET r == Eval(e, ctx, st)
                  IN  CASE Fails(r) -> r
                        [] ~Fails(r) /\ ToBool(r.value) = (o \in OrOp) ->
                                Done(Bool(o \in OrOp), r.st)
                        [] OTHER -> EvalChain(o, rest, ctx, r.st)

\* eval_binary
EvalBinary(e, ctx, st) ==
    IF OutOfOperations(st, ctx) THEN Failed("operations")
    ELSE IF e.op \in OrOp \cup AndOp
    THEN EvalChain(e.op, <<e.right, e.left>>, ctx, Charged(st))
    ELSE LET r == EvalAll(<<e.left, e.right>>, ctx, Charged(st), <<>>)
         IN  IF Fails(r) THEN r
             ELSE Settled(Combine(e.op, r.value.list[1], r.value.list[2], ctx), r.st)

EvalNot(e, ctx, st) ==
    LET r == Eval(e.not, ctx, st)
    IN  IF Fails(r) THEN r ELSE Done(Bool(~ToBool(r.value)), r.st)

EvalNode(e, ctx, st) ==
    CASE "int" \in DOMAIN e      -> Done(e, st)
      [] "str" \in DOMAIN e      -> Done(e, st)
      [] "list" \in DOMAIN e     -> EvalAll(e.list, ctx, st, <<>>)
      [] "id" \in DOMAIN e       -> Settled(ResolveIdentifier(e.id, ctx), st)
      [] "not" \in DOMAIN e      -> EvalNot(e, ctx, st)
      [] "op" \in DOMAIN e       -> EvalBinary(e, ctx, st)
      [] "receiver" \in DOMAIN e -> EvalReceiver(e, ctx, st)
      [] OTHER                   -> EvalCall(e, ctx, st, <<>>)

\* A slip: depth that is not given back.
EvalLeaking(e, ctx, st) ==
    IF st.depth + 1 > ctx.max_depth THEN Failed("depth")
    ELSE EvalNode(e, ctx, [st EXCEPT !.depth = @ + 1])

\* eval: one more level, given back when the node is done.
Eval(e, ctx, st) ==
    IF st.depth + 1 > ctx.max_depth THEN Failed("depth")
    ELSE LET r == EvalNode(e, ctx, [st EXCEPT !.depth = @ + 1])
         IN  IF Fails(r) THEN r ELSE [r EXCEPT !.st.depth = st.depth]
=============================================================================
