---------------------------- MODULE DslFunctions ----------------------------
(***************************************************************************)
(* dsl/functions: the values of the DSL and the functions that compute on  *)
(* texts and integers.  A character is one byte.  Left out are the         *)
(* functions whose result is random, or a hash, an encoding or a date.     *)
(***************************************************************************)
EXTENDS DslParser, SequencesExt

CONSTANTS
    Upper,             \* From each lower-case character to its upper-case one.
    MaxString,         \* DEFAULT_MAX_STRING_BYTES
    MaxEmptyReplace    \* REPLACE_EMPTY_OLD_MAX

\* What the code's numbers (2^20 and 10000) satisfy: a text that may be
\* interspersed can at most double its length.
ASSUME BudgetAssumption ==
    MaxString \in Nat /\ MaxEmptyReplace \in Nat /\ 2 * MaxEmptyReplace <= MaxString

Bool(b) == [bool |-> b]
Int64(n) == [int |-> n]
Str(s)  == [str |-> s]
List(vs) == [list |-> vs]

Kind(v) == CHOOSE k \in {"bool", "int", "str", "list"} : k \in DOMAIN v

\* An outcome is a value or a failure with its cause.
Failed(why) == [failed |-> why]
Fails(r)    == "failed" \in DOMAIN r

\* Value::to_bool
ToBool(v) ==
    CASE Kind(v) = "bool" -> v.bool
      [] Kind(v) = "int"  -> v.int # 0
      [] Kind(v) = "str"  -> v.str # <<>>
      [] Kind(v) = "list" -> v.list # <<>>

Numerals(n) == CHOOSE c \in Digit : Numeral[c] = n

RECURSIVE Decimal(_), Display(_)
Decimal(n) ==
    IF n < 10 THEN <<Numerals(n)>> ELSE Append(Decimal(n \div 10), Numerals(n % 10))

Join(texts, sep) ==
    FoldLeftDomain(LAMBDA acc, i : (IF i = 1 THEN acc ELSE acc \o sep) \o texts[i], <<>>, texts)

\* Value::to_display_string
Display(v) ==
    CASE Kind(v) = "bool" -> IF v.bool THEN <<"true">> ELSE <<"false">>
      [] Kind(v) = "int"  -> IF v.int < 0 THEN <<"-">> \o Decimal(-v.int) ELSE Decimal(v.int)
      [] Kind(v) = "str"  -> v.str
      [] Kind(v) = "list" ->
            <<"[">> \o Join([i \in DOMAIN v.list |-> Display(v.list[i])], <<",", " ">>) \o <<"]">>

\* str::parse::<i64>: a sign, digits, and a value in range.
AsInteger(s) ==
    LET signed == s # <<>> /\ s[1] \in {"+", "-"}
        digits == IF signed THEN Tail(s) ELSE s
        n      == IF signed /\ s[1] = "-" THEN -ValueOf(digits) ELSE ValueOf(digits)
    IN  IF digits # <<>> /\ ToSet(digits) \subseteq Digit
        THEN IF n \in MinInt..MaxInt THEN Int64(n) ELSE Failed("error")
        ELSE Failed("error")

ToUpper(s) == [i \in DOMAIN s |-> IF s[i] \in DOMAIN Upper THEN Upper[s[i]] ELSE s[i]]
ToLower(s) ==
    [i \in DOMAIN s |->
        IF \E c \in DOMAIN Upper : Upper[c] = s[i]
        THEN CHOOSE c \in DOMAIN Upper : Upper[c] = s[i]
        ELSE s[i]]

-----------------------------------------------------------------------------
\* str::contains
Holds(s, t) == \E i \in 0..Len(s) - Len(t) : SubSeq(s, i + 1, i + Len(t)) = t

\* The position of the first occurrence of the text sep in s, 0 if none.
FirstIn(s, sep) ==
    LET at == {i \in 1..Len(s) - Len(sep) + 1 : SubSeq(s, i, i + Len(sep) - 1) = sep}
    IN  IF at = {} THEN 0 ELSE CHOOSE i \in at : \A j \in at : i <= j

RECURSIVE Pieces(_, _)

\* str::split: the pieces of s between the occurrences of sep.  An empty
\* separator occurs between all characters and at both ends.
Pieces(s, sep) ==
    IF sep = <<>> THEN << <<>> >> \o [i \in DOMAIN s |-> <<s[i]>>] \o << <<>> >>
    ELSE LET i == FirstIn(s, sep)
         IN  IF i = 0 THEN <<s>>
             ELSE <<SubSeq(s, 1, i - 1)>> \o Pieces(SubSeq(s, i + Len(sep), Len(s)), sep)

\* A slip: count the inserted texts only.
ReplaceUnbounded(s, old, new) ==
    IF (Len(Pieces(s, old)) - 1) * Len(new) > MaxString THEN Failed("error")
    ELSE Str(Join(Pieces(s, old), new))

\* replace estimates the length of its result before it builds it.  With an
\* empty old text the estimate is that of the inserted texts alone.
Replace(s, old, new) ==
    LET inserted == (Len(Pieces(s, old)) - 1) * Len(new)
    IN  IF IF old = <<>> THEN Len(new) * (Len(s) + 1) > MaxEmptyReplace
           ELSE Len(s) + inserted > MaxString
        THEN Failed("error")
        ELSE Str(Join(Pieces(s, old), new))

\* validate_output_len, then the length of the result.
Repeat(s, n) ==
    IF n < 0 \/ n > MaxString \/ Len(s) * n > MaxString THEN Failed("error")
    ELSE Str(FlattenSeq([i \in 1..n |-> s]))

\* A negative start or length counts as zero.
Substr(s, start, length) ==
    LET from == Max({start, 0})
    IN  Str(SubSeq(s, from + 1, Min({Len(s), from + Max({length, 0})})))

\* A negative index, cast to an unsigned one, is beyond every list.
SplitAt(s, sep, i) ==
    LET ps == Pieces(s, sep)
    IN  Str(IF i \in 0..Len(ps) - 1 THEN ps[i + 1] ELSE <<>>)

\* The items of join: a list followed by the separator, or the separator
\* followed by items of which lists are flattened.
JoinValues(vs) ==
    LET Texts(v) == IF Kind(v) = "list" THEN [i \in DOMAIN v.list |-> Display(v.list[i])]
                    ELSE <<Display(v)>>
    IN  IF Len(vs) = 2 /\ Kind(vs[1]) = "list"
        THEN Str(Join(Texts(vs[1]), Display(vs[2])))
        ELSE Str(Join(FlattenSeq([i \in 1..Len(vs) - 1 |-> Texts(vs[i + 1])]), Display(vs[1])))

-----------------------------------------------------------------------------
\* The regex engine: a pattern is a sequence of literals and dots, anchored if
\* it begins with a caret, and one with an open parenthesis is invalid.
RegexValid(pattern) == "(" \notin ToSet(pattern)
RegexMatches(pattern, input) ==
    LET anchored == pattern # <<>> /\ pattern[1] = "^"
        body     == IF anchored THEN Tail(pattern) ELSE pattern
        starts   == IF anchored THEN {0} ELSE 0..Len(input)
    IN  \E i \in starts :
            /\ i + Len(body) <= Len(input)
            /\ \A j \in DOMAIN body : body[j] \in {".", input[i + j]}

RECURSIVE LikelyInput(_)

\* expr_likely_input: anything but a literal or a list, also under negations.
LikelyInput(e) ==
    IF "not" \in DOMAIN e THEN LikelyInput(e.not) ELSE DOMAIN e \cap {"int", "str", "list"} = {}

LooksLikePattern(s) ==
    ToSet(s) \cap {"*", "+", "?", "^", "$", "[", "]", "(", ")", "{", "}", "|", BS} # {}

\* select_regex_pattern_and_input: is the left argument the pattern?  The
\* expressions decide; if they do not, the values do.
LeftIsPattern(es, vs) ==
    IF LikelyInput(es[1]) # LikelyInput(es[2]) THEN LikelyInput(es[2])
    ELSE LooksLikePattern(vs[1]) /\ ~LooksLikePattern(vs[2])

Regex(es, vs) ==
    LET pattern == IF LeftIsPattern(es, vs) THEN vs[1] ELSE vs[2]
        input   == IF LeftIsPattern(es, vs) THEN vs[2] ELSE vs[1]
    IN  IF RegexValid(pattern) THEN Bool(RegexMatches(pattern, input)) ELSE Failed("error")

\* The value of the header whose lower-case name is asked for, or nothing.
Header(name, ctx) ==
    LET key == ToLower(name)
    IN  Str(IF key \in DOMAIN ctx.header_index THEN ctx.headers[ctx.header_index[key]][2] ELSE <<>>)

-----------------------------------------------------------------------------
\* The arms of eval_call: a name with or without a receiver, and a number of
\* arguments.
Supported(name, method, n) ==
    \/ name \in {<<"contains">>, <<"starts_with">>, <<"ends_with">>} /\ n = (IF method THEN 1 ELSE 2)
    \/ name \in {<<"to_lower">>, <<"to_upper">>} /\ n = (IF method THEN 0 ELSE 1)
    \/ /\ ~method
       /\ \/ name \in {<<"header">>, <<"len">>, <<"to_number">>, <<"wait_for">>} /\ n = 1
          \/ name \in {<<"regex">>, <<"repeat">>} /\ n = 2
          \/ name \in {<<"replace">>, <<"substr">>, <<"split">>} /\ n = 3
          \/ name \in {<<"contains_any">>, <<"join">>} /\ n >= 2
          \/ name = <<"concat">> /\ n >= 1

\* The arguments that must be integers, asked for as soon as they are evaluated.
MustBeInteger(name, i) ==
    <<name, i>> \in {<< <<"repeat">>, 2>>, << <<"substr">>, 2>>, << <<"substr">>, 3>>,
                     << <<"split">>, 3>>, << <<"wait_for">>, 1>>}

\* What a supported call makes of its values, a receiver being the first.
Apply(name, vs, es, ctx) ==
    LET texts == [i \in DOMAIN vs |-> Display(vs[i])]
        one   == texts[1]
    IN  CASE name = <<"contains">>     -> Bool(Holds(one, texts[2]))
          [] name = <<"contains_any">> -> Bool(\E i \in 2..Len(vs) : Holds(one, texts[i]))
          [] name = <<"starts_with">>  -> Bool(IsPrefix(texts[2], one))
          [] name = <<"ends_with">>    -> Bool(IsSuffix(texts[2], one))
          [] name = <<"to_lower">>     -> Str(ToLower(one))
          [] name = <<"to_upper">>     -> Str(ToUpper(one))
          [] name = <<"header">>       -> Header(one, ctx)
          [] name = <<"len">>          ->
                Int64(IF Kind(vs[1]) = "list" THEN Len(vs[1].list) ELSE Len(one))
          [] name = <<"to_number">>    -> AsInteger(one)
          [] name = <<"wait_for">>     -> Int64(Max({0, Min({10, vs[1].int})}))
          [] name = <<"regex">>        -> Regex(es, texts)
          [] name = <<"repeat">>       -> Repeat(one, vs[2].int)
          [] name = <<"replace">>      -> Replace(one, texts[2], texts[3])
          [] name = <<"substr">>       -> Substr(one, vs[2].int, vs[3].int)
          [] name = <<"split">>        -> SplitAt(one, texts[2], vs[3].int)
          [] name = <<"concat">>       -> Str(FlattenSeq(texts))
          [] name = <<"join">>         -> JoinValues(vs)
=============================================================================
