------------------------------ MODULE Response ------------------------------
(***************************************************************************)
(* A response on its way through evaluator.rs and extractor.rs: its body   *)
(* is decoded by a chain of transforms, extractors take values from it,    *)
(* the values are put into a condition, and the condition is evaluated.    *)
(* The functions are pure; the steps are those of their loops.  What       *)
(* matters is the order in which the loops run: one transform works on     *)
(* what the one before has left, a later extractor overwrites an earlier   *)
(* one, and variables are substituted in the order of a hash map.          *)
(***************************************************************************)
EXTENDS ResponseText

CONSTANT Requests \* The calls: [response, transforms, extractors, include_internal, condition].

IsSequence(s) == s \in Seq(Range(s))

\* The shape of a call; an extractor has at most one name.  header_map lists
\* names with values.
ASSUME RequestAssumption ==
    \A call \in Requests :
        /\ call.response \in [body : Text, headers : Text, header_map : Seq(Tokens \X Text)]
        /\ IsCanonical(call.response.body)
        /\ IsSequence(call.transforms)
        /\ IsSequence(call.extractors)
        /\ \A n \in DOMAIN call.extractors :
              /\ call.extractors[n].patterns \in Seq(Text)
              /\ call.extractors[n].name \subseteq Text
              /\ \A a, b \in call.extractors[n].name : a = b
        /\ call.condition.left \in Text /\ call.condition.right \in Text
        /\ call.condition.operator \in {"==", "!=", "contains"}
        /\ call.condition.quote \in {<<>>, <<DoubleQuote>>, <<SingleQuote>>}

VARIABLES
    request,    \* The call.
    stage,      \* The function that runs.
    index,      \* Its next transform or extractor.
    data,       \* The body as transformed so far.
    failures,   \* The indexes of the transforms that failed.
    extracted,  \* Key -> value.
    pending,    \* The variables still to substitute.
    text,       \* The condition as substituted so far.
    verdict     \* What evaluate_condition said.

vars == <<request, stage, index, data, failures, extracted, pending, text, verdict>>

\* A condition is [left, operator, right, quote, spaced]: operands between
\* quotes around an operator, which may have blanks around it.
ConditionText(c) ==
    LET blank == IF c.spaced THEN <<Blank>> ELSE <<>>
        quoted(operand) == c.quote \o (operand \o c.quote)
    IN  (quoted(c.left) \o blank) \o (<<c.operator>> \o (blank \o quoted(c.right)))

Init ==
    /\ request \in Requests
    /\ stage     = "transform"
    /\ index     = 1
    /\ data      = request.response.body
    /\ failures  = {}
    /\ extracted = [key \in {} |-> <<>>]
    /\ pending   = {}
    /\ text      = <<>>
    /\ verdict   = FALSE

-----------------------------------------------------------------------------
\* A transform that fails leaves the data as it is and is reported.
Transform ==
    /\ stage = "transform"
    /\ index <= Len(request.transforms)
    /\ LET results == Transformed(request.transforms[index], data)
       IN  \/ results = {} /\ failures' = failures \cup {index} /\ UNCHANGED data
           \/ data' \in results /\ UNCHANGED failures
    /\ index' = index + 1
    /\ UNCHANGED <<request, stage, extracted, pending, text, verdict>>

BodyReady ==
    /\ stage = "transform"
    /\ index > Len(request.transforms)
    /\ stage' = "extract"
    /\ index' = 1
    /\ UNCHANGED <<request, data, failures, extracted, pending, text, verdict>>

\* The response whose body has been transformed.
Decoded == [request.response EXCEPT !.body = data]

Considered(extractor) == request.include_internal \/ ~extractor.internal

\* One extractor: its value, if it yields one, replaces an earlier value of its
\* key; if it does not, the earlier value stays.
Extract ==
    /\ stage = "extract"
    /\ index <= Len(request.extractors)
    /\ LET extractor == request.extractors[index]
           values == IF Considered(extractor) THEN YieldsOf(extractor, Decoded) ELSE {}
       IN  IF values = {} \/ KeyOf(extractor) = {} THEN UNCHANGED extracted
           ELSE \E value \in values, key \in KeyOf(extractor) :
                   extracted' = [k \in DOMAIN extracted \cup {key} |->
                                    IF k = key THEN value ELSE extracted[k]]
    /\ index' = index + 1
    /\ UNCHANGED <<request, stage, data, failures, pending, text, verdict>>

AllExtracted ==
    /\ stage = "extract"
    /\ index > Len(request.extractors)
    /\ stage'   = "substitute"
    /\ pending' = DOMAIN extracted
    /\ text'    = ConditionText(request.condition)
    /\ UNCHANGED <<request, index, data, failures, extracted, verdict>>

\* A slip: one variable is enough.
SubstituteOnly(key) ==
    /\ stage = "substitute"
    /\ text'    = Substituted(text, [k \in {key} |-> extracted[k]])
    /\ pending' = {}
    /\ UNCHANGED <<request, stage, index, data, failures, extracted, verdict>>

\* The next variable, in the order of a hash map.
Substitute(key) ==
    /\ stage = "substitute"
    /\ text'    = Substituted(text, [k \in {key} |-> extracted[k]])
    /\ pending' = pending \ {key}
    /\ UNCHANGED <<request, stage, index, data, failures, extracted, verdict>>

Evaluate ==
    /\ stage = "substitute"
    /\ pending = {}
    /\ stage'   = "done"
    /\ verdict' = EvaluateCondition(text)
    /\ UNCHANGED <<request, index, data, failures, extracted, pending, text>>

Next ==
    \/ Transform
    \/ BodyReady
    \/ Extract
    \/ AllExtracted
    \/ \E key \in pending : Substitute(key)
    \/ Evaluate

Spec == Init /\ [][Next]_vars

-----------------------------------------------------------------------------
\* The transforms so far that were not reported.
Taken == {n \in DOMAIN request.transforms : n \notin failures /\ (stage = "transform" => n < index)}

Encoding == [Base64Decode |-> "b64", HexDecode |-> "hex", GzipDecompress |-> "gz"]

\* The data encoded again by those of the last k transforms that were not
\* reported.
Undone[k \in 0..Len(request.transforms)] ==
    LET n == Len(request.transforms) + 1 - k
    IN  IF k = 0 THEN data
        ELSE IF n \in Taken THEN Encoded(Encoding[request.transforms[n].kind], Undone[k - 1])
        ELSE Undone[k - 1]

\* The transforms that are not reported account for the data: whatever the order
\* of the decoders and however many of them fail, undoing those that are not
\* reported, the last one first, gives the body back, up to how an encoding may
\* be spelled.  So a decoder that leaves its data as it is is reported, and
\* nothing is lost but the end of a stream longer than the limit.
DecodingIsAccountedFor ==
    data # <<>> /\ (\A n \in Taken : request.transforms[n].kind \in DOMAIN Encoding)
    => LET body == request.response.body
           original == Undone[Len(request.transforms)]
       IN  /\ IsPrefix(original, body)
           /\ \/ original = body
              \/ \E n \in Taken : /\ request.transforms[n].kind = "GzipDecompress"
                                  /\ Len(body) > MaxInflated + 1

\* The positions of the extractors that give the key a value.
Giving(key) ==
    {n \in DOMAIN request.extractors :
        LET extractor == request.extractors[n]
        IN  /\ Considered(extractor)
            /\ key \in KeyOf(extractor)
            /\ \E m \in DOMAIN extractor.patterns :
                  Yields(extractor, extractor.patterns[m], Decoded) # {}}

\* A key has the value of the last extractor that yields one for it, taken from
\* the first of its patterns that yields; an extractor that yields nothing, or
\* is internal to a call for the user, neither adds a key nor disturbs one.
LastExtractorWins ==
    stage \in {"substitute", "done"} =>
        /\ DOMAIN extracted = {key \in UNION {KeyOf(request.extractors[n]) :
                                                  n \in DOMAIN request.extractors} : Giving(key) # {}}
        /\ \A key \in DOMAIN extracted :
              LET extractor == request.extractors[Max(Giving(key))]
                  yields(m) == Yields(extractor, extractor.patterns[m], Decoded)
              IN  \E m \in DOMAIN extractor.patterns :
                     /\ extracted[key] \in yields(m)
                     /\ \A k \in 1..m - 1 : yields(k) = {}

\* A path of keys, and of arrays of objects, between dots.
IsPath(path) ==
    /\ path \in Text /\ Len(path) % 2 = 1 /\ path[1] # "#"
    /\ \A n \in DOMAIN path : /\ path[n] = "." <=> n % 2 = 0
                              /\ path[n] \notin {"$", "[", "]"}
                              /\ path[n] = "#" /\ n > 2 => path[n - 2] # "#"

\* A path of gjson as a template spells it: brackets for the elements of an
\* array, with or without a dot after them.
InTemplate(root, path, dotted) ==
    LET is(n, token) == n \in DOMAIN path /\ path[n] = token
    IN  root \o FlattenSeq([n \in DOMAIN path |->
            IF is(n, "#") THEN <<"[", "]">>
            ELSE IF is(n, ".") /\ (is(n + 1, "#") \/ (~dotted /\ is(n - 1, "#"))) THEN <<>>
            ELSE <<path[n]>>])

\* However a template spells a path of the document at hand, with or without its
\* root and with or without a dot after brackets, the value is found.
SpellingsAgree ==
    IsJson(data) =>
        \A path \in DOMAIN Documents[data[2]], dotted \in BOOLEAN,
           root \in {<<>>, <<"$">>, <<".">>, <<"$", ".">>} :
            IsPath(path) => JsonAt(data, InTemplate(root, path, dotted)) = {Documents[data[2]][path]}

\* Between two braces of a kind there is one of the other: no placeholder is
\* nested in another.
Alternating(condition) ==
    \A i, j \in DOMAIN condition :
        i < j /\ condition[i] = condition[j] /\ condition[i] \in Braces =>
            \E k \in i + 1..j - 1 : condition[k] \in Braces \ {condition[i]}

\* No name and no value holds braces.
PlainVariables ==
    /\ \A key \in DOMAIN extracted : (Range(key) \cup Range(extracted[key])) \cap Braces = {}
    /\ Alternating(ConditionText(request.condition))

\* The order of the hash map does not show: plain variables are substituted as
\* if all at once.
SubstitutionIsSimultaneous ==
    stage \in {"substitute", "done"} /\ pending = {} /\ PlainVariables =>
        text = Substituted(ConditionText(request.condition), extracted)

\* Nothing in an operand reads as an operator or a quote.
PlainOperand(operand) ==
    Range(operand) \cap {"==", "!=", "contains", DoubleQuote, SingleQuote} = {}

\* A comparison survives substitution, quoting and whitespace: the verdict is
\* that of the operands with their variables, whatever the order of substitution
\* and whatever whitespace a value brings.  Whitespace at the ends of an operand
\* counts only between quotes.  A `contains` has to stand between blanks;
\* trimming takes one that is at either end of the condition, so that an operand
\* which becomes empty has to stand between quotes.
ComparisonSurvives ==
    LET condition == request.condition
        filled(operand) == Substituted(operand, extracted)
        operands == {filled(condition.left), filled(condition.right)}
        meant(operand) == IF condition.quote = <<>> THEN TrimOf(Whitespace, filled(operand))
                          ELSE filled(operand)
        left  == meant(condition.left)
        right == meant(condition.right)
    IN  /\ stage = "done" /\ PlainVariables
        /\ \A operand \in operands : PlainOperand(operand)
        /\ \A key \in DOMAIN extracted : PlainOperand(key) /\ Blank \notin Range(key)
        =>
           CASE condition.operator = "==" -> verdict = (left = right)
             [] condition.operator = "!=" -> verdict = (left # right)
             [] condition.operator = "contains" ->
                   /\ verdict => \/ condition.spaced
                                 \/ /\ condition.quote = <<>>
                                    /\ \A operand \in operands : Blank \in Range(operand)
                   /\ condition.spaced /\ (condition.quote # <<>> \/ <<>> \notin {left, right}) =>
                         verdict = (right = <<>> \/ Positions(right, left) # {})
=============================================================================
