---------------------------- MODULE ResponseText ----------------------------
(***************************************************************************)
(* The operations of evaluator.rs, extractor.rs and json_util.rs on the    *)
(* text of a response.                                                     *)
(*                                                                         *)
(* A text is a sequence of tokens.  An encoded text is the token of its    *)
(* encoding and the text encoded: <<"b64", "gz", "x">> is the base64 of    *)
(* the gzip of x.  The other way round, <<"unb64", "k", "v">> is the bytes *)
(* whose base64 happens to read "kv".  "%" is an escape of the token after *)
(* it, and a JSON body is <<"json", document>>.                            *)
(***************************************************************************)
EXTENDS Integers, FiniteSets, SequencesExt

CONSTANTS
    Tokens,      \* What texts consist of.
    MaxInflated, \* Tokens gzip_decompress reads: 10 MiB in the code.
    Documents,   \* JSON document -> normalized path -> what gjson finds there.
    LowerCase,   \* The lower case of the header names that have upper case.
    Readable     \* Encoding -> the texts not encoded in it but well formed in it: the
                 \* digits of a hex text, or any short word, may be valid base64.

ASSUME MaxInflatedAssumption == MaxInflated \in Nat

\* Tokens by name.
Open        == "{{"
Close       == "}}"
Blank       == " "
DoubleQuote == "\""
SingleQuote == "'"
Newline     == "\n"

\* What str::trim takes; the newline stands for all whitespace but the blank.
Whitespace == {Blank, Newline}

\* The bytes that a text happens to encode are this token and the text.
Raw == [b64 |-> "unb64", hex |-> "unhex"]

\* What the code itself puts into a text, or looks for in one.
ASSUME TokensAssumption ==
    {Open, Close, Blank, DoubleQuote, SingleQuote, "==", "!=", "contains", "null", Newline,
     "$", ".", "#", "[", "]", Raw.b64, Raw.hex} \subseteq Tokens

Text == Seq(Tokens)

ASSUME ReadableAssumption ==
    DOMAIN Readable = DOMAIN Raw /\ \A encoding \in DOMAIN Raw : Readable[encoding] \subseteq Text

\* What gjson finds has a text, unless it is null; so have the elements of an
\* array.
ASSUME DocumentsAssumption ==
    LET Rendered(value) == value.kind = "Null" \/ value.text \in Text
    IN  \A document \in DOMAIN Documents : \A path \in DOMAIN Documents[document] :
            LET value == Documents[document][path]
            IN  /\ Rendered(value)
                /\ value.kind = "Array" =>
                      /\ value.items \in Seq(Range(value.items))
                      /\ \A n \in DOMAIN value.items : Rendered(value.items[n])

-----------------------------------------------------------------------------
\* What the decoders make of a text: nothing, or one text.

\* A gzip stream, and bytes that happened to be encoded, hide what they hold.
Hidden == {"gz", Raw.b64, Raw.hex}

Visible(text) ==
    SubSeq(text, 1, Min({Len(text)} \cup {i \in DOMAIN text : text[i] \in Hidden}))

\* A slip: a text that is not encoded passes for decoded.
DecodeAnyhow(encoding, text) ==
    IF text # <<>> /\ Head(text) = encoding THEN {Tail(text)} ELSE {text}

\* Any text that is well formed in an encoding is decoded, encoded or not.
\* Neither alphabet has a dot, and both decode no byte to none.
DecodeAs(encoding, text) ==
    IF text = <<>> THEN {<<>>}
    ELSE IF "." \in Range(Visible(text)) THEN {}
    ELSE IF Head(text) = encoding THEN {Tail(text)}
    ELSE {<<Raw[encoding]>> \o t : t \in {text} \cap Readable[encoding]}

\* The encoding of bytes that happened to be encoded is spelled in one way: as
\* the text they were read from.
IsCanonical(text) ==
    \A i \in 1..Len(text) - 1, encoding \in DOMAIN Raw :
        ~(text[i] = encoding /\ text[i + 1] = Raw[encoding])

\* The text that decodes to bytes: the one they were read from, or their encoding.
Encoded(encoding, bytes) ==
    IF encoding \in DOMAIN Raw /\ bytes # <<>> /\ bytes[1] = Raw[encoding] THEN Tail(bytes)
    ELSE <<encoding>> \o bytes

\* The rest of a stream that is longer than the limit is never read.
Gunzip(text) ==
    LET read == SubSeq(text, 2, Min({Len(text), MaxInflated + 1}))
    IN  IF text # <<>> /\ text[1] = "gz" /\ "corrupt" \notin Range(read) THEN {read} ELSE {}

\* Decoding percent escapes never fails, and an encoded text has none.
UrlDecoded(text) ==
    IF text # <<>> /\ Head(text) \in {"b64", "hex"} \cup Hidden THEN text
    ELSE FlattenSeq([i \in DOMAIN text |-> IF text[i] = "%" THEN <<>> ELSE <<text[i]>>])

\* The payload is the second of exactly three parts.
JwtPayload(text) ==
    LET dots == {i \in DOMAIN Visible(text) : text[i] = "."}
    IN  IF Cardinality(dots) = 2
        THEN DecodeAs("b64", SubSeq(text, Min(dots) + 1, Max(dots) - 1))
        ELSE {}

-----------------------------------------------------------------------------
\* JSON paths.

StripRoot(path) ==
    IF path # <<>> /\ path[1] = "$"
    THEN IF Len(path) > 1 /\ path[2] = "." THEN SubSeq(path, 3, Len(path)) ELSE Tail(path)
    ELSE IF path # <<>> /\ path[1] = "." THEN Tail(path) ELSE path

\* A slip: a key right after the brackets is not separated from them.
BracketsOnly(path) ==
    LET p == StripRoot(path)
        opens(i) == i \in 1..Len(p) - 1 /\ p[i] = "[" /\ p[i + 1] = "]"
    IN  FlattenSeq([i \in DOMAIN p |->
            IF opens(i) THEN <<".", "#">> ELSE IF opens(i - 1) THEN <<>> ELSE <<p[i]>>])

\* normalize_gjson_path: `[]` becomes `.#`, and a dot is put before what follows
\* unless there is one.
NormalizePath(path) ==
    LET p == StripRoot(path)
        opens(i) == i \in 1..Len(p) - 1 /\ p[i] = "[" /\ p[i + 1] = "]"
    IN  FlattenSeq([i \in DOMAIN p |->
            IF opens(i) THEN <<".", "#">>
            ELSE IF ~opens(i - 1) THEN <<p[i]>>
            ELSE IF i < Len(p) /\ p[i + 1] # "." THEN <<".">> ELSE <<>>])

IsJson(text) == Len(text) = 2 /\ text[1] = "json" /\ text[2] \in DOMAIN Documents

\* What there is at a path: nothing, or one value.
JsonAt(text, path) ==
    LET document == Documents[text[2]]
    IN  {document[p] : p \in {NormalizePath(path)} \cap DOMAIN document}

\* gjson_value_to_string: null has a text of its own.
ValueToString(value) == IF value.kind = "Null" THEN <<"null">> ELSE value.text

\* The elements of an array are put on lines of their own.
JsonText(value) ==
    IF value.kind = "Array"
    THEN FlattenSeq([i \in DOMAIN value.items |->
             (IF i = 1 THEN <<>> ELSE <<Newline>>) \o ValueToString(value.items[i])])
    ELSE ValueToString(value)

-----------------------------------------------------------------------------
\* transform_response_checked, one transform: at most one text.
Transformed(transform, text) ==
    CASE transform.kind = "Base64Decode"   -> DecodeAs("b64", text)
      [] transform.kind = "HexDecode"      -> DecodeAs("hex", text)
      [] transform.kind = "UrlDecode"      -> {UrlDecoded(text)}
      [] transform.kind = "GzipDecompress" -> Gunzip(text)
      [] transform.kind = "JwtDecode"      -> JwtPayload(text)
      [] transform.kind = "JsonParse" /\ IsJson(text) ->
            IF JsonAt(text, transform.path) = {} THEN {<<>>}
            ELSE {ValueToString(value) : value \in JsonAt(text, transform.path)}
      [] OTHER -> {}

-----------------------------------------------------------------------------
\* extract_impl, one extractor.

\* What is left of a text when these tokens are taken off both ends.
TrimOf(tokens, text) ==
    LET kept == {i \in DOMAIN text : text[i] \notin tokens}
    IN  IF kept = {} THEN <<>> ELSE SubSeq(text, Min(kept), Max(kept))

Lower(name) == IF name \in DOMAIN LowerCase THEN LowerCase[name] ELSE name

\* The first header of this name, whose case does not matter; header_map lists
\* the headers as received.
HeaderValue(response, name) ==
    LET at == {i \in DOMAIN response.header_map :
                  Lower(response.header_map[i][1]) = Lower(name)}
    IN  {response.header_map[i][2] : i \in {n \in at : \A m \in at : n <= m}}

\* select_response_part.
PartOf(response, part) ==
    CASE part = "Body"   -> response.body
      [] part = "Header" -> response.headers
      [] part = "All"    -> response.headers \o response.body
      [] OTHER           -> IF HeaderValue(response, part) = {} THEN <<>>
                            ELSE CHOOSE value \in HeaderValue(response, part) : TRUE

\* The regex <<t>> finds the first token t; its group 1 is the token after it,
\* which takes no part when t is the last.  "(" does not compile.
Captures(pattern, group, text) ==
    LET at == {i \in DOMAIN text : text[i] = pattern[1]}
    IN  IF pattern = <<"(">> \/ at = {} THEN {}
        ELSE {SubSeq(text, Min(at) + group, Min(at) + group) :
                 g \in {group} \cap (IF Min(at) < Len(text) THEN {0, 1} ELSE {0})}

\* The value one pattern yields, if any.
Yields(extractor, pattern, response) ==
    LET text == PartOf(response, extractor.part)
    IN  CASE extractor.kind = "Regex" -> Captures(pattern, extractor.group, text)
          [] extractor.kind = "Kval"  ->
                IF extractor.part = "Body" THEN {} ELSE HeaderValue(response, pattern[1])
          [] extractor.kind = "Json" /\ IsJson(text) ->
                {JsonText(value) : value \in JsonAt(text, TrimOf(Whitespace, pattern))}
          [] OTHER -> {}

\* A slip: the last pattern that yields a value wins.
LastYield(extractor, response) ==
    LET yielding == {n \in DOMAIN extractor.patterns :
                        Yields(extractor, extractor.patterns[n], response) # {}}
    IN  IF yielding = {} THEN {} ELSE Yields(extractor, extractor.patterns[Max(yielding)], response)

\* The patterns are tried in order until one yields a value.
YieldsOf(extractor, response) ==
    LET yielding == {n \in DOMAIN extractor.patterns :
                        Yields(extractor, extractor.patterns[n], response) # {}}
    IN  IF yielding = {} THEN {} ELSE Yields(extractor, extractor.patterns[Min(yielding)], response)

\* extractor_key: the name, or the first pattern; an extractor with neither is
\* skipped.  `name` holds at most one name.
KeyOf(extractor) ==
    IF extractor.name # {} THEN extractor.name
    ELSE {extractor.patterns[n] : n \in DOMAIN extractor.patterns \cap {1}}

-----------------------------------------------------------------------------
\* substitute_variables and evaluate_condition.

Braces == {Open, Close}

\* The variables a placeholder of which starts at i.
StartsAt(text, vars, i) ==
    {key \in DOMAIN vars : SubSeq(text, i, Min({Len(text), i + Len(key) + 1}))
                              = <<Open>> \o key \o <<Close>>}

\* What takes the place of the token at i.
Replacement(text, vars, i) ==
    IF StartsAt(text, vars, i) # {} THEN vars[CHOOSE key \in StartsAt(text, vars, i) : TRUE]
    ELSE IF \E j \in DOMAIN text : \E key \in StartsAt(text, vars, j) :
               j < i /\ i <= j + Len(key) + 1
    THEN <<>> ELSE <<text[i]>>

\* The placeholders of these variables in a text, all at once.  They do not
\* overlap while names have no braces.
Substituted(text, vars) == FlattenSeq([i \in DOMAIN text |-> Replacement(text, vars, i)])

\* A slip: the quotes stay.
NormalizeQuoted(operand) == TrimOf(Whitespace, operand)

NormalizeOperand(operand) ==
    TrimOf({SingleQuote}, TrimOf({DoubleQuote}, TrimOf(Whitespace, operand)))

Positions(needle, text) ==
    {i \in 1..Len(text) - Len(needle) + 1 : SubSeq(text, i, i + Len(needle) - 1) = needle}

\* The operands around the first operator with blanks around it, or else around
\* the first without.
Operands(operator, text) ==
    LET spaced  == Positions(<<Blank, operator, Blank>>, text)
        compact == Positions(<<operator>>, text)
        split(i, width) == <<NormalizeOperand(SubSeq(text, 1, i - 1)),
                             NormalizeOperand(SubSeq(text, i + width, Len(text)))>>
    IN  IF spaced # {} THEN split(Min(spaced), 3) ELSE split(Min(compact), 1)

\* `contains` is an operator only between blanks.
EvaluateCondition(condition) ==
    LET text == TrimOf(Whitespace, condition)
        Says(operator) == operator \in Range(text)
        operands(operator) == Operands(operator, text)
    IN  CASE text = <<>> -> FALSE
          [] Says("==") -> operands("==")[1] = operands("==")[2]
          [] ~Says("==") /\ Says("!=") -> operands("!=")[1] # operands("!=")[2]
          [] ~Says("==") /\ ~Says("!=") /\ Says("contains") ->
                /\ Positions(<<Blank, "contains", Blank>>, text) # {}
                /\ operands("contains")[2] = <<>>
                      \/ Positions(operands("contains")[2], operands("contains")[1]) # {}
          [] OTHER -> text \notin {<<>>, <<DoubleQuote, DoubleQuote>>, <<SingleQuote, SingleQuote>>}
=============================================================================
