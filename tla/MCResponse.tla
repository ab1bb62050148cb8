----------------------------- MODULE MCResponse -----------------------------
(***************************************************************************)
(* Bodies under up to three encodings, complete, corrupt, too long,        *)
(* wrongly nested or well formed in an encoding by chance, against every   *)
(* chain of up to three decoders and some with the other transforms;       *)
(* extractors of every kind that share keys, fail, or are internal,        *)
(* against a response with two spellings of one header; and comparisons    *)
(* with up to two variables, some with whitespace at the ends of values.   *)
(***************************************************************************)
EXTENDS Response

MCTokens == STRING

MCLowerCase == [X |-> "x"]

\* Among them a text that is hex digits, the rest of a stream that was cut, and
\* bytes that the other encoding was read into.
MCReadable ==
    [b64 |-> {<<"k">>, <<"k", "v">>, <<"k", "v", "k">>, <<"hex", "b64", "k">>,
              <<"hex", "gz", "k", "v">>, <<"unhex", "k", "v">>},
     hex |-> {<<"k", "v">>, <<"b64", "k", "v">>}]

Rendered(kind, words) == [kind |-> kind, text |-> words]
Array(words, items) == [kind |-> "Array", text |-> words, items |-> items]
Null == [kind |-> "Null"]

MCDocuments ==
    [user |-> (<<"name">> :> Rendered("String", <<"v">>))
           @@ (<<"none">> :> Null)
           @@ (<<"tags">> :> Array(<<"[v,null]">>, <<Rendered("String", <<"v">>), Null>>))
           @@ (<<"lines">> :> Array(<<"[v,]">>, <<Rendered("String", <<"v">>), Rendered("String", <<>>)>>))
           @@ (<<"items", ".", "#", ".", "name">> :> Array(<<"[7]">>, <<Rendered("Number", <<"7">>)>>))
           @@ (<<"items", ".", "#", ".", "parts", ".", "#", ".", "id">> :>
                  Array(<<"[1]">>, <<Rendered("Number", <<"1">>)>>))
           @@ (<<"items", ".", "#">> :> Rendered("Number", <<"1">>))]

Kind(kind)      == [kind |-> kind]
JsonParse(path) == [kind |-> "JsonParse", path |-> path]

Decoders == {Kind("Base64Decode"), Kind("HexDecode"), Kind("GzipDecompress")}
Chains   == UNION {[1..n -> Decoders] : n \in 0..3}
Others   ==
    {<<Kind("UrlDecode")>>, <<Kind("UrlDecode"), Kind("Base64Decode")>>, <<Kind("JwtDecode")>>,
     <<Kind("GzipDecompress"), Kind("JwtDecode"), JsonParse(<<"$", ".", "name">>)>>,
     <<JsonParse(<<"none">>)>>, <<JsonParse(<<"missing">>), Kind("Base64Decode")>>,
     <<JsonParse(<<".", "tags">>)>>, <<Kind("Unknown")>>}

Bodies ==
    {<<"k", "v">>, <<"b64", "k", "v">>, <<"b64", "gz", "k", "v">>, <<"hex", "b64", "k">>,
     <<"gz", "k", "v", "k", "w">>, <<"gz", "k", "corrupt">>, <<"gz", "k", "v", "k", "corrupt">>,
     <<"b64", "hex", "gz", "k", "v">>, <<"k", "%", "v">>, <<"b64", "%", "v">>, <<>>,
     <<"b64", "h", ".", "b64", "k", "v", ".", "s">>, <<"h", ".", "k", ".", "s">>, <<"h", ".", "k">>,
     <<"gz", "b64", ".", "b64">>, <<"json", "user">>, <<"b64", "json", "user">>,
     <<"gz", "b64", "h", ".", "b64", "json", "user", ".", "s">>, <<"json", "unknown">>}

E(kind, part, name, group, internal, patterns) ==
    [kind |-> kind, part |-> part, name |-> name, group |-> group, internal |-> internal,
     patterns |-> patterns]

\* One variable of the body, and none.
Key == E("Regex", "Body", {<<"n">>}, 1, FALSE, << <<"k">> >>)

Extractors ==
    {Key, E("Regex", "All", {<<"n">>}, 0, TRUE, << <<"(">>, <<"missing">>, <<"w">>, <<"k">> >>),
     E("Regex", "x", {<<"m">>}, 0, FALSE, << <<"v">> >>),
     E("Kval", "Header", {<<"m">>}, 0, FALSE, << <<"missing">>, <<"X">> >>),
     E("Kval", "Body", {<<"m">>}, 0, FALSE, << <<"x">> >>),
     E("Json", "Body", {<<"n">>}, 0, FALSE, << <<" ", "none", " ">>, <<"name">> >>),
     E("Json", "Body", {}, 0, FALSE, << <<"$", ".", "items", "[", "]", "name">> >>),
     E("Json", "Body", {<<"m">>}, 0, TRUE, << <<"$", "tags">> >>),
     E("Regex", "Body", {}, 0, FALSE, << >>),
     E("Xpath", "Body", {<<"n">>}, 0, FALSE, << <<"k">> >>)}
ExtractorLists == {<<>>} \cup {<<e>> : e \in Extractors} \cup {<<e, f>> : e \in Extractors, f \in Extractors}

C(left, operator, right, quote, spaced) ==
    [left |-> left, operator |-> operator, right |-> right, quote |-> quote, spaced |-> spaced]
N == <<"{{", "n", "}}">>
W == <<"{{", "m", "}}">>

Sides == {N, W, N \o W, <<"v">>, <<" ", "v">>, <<>>, <<"{{", "other", "}}">>}
Conditions ==
    {C(l, op, r, quote, spaced) : l \in Sides, r \in Sides \ {N \o W}, op \in {"==", "!=", "contains"},
        quote \in {<<>>, <<"'">>}, spaced \in BOOLEAN}

Headers == << <<"x", <<"v">>>>, <<"X", <<"w">>>> >>
Response1(body) == [body |-> body, headers |-> <<"x", "w">>, header_map |-> Headers]

Request(body, transforms, extractors, internal, condition) ==
    [response |-> Response1(body), transforms |-> transforms, extractors |-> extractors,
     include_internal |-> internal, condition |-> condition]

SameWord == C(N, "==", <<"v">>, <<"\"">>, TRUE)

\* Values that hold a placeholder, an operator or a quote.
Awkward == {<<"k", "{{">>, <<"k", "==">>, <<"k", "'">>}

\* An array whose last element is empty: a value that ends with a newline.
Lines == E("Json", "Body", {<<"n">>}, 0, FALSE, << <<"lines">> >>)

MCRequests ==
    {Request(body, chain, <<Key>>, FALSE, SameWord) : body \in Bodies, chain \in Chains \cup Others}
    \cup {Request(body, <<>>, list, internal, SameWord) :
             body \in {<<"k", "v", "k">>, <<"json", "user">>, <<"v", "k">>}, list \in ExtractorLists,
             internal \in BOOLEAN}
    \cup {Request(body, <<>>, <<Key, E("Kval", "All", {<<"m">>}, 0, FALSE, << <<"x">> >>)>>, TRUE, c) :
             body \in {<<"k", "v">>, <<"k", "w">>, <<"k", "\n">>} \cup Awkward, c \in Conditions}
    \cup {Request(<<"json", "user">>, <<>>, <<Lines>>, FALSE, c) : c \in Conditions}
=============================================================================
