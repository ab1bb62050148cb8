----------------------------- MODULE MCDatabase -----------------------------
(***************************************************************************)
(* A small instance of DatabaseScan: the templates of MCTemplates, and     *)
(* every short response over the bytes a, A and b.                         *)
(***************************************************************************)
EXTENDS TextMatching, MCTemplates

\* Requests that a text and a response are matched against alike: matchers of
\* both signs, empty and missing values, repeated values, and no matcher.
TextWords ==
    << << <<M("Word", "Body", FALSE, <<"a", "ab">>), M("Size", "All", TRUE, <<"n1", "">>)>>,
          <<>>,
          <<M("Word", "Body", FALSE, <<>>), M("Word", "All", TRUE, <<"A", "">>)>> >> >>
TextRegexes ==
    << << <<M("Regex", "Body", FALSE, <<"class", "any">>), M("Word", "All", FALSE, <<"A", "A">>)>>,
          <<M("Regex", "All", TRUE, <<"big", "">>), M("Size", "Body", FALSE, <<"n0", "n1">>)>> >> >>

MCTemplateSets == Sound \cup {TextWords, TextRegexes}

MCFold == [a |-> "a", A |-> "a", b |-> "b"]

Response(headers, body, header_map, status, length, true_dsl) ==
    [headers |-> headers, body |-> body, header_map |-> header_map, status |-> status,
     content_length |-> length, true_dsl |-> true_dsl]

Bytes(n) == UNION {[1..k -> {"a", "A", "b"}] : k \in 0..n}

\* Responses that differ in their bytes, and responses that differ in the rest.
ByteResponses == {Response(h, b, <<>>, 0, 0, {}) : h \in Bytes(1), b \in Bytes(2)}
OtherResponses ==
    {Response(<<"a">>, <<"b">>, map, status, length, exprs) :
        map \in {<<>>, [y |-> <<"b">>]} \cup {[x |-> v] : v \in Bytes(2)}
                  \cup {[x |-> v, y |-> <<"a">>] : v \in Bytes(1)},
        status \in {0, 1}, length \in {0, 9}, exprs \in {{}, {"d1"}, {"d1", "d3"}, {"d2"}}}
\* Texts of a protocol without headers.
RawTexts == {Response(<<>>, b, <<>>, 0, Len(b), {}) : b \in Bytes(2)}
MCResponses == ByteResponses \cup OtherResponses \cup RawTexts
=============================================================================
