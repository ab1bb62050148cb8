---------------------------- MODULE MCTemplates ----------------------------
(***************************************************************************)
(* The texts and the templates of the small instances of the database      *)
(* modules: pairs of small templates that share patterns, of every kind    *)
(* and part, and templates that do not compile.                            *)
(***************************************************************************)
EXTENDS Integers, Sequences, TLC

\* The bytes of the texts; those of the texts that are not words occur nowhere.
WordTexts   == [a |-> <<"a">>, A |-> <<"A">>, ab |-> <<"a", "b">>, n0 |-> <<"0">>, n1 |-> <<"1">>]
OtherTexts  == {"x41", "x6162", "odd", "class", "any", "negated", "hole", "big", "broken", "n9",
                "d1", "d2", "d3"}
MCWordBytes == WordTexts @@ ("" :> <<>>) @@ [text \in OtherTexts |-> <<text>>]
MCHexBytes  == [x41 |-> <<"A">>, x6162 |-> <<"a", "b">>]
MCNumber    == [n0 |-> 0, n1 |-> 1, n9 |-> 9]

\* "[ab]", "[^]" that becomes "[\s\S]", "b{{x}}" that becomes a runtime regex,
\* an unrepairable one, and the empty one.
MCClass ==
    [class |-> {"a", "b"}, any |-> {"a", "A", "b"}, hole_rt |-> {"b"}, big |-> {"A"}]
        @@ ("" :> {})
MCRewritten == [negated |-> "any", hole |-> "hole_rt", broken |-> "broken_too"]
MCHoles     == {"hole"}

M(kind, part, negative, values) ==
    [kind |-> kind, part |-> part, negative |-> negative, values |-> values]

\* Pairs of templates, each a sequence of requests, each a sequence of matchers.
Words ==
    << << <<M("Word", "Body", FALSE, <<"a", "ab">>), M("Word", "Header", TRUE, <<"A", "">>)>> >>,
       << <<M("Word", "All", FALSE, <<"ab">>)>>, <<M("Word", "Body", TRUE, <<"a">>)>> >> >>
Binaries ==
    << << <<M("Binary", "Body", FALSE, <<"x41", "x6162">>)>> >>,
       << <<M("Word", "All", TRUE, <<"A">>), M("Binary", "Header", FALSE, <<"x41">>)>> >> >>
Regexes ==
    << << <<M("Regex", "Body", FALSE, <<"class", "negated">>), M("Regex", "All", TRUE, <<"hole">>)>> >>,
       << <<M("Regex", "Body", TRUE, <<"big">>), M("Regex", "All", FALSE, <<"hole", "">>)>>,
          <<M("Regex", "Header", FALSE, <<"class">>)>> >> >>
Headers ==
    << << <<M("Word", "x", FALSE, <<"a">>), M("Binary", "x", TRUE, <<"x41">>)>> >>,
       << <<M("Regex", "x", FALSE, <<"negated">>), M("Regex", "y", TRUE, <<"class">>)>> >> >>
Numbers ==
    << << <<M("Status", "All", FALSE, <<"n1", "n0">>), M("Size", "All", TRUE, <<"n9">>)>> >>,
       << <<M("Status", "All", TRUE, <<"n1">>), M("Size", "All", FALSE, <<"n9", "">>)>> >> >>
Expressions ==
    << << <<M("Dsl", "All", FALSE, <<"d1", "d2">>), M("Dsl", "All", TRUE, <<"d1", "d3">>)>> >>,
       << <<M("Word", "All", FALSE, <<"a">>), M("Dsl", "All", FALSE, <<"d3">>)>> >> >>

ManyExpressions == << << <<M("Dsl", "All", FALSE, <<"d1", "d1", "d2", "d3">>)>> >> >>

Faulty ==
    {<< << <<M("Word", "All", FALSE, <<"a", "A", "ab">>)>> >>, << <<M("Binary", "x", FALSE, <<"odd">>)>> >> >>,
     << << <<M("Word", "All", FALSE, <<"a">>)>> >>, << <<M("Status", "All", FALSE, <<"n9">>)>> >> >>,
     << << <<>>, <<>>, <<>>, <<M("Size", "All", FALSE, <<"n0">>)>> >>, << <<M("Regex", "All", FALSE, <<"broken">>)>> >> >>,
     << << <<M("Dsl", "All", TRUE, <<"d1", "d1", "d2", "d3">>)>> >> >>}

Sound == {Words, Binaries, Regexes, Headers, Numbers, Expressions, ManyExpressions}

\* Every pair of those templates, in either order.
Templates == UNION {{slice[t] : t \in DOMAIN slice} : slice \in Sound \cup Faulty}
Pairs     == Templates \X Templates

\* Slices whose first two batches fill an arena of ten texts: what the third
\* adds is refused, and a batch that starts below the limit may cross it.
Crossing == <<Regexes[1], Words[1], Numbers[1]>>
Slices   == Pairs \cup {<<Regexes[1], Regexes[2], Words[1]>>, Crossing}

WithHeavyRegexes == {<< << <<M("Regex", "Body", FALSE, <<"big", "big">>)>> >> >>}
=============================================================================
