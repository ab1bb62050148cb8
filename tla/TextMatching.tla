---------------------------- MODULE TextMatching ----------------------------
(***************************************************************************)
(* text.rs, the matchers of the protocols without a response structure,    *)
(* which work on one text and build no database, and matcher_satisfied of  *)
(* evaluator.rs, which turns the hits of a scan into a verdict.            *)
(*                                                                         *)
(* Both are pure, so that there is no state of their own: the properties   *)
(* compare them in the states in which a scan has ended.                   *)
(***************************************************************************)
EXTENDS DatabaseScan

\* MatcherCondition, of a matcher and of the matchers of a request.
MatchCondition == {"And", "Or"}

\* The empty text is no number.
ASSUME EmptyAssumption == Empty \notin DOMAIN Number

\* Does this number of hits satisfy the matcher, before negation?
Suffices(matcher, condition, hit_count) ==
    IF condition = "And"
    THEN matcher.values # <<>> /\ hit_count = Len(matcher.values)
    ELSE hit_count > 0

\* matcher_satisfied on the value indexes that were hit.
MatcherSatisfied(matcher, condition, hits) ==
    Suffices(matcher, condition, Cardinality(hits)) # matcher.negative

-----------------------------------------------------------------------------
\* A slip: words are compared byte by byte.
ContainsExactly(text, word) == Occurrences(WordBytes[word], text) # {}

ContainsWord(text, word) == OccurrencesIgnoringCase(WordBytes[word], text) # {}

\* The text a regex finds first.
FirstText(class, text) == (CHOOSE f \in Leftmost(Finds(class, text)) : TRUE).text

\* Is this value of a matcher of the kind present in the text?  A regex is not
\* repaired as it is for a database.
OccursInText(kind, v, text) ==
    \/ kind = "Word" /\ v # Empty /\ ContainsWord(text, v)
    \/ kind = "Regex" /\ v \in DOMAIN Class /\ Finds(Class[v], text) # {}
    \/ kind = "Status" /\ (v = Empty \/ Occurrences(WordBytes[v], text) # {})
    \/ kind = "Size" /\ v \in DOMAIN Number /\ Number[v] = Len(text)
    \/ /\ kind = "Binary" /\ v \in DOMAIN HexBytes
       /\ HexBytes[v] # <<>> /\ Occurrences(HexBytes[v], text) # {}

\* The values of the matcher that are present, by their place in the list of its
\* values: each as it is written, or as the text that its regex found first.
MatcherValuesText(matcher, text) ==
    LET present == {n \in DOMAIN matcher.values : OccursInText(matcher.kind, matcher.values[n], text)}
    IN  [n \in IF matcher.part \in {"Body", "All"} THEN present ELSE {} |->
            IF matcher.kind = "Regex" THEN FirstText(Class[matcher.values[n]], text)
            ELSE matcher.values[n]]

MatcherSatisfiedText(matcher, condition, text) ==
    LET hit_count == Cardinality(DOMAIN MatcherValuesText(matcher, text))
    IN  Suffices(matcher, condition, hit_count) # matcher.negative

\* A request without matchers never matches.
RequestMatchesText(request, matchers_condition, condition, text) ==
    LET satisfied == {m \in DOMAIN request : MatcherSatisfiedText(request[m], condition, text)}
    IN  IF matchers_condition = "And"
        THEN request # <<>> /\ satisfied = DOMAIN request
        ELSE satisfied # {}

\* collect_matched_values_text, as a set: each value is listed once.
CollectMatchedValuesText(request, internal, condition, text) ==
    LET collected == {m \in DOMAIN request :
                         m \notin internal /\ MatcherSatisfiedText(request[m], condition, text)}
    IN  UNION {Range(MatcherValuesText(request[m], text)) : m \in collected}

-----------------------------------------------------------------------------
\* The scanned response is a text: no headers, and as long as its body.
RawText ==
    /\ stage = "done"
    /\ response.headers = <<>> /\ response.header_map = <<>>
    /\ response.content_length = Len(response.body)

\* Database and text path read the values of this matcher alike.  They do not
\* where a part is missing from a text, a status is a number or a substring of
\* the text, a binary is compared with or without its case, or a regex is
\* rewritten before it runs.
ReadAlike(matcher) ==
    /\ matcher.part \in {"Body", "All"}
    /\ \/ matcher.kind \in {"Word", "Size"}
       \/ matcher.kind = "Regex" /\ \A v \in Range(matcher.values) : RuntimeText(v) = v

\* The matcher <<t, r, m>> of a key.
MatcherOf(key) == <<key[1], key[2], key[3]>>

\* The matches of the scan for a matcher.
MatchesOf(at) == {match \in Range(matches) : MatcherOf(match.key) = at}

\* The indexes of the values that are present, as the scan reports them: those
\* of a positive matcher are reported, those of a negative one are not.
PresentValues(at) ==
    LET reported == {match.key[4] : match \in MatchesOf(at)}
        wanted   == {key[4] : key \in {k \in Wanted : MatcherOf(k) = at}}
    IN  IF templates[at[1]][at[2]][at[3]].negative THEN wanted \ reported ELSE reported

Requests ==
    UNION {{<<t, r>> : r \in DOMAIN templates[t]} : t \in DOMAIN templates}

\* The requests whose matchers are all read alike.
RequestsReadAlike ==
    {at \in Requests : \A m \in DOMAIN templates[at[1]][at[2]] :
        ReadAlike(templates[at[1]][at[2]][m])}

\* Matching a text directly and scanning it with a database come to the same
\* verdict on every matcher and every request, whatever the conditions, though
\* one counts texts and the other value indexes, and though the database drops
\* empty values and reports the values of negative matchers by their absence.
VerdictsAgree ==
    RawText =>
        \A at \in RequestsReadAlike, condition \in MatchCondition :
            LET request == templates[at[1]][at[2]]
                verdict(m) == MatcherSatisfied(request[m], condition, PresentValues(<<at[1], at[2], m>>))
            IN  /\ \A m \in DOMAIN request :
                      MatcherSatisfiedText(request[m], condition, response.body) = verdict(m)
                /\ RequestMatchesText(request, "And", condition, response.body)
                      = (request # <<>> /\ \A m \in DOMAIN request : verdict(m))
                /\ RequestMatchesText(request, "Or", condition, response.body)
                      = (\E m \in DOMAIN request : verdict(m))

\* A value collected from a text for a request without negative matchers is one
\* a scan reports too, for a matcher of the request whose condition is met.
CollectedAreReported ==
    RawText =>
        \A at \in RequestsReadAlike, condition \in MatchCondition :
            LET request == templates[at[1]][at[2]]
                met == {m \in DOMAIN request :
                           MatcherSatisfied(request[m], condition, PresentValues(<<at[1], at[2], m>>))}
            IN  (\A m \in DOMAIN request : ~request[m].negative) =>
                   \A internal \in SUBSET DOMAIN request :
                      CollectMatchedValuesText(request, internal, condition, response.body)
                         \subseteq UNION {{match.value : match \in MatchesOf(<<at[1], at[2], m>>)} :
                                             m \in met \ internal}

\* The text path and the database agree on raw text (request_matches_text,
\* matcher_satisfied_text, collect_matched_values_text).
TextAgreesWithScan == VerdictsAgree /\ CollectedAreReported
=============================================================================
