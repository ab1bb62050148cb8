------------------------- MODULE CorrelationProofs -------------------------
(***************************************************************************)
(* Proofs about Correlation: every id has one rule, the rules are those of *)
(* the files and the built-in ones, and what is reported is exact.         *)
(***************************************************************************)
EXTENDS Correlation, TLAPS

UniqueIds(rules) == \A i, j \in DOMAIN rules : rules[i].id = rules[j].id => i = j

-----------------------------------------------------------------------------
\* The built-in rules, as far as loading them is concerned.
LEMMA BuiltinIsSeq ==
    /\ BuiltinRules \in Seq(Rules)
    /\ Len(BuiltinRules) = 6
    /\ DOMAIN BuiltinRules = 1..6
    /\ \A i \in 1..6 : BuiltinRules[i] \in Rules
<1>1. Len(BuiltinRules) = 6 /\ DOMAIN BuiltinRules = 1..6
  BY DEF BuiltinRules
<1>2. \A i \in 1..6 : BuiltinRules[i] \in Rules
  BY <1>1 DEF Rules
<1>3. BuiltinRules = [i \in 1..6 |-> BuiltinRules[i]]
  BY DEF BuiltinRules
<1> QED
  BY <1>1, <1>2, <1>3

\* The built-in rules have six different ids.
LEMMA BuiltinIdsDiffer == UniqueIds(BuiltinRules)
<1>1. /\ BuiltinRules[1].id = "karyx-chain-rce"
      /\ BuiltinRules[2].id = "karyx-chain-account-takeover"
      /\ BuiltinRules[3].id = "karyx-chain-cloud-compromise"
      /\ BuiltinRules[4].id = "karyx-chain-session-hijack"
      /\ BuiltinRules[5].id = "karyx-chain-data-breach"
      /\ BuiltinRules[6].id = "karyx-correlation"
  BY DEF BuiltinRules, Rule
<1>2. SUFFICES ASSUME NEW i \in 1..6, NEW j \in 1..6, BuiltinRules[i].id = BuiltinRules[j].id
               PROVE  i = j
  BY BuiltinIsSeq DEF UniqueIds
<1>3. i \in {1, 2, 3, 4, 5, 6} /\ j \in {1, 2, 3, 4, 5, 6}
  OBVIOUS
<1> QED
  BY <1>1, <1>2, <1>3

\* What adding a rule that no id is lost to, or overriding one, leaves.
LEMMA AddedOrOverridden ==
    ASSUME NEW rules \in Seq(Rules), UniqueIds(rules), NEW rule \in Rules
    PROVE  LET new == AddOrOverride(rules, rule)
           IN  /\ new \in Seq(Rules)
               /\ UniqueIds(new)
               /\ HasId(new, rule.id)
               /\ \A id : HasId(rules, id) => HasId(new, id)
               /\ \A i \in DOMAIN new :
                     \/ new[i] = rule
                     \/ i \in DOMAIN rules /\ new[i] = rules[i] /\ rules[i].id # rule.id
<1> DEFINE new == AddOrOverride(rules, rule)
<1>1. CASE HasId(rules, rule.id)
  <2> DEFINE p == CHOOSE i \in DOMAIN rules : rules[i].id = rule.id
  <2>1. p \in DOMAIN rules /\ rules[p].id = rule.id
    BY <1>1 DEF HasId
  <2> HIDE DEF p
  <2>2. new = [rules EXCEPT ![p] = rule]
    BY <1>1 DEF AddOrOverride, p
  <2> HIDE DEF new
  <2>3. new \in Seq(Rules) /\ DOMAIN new = DOMAIN rules
    BY <2>1, <2>2
  <2>4. \A i \in DOMAIN rules : new[i] = IF i = p THEN rule ELSE rules[i]
    BY <2>2
  <2>5. \A i \in DOMAIN rules : new[i].id = rules[i].id
    BY <2>1, <2>4
  <2>6. UniqueIds(new)
    BY <2>3, <2>5 DEF UniqueIds
  <2>7. \A id : HasId(new, id) <=> HasId(rules, id)
    BY <2>3, <2>5 DEF HasId
  <2>8. \A i \in DOMAIN rules : i # p => rules[i].id # rule.id
    BY <2>1 DEF UniqueIds
  <2> QED
    BY <1>1, <2>3, <2>4, <2>6, <2>7, <2>8 DEF new
<1>2. CASE ~HasId(rules, rule.id)
  <2>1. new = Append(rules, rule)
    BY <1>2 DEF AddOrOverride
  <2> HIDE DEF new
  <2>2. new \in Seq(Rules) /\ Len(new) = Len(rules) + 1 /\ Len(rules) \in Nat
    BY <2>1
  <2>3. DOMAIN rules = 1..Len(rules) /\ DOMAIN new = 1..(Len(rules) + 1)
    BY <2>2
  <2>4. \A i \in 1..Len(rules) : new[i] = rules[i]
    BY <2>1
  <2>5. new[Len(rules) + 1] = rule
    BY <2>1
  <2>6. \A i \in DOMAIN new : i \in DOMAIN rules \/ i = Len(rules) + 1
    BY <2>2, <2>3
  <2>7. \A i \in DOMAIN rules : rules[i].id # rule.id
    BY <1>2 DEF HasId
  <2>8. DOMAIN rules \subseteq DOMAIN new /\ Len(rules) + 1 \in DOMAIN new
    BY <2>2, <2>3
  <2>9. UniqueIds(new)
    BY <2>3, <2>4, <2>5, <2>6, <2>7 DEF UniqueIds
  <2>10. HasId(new, rule.id)
    BY <2>5, <2>8 DEF HasId
  <2>11. \A id : HasId(rules, id) => HasId(new, id)
    BY <2>3, <2>4, <2>8 DEF HasId
  <2>12. \A i \in DOMAIN new :
            \/ new[i] = rule
            \/ i \in DOMAIN rules /\ new[i] = rules[i] /\ rules[i].id # rule.id
    BY <2>3, <2>4, <2>5, <2>6, <2>7
  <2> QED
    BY <2>2, <2>9, <2>10, <2>11, <2>12 DEF new
<1> QED
  BY <1>1, <1>2

-----------------------------------------------------------------------------
\* Types.

\* What the assumption on the requests says of one.
LEMMA RequestFacts ==
    ASSUME request \in Requests
    PROVE  /\ request.findings \in Seq(Finding)
           /\ request.directory \in {"none", "missing", "unreadable", "listed"}
           /\ \A f \in DOMAIN request.files : IsRuleFile(f) => request.files[f].content \in Rules
BY RequestAssumption DEF IsRuleFile, Rules

\* Collecting a finding adds its target at most, and keeps the profiles typed.
LEMMA CollectTyped ==
    ASSUME CorrelationTypeOK, Collect
    PROVE  /\ DOMAIN info \subseteq DOMAIN info'
           /\ DOMAIN info' \subseteq Target
           /\ \A t \in DOMAIN info' : info'[t] \in Profiles
<1> DEFINE finding == request.findings[index]
<1>1. finding \in Finding
  BY RequestFacts DEF CorrelationTypeOK, Collect
<1>2. /\ finding.target \in Target
      /\ finding.kind \in Kind
      /\ finding.tags \subseteq Tag
  BY <1>1 DEF Finding
<1> HIDE DEF finding
<1>3. info' = [t \in DOMAIN info \cup {finding.target} |->
                  IF t = finding.target
                  THEN [kinds |-> Known(t).kinds \cup {finding.kind},
                        tags  |-> Known(t).tags \cup finding.tags]
                  ELSE info[t]]
  BY DEF Collect, finding
<1>4. DOMAIN info' = DOMAIN info \cup {finding.target}
  BY <1>3
<1>5. \A t : Known(t).kinds \subseteq Kind /\ Known(t).tags \subseteq Tag
  <2> SUFFICES ASSUME NEW t PROVE Known(t).kinds \subseteq Kind /\ Known(t).tags \subseteq Tag
    OBVIOUS
  <2>1. CASE t \in DOMAIN info
    <3>1. info[t] \in Profiles
      BY <2>1 DEF CorrelationTypeOK
    <3> QED
      BY <2>1, <3>1 DEF Known, Profiles
  <2>2. CASE t \notin DOMAIN info
    BY <2>2 DEF Known, NothingKnown
  <2> QED
    BY <2>1, <2>2
<1>6. ASSUME NEW t \in DOMAIN info' PROVE info'[t] \in Profiles
  <2>1. CASE t = finding.target
    <3>1. info'[t] = [kinds |-> Known(t).kinds \cup {finding.kind},
                      tags  |-> Known(t).tags \cup finding.tags]
      BY <1>3, <1>4, <2>1
    <3> QED
      BY <3>1, <1>2, <1>5 DEF Profiles
  <2>2. CASE t # finding.target
    BY <1>3, <1>4, <2>2 DEF CorrelationTypeOK
  <2> QED
    BY <2>1, <2>2
<1> QED
  BY <1>2, <1>4, <1>6 DEF CorrelationTypeOK

\* No step breaks the types.
LEMMA TypeStep ==
    ASSUME CorrelationTypeOK, OneRulePerId, [Next]_vars
    PROVE  CorrelationTypeOK'
<1>1. CASE OpenDirectory
  BY <1>1, BuiltinIsSeq DEF OpenDirectory, UseBuiltinRules, CorrelationTypeOK
<1>2. CASE ListingFails
  BY <1>2, BuiltinIsSeq DEF ListingFails, UseBuiltinRules, CorrelationTypeOK
<1>3. ASSUME NEW f \in unread, ReadEntry(f) PROVE CorrelationTypeOK'
  <2>1. engine' \in Seq(Rules)
    <3>1. CASE IsRuleFile(f)
      <4>1. request.files[f].content \in Rules
        BY <3>1, RequestFacts DEF CorrelationTypeOK
      <4>2. engine \in Seq(Rules) /\ UniqueIds(engine)
        BY DEF CorrelationTypeOK, OneRulePerId, UniqueIds
      <4>3. engine' = AddOrOverride(engine, request.files[f].content)
        BY <1>3, <3>1 DEF ReadEntry
      <4> QED
        BY <4>1, <4>2, <4>3, AddedOrOverridden
    <3>2. CASE ~IsRuleFile(f)
      BY <1>3, <3>2 DEF ReadEntry, CorrelationTypeOK
    <3> QED
      BY <3>1, <3>2
  <2> QED
    BY <1>3, <2>1 DEF ReadEntry, CorrelationTypeOK
<1>4. CASE EndOfListing
  BY <1>4 DEF EndOfListing, CorrelationTypeOK
<1>5. CASE AddBuiltin
  <2>1. index \in 1..6
    BY <1>5, BuiltinIsSeq DEF AddBuiltin, CorrelationTypeOK
  <2>2. BuiltinRules[index] \in Rules
    BY <2>1, BuiltinIsSeq
  <2>3. engine' \in Seq(Rules)
    BY <1>5, <2>2 DEF AddBuiltin, CorrelationTypeOK
  <2> QED
    BY <1>5, <2>3 DEF AddBuiltin, CorrelationTypeOK
<1>6. CASE RulesComplete
  BY <1>6 DEF RulesComplete, CorrelationTypeOK
<1>7. CASE Collect
  <2>1. /\ DOMAIN info \subseteq DOMAIN info'
        /\ DOMAIN info' \subseteq Target
        /\ \A t \in DOMAIN info' : info'[t] \in Profiles
    BY <1>7, CollectTyped
  <2>2. /\ index' = index + 1
        /\ UNCHANGED <<request, stage, loaded, unread, engine, pending, target, correlations>>
        /\ stage = "collect"
    BY <1>7 DEF Collect
  <2> QED
    BY <2>1, <2>2 DEF CorrelationTypeOK
<1>8. CASE AllCollected
  BY <1>8 DEF AllCollected, CorrelationTypeOK
<1>9. ASSUME NEW t \in pending, TakeTarget(t) PROVE CorrelationTypeOK'
  BY <1>9 DEF TakeTarget, CorrelationTypeOK
<1>10. CASE EvaluateRule
  <2>1. engine[index] \in Rules /\ target \in Target
    BY <1>10 DEF EvaluateRule, CorrelationTypeOK
  <2>2. Correlation(engine[index], target) \in {Correlation(r, t) : r \in Rules, t \in Target}
    BY <2>1
  <2>3. correlations' \in Seq({Correlation(r, t) : r \in Rules, t \in Target})
    BY <1>10, <2>2 DEF EvaluateRule, CorrelationTypeOK
  <2> QED
    BY <1>10, <2>3 DEF EvaluateRule, CorrelationTypeOK
<1>11. CASE EndOfRules
  BY <1>11 DEF EndOfRules, CorrelationTypeOK
<1>12. CASE Finish
  BY <1>12 DEF Finish, CorrelationTypeOK
<1>13. CASE UNCHANGED vars
  BY <1>13 DEF vars, CorrelationTypeOK
<1> QED
  BY <1>1, <1>2, <1>3, <1>4, <1>5, <1>6, <1>7, <1>8, <1>9, <1>10, <1>11, <1>12, <1>13 DEF Next
-----------------------------------------------------------------------------
\* The rules.

\* What is known of the rules while they are loaded.
LoadInv ==
    /\ stage = "open" => engine = <<>> /\ loaded = "ok" /\ index = 1
    /\ stage = "list" =>
          /\ Listed
          /\ index = 1
          /\ \A i \in DOMAIN engine : OfRequest(engine[i])
          /\ HasIdsOf(DOMAIN request.files \ unread)
    /\ stage = "complete" =>
          /\ index \in 1..7
          /\ \A i \in DOMAIN engine : OfRequest(engine[i])
          /\ \A j \in 1..(index - 1) : HasId(engine, BuiltinRules[j].id)
          /\ Listed => HasIdsOf(DOMAIN request.files)

RuleInv == CorrelationTypeOK /\ OneRulePerId /\ LoadInv /\ RulesAreLoaded

\* The stages after the rules are loaded leave them alone.
LEMMA RulesStay ==
    ASSUME RuleInv, CorrelationTypeOK',
           UNCHANGED <<request, loaded, engine>>,
           stage' \in {"collect", "select", "evaluate", "done"},
           stage \in {"collect", "select", "evaluate", "done"}
    PROVE  RuleInv'
<1>1. OneRulePerId'
  BY DEF RuleInv, OneRulePerId
<1>2. LoadInv'
  BY DEF LoadInv
<1>3. RulesAreLoaded'
  BY DEF RuleInv, RulesAreLoaded, OfRequest, HasIdsOf, Listed, RuleFiles, IsRuleFile
<1> QED
  BY <1>1, <1>2, <1>3 DEF RuleInv

\* The built-in rules alone, when no directory was listed to its end.
LEMMA BuiltinLoaded ==
    ASSUME CorrelationTypeOK', UseBuiltinRules, request' = request,
           loaded' = "err" \/ request.directory # "listed"
    PROVE  RuleInv'
<1>1. engine' = BuiltinRules /\ stage' = "collect"
  BY DEF UseBuiltinRules
<1>2. OneRulePerId'
  BY <1>1, BuiltinIdsDiffer DEF OneRulePerId, UniqueIds
<1>3. LoadInv'
  BY <1>1 DEF LoadInv
<1>4. ~Listed'
  BY DEF Listed
<1>5. \A i \in DOMAIN engine' : OfRequest(engine[i])'
  BY <1>1, <1>4 DEF OfRequest
<1>6. \A id \in BuiltinIds : HasId(engine, id)'
  BY <1>1 DEF BuiltinIds, HasId
<1>7. RulesAreLoaded'
  BY <1>4, <1>5, <1>6 DEF RulesAreLoaded
<1> QED
  BY <1>2, <1>3, <1>7 DEF RuleInv

\* One more file has been read.
LEMMA EntryRead ==
    ASSUME RuleInv, CorrelationTypeOK', NEW f \in unread, ReadEntry(f)
    PROVE  RuleInv'
<1>1. /\ stage = "list" /\ stage' = "list" /\ index' = index
      /\ request' = request /\ loaded' = loaded /\ unread' = unread \ {f}
      /\ f \in DOMAIN request.files
  BY DEF ReadEntry, RuleInv, CorrelationTypeOK
<1>2. Listed /\ Listed'
  BY <1>1 DEF RuleInv, LoadInv, Listed
<1>3. \A rule : OfRequest(rule) => OfRequest(rule)'
  BY <1>1 DEF OfRequest, Listed, RuleFiles, IsRuleFile
<1>4. /\ OneRulePerId'
      /\ \A i \in DOMAIN engine' : OfRequest(engine'[i])
      /\ \A id : HasId(engine, id) => HasId(engine', id)
      /\ IsRuleFile(f) => HasId(engine', request.files[f].content.id)
  <2>1. CASE IsRuleFile(f)
    <3> DEFINE rule == request.files[f].content
    <3>1. rule \in Rules
      BY <2>1, RequestFacts DEF RuleInv, CorrelationTypeOK
    <3>2. engine' = AddOrOverride(engine, rule)
      BY <2>1 DEF ReadEntry
    <3>3. engine \in Seq(Rules) /\ UniqueIds(engine)
      BY DEF RuleInv, CorrelationTypeOK, OneRulePerId, UniqueIds
    <3>4. OfRequest(rule)
      BY <1>1, <1>2, <2>1 DEF OfRequest, RuleFiles
    <3> HIDE DEF rule
    <3>5. /\ UniqueIds(engine')
          /\ HasId(engine', rule.id)
          /\ \A id : HasId(engine, id) => HasId(engine', id)
          /\ \A i \in DOMAIN engine' :
                \/ engine'[i] = rule
                \/ i \in DOMAIN engine /\ engine'[i] = engine[i] /\ engine[i].id # rule.id
      BY <3>1, <3>2, <3>3, AddedOrOverridden
    <3>6. \A i \in DOMAIN engine : OfRequest(engine[i])
      BY <1>1 DEF RuleInv, LoadInv
    <3>7. \A i \in DOMAIN engine' : OfRequest(engine'[i])
      BY <3>4, <3>5, <3>6
    <3> QED
      BY <3>5, <3>7 DEF OneRulePerId, UniqueIds, rule
  <2>2. CASE ~IsRuleFile(f)
    <3>1. engine' = engine
      BY <2>2 DEF ReadEntry
    <3> QED
      BY <1>1, <2>2, <3>1 DEF RuleInv, LoadInv, OneRulePerId
  <2> QED
    BY <2>1, <2>2
<1>5. HasIdsOf(DOMAIN request.files \ unread)'
  <2> SUFFICES ASSUME NEW g \in DOMAIN request.files \ unread', IsRuleFile(g)
               PROVE  HasId(engine', request.files[g].content.id)
    BY <1>1 DEF HasIdsOf, IsRuleFile
  <2>1. HasIdsOf(DOMAIN request.files \ unread)
    BY <1>1 DEF RuleInv, LoadInv
  <2>2. CASE g = f
    BY <1>4, <2>2
  <2>3. CASE g # f
    BY <1>1, <1>4, <2>1, <2>3 DEF HasIdsOf
  <2> QED
    BY <2>2, <2>3
<1>6. \A i \in DOMAIN engine' : OfRequest(engine[i])'
  BY <1>3, <1>4
<1>7. LoadInv'
  BY <1>1, <1>2, <1>5, <1>6 DEF LoadInv, RuleInv
<1>8. RulesAreLoaded'
  BY <1>1 DEF RulesAreLoaded
<1> QED
  BY <1>4, <1>7, <1>8 DEF RuleInv

\* One more built-in rule has been looked at.
LEMMA BuiltinAdded ==
    ASSUME RuleInv, CorrelationTypeOK', AddBuiltin
    PROVE  RuleInv'
<1> DEFINE rule == BuiltinRules[index]
<1>1. /\ stage = "complete" /\ stage' = "complete" /\ index' = index + 1
      /\ request' = request /\ loaded' = loaded
      /\ index \in 1..6
      /\ engine \in Seq(Rules)
  BY BuiltinIsSeq DEF AddBuiltin, RuleInv, CorrelationTypeOK
<1>2. rule \in Rules /\ rule \in {BuiltinRules[j] : j \in DOMAIN BuiltinRules}
  BY <1>1, BuiltinIsSeq
<1>3. engine' = IF HasId(engine, rule.id) THEN engine ELSE Append(engine, rule)
  BY DEF AddBuiltin
<1> HIDE DEF rule
<1>4. /\ \A i \in DOMAIN engine : OfRequest(engine[i])
      /\ \A j \in 1..(index - 1) : HasId(engine, BuiltinRules[j].id)
      /\ Listed => HasIdsOf(DOMAIN request.files)
      /\ UniqueIds(engine)
  BY <1>1 DEF RuleInv, LoadInv, OneRulePerId, UniqueIds
<1>5. /\ UniqueIds(engine')
      /\ HasId(engine', rule.id)
      /\ \A id : HasId(engine, id) => HasId(engine', id)
      /\ \A i \in DOMAIN engine' : OfRequest(engine'[i])
  <2>1. CASE HasId(engine, rule.id)
    BY <1>3, <1>4, <2>1
  <2>2. CASE ~HasId(engine, rule.id)
    <3>1. engine' = AddOrOverride(engine, rule)
      BY <1>3, <2>2 DEF AddOrOverride
    <3>2. /\ UniqueIds(engine')
          /\ HasId(engine', rule.id)
          /\ \A id : HasId(engine, id) => HasId(engine', id)
          /\ \A i \in DOMAIN engine' :
                engine'[i] = rule \/ (i \in DOMAIN engine /\ engine'[i] = engine[i])
      BY <1>1, <1>2, <1>4, <3>1, AddedOrOverridden
    <3>3. Listed => RuleFiles(rule.id) = {}
      BY <1>4, <2>2 DEF HasIdsOf, RuleFiles
    <3>4. OfRequest(rule)
      BY <1>2, <3>3 DEF OfRequest
    <3> QED
      BY <1>4, <3>2, <3>4
  <2> QED
    BY <2>1, <2>2
<1>6. \A r : OfRequest(r) => OfRequest(r)'
  BY <1>1 DEF OfRequest, Listed, RuleFiles, IsRuleFile
<1>7. \A i \in DOMAIN engine' : OfRequest(engine[i])'
  BY <1>5, <1>6
<1>8. \A j \in 1..(index' - 1) : HasId(engine', BuiltinRules[j].id)
  <2> SUFFICES ASSUME NEW j \in 1..(index' - 1) PROVE HasId(engine', BuiltinRules[j].id)
    OBVIOUS
  <2>1. CASE j = index
    BY <1>5, <2>1 DEF rule
  <2>2. CASE j # index
    <3>1. j \in 1..(index - 1)
      BY <1>1, <2>2
    <3> QED
      BY <1>4, <1>5, <3>1
  <2> QED
    BY <2>1, <2>2
<1>9. Listed' => HasIdsOf(DOMAIN request.files)'
  BY <1>1, <1>4, <1>5 DEF Listed, HasIdsOf, IsRuleFile
<1>10. index' \in 1..7
  BY <1>1
<1>11. LoadInv'
  BY <1>1, <1>7, <1>8, <1>9, <1>10 DEF LoadInv, HasId
<1>12. RulesAreLoaded'
  BY <1>1 DEF RulesAreLoaded
<1> QED
  BY <1>5, <1>11, <1>12 DEF RuleInv, OneRulePerId, UniqueIds

\* No step breaks what is known of the rules.
LEMMA RuleStep ==
    ASSUME RuleInv, [Next]_vars
    PROVE  RuleInv'
<1>1. CorrelationTypeOK'
  BY TypeStep DEF RuleInv
<1>2. CASE OpenDirectory
  <2>1. stage = "open" /\ request' = request /\ index' = index
        /\ engine = <<>> /\ loaded = "ok" /\ index = 1
    BY <1>2 DEF OpenDirectory, RuleInv, LoadInv
  <2>2. CASE request.directory = "none" /\ UseBuiltinRules
    BY <1>1, <2>1, <2>2, BuiltinLoaded
  <2>3. CASE request.directory = "unreadable" /\ UseBuiltinRules
    BY <1>1, <2>1, <2>3, BuiltinLoaded
  <2>4. CASE request.directory = "missing" /\ stage' = "complete" /\ UNCHANGED <<loaded, engine>>
    <3>1. ~Listed' /\ DOMAIN engine' = {} /\ index' = 1
      BY <2>1, <2>4 DEF Listed
    <3>2. OneRulePerId'
      BY <3>1 DEF OneRulePerId
    <3>3. LoadInv'
      BY <2>4, <3>1 DEF LoadInv
    <3>4. RulesAreLoaded'
      BY <2>4 DEF RulesAreLoaded
    <3> QED
      BY <1>1, <3>2, <3>3, <3>4 DEF RuleInv
  <2>5. CASE /\ request.directory = "listed" /\ stage' = "list"
             /\ unread' = DOMAIN request.files /\ UNCHANGED <<loaded, engine>>
    <3>1. Listed' /\ DOMAIN engine' = {} /\ index' = 1
      BY <2>1, <2>5 DEF Listed
    <3>2. OneRulePerId'
      BY <3>1 DEF OneRulePerId
    <3>3. HasIdsOf(DOMAIN request.files \ unread)'
      BY <2>1, <2>5 DEF HasIdsOf
    <3>4. LoadInv'
      BY <2>5, <3>1, <3>3 DEF LoadInv
    <3>5. RulesAreLoaded'
      BY <2>5 DEF RulesAreLoaded
    <3> QED
      BY <1>1, <3>2, <3>4, <3>5 DEF RuleInv
  <2> QED
    BY <1>2, <2>2, <2>3, <2>4, <2>5 DEF OpenDirectory
<1>3. CASE ListingFails
  BY <1>1, <1>3, BuiltinLoaded DEF ListingFails
<1>4. ASSUME NEW f \in unread, ReadEntry(f) PROVE RuleInv'
  BY <1>1, <1>4, EntryRead
<1>5. CASE EndOfListing
  <2>1. /\ stage = "list" /\ stage' = "complete" /\ unread = {}
        /\ UNCHANGED <<request, loaded, engine, index>>
    BY <1>5 DEF EndOfListing
  <2>2. OneRulePerId' /\ RulesAreLoaded'
    BY <2>1 DEF RuleInv, OneRulePerId, RulesAreLoaded
  <2>3. /\ index = 1
        /\ \A i \in DOMAIN engine : OfRequest(engine[i])
        /\ HasIdsOf(DOMAIN request.files)
    BY <2>1 DEF RuleInv, LoadInv, HasIdsOf
  <2>4. /\ \A i \in DOMAIN engine' : OfRequest(engine[i])'
        /\ HasIdsOf(DOMAIN request.files)'
    BY <2>1, <2>3 DEF OfRequest, Listed, RuleFiles, IsRuleFile, HasIdsOf
  <2>5. LoadInv'
    BY <2>1, <2>3, <2>4 DEF LoadInv
  <2> QED
    BY <1>1, <2>2, <2>5 DEF RuleInv
<1>6. CASE AddBuiltin
  BY <1>1, <1>6, BuiltinAdded
<1>7. CASE RulesComplete
  <2>1. /\ stage = "complete" /\ stage' = "collect" /\ index = 7
        /\ UNCHANGED <<request, loaded, engine>>
    BY <1>7, BuiltinIsSeq DEF RulesComplete
  <2>2. /\ \A i \in DOMAIN engine : OfRequest(engine[i])
        /\ \A j \in 1..6 : HasId(engine, BuiltinRules[j].id)
        /\ Listed => HasIdsOf(DOMAIN request.files)
    BY <2>1 DEF RuleInv, LoadInv
  <2>3. \A id \in BuiltinIds : HasId(engine, id)
    BY <2>2, BuiltinIsSeq DEF BuiltinIds
  <2>4. RulesAreLoaded'
    BY <2>1, <2>2, <2>3
       DEF RulesAreLoaded, OfRequest, HasIdsOf, Listed, RuleFiles, IsRuleFile
  <2>5. OneRulePerId' /\ LoadInv'
    BY <2>1 DEF RuleInv, OneRulePerId, LoadInv
  <2> QED
    BY <1>1, <2>4, <2>5 DEF RuleInv
<1>8. CASE Collect
  BY <1>1, <1>8, RulesStay DEF Collect
<1>9. CASE AllCollected
  BY <1>1, <1>9, RulesStay DEF AllCollected
<1>10. ASSUME NEW t \in pending, TakeTarget(t) PROVE RuleInv'
  BY <1>1, <1>10, RulesStay DEF TakeTarget
<1>11. CASE EvaluateRule
  BY <1>1, <1>11, RulesStay DEF EvaluateRule
<1>12. CASE EndOfRules
  BY <1>1, <1>12, RulesStay DEF EndOfRules
<1>13. CASE Finish
  BY <1>1, <1>13, RulesStay DEF Finish
<1>14. CASE UNCHANGED vars
  <2>1. OneRulePerId' /\ LoadInv'
    BY <1>14 DEF vars, RuleInv, OneRulePerId, LoadInv, OfRequest, HasIdsOf, Listed, RuleFiles, IsRuleFile
  <2>2. RulesAreLoaded'
    BY <1>14 DEF vars, RuleInv, RulesAreLoaded, OfRequest, HasIdsOf, Listed, RuleFiles, IsRuleFile
  <2> QED
    BY <1>1, <2>1, <2>2 DEF RuleInv
<1> QED
  BY <1>2, <1>3, <1>4, <1>5, <1>6, <1>7, <1>8, <1>9, <1>10, <1>11, <1>12, <1>13, <1>14 DEF Next

\* The rules' invariant holds throughout a call.
LEMMA RulesProved == Spec => []RuleInv
<1>1. Init => RuleInv
  <2> SUFFICES ASSUME Init PROVE RuleInv
    OBVIOUS
  <2>1. CorrelationTypeOK
    BY DEF Init, CorrelationTypeOK
  <2>2. OneRulePerId /\ LoadInv /\ RulesAreLoaded
    BY DEF Init, OneRulePerId, LoadInv, RulesAreLoaded
  <2> QED
    BY <2>1, <2>2 DEF RuleInv
<1>2. RuleInv /\ [Next]_vars => RuleInv'
  BY RuleStep
<1> QED
  BY <1>1, <1>2, PTL DEF Spec

\* The variables keep their types through loading and evaluating the rules.
THEOREM CorrelationTyped == Spec => []CorrelationTypeOK
<1>1. RuleInv => CorrelationTypeOK
  BY DEF RuleInv
<1> QED
  BY <1>1, RulesProved, PTL

\* Whatever files a directory holds and in whatever order it lists them, no id
\* has two rules.
THEOREM RuleIdsAreUnique == Spec => []OneRulePerId
<1>1. RuleInv => OneRulePerId
  BY DEF RuleInv
<1> QED
  BY <1>1, RulesProved, PTL

\* The rules evaluated are those the request asks for: the files', and the
\* built-in ones they do not override.
THEOREM LoadingIsComplete == Spec => []RulesAreLoaded
<1>1. RuleInv => RulesAreLoaded
  BY DEF RuleInv
<1> QED
  BY <1>1, RulesProved, PTL
-----------------------------------------------------------------------------
\* What is known of the targets.

\* Collecting a finding adds its kind and its tags to what is known of its
\* target, and nothing to any other.
LEMMA CollectAdds ==
    ASSUME CorrelationTypeOK, Collect
    PROVE  LET finding == request.findings[index]
           IN  /\ DOMAIN info' = DOMAIN info \cup {finding.target}
               /\ \A t : Known(t)' = IF t = finding.target
                                     THEN [kinds |-> Known(t).kinds \cup {finding.kind},
                                           tags  |-> Known(t).tags \cup finding.tags]
                                     ELSE Known(t)
<1> DEFINE finding == request.findings[index]
<1>1. info' = [t \in DOMAIN info \cup {finding.target} |->
                  IF t = finding.target
                  THEN [kinds |-> Known(t).kinds \cup {finding.kind},
                        tags  |-> Known(t).tags \cup finding.tags]
                  ELSE info[t]]
  BY DEF Collect
<1> HIDE DEF finding
<1>2. DOMAIN info' = DOMAIN info \cup {finding.target}
  BY <1>1
<1>3. \A t : Known(t)' = IF t \in DOMAIN info' THEN info'[t] ELSE NothingKnown
  BY DEF Known, NothingKnown
<1>4. ASSUME NEW t, t = finding.target
      PROVE  Known(t)' = [kinds |-> Known(t).kinds \cup {finding.kind},
                          tags  |-> Known(t).tags \cup finding.tags]
  BY <1>1, <1>2, <1>3, <1>4
<1>5. ASSUME NEW t, t # finding.target
      PROVE  Known(t)' = Known(t)
  <2>1. CASE t \in DOMAIN info
    BY <1>1, <1>2, <1>3, <1>5, <2>1 DEF Known
  <2>2. CASE t \notin DOMAIN info
    BY <1>2, <1>3, <1>5, <2>2 DEF Known
  <2> QED
    BY <2>1, <2>2
<1> QED
  BY <1>2, <1>4, <1>5 DEF finding

\* A rule that matches keeps matching when more is known.
LEMMA MatchingGrows ==
    ASSUME NEW rule, NEW less, NEW more, RuleMatches(rule, less),
           less.kinds \subseteq more.kinds, less.tags \subseteq more.tags
    PROVE  RuleMatches(rule, more)
BY DEF RuleMatches, MatchesTags

\* What is known of a target never shrinks.
LEMMA KnownGrows ==
    ASSUME CorrelationTypeOK, [Next]_vars, NEW t
    PROVE  Known(t).kinds \subseteq Known(t)'.kinds /\ Known(t).tags \subseteq Known(t)'.tags
<1>1. CASE Collect
  <2> DEFINE finding == request.findings[index]
  <2>1. Known(t)' = IF t = finding.target
                    THEN [kinds |-> Known(t).kinds \cup {finding.kind},
                          tags  |-> Known(t).tags \cup finding.tags]
                    ELSE Known(t)
    BY <1>1, CollectAdds
  <2> HIDE DEF finding
  <2> QED
    BY <2>1
<1>2. CASE ~Collect
  <2>1. info' = info
    BY <1>2 DEF Next, vars, OpenDirectory, ListingFails, ReadEntry, EndOfListing, AddBuiltin,
                RulesComplete, AllCollected, TakeTarget, EvaluateRule, EndOfRules, Finish
  <2> QED
    BY <2>1 DEF Known, NothingKnown
<1> QED
  BY <1>1, <1>2

\* A correlation that the findings so far give is given by more findings too.
THEOREM CorrelationsAreMonotone == Spec => MatchesOnlyGrow
<1>1. ASSUME CorrelationTypeOK, [Next]_vars, NEW r \in Rules, NEW t \in Target,
             RuleMatches(r, Known(t))
      PROVE  RuleMatches(r, Known(t)')
  <2>1. Known(t).kinds \subseteq Known(t)'.kinds /\ Known(t).tags \subseteq Known(t)'.tags
    BY <1>1, KnownGrows
  <2> QED
    BY <1>1, <2>1, MatchingGrows
<1>2. CorrelationTypeOK /\ [Next]_vars =>
         [\A r \in Rules, t \in Target : RuleMatches(r, Known(t)) => RuleMatches(r, Known(t)')]_vars
  BY <1>1
<1> QED
  BY <1>2, CorrelationTyped, PTL DEF Spec, MatchesOnlyGrow

\* The findings about t among the first n.
Upto(n, t) == {m \in 1..n : request.findings[m].target = t}

\* What is known is what the first n findings say.
KnownFrom(n) ==
    \A t : /\ t \in DOMAIN info <=> Upto(n, t) # {}
           /\ \A k : k \in Known(t).kinds <=> \E m \in Upto(n, t) : request.findings[m].kind = k
           /\ \A v : v \in Known(t).tags <=> \E m \in Upto(n, t) : v \in request.findings[m].tags

InfoInv ==
    /\ stage \in {"open", "list", "complete"} => info = [t \in {} |-> NothingKnown]
    /\ stage = "collect" => index <= Len(request.findings) + 1 /\ KnownFrom(index - 1)
    /\ stage \in {"select", "evaluate", "done"} => KnownFrom(Len(request.findings))

\* Before any finding nothing is known.
LEMMA KnownFromNothing ==
    ASSUME info = [t \in {} |-> NothingKnown] PROVE KnownFrom(0)
<1>1. \A t : Upto(0, t) = {}
  BY DEF Upto
<1>2. DOMAIN info = {}
  OBVIOUS
<1>3. \A t : Known(t).kinds = {} /\ Known(t).tags = {}
  BY <1>2 DEF Known, NothingKnown
<1> QED
  BY <1>1, <1>2, <1>3 DEF KnownFrom

\* Steps that read no finding leave what is known alone.
LEMMA InfoStays ==
    ASSUME NEW n, KnownFrom(n), info' = info, request' = request
    PROVE  KnownFrom(n)'
<1>1. /\ \A t : Known(t)' = Known(t)
      /\ \A t : Upto(n, t)' = Upto(n, t)
  BY DEF Known, NothingKnown, Upto
<1> QED
  BY <1>1 DEF KnownFrom

\* After one more finding, one more finding is known.
LEMMA CollectKnows ==
    ASSUME CorrelationTypeOK, InfoInv, Collect, NEW n, n = index
    PROVE  KnownFrom(n)'
<1> DEFINE finding == request.findings[index]
<1>1. /\ index \in Nat \ {0}
      /\ KnownFrom(index - 1)
      /\ request' = request
      /\ index' = index + 1
  BY DEF Collect, InfoInv, CorrelationTypeOK
<1>2. \A t : Upto(index, t) = IF t = finding.target
                              THEN Upto(index - 1, t) \cup {index} ELSE Upto(index - 1, t)
  <2>1. 1..index = 1..(index - 1) \cup {index}
    BY <1>1
  <2> QED
    BY <2>1 DEF Upto
<1>3. /\ DOMAIN info' = DOMAIN info \cup {finding.target}
      /\ \A t : Known(t)' = IF t = finding.target
                            THEN [kinds |-> Known(t).kinds \cup {finding.kind},
                                  tags  |-> Known(t).tags \cup finding.tags]
                            ELSE Known(t)
  BY CollectAdds
<1>4. ASSUME NEW t
      PROVE  /\ t \in DOMAIN info' <=> Upto(index, t) # {}
             /\ \A k : k \in Known(t)'.kinds <=> \E m \in Upto(index, t) : request.findings[m].kind = k
             /\ \A v : v \in Known(t)'.tags <=> \E m \in Upto(index, t) : v \in request.findings[m].tags
  <2>1. /\ t \in DOMAIN info <=> Upto(index - 1, t) # {}
        /\ \A k : k \in Known(t).kinds <=> \E m \in Upto(index - 1, t) : request.findings[m].kind = k
        /\ \A v : v \in Known(t).tags <=> \E m \in Upto(index - 1, t) : v \in request.findings[m].tags
    BY <1>1 DEF KnownFrom
  <2>2. CASE t = finding.target
    <3>1. Upto(index, t) = Upto(index - 1, t) \cup {index}
      BY <1>2, <2>2
    <3>2. /\ Known(t)'.kinds = Known(t).kinds \cup {finding.kind}
          /\ Known(t)'.tags = Known(t).tags \cup finding.tags
      BY <1>3, <2>2
    <3>3. t \in DOMAIN info'
      BY <1>3, <2>2
    <3> QED
      BY <2>1, <3>1, <3>2, <3>3
  <2>3. CASE t # finding.target
    BY <1>2, <1>3, <2>1, <2>3
  <2> QED
    BY <2>2, <2>3
<1>5. \A t : Upto(n, t)' = Upto(index, t)
  BY <1>1 DEF Upto
<1> QED
  BY <1>1, <1>4, <1>5 DEF KnownFrom

\* The index is 1 where the loop over the findings is about to start.
LEMMA InfoStep ==
    ASSUME RuleInv, InfoInv, [Next]_vars
    PROVE  InfoInv'
<1>1. CorrelationTypeOK
  BY DEF RuleInv
<1>2. Len(request.findings) \in Nat
  BY <1>1, RequestFacts DEF CorrelationTypeOK
<1>3. \A n : info' = info /\ request' = request /\ KnownFrom(n) => KnownFrom(n)'
  BY InfoStays
<1>4. ASSUME stage \in {"open", "list", "complete"}, stage' = "collect", index' = 1,
             info' = info, request' = request
      PROVE  InfoInv'
  <2>1. KnownFrom(0)'
    BY <1>3, <1>4, KnownFromNothing DEF InfoInv
  <2> QED
    BY <1>2, <1>4, <2>1 DEF InfoInv
<1>5. ASSUME stage \in {"open", "list", "complete"}, stage' \in {"list", "complete"}, info' = info
      PROVE  InfoInv'
  BY <1>5 DEF InfoInv
<1>6. ASSUME stage \in {"select", "evaluate", "done"}, stage' \in {"select", "evaluate", "done"},
             info' = info, request' = request
      PROVE  InfoInv'
  BY <1>3, <1>6 DEF InfoInv
<1>7. CASE OpenDirectory
  BY <1>4, <1>5, <1>7 DEF OpenDirectory, UseBuiltinRules, RuleInv, LoadInv
<1>8. CASE ListingFails
  BY <1>4, <1>8 DEF ListingFails, UseBuiltinRules, RuleInv, LoadInv
<1>9. ASSUME NEW f \in unread, ReadEntry(f) PROVE InfoInv'
  BY <1>5, <1>9 DEF ReadEntry
<1>10. CASE EndOfListing
  BY <1>5, <1>10 DEF EndOfListing
<1>11. CASE AddBuiltin
  BY <1>5, <1>11 DEF AddBuiltin
<1>12. CASE RulesComplete
  BY <1>4, <1>12 DEF RulesComplete
<1>13. CASE Collect
  <2>1. /\ stage' = "collect" /\ index' = index + 1 /\ request' = request
        /\ index \in Nat \ {0} /\ index <= Len(request.findings)
    BY <1>1, <1>13 DEF Collect, CorrelationTypeOK
  <2>2. \A n : n = index => KnownFrom(n)'
    BY <1>1, <1>13, CollectKnows
  <2>3. KnownFrom(index - 1)'
    BY <2>1, <2>2
  <2> QED
    BY <1>2, <2>1, <2>3 DEF InfoInv
<1>14. CASE AllCollected
  <2>1. KnownFrom(Len(request.findings))
    BY <1>2, <1>14 DEF AllCollected, InfoInv
  <2> QED
    BY <1>3, <1>14, <2>1 DEF AllCollected, InfoInv
<1>15. ASSUME NEW t \in pending, TakeTarget(t) PROVE InfoInv'
  BY <1>6, <1>15 DEF TakeTarget
<1>16. CASE EvaluateRule
  BY <1>6, <1>16 DEF EvaluateRule
<1>17. CASE EndOfRules
  BY <1>6, <1>17 DEF EndOfRules
<1>18. CASE Finish
  BY <1>6, <1>18 DEF Finish
<1>19. CASE UNCHANGED vars
  BY <1>3, <1>19 DEF vars, InfoInv
<1> QED
  BY <1>7, <1>8, <1>9, <1>10, <1>11, <1>12, <1>13, <1>14, <1>15, <1>16, <1>17, <1>18, <1>19 DEF Next

-----------------------------------------------------------------------------
\* What is reported.

\* Rule i has been evaluated on target t.
Evaluated(t, i) ==
    /\ t \in DOMAIN info \ pending
    /\ i \in DOMAIN engine
    /\ stage = "evaluate" /\ t = target => i < index

Fires(t, i) == RuleMatches(engine[i], Known(t))

ReportedSoundly ==
    \A n \in DOMAIN correlations : \E t, i :
        Evaluated(t, i) /\ Fires(t, i) /\ correlations[n] = Correlation(engine[i], t)

ReportedFully ==
    \A t, i : Evaluated(t, i) /\ Fires(t, i) =>
        \E n \in DOMAIN correlations : correlations[n] = Correlation(engine[i], t)

ReportedOnce ==
    \A m, n \in DOMAIN correlations :
        /\ correlations[m].target = correlations[n].target
        /\ correlations[m].template_id = correlations[n].template_id
        => m = n

ReportInv ==
    /\ stage \in {"open", "list", "complete", "collect"} => correlations = <<>>
    /\ stage = "evaluate" => index <= Len(engine) + 1
    /\ stage = "done" => pending = {}
    /\ stage \in {"select", "evaluate", "done"} =>
          ReportedSoundly /\ ReportedFully /\ ReportedOnce

\* Nothing is reported and what has been evaluated stays the same.
LEMMA ReportStays ==
    ASSUME ReportedSoundly, ReportedFully, ReportedOnce,
           UNCHANGED <<engine, info, correlations>>,
           \A t, i : Evaluated(t, i)' <=> Evaluated(t, i)
    PROVE  (ReportedSoundly /\ ReportedFully /\ ReportedOnce)'
<1>1. \A t, i : Fires(t, i)' <=> Fires(t, i)
  BY DEF Fires, Known, NothingKnown
<1>2. ReportedSoundly'
  BY <1>1 DEF ReportedSoundly
<1>3. ReportedFully'
  BY <1>1 DEF ReportedFully
<1>4. ReportedOnce'
  BY DEF ReportedOnce
<1> QED
  BY <1>2, <1>3, <1>4

\* Evaluating a rule reports it if it matches, once.
LEMMA RuleEvaluated ==
    ASSUME RuleInv, ReportInv, EvaluateRule
    PROVE  ReportInv'
<1> DEFINE new == Correlation(engine[index], target)
<1>1. /\ stage = "evaluate" /\ stage' = "evaluate" /\ index' = index + 1
      /\ index \in 1..Len(engine) /\ Len(engine) \in Nat /\ DOMAIN engine = 1..Len(engine)
      /\ target \in DOMAIN info \ pending
      /\ UNCHANGED <<engine, info, pending, target>>
  BY DEF EvaluateRule, RuleInv, CorrelationTypeOK
<1>2. ReportedSoundly /\ ReportedFully /\ ReportedOnce
  BY <1>1 DEF ReportInv
<1>3. \A t, i : Fires(t, i)' <=> Fires(t, i)
  BY <1>1 DEF Fires, Known, NothingKnown
<1>4. ~Evaluated(target, index)
  BY <1>1 DEF Evaluated
<1>5. \A t, i : Evaluated(t, i)' <=> Evaluated(t, i) \/ (t = target /\ i = index)
  <2> SUFFICES ASSUME NEW t, NEW i
               PROVE  Evaluated(t, i)' <=> Evaluated(t, i) \/ (t = target /\ i = index)
    OBVIOUS
  <2>1. \A j \in 1..Len(engine) : j < index + 1 <=> j < index \/ j = index
    BY <1>1
  <2> QED
    BY <1>1, <2>1 DEF Evaluated
<1>6. new.target = target /\ new.template_id = engine[index].id
  BY DEF Correlation
<1>7. Fires(target, index) <=> RuleMatches(engine[index], info[target])
  BY <1>1 DEF Fires, Known
<1>8. CASE Fires(target, index)
  <2>1. correlations' = Append(correlations, new)
    BY <1>7, <1>8 DEF EvaluateRule
  <2>2. correlations \in Seq({Correlation(r, t) : r \in Rules, t \in Target})
    BY DEF RuleInv, CorrelationTypeOK
  <2>3. /\ Len(correlations) \in Nat
        /\ DOMAIN correlations = 1..Len(correlations)
        /\ DOMAIN correlations' = 1..(Len(correlations) + 1)
        /\ correlations'[Len(correlations) + 1] = new
        /\ \A n \in 1..Len(correlations) : correlations'[n] = correlations[n]
    BY <2>1, <2>2
  <2> HIDE DEF new
  <2>4. \A n \in DOMAIN correlations' : n \in DOMAIN correlations \/ n = Len(correlations) + 1
    BY <2>3
  <2>5. ASSUME NEW n \in DOMAIN correlations
        PROVE  ~(correlations[n].target = target /\ correlations[n].template_id = engine[index].id)
    <3>1. PICK t, i : Evaluated(t, i) /\ correlations[n] = Correlation(engine[i], t)
      BY <1>2 DEF ReportedSoundly
    <3>2. correlations[n].target = t /\ correlations[n].template_id = engine[i].id
      BY <3>1 DEF Correlation
    <3>3. i \in DOMAIN engine
      BY <3>1 DEF Evaluated
    <3>4. engine[i].id = engine[index].id => i = index
      BY <1>1, <3>3 DEF RuleInv, OneRulePerId
    <3> QED
      BY <1>4, <3>1, <3>2, <3>4
  <2>6. ReportedSoundly'
    <3> SUFFICES ASSUME NEW n \in DOMAIN correlations'
                 PROVE  \E t, i : /\ Evaluated(t, i)' /\ Fires(t, i)'
                                  /\ correlations'[n] = Correlation(engine[i], t)
      BY <1>1 DEF ReportedSoundly, Correlation, ParseSeverity
    <3>1. CASE n \in DOMAIN correlations
      <4>1. PICK t, i : /\ Evaluated(t, i) /\ Fires(t, i)
                        /\ correlations[n] = Correlation(engine[i], t)
        BY <1>2, <3>1 DEF ReportedSoundly
      <4> QED
        BY <1>3, <1>5, <2>3, <3>1, <4>1
    <3>2. CASE n = Len(correlations) + 1
      <4>1. correlations'[n] = Correlation(engine[index], target)
        BY <2>3, <3>2 DEF new
      <4> QED
        BY <1>3, <1>5, <1>8, <4>1
    <3> QED
      BY <2>4, <3>1, <3>2
  <2>7. ReportedFully'
    <3> SUFFICES ASSUME NEW t, NEW i, Evaluated(t, i)', Fires(t, i)'
                 PROVE  \E n \in DOMAIN correlations' : correlations'[n] = Correlation(engine[i], t)
      BY <1>1 DEF ReportedFully, Correlation, ParseSeverity
    <3>1. CASE Evaluated(t, i)
      <4>1. PICK n \in DOMAIN correlations : correlations[n] = Correlation(engine[i], t)
        BY <1>2, <1>3, <3>1 DEF ReportedFully
      <4> QED
        BY <2>3, <4>1
    <3>2. CASE t = target /\ i = index
      <4>1. Len(correlations) + 1 \in DOMAIN correlations'
        BY <2>3
      <4> QED
        BY <2>3, <3>2, <4>1 DEF new
    <3> QED
      BY <1>5, <3>1, <3>2
  <2>8. ReportedOnce'
    BY <1>2, <1>6, <2>3, <2>4, <2>5 DEF ReportedOnce
  <2> QED
    BY <1>1, <2>6, <2>7, <2>8 DEF ReportInv
<1>9. CASE ~Fires(target, index)
  <2>1. correlations' = correlations
    BY <1>7, <1>9 DEF EvaluateRule
  <2>2. ReportedSoundly'
    BY <1>1, <1>2, <1>3, <1>5, <2>1 DEF ReportedSoundly, Correlation, ParseSeverity
  <2>3. ReportedFully'
    BY <1>1, <1>2, <1>3, <1>5, <1>9, <2>1 DEF ReportedFully, Correlation, ParseSeverity
  <2>4. ReportedOnce'
    BY <1>2, <2>1 DEF ReportedOnce
  <2> QED
    BY <1>1, <2>2, <2>3, <2>4 DEF ReportInv
<1> QED
  BY <1>8, <1>9

\* No step breaks what is known of the report.
LEMMA ReportStep ==
    ASSUME RuleInv, ReportInv, [Next]_vars
    PROVE  ReportInv'
<1>1. ASSUME stage \in {"open", "list", "complete", "collect"},
             stage' \in {"open", "list", "complete", "collect"},
             correlations' = correlations
      PROVE  ReportInv'
  BY <1>1 DEF ReportInv
<1>2. CASE OpenDirectory
  BY <1>1, <1>2 DEF OpenDirectory, UseBuiltinRules
<1>3. CASE ListingFails
  BY <1>1, <1>3 DEF ListingFails, UseBuiltinRules
<1>4. ASSUME NEW f \in unread, ReadEntry(f) PROVE ReportInv'
  BY <1>1, <1>4 DEF ReadEntry
<1>5. CASE EndOfListing
  BY <1>1, <1>5 DEF EndOfListing
<1>6. CASE AddBuiltin
  BY <1>1, <1>6 DEF AddBuiltin
<1>7. CASE RulesComplete
  BY <1>1, <1>7 DEF RulesComplete
<1>8. CASE Collect
  BY <1>1, <1>8 DEF Collect
<1>9. CASE AllCollected
  <2>1. /\ stage' = "select" /\ pending' = DOMAIN info /\ info' = info
        /\ correlations' = correlations /\ correlations = <<>>
    BY <1>9 DEF AllCollected, ReportInv
  <2>2. DOMAIN correlations' = {}
    BY <2>1
  <2>3. \A t, i : ~Evaluated(t, i)'
    BY <2>1 DEF Evaluated
  <2>4. ReportedSoundly' /\ ReportedFully' /\ ReportedOnce'
    BY <2>2, <2>3 DEF ReportedSoundly, ReportedFully, ReportedOnce
  <2> QED
    BY <2>1, <2>4 DEF ReportInv
<1>10. ASSUME NEW t \in pending, TakeTarget(t) PROVE ReportInv'
  <2>1. /\ stage = "select" /\ stage' = "evaluate" /\ target' = t /\ index' = 1
        /\ pending' = pending \ {t}
        /\ UNCHANGED <<engine, info, correlations>>
        /\ Len(engine) \in Nat /\ DOMAIN engine = 1..Len(engine)
    BY <1>10 DEF TakeTarget, RuleInv, CorrelationTypeOK
  <2>2. ASSUME NEW s, NEW i PROVE Evaluated(s, i)' <=> Evaluated(s, i)
    <3>1. CASE s = t
      <4>1. i \in DOMAIN engine => ~(i < 1)
        BY <2>1
      <4> QED
        BY <1>10, <2>1, <3>1, <4>1 DEF Evaluated
    <3>2. CASE s # t
      BY <2>1, <3>2 DEF Evaluated
    <3> QED
      BY <3>1, <3>2
  <2>3. (ReportedSoundly /\ ReportedFully /\ ReportedOnce)'
    BY <2>1, <2>2, ReportStays DEF ReportInv
  <2> QED
    BY <2>1, <2>3 DEF ReportInv
<1>11. CASE EvaluateRule
  BY <1>11, RuleEvaluated
<1>12. CASE EndOfRules
  <2>1. /\ stage = "evaluate" /\ stage' = "select" /\ index = Len(engine) + 1
        /\ UNCHANGED <<engine, info, pending, correlations>>
        /\ Len(engine) \in Nat /\ DOMAIN engine = 1..Len(engine)
    BY <1>12 DEF EndOfRules, RuleInv, CorrelationTypeOK
  <2>2. \A i \in DOMAIN engine : i < index
    BY <2>1
  <2>3. \A s, i : Evaluated(s, i)' <=> Evaluated(s, i)
    BY <2>1, <2>2 DEF Evaluated
  <2>4. (ReportedSoundly /\ ReportedFully /\ ReportedOnce)'
    BY <2>1, <2>3, ReportStays DEF ReportInv
  <2> QED
    BY <2>1, <2>4 DEF ReportInv
<1>13. CASE Finish
  <2>1. /\ stage = "select" /\ stage' = "done" /\ pending' = {}
        /\ UNCHANGED <<engine, info, pending, correlations>>
    BY <1>13 DEF Finish
  <2>2. \A s, i : Evaluated(s, i)' <=> Evaluated(s, i)
    BY <2>1 DEF Evaluated
  <2>3. (ReportedSoundly /\ ReportedFully /\ ReportedOnce)'
    BY <2>1, <2>2, ReportStays DEF ReportInv
  <2> QED
    BY <2>1, <2>3 DEF ReportInv
<1>14. CASE UNCHANGED vars
  <2>1. \A s, i : Evaluated(s, i)' <=> Evaluated(s, i)
    BY <1>14 DEF vars, Evaluated
  <2>2. ReportedSoundly /\ ReportedFully /\ ReportedOnce =>
           (ReportedSoundly /\ ReportedFully /\ ReportedOnce)'
    BY <1>14, <2>1, ReportStays DEF vars
  <2> QED
    BY <1>14, <2>2 DEF vars, ReportInv
<1> QED
  BY <1>2, <1>3, <1>4, <1>5, <1>6, <1>7, <1>8, <1>9, <1>10, <1>11, <1>12, <1>13, <1>14 DEF Next

\* A rule fires on what is known of a target exactly when the findings about
\* that target satisfy its conditions.
LEMMA FiringIsSatisfaction ==
    ASSUME KnownFrom(Len(request.findings)), request.findings \in Seq(Finding),
           NEW t \in Target, NEW rule
    PROVE  /\ t \in DOMAIN info <=> About(t) # {}
           /\ RuleMatches(rule, Known(t)) <=> \A c \in rule.conditions : Satisfied(c, t)
<1> DEFINE n == Len(request.findings)
<1>1. DOMAIN request.findings = 1..n
  OBVIOUS
<1>2. About(t) = {request.findings[m] : m \in Upto(n, t)}
  BY <1>1 DEF About, Upto
<1>3. /\ t \in DOMAIN info <=> Upto(n, t) # {}
      /\ \A k : k \in Known(t).kinds <=> \E m \in Upto(n, t) : request.findings[m].kind = k
      /\ \A v : v \in Known(t).tags <=> \E m \in Upto(n, t) : v \in request.findings[m].tags
  BY DEF KnownFrom
<1> HIDE DEF n
<1>4. t \in DOMAIN info <=> About(t) # {}
  BY <1>2, <1>3
<1>5. /\ \A k : k \in Known(t).kinds <=> \E finding \in About(t) : finding.kind = k
      /\ \A v : v \in Known(t).tags <=> \E finding \in About(t) : v \in finding.tags
  BY <1>2, <1>3
<1>6. ASSUME NEW c
      PROVE  Satisfied(c, t) <=> MatchesTags(c, Known(t).tags) \/ \E k \in Known(t).kinds : MatchesKind(c, k)
  <2>1. (\E k \in Known(t).kinds : MatchesKind(c, k))
           <=> \E finding \in About(t) : MatchesKind(c, finding.kind)
    BY <1>5
  <2>2. (c.values \subseteq Known(t).tags)
           <=> \A v \in c.values : \E finding \in About(t) : v \in finding.tags
    BY <1>5
  <2>3. (c.values \cap Known(t).tags # {})
           <=> \E v \in c.values : \E finding \in About(t) : v \in finding.tags
    BY <1>5
  <2>4. \A k : MatchesKind(c, k) => c.condition_type = "kind"
    BY DEF MatchesKind
  <2> QED
    BY <2>1, <2>2, <2>3, <2>4 DEF Satisfied, MatchesTags
<1> QED
  BY <1>4, <1>6 DEF RuleMatches

\* When both loops have ended, the report is exact.
LEMMA ReportIsExact ==
    ASSUME RuleInv, InfoInv, ReportInv
    PROVE  CorrelationsExact
<1> SUFFICES ASSUME stage = "done" PROVE CorrelationsExact
  BY DEF CorrelationsExact
<1>1. /\ ReportedSoundly /\ ReportedFully /\ ReportedOnce
      /\ pending = {}
      /\ KnownFrom(Len(request.findings))
      /\ request.findings \in Seq(Finding)
      /\ DOMAIN info \subseteq Target
  BY RequestFacts DEF ReportInv, InfoInv, RuleInv, CorrelationTypeOK
<1>2. \A t, i : Evaluated(t, i) <=> t \in DOMAIN info /\ i \in DOMAIN engine
  BY <1>1 DEF Evaluated
<1>3. ASSUME NEW n \in DOMAIN correlations
      PROVE  \E i \in DOMAIN engine, t \in Target : correlations[n] = Correlation(engine[i], t)
  BY <1>1, <1>2, <1>3 DEF ReportedSoundly
<1>4. ASSUME NEW i \in DOMAIN engine, NEW t \in Target
      PROVE  (\E n \in DOMAIN correlations : correlations[n] = Correlation(engine[i], t))
                <=> About(t) # {} /\ \A c \in engine[i].conditions : Satisfied(c, t)
  <2>1. /\ t \in DOMAIN info <=> About(t) # {}
        /\ Fires(t, i) <=> \A c \in engine[i].conditions : Satisfied(c, t)
    BY <1>1, FiringIsSatisfaction DEF Fires
  <2>2. t \in DOMAIN info /\ Fires(t, i) =>
           \E n \in DOMAIN correlations : correlations[n] = Correlation(engine[i], t)
    BY <1>1, <1>2, <1>4 DEF ReportedFully
  <2>3. ASSUME NEW n \in DOMAIN correlations, correlations[n] = Correlation(engine[i], t)
        PROVE  t \in DOMAIN info /\ Fires(t, i)
    <3>1. PICK s, j : /\ Evaluated(s, j) /\ Fires(s, j)
                      /\ correlations[n] = Correlation(engine[j], s)
      BY <1>1 DEF ReportedSoundly
    <3>2. correlations[n].target = s /\ correlations[n].template_id = engine[j].id
      BY <3>1 DEF Correlation
    <3>3. correlations[n].target = t /\ correlations[n].template_id = engine[i].id
      BY <2>3 DEF Correlation
    <3>4. i = j
      BY <1>2, <1>4, <3>1, <3>2, <3>3 DEF RuleInv, OneRulePerId
    <3> QED
      BY <1>2, <3>1, <3>2, <3>3, <3>4
  <2> QED
    BY <2>1, <2>2, <2>3
<1> QED
  BY <1>1, <1>3, <1>4 DEF CorrelationsExact, ReportedOnce

\* Each rule is reported of exactly the targets whose own findings satisfy it,
\* and once, however many files, rules, findings and targets there are and in
\* whatever order they come.
THEOREM CorrelationIsExact == Spec => []CorrelationsExact
<1>1. Init => InfoInv /\ ReportInv
  BY DEF Init, InfoInv, ReportInv
<1>2. RuleInv /\ InfoInv /\ ReportInv /\ [Next]_vars => InfoInv' /\ ReportInv'
  BY InfoStep, ReportStep
<1>3. RuleInv /\ InfoInv /\ ReportInv => CorrelationsExact
  BY ReportIsExact
<1> QED
  BY <1>1, <1>2, <1>3, RulesProved, PTL DEF Spec
=============================================================================
