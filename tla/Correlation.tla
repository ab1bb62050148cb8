---------------------------- MODULE Correlation ----------------------------
(***************************************************************************)
(* correlation.rs: one call of correlate_findings or of                    *)
(* correlate_findings_with_rules_dir.  Rules are loaded from the files of  *)
(* a directory, in whatever order it lists them, completed with the        *)
(* built-in rules, and evaluated on what the findings of each target say.  *)
(*                                                                         *)
(* The values and tags of a rule are sets: only membership is asked.       *)
(***************************************************************************)
EXTENDS Naturals, Sequences

CONSTANTS
    Requests,   \* What may be asked: [directory, files, findings].
    Loadable,   \* The rules that files of a directory parse to.
    Malformed,  \* The content of a file that cannot be read or parsed.
    Target,     \* The targets of findings.
    Kind,       \* The kinds of findings, future ones included.
    Tag,        \* The tags of findings.
    NoTarget,   \* No target is being evaluated.
    LowerCase   \* The lower case of the names that have upper case letters.

Conditions == [condition_type : STRING, values : SUBSET STRING, match_mode : STRING]

Finding == [target : Target, kind : Kind, tags : SUBSET Tag]

ASSUME RuleAssumption ==
    \A r \in Loadable : r.conditions \in SUBSET Conditions

\* Where the rules come from: "none" is correlate_findings, which asks for no
\* directory; a directory is missing, cannot be opened, or is listed.
ASSUME RequestAssumption ==
    /\ Malformed \notin Loadable
    /\ \A q \in Requests :
          /\ q.directory \in {"none", "missing", "unreadable", "listed"}
          /\ \A f \in DOMAIN q.files : q.files[f].content \in Loadable \cup {Malformed}
          /\ q.findings \in Seq(Finding)

VARIABLES
    request,      \* The call.
    stage,        \* Where it is.
    loaded,       \* Whether load_from_dir has failed: "ok" or "err".
    unread,       \* The files the listing has yet to give.
    engine,       \* engine.rules
    index,        \* The next built-in rule, finding or rule.
    info,         \* target_info
    pending,      \* The targets the iteration over target_info has yet to give.
    target,       \* The one it gave last.
    correlations  \* The result.

vars == <<request, stage, loaded, unread, engine, index, info, pending, target, correlations>>

-----------------------------------------------------------------------------
\* The built-in rules.

Any(type, values) == [condition_type |-> type, values |-> values, match_mode |-> "any"]

Rule(id, severity, conditions, tags) ==
    [id |-> id, severity |-> severity, conditions |-> conditions, result_tags |-> tags]

BuiltinRules == <<
    Rule("karyx-chain-rce", "critical",
         {Any("tag", {"sqli", "sql-injection"}), Any("tag", {"lfi", "file-read", "rfi"})},
         {"rce-chain", "critical"}),
    Rule("karyx-chain-account-takeover", "critical",
         {Any("tag", {"default-credentials", "default-login"}), Any("tag", {"admin", "admin-panel"})},
         {"account-takeover", "critical"}),
    Rule("karyx-chain-cloud-compromise", "critical",
         {Any("tag", {"ssrf"}), Any("tag", {"cloud-metadata", "metadata"})},
         {"cloud-compromise", "critical"}),
    Rule("karyx-chain-session-hijack", "high",
         {Any("tag", {"xss", "cross-site-scripting"}), Any("tag", {"session", "cookie"})},
         {"session-hijack", "high"}),
    Rule("karyx-chain-data-breach", "high",
         {Any("tag", {"directory-listing", "dir-listing"}), Any("tag", {"sensitive", "backup", "config"})},
         {"data-breach", "high"}),
    Rule("karyx-correlation", "high",
         {Any("kind", {"tech-detect"}), Any("kind", {"exposure"})},
         {"correlated-risk", "high"}) >>

-----------------------------------------------------------------------------
\* What a rule asks of a target.

Lower(name) == IF name \in DOMAIN LowerCase THEN LowerCase[name] ELSE name

KindNames ==
    [Vulnerability |-> "vulnerability", Misconfiguration |-> "misconfiguration",
     Exposure |-> "exposure", TechDetect |-> "tech-detect",
     DefaultCredentials |-> "default-credentials", InfoDisclosure |-> "info-disclosure",
     FileDiscovery |-> "file-discovery"]

\* A kind this code does not know yet is "other".
KindToKebabCase(kind) == IF kind \in DOMAIN KindNames THEN KindNames[kind] ELSE "other"

Severities == [critical |-> "Critical", high |-> "High", medium |-> "Medium", low |-> "Low"]

ParseSeverity(name) ==
    IF Lower(name) \in DOMAIN Severities THEN Severities[Lower(name)] ELSE "Info"

MatchesTags(c, tags) ==
    /\ c.condition_type = "tag"
    /\ IF c.match_mode = "all" THEN c.values \subseteq tags ELSE c.values \cap tags # {}

MatchesKind(c, kind) ==
    /\ c.condition_type = "kind"
    /\ IF c.match_mode = "all"
       THEN \A v \in c.values : KindToKebabCase(kind) = Lower(v)
       ELSE \E v \in c.values : KindToKebabCase(kind) = Lower(v)

\* A slip: every kind of the target must satisfy a condition on kinds.
RuleMatchesEveryKind(rule, known) ==
    \A c \in rule.conditions :
        \/ MatchesTags(c, known.tags)
        \/ c.condition_type = "kind" /\ \A k \in known.kinds : MatchesKind(c, k)

\* A condition of any other type is never satisfied.
RuleMatches(rule, known) ==
    \A c \in rule.conditions :
        MatchesTags(c, known.tags) \/ \E k \in known.kinds : MatchesKind(c, k)

Correlation(rule, t) ==
    [template_id |-> rule.id, target |-> t, severity |-> ParseSeverity(rule.severity),
     tags |-> rule.result_tags]

-----------------------------------------------------------------------------
\* The rules of an engine.

HasId(rules, id) == \E i \in DOMAIN rules : rules[i].id = id

\* A slip: a rule of a known id is added beside the one there is.
AddRule(rules, rule) == Append(rules, rule)

AddOrOverride(rules, rule) ==
    IF HasId(rules, rule.id)
    THEN [rules EXCEPT ![CHOOSE i \in DOMAIN rules : rules[i].id = rule.id] = rule]
    ELSE Append(rules, rule)

\* What a target with no finding yet is known for.
NothingKnown == [kinds |-> {}, tags |-> {}]

\* A slip: a finding replaces what was known.
KnownAnew(t) == NothingKnown

Known(t) == IF t \in DOMAIN info THEN info[t] ELSE NothingKnown

Init ==
    /\ request \in Requests
    /\ stage        = "open"
    /\ loaded       = "ok"
    /\ unread       = {}
    /\ engine       = <<>>
    /\ index        = 1
    /\ info         = [t \in {} |-> NothingKnown]
    /\ pending      = {}
    /\ target       = NoTarget
    /\ correlations = <<>>

\* correlate_findings: the default engine.
UseBuiltinRules ==
    /\ engine' = BuiltinRules
    /\ stage'  = "collect"

OpenDirectory ==
    /\ stage = "open"
    /\ \/ request.directory = "none" /\ UseBuiltinRules /\ UNCHANGED <<loaded, unread>>
       \/ request.directory = "unreadable" /\ loaded' = "err" /\ UseBuiltinRules /\ UNCHANGED unread
       \/ request.directory = "missing" /\ stage' = "complete" /\ UNCHANGED <<loaded, unread, engine>>
       \/ /\ request.directory = "listed"
          /\ stage'  = "list"
          /\ unread' = DOMAIN request.files
          /\ UNCHANGED <<loaded, engine>>
    /\ UNCHANGED <<request, index, info, pending, target, correlations>>

\* The next entry of the listing is an error: whatever was loaded is dropped.
ListingFails ==
    /\ stage = "list"
    /\ loaded' = "err"
    /\ UseBuiltinRules
    /\ UNCHANGED <<request, unread, index, info, pending, target, correlations>>

IsRuleFile(f) == request.files[f].extension = "toml" /\ request.files[f].content # Malformed

\* The next entry of the listing is f, which is skipped if it holds no rule.
ReadEntry(f) ==
    /\ stage = "list"
    /\ f \in unread
    /\ unread' = unread \ {f}
    /\ engine' = IF IsRuleFile(f) THEN AddOrOverride(engine, request.files[f].content) ELSE engine
    /\ UNCHANGED <<request, stage, loaded, index, info, pending, target, correlations>>

EndOfListing ==
    /\ stage = "list"
    /\ unread = {}
    /\ stage' = "complete"
    /\ UNCHANGED <<request, loaded, unread, engine, index, info, pending, target, correlations>>

\* A slip: the built-in rules are loaded over those of the files.
AddBuiltinOver ==
    /\ stage = "complete"
    /\ index <= Len(BuiltinRules)
    /\ engine' = AddOrOverride(engine, BuiltinRules[index])
    /\ index'  = index + 1
    /\ UNCHANGED <<request, stage, loaded, unread, info, pending, target, correlations>>

\* A built-in rule that no file has overridden.
AddBuiltin ==
    /\ stage = "complete"
    /\ index <= Len(BuiltinRules)
    /\ engine' = IF HasId(engine, BuiltinRules[index].id)
                 THEN engine ELSE Append(engine, BuiltinRules[index])
    /\ index'  = index + 1
    /\ UNCHANGED <<request, stage, loaded, unread, info, pending, target, correlations>>

RulesComplete ==
    /\ stage = "complete"
    /\ index = Len(BuiltinRules) + 1
    /\ stage' = "collect"
    /\ index' = 1
    /\ UNCHANGED <<request, loaded, unread, engine, info, pending, target, correlations>>

\* The first loop of correlate: what the next finding says of its target.
Collect ==
    /\ stage = "collect"
    /\ index <= Len(request.findings)
    /\ LET finding == request.findings[index]
       IN  info' = [t \in DOMAIN info \cup {finding.target} |->
                       IF t = finding.target
                       THEN [kinds |-> Known(t).kinds \cup {finding.kind},
                             tags  |-> Known(t).tags \cup finding.tags]
                       ELSE info[t]]
    /\ index' = index + 1
    /\ UNCHANGED <<request, stage, loaded, unread, engine, pending, target, correlations>>

AllCollected ==
    /\ stage = "collect"
    /\ index = Len(request.findings) + 1
    /\ stage'   = "select"
    /\ pending' = DOMAIN info
    /\ UNCHANGED <<request, loaded, unread, engine, index, info, target, correlations>>

\* A slip: a target is given again and again.
TakeTargetAgain(t) ==
    /\ stage = "select"
    /\ t \in pending
    /\ stage'  = "evaluate"
    /\ target' = t
    /\ index'  = 1
    /\ UNCHANGED <<request, loaded, unread, engine, info, pending, correlations>>

\* The second loop: the next target, in the order of a hash map.
TakeTarget(t) ==
    /\ stage = "select"
    /\ t \in pending
    /\ stage'   = "evaluate"
    /\ pending' = pending \ {t}
    /\ target'  = t
    /\ index'   = 1
    /\ UNCHANGED <<request, loaded, unread, engine, info, correlations>>

EvaluateRule ==
    /\ stage = "evaluate"
    /\ index <= Len(engine)
    /\ correlations' = IF RuleMatches(engine[index], info[target])
                       THEN Append(correlations, Correlation(engine[index], target))
                       ELSE correlations
    /\ index' = index + 1
    /\ UNCHANGED <<request, stage, loaded, unread, engine, info, pending, target>>

EndOfRules ==
    /\ stage = "evaluate"
    /\ index = Len(engine) + 1
    /\ stage' = "select"
    /\ UNCHANGED <<request, loaded, unread, engine, index, info, pending, target, correlations>>

Finish ==
    /\ stage = "select"
    /\ pending = {}
    /\ stage' = "done"
    /\ UNCHANGED <<request, loaded, unread, engine, index, info, pending, target, correlations>>

Next ==
    \/ OpenDirectory
    \/ ListingFails
    \/ \E f \in unread : ReadEntry(f)
    \/ EndOfListing
    \/ AddBuiltin
    \/ RulesComplete
    \/ Collect
    \/ AllCollected
    \/ \E t \in pending : TakeTarget(t)
    \/ EvaluateRule
    \/ EndOfRules
    \/ Finish

Spec == Init /\ [][Next]_vars

-----------------------------------------------------------------------------
\* The rules an engine may hold.
Rules == Loadable \cup {BuiltinRules[i] : i \in DOMAIN BuiltinRules}

\* What a call knows of its targets.
Profiles == [kinds : SUBSET Kind, tags : SUBSET Tag]

\* The types of the variables, and their values in the stages.
CorrelationTypeOK ==
    /\ request \in Requests
    /\ stage \in {"open", "list", "complete", "collect", "select", "evaluate", "done"}
    /\ loaded \in {"ok", "err"}
    /\ unread \subseteq DOMAIN request.files
    /\ engine \in Seq(Rules)
    /\ index \in Nat \ {0}
    /\ DOMAIN info \subseteq Target
    /\ \A t \in DOMAIN info : info[t] \in Profiles
    /\ pending \subseteq DOMAIN info
    /\ stage = "evaluate" => target \in DOMAIN info \ pending
    /\ correlations \in Seq({Correlation(r, t) : r \in Rules, t \in Target})

\* However the files override each other and the built-in rules, no id has two
\* rules: add_rule itself would let it, and a target would be reported twice.
OneRulePerId ==
    \A i, j \in DOMAIN engine : engine[i].id = engine[j].id => i = j

\* Files of a request whose rule has this id.
RuleFiles(id) == {f \in DOMAIN request.files : IsRuleFile(f) /\ request.files[f].content.id = id}

\* The directory was listed to its end.
Listed == request.directory = "listed" /\ loaded = "ok"

BuiltinIds == {BuiltinRules[i].id : i \in DOMAIN BuiltinRules}

\* The rule is that of a file which gives its id, and otherwise built in.
OfRequest(rule) ==
    \/ /\ rule \in {BuiltinRules[j] : j \in DOMAIN BuiltinRules}
       /\ Listed => RuleFiles(rule.id) = {}
    \/ /\ Listed
       /\ \E f \in RuleFiles(rule.id) : rule = request.files[f].content

\* No id of these files is missing.
HasIdsOf(files) == \A f \in files : IsRuleFile(f) => HasId(engine, request.files[f].content.id)

\* Once loaded, the rule of an id is that of a file which gives it, whatever the
\* order of the listing, and otherwise the built-in one; no other rule is there,
\* none is missing, and a load that failed half way leaves no trace.
RulesAreLoaded ==
    stage \in {"collect", "select", "evaluate", "done"} =>
        /\ \A i \in DOMAIN engine : OfRequest(engine[i])
        /\ \A id \in BuiltinIds : HasId(engine, id)
        /\ Listed => HasIdsOf(DOMAIN request.files)

\* The findings about t.
About(t) == {request.findings[n] : n \in {m \in DOMAIN request.findings : request.findings[m].target = t}}

\* What a condition asks of the findings of one target, said of the findings.
Satisfied(c, t) ==
    \/ /\ c.condition_type = "tag"
       /\ IF c.match_mode = "all"
          THEN \A v \in c.values : \E finding \in About(t) : v \in finding.tags
          ELSE \E v \in c.values : \E finding \in About(t) : v \in finding.tags
    \/ /\ c.condition_type = "kind"
       /\ \E finding \in About(t) : MatchesKind(c, finding.kind)

\* A rule is reported of exactly the targets whose own findings satisfy all its
\* conditions, once each: targets are not mixed, and the order in which
\* findings, targets and rules come does not matter.
CorrelationsExact ==
    stage = "done" =>
        /\ \A n \in DOMAIN correlations : \E i \in DOMAIN engine, t \in Target :
              correlations[n] = Correlation(engine[i], t)
        /\ \A i \in DOMAIN engine, t \in Target :
              (\E n \in DOMAIN correlations : correlations[n] = Correlation(engine[i], t))
                 <=> About(t) # {} /\ \A c \in engine[i].conditions : Satisfied(c, t)
        /\ \A m, n \in DOMAIN correlations :
              /\ correlations[m].target = correlations[n].target
              /\ correlations[m].template_id = correlations[n].template_id
              => m = n

\* One more finding never takes a correlation away.
MatchesOnlyGrow ==
    [][\A r \in Rules, t \in Target :
          RuleMatches(r, Known(t)) => RuleMatches(r, Known(t)')]_vars
=============================================================================
