--------------------------- MODULE MCCorrelation ---------------------------
(***************************************************************************)
(* Two rule files in a directory, among which two rules of one id, one     *)
(* that overrides a built-in rule, one with no condition and one of an     *)
(* unknown type; up to three findings on two targets, of which the third   *)
(* comes from a smaller set.                                               *)
(***************************************************************************)
EXTENDS Correlation

MCTarget == {"t1", "t2"}
MCKind   == {"Exposure", "TechDetect", "Future"}
MCTag    == {"sqli", "lfi"}

MCLowerCase == [Exposure |-> "exposure", HIGH |-> "high"]

All(type, values) == [condition_type |-> type, values |-> values, match_mode |-> "all"]

Both       == Rule("custom", "HIGH", {All("tag", {"sqli", "lfi"})}, {"both"})
Always     == Rule("custom", "criticl", {}, {"always"})
Override   == Rule("karyx-correlation", "low", {Any("kind", {"Exposure"})}, {"exposed"})
NewKind    == Rule("future", "", {Any("kind", {"other"}), Any("tag", {"sqli"})}, {"future"})
AllKinds   == Rule("kinds", "medium", {All("kind", {"exposure", "tech-detect"})}, {"kinds"})
WrongType  == Rule("wrong", "high", {Any("status", {"sqli"})}, {"wrong"})

MCLoadable == {Both, Always, Override, NewKind, AllKinds, WrongType}

Toml(content) == [extension |-> "toml", content |-> content]
Contents == {Toml(c) : c \in MCLoadable} \cup {Toml(Malformed), [extension |-> "bak", content |-> Both]}

Directories ==
    {[directory |-> d, files |-> <<>>] : d \in {"none", "missing", "unreadable"}}
        \cup {[directory |-> "listed", files |-> <<c>>] : c \in Contents}
        \cup {[directory |-> "listed", files |-> <<c, d>>] : c \in Contents, d \in Contents}

Found(t, kind, tags) == [target |-> t, kind |-> kind, tags |-> tags]

FindingLists ==
    {<<>>, <<Found("t1", "Future", {"sqli"}), Found("t1", "Exposure", {"lfi"})>>,
     <<Found("t1", "Exposure", {"sqli"}), Found("t2", "TechDetect", {"lfi"}), Found("t1", "TechDetect", {})>>,
     <<Found("t2", "TechDetect", {"sqli"}), Found("t1", "Exposure", {"sqli", "lfi"}), Found("t2", "Exposure", {"lfi"})>>}
        \cup {<<Found("t1", k, s)>> : k \in MCKind, s \in SUBSET MCTag}

MCRequests ==
    {[directory |-> d.directory, files |-> d.files, findings |-> list] :
        d \in Directories, list \in FindingLists}
=============================================================================
