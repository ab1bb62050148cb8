--------------------------- MODULE InterTemplate ---------------------------
(***************************************************************************)
(* inter_template.rs: the variables templates export for the templates     *)
(* that run after them, per target.                                        *)
(*                                                                         *)
(* A name is the sequence of its segments, the parts between its dots, so  *)
(* that format!("{id}.{name}") is id \o name.  The list of variables in the  *)
(* cache, which grows with every export, is the set of its elements.       *)
(***************************************************************************)
EXTENDS Sequences

CONSTANTS
    Target,       \* The targets of a scanning session.
    TemplateId,   \* Names of templates.
    Var,          \* Names of variables.
    Value,        \* The values an extractor may have found.
    Declared      \* template.exports: template -> the variables it declares.

ASSUME DeclaredAssumption == Declared \in [TemplateId -> SUBSET Var]

\* A name has a segment before its first dot, be it an empty one.
ASSUME NameAssumption ==
    \A name \in TemplateId \cup Var : name \in Seq(STRING) /\ name # <<>>

VARIABLES
    exports,      \* <<target, qualified name>> -> exported value.
    export_cache  \* <<target, template>> -> the variables it lists as exported.

state == <<exports, export_cache>>

NoEntries == [k \in {} |-> k]

-----------------------------------------------------------------------------
\* A slip: leave the template out of the name.
BareName(id, v) == v

\* The fully-qualified name of variable v of template id.
QualifiedName(id, v) == id \o v

Keys(t, id, vars) == {<<t, QualifiedName(id, v)>> : v \in vars}

ValueFor(t, id, values, k) == values[CHOOSE v \in DOMAIN values : k = <<t, QualifiedName(id, v)>>]

\* A slip: a template that exports again begins anew.
WrittenAnew(t, id, values) ==
    [k \in {j \in DOMAIN exports : j \notin Keys(t, id, Var)} \cup Keys(t, id, DOMAIN values) |->
        IF k \in Keys(t, id, DOMAIN values) THEN ValueFor(t, id, values, k) ELSE exports[k]]

\* The map after writing `values`.
Written(t, id, values) ==
    [k \in DOMAIN exports \cup Keys(t, id, DOMAIN values) |->
        IF k \in Keys(t, id, DOMAIN values) THEN ValueFor(t, id, values, k) ELSE exports[k]]

Listed(t, id) == IF <<t, id>> \in DOMAIN export_cache THEN export_cache[<<t, id>>] ELSE {}

\* export_variable for each of the variables in the domain of `values`.
ExportAll(t, id, values) ==
    /\ exports' = Written(t, id, values)
    /\ export_cache' =
          [k \in DOMAIN export_cache \cup {<<t, id>>} |->
              IF k = <<t, id>> THEN Listed(t, id) \cup DOMAIN values ELSE export_cache[k]]

Init ==
    /\ exports      = NoEntries
    /\ export_cache = NoEntries

ExportVariable(t, id, v, value) == ExportAll(t, id, [w \in {v} |-> value])

\* Only the declared variables that were extracted are exported.  A template
\* that exports none of them has no entry in the cache.
ExportTemplateVariables(t, id, extracted) ==
    LET kept == Declared[id] \cap DOMAIN extracted
    IN  \/ kept = {} /\ UNCHANGED state
        \/ kept # {} /\ ExportAll(t, id, [v \in kept |-> extracted[v]])

\* A slip: forget the exports and keep the cache.
ClearTargetExports(t) ==
    /\ exports' = [k \in {j \in DOMAIN exports : j[1] # t} |-> exports[k]]
    /\ UNCHANGED export_cache

ClearTarget(t) ==
    /\ exports'      = [k \in {j \in DOMAIN exports : j[1] # t} |-> exports[k]]
    /\ export_cache' = [k \in {j \in DOMAIN export_cache : j[1] # t} |-> export_cache[k]]

Clear ==
    /\ exports'      = NoEntries
    /\ export_cache' = NoEntries

StateNext ==
    \/ \E t \in Target, id \in TemplateId, v \in Var, value \in Value :
          ExportVariable(t, id, v, value)
    \/ \E t \in Target, id \in TemplateId, vars \in SUBSET Var :
          \E extracted \in [vars -> Value] : ExportTemplateVariables(t, id, extracted)
    \/ \E t \in Target : ClearTarget(t)
    \/ Clear

StateSpec == Init /\ [][StateNext]_state

-----------------------------------------------------------------------------
\* import_variable finds a value.
IsExported(t, id, v) == <<t, QualifiedName(id, v)>> \in DOMAIN exports

\* Every name a template may export: the template and the variable.
FullNames == {id \o v : id \in TemplateId, v \in Var}

\* The types of the two maps.
StateTypeOK ==
    /\ DOMAIN exports \subseteq Target \X FullNames
    /\ \A k \in DOMAIN exports : exports[k] \in Value
    /\ DOMAIN export_cache \subseteq Target \X TemplateId
    /\ \A k \in DOMAIN export_cache : export_cache[k] \subseteq Var

\* Both maps tell the same story after any exports and clears: what
\* get_template_exports announces can be imported, and what can be imported
\* is announced by some template.
CacheMatchesExports ==
    /\ \A k \in DOMAIN export_cache :
          export_cache[k] # {} /\ \A v \in export_cache[k] : IsExported(k[1], k[2], v)
    /\ \A k \in DOMAIN exports : \E id \in TemplateId : \E v \in Listed(k[1], id) :
          k[2] = QualifiedName(id, v)

\* No two exports share a qualified name, as when no template id has a dot.
NoNameClash ==
    \A id1, id2 \in TemplateId, v1, v2 \in Var :
        QualifiedName(id1, v1) = QualifiedName(id2, v2) => id1 = id2 /\ v1 = v2

\* The exports as the abstract store.
Triples == {j \in Target \X TemplateId \X Var : IsExported(j[1], j[2], j[3])}

StoreOf == [k \in Triples |-> exports[<<k[1], QualifiedName(k[2], k[3])>>]]

Store == INSTANCE ExportStore WITH store <- StoreOf

\* Unless names clash, every template has its own variables on every target.
ImplementsStore == Store!Spec
=============================================================================
