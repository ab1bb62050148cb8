------------------------ MODULE InterTemplateProofs ------------------------
(***************************************************************************)
(* Proofs about inter_template.rs.  The two maps of the exports agree, and *)
(* unless names clash they implement one store per target and template.    *)
(* The substitution loop, for every text, every map of local variables and *)
(* every state of the exports, cyclic ones included: what it passed over   *)
(* stays settled, so below its limit it leaves no reference behind; and    *)
(* while no value has a reference it replaces all of them at once.         *)
(***************************************************************************)
EXTENDS Substitution, SequenceLemmas

IInv == StateTypeOK /\ CacheMatchesExports

\* Exporting is the only way an entry is added to either map; `values` is what
\* is written.
LEMMA ExportStep ==
    ASSUME IInv, NEW t \in Target, NEW id \in TemplateId,
           NEW named \in SUBSET Var, named # {}, NEW values \in [named -> Value],
           ExportAll(t, id, values)
    PROVE  IInv'
<1> DEFINE written == Keys(t, id, named)
<1>1. DOMAIN values = named
  OBVIOUS
<1>2. /\ DOMAIN exports' = DOMAIN exports \cup written
      /\ \A k \in written : exports'[k] = ValueFor(t, id, values, k)
      /\ \A k \in DOMAIN exports \ written : exports'[k] = exports[k]
  BY <1>1 DEF ExportAll, Written
<1>3. /\ DOMAIN export_cache' = DOMAIN export_cache \cup {<<t, id>>}
      /\ export_cache'[<<t, id>>] = Listed(t, id) \cup named
      /\ \A k \in DOMAIN export_cache : k # <<t, id>> => export_cache'[k] = export_cache[k]
  BY <1>1 DEF ExportAll
<1>4. Listed(t, id) \subseteq Var
  BY DEF IInv, StateTypeOK, Listed
<1>5. \A k \in written : \E v \in named : k = <<t, QualifiedName(id, v)>>
  BY DEF Keys
<1>6. StateTypeOK'
  <2>1. DOMAIN exports' \subseteq Target \X FullNames
    <3> SUFFICES ASSUME NEW k \in DOMAIN exports'
                 PROVE  k \in Target \X FullNames
      OBVIOUS
    <3>1. CASE k \in written
      <4>1. PICK v \in named : k = <<t, QualifiedName(id, v)>>
        BY <1>5, <3>1
      <4>2. QualifiedName(id, v) \in FullNames
        BY ONLY id \in TemplateId, v \in named, named \in SUBSET Var DEF QualifiedName, FullNames
      <4> QED
        BY <4>1, <4>2
    <3>2. CASE k \notin written
      BY <1>2, <3>2 DEF IInv, StateTypeOK
    <3> QED
      BY <3>1, <3>2
  <2>2. \A k \in DOMAIN exports' : exports'[k] \in Value
    <3> SUFFICES ASSUME NEW k \in DOMAIN exports'
                 PROVE  exports'[k] \in Value
      OBVIOUS
    <3>1. CASE k \in written
      <4>1. (CHOOSE v \in named : k = <<t, QualifiedName(id, v)>>) \in named
        BY <1>5, <3>1
      <4> QED
        BY <4>1, <1>1, <1>2, <3>1 DEF ValueFor
    <3>2. CASE k \notin written
      BY <1>2, <3>2 DEF IInv, StateTypeOK
    <3> QED
      BY <3>1, <3>2
  <2>3. DOMAIN export_cache' \subseteq Target \X TemplateId
    BY <1>3 DEF IInv, StateTypeOK
  <2>4. \A k \in DOMAIN export_cache' : export_cache'[k] \subseteq Var
    BY <1>3, <1>4 DEF IInv, StateTypeOK
  <2> QED
    BY <2>1, <2>2, <2>3, <2>4 DEF StateTypeOK
<1>7. CacheMatchesExports'
  <2>1. ASSUME NEW k \in DOMAIN export_cache'
        PROVE  /\ export_cache'[k] # {}
               /\ \A v \in export_cache'[k] : IsExported(k[1], k[2], v)'
    <3>1. CASE k = <<t, id>>
      <4>1. export_cache'[k] = Listed(t, id) \cup named
        BY <1>3, <3>1
      <4>2. \A v \in Listed(t, id) : <<t, QualifiedName(id, v)>> \in DOMAIN exports
        BY DEF IInv, CacheMatchesExports, Listed, IsExported
      <4>3. \A v \in named : <<t, QualifiedName(id, v)>> \in DOMAIN exports'
        BY <1>2 DEF Keys
      <4> QED
        BY <3>1, <4>1, <4>2, <4>3, <1>2 DEF IsExported
    <3>2. CASE k # <<t, id>>
      BY <1>2, <1>3, <3>2 DEF IInv, CacheMatchesExports, IsExported
    <3> QED
      BY <3>1, <3>2
  <2>2. ASSUME NEW k \in DOMAIN exports'
        PROVE  \E i \in TemplateId : \E v \in Listed(k[1], i)' : k[2] = QualifiedName(i, v)
    <3>1. CASE k \in written
      <4>1. PICK v \in named : k = <<t, QualifiedName(id, v)>>
        BY <1>5, <3>1
      <4>2. v \in Listed(t, id)'
        BY <1>3 DEF Listed
      <4> QED
        BY <4>1, <4>2
    <3>2. CASE k \notin written
      <4>0. PICK i \in TemplateId : \E v \in Listed(k[1], i) : k[2] = QualifiedName(i, v)
        BY <1>2, <3>2 DEF IInv, CacheMatchesExports
      <4>1. PICK v \in Listed(k[1], i) : k[2] = QualifiedName(i, v)
        BY <4>0
      <4>2. <<k[1], i>> \in DOMAIN export_cache /\ v \in export_cache[<<k[1], i>>]
        BY <4>1 DEF Listed
      <4>3. v \in Listed(k[1], i)'
        BY <1>3, <4>2 DEF Listed
      <4> QED
        BY <4>1, <4>3
    <3> QED
      BY <3>1, <3>2
  <2> QED
    BY <2>1, <2>2 DEF CacheMatchesExports
<1> QED
  BY <1>6, <1>7 DEF IInv

\* clear_target removes the same targets from both maps.
LEMMA ClearTargetStep ==
    ASSUME IInv, NEW t \in Target, ClearTarget(t)
    PROVE  IInv'
<1>1. /\ DOMAIN exports' = {j \in DOMAIN exports : j[1] # t}
      /\ \A k \in DOMAIN exports' : exports'[k] = exports[k]
      /\ DOMAIN export_cache' = {j \in DOMAIN export_cache : j[1] # t}
      /\ \A k \in DOMAIN export_cache' : export_cache'[k] = export_cache[k]
  BY DEF ClearTarget
<1>2. StateTypeOK'
  BY <1>1 DEF IInv, StateTypeOK
<1>3. CacheMatchesExports'
  <2>1. ASSUME NEW k \in DOMAIN export_cache'
        PROVE  /\ export_cache'[k] # {}
               /\ \A v \in export_cache'[k] : IsExported(k[1], k[2], v)'
    BY <1>1 DEF IInv, CacheMatchesExports, IsExported
  <2>2. ASSUME NEW k \in DOMAIN exports'
        PROVE  \E i \in TemplateId : \E v \in Listed(k[1], i)' : k[2] = QualifiedName(i, v)
    <3>1. PICK i \in TemplateId : \E v \in Listed(k[1], i) : k[2] = QualifiedName(i, v)
      BY <1>1 DEF IInv, CacheMatchesExports
    <3>2. Listed(k[1], i)' = Listed(k[1], i)
      BY <1>1 DEF Listed
    <3> QED
      BY <3>1, <3>2
  <2> QED
    BY <2>1, <2>2 DEF CacheMatchesExports
<1> QED
  BY <1>2, <1>3 DEF IInv

\* Every step of the state is an export, a clear of one target, or a clear.
LEMMA StateStep ==
    ASSUME StateNext
    PROVE  \/ \E t \in Target, id \in TemplateId, named \in SUBSET Var :
                 named # {} /\ \E values \in [named -> Value] : ExportAll(t, id, values)
           \/ \E t \in Target : ClearTarget(t)
           \/ Clear
           \/ UNCHANGED state
<1>1. CASE \E t \in Target, id \in TemplateId, v \in Var, value \in Value :
             ExportVariable(t, id, v, value)
  <2>1. PICK t \in Target, id \in TemplateId, v \in Var, value \in Value :
             ExportAll(t, id, [w \in {v} |-> value])
    BY <1>1 DEF ExportVariable
  <2>2. {v} \in SUBSET Var /\ {v} # {} /\ [w \in {v} |-> value] \in [{v} -> Value]
    OBVIOUS
  <2> QED
    BY <2>1, <2>2
<1>2. CASE \E t \in Target, id \in TemplateId, named \in SUBSET Var :
             \E extracted \in [named -> Value] : ExportTemplateVariables(t, id, extracted)
  <2>1. PICK t \in Target, id \in TemplateId, named \in SUBSET Var :
             \E extracted \in [named -> Value] : ExportTemplateVariables(t, id, extracted)
    BY <1>2
  <2>2. PICK extracted \in [named -> Value] : ExportTemplateVariables(t, id, extracted)
    BY <2>1
  <2> DEFINE kept == Declared[id] \cap DOMAIN extracted
  <2>3. CASE kept = {}
    BY <2>2, <2>3 DEF ExportTemplateVariables
  <2>4. CASE kept # {}
    <3>1. ExportAll(t, id, [v \in kept |-> extracted[v]])
      BY <2>2, <2>4 DEF ExportTemplateVariables
    <3>2. kept \in SUBSET Var /\ [v \in kept |-> extracted[v]] \in [kept -> Value]
      OBVIOUS
    <3> QED
      BY <3>1, <3>2, <2>4
  <2> QED
    BY <2>3, <2>4
<1> QED
  BY <1>1, <1>2 DEF StateNext

\* So no step of the state breaks the invariant.
LEMMA StatePreserves ==
    ASSUME IInv, [StateNext]_state
    PROVE  IInv'
<1>1. ASSUME NEW t \in Target, NEW id \in TemplateId, NEW named \in SUBSET Var, named # {},
             NEW values \in [named -> Value], ExportAll(t, id, values)
      PROVE  IInv'
  BY <1>1, ExportStep
<1>2. ASSUME NEW t \in Target, ClearTarget(t)
      PROVE  IInv'
  BY <1>2, ClearTargetStep
<1>3. CASE Clear
  BY <1>3 DEF Clear, NoEntries, IInv, StateTypeOK, CacheMatchesExports
<1>4. CASE UNCHANGED state
  <2>1. exports' = exports /\ export_cache' = export_cache
    BY <1>4 DEF state
  <2>2. StateTypeOK'
    BY <2>1 DEF IInv, StateTypeOK
  <2>3. CacheMatchesExports'
    BY <2>1 DEF IInv, CacheMatchesExports, IsExported, Listed
  <2> QED
    BY <2>2, <2>3 DEF IInv
<1> QED
  BY <1>1, <1>2, <1>3, <1>4, StateStep

\* Nothing is exported and nothing announced at first.
LEMMA StateInit == Init => IInv
BY DEF Init, NoEntries, IInv, StateTypeOK, CacheMatchesExports

\* The two maps keep their types and agree, whatever is exported and cleared.
THEOREM Invariance == StateSpec => []IInv
<1>1. IInv /\ [StateNext]_state => IInv'
  BY StatePreserves
<1> QED
  BY <1>1, StateInit, PTL DEF StateSpec

\* Type correctness of the exports and their cache.
THEOREM StateTypeCorrectness == StateSpec => []StateTypeOK
<1>1. IInv => StateTypeOK
  BY DEF IInv
<1> QED
  BY <1>1, Invariance, PTL

\* What the cache announces is exported and what is exported is announced.
THEOREM CacheTheorem == StateSpec => []CacheMatchesExports
<1>1. IInv => CacheMatchesExports
  BY DEF IInv
<1> QED
  BY <1>1, Invariance, PTL

\* An export writes the variables of one template on one target.
LEMMA StoreExport ==
    ASSUME NoNameClash, NEW t \in Target, NEW id \in TemplateId,
           NEW named \in SUBSET Var, NEW values \in [named -> Value],
           ExportAll(t, id, values)
    PROVE  Store!Export(t, id, values)
<1> DEFINE written == {<<t, id, v>> : v \in DOMAIN values}
<1>1. DOMAIN values = named
  OBVIOUS
<1>2. /\ DOMAIN exports' = DOMAIN exports \cup Keys(t, id, named)
      /\ \A k \in Keys(t, id, named) : exports'[k] = ValueFor(t, id, values, k)
      /\ \A k \in DOMAIN exports \ Keys(t, id, named) : exports'[k] = exports[k]
  BY <1>1 DEF ExportAll, Written
<1>3. ASSUME NEW j \in Target \X TemplateId \X Var
      PROVE  <<j[1], QualifiedName(j[2], j[3])>> \in Keys(t, id, named) <=> j \in written
  <2>1. PICK u \in Target, i \in TemplateId, w \in Var : j = <<u, i, w>>
    OBVIOUS
  <2>2. ASSUME <<u, QualifiedName(i, w)>> \in Keys(t, id, named)
        PROVE  u = t /\ i = id /\ w \in named
    <3>1. PICK v \in named : <<u, QualifiedName(i, w)>> = <<t, QualifiedName(id, v)>>
      BY <2>2 DEF Keys
    <3>2. u = t /\ QualifiedName(i, w) = QualifiedName(id, v)
      BY <3>1
    <3> QED
      BY <3>2 DEF NoNameClash
  <2>3. ASSUME u = t, i = id, w \in named
        PROVE  <<u, QualifiedName(i, w)>> \in Keys(t, id, named)
    BY <2>3 DEF Keys
  <2>4. j \in written <=> (u = t /\ i = id /\ w \in named)
    BY <2>1, <1>1
  <2>5. <<j[1], QualifiedName(j[2], j[3])>> = <<u, QualifiedName(i, w)>>
    BY <2>1
  <2> QED
    BY <2>2, <2>3, <2>4, <2>5
<1>4. written \subseteq Target \X TemplateId \X Var
  BY <1>1
<1>5. Triples' = Triples \cup written
  BY <1>2, <1>3, <1>4 DEF Triples, IsExported
<1>6. ASSUME NEW k \in written
      PROVE  StoreOf'[k] = values[k[3]]
  <2>1. PICK v \in named : k = <<t, id, v>>
    BY <1>6, <1>1
  <2> DEFINE key == <<t, QualifiedName(id, v)>>
             chosen == CHOOSE w \in DOMAIN values : key = <<t, QualifiedName(id, w)>>
  <2>2. key \in Keys(t, id, named)
    BY DEF Keys
  <2>3. StoreOf'[k] = exports'[key]
    BY <1>5, <2>1 DEF StoreOf
  <2>4. exports'[key] = values[chosen]
    BY <1>2, <2>2 DEF ValueFor
  <2>5. chosen \in DOMAIN values /\ key = <<t, QualifiedName(id, chosen)>>
    BY <1>1
  <2> HIDE DEF chosen
  <2>6. chosen = v
    BY <2>5, <1>1 DEF NoNameClash
  <2> QED
    BY <2>1, <2>3, <2>4, <2>6
<1>7. ASSUME NEW k \in Triples \ written
      PROVE  StoreOf'[k] = StoreOf[k]
  <2>1. <<k[1], QualifiedName(k[2], k[3])>> \in DOMAIN exports \ Keys(t, id, named)
    BY <1>3 DEF Triples, IsExported
  <2>2. StoreOf'[k] = exports'[<<k[1], QualifiedName(k[2], k[3])>>]
    BY <1>5 DEF StoreOf
  <2>3. StoreOf[k] = exports[<<k[1], QualifiedName(k[2], k[3])>>]
    BY DEF StoreOf
  <2> QED
    BY <1>2, <2>1, <2>2, <2>3
<1>8. DOMAIN StoreOf = Triples /\ DOMAIN StoreOf' = Triples'
  BY DEF StoreOf
<1>9. StoreOf' = [k \in DOMAIN StoreOf'  |-> StoreOf'[k]]
  BY DEF StoreOf
<1> QED
  BY <1>5, <1>6, <1>7, <1>8, <1>9 DEF Store!Export

\* Clearing a target removes what was stored for it and nothing else.
LEMMA StoreClearTarget ==
    ASSUME NEW t \in Target, ClearTarget(t)
    PROVE  Store!ClearTarget(t)
<1>1. /\ DOMAIN exports' = {j \in DOMAIN exports : j[1] # t}
      /\ \A k \in DOMAIN exports' : exports'[k] = exports[k]
  BY DEF ClearTarget
<1>2. Triples' = {j \in Triples : j[1] # t}
  BY <1>1 DEF Triples, IsExported
<1>3. \A k \in Triples' : exports'[<<k[1], QualifiedName(k[2], k[3])>>] = StoreOf[k]
  BY <1>1, <1>2 DEF Triples, IsExported, StoreOf
<1>4. DOMAIN StoreOf = Triples
  BY DEF StoreOf
<1> QED
  BY <1>2, <1>3, <1>4 DEF Store!ClearTarget, StoreOf

\* Unless names clash, the exports of all templates on all targets are one
\* store, in which an export changes the variables of its own template only.
THEOREM StoreTheorem == ASSUME NoNameClash PROVE StateSpec => ImplementsStore
<1>1. Init => Store!Init
  BY DEF Init, NoEntries, Store!Init, StoreOf, Triples, IsExported
<1>2. [StateNext]_state => [Store!Next]_StoreOf
  <2> SUFFICES ASSUME [StateNext]_state
               PROVE  Store!Next \/ StoreOf' = StoreOf
    OBVIOUS
  <2>1. ASSUME NEW t \in Target, NEW id \in TemplateId, NEW named \in SUBSET Var,
               NEW values \in [named -> Value], ExportAll(t, id, values)
        PROVE  Store!Next
    <3>1. Store!Export(t, id, values)
      BY <2>1, StoreExport
    <3> QED
      BY <3>1 DEF Store!Next
  <2>2. ASSUME NEW t \in Target, ClearTarget(t)
        PROVE  Store!Next
    BY <2>2, StoreClearTarget DEF Store!Next
  <2>3. CASE Clear
    <3>1. Store!Clear
      BY <2>3 DEF Clear, NoEntries, Store!Clear, StoreOf, Triples, IsExported
    <3> QED
      BY <3>1 DEF Store!Next
  <2>4. CASE UNCHANGED state
    BY <2>4 DEF state, StoreOf, Triples, IsExported
  <2> QED
    BY <2>1, <2>2, <2>3, <2>4, StateStep
<1> QED
  BY <1>1, <1>2, PTL DEF StateSpec, ImplementsStore, Store!Spec


-----------------------------------------------------------------------------

\* Every reference of s that ends by position n has no value, or stands for
\* itself.
SettledUpTo(s, n) ==
    \A open, close \in DOMAIN s :
        IsReference(s, open, close) /\ close <= n =>
            Meaning(RefAt(s, open, close)) \subseteq {SubSeq(s, open, close)}

\* The types of a call.
CallTypeOK ==
    /\ pc \in {"idle", "loop", "done"}
    /\ \A name \in DOMAIN local_vars : local_vars[name] \in Text
    /\ result \in Text
    /\ start \in 0..Len(result)
    /\ substitutions \in Nat

\* The loop has passed over whole references, all of them settled.
Progress ==
    /\ pc = "idle" => start = 0
    /\ start # 0 => result[start] = Close
    /\ SettledUpTo(result, start)

\* A call that has returned is at its limit or sees no reference any more.
Returned ==
    pc = "done" =>
        \/ substitutions >= MAX_SUBSTITUTIONS
        \/ ~\E open, close \in DOMAIN result : NextReference(result, start, open, close)

CallInv == IInv /\ CallTypeOK /\ Progress /\ Returned

-----------------------------------------------------------------------------
\* A part of a text is a text.
LEMMA PartOfText ==
    ASSUME NEW s \in Text, NEW m \in Nat \ {0}, NEW n \in Int, n <= Len(s)
    PROVE  /\ SubSeq(s, m, n) \in Text
           /\ Len(SubSeq(s, m, n)) = IF m <= n THEN n - m + 1 ELSE 0
           /\ \A i \in 1..n - m + 1 : SubSeq(s, m, n)[i] = s[m + i - 1]
<1>1. \A i \in m..n : s[i] \in Token
  BY LenProperties DEF Text
<1> QED
  BY <1>1, SubSeqProperties DEF Text

\* Texts that agree on a stretch have the same parts there.
LEMMA SamePart ==
    ASSUME NEW s \in Text, NEW u \in Text, NEW m \in Nat \ {0}, NEW n \in Int,
           n <= Len(s), n <= Len(u), \A i \in m..n : u[i] = s[i]
    PROVE  SubSeq(u, m, n) = SubSeq(s, m, n)
<1>1. /\ SubSeq(s, m, n) \in Text /\ SubSeq(u, m, n) \in Text
      /\ Len(SubSeq(s, m, n)) = Len(SubSeq(u, m, n))
      /\ Len(SubSeq(s, m, n)) = IF m <= n THEN n - m + 1 ELSE 0
  BY PartOfText
<1>2. ASSUME NEW i \in 1..Len(SubSeq(u, m, n)) PROVE SubSeq(u, m, n)[i] = SubSeq(s, m, n)[i]
  <2>1. i \in 1..n - m + 1 /\ m + i - 1 \in m..n
    BY <1>1
  <2> QED
    BY <2>1, PartOfText
<1> QED
  BY <1>1, <1>2, SeqEqual DEF Text

\* Texts that agree up to n have the same references there.
LEMMA SamePrefix ==
    ASSUME NEW s \in Text, NEW u \in Text, NEW n \in Nat, n <= Len(s), n <= Len(u),
           \A i \in 1..n : u[i] = s[i],
           NEW open \in 1..n, NEW close \in 1..n, IsReference(u, open, close)
    PROVE  /\ IsReference(s, open, close)
           /\ RefAt(u, open, close) = RefAt(s, open, close)
           /\ SubSeq(u, open, close) = SubSeq(s, open, close)
<1>1. open < close /\ Len(s) \in Nat /\ Len(u) \in Nat
  BY LenProperties DEF IsReference, Text
<1>2. IsReference(s, open, close)
  BY <1>1 DEF IsReference
<1>3. RefAt(u, open, close) = RefAt(s, open, close)
  BY <1>1, SamePart DEF RefAt
<1>4. SubSeq(u, open, close) = SubSeq(s, open, close)
  BY <1>1, SamePart
<1> QED
  BY <1>2, <1>3, <1>4

\* A name in two pieces, joined again.
LEMMA HeadTailJoin ==
    ASSUME NEW name \in Seq(STRING), Len(name) > 1
    PROVE  <<Head(name)>> \o Tail(name) = name
<1>1. name # <<>> /\ Len(name) \in Nat
  BY EmptySeq, LenProperties
<1>2. /\ Head(name) \in STRING /\ Tail(name) \in Seq(STRING)
      /\ Len(Tail(name)) = Len(name) - 1
      /\ \A i \in 1..Len(Tail(name)) : Tail(name)[i] = name[i + 1]
  BY <1>1, HeadTailProperties
<1>3. <<Head(name)>> \in Seq(STRING) /\ Len(<<Head(name)>>) = 1 /\ Head(name) = name[1]
  BY <1>1, <1>2
<1> DEFINE joined == <<Head(name)>> \o Tail(name)
<1>4. /\ joined \in Seq(STRING) /\ Len(joined) = Len(name)
      /\ \A i \in 1..Len(name) :
            joined[i] = IF i <= 1 THEN <<Head(name)>>[i] ELSE Tail(name)[i - 1]
  BY <1>1, <1>2, <1>3, ConcatProperties
<1> HIDE DEF joined
<1>5. ASSUME NEW i \in 1..Len(joined) PROVE joined[i] = name[i]
  <2>1. CASE i = 1
    BY <1>3, <1>4, <2>1
  <2>2. CASE i # 1
    <3>1. i - 1 \in 1..Len(Tail(name)) /\ ~(i <= 1) /\ i \in 1..Len(name)
      BY <1>1, <1>2, <1>4, <2>2
    <3> QED
      BY <1>2, <1>4, <3>1
  <2> QED
    BY <2>1, <2>2
<1>6. joined = name
  BY <1>4, <1>5, SeqEqual
<1> QED
  BY <1>6 DEF joined

\* Splitting a name at its first dot and joining it again finds the variable
\* that was exported under it, and no other.
LEMMA ResolveIsMeaning ==
    ASSUME StateTypeOK, NEW ref \in Text
    PROVE  Resolve(ref) = Meaning(ref)
<1>1. CASE Len(ref) # 1
  BY <1>1 DEF Resolve, Meaning
<1>2. CASE Len(ref) = 1
  <2>1. PICK name : name = ref[1]
    OBVIOUS
  <2>2. name \in Seq(STRING)
    BY <1>2, <2>1, ElementOfSeq DEF Text, Token
  <2>3. CASE name \in DOMAIN local_vars
    BY <1>2, <2>1, <2>3 DEF Resolve, Meaning
  <2>4. CASE name \notin DOMAIN local_vars /\ <<target, name>> \in DOMAIN exports
    <3>1. PICK id \in TemplateId, v \in Var : name = id \o v
      BY <2>4 DEF StateTypeOK, FullNames
    <3>2. Len(name) > 1
      BY <3>1, NameAssumption, EmptySeq, ConcatProperties
    <3>3. <<Head(name)>> \o Tail(name) = name
      BY <2>2, <3>2, HeadTailJoin
    <3>4. IsExported(target, <<Head(name)>>, Tail(name))
      BY <2>4, <3>3 DEF IsExported, QualifiedName
    <3>5. Resolve(ref) = {exports[<<target, name>>]}
      BY <1>2, <2>1, <2>4, <3>2, <3>4 DEF Resolve
    <3>6. Meaning(ref) = {exports[<<target, name>>]}
      BY <1>2, <2>1, <2>4 DEF Meaning
    <3> QED
      BY <3>5, <3>6
  <2>5. CASE name \notin DOMAIN local_vars /\ <<target, name>> \notin DOMAIN exports
    <3>1. ASSUME Len(name) > 1 PROVE ~IsExported(target, <<Head(name)>>, Tail(name))
      BY <2>2, <2>5, <3>1, HeadTailJoin DEF IsExported, QualifiedName
    <3>2. Resolve(ref) = {}
      BY <1>2, <2>1, <2>5, <3>1 DEF Resolve
    <3>3. Meaning(ref) = {}
      BY <1>2, <2>1, <2>5 DEF Meaning
    <3> QED
      BY <3>2, <3>3
  <2> QED
    BY <2>3, <2>4, <2>5
<1> QED
  BY <1>1, <1>2

-----------------------------------------------------------------------------
\* The text s with `value` put in place of the tokens from open to close.
TextWith(s, open, close, value) ==
    SubSeq(s, 1, open - 1) \o value \o SubSeq(s, close + 1, Len(s))

\* That is a text, and the same as s before `open`.
LEMMA Replaced ==
    ASSUME NEW s \in Text, NEW value \in Text,
           NEW open \in DOMAIN s, NEW close \in DOMAIN s, open < close,
           NEW u, u = TextWith(s, open, close, value)
    PROVE  /\ u \in Text
           /\ open - 1 <= Len(u)
           /\ \A i \in 1..open - 1 : u[i] = s[i]
<1> DEFINE before == SubSeq(s, 1, open - 1)
           after  == SubSeq(s, close + 1, Len(s))
<1>1. Len(s) \in Nat /\ open \in 1..Len(s) /\ close \in 1..Len(s)
  BY LenProperties DEF Text
<1>2. /\ before \in Text /\ Len(before) = open - 1
      /\ \A i \in 1..open - 1 : before[i] = s[i]
  <2>1. /\ before \in Text /\ Len(before) = IF 1 <= open - 1 THEN open - 1 - 1 + 1 ELSE 0
        /\ \A i \in 1..open - 1 - 1 + 1 : before[i] = s[1 + i - 1]
    BY <1>1, PartOfText
  <2> QED
    BY <1>1, <2>1
<1>3. after \in Text
  BY <1>1, PartOfText
<1> HIDE DEF before, after
<1>4. PICK front : front = before \o value
  OBVIOUS
<1>5. Len(value) \in Nat /\ Len(after) \in Nat
  BY <1>3, LenProperties DEF Text
<1>6. /\ front \in Text /\ Len(front) = (open - 1) + Len(value)
      /\ \A i \in 1..Len(front) : i <= open - 1 => front[i] = before[i]
  BY <1>2, <1>4, ConcatProperties DEF Text
<1>7. /\ front \o after \in Text /\ Len(front \o after) = Len(front) + Len(after)
      /\ \A i \in 1..Len(front \o after) : i <= Len(front) => (front \o after)[i] = front[i]
  BY <1>3, <1>6, ConcatProperties DEF Text
<1>8. u = front \o after
  BY <1>4 DEF before, after, TextWith
<1>9. PICK m, v, w \in Nat : m = open - 1 /\ v = Len(value) /\ w = Len(after)
  <2>1. open - 1 \in Nat
    BY <1>1
  <2> QED
    BY <2>1, <1>5, Zenon
<1>10. Len(front) = m + v /\ Len(u) = (m + v) + w
  BY <1>6, <1>7, <1>8, <1>9
<1>11. ASSUME NEW i \in 1..m PROVE u[i] = s[i]
  <2>1. i \in 1..m + v /\ i \in 1..(m + v) + w /\ i <= m + v /\ i <= m
    OBVIOUS
  <2>2. front[i] = s[i]
    BY <2>1, <1>2, <1>6, <1>9, <1>10
  <2> QED
    BY <2>1, <2>2, <1>7, <1>8, <1>10
<1>12. m <= (m + v) + w
  OBVIOUS
<1> QED
  BY <1>7, <1>8, <1>9, <1>10, <1>11, <1>12

\* What is settled up to n stays so in a text that agrees with it up to n.
LEMMA StaysSettled ==
    ASSUME NEW s \in Text, NEW u \in Text, NEW n \in Nat, n <= Len(s), n <= Len(u),
           \A i \in 1..n : u[i] = s[i], SettledUpTo(s, n)
    PROVE  SettledUpTo(u, n)
<1> SUFFICES ASSUME NEW open \in DOMAIN u, NEW close \in DOMAIN u,
                    IsReference(u, open, close), close <= n
             PROVE  Meaning(RefAt(u, open, close)) \subseteq {SubSeq(u, open, close)}
  BY DEF SettledUpTo
<1>1. open \in 1..n /\ close \in 1..n /\ Len(s) \in Nat
  BY LenProperties DEF Text, IsReference
<1>2. /\ IsReference(s, open, close)
      /\ RefAt(u, open, close) = RefAt(s, open, close)
      /\ SubSeq(u, open, close) = SubSeq(s, open, close)
  BY <1>1, SamePrefix
<1>3. open \in DOMAIN s /\ close \in DOMAIN s
  BY <1>1, LenProperties DEF Text
<1> QED
  BY <1>2, <1>3 DEF SettledUpTo

\* A reference that has no value, or stands for itself, joins what is settled.
LEMMA SkipSettles ==
    ASSUME StateTypeOK, result \in Text, start \in 0..Len(result),
           start # 0 => result[start] = Close, SettledUpTo(result, start),
           NEW open \in DOMAIN result, NEW close \in DOMAIN result,
           NextReference(result, start, open, close),
           Resolve(RefAt(result, open, close)) \subseteq {Placeholder(open, close)}
    PROVE  SettledUpTo(result, close)
<1> SUFFICES ASSUME NEW o \in DOMAIN result, NEW c \in DOMAIN result,
                    IsReference(result, o, c), c <= close
             PROVE  Meaning(RefAt(result, o, c)) \subseteq {SubSeq(result, o, c)}
  BY DEF SettledUpTo
<1>1. /\ Len(result) \in Nat /\ open \in 1..Len(result) /\ close \in 1..Len(result)
      /\ o \in 1..Len(result) /\ c \in 1..Len(result)
  BY LenProperties DEF Text
<1>2. Open # Close
  BY DEF Open, Close
<1>3. CASE c <= start
  BY <1>3 DEF SettledUpTo
<1>4. CASE c > start
  <2>1. o > start
    <3>1. o # start
      BY <1>1, <1>2 DEF IsReference
    <3>2. ~(o < start)
      BY <1>1, <1>4 DEF IsReference
    <3> QED
      BY <1>1, <3>1, <3>2
  <2>2. o >= open
    BY <1>1, <2>1 DEF NextReference, IsReference
  <2>3. o = open
    <3> SUFFICES ASSUME o > open PROVE FALSE
      BY <1>1, <2>2
    <3>1. open \in 1..o - 1 /\ result[open] = Open
      BY <1>1 DEF NextReference
    <3>2. PICK j \in open + 1..o - 1 : result[j] = Close
      BY <3>1 DEF IsReference
    <3>3. j \in open + 1..close - 1
      BY <1>1, <3>2 DEF IsReference
    <3> QED
      BY <3>2, <3>3 DEF NextReference
  <2>4. c = close
    BY <1>1, <2>3 DEF IsReference, NextReference
  <2>5. RefAt(result, o, c) \in Text
    <3>1. o + 1 \in Nat \ {0} /\ c - 1 \in Int /\ c - 1 <= Len(result)
      BY <1>1
    <3> QED
      BY <3>1, PartOfText DEF RefAt
  <2> QED
    BY <2>3, <2>4, <2>5, ResolveIsMeaning DEF Placeholder
<1> QED
  BY <1>1, <1>3, <1>4

\* Beyond the end of what is settled, a reference is seen by the loop.
LEMMA ReferenceIsSeen ==
    ASSUME NEW s \in Text, NEW n \in 0..Len(s), n # 0 => s[n] = Close,
           NEW open \in DOMAIN s, NEW close \in DOMAIN s,
           IsReference(s, open, close), close > n
    PROVE  \E o, c \in DOMAIN s : NextReference(s, n, o, c)
<1>1. Len(s) \in Nat /\ DOMAIN s = 1..Len(s) /\ open \in 1..Len(s) /\ close \in 1..Len(s)
  BY LenProperties DEF Text
<1>2. open > n
  <2>1. Open # Close
    BY DEF Open, Close
  <2>2. open # n /\ ~(open < n)
    BY <1>1, <2>1 DEF IsReference
  <2> QED
    BY <1>1, <2>2
<1> DEFINE Opens == {i \in n + 1..open : s[i] = Open}
<1>3. PICK o \in Opens : \A i \in Opens : o <= i
  <2>1. Opens \in SUBSET Nat /\ open \in Opens
    BY <1>1, <1>2 DEF IsReference
  <2> QED
    BY <2>1, LeastNat
<1>4. o \in n + 1..open /\ s[o] = Open /\ \A i \in n + 1..o - 1 : s[i] # Open
  BY <1>1, <1>3
<1> DEFINE Closes == {i \in o + 1..close : s[i] = Close}
<1>5. PICK c \in Closes : \A i \in Closes : c <= i
  <2>1. Closes \in SUBSET Nat /\ close \in Closes
    BY <1>1, <1>4 DEF IsReference
  <2> QED
    BY <2>1, LeastNat
<1>6. c \in o + 1..close /\ s[c] = Close /\ \A i \in o + 1..c - 1 : s[i] # Close
  BY <1>1, <1>4, <1>5
<1> QED
  BY <1>1, <1>4, <1>6 DEF NextReference

-----------------------------------------------------------------------------
\* Before the first call nothing has been passed over.
LEMMA CallInvInit == CallInit => CallInv
<1> SUFFICES ASSUME CallInit PROVE CallInv
  OBVIOUS
<1>1. pc = "idle" /\ result = <<>> /\ start = 0 /\ substitutions = 0 /\ DOMAIN local_vars = {}
  BY DEF CallInit, NoEntries
<1>2. IInv
  BY StateInit DEF CallInit
<1>3. result \in Text /\ Len(result) = 0
  BY <1>1, EmptySeq DEF Text
<1>4. DOMAIN result = {}
  BY <1>1
<1> QED
  BY <1>1, <1>2, <1>3, <1>4 DEF CallInv, CallTypeOK, Progress, SettledUpTo, Returned

\* Up to position 0 there is nothing to settle, whatever the variables are.
LEMMA NothingPassed ==
    ASSUME NEW s \in Text PROVE SettledUpTo(s, 0) /\ SettledUpTo(s, 0)'
<1>1. \A n \in DOMAIN s : ~(n <= 0)
  BY LenProperties DEF Text
<1> QED
  BY <1>1 DEF SettledUpTo

\* Exporting and clearing happen between calls, when nothing is settled yet.
LEMMA IdleKeeps ==
    ASSUME CallInv, pc = "idle", StateNext, UNCHANGED call
    PROVE  CallInv'
<1>1. IInv'
  BY StatePreserves DEF CallInv
<1>2. /\ pc' = "idle" /\ start' = 0 /\ result' = result /\ result \in Text
      /\ local_vars' = local_vars /\ substitutions' = substitutions
  BY DEF CallInv, Progress, CallTypeOK, call
<1>3. CallTypeOK'
  BY <1>2 DEF CallInv, CallTypeOK, Progress
<1>4. SettledUpTo(result, start)'
  <2>1. PICK s \in Text : s = result'
    BY <1>2
  <2>2. SettledUpTo(s, 0)'
    BY NothingPassed
  <2> QED
    BY <1>2, <2>1, <2>2 DEF SettledUpTo
<1>5. Progress' /\ Returned'
  BY <1>2, <1>4 DEF Progress, Returned
<1> QED
  BY <1>1, <1>3, <1>5 DEF CallInv

\* A call that starts, or is forgotten, has passed over nothing.
LEMMA EntryKeeps ==
    ASSUME CallInv, UNCHANGED state, result' \in Text, start' = 0, substitutions' = 0,
           pc' \in {"idle", "loop"},
           \A name \in DOMAIN local_vars' : local_vars'[name] \in Text
    PROVE  CallInv'
<1>1. IInv'
  BY StatePreserves DEF CallInv
<1>2. CallTypeOK'
  BY LenProperties DEF CallTypeOK, Text
<1>3. SettledUpTo(result, start)'
  <2>1. PICK s \in Text : s = result'
    OBVIOUS
  <2>2. SettledUpTo(s, 0)'
    BY NothingPassed
  <2> QED
    BY <2>1, <2>2 DEF SettledUpTo
<1>4. Progress' /\ Returned'
  BY <1>3 DEF Progress, Returned
<1> QED
  BY <1>1, <1>2, <1>4 DEF CallInv

\* A replacement begins after what is settled, and leaves it settled.
LEMMA ReplaceKeeps ==
    ASSUME CallInv, Replace
    PROVE  CallInv'
<1>1. /\ UNCHANGED <<pc, target, local_vars, input, start, state>> /\ pc = "loop"
      /\ substitutions' = substitutions + 1
  BY DEF Replace
<1>2. IInv' /\ StateTypeOK
  BY <1>1, StatePreserves DEF CallInv, IInv
<1>3. PICK s, u : s = result /\ u = result'
  OBVIOUS
<1>4. s \in Text /\ start \in 0..Len(s) /\ Len(s) \in Nat /\ DOMAIN s = 1..Len(s)
  BY <1>3, LenProperties DEF CallInv, CallTypeOK, Text
<1>5. PICK open, close \in DOMAIN s :
        /\ NextReference(s, start, open, close)
        /\ \E value \in Resolve(RefAt(s, open, close)) : u = TextWith(s, open, close, value)
  BY <1>3 DEF Replace, TextWith
<1>6. PICK value \in Resolve(RefAt(s, open, close)) : u = TextWith(s, open, close, value)
  BY <1>5
<1>7. start \in Nat /\ open \in start + 1..Len(s) /\ close \in open + 1..Len(s)
  BY <1>4, <1>5 DEF NextReference
<1>8. open < close /\ start <= open - 1 /\ open \in 1..Len(s)
  BY <1>4, <1>7
<1>9. value \in Text
  <2>1. RefAt(s, open, close) \in Text
    <3>1. open + 1 \in Nat \ {0} /\ close - 1 \in Int /\ close - 1 <= Len(s)
      BY <1>4, <1>7
    <3> QED
      BY <3>1, <1>4, PartOfText DEF RefAt
  <2>2. value \in Meaning(RefAt(s, open, close))
    BY <1>2, <1>6, <2>1, ResolveIsMeaning
  <2>3. \/ \E name \in DOMAIN local_vars : value = local_vars[name]
        \/ \E k \in DOMAIN exports : value = exports[k]
    BY <2>2 DEF Meaning
  <2> QED
    BY <1>2, <2>3, TextAssumption DEF StateTypeOK, CallInv, CallTypeOK
<1>10. u \in Text /\ open - 1 <= Len(u) /\ \A i \in 1..open - 1 : u[i] = s[i]
  <2>1. s \in Text /\ open \in DOMAIN s /\ close \in DOMAIN s /\ open < close
    BY <1>4, <1>8
  <2> QED
    BY <2>1, <1>6, <1>9, Replaced
<1>11. /\ start \in 0..Len(u) /\ start <= Len(s)
       /\ \A i \in 1..start : u[i] = s[i]
  BY <1>4, <1>8, <1>10, LenProperties DEF Text
<1>12. SettledUpTo(u, start)
  BY <1>3, <1>4, <1>10, <1>11, StaysSettled DEF CallInv, Progress
<1>13. CallTypeOK'
  BY <1>1, <1>3, <1>10, <1>11 DEF CallInv, CallTypeOK
<1>14. SettledUpTo(result, start)'
  BY <1>1, <1>3, <1>12 DEF SettledUpTo, Meaning, state
<1>15. Progress' /\ Returned'
  BY <1>1, <1>3, <1>4, <1>11, <1>14 DEF CallInv, Progress, Returned
<1> QED
  BY <1>2, <1>13, <1>15 DEF CallInv

\* A reference that is passed over is settled.
LEMMA SkipKeeps ==
    ASSUME CallInv, Skip
    PROVE  CallInv'
<1>1. /\ UNCHANGED <<pc, target, local_vars, input, result, substitutions, state>>
      /\ pc = "loop"
  BY DEF Skip
<1>2. IInv' /\ StateTypeOK
  BY <1>1, StatePreserves DEF CallInv, IInv
<1>3. PICK open, close \in DOMAIN result :
        /\ NextReference(result, start, open, close)
        /\ Resolve(RefAt(result, open, close)) \subseteq {Placeholder(open, close)}
        /\ start' = close
  BY DEF Skip
<1>4. result \in Text /\ Len(result) \in Nat /\ close \in 1..Len(result)
  BY LenProperties DEF CallInv, CallTypeOK, Text
<1>5. SettledUpTo(result, close)
  BY <1>2, <1>3, SkipSettles DEF CallInv, CallTypeOK, Progress
<1>6. SettledUpTo(result, start)'
  BY <1>1, <1>3, <1>5 DEF SettledUpTo, Meaning, state
<1>7. result[close] = Close
  BY <1>3 DEF NextReference
<1>8. CallTypeOK'
  BY <1>1, <1>3, <1>4 DEF CallInv, CallTypeOK
<1>9. Progress' /\ Returned'
  BY <1>1, <1>3, <1>6, <1>7 DEF Progress, Returned
<1> QED
  BY <1>2, <1>8, <1>9 DEF CallInv

\* A call that returns is at its limit, or sees no reference.
LEMMA ReturnKeeps ==
    ASSUME CallInv, Return
    PROVE  CallInv'
<1>1. /\ UNCHANGED <<target, local_vars, input, result, start, substitutions, state>>
      /\ pc' = "done"
  BY DEF Return
<1>2. IInv'
  BY <1>1, StatePreserves DEF CallInv
<1>3. CallTypeOK'
  BY <1>1 DEF CallInv, CallTypeOK
<1>4. SettledUpTo(result, start)'
  BY <1>1 DEF CallInv, Progress, SettledUpTo, Meaning, state
<1>5. Progress'
  BY <1>1, <1>4 DEF CallInv, Progress
<1>6. Returned'
  BY <1>1 DEF Return, Returned
<1> QED
  BY <1>2, <1>3, <1>5, <1>6 DEF CallInv

\* So no step of a caller or of the loop breaks the invariant.
LEMMA CallStep ==
    ASSUME CallInv, [Next]_vars
    PROVE  CallInv'
<1>1. CASE pc = "idle" /\ StateNext /\ UNCHANGED call
  BY <1>1, IdleKeeps
<1>2. CASE Forget
  <2>1. result' \in Text /\ DOMAIN local_vars' = {}
    BY <1>2, EmptySeq DEF Forget, NoEntries, Text
  <2> QED
    BY <1>2, <2>1, EntryKeeps DEF Forget
<1>3. ASSUME NEW t \in Target, NEW locals \in Locals, NEW text \in Inputs,
             Substitute(t, locals, text)
      PROVE  CallInv'
  BY <1>3, TextAssumption, EntryKeeps DEF Substitute
<1>4. CASE Loop
  BY <1>4, ReplaceKeeps, SkipKeeps, ReturnKeeps DEF Loop
<1>5. CASE UNCHANGED vars
  <2>1. UNCHANGED state /\ UNCHANGED call
    BY <1>5 DEF vars
  <2>2. IInv'
    BY <2>1, StatePreserves DEF CallInv
  <2>3. CallTypeOK' /\ Returned'
    BY <2>1 DEF CallInv, CallTypeOK, Returned, call
  <2>4. SettledUpTo(result, start)'
    BY <2>1 DEF CallInv, Progress, SettledUpTo, Meaning, state, call
  <2>5. Progress'
    BY <2>1, <2>4 DEF CallInv, Progress, call
  <2> QED
    BY <2>2, <2>3, <2>5 DEF CallInv
<1> QED
  BY <1>1, <1>2, <1>3, <1>4, <1>5 DEF Next

\* What a returned call has not settled, it would have seen.
LEMMA ReturnedIsSettled == CallInv => NothingLeft
<1> SUFFICES ASSUME CallInv, pc = "done", substitutions < MAX_SUBSTITUTIONS,
                    NEW r \in References(result)
             PROVE  MeaningOf(result, r) \subseteq {SubSeq(result, r[1], r[2])}
  BY DEF NothingLeft
<1>1. PICK open, close \in DOMAIN result : r = <<open, close>>
  BY DEF References
<1>2. IsReference(result, open, close)
  BY <1>1 DEF References
<1>3. ~\E o, c \in DOMAIN result : NextReference(result, start, o, c)
  BY MaxSubstitutionsAssumption DEF CallInv, CallTypeOK, Returned
<1>4. result \in Text /\ start \in 0..Len(result) /\ Len(result) \in Nat
      /\ close \in 1..Len(result)
  BY LenProperties DEF CallInv, CallTypeOK, Text
<1>5. close <= start
  <2> SUFFICES ASSUME close > start PROVE FALSE
    BY <1>4
  <2> QED
    BY <1>2, <1>3, <1>4, ReferenceIsSeen DEF CallInv, Progress
<1>6. Meaning(RefAt(result, open, close)) \subseteq {SubSeq(result, open, close)}
  BY <1>2, <1>5 DEF CallInv, Progress, SettledUpTo
<1> QED
  BY <1>1, <1>6 DEF MeaningOf

\* The inductive invariant of the loop, at any limit and for any values.
THEOREM CallInvariant == Spec => []CallInv
<1>1. CallInv /\ [Next]_vars => CallInv'
  BY CallStep
<1> QED
  BY <1>1, CallInvInit, PTL DEF Spec

\* Below its limit, substitution leaves no reference with a value behind except
\* those that stand for themselves, be the values cyclic or full of braces.
THEOREM NothingIsLeft == Spec => []NothingLeft
BY CallInvariant, ReturnedIsSettled, PTL

\* Every round of a call ends it, uses up one of the substitutions, or passes
\* over more of a text that stays as it is.
Advances ==
    pc = "loop" =>
        \/ pc' = "done"
        \/ /\ pc' = "loop"
           /\ substitutions' = substitutions + 1 /\ substitutions' <= MAX_SUBSTITUTIONS
        \/ /\ pc' = "loop"
           /\ UNCHANGED <<substitutions, result>>
           /\ start' > start /\ start' <= Len(result)

\* Why a substitution ends, whatever values refer to one another: there are at
\* most MAX_SUBSTITUTIONS rounds that replace, and between two of them at most as
\* many rounds as the text is long (the while loop of
\* substitute_variables_with_imports).
THEOREM EveryRoundAdvances == Spec => [][Advances]_vars
<1>1. CallInv /\ Next => Advances
  <2> SUFFICES ASSUME CallInv, Next, pc = "loop" PROVE Advances
    BY DEF Advances
  <2>1. CASE Replace
    BY <2>1, MaxSubstitutionsAssumption DEF Replace, Advances, CallInv, CallTypeOK
  <2>2. CASE Skip
    <3>1. PICK open \in DOMAIN result, close \in DOMAIN result :
             NextReference(result, start, open, close) /\ start' = close
      BY <2>2 DEF Skip
    <3>2. /\ start \in Nat /\ Len(result) \in Nat
          /\ open \in start + 1..Len(result) /\ close \in open + 1..Len(result)
      BY <3>1, LenProperties DEF NextReference, CallInv, CallTypeOK, Text
    <3>3. close > start /\ close <= Len(result)
      BY <3>2
    <3> QED
      BY <2>2, <3>1, <3>3 DEF Skip, Advances
  <2>3. CASE Return
    BY <2>3 DEF Return, Advances
  <2> QED
    BY <2>1, <2>2, <2>3 DEF Next, Loop, Forget, Substitute
<1> QED
  BY <1>1, CallInvariant, PTL DEF Spec

\* A substitution borrows the exports and gives them back unchanged, so that
\* callers who also substitute see what callers who only export and clear see.
THEOREM CallsKeepTheState == Spec => StateSpec
<1>1. CallInit => Init
  BY DEF CallInit
<1>2. [Next]_vars => [StateNext]_state
  <2> SUFFICES ASSUME [Next]_vars PROVE StateNext \/ UNCHANGED state
    BY DEF state
  <2>1. CASE Next
    BY <2>1 DEF Next, Forget, Substitute, Loop, Replace, Skip, Return
  <2>2. CASE UNCHANGED vars
    BY <2>2 DEF vars
  <2> QED
    BY <2>1, <2>2
<1> QED
  BY <1>1, <1>2, PTL DEF Spec, StateSpec

\* In particular the two maps stay well formed and tell the same story.
THEOREM MapsAgreeAcrossCalls == Spec => [](StateTypeOK /\ CacheMatchesExports)
BY CallsKeepTheState, StateTypeCorrectness, CacheTheorem, PTL

\* And unless names clash, every template has its own variables on every target.
THEOREM OneStoreAcrossCalls == ASSUME NoNameClash PROVE Spec => ImplementsStore
BY CallsKeepTheState, StoreTheorem

-----------------------------------------------------------------------------
\* The expanded text up to position n of the input.
Front(n) == ExpandedUpTo(input)[n]

\* How much further on the rest of the input stands behind that.
Shift(n) == Len(Front(n)) - n

\* The loop is between two references of the input: up to n everything is as in
\* the expanded text, from n on as in the input.  No further replacement reads
\* what was inserted.
ReplacedUpTo(n) ==
    /\ n # 0 => input[n] = Close
    /\ result = Front(n) \o SubSeq(input, n + 1, Len(input))
    /\ start <= Len(Front(n))
    /\ \A i \in start + 1..Len(Front(n)) : result[i] # Open
    /\ substitutions <= Cardinality({r \in References(input) : r[2] <= n})

PlainInv ==
    /\ input \in Text
    /\ pc = "loop" /\ Plain =>
          \/ result = input /\ start = 0 /\ substitutions = 0
          \/ \E n \in 0..Len(input) : ReplacedUpTo(n)
    /\ PlainIsSimultaneous

-----------------------------------------------------------------------------
\* A reference has at most one value, and that is a text.
LEMMA MeaningIsText ==
    ASSUME StateTypeOK, CallTypeOK, NEW ref
    PROVE  /\ Meaning(ref) \subseteq Text
           /\ \A v, w \in Meaning(ref) : v = w
  BY TextAssumption DEF StateTypeOK, CallTypeOK, Meaning

\* What stands outside the references that have a value stands for itself.
LEMMA PieceOutside ==
    ASSUME NEW s, NEW i,
           \A r \in References(s) : r[1] <= i /\ i <= r[2] => MeaningOf(s, r) = {}
    PROVE  Piece(s, i) = <<s[i]>>
<1>1. {r \in References(s) : r[1] <= i /\ i <= r[2] /\ MeaningOf(s, r) # {}} = {}
  OBVIOUS
<1> QED
  BY <1>1 DEF Piece

\* A reference with a value is replaced where it opens.
LEMMA PieceInside ==
    ASSUME NEW s, NEW i, NEW r \in References(s), NEW value,
           MeaningOf(s, r) = {value}, r[1] <= i, i <= r[2],
           \A q \in References(s) : q[1] <= i /\ i <= q[2] => q = r
    PROVE  Piece(s, i) = IF i = r[1] THEN value ELSE <<>>
<1>1. {q \in References(s) : q[1] <= i /\ i <= q[2] /\ MeaningOf(s, q) # {}} = {r}
  OBVIOUS
<1>2. (CHOOSE q \in {r} : TRUE) = r
  OBVIOUS
<1>3. (CHOOSE v \in {value} : TRUE) = value
  OBVIOUS
<1> QED
  BY <1>1, <1>2, <1>3 DEF Piece

\* The expanded text is made of these pieces.
LEMMA ExpandedIsJoined ==
    ASSUME StateTypeOK, CallTypeOK, NEW s \in Text
    PROVE  \E p : /\ \A i \in 1..Len(s) : p[i] = Piece(s, i) /\ p[i] \in Text
                  /\ AreJoined(ExpandedUpTo(s), p, Len(s))
<1> DEFINE p == [i \in 1..Len(s) |-> Piece(s, i)]
<1>1. Len(s) \in Nat /\ \A i \in 1..Len(s) : s[i] \in Token
  BY LenProperties, ElementOfSeq DEF Text
<1>2. ASSUME NEW i \in 1..Len(s) PROVE Piece(s, i) \in Text
  <2> DEFINE around == {r \in References(s) : r[1] <= i /\ i <= r[2] /\ MeaningOf(s, r) # {}}
  <2>1. CASE around = {}
    <3>1. Piece(s, i) = <<s[i]>>
      BY <2>1, PieceOutside
    <3>2. <<s[i]>> \in Seq(Token)
      BY <1>1
    <3> QED
      BY <3>1, <3>2 DEF Text
  <2>2. CASE around # {}
    <3>1. PICK r : r = (CHOOSE q \in around : TRUE) /\ r \in around
      BY <2>2
    <3>2. MeaningOf(s, r) \subseteq Text /\ MeaningOf(s, r) # {}
      BY <3>1, MeaningIsText DEF MeaningOf
    <3>3. (CHOOSE value \in MeaningOf(s, r) : TRUE) \in Text
      BY <3>2
    <3>4. Piece(s, i) = IF i = r[1] THEN CHOOSE value \in MeaningOf(s, r) : TRUE ELSE <<>>
      BY <2>2, <3>1 DEF Piece
    <3> QED
      BY <3>3, <3>4, EmptySeq DEF Text
  <2> QED
    BY <2>1, <2>2
<1>3. \A i \in 1..Len(s) : p[i] = Piece(s, i)
  OBVIOUS
<1> HIDE DEF p
<1>4. PICK f : AreJoined(f, p, Len(s))
  BY <1>1, JoinsExist
<1> DEFINE Rec(g) == g = [n \in 0..Len(s) |-> IF n = 0 THEN <<>> ELSE g[n - 1] \o Piece(s, n)]
<1>5. ASSUME NEW g PROVE Rec(g) <=> AreJoined(g, p, Len(s))
  <2>1. \A n \in 0..Len(s) : n # 0 => n \in 1..Len(s)
    BY <1>1
  <2>2. \A n \in 0..Len(s) : (IF n = 0 THEN <<>> ELSE g[n - 1] \o Piece(s, n))
                             = IF n = 0 THEN <<>> ELSE g[n - 1] \o p[n]
    BY <1>3, <2>1
  <2> QED
    BY <2>2 DEF AreJoined
<1>6. ExpandedUpTo(s) = CHOOSE g : Rec(g)
  BY DEF ExpandedUpTo
<1> HIDE DEF Rec
<1>7. Rec(ExpandedUpTo(s))
  BY <1>4, <1>5, <1>6
<1> QED
  BY <1>2, <1>3, <1>5, <1>7

\* The next reference after a closing one is a reference, and of those that end
\* later the first.
LEMMA NextIsReference ==
    ASSUME NEW s \in Text, NEW n \in 0..Len(s), n # 0 => s[n] = Close,
           NEW open, NEW close, NextReference(s, n, open, close)
    PROVE  /\ <<open, close>> \in References(s)
           /\ \A r \in References(s) : r[2] > n /\ r[1] <= close => r = <<open, close>>
<1>1. /\ Len(s) \in Nat /\ DOMAIN s = 1..Len(s)
      /\ open \in n + 1..Len(s) /\ close \in open + 1..Len(s)
  BY LenProperties DEF Text, NextReference
<1>2. Open # Close
  BY DEF Open, Close
<1>3. IsReference(s, open, close)
  <2>1. ASSUME NEW i \in 1..open - 1, s[i] = Open
        PROVE  \E j \in i + 1..open - 1 : s[j] = Close
    <3>1. i <= n
      BY <1>1, <2>1 DEF NextReference
    <3>2. n \in i + 1..open - 1 /\ s[n] = Close
      BY <1>1, <1>2, <2>1, <3>1
    <3> QED
      BY <3>2
  <2> QED
    BY <1>1, <2>1 DEF IsReference, NextReference
<1>4. <<open, close>> \in References(s)
  BY <1>1, <1>3 DEF References
<1>5. ASSUME NEW o \in DOMAIN s, NEW c \in DOMAIN s, IsReference(s, o, c), c > n, o <= close
      PROVE  o = open /\ c = close
  <2>1. o \in 1..Len(s) /\ c \in o + 1..Len(s)
    BY <1>1, <1>5 DEF IsReference
  <2>2. o > n
    <3>1. o # n /\ ~(o < n)
      BY <1>1, <1>2, <1>5, <2>1 DEF IsReference
    <3> QED
      BY <2>1, <3>1
  <2>3. o >= open
    BY <1>1, <1>5, <2>1, <2>2 DEF NextReference, IsReference
  <2>4. o = open
    <3> SUFFICES ASSUME o > open PROVE FALSE
      BY <1>1, <2>1, <2>3
    <3>1. open \in 1..o - 1 /\ s[open] = Open
      BY <1>1, <2>1 DEF NextReference
    <3>2. PICK j \in open + 1..o - 1 : s[j] = Close
      BY <1>5, <3>1 DEF IsReference
    <3>3. j \in open + 1..close - 1
      BY <1>1, <1>5, <2>1, <3>2
    <3> QED
      BY <3>2, <3>3 DEF NextReference
  <2> QED
    BY <1>1, <1>5, <2>1, <2>4 DEF IsReference, NextReference
<1>6. ASSUME NEW r \in References(s), r[2] > n, r[1] <= close PROVE r = <<open, close>>
  <2>1. PICK o, c \in DOMAIN s : r = <<o, c>>
    BY DEF References
  <2>2. IsReference(s, o, c)
    BY <2>1 DEF References
  <2> QED
    BY <1>5, <1>6, <2>1, <2>2
<1> QED
  BY <1>4, <1>6

\* In a text that continues as s does after n, and opens nothing before that, the
\* next reference is that of s.
LEMMA ShiftedReference ==
    ASSUME NEW s, NEW r, Len(s) \in Nat, NEW n \in 0..Len(s), NEW d \in Int,
           n + d \in Nat, Len(r) = Len(s) + d, NEW st \in 0..n + d,
           \A j \in n + 1..Len(s) : r[j + d] = s[j],
           \A i \in st + 1..n + d : r[i] # Open,
           NEW o \in Int, NEW c \in Int
    PROVE  NextReference(r, st, o + d, c + d) <=> NextReference(s, n, o, c)
<1> PICK N \in Nat : N = Len(s) /\ N + d = Len(r)
  OBVIOUS
<1>1. \A i \in n + d + 1..N + d : r[i] = s[i - d]
  <2> SUFFICES ASSUME NEW i \in n + d + 1..N + d PROVE r[i] = s[i - d]
    OBVIOUS
  <2>1. i - d \in n + 1..N /\ (i - d) + d = i
    OBVIOUS
  <2> QED
    BY <2>1
<1>2. ASSUME NextReference(r, st, o + d, c + d)
      PROVE  NextReference(s, n, o, c)
  <2>1. /\ o + d \in st + 1..N + d /\ r[o + d] = Open
        /\ c + d \in (o + d) + 1..N + d /\ r[c + d] = Close
        /\ \A i \in st + 1..(o + d) - 1 : r[i] # Open
        /\ \A i \in (o + d) + 1..(c + d) - 1 : r[i] # Close
    BY <1>2 DEF NextReference
  <2>2. o + d > n + d
    <3>1. o + d \notin st + 1..n + d /\ o + d \in st + 1..N + d
      BY <2>1
    <3> QED
      BY <3>1
  <2>3. o \in n + 1..N /\ c \in o + 1..N /\ c \in n + 1..N
    BY <2>1, <2>2
  <2>4. s[o] = Open /\ s[c] = Close
    BY <2>1, <2>3
  <2>5. ASSUME NEW i \in n + 1..o - 1 PROVE s[i] # Open
    <3>1. i + d \in st + 1..(o + d) - 1 /\ i \in n + 1..N
      BY <2>3
    <3> QED
      BY <2>1, <3>1
  <2>6. ASSUME NEW i \in o + 1..c - 1 PROVE s[i] # Close
    <3>1. i + d \in (o + d) + 1..(c + d) - 1 /\ i \in n + 1..N
      BY <2>3
    <3> QED
      BY <2>1, <3>1
  <2> QED
    BY <2>3, <2>4, <2>5, <2>6 DEF NextReference
<1>3. ASSUME NextReference(s, n, o, c)
      PROVE  NextReference(r, st, o + d, c + d)
  <2>1. /\ o \in n + 1..N /\ s[o] = Open
        /\ c \in o + 1..N /\ s[c] = Close
        /\ \A i \in n + 1..o - 1 : s[i] # Open
        /\ \A i \in o + 1..c - 1 : s[i] # Close
    BY <1>3 DEF NextReference
  <2>2. o + d \in st + 1..N + d /\ c + d \in (o + d) + 1..N + d /\ c \in n + 1..N
    <3>1. o \in n + 1..N /\ c \in o + 1..N
      BY <2>1
    <3> QED
      BY <3>1
  <2>3. r[o + d] = Open /\ r[c + d] = Close
    BY <2>1, <2>2
  <2>4. ASSUME NEW i \in st + 1..(o + d) - 1 PROVE r[i] # Open
    <3>1. CASE i \in st + 1..n + d
      BY <3>1
    <3>2. CASE i \notin st + 1..n + d
      <4>1. o \in n + 1..N
        BY <2>1
      <4>2. i - d \in n + 1..o - 1 /\ i \in n + d + 1..N + d
        BY <3>2, <4>1
      <4> QED
        BY <1>1, <2>1, <4>2
    <3> QED
      BY <3>1, <3>2
  <2>5. ASSUME NEW i \in (o + d) + 1..(c + d) - 1 PROVE r[i] # Close
    <3>1. o \in n + 1..N /\ c \in o + 1..N
      BY <2>1
    <3>2. i - d \in o + 1..c - 1 /\ i \in n + d + 1..N + d
      BY <3>1
    <3> QED
      BY <1>1, <2>1, <3>2
  <2> QED
    BY <2>2, <2>3, <2>4, <2>5 DEF NextReference
<1> QED
  BY <1>2, <1>3

\* Between two references the loop sees in the text what it would see in the
\* input, shifted.
LEMMA Between ==
    ASSUME StateTypeOK, CallTypeOK, input \in Text, NEW n \in 0..Len(input), ReplacedUpTo(n)
    PROVE  /\ Front(n) \in Text /\ Shift(n) \in Int
           /\ n + Shift(n) = Len(Front(n)) /\ n + Shift(n) \in Nat
           /\ Len(result) = Len(input) + Shift(n)
           /\ \A j \in n + 1..Len(input) : result[j + Shift(n)] = input[j]
           /\ start \in 0..n + Shift(n)
           /\ \A o, c \in Int :
                 NextReference(result, start, o + Shift(n), c + Shift(n))
                    <=> NextReference(input, n, o, c)
<1>1. PICK s, res, front, d : s = input /\ res = result /\ front = Front(n) /\ d = Shift(n)
  OBVIOUS
<1>2. s \in Text /\ Len(s) \in Nat /\ n \in 0..Len(s) /\ start \in Nat
  BY <1>1, LenProperties DEF Text, CallTypeOK
<1>3. front \in Text
  <2>1. PICK p : /\ \A i \in 1..Len(s) : p[i] \in Text
                 /\ AreJoined(ExpandedUpTo(s), p, Len(s))
    BY <1>2, ExpandedIsJoined
  <2>2. \A k \in 0..Len(s) : ExpandedUpTo(s)[k] \in Seq(Token)
    BY <1>2, <2>1, JoinsAreSequences DEF Text
  <2> QED
    BY <1>1, <1>2, <2>2 DEF Text, Front
<1>4. d \in Int /\ n + d = Len(front) /\ n + d \in Nat
  BY <1>1, <1>2, <1>3, LenProperties DEF Text, Shift
<1>5. PICK st, f, m, k, e :
        st = start /\ f = front /\ m = n /\ k = Len(s) /\ e = d
  OBVIOUS
<1>6. /\ f \in Seq(Token) /\ s \in Seq(Token) /\ m \in 0..Len(s) /\ k \in m..Len(s)
      /\ k = Len(s) /\ res = f \o SubSeq(s, m + 1, k)
  BY <1>1, <1>2, <1>3, <1>5 DEF ReplacedUpTo, Text
<1>7. GoesOnLike(res, f, s, m, k)
  <2>1. GoesOnLike(f \o SubSeq(s, m + 1, k), f, s, m, k)
    BY ONLY <1>6, RestIsShifted
  <2> QED
    BY ONLY <1>6, <2>1
<1>8. e \in Int /\ m + e = Len(f) /\ e = Len(f) - m /\ m + e \in Nat /\ k \in Nat
  BY <1>1, <1>2, <1>4, <1>5 DEF Shift
<1>9. Len(res) = k + e /\ \A j \in m + 1..k : res[j + e] = s[j]
  BY ONLY <1>6, <1>7, <1>8 DEF GoesOnLike
<1>10. st \in 0..m + e /\ \A i \in st + 1..m + e : res[i] # Open
  <2>1. st \in Nat /\ st <= Len(f) /\ \A i \in st + 1..Len(f) : res[i] # Open
    BY <1>1, <1>2, <1>5 DEF ReplacedUpTo
  <2> QED
    BY ONLY <1>8, <2>1
<1>11. ASSUME NEW o \in Int, NEW c \in Int
       PROVE  NextReference(res, st, o + e, c + e) <=> NextReference(s, m, o, c)
  <2>1. /\ Len(s) \in Nat /\ m \in 0..Len(s) /\ e \in Int /\ m + e \in Nat
        /\ Len(res) = Len(s) + e /\ st \in 0..m + e
        /\ \A j \in m + 1..Len(s) : res[j + e] = s[j]
        /\ \A i \in st + 1..m + e : res[i] # Open
    BY ONLY <1>6, <1>8, <1>9, <1>10
  <2>2. o \in Int /\ c \in Int
    OBVIOUS
  <2> QED
    BY ONLY <2>1, <2>2, ShiftedReference
<1> QED
  BY <1>1, <1>3, <1>4, <1>5, <1>9, <1>10, <1>11

\* There it also reads what it would read in the input.
LEMMA SameReference ==
    ASSUME NEW s \in Text, NEW r \in Text, NEW n \in 0..Len(s), NEW d \in Int, n + d \in Nat,
           Len(r) = Len(s) + d, \A j \in n + 1..Len(s) : r[j + d] = s[j],
           NEW o \in n + 1..Len(s), NEW c \in o + 1..Len(s)
    PROVE  RefAt(r, o + d, c + d) = RefAt(s, o, c) /\ RefAt(s, o, c) \in Text
<1>1. Len(s) \in Nat /\ \A i \in 1..Len(s) : s[i] \in Token
  BY LenProperties, ElementOfSeq DEF Text
<1>2. PICK a \in Nat, b \in Int : a = o + 1 /\ b = c - 1
  BY <1>1
<1>3. a \in n + 1..Len(s) + 1 /\ b <= Len(s) /\ (o + d) + 1 = a + d /\ (c + d) - 1 = b + d
  BY <1>1, <1>2
<1>4. /\ \A j \in a..b : s[j] \in Token
      /\ \A j \in a..b : r[j + d] = s[j]
  <2>1. \A j \in a..b : j \in 1..Len(s) /\ j \in n + 1..Len(s)
    BY <1>1, <1>3
  <2> QED
    BY <1>1, <2>1
<1>5. SubSeq(r, a + d, b + d) = SubSeq(s, a, b)
  <2>1. s \in Seq(Token) /\ r \in Seq(Token)
    BY DEF Text
  <2> QED
    BY <1>4, <2>1, ShiftedPart
<1>6. SubSeq(s, a, b) \in Text
  BY <1>4, SubSeqProperties DEF Text
<1> QED
  BY <1>2, <1>3, <1>5, <1>6 DEF RefAt

\* During a call neither the expanded text nor what is plain changes.
LEMMA ExpansionIsFixed ==
    ASSUME UNCHANGED <<target, local_vars, input, exports>>
    PROVE  /\ ExpandedUpTo(input)' = ExpandedUpTo(input)
           /\ Plain' <=> Plain
           /\ Expanded(input)' = Expanded(input)
  BY DEF ExpandedUpTo, Expanded, Piece, Plain, MeaningOf, Meaning

\* A text has finitely many references.
LEMMA FiniteReferences ==
    ASSUME NEW s \in Text
    PROVE  IsFiniteSet(References(s))
<1>1. Len(s) \in Nat /\ DOMAIN s = 1..Len(s)
  BY LenProperties DEF Text
<1>2. IsFiniteSet(DOMAIN s)
  BY <1>1, FS_Interval
<1>3. IsFiniteSet((DOMAIN s) \X (DOMAIN s))
  BY <1>2, FS_Product
<1> QED
  BY <1>3, FS_Subset DEF References

\* The reference the loop finds is one of the input, with the same value.
LEMMA FoundReference ==
    ASSUME StateTypeOK, CallTypeOK, input \in Text, NEW n \in 0..Len(input), ReplacedUpTo(n),
           NEW open \in DOMAIN result, NEW close \in DOMAIN result,
           NextReference(result, start, open, close)
    PROVE  \E o \in n + 1..Len(input) : \E c \in o + 1..Len(input) :
              /\ open = o + Shift(n) /\ close = c + Shift(n)
              /\ NextReference(input, n, o, c)
              /\ Resolve(RefAt(result, open, close)) = MeaningOf(input, <<o, c>>)
<1>1. PICK s, res, d : s = input /\ res = result /\ d = Shift(n)
  OBVIOUS
<1>2. /\ d \in Int /\ n + d \in Nat /\ Len(res) = Len(s) + d
      /\ \A j \in n + 1..Len(s) : res[j + d] = s[j]
      /\ \A o, c \in Int : NextReference(res, start, o + d, c + d) <=> NextReference(s, n, o, c)
  BY <1>1, Between
<1>3. /\ s \in Text /\ res \in Text /\ Len(s) \in Nat /\ n \in 0..Len(s)
      /\ open \in Int /\ close \in Int
  BY <1>1, LenProperties DEF Text, CallTypeOK
<1>4. PICK o, c \in Int : open = o + d /\ close = c + d
  <2>1. /\ open - d \in Int /\ open = (open - d) + d
        /\ close - d \in Int /\ close = (close - d) + d
    <3>1. d \in Int /\ open \in Int /\ close \in Int
      BY <1>2, <1>3
    <3> QED
      BY ONLY <3>1
  <2> QED
    BY <2>1
<1>5. NextReference(s, n, o, c)
  BY <1>1, <1>2, <1>4
<1>6. o \in n + 1..Len(s) /\ c \in o + 1..Len(s)
  BY <1>5 DEF NextReference
<1>7. RefAt(res, o + d, c + d) = RefAt(s, o, c) /\ RefAt(s, o, c) \in Text
  BY ONLY <1>2, <1>3, <1>6, SameReference
<1>8. Resolve(RefAt(res, open, close)) = MeaningOf(s, <<o, c>>)
  BY <1>4, <1>7, ResolveIsMeaning DEF MeaningOf
<1> QED
  BY <1>1, <1>4, <1>5, <1>6, <1>8

\* From n on, up to the end of a stretch without a value, the expanded text is
\* the input.
LEMMA StretchIsCopied ==
    ASSUME StateTypeOK, CallTypeOK, NEW s \in Text, NEW n \in 0..Len(s), NEW k \in n..Len(s),
           \A r \in References(s) : r[2] > n /\ r[1] <= k => MeaningOf(s, r) = {}
    PROVE  ExpandedUpTo(s)[k] = ExpandedUpTo(s)[n] \o SubSeq(s, n + 1, k)
<1>1. PICK p : /\ \A i \in 1..Len(s) : p[i] = Piece(s, i) /\ p[i] \in Text
               /\ AreJoined(ExpandedUpTo(s), p, Len(s))
  BY ExpandedIsJoined
<1>2. Len(s) \in Nat /\ s \in Seq(Token)
  BY LenProperties DEF Text
<1>3. ASSUME NEW i \in n + 1..k PROVE p[i] = <<s[i]>>
  <2>1. ASSUME NEW r \in References(s), r[1] <= i, i <= r[2] PROVE MeaningOf(s, r) = {}
    <3>1. r[1] \in 1..Len(s) /\ r[2] \in 1..Len(s)
      BY <1>2, LenProperties DEF References
    <3>2. r[2] > n /\ r[1] <= k
      BY <1>2, <2>1, <3>1
    <3> QED
      BY <3>2
  <2>2. Piece(s, i) = <<s[i]>>
    BY <2>1, PieceOutside
  <2>3. i \in 1..Len(s)
    BY <1>2
  <2> QED
    BY <1>1, <2>2, <2>3
<1>4. PICK f : f = ExpandedUpTo(s)
  OBVIOUS
<1>5. AreJoined(f, p, Len(s)) /\ n \in 0..Len(s) /\ k \in n..Len(s) /\ f[n] \in Seq(Token)
  <2>1. \A i \in 1..Len(s) : p[i] \in Seq(Token)
    BY <1>1 DEF Text
  <2> QED
    BY <1>1, <1>2, <1>4, <2>1, JoinsAreSequences
<1>6. GrowsLike(f, s, n, k)
  <2>1. s \in Seq(Token) /\ AreElements(p, s, n, k)
    BY <1>2, <1>3 DEF AreElements
  <2> QED
    BY ONLY <1>5, <2>1, JoinedElements
<1> QED
  BY <1>4, <1>6 DEF GrowsLike

\* The expanded text copies s from n on, and has a value instead of what is from
\* o to c.
GoesOnWith(s, n, o, c, value) ==
    /\ ExpandedUpTo(s)[o - 1] = ExpandedUpTo(s)[n] \o SubSeq(s, n + 1, o - 1)
    /\ ExpandedUpTo(s)[c] = ExpandedUpTo(s)[o - 1] \o value

\* It does if a reference with that value comes next.
LEMMA ReferenceIsReplaced ==
    ASSUME StateTypeOK, CallTypeOK, NEW s \in Text, NEW n \in 0..Len(s), n # 0 => s[n] = Close,
           NEW o, NEW c, NextReference(s, n, o, c), NEW value \in MeaningOf(s, <<o, c>>)
    PROVE  GoesOnWith(s, n, o, c, value)
<1>1. PICK p : /\ \A i \in 1..Len(s) : p[i] = Piece(s, i) /\ p[i] \in Text
               /\ AreJoined(ExpandedUpTo(s), p, Len(s))
  BY ExpandedIsJoined
<1>2. /\ Len(s) \in Nat /\ s \in Seq(Token) /\ o \in n + 1..Len(s) /\ c \in o + 1..Len(s)
  BY LenProperties DEF Text, NextReference
<1>3. /\ <<o, c>> \in References(s)
      /\ \A r \in References(s) : r[2] > n /\ r[1] <= c => r = <<o, c>>
  BY NextIsReference
<1>4. MeaningOf(s, <<o, c>>) = {value}
  BY MeaningIsText DEF MeaningOf
<1>5. \A r \in References(s) : r[1] \in 1..Len(s) /\ r[2] \in 1..Len(s)
  BY <1>2, LenProperties DEF References
<1>6. ExpandedUpTo(s)[o - 1] = ExpandedUpTo(s)[n] \o SubSeq(s, n + 1, o - 1)
  <2>1. ASSUME NEW r \in References(s), r[2] > n, r[1] <= o - 1 PROVE FALSE
    <3>1. r[1] <= c
      BY <1>2, <1>5, <2>1
    <3>2. r = <<o, c>>
      BY <1>3, <2>1, <3>1
    <3> QED
      BY <1>2, <2>1, <3>2
  <2>2. o - 1 \in n..Len(s)
    BY <1>2
  <2> QED
    BY <2>1, <2>2, StretchIsCopied
<1>7. ASSUME NEW i \in o..c PROVE p[i] = IF i = o THEN value ELSE <<>>
  <2>1. ASSUME NEW r \in References(s), r[1] <= i, i <= r[2] PROVE r = <<o, c>>
    <3>1. r[2] > n /\ r[1] <= c
      BY <1>2, <1>5, <2>1
    <3> QED
      BY <1>3, <3>1
  <2>2. PICK q \in References(s) : q = <<o, c>>
    BY <1>3
  <2>3. /\ MeaningOf(s, q) = {value} /\ q[1] <= i /\ i <= q[2] /\ q[1] = o
        /\ \A r \in References(s) : r[1] <= i /\ i <= r[2] => r = q
    BY <1>2, <1>4, <2>1, <2>2
  <2>4. Piece(s, i) = IF i = q[1] THEN value ELSE <<>>
    BY <2>3, PieceInside
  <2>5. i \in 1..Len(s)
    BY <1>2
  <2> QED
    BY <1>1, <2>3, <2>4, <2>5
<1>8. PICK f : f = ExpandedUpTo(s)
  OBVIOUS
<1>9. f[o] = f[o - 1] \o value
  <2>1. o \in 0..Len(s) /\ o # 0 /\ o \in o..c
    BY <1>2
  <2>2. f[o] = f[o - 1] \o p[o]
    BY <1>1, <1>8, <2>1 DEF AreJoined
  <2> QED
    BY <1>7, <2>1, <2>2
<1>10. f[c] = f[o]
  <2>1. o \in 0..Len(s) /\ c \in o..Len(s) /\ \A i \in o + 1..c : i \in o..c /\ i # o
    BY <1>2
  <2>2. \A i \in o + 1..c : p[i] = <<>>
    BY <1>7, <2>1
  <2>3. AreJoined(f, p, Len(s)) /\ f[o] \in Seq(Token)
    <3>1. \A i \in 1..Len(s) : p[i] \in Seq(Token)
      BY <1>1 DEF Text
    <3> QED
      BY <1>1, <1>2, <1>8, <2>1, <3>1, JoinsAreSequences
  <2> QED
    BY ONLY <1>2, <2>1, <2>2, <2>3, JoinedNothing
<1> QED
  BY <1>6, <1>8, <1>9, <1>10 DEF GoesOnWith

\* The expanded text up to n and the tokens of the input from there to k.
Stretch(n, k) == Front(n) \o SubSeq(input, n + 1, k)

\* Behind a stretch of the input that the expanded text copies, the text goes on
\* with the rest of the input.
LEMMA TextAfterStretch ==
    ASSUME StateTypeOK, CallTypeOK, input \in Text, NEW n \in 0..Len(input), ReplacedUpTo(n),
           NEW k \in n..Len(input)
    PROVE  /\ Stretch(n, k) \in Text /\ Len(Stretch(n, k)) = k + Shift(n)
           /\ result = Stretch(n, k) \o SubSeq(input, k + 1, Len(input))
           /\ SubSeq(result, 1, k + Shift(n)) = Stretch(n, k)
           /\ SubSeq(result, k + Shift(n) + 1, Len(result)) = SubSeq(input, k + 1, Len(input))
           /\ \A i \in 1..Len(Stretch(n, k)) : Stretch(n, k)[i] = result[i]
<1>1. PICK s, front, d, x, y :
        /\ s = input /\ front = Front(n) /\ d = Shift(n)
        /\ x = Stretch(n, k) /\ y = SubSeq(input, k + 1, Len(input))
  OBVIOUS
<1>2. /\ s \in Seq(Token) /\ front \in Seq(Token) /\ d \in Int /\ n + d = Len(front)
      /\ Len(s) \in Nat /\ n \in 0..Len(s) /\ k \in n..Len(s)
      /\ x = front \o SubSeq(s, n + 1, k)
  BY <1>1, Between, LenProperties DEF Text, Stretch
<1>3. x \in Seq(Token) /\ Len(x) = k + d
  <2>1. x \in Seq(Token) /\ GoesOnLike(x, front, s, n, k)
    BY ONLY <1>2, RestIsShifted
  <2>2. Len(x) = Len(front) + (k - n)
    BY <2>1 DEF GoesOnLike
  <2>3. k \in Int /\ n \in Int /\ d \in Int /\ n + d = Len(front)
    BY ONLY <1>2
  <2> QED
    BY ONLY <2>1, <2>2, <2>3
<1>4. result = x \o y
  <2>1. front \o SubSeq(s, n + 1, Len(s))
           = (front \o SubSeq(s, n + 1, k)) \o SubSeq(s, k + 1, Len(s))
    BY ONLY <1>2, RestIsCopied
  <2>2. result = front \o SubSeq(s, n + 1, Len(s))
    BY <1>1 DEF ReplacedUpTo
  <2> QED
    BY <1>1, <1>2, <2>1, <2>2
<1>5. y \in Seq(Token)
  <2>1. k + 1 \in Nat \ {0} /\ Len(s) \in Int /\ Len(s) <= Len(s) /\ s \in Text
    BY <1>2 DEF Text
  <2>2. SubSeq(s, k + 1, Len(s)) \in Text
    BY ONLY <2>1, PartOfText
  <2> QED
    BY <1>1, <2>2 DEF Text
<1>6. SubSeq(result, 1, Len(x)) = x /\ SubSeq(result, Len(x) + 1, Len(result)) = y
  BY ONLY <1>3, <1>4, <1>5, JoinParts
<1>7. \A i \in 1..Len(x) : x[i] = result[i]
  BY ONLY <1>3, <1>4, <1>5, ConcatProperties, LenProperties
<1> QED
  BY <1>1, <1>3, <1>4, <1>6, <1>7 DEF Text

\* Of the references up to n, those up to a later position are more.
LEMMA PassedReferences ==
    ASSUME NEW s \in Text, NEW n \in Nat, NEW c \in Nat, n <= c
    PROVE  LET passed == {r \in References(s) : r[2] <= n}
               after  == {r \in References(s) : r[2] <= c}
           IN  /\ IsFiniteSet(passed) /\ IsFiniteSet(after)
               /\ Cardinality(passed) \in Nat /\ Cardinality(after) \in Nat
               /\ Cardinality(passed) <= Cardinality(after)
               /\ \A r \in References(s) :
                     n < r[2] /\ r[2] <= c => Cardinality(passed) + 1 <= Cardinality(after)
<1> DEFINE passed == {r \in References(s) : r[2] <= n}
           after  == {r \in References(s) : r[2] <= c}
<1>1. \A r \in References(s) : r[2] \in Nat
  BY LenProperties DEF References, Text
<1>2. passed \subseteq after
  BY <1>1
<1>3. IsFiniteSet(passed) /\ IsFiniteSet(after)
  BY FiniteReferences, FS_Subset
<1>4. ASSUME NEW r \in References(s), n < r[2], r[2] <= c
      PROVE  r \in after /\ r \notin passed
  BY <1>1, <1>4
<1> HIDE DEF passed, after
<1>5. /\ Cardinality(passed) \in Nat /\ Cardinality(after) \in Nat
      /\ Cardinality(passed) <= Cardinality(after)
  BY <1>2, <1>3, FS_CardinalityType, FS_Subset
<1>6. ASSUME NEW r \in References(s), n < r[2], r[2] <= c
      PROVE  Cardinality(passed) + 1 <= Cardinality(after)
  <2>1. passed \subseteq after /\ passed # after
    BY <1>2, <1>4, <1>6
  <2>2. Cardinality(passed) # Cardinality(after)
    BY <1>3, <2>1, FS_Subset
  <2> QED
    BY <1>5, <2>2
<1> QED
  BY <1>3, <1>5, <1>6 DEF passed, after

\* At first nothing has been replaced.
LEMMA SomethingIsReplaced ==
    ASSUME StateTypeOK, CallTypeOK, PlainInv, Plain, pc = "loop"
    PROVE  \E n \in 0..Len(input) : ReplacedUpTo(n)
<1> SUFFICES ASSUME result = input, start = 0, substitutions = 0
             PROVE  ReplacedUpTo(0) /\ 0 \in 0..Len(input)
  BY DEF PlainInv
<1>1. PICK s \in Text : s = input
  BY DEF PlainInv
<1>2. Len(s) \in Nat
  BY LenProperties DEF Text
<1>3. ExpandedUpTo(s)[0] = <<>>
  <2>1. PICK p : AreJoined(ExpandedUpTo(s), p, Len(s))
    BY ExpandedIsJoined
  <2> QED
    BY <1>2, <2>1 DEF AreJoined
<1>4. Front(0) = <<>> /\ Len(Front(0)) = 0
  BY <1>1, <1>3 DEF Front
<1>5. <<>> \o SubSeq(s, 1, Len(s)) = s
  BY SubSeqFull, ConcatEmptySeq DEF Text
<1>6. Cardinality({r \in References(s) : r[2] <= 0}) \in Nat
  <2>1. IsFiniteSet({r \in References(s) : r[2] <= 0})
    BY FiniteReferences, FS_Subset
  <2> QED
    BY <2>1, FS_CardinalityType
<1>7. result = Front(0) \o SubSeq(input, 0 + 1, Len(input))
  <2>1. 0 + 1 = 1
    OBVIOUS
  <2>2. result = <<>> \o SubSeq(input, 1, Len(input))
    BY <1>1, <1>5
  <2> QED
    BY <1>4, <2>1, <2>2
<1>8. start <= Len(Front(0)) /\ start + 1..Len(Front(0)) = {}
  BY <1>4
<1>9. substitutions <= Cardinality({r \in References(input) : r[2] <= 0})
  BY <1>1, <1>6
<1> QED
  BY <1>1, <1>2, <1>7, <1>8, <1>9 DEF ReplacedUpTo

\* Passing over a reference that has no value copies it.
LEMMA SkipKeepsPlain ==
    ASSUME CallInv, PlainInv, Skip
    PROVE  PlainInv'
<1>1. /\ UNCHANGED <<pc, target, local_vars, input, result, substitutions, exports>>
      /\ pc = "loop" /\ StateTypeOK /\ CallTypeOK /\ input \in Text
  BY DEF Skip, state, CallInv, IInv, PlainInv
<1>2. PlainIsSimultaneous'
  BY <1>1 DEF PlainIsSimultaneous
<1>3. ASSUME Plain' PROVE \E n \in 0..Len(input) : ReplacedUpTo(n)'
  <2>1. Plain /\ ExpandedUpTo(input)' = ExpandedUpTo(input)
    BY <1>1, <1>3, ExpansionIsFixed
  <2>2. PICK n \in 0..Len(input) : ReplacedUpTo(n)
    BY <1>1, <2>1, SomethingIsReplaced
  <2>3. PICK open, close \in DOMAIN result :
          /\ NextReference(result, start, open, close)
          /\ Resolve(RefAt(result, open, close)) \subseteq {Placeholder(open, close)}
          /\ start' = close
    BY DEF Skip
  <2>4. PICK o \in n + 1..Len(input), c \in Int :
          /\ c \in o + 1..Len(input) /\ close = c + Shift(n)
          /\ NextReference(input, n, o, c)
          /\ Resolve(RefAt(result, open, close)) = MeaningOf(input, <<o, c>>)
    BY <1>1, <2>2, <2>3, FoundReference
  <2>5. Len(input) \in Nat /\ n \in Nat /\ o \in Nat /\ c \in Nat /\ n <= c
        /\ c \in n..Len(input) /\ c # 0
    BY <1>1, <2>4, LenProperties DEF Text
  <2>6. /\ <<o, c>> \in References(input)
        /\ \A r \in References(input) : r[2] > n /\ r[1] <= c => r = <<o, c>>
    BY <1>1, <2>2, <2>4, NextIsReference DEF ReplacedUpTo
  <2>7. MeaningOf(input, <<o, c>>) = {}
    <3> SUFFICES ASSUME NEW value \in MeaningOf(input, <<o, c>>) PROVE FALSE
      OBVIOUS
    <3>1. value = Placeholder(open, close)
      BY <2>3, <2>4
    <3>2. /\ open \in Nat \ {0} /\ close \in Nat /\ open <= close /\ close <= Len(result)
          /\ result[open] = Open
      BY <1>1, <2>3, LenProperties DEF NextReference, CallTypeOK, Text
    <3>3. 1 \in DOMAIN value /\ value[1] = Open
      <4>1. /\ value \in Text /\ Len(value) = close - open + 1
            /\ \A i \in 1..close - open + 1 : value[i] = result[open + i - 1]
        <5>1. value = SubSeq(result, open, close) /\ result \in Text
          BY <1>1, <3>1 DEF Placeholder, CallTypeOK
        <5>2. open \in Nat \ {0} /\ close \in Int /\ close <= Len(result)
          BY <3>2
        <5>3. /\ SubSeq(result, open, close) \in Text
              /\ Len(SubSeq(result, open, close)) = IF open <= close THEN close - open + 1 ELSE 0
              /\ \A i \in 1..close - open + 1 :
                    SubSeq(result, open, close)[i] = result[open + i - 1]
          BY ONLY <5>1, <5>2, PartOfText
        <5> QED
          BY <3>2, <5>1, <5>3
      <4>2. 1 \in 1..close - open + 1 /\ open + 1 - 1 = open
        BY <3>2
      <4> QED
        BY <3>2, <4>1, <4>2, LenProperties DEF Text
    <3> QED
      BY <2>1, <2>6, <3>3 DEF Plain
  <2>8. Front(c) = Stretch(n, c)
    BY <1>1, <2>5, <2>6, <2>7, StretchIsCopied DEF Front, Stretch
  <2>9. /\ Len(Front(c)) = close
        /\ result = Front(c) \o SubSeq(input, c + 1, Len(input))
    BY <1>1, <2>2, <2>4, <2>5, <2>8, TextAfterStretch
  <2>10. substitutions <= Cardinality({r \in References(input) : r[2] <= c})
    <3>1. PICK s \in Text : s = input
      BY <1>1
    <3>2. substitutions <= Cardinality({r \in References(s) : r[2] <= n})
      BY <2>2, <3>1 DEF ReplacedUpTo
    <3>3. /\ Cardinality({r \in References(s) : r[2] <= n})
             <= Cardinality({r \in References(s) : r[2] <= c})
          /\ Cardinality({r \in References(s) : r[2] <= n}) \in Nat
          /\ Cardinality({r \in References(s) : r[2] <= c}) \in Nat
      BY <2>5, PassedReferences
    <3> QED
      BY <1>1, <3>1, <3>2, <3>3 DEF CallTypeOK
  <2>11. input[c] = Close
    BY <2>4 DEF NextReference
  <2>12. close \in Nat
    BY <1>1, LenProperties DEF CallTypeOK, Text
  <2>13. Front(c)' = Front(c)
    BY <2>1 DEF Front
  <2>14. ReplacedUpTo(c)'
    BY <1>1, <2>3, <2>9, <2>10, <2>11, <2>12, <2>13 DEF ReplacedUpTo
  <2> QED
    BY <2>5, <2>14
<1> QED
  BY <1>1, <1>2, <1>3 DEF PlainInv

\* Replacing a reference by a plain value is what the expanded text does.
LEMMA ReplaceKeepsPlain ==
    ASSUME CallInv, PlainInv, Replace
    PROVE  PlainInv'
<1>1. /\ UNCHANGED <<pc, target, local_vars, input, start, exports>>
      /\ substitutions' = substitutions + 1
      /\ pc = "loop" /\ StateTypeOK /\ CallTypeOK /\ input \in Text
  BY DEF Replace, state, CallInv, IInv, PlainInv
<1>2. PlainIsSimultaneous'
  BY <1>1 DEF PlainIsSimultaneous
<1>3. ASSUME Plain' PROVE \E n \in 0..Len(input) : ReplacedUpTo(n)'
  <2>1. Plain /\ ExpandedUpTo(input)' = ExpandedUpTo(input)
    BY <1>1, <1>3, ExpansionIsFixed
  <2>2. PICK n \in 0..Len(input) : ReplacedUpTo(n)
    BY <1>1, <2>1, SomethingIsReplaced
  <2>3. PICK open, close \in DOMAIN result :
          /\ NextReference(result, start, open, close)
          /\ \E value \in Resolve(RefAt(result, open, close)) :
                result' = TextWith(result, open, close, value)
    BY DEF Replace, TextWith
  <2>4. PICK o \in n + 1..Len(input), c \in Int :
          /\ c \in o + 1..Len(input)
          /\ open = o + Shift(n) /\ close = c + Shift(n)
          /\ NextReference(input, n, o, c)
          /\ Resolve(RefAt(result, open, close)) = MeaningOf(input, <<o, c>>)
    BY <1>1, <2>2, <2>3, FoundReference
  <2>5. PICK value \in MeaningOf(input, <<o, c>>) : result' = TextWith(result, open, close, value)
    BY <2>3, <2>4
  <2>6. /\ Len(input) \in Nat /\ n \in Nat /\ o \in Nat /\ c \in Nat /\ n <= c
        /\ o - 1 \in n..Len(input) /\ c \in n..Len(input) /\ c # 0
    BY <1>1, <2>4, LenProperties DEF Text
  <2>7. <<o, c>> \in References(input)
    BY <1>1, <2>2, <2>4, NextIsReference DEF ReplacedUpTo
  <2>8. value \in Text /\ \A i \in DOMAIN value : value[i] # Open
    BY <1>1, <2>1, <2>5, <2>7, MeaningIsText DEF Plain, MeaningOf
  <2>9. /\ Front(o - 1) = Stretch(n, o - 1)
        /\ Front(c) = Front(o - 1) \o value
    <3>1. PICK s \in Text : s = input
      BY <1>1
    <3>2. n \in 0..Len(s) /\ (n # 0 => s[n] = Close) /\ NextReference(s, n, o, c)
          /\ value \in MeaningOf(s, <<o, c>>)
      BY <2>2, <2>4, <2>5, <3>1 DEF ReplacedUpTo
    <3>3. GoesOnWith(s, n, o, c, value)
      BY <1>1, <3>2, ReferenceIsReplaced
    <3> QED
      BY <3>1, <3>3 DEF Front, Stretch, GoesOnWith
  <2>10. /\ Front(o - 1) \in Text /\ Len(Front(o - 1)) = (o - 1) + Shift(n)
         /\ SubSeq(result, 1, (o - 1) + Shift(n)) = Front(o - 1)
         /\ \A i \in 1..Len(Front(o - 1)) : Front(o - 1)[i] = result[i]
    BY <1>1, <2>2, <2>6, <2>9, TextAfterStretch
  <2>11. SubSeq(result, close + 1, Len(result)) = SubSeq(input, c + 1, Len(input))
    BY <1>1, <2>2, <2>4, <2>6, TextAfterStretch
  <2>12. open - 1 = (o - 1) + Shift(n) /\ Shift(n) \in Int
    BY <1>1, <2>2, <2>4, <2>6, Between
  <2>13. result' = Front(c) \o SubSeq(input, c + 1, Len(input))
    BY <2>5, <2>9, <2>10, <2>11, <2>12 DEF TextWith
  <2>14. /\ Front(c) \in Text /\ Len(Front(c)) = (open - 1) + Len(value)
         /\ \A i \in 1..(open - 1) + Len(value) :
               Front(c)[i] = IF i <= open - 1 THEN result[i] ELSE value[i - (open - 1)]
    <3>1. PICK x, y, z : x = Front(o - 1) /\ y = value /\ z = Front(c)
      OBVIOUS
    <3>2. x \in Seq(Token) /\ y \in Seq(Token) /\ z = x \o y /\ Len(x) = open - 1
      <4>1. x \in Seq(Token) /\ Len(x) = open - 1
        BY <2>10, <2>12, <3>1 DEF Text
      <4>2. y \in Seq(Token) /\ z = x \o y
        BY <2>8, <2>9, <3>1 DEF Text
      <4> QED
        BY <4>1, <4>2
    <3>3. /\ z \in Seq(Token) /\ Len(z) = Len(x) + Len(y)
          /\ \A i \in 1..Len(x) + Len(y) : z[i] = IF i <= Len(x) THEN x[i] ELSE y[i - Len(x)]
      BY ONLY <3>2, ConcatProperties
    <3>4. Len(y) \in Nat /\ \A i \in 1..Len(x) : x[i] = result[i]
      BY <2>10, <3>1, <3>2, LenProperties
    <3>5. \A i \in 1..Len(x) + Len(y) : i <= Len(x) => i \in 1..Len(x)
      OBVIOUS
    <3>6. \A i \in 1..Len(x) + Len(y) :
             z[i] = IF i <= Len(x) THEN result[i] ELSE y[i - Len(x)]
      BY ONLY <3>3, <3>4, <3>5
    <3>7. z \in Text
      BY <3>3 DEF Text
    <3>8. z = Front(c) /\ y = value /\ Len(x) = open - 1
      BY ONLY <3>1, <3>2
    <3> QED
      BY ONLY <3>3, <3>6, <3>7, <3>8
  <2>15. /\ start \in Nat /\ start <= open - 1 /\ open - 1 \in Nat /\ Len(value) \in Nat
         /\ \A i \in start + 1..open - 1 : result[i] # Open
    <3>1. start \in Nat
      BY <1>1 DEF CallTypeOK
    <3>2. Len(value) \in Nat
      BY <2>8, LenProperties DEF Text
    <3>3. Len(result) \in Nat
      BY <1>1, LenProperties DEF CallTypeOK, Text
    <3>4. /\ open \in start + 1..Len(result)
          /\ \A i \in start + 1..open - 1 : result[i] # Open
      BY <2>3 DEF NextReference
    <3> QED
      BY ONLY <3>1, <3>2, <3>3, <3>4
  <2>16. start <= Len(Front(c))
    BY <2>14, <2>15
  <2>17. ASSUME NEW i \in start + 1..Len(Front(c)) PROVE result'[i] # Open
    <3>1. i \in 1..(open - 1) + Len(value) /\ i \in 1..Len(Front(c))
      BY <2>14, <2>15
    <3>2. result'[i] = Front(c)[i]
      <4>1. PICK x, y, z : x = Front(c) /\ y = SubSeq(input, c + 1, Len(input)) /\ z = result'
        OBVIOUS
      <4>2. c + 1 \in Nat \ {0} /\ Len(input) <= Len(input) /\ Len(input) \in Int
        BY <2>6
      <4>3. x \in Seq(Token) /\ y \in Seq(Token) /\ z = x \o y /\ i \in 1..Len(x)
        BY <1>1, <2>13, <2>14, <3>1, <4>1, <4>2, PartOfText DEF Text
      <4>4. z[i] = x[i]
        BY ONLY <4>3, ConcatProperties, LenProperties
      <4> QED
        BY <4>1, <4>4
    <3>3. CASE i <= open - 1
      <4>1. i \in start + 1..open - 1
        BY <2>15, <3>3
      <4> QED
        BY <2>14, <2>15, <3>1, <3>2, <3>3, <4>1
    <3>4. CASE i > open - 1
      <4>1. i - (open - 1) \in DOMAIN value /\ ~(i <= open - 1)
        BY <2>8, <2>15, <3>1, <3>4, LenProperties DEF Text
      <4> QED
        BY <2>8, <2>14, <3>1, <3>2, <4>1
    <3> QED
      BY <2>15, <3>3, <3>4
  <2>18. substitutions' <= Cardinality({r \in References(input) : r[2] <= c})
    <3>1. PICK s \in Text : s = input
      BY <1>1
    <3>2. substitutions <= Cardinality({r \in References(s) : r[2] <= n})
      BY <2>2, <3>1 DEF ReplacedUpTo
    <3>3. PICK r \in References(s) : r[2] = c /\ n < r[2] /\ r[2] <= c
      BY <2>4, <2>6, <2>7, <3>1
    <3>4. /\ Cardinality({q \in References(s) : q[2] <= n}) + 1
             <= Cardinality({q \in References(s) : q[2] <= c})
          /\ Cardinality({q \in References(s) : q[2] <= n}) \in Nat
          /\ Cardinality({q \in References(s) : q[2] <= c}) \in Nat
      BY <2>6, <3>3, PassedReferences
    <3> QED
      BY <1>1, <3>1, <3>2, <3>4 DEF CallTypeOK
  <2>19. input[c] = Close
    BY <2>4 DEF NextReference
  <2>20. Front(c)' = Front(c)
    BY <2>1 DEF Front
  <2>21. ReplacedUpTo(c)'
    BY <1>1, <2>13, <2>16, <2>17, <2>18, <2>19, <2>20 DEF ReplacedUpTo
  <2> QED
    BY <2>6, <2>21
<1> QED
  BY <1>1, <1>2, <1>3 DEF PlainInv

\* A call that returns has passed over all references of the input.
LEMMA ReturnIsSimultaneous ==
    ASSUME CallInv, PlainInv, Return
    PROVE  PlainInv'
<1>1. /\ UNCHANGED <<target, local_vars, input, result, exports>>
      /\ pc = "loop" /\ pc' = "done" /\ StateTypeOK /\ CallTypeOK /\ input \in Text
  BY DEF Return, state, CallInv, IInv, PlainInv
<1>2. ASSUME Plain', Cardinality(References(input)) <= MAX_SUBSTITUTIONS
      PROVE  result = Expanded(input)
  <2>1. Plain
    BY <1>1, <1>2, ExpansionIsFixed
  <2>2. PICK n \in 0..Len(input) : ReplacedUpTo(n)
    BY <1>1, <2>1, SomethingIsReplaced
  <2>3. PICK s \in Text : s = input
    BY <1>1
  <2>4. Len(s) \in Nat /\ n \in 0..Len(s) /\ Len(s) \in n..Len(s) /\ (n # 0 => s[n] = Close)
    BY <2>2, <2>3, LenProperties DEF ReplacedUpTo, Text
  <2>5. \A r \in References(s) : r[2] <= n
    <3>1. CASE substitutions >= MAX_SUBSTITUTIONS
      <4> DEFINE passed == {r \in References(s) : r[2] <= n}
      <4>1. substitutions <= Cardinality(passed) /\ substitutions \in Nat
        BY <1>1, <2>2, <2>3 DEF ReplacedUpTo, CallTypeOK
      <4>2. passed \subseteq References(s) /\ IsFiniteSet(References(s))
        BY FiniteReferences
      <4> HIDE DEF passed
      <4>3. IsFiniteSet(passed) /\ Cardinality(passed) <= Cardinality(References(s))
            /\ (Cardinality(passed) = Cardinality(References(s)) => passed = References(s))
        BY <4>2, FS_Subset
      <4>4. Cardinality(passed) \in Nat /\ Cardinality(References(s)) \in Nat
        BY <4>2, <4>3, FS_CardinalityType
      <4>5. Cardinality(passed) = Cardinality(References(s))
        BY <1>2, <2>3, <3>1, <4>1, <4>3, <4>4, MaxSubstitutionsAssumption
      <4> QED
        BY <4>3, <4>5 DEF passed
    <3>2. CASE ~\E open, close \in DOMAIN result : NextReference(result, start, open, close)
      <4> SUFFICES ASSUME NEW r \in References(s), ~(r[2] <= n) PROVE FALSE
        OBVIOUS
      <4>1. PICK open, close \in DOMAIN s : r = <<open, close>> /\ IsReference(s, open, close)
        BY DEF References
      <4>2. close > n
        BY <2>4, <4>1, LenProperties DEF Text
      <4>3. PICK o, c \in DOMAIN s : NextReference(s, n, o, c)
        BY <2>4, <4>1, <4>2, ReferenceIsSeen
      <4>4. o \in Int /\ c \in Int /\ o >= n + 1 /\ c > o /\ c <= Len(s)
        BY <2>4, <4>3 DEF NextReference
      <4>5. NextReference(result, start, o + Shift(n), c + Shift(n))
        BY <1>1, <2>2, <2>3, <4>3, <4>4, Between
      <4>6. o + Shift(n) \in DOMAIN result /\ c + Shift(n) \in DOMAIN result
        <5>1. /\ Shift(n) \in Int /\ n + Shift(n) \in Nat /\ Len(result) = Len(s) + Shift(n)
              /\ n \in Nat /\ Len(s) \in Nat
          <6>1. /\ Shift(n) \in Int /\ n + Shift(n) \in Nat
                /\ Len(result) = Len(input) + Shift(n)
            BY <1>1, <2>2, Between
          <6> QED
            BY ONLY <2>3, <2>4, <6>1
        <5>2. o + Shift(n) \in 1..Len(s) + Shift(n) /\ c + Shift(n) \in 1..Len(s) + Shift(n)
          BY ONLY <4>4, <5>1
        <5>3. DOMAIN result = 1..Len(result)
          BY <1>1, LenProperties DEF CallTypeOK, Text
        <5> QED
          BY ONLY <5>1, <5>2, <5>3
      <4> QED
        BY <3>2, <4>5, <4>6
    <3> QED
      BY <3>1, <3>2 DEF Return
  <2>6. ExpandedUpTo(s)[Len(s)] = ExpandedUpTo(s)[n] \o SubSeq(s, n + 1, Len(s))
    <3>1. ASSUME NEW r \in References(s), r[2] > n PROVE FALSE
      <4>1. r[2] \in Nat /\ r[2] <= n
        BY <2>5, LenProperties DEF References, Text
      <4> QED
        BY <2>4, <3>1, <4>1
    <3> QED
      BY <1>1, <2>4, <3>1, StretchIsCopied
  <2> QED
    BY <2>2, <2>3, <2>6 DEF ReplacedUpTo, Front, Expanded
<1>3. Expanded(input)' = Expanded(input)
  BY <1>1, ExpansionIsFixed
<1>4. PlainIsSimultaneous'
  BY <1>1, <1>2, <1>3 DEF PlainIsSimultaneous
<1> QED
  BY <1>1, <1>4 DEF PlainInv

\* So a call replaces plain references as if all at once.
LEMMA PlainStep ==
    ASSUME CallInv, PlainInv, [Next]_vars
    PROVE  PlainInv'
<1>1. CASE pc = "idle" /\ StateNext /\ UNCHANGED call
  BY <1>1 DEF PlainInv, PlainIsSimultaneous, call
<1>2. CASE Forget
  BY <1>2, EmptySeq DEF Forget, PlainInv, PlainIsSimultaneous, Text
<1>3. ASSUME NEW t \in Target, NEW locals \in Locals, NEW text \in Inputs,
             Substitute(t, locals, text)
      PROVE  PlainInv'
  BY <1>3, TextAssumption DEF Substitute, PlainInv, PlainIsSimultaneous
<1>4. CASE Loop
  BY <1>4, ReplaceKeepsPlain, SkipKeepsPlain, ReturnIsSimultaneous DEF Loop
<1>5. CASE UNCHANGED vars
  <2>1. /\ UNCHANGED <<target, local_vars, input, exports>>
        /\ UNCHANGED <<pc, result, start, substitutions>>
    BY <1>5 DEF vars, call, state
  <2>2. /\ ExpandedUpTo(input)' = ExpandedUpTo(input) /\ (Plain' <=> Plain)
        /\ Expanded(input)' = Expanded(input)
    BY <2>1, ExpansionIsFixed
  <2>3. \A n \in 0..Len(input) : ReplacedUpTo(n) => ReplacedUpTo(n)'
    BY <2>1, <2>2 DEF ReplacedUpTo, Front
  <2> QED
    BY <2>1, <2>2, <2>3 DEF PlainInv, PlainIsSimultaneous
<1> QED
  BY <1>1, <1>2, <1>3, <1>4, <1>5 DEF Next

\* The invariant of a call with plain values: the text is the expanded text up
\* to some place between two references, and the input from there on.
THEOREM PlainInvariant == Spec => []PlainInv
<1>1. CallInit => PlainInv
  BY EmptySeq DEF CallInit, PlainInv, PlainIsSimultaneous, Text
<1>2. CallInv /\ PlainInv /\ [Next]_vars => PlainInv'
  BY PlainStep
<1> QED
  BY <1>1, <1>2, CallInvariant, PTL DEF Spec

\* When no value contains a reference and the limit allows for all of them,
\* replacing one after the other is replacing all at once, for any text, with
\* braces open, closed or nested, and any values.
THEOREM PlainSubstitution == Spec => []PlainIsSimultaneous
<1>1. PlainInv => PlainIsSimultaneous
  BY DEF PlainInv
<1> QED
  BY <1>1, PlainInvariant, PTL

=============================================================================
