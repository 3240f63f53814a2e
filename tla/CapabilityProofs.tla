-------------------------- MODULE CapabilityProofs --------------------------
(***************************************************************************)
(* Proofs about capability spaces, for any number of identities, slots,    *)
(* rights, modes and revocations.                                          *)
(***************************************************************************)
EXTENDS Capability, FiniteSetTheorems, SequenceTheorems, TLAPS

(* What the operations rely on besides the three invariants: free memory   *)
(* is linked to nothing, the identity being freed is needed by nothing,    *)
(* and a revocation has an epoch of its own.                               *)
Supporting ==
    /\ \A i \in Ids : ~Allocated(i) => parent[i] = NoId
    /\ pc = "free" =>
          /\ Allocated(victim)
          /\ refs[victim] = 0
          /\ Children(victim) = {}
    /\ pc = "revoke" => epoch > 0

IInv ==
    /\ TypeOK
    /\ Supporting
    /\ ReferencesAreExact
    /\ AuthorityShrinks
    /\ DeathIsInherited

USE CapabilityAssumption

(* The slots that refer to an identity are finitely many.                  *)
LEMMA HoldersFinite == \A i : IsFiniteSet(Holders(i))
  BY FS_Subset DEF Holders

(* An identity some slot refers to has a positive count.                   *)
LEMMA HeldIsCounted ==
  ASSUME TypeOK, ReferencesAreExact, NEW x \in Places, slots[x] # NoId
  PROVE  slots[x] \in Ids /\ Allocated(slots[x]) /\ refs[slots[x]] \in Nat \ {0}
<1> DEFINE i == slots[x]
<1>1. i \in Ids /\ Allocated(i)
  BY DEF TypeOK, ReferencesAreExact
<1>2. x \in Holders(i)
  BY DEF Holders
<1>3. Cardinality(Holders(i)) # 0
  BY <1>2, HoldersFinite, FS_EmptySet
<1> QED
  BY <1>1, <1>3 DEF TypeOK, ReferencesAreExact

(* Initially nothing is allocated.                                         *)
LEMMA InitIInv == Init => IInv
<1> SUFFICES ASSUME Init PROVE IInv
  OBVIOUS
<1>1. TypeOK
  BY DEF Init, TypeOK, Types
<1>2. Supporting /\ ReferencesAreExact /\ AuthorityShrinks /\ DeathIsInherited
  BY DEF Init, Supporting, ReferencesAreExact, AuthorityShrinks, DeathIsInherited, Allocated
<1> QED
  BY <1>1, <1>2 DEF IInv

(* Creating an identity below a living parent with no more authority than  *)
(* the parent, or below none, preserves the invariant.                     *)
LEMMA CreateIInv ==
  ASSUME IInv, Ready,
         NEW i \in Ids, NEW x \in Places, NEW t \in Types, NEW r \in SUBSET Rights,
         NEW ms \in SUBSET Modes, NEW p \in Ids \cup {NoId},
         Create(i, x, t, r, ms, p, 0),
         p # NoId => /\ Allocated(p) /\ dead[p] = 0
                     /\ r \subseteq rights[p] /\ ms \subseteq modes[p]
                     /\ t # type[p] => type[p] = "RAM"
  PROVE  IInv'
<1> USE DEF IInv, Create, Ready, Allocated, callVars
<1>0. p # i
  BY DEF Types
<1>1. TypeOK'
  BY DEF TypeOK
<1>2. Children(i) = {}
  BY DEF Children, Supporting, ReferencesAreExact
<1>3. \A j \in Ids : j # i => parent'[j] = parent[j] /\ type'[j] = type[j]
  BY DEF TypeOK
<1>4. parent'[i] = p /\ type'[i] = t /\ t # "FREE"
  BY DEF TypeOK, Types
<1>5. Supporting'
  BY <1>3, <1>4 DEF Supporting, TypeOK
<1>6. ReferencesAreExact'
  <2>1. Holders(i) = {}
    BY DEF Holders, ReferencesAreExact
  <2>2. Holders(i)' = {x}
    BY <2>1 DEF Holders, TypeOK
  <2>3. \A j \in Ids : j # i => Holders(j)' = Holders(j) /\ refs'[j] = refs[j]
    BY DEF Holders, TypeOK
  <2>4. refs'[i] = 1
    BY DEF TypeOK
  <2>5. Cardinality(Holders(i)') = 1
    BY <2>2, FS_Singleton
  <2>6. \A y \in Places : slots'[y] # NoId => Allocated(slots[y])'
    BY <1>3, <1>4 DEF ReferencesAreExact, TypeOK
  <2>7. \A j \in Ids : Children(j) # {} => Children(j)' # {}
    BY <1>2, <1>3 DEF Children, Supporting
  <2>8. ASSUME NEW j \in Ids, Allocated(j)'
        PROVE  /\ refs'[j] = Cardinality(Holders(j)')
               /\ parent'[j] # NoId => Allocated(parent[j])'
               /\ \/ refs'[j] > 0 \/ Children(j)' # {}
                  \/ pc' = "free" /\ victim' = j
                  \/ pc' = "hung"
    <3>1. CASE j = i
      BY <3>1, <2>4, <2>5, <1>3, <1>4, <1>0
    <3>2. CASE j # i
      <4>1. Allocated(j)
        BY <3>2, <2>8, <1>3
      <4>2. refs'[j] = Cardinality(Holders(j)')
        BY <3>2, <4>1, <2>3 DEF ReferencesAreExact
      <4>3. parent'[j] # NoId => Allocated(parent[j])'
        BY <3>2, <4>1, <1>3, <1>4 DEF ReferencesAreExact, TypeOK
      <4>4. refs[j] > 0 \/ Children(j) # {}
        BY <4>1 DEF ReferencesAreExact
      <4> QED
        BY <4>2, <4>3, <4>4, <2>3, <2>7, <3>2
    <3> QED
      BY <3>1, <3>2
  <2> QED
    BY <2>6, <2>8 DEF ReferencesAreExact
<1>7. \A j \in Ids : /\ j # i => rights'[j] = rights[j] /\ modes'[j] = modes[j]
                     /\ j # i => start'[j] = start[j] /\ dead'[j] = dead[j]
  BY DEF TypeOK
<1>8. rights'[i] = r /\ modes'[i] = ms /\ start'[i] = 0 /\ dead'[i] = 0
  BY DEF TypeOK
<1>9. \A j \in Ids : j # i /\ Allocated(j) => parent[j] # i
  BY <1>2 DEF Children
<1>10. AuthorityShrinks'
  BY <1>0, <1>3, <1>4, <1>7, <1>8, <1>9 DEF AuthorityShrinks, TypeOK
<1>11. DeathIsInherited'
  BY <1>0, <1>3, <1>4, <1>7, <1>8, <1>9 DEF DeathIsInherited, TypeOK
<1> QED
  BY <1>1, <1>5, <1>6, <1>10, <1>11

(* A capability that is found is of a living identity.                     *)
LEMMA FoundIsAlive ==
  ASSUME IInv, NEW x \in Places, cap_lookup(x)
  PROVE  slots[x] \in Ids /\ Allocated(slots[x]) /\ dead[slots[x]] = 0
  BY DEF IInv, TypeOK, cap_lookup, cap_identity_is_alive, ReferencesAreExact

(* A new reference to a living identity is counted.                        *)
LEMMA CopyIInv ==
  ASSUME IInv, NEW x \in Places, NEW y \in Places, cap_copy(x, y)
  PROVE  IInv'
<1> DEFINE i == slots[x]
<1> USE DEF IInv, cap_copy, Ready, Allocated, callVars, idVars
<1>1. i \in Ids /\ Allocated(i)
  BY FoundIsAlive
<1>2. TypeOK'
  BY <1>1 DEF TypeOK
<1>3. \A j : Children(j)' = Children(j)
  BY DEF Children
<1>4. Supporting'
  BY DEF Supporting
<1>5. AuthorityShrinks' /\ DeathIsInherited'
  BY DEF AuthorityShrinks, DeathIsInherited
<1>6. Holders(i)' = Holders(i) \cup {y} /\ y \notin Holders(i)
  BY <1>1 DEF Holders, TypeOK
<1>7. Cardinality(Holders(i)') = Cardinality(Holders(i)) + 1
  BY <1>6, HoldersFinite, FS_AddElement
<1>8. \A j \in Ids : j # i => Holders(j)' = Holders(j) /\ refs'[j] = refs[j]
  BY <1>1 DEF Holders, TypeOK
<1>9. refs'[i] = refs[i] + 1 /\ refs[i] \in Nat
  BY <1>1 DEF TypeOK
<1>10. \A z \in Places : slots'[z] # NoId => Allocated(slots[z])'
  BY <1>1 DEF ReferencesAreExact, TypeOK
<1>11. ASSUME NEW j \in Ids, Allocated(j)'
       PROVE  /\ refs'[j] = Cardinality(Holders(j)')
              /\ parent'[j] # NoId => Allocated(parent[j])'
              /\ \/ refs'[j] > 0 \/ Children(j)' # {}
                 \/ pc' = "free" /\ victim' = j
                 \/ pc' = "hung"
  <2>1. CASE j = i
    BY <2>1, <1>1, <1>7, <1>9 DEF ReferencesAreExact
  <2>2. CASE j # i
    BY <2>2, <1>3, <1>8, <1>11 DEF ReferencesAreExact
  <2> QED
    BY <2>1, <2>2
<1>12. ReferencesAreExact'
  BY <1>10, <1>11 DEF ReferencesAreExact
<1> QED
  BY <1>2, <1>4, <1>5, <1>12

(* Dropping a reference: the count follows, and what is needed no more is  *)
(* about to be freed.                                                      *)
LEMMA DropIInv ==
  ASSUME IInv, pc = "idle", NEW x \in Places, Drop(x)
  PROVE  IInv'
<1> USE DEF IInv, Drop, Allocated, idVars
<1>1. PICK i \in Ids : i = slots[x] /\ Allocated(i) /\ refs[i] \in Nat \ {0}
  BY HeldIsCounted
<1>2. refs' = [refs EXCEPT ![i] = refs[i] - 1] /\ refs'[i] = refs[i] - 1
  BY <1>1 DEF TypeOK
<1>3. TypeOK'
  <2>1. refs' \in [Ids -> Nat]
    BY <1>1, <1>2 DEF TypeOK
  <2>2. /\ pc' \in {"idle", "free", "revoke", "hung"} /\ victim' \in Ids \cup {NoId}
        /\ pc' = "free" => victim' # NoId
        /\ pc' # "revoke"
    BY <1>1 DEF TypeOK
  <2> QED
    BY <2>1, <2>2 DEF TypeOK
<1>4. \A j : Children(j)' = Children(j)
  BY DEF Children
<1>5. Supporting'
  BY <1>1, <1>2, <1>4 DEF Supporting, Last, Unneeded
<1>6. AuthorityShrinks' /\ DeathIsInherited'
  BY DEF AuthorityShrinks, DeathIsInherited
<1>7. Holders(i)' = Holders(i) \ {x} /\ x \in Holders(i)
  BY <1>1 DEF Holders, TypeOK
<1>8. Cardinality(Holders(i)') = Cardinality(Holders(i)) - 1
  BY <1>7, HoldersFinite, FS_RemoveElement
<1>9. \A j \in Ids : j # i => Holders(j)' = Holders(j) /\ refs'[j] = refs[j]
  BY <1>1 DEF Holders, TypeOK
<1>10. \A z \in Places : slots'[z] # NoId => Allocated(slots[z])'
  BY DEF ReferencesAreExact, TypeOK
<1>11. ASSUME NEW j \in Ids, Allocated(j)'
       PROVE  /\ refs'[j] = Cardinality(Holders(j)')
              /\ parent'[j] # NoId => Allocated(parent[j])'
              /\ \/ refs'[j] > 0 \/ Children(j)' # {}
                 \/ pc' = "free" /\ victim' = j
                 \/ pc' = "hung"
  <2>1. CASE j = i
    <3>1. refs'[j] = Cardinality(Holders(j)')
      BY <2>1, <1>1, <1>2, <1>8 DEF ReferencesAreExact
    <3>2. parent'[j] # NoId => Allocated(parent[j])'
      BY <2>1, <1>1 DEF ReferencesAreExact
    <3>3. ~Last(x) => refs'[j] > 0
      BY <2>1, <1>1, <1>2 DEF Last
    <3>4. Last(x) => Children(j)' # {} \/ (pc' = "free" /\ victim' = j) \/ pc' = "hung"
      BY <2>1, <1>1, <1>4 DEF Unneeded
    <3> QED
      BY <3>1, <3>2, <3>3, <3>4
  <2>2. CASE j # i
    BY <2>2, <1>4, <1>9, <1>11 DEF ReferencesAreExact
  <2> QED
    BY <2>1, <2>2
<1>12. ReferencesAreExact'
  BY <1>10, <1>11 DEF ReferencesAreExact
<1> QED
  BY <1>3, <1>5, <1>6, <1>12

(* Freeing an identity: nothing refers to it, and its parent is freed next *)
(* exactly if nothing else needs that.                                     *)
LEMMA FreeIInv == IInv /\ cap_identity_free => IInv'
<1> SUFFICES ASSUME IInv, cap_identity_free PROVE IInv'
  OBVIOUS
<1> USE DEF IInv, cap_identity_free, Allocated
<1>1. PICK v \in Ids : v = victim /\ Allocated(v) /\ refs[v] = 0 /\ Children(v) = {}
  BY DEF Supporting, TypeOK
<1>2. \A j \in Ids : parent[j] # v
  BY <1>1 DEF Children
<1>3. \A j \in Ids : j # v =>
         /\ type'[j] = type[j] /\ rights'[j] = rights[j] /\ modes'[j] = modes[j]
         /\ parent'[j] = parent[j] /\ start'[j] = start[j] /\ dead'[j] = dead[j]
  BY <1>1 DEF TypeOK
<1>4. type'[v] = "FREE" /\ parent'[v] = NoId
  BY <1>1 DEF TypeOK
<1>5. PICK p \in Ids \cup {NoId} :
         p = parent[v] /\ (p # NoId => Allocated(p) /\ p # v)
  BY <1>1, <1>2 DEF TypeOK, ReferencesAreExact
<1>6. \A j \in Ids : Children(j)' = Children(j) \ {v}
  BY <1>1, <1>3, <1>4 DEF Children
<1>7. TypeOK'
  BY <1>1, <1>5 DEF TypeOK, Types, FreeParent, Family
<1>8. Supporting'
  <2>1. \A j \in Ids : ~Allocated(j)' => parent'[j] = NoId
    BY <1>3, <1>4 DEF Supporting
  <2>2. CASE FreeParent(p, v)
    <3>1. p \in Ids /\ Allocated(p)' /\ refs'[p] = 0 /\ Children(p)' = {}
      BY <2>2, <1>3, <1>5, <1>6 DEF FreeParent
    <3>2. victim' = p /\ pc' = "free"
      BY <2>2, <1>1, <1>5
    <3> QED
      BY <3>1, <3>2, <2>1 DEF Supporting, Children
  <2>3. CASE ~FreeParent(p, v)
    BY <2>1, <2>3, <1>1, <1>5 DEF Supporting
  <2> QED
    BY <2>2, <2>3
<1>9. \A z \in Places : slots[z] # v
  <2>1. Cardinality(Holders(v)) = 0
    BY <1>1 DEF ReferencesAreExact
  <2>2. Holders(v) = {}
    BY <2>1, HoldersFinite, FS_EmptySet
  <2> QED
    BY <2>2 DEF Holders
<1>10. \A z \in Places : slots'[z] # NoId => Allocated(slots[z])'
  BY <1>3, <1>9 DEF ReferencesAreExact, TypeOK
<1>11. ASSUME NEW j \in Ids, Allocated(j)'
       PROVE  /\ refs'[j] = Cardinality(Holders(j)')
              /\ parent'[j] # NoId => Allocated(parent[j])'
              /\ \/ refs'[j] > 0 \/ Children(j)' # {}
                 \/ pc' = "free" /\ victim' = j
                 \/ pc' = "hung"
  <2>1. j # v /\ Allocated(j)
    BY <1>3, <1>4, <1>11
  <2>2. Holders(j)' = Holders(j)
    BY DEF Holders
  <2>3. refs'[j] = Cardinality(Holders(j)')
    BY <2>1, <2>2 DEF ReferencesAreExact
  <2>4. parent'[j] # NoId => Allocated(parent[j])'
    BY <2>1, <1>2, <1>3 DEF ReferencesAreExact, TypeOK
  <2>5. refs[j] \in Nat /\ (refs[j] > 0 \/ Children(j) # {})
    BY <2>1, <1>1 DEF ReferencesAreExact, TypeOK
  <2>6. CASE refs[j] > 0 \/ Children(j) \ {v} # {}
    BY <2>3, <2>4, <2>6, <1>6
  <2>7. CASE refs[j] = 0 /\ Children(j) = {v}
    <3>1. j = p
      BY <2>7, <1>1, <1>5 DEF Children
    <3> QED
      BY <2>3, <2>4, <2>7, <3>1, <1>1, <1>5 DEF FreeParent
  <2>8. Children(j) = {v} \/ Children(j) \ {v} # {} \/ Children(j) = {}
    OBVIOUS
  <2> HIDE DEF IInv, cap_identity_free
  <2>9. (refs[j] > 0 \/ Children(j) \ {v} # {}) \/ (refs[j] = 0 /\ Children(j) = {v})
    BY <2>5, <2>8
  <2> QED
    BY <2>6, <2>7, <2>9
<1>12. ReferencesAreExact'
  BY <1>10, <1>11 DEF ReferencesAreExact
<1>13. AuthorityShrinks'
  <2>1. AuthorityShrinks /\ parent \in [Ids -> Ids \cup {NoId}]
    BY DEF TypeOK
  <2> HIDE DEF IInv, cap_identity_free
  <2>2. ASSUME NEW j \in Ids, Allocated(j)', parent'[j] # NoId
        PROVE  /\ rights'[j] \subseteq rights'[parent'[j]]
               /\ modes'[j] \subseteq modes'[parent'[j]]
               /\ type'[j] # type'[parent'[j]] => type'[parent'[j]] = "RAM"
    <3>1. j # v /\ parent'[j] = parent[j]
      BY <1>3, <1>4, <2>2
    <3>2. PICK q \in Ids : q = parent[j] /\ q # v
      BY <1>2, <2>1, <2>2, <3>1
    <3>3. /\ type'[j] = type[j] /\ rights'[j] = rights[j] /\ modes'[j] = modes[j]
          /\ type'[q] = type[q] /\ rights'[q] = rights[q] /\ modes'[q] = modes[q]
      BY <1>3, <3>1, <3>2
    <3>4. /\ rights[j] \subseteq rights[q]
          /\ modes[j] \subseteq modes[q]
          /\ type[j] # type[q] => type[q] = "RAM"
      BY <2>1, <2>2, <3>1, <3>2, <3>3 DEF AuthorityShrinks
    <3> QED
      BY <3>1, <3>2, <3>3, <3>4
  <2> QED
    BY <2>2 DEF AuthorityShrinks
<1>14. DeathIsInherited'
  BY <1>2, <1>3, <1>4 DEF DeathIsInherited, TypeOK
<1> QED
  BY <1>7, <1>8, <1>12, <1>13, <1>14

(* Popping a stack leaves one that is shorter by one.                      *)
LEMMA PopProperties ==
  ASSUME NEW S, NEW s \in Seq(S), s # <<>>
  PROVE  LET rest == SubSeq(s, 1, Len(s) - 1)
         IN  rest \in Seq(S) /\ Len(rest) = Len(s) - 1
<1> DEFINE n == Len(s) - 1
           rest == SubSeq(s, 1, n)
<1>1. Len(s) \in Nat \ {0} /\ n \in Nat
  BY EmptySeq, LenProperties
<1>2. \A k \in 1 .. n : s[k] \in S
  BY <1>1, ElementOfSeq
<1>3. rest \in Seq(S) /\ Len(rest) = IF 1 <= n THEN n - 1 + 1 ELSE 0
  BY <1>1, <1>2, SubSeqProperties
<1>4. Len(rest) = n
  <2> HIDE DEF rest, n
  <2> QED
    BY <1>1, <1>3
<1> QED
  BY <1>3, <1>4

(* Marking an identity whose children are all marked.                      *)
LEMMA MarkIInv == IInv /\ (MarkAndReturn \/ MarkAndStop) => IInv'
<1> SUFFICES ASSUME IInv, MarkAndReturn \/ MarkAndStop PROVE IInv'
  OBVIOUS
<1> USE DEF IInv, MarkAndReturn, MarkAndStop, Mark, Allocated, idVars
<1>1. Len(stack) \in Nat \ {0}
  BY EmptySeq, LenProperties DEF TypeOK
<1>0. PICK top \in Ids : top = Top
  BY <1>1, ElementOfSeq DEF TypeOK, Top
<1>2. epoch \in Nat /\ epoch > 0
  BY DEF TypeOK, Supporting
<1>3. TypeOK'
  <2> DEFINE rest == SubSeq(stack, 1, Len(stack) - 1)
  <2>1. rest \in Seq(Ids) /\ Len(rest) = Len(stack) - 1
    BY PopProperties DEF TypeOK
  <2>2. Len(stack) # 1 => rest # <<>>
    <3> HIDE DEF rest
    <3> QED
      BY <1>1, <2>1
  <2>3. stack' \in Seq(Ids) /\ (pc' = "revoke" => stack' # <<>>)
    BY <2>1, <2>2, EmptySeq
  <2>4. dead' \in [Ids -> Nat]
    BY <1>0, <1>2 DEF TypeOK
  <2>5. self' \in {"yes", "no"} /\ lock' \in {"free", "held"} /\ pc' \in {"idle", "revoke"}
    BY DEF TypeOK
  <2> QED
    BY <2>3, <2>4, <2>5 DEF TypeOK
<1>4. \A j : Children(j)' = Children(j) /\ Holders(j)' = Holders(j)
  BY DEF Children, Holders
<1>5. Supporting'
  BY <1>4 DEF Supporting
<1>6. AuthorityShrinks'
  BY DEF AuthorityShrinks
<1>7. ReferencesAreExact'
  BY <1>4 DEF ReferencesAreExact
<1>8. \A j \in Ids : parent[j] = top => dead[j] = epoch
  BY <1>0 DEF Pending, Children
<1>9. \A j \in Ids : dead'[j] = IF j = top THEN epoch ELSE dead[j]
  BY <1>0 DEF TypeOK
<1>10. ASSUME NEW j \in Ids, Allocated(j), parent[j] # NoId, dead'[parent[j]] # 0
       PROVE  dead'[j] # 0
  <2>1. parent[j] \in Ids
    BY <1>10 DEF TypeOK
  <2>2. CASE parent[j] = top
    <3> HIDE DEF IInv, MarkAndReturn, MarkAndStop, Mark
    <3>1. dead[j] = epoch
      BY <2>2, <1>8
    <3>2. dead'[j] = epoch
      BY <3>1, <1>9
    <3> QED
      BY <3>2, <1>2
  <2>3. CASE parent[j] # top
    BY <2>1, <2>3, <1>2, <1>9, <1>10 DEF DeathIsInherited
  <2> QED
    BY <2>2, <2>3
<1>11. DeathIsInherited'
  BY <1>10 DEF DeathIsInherited
<1> QED
  BY <1>3, <1>5, <1>6, <1>7, <1>11

(* The operations that change no identity and no slot.                     *)
LEMMA OtherIInv ==
  ASSUME IInv,
         \/ \E x \in Places : cnode_destroy(x)
         \/ \E x \in Places, own \in {"yes", "no"} : cap_revoke(x, own)
         \/ Descend
         \/ Spin
         \/ \E m \in Modes : ChangeMode(m)
         \/ UNCHANGED vars
  PROVE  IInv'
<1> USE DEF IInv, Allocated, idVars, callVars, Ready
<1>1. UNCHANGED <<slots, type, rights, modes, parent, start, dead, refs, victim, freed>>
  BY DEF cnode_destroy, cap_revoke, Descend, Spin, ChangeMode, vars
<1>2. \A j : Children(j)' = Children(j) /\ Holders(j)' = Holders(j)
  BY <1>1 DEF Children, Holders
<1>3. AuthorityShrinks' /\ DeathIsInherited'
  BY <1>1 DEF AuthorityShrinks, DeathIsInherited
<1>4. (pc' = "free") = (pc = "free") /\ (pc' = "hung" \/ pc # "hung")
  BY DEF cnode_destroy, cap_revoke, Descend, Spin, ChangeMode, vars
<1>5. ReferencesAreExact'
  BY <1>1, <1>2, <1>4 DEF ReferencesAreExact
<1>6. pc' = "revoke" => epoch' > 0
  <2>1. epoch \in Nat /\ (pc = "revoke" => epoch > 0)
    BY DEF Supporting, TypeOK
  <2>2. epoch' = epoch + 1 \/ (epoch' = epoch /\ (pc' = "revoke" => pc = "revoke"))
    BY DEF cnode_destroy, cap_revoke, Descend, Spin, ChangeMode, vars
  <2> HIDE DEF IInv, Ready
  <2> QED
    BY <2>1, <2>2
<1>7. Supporting'
  BY <1>1, <1>2, <1>4, <1>6 DEF Supporting
<1>8. TypeOK'
  <2>1. CASE \E x \in Places : cnode_destroy(x)
    BY <2>1 DEF cnode_destroy, TypeOK
  <2>2. ASSUME NEW x \in Places, NEW own \in {"yes", "no"}, cap_revoke(x, own)
        PROVE  TypeOK'
    <3>1. slots[x] \in Ids
      BY <2>2, FoundIsAlive DEF cap_revoke
    <3> QED
      BY <2>2, <3>1 DEF cap_revoke, TypeOK
  <2>3. CASE Descend
    <3>1. PICK c \in Ids : stack' = Append(stack, c)
      BY <2>3 DEF Descend, Pending, Children
    <3>2. stack \in Seq(Ids)
      BY DEF TypeOK
    <3>3. stack' \in Seq(Ids) /\ stack' # <<>>
      <4> HIDE DEF IInv
      <4> QED
        BY <3>1, <3>2, AppendProperties
    <3> QED
      BY <2>3, <3>3 DEF Descend, TypeOK
  <2>4. CASE Spin
    BY <2>4 DEF Spin, TypeOK
  <2>5. CASE \E m \in Modes : ChangeMode(m)
    BY <2>5 DEF ChangeMode, TypeOK
  <2>6. CASE UNCHANGED vars
    BY <2>6 DEF vars, TypeOK
  <2> QED
    BY <2>1, <2>2, <2>3, <2>4, <2>5, <2>6
<1> QED
  BY <1>3, <1>5, <1>7, <1>8

(* Every step preserves the invariant.                                     *)
LEMMA NextIInv == IInv /\ [Next]_vars => IInv'
<1> SUFFICES ASSUME IInv, [Next]_vars PROVE IInv'
  OBVIOUS
<1>1. ASSUME NEW i \in Ids, NEW x \in Places, NEW t \in {"RAM", "SCHED"}, Endow(i, x, t)
      PROVE  IInv'
  <2>1. Ready /\ Create(i, x, t, Rights, Modes, NoId, 0) /\ t \in Types
    BY <1>1 DEF Endow, Types
  <2> QED
    BY <2>1, CreateIInv
<1>2. ASSUME NEW i \in Ids, NEW x \in Places, NEW y \in Places,
             NEW r \in SUBSET Rights, NEW ms \in SUBSET Modes, cap_mint(i, x, y, r, ms)
      PROVE  IInv'
  <2>1. PICK p \in Ids : p = slots[x] /\ Allocated(p) /\ dead[p] = 0
    BY <1>2, FoundIsAlive DEF cap_mint
  <2>2. Ready /\ Create(i, y, type[p], r, modes[p] \cap ms, p, 0) /\ r \subseteq rights[p]
    BY <1>2, <2>1 DEF cap_mint
  <2>3. type[p] \in Types
    BY <2>1 DEF IInv, TypeOK, Allocated
  <2> QED
    BY <2>1, <2>2, <2>3, CreateIInv
<1>3. ASSUME NEW i \in Ids, NEW x \in Places, NEW y \in Places, cap_retype(i, x, y)
      PROVE  IInv'
  <2>1. PICK p \in Ids : p = slots[x] /\ Allocated(p) /\ dead[p] = 0
    BY <1>3, FoundIsAlive DEF cap_retype
  <2>2. /\ Ready /\ Create(i, y, "ENDPOINT", rights[p], modes[p], p, 0)
        /\ type[p] = "RAM" /\ "ENDPOINT" \in Types
    BY <1>3, <2>1 DEF cap_retype, Types
  <2>3. rights[p] \in SUBSET Rights /\ modes[p] \in SUBSET Modes
    BY DEF IInv, TypeOK
  <2> QED
    BY <2>1, <2>2, <2>3, CreateIInv
<1>4. ASSUME NEW x \in Places, cap_delete(x) \/ DestroySlot(x)
      PROVE  IInv'
  BY <1>4, DropIInv DEF cap_delete, DestroySlot, Ready
<1>5. ASSUME NEW x \in Places, NEW y \in Places, cap_copy(x, y)
      PROVE  IInv'
  BY <1>5, CopyIInv
<1>6. CASE cap_identity_free
  BY <1>6, FreeIInv
<1>7. CASE MarkAndReturn \/ MarkAndStop
  BY <1>7, MarkIInv
<1>8. CASE \/ \E x \in Places : cnode_destroy(x)
           \/ \E x \in Places, own \in {"yes", "no"} : cap_revoke(x, own)
           \/ Descend
           \/ Spin
           \/ \E m \in Modes : ChangeMode(m)
           \/ UNCHANGED vars
  BY <1>8, OtherIInv
<1> QED
  BY <1>1, <1>2, <1>3, <1>4, <1>5, <1>6, <1>7, <1>8 DEF Next

-----------------------------------------------------------------------------
(* The inductive invariant holds in every reachable state.                 *)
THEOREM CapabilityInvariant == Spec => []IInv
  BY InitIInv, NextIInv, PTL DEF Spec

(* The capability model is type-correct: in particular a free always has   *)
(* an identity to free, and a reference count never goes below zero.       *)
THEOREM CapabilityTypeCorrect == Spec => []TypeOK
<1>1. IInv => TypeOK
  BY DEF IInv
<1> QED
  BY CapabilityInvariant, <1>1, PTL

(* cap_delete and cap_identity_free leave no dangling reference and leak   *)
(* no identity, whatever was minted, copied, retyped and destroyed before. *)
THEOREM ReferencesExact == Spec => []ReferencesAreExact
<1>1. IInv => ReferencesAreExact
  BY DEF IInv
<1> QED
  BY CapabilityInvariant, <1>1, PTL

(* cap_mint and cap_retype never make an identity with a right or a mode   *)
(* that its parent has not.                                                *)
THEOREM AuthorityOnlyShrinks == Spec => []AuthorityShrinks
<1>1. IInv => AuthorityShrinks
  BY DEF IInv
<1> QED
  BY CapabilityInvariant, <1>1, PTL

(* cap_revoke_tree never leaves a child alive below a dead parent, not     *)
(* even when it is cut off.                                                *)
THEOREM DeathInherited == Spec => []DeathIsInherited
<1>1. IInv => DeathIsInherited
  BY DEF IInv
<1> QED
  BY CapabilityInvariant, <1>1, PTL
=============================================================================
