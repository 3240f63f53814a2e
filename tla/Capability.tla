----------------------------- MODULE Capability -----------------------------
(***************************************************************************)
(* Capability spaces and lineage, of kernel/capability.c: slots that refer *)
(* to identities, identities that are derived from one another, and the    *)
(* reference counts and links by which they are freed.                     *)
(*                                                                         *)
(* Kernel code runs with interrupts off, so an operation is one step,      *)
(* except where it recurses: freeing an identity may free its parent, and  *)
(* revocation walks a tree.  Each call of those is a step, and nothing     *)
(* else happens meanwhile.  A process that revokes its own scheduling      *)
(* authority never returns from the walk: it is descheduled for good       *)
(* inside it, with lineage_lock held.                                      *)
(***************************************************************************)
EXTENDS Integers, Sequences, FiniteSets

CONSTANTS
    Ids,       \* memory for identities: a freed one is used again
    NoId,      \* the null pointer
    Places,    \* the slots of all capability spaces
    Space,     \* Space[x]: the capability space the slot x belongs to
    Rights,    \* rights; "GRANT" is one of them
    Modes,
    MaxEpoch   \* bound on the number of revocations

ASSUME CapabilityAssumption ==
    /\ NoId \notin Ids
    /\ IsFiniteSet(Places)
    /\ IsFiniteSet(Ids)
    /\ MaxEpoch \in Nat

\* "SCHED" stands for the scheduling authorities, "FREE" for free memory.
Types == {"RAM", "ENDPOINT", "SCHED"}

VARIABLES
    mode,      \* the current mode
    slots,     \* slots[x]: the identity in slot x
    type, rights, modes, parent,
    start,     \* parent_epoch_start
    dead,      \* revocation_epoch, 0 while alive
    refs,      \* ref_count
    epoch,     \* global_revocation_epoch
    pc,        \* "idle", "free", "revoke", or "hung": spinning on a lock
    victim,    \* the identity being freed
    stack,     \* the identities cap_revoke_tree has been called for
    self,      \* "yes" if it is the caller's own authority that is revoked
    lock,      \* lineage_lock: "held" by a caller that will not return
    doomed,    \* slots of a space that is being destroyed
    freed      \* identities whose object was given to kfree

idVars == <<type, rights, modes, parent, start>>
callVars == <<victim, stack, self, doomed>>
vars == <<mode, slots, idVars, dead, refs, epoch, pc, callVars, lock, freed>>

TypeOK ==
    /\ mode \in Modes
    /\ slots \in [Places -> Ids \cup {NoId}]
    /\ type \in [Ids -> Types \cup {"FREE"}]
    /\ rights \in [Ids -> SUBSET Rights]
    /\ modes \in [Ids -> SUBSET Modes]
    /\ parent \in [Ids -> Ids \cup {NoId}]
    /\ start \in [Ids -> Nat]
    /\ dead \in [Ids -> Nat]
    /\ refs \in [Ids -> Nat]
    /\ epoch \in Nat
    /\ pc \in {"idle", "free", "revoke", "hung"}
    /\ victim \in Ids \cup {NoId}
    /\ pc = "free" => victim # NoId
    /\ stack \in Seq(Ids)
    /\ pc = "revoke" => stack # <<>>
    /\ self \in {"yes", "no"}
    /\ lock \in {"free", "held"}
    /\ doomed \subseteq Places
    /\ freed \subseteq Ids

Holders(i) == {x \in Places : slots[x] = i}
Children(i) == {c \in Ids : parent[c] = i}

\* cap_identity_is_alive: the walk from i to the root of its lineage.
Lineage(i) ==
    LET up[n \in 0 .. Cardinality(Ids)] ==
          IF n = 0 THEN i
          ELSE IF up[n - 1] = NoId THEN NoId ELSE parent[up[n - 1]]
    IN  {up[n] : n \in 0 .. Cardinality(Ids)} \ {NoId}

\* The identities that share an object: mint and retype hand it down.
Family(i) == {j \in Ids : Lineage(j) \cap Lineage(i) # {}}

cap_identity_is_alive(i) ==
    /\ dead[i] = 0
    /\ \A c \in Lineage(i) : parent[c] # NoId => dead[parent[c]] = start[c]

cap_lookup(x) ==
    /\ slots[x] # NoId
    /\ cap_identity_is_alive(slots[x])
    /\ mode \in modes[slots[x]]

-----------------------------------------------------------------------------
Init ==
    /\ mode \in Modes
    /\ slots = [x \in Places |-> NoId]
    /\ type = [i \in Ids |-> "FREE"]
    /\ rights = [i \in Ids |-> {}]
    /\ modes = [i \in Ids |-> {}]
    /\ parent = [i \in Ids |-> NoId]
    /\ start = [i \in Ids |-> 0]
    /\ dead = [i \in Ids |-> 0]
    /\ refs = [i \in Ids |-> 0]
    /\ epoch = 0
    /\ pc = "idle"
    /\ victim = NoId
    /\ stack = <<>>
    /\ self = "no"
    /\ lock = "free"
    /\ doomed = {}
    /\ freed = {}

Ready == pc = "idle" /\ doomed = {}

\* cap_identity_create and cap_insert of a new identity
Create(i, x, t, r, ms, p, s) ==
    /\ type[i] = "FREE"
    /\ slots[x] = NoId
    /\ ms # {}
    /\ slots' = [slots EXCEPT ![x] = i]
    /\ type' = [type EXCEPT ![i] = t]
    /\ rights' = [rights EXCEPT ![i] = r]
    /\ modes' = [modes EXCEPT ![i] = ms]
    /\ parent' = [parent EXCEPT ![i] = p]
    /\ start' = [start EXCEPT ![i] = s]
    /\ dead' = [dead EXCEPT ![i] = 0]
    /\ refs' = [refs EXCEPT ![i] = 1]
    /\ freed' = IF p \in freed THEN freed \cup {i} ELSE freed
    /\ UNCHANGED <<mode, epoch, pc, callVars, lock>>

\* The kernel gives a process an identity that is derived from no other.
Endow(i, x, t) == Ready /\ Create(i, x, t, Rights, Modes, NoId, 0)

Related(x, y) == Space[x] = Space[y]

\* Fault: the rights of the parent are not looked at.
cap_mint_AnyRights(i, x, y, r, ms) ==
    /\ Ready /\ lock = "free" /\ Related(x, y)
    /\ cap_lookup(x)
    /\ "GRANT" \in rights[slots[x]]
    /\ Create(i, y, type[slots[x]], r, modes[slots[x]] \cap ms, slots[x],
              dead[slots[x]])

cap_mint(i, x, y, r, ms) ==
    /\ Ready /\ lock = "free" /\ Related(x, y)
    /\ cap_lookup(x)
    /\ "GRANT" \in rights[slots[x]]
    /\ r \subseteq rights[slots[x]]
    /\ Create(i, y, type[slots[x]], r, modes[slots[x]] \cap ms, slots[x],
              dead[slots[x]])

cap_retype(i, x, y) ==
    /\ Ready /\ lock = "free" /\ Related(x, y)
    /\ cap_lookup(x)
    /\ "GRANT" \in rights[slots[x]]
    /\ type[slots[x]] = "RAM"
    /\ Create(i, y, "ENDPOINT", rights[slots[x]], modes[slots[x]], slots[x],
              dead[slots[x]])

cap_copy(x, y) ==
    /\ Ready /\ Related(x, y)
    /\ cap_lookup(x)
    /\ "GRANT" \in rights[slots[x]]
    /\ slots[y] = NoId
    /\ slots' = [slots EXCEPT ![y] = slots[x]]
    /\ refs' = [refs EXCEPT ![slots[x]] = @ + 1]
    /\ UNCHANGED <<mode, idVars, dead, epoch, pc, callVars, lock, freed>>

-----------------------------------------------------------------------------
(* Deletion.  The last reference is dropped under lineage_lock.            *)

Last(x) == refs[slots[x]] = 1

\* Fault: an identity is freed although others are derived from it.
Unneeded_Parent(i) == TRUE

Unneeded(i) == Children(i) = {}

Drop(x) ==
    /\ slots[x] # NoId
    /\ slots' = [slots EXCEPT ![x] = NoId]
    /\ refs' = [refs EXCEPT ![slots[x]] = @ - 1]
    /\ doomed' = doomed \ {x}
    /\ \/ Last(x) /\ lock = "held" /\ pc' = "hung" /\ victim' = victim
       \/ /\ Last(x) /\ lock = "free" /\ Unneeded(slots[x])
          /\ pc' = "free" /\ victim' = slots[x]
       \/ /\ ~Last(x) \/ (lock = "free" /\ ~Unneeded(slots[x]))
          /\ UNCHANGED <<pc, victim>>
    /\ UNCHANGED <<mode, idVars, dead, epoch, stack, self, lock, freed>>

cap_delete(x) == Ready /\ Drop(x)

FreeParent(p, i) == p # NoId /\ refs[p] = 0 /\ Children(p) = {i}

\* The object is freed, the identity unlinked, cleared and freed; then its
\* parent, if nothing else needs that.
cap_identity_free ==
    /\ pc = "free"
    /\ type' = [type EXCEPT ![victim] = "FREE"]
    /\ rights' = [rights EXCEPT ![victim] = {}]
    /\ modes' = [modes EXCEPT ![victim] = {}]
    /\ parent' = [parent EXCEPT ![victim] = NoId]
    /\ start' = [start EXCEPT ![victim] = 0]
    /\ dead' = [dead EXCEPT ![victim] = 0]
    /\ freed' = (freed \cup Family(victim)) \ {victim}
    /\ IF FreeParent(parent[victim], victim)
       THEN victim' = parent[victim] /\ pc' = pc
       ELSE victim' = NoId /\ pc' = "idle"
    /\ UNCHANGED <<mode, slots, refs, epoch, stack, self, lock, doomed>>

\* cnode_destroy: every slot is deleted in turn.
cnode_destroy(x) ==
    /\ Ready
    /\ slots[x] # NoId
    /\ doomed' = {y \in Places : Related(x, y) /\ slots[y] # NoId}
    /\ UNCHANGED <<mode, slots, idVars, dead, refs, epoch, pc, victim, stack,
                   self, lock, freed>>

DestroySlot(x) == pc = "idle" /\ x \in doomed /\ Drop(x)

-----------------------------------------------------------------------------
\* own: the caller is a thread of the process (or the thread) that a
\* scheduling authority in slot x is for.
cap_revoke(x, own) ==
    /\ Ready /\ lock = "free"
    /\ cap_lookup(x)
    /\ own = "yes" => type[slots[x]] = "SCHED"
    /\ epoch < MaxEpoch
    /\ epoch' = epoch + 1
    /\ pc' = "revoke"
    /\ stack' = <<slots[x]>>
    /\ self' = own
    /\ UNCHANGED <<mode, slots, idVars, dead, refs, victim, doomed, lock, freed>>

Top == stack[Len(stack)]

\* Fault: no child is visited.
Pending_None(i) == {}

\* Children for which the call has not returned.
Pending(i) == {c \in Children(i) : dead[c] # epoch}

\* cap_revoke_tree: the children first ...
Descend ==
    /\ pc = "revoke"
    /\ \E c \in Pending(Top) : stack' = Append(stack, c)
    /\ UNCHANGED <<mode, slots, idVars, dead, refs, epoch, pc, victim, self,
                   lock, doomed, freed>>

Mark ==
    /\ pc = "revoke"
    /\ Pending(Top) = {}
    /\ dead' = [dead EXCEPT ![Top] = epoch]
    /\ UNCHANGED <<mode, slots, idVars, refs, epoch, victim, doomed, freed>>

\* ... then the identity.  The magic number of an object that was freed may
\* be gone, and then no thread is stopped.
MarkAndReturn ==
    /\ Mark
    /\ self = "no" \/ Top \in freed
    /\ stack' = SubSeq(stack, 1, Len(stack) - 1)
    /\ IF Len(stack) = 1
       THEN pc' = "idle" /\ self' = "no"
       ELSE UNCHANGED <<pc, self>>
    /\ lock' = lock

\* A caller that loses its own scheduling authority stops here for good, in
\* schedule(), with the lock held.
MarkAndStop ==
    /\ Mark
    /\ self = "yes"
    /\ stack' = <<>>
    /\ pc' = "idle" /\ self' = "no"
    /\ lock' = "held"

\* A thread that mints, retypes or revokes after that spins on lineage_lock,
\* with interrupts off, on the only processor.
Spin ==
    /\ Ready /\ lock = "held"
    /\ \E x \in Places : cap_lookup(x)
    /\ pc' = "hung"
    /\ UNCHANGED <<mode, slots, idVars, dead, refs, epoch, callVars, lock, freed>>

ChangeMode(m) ==
    /\ Ready
    /\ m # mode
    /\ mode' = m
    /\ UNCHANGED <<slots, idVars, dead, refs, epoch, pc, callVars, lock, freed>>

Next ==
    \/ \E i \in Ids, x \in Places : \E t \in {"RAM", "SCHED"} : Endow(i, x, t)
    \/ \E i \in Ids, x, y \in Places :
          \/ \E r \in SUBSET Rights, ms \in SUBSET Modes : cap_mint(i, x, y, r, ms)
          \/ cap_retype(i, x, y)
    \/ \E x, y \in Places : cap_copy(x, y)
    \/ \E x \in Places :
          \/ cap_delete(x)
          \/ cnode_destroy(x)
          \/ DestroySlot(x)
          \/ \E own \in {"yes", "no"} : cap_revoke(x, own)
    \/ cap_identity_free
    \/ Descend
    \/ MarkAndReturn
    \/ MarkAndStop
    \/ Spin
    \/ \E m \in Modes : ChangeMode(m)

Spec == Init /\ [][Next]_vars

-----------------------------------------------------------------------------
Allocated(i) == type[i] # "FREE"

(* No dangling reference and no leak: a slot and a parent link refer only  *)
(* to allocated identities, the reference count is the number of slots     *)
(* that refer to an identity, and an identity is allocated only while a    *)
(* slot or another identity needs it, or it is the one being freed.        *)
ReferencesAreExact ==
    /\ \A x \in Places : slots[x] # NoId => Allocated(slots[x])
    /\ \A i \in Ids : Allocated(i) =>
          /\ refs[i] = Cardinality(Holders(i))
          /\ parent[i] # NoId => Allocated(parent[i])
          /\ \/ refs[i] > 0 \/ Children(i) # {}
             \/ pc = "free" /\ victim = i
             \/ pc = "hung"

(* Authority only shrinks along the lineage: whatever is derived, copied,  *)
(* deleted and reused in between, an identity has no right and no mode     *)
(* that its parent has not, and is of the parent's type unless made from   *)
(* RAM.                                                                    *)
AuthorityShrinks ==
    \A i \in Ids : Allocated(i) /\ parent[i] # NoId =>
        /\ rights[i] \subseteq rights[parent[i]]
        /\ modes[i] \subseteq modes[parent[i]]
        /\ type[i] # type[parent[i]] => type[parent[i]] = "RAM"

(* Death is inherited at once: at no moment, not even in the middle of a   *)
(* revocation or after one that was cut off, is an identity unmarked while *)
(* its parent is marked.  The lazy check of the whole lineage at each      *)
(* lookup therefore never finds anything that the walk has not marked.     *)
DeathIsInherited ==
    \A i \in Ids : Allocated(i) /\ parent[i] # NoId =>
        /\ start[i] = 0
        /\ dead[parent[i]] # 0 => dead[i] # 0

(* capability.h: "Recursively revoke a capability and all its              *)
(* descendants."  When a revocation is over, the capability it was called  *)
(* for is dead.                                                            *)
RevokeIsComplete ==
    [][pc = "revoke" /\ pc' = "idle" => dead'[stack[1]] # 0]_vars

=============================================================================
