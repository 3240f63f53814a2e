------------------------------ MODULE Genesis ------------------------------
(***************************************************************************)
(* The first process and its authority (kernel/genesis.c): building a      *)
(* process from a boot module, SYS_GENESIS_INVOKE with its three           *)
(* operations, and the hand-over that user/genesis/main.c performs.        *)
(*                                                                         *)
(* A capability space maps slots to capability types.  A spawn that fails  *)
(* half-way gives nothing back: the process stays registered, without a    *)
(* thread, and the frames stay allocated.                                  *)
(***************************************************************************)
EXTENDS Integers, Sequences, FiniteSets, SequencesExt

CONSTANTS
    GenPids,        \* processes 1..n, 1 is the one genesis_bridge_spawn makes
    GenFrames,      \* frames available
    GenSlots,       \* slots of a capability space, 0..CNODE_SLOTS - 1
    GenRequests,    \* slots asked for: records pagetable, ram, audit, root, thread
    DelegateTypes,  \* the types and slots programs try to delegate
    DelegateSlots,
    SPAWN_AUTH_SLOT,
    IMAGE_FRAMES, STACK_FRAMES

VARIABLES
    genProg,        \* what process 1 runs: "genesis" (user/genesis) or "any" program
    genPc,          \* where user/genesis is
    genState,       \* "none", "orphan" (a failed spawn), "idle" (not queued) or "queued"
    genCaps,        \* the capability space of each process
    genBy,          \* the type of capability each process was spawned with
    genFree,        \* frames left
    genExhausted,   \* g_genesis_exhausted
    genDown         \* the kernel stopped: kpanic, or kfree of a physical address faulted

genVars == <<genProg, genPc, genState, genCaps, genBy, genFree, genExhausted, genDown>>

GenEmpty == "empty"
NoCaps == [s \in GenSlots |-> GenEmpty]
Injected == {"PAGETABLE", "RAM", "AUDITOR", "SCHED_ROOT", "SCHED_THREAD"}

GenInit ==
    /\ genProg = "any" /\ genPc = "boot"
    /\ genState = [p \in GenPids |-> "none"]
    /\ genCaps = [p \in GenPids |-> NoCaps]
    /\ genBy = [p \in GenPids |-> "none"]
    /\ genFree = GenFrames /\ genExhausted = FALSE /\ genDown = FALSE

-----------------------------------------------------------------------------
(* Building a process.  An outcome is the capability space reached, the     *)
(* frames used and the result.                                              *)

Outcome3(caps, used, res) == [caps |-> caps, used |-> used, res |-> res]

InsertOk_Fault(caps, slot) == slot \in GenSlots
InsertOk(caps, slot) == slot \in GenSlots /\ caps[slot] = GenEmpty

\* what genesis_inject_initial_caps inserts, in order; slot 0 leaves out the two optional ones
InjectOrder(req) ==
    (IF req.genesis = 0 THEN <<>> ELSE <<<<req.genesis, "GENESIS">>>>)
      \o <<<<req.pagetable, "PAGETABLE">>, <<req.ram, "RAM">>, <<req.audit, "AUDITOR">>>>
      \o (IF req.reality = 0 THEN <<>> ELSE <<<<req.reality, "REALITY_CTRL">>>>)

\* a refused page table or frame capability is freed, and its physical address given to kfree
Refusal(type) == IF type \in {"PAGETABLE", "RAM"} THEN {"fail", "down"} ELSE {"fail"}

InsertAll(order, free) ==
    LET Step(acc, e) ==
          IF acc.res # "ok" THEN acc
          ELSE IF e[2] = "RAM" /\ acc.used >= free THEN [acc EXCEPT !.res = "fail"]
          ELSE LET used == acc.used + (IF e[2] = "RAM" THEN 1 ELSE 0) IN
               IF InsertOk(acc.caps, e[1])
               THEN Outcome3([acc.caps EXCEPT ![e[1]] = e[2]], used, "ok")
               ELSE [caps |-> acc.caps, used |-> used, res |-> e[2]]
    IN FoldLeft(Step, Outcome3(NoCaps, 0, "ok"), order)

genesis_inject_initial_caps(req, free) ==
    LET o == InsertAll(InjectOrder(req), free) IN
    IF o.res \in {"ok", "fail"} THEN {o} ELSE {[o EXCEPT !.res = r] : r \in Refusal(o.res)}

\* bootinfo, image and stack frames, after the capabilities; elf_load panics without memory
MapAll(o, free) ==
    LET left == free - o.used IN
    IF left < 1 THEN [o EXCEPT !.res = "fail"]
    ELSE IF left < 1 + IMAGE_FRAMES THEN [o EXCEPT !.used = free, !.res = "down"]
    ELSE IF left < 1 + IMAGE_FRAMES + STACK_FRAMES THEN [o EXCEPT !.used = free, !.res = "fail"]
    ELSE [o EXCEPT !.used = @ + 1 + IMAGE_FRAMES + STACK_FRAMES]

\* scheduler_mint_root_auth and scheduler_derive_thread_auth
MintAuth(o, req) ==
    IF ~InsertOk(o.caps, req.root) THEN [o EXCEPT !.res = "fail"]
    ELSE LET c == [o.caps EXCEPT ![req.root] = "SCHED_ROOT"] IN
         IF ~InsertOk(c, req.thread) THEN [o EXCEPT !.caps = c, !.res = "fail"]
         ELSE [o EXCEPT !.caps = [c EXCEPT ![req.thread] = "SCHED_THREAD"]]

\* vmm_fork_pml4 takes the first frame, if there is one; thread_create may fail
genesis_spawn_process_from_module(req, free) ==
    LET forked == IF free > 0 THEN 1 ELSE 0
        injected == genesis_inject_initial_caps(req, free - forked)
        mapped == {IF o.res = "ok" THEN MapAll(o, free - forked) ELSE o : o \in injected}
        threads == UNION {IF o.res = "ok" THEN {o, [o EXCEPT !.res = "fail"]} ELSE {o} : o \in mapped}
    IN {[o EXCEPT !.used = @ + forked] :
          o \in {IF t.res = "ok" THEN MintAuth(t, req) ELSE t : t \in threads}}

\* the next pid is taken by process_create, whatever becomes of the spawn
Spawn(req, by, queue) ==
    \E o \in genesis_spawn_process_from_module(req, genFree) :
    \E p \in GenPids :
       /\ genState[p] = "none" /\ \A q \in GenPids : genState[q] = "none" => p <= q
       /\ genState' = [genState EXCEPT ![p] = IF o.res # "ok" THEN "orphan"
                                              ELSE IF queue THEN "queued" ELSE "idle"]
       /\ genCaps' = [genCaps EXCEPT ![p] = o.caps]
       /\ genBy' = [genBy EXCEPT ![p] = by]
       /\ genFree' = genFree - o.used
       /\ genDown' = (genDown \/ o.res = "down")

\* genesis_bridge_spawn: slots 1 to 7, and a panic when it fails
genesis_bridge_spawn ==
    /\ genPc = "boot" /\ ~genDown
    /\ Spawn([genesis |-> 1, pagetable |-> 2, ram |-> 3, audit |-> 4, root |-> 5, thread |-> 6,
              reality |-> 7], "bridge", TRUE)
    /\ genPc' = IF genState'[1] = "queued" THEN "spawn" ELSE "panic"
    /\ genProg' \in {"genesis", "any"} /\ UNCHANGED genExhausted

-----------------------------------------------------------------------------
(* SYS_GENESIS_INVOKE.                                                      *)

MayInvoke_Fault(p, slot, op) ==
    \/ genCaps[p][slot] = "GENESIS"
    \/ genCaps[p][slot] = "SPAWN_AUTH" /\ op = "SPAWN"
MayInvoke(p, slot, op) ==
    \/ genCaps[p][slot] = "GENESIS" /\ ~genExhausted
    \/ genCaps[p][slot] = "SPAWN_AUTH" /\ op = "SPAWN"

genesis_is_delegatable_type(type) ==
    type \in {"REALITY_CTRL", "AUDIT_WRITE", "SCHED_AUTH", "SCHED_ROOT", "SPAWN_AUTH"}

OpSpawn(p, slot, req, queue) ==
    /\ MayInvoke(p, slot, "SPAWN") /\ req.ram # 0 /\ req.audit # 0
    /\ Spawn([genesis |-> 0, reality |-> 0] @@ req, genCaps[p][slot], queue)
    /\ UNCHANGED genExhausted

\* process_find_by_pid finds orphans too
DelegateFails(p, slot, target, tslot, type) ==
    \/ ~MayInvoke(p, slot, "DELEGATE") \/ ~genesis_is_delegatable_type(type)
    \/ genState[target] = "none" \/ ~InsertOk(genCaps[target], tslot)
OpDelegate(p, slot, target, tslot, type) ==
    /\ ~DelegateFails(p, slot, target, tslot, type)
    /\ genCaps' = [genCaps EXCEPT ![target][tslot] = type]
    /\ UNCHANGED <<genState, genBy, genFree, genExhausted, genDown>>

OpDestroy(p, slot) ==
    /\ MayInvoke(p, slot, "DESTROY") /\ genExhausted' = TRUE
    /\ UNCHANGED <<genState, genCaps, genBy, genFree, genDown>>

-----------------------------------------------------------------------------
(* user/genesis: spawn Paradigm, delegate SPAWN_AUTH to it, close the       *)
(* bridge; every failure ends the process.                                  *)

Runs1 == genProg = "genesis" /\ genState[1] = "queued" /\ ~genDown

ParadigmRequest == [pagetable |-> 2, ram |-> 3, audit |-> 4, root |-> 5, thread |-> 6]

GenesisSpawns ==
    /\ Runs1 /\ genPc = "spawn"
    /\ OpSpawn(1, 1, ParadigmRequest, TRUE)
    /\ genPc' = IF genState'[2] = "queued" THEN "delegate" ELSE "exit"
    /\ UNCHANGED genProg

GenesisDelegates ==
    /\ Runs1 /\ genPc = "delegate" /\ UNCHANGED genProg
    /\ \/ OpDelegate(1, 1, 2, SPAWN_AUTH_SLOT, "SPAWN_AUTH") /\ genPc' = "destroy"
       \/ /\ DelegateFails(1, 1, 2, SPAWN_AUTH_SLOT, "SPAWN_AUTH") /\ genPc' = "exit"
          /\ UNCHANGED <<genState, genCaps, genBy, genFree, genExhausted, genDown>>

GenesisDestroys ==
    /\ Runs1 /\ genPc = "destroy" /\ UNCHANGED genProg
    /\ OpDestroy(1, 1) /\ genPc' = "closed"

\* any other program calls as it likes, and fills slots of its own
Client(p) == genState[p] = "queued" /\ ~genDown /\ (p = 1 => genProg = "any")
ClientSpawns(p) ==
    /\ Client(p) /\ \E s \in GenSlots, r \in GenRequests, q \in BOOLEAN : OpSpawn(p, s, r, q)
    /\ UNCHANGED <<genProg, genPc>>
ClientDelegates(p) ==
    /\ Client(p)
    /\ \E s \in GenSlots, ts \in DelegateSlots, q \in GenPids, type \in DelegateTypes : OpDelegate(p, s, q, ts, type)
    /\ UNCHANGED <<genProg, genPc>>
\* the slot is taken, and freeing the new scheduling root gives an arbitrary address to kfree
ClientDelegateRefused(p) ==
    /\ Client(p)
    /\ \E s \in GenSlots, ts \in DelegateSlots, q \in GenPids :
          /\ MayInvoke(p, s, "DELEGATE") /\ genState[q] # "none" /\ ~InsertOk(genCaps[q], ts)
          /\ genDown' = TRUE
    /\ UNCHANGED <<genProg, genPc, genState, genCaps, genBy, genFree, genExhausted>>
ClientDestroys(p) ==
    /\ Client(p) /\ \E s \in GenSlots : OpDestroy(p, s)
    /\ UNCHANGED <<genProg, genPc>>
ClientFills(p) ==
    /\ Client(p) /\ InsertOk(genCaps[p], SPAWN_AUTH_SLOT)
    /\ genCaps' = [genCaps EXCEPT ![p][SPAWN_AUTH_SLOT] = "RAM"]
    /\ UNCHANGED <<genProg, genPc, genState, genBy, genFree, genExhausted, genDown>>

GenNext ==
    \/ genesis_bridge_spawn \/ GenesisSpawns \/ GenesisDelegates \/ GenesisDestroys
    \/ \E p \in GenPids : \/ ClientSpawns(p) \/ ClientDelegates(p) \/ ClientDelegateRefused(p)
                           \/ ClientDestroys(p) \/ ClientFills(p)

-----------------------------------------------------------------------------
(* Properties.                                                              *)

\* The unbounded authority stays with the first process: neither a spawn nor a delegation
\* puts a GENESIS capability anywhere else (genesis_inject_initial_caps, GENESIS_OP_DELEGATE).
GenesisStaysWithTheFirst ==
    \A p \in GenPids, s \in GenSlots : genCaps[p][s] = "GENESIS" => p = 1 /\ s = 1

\* Once the bridge is closed, processes are only spawned with SPAWN_AUTH and nothing is
\* delegated any more, also to processes that a failed spawn left registered.
ClosedBridgeStaysClosed ==
    [][genExhausted =>
         /\ genExhausted'
         /\ \A p \in GenPids :
              /\ genState[p] = "none" /\ genState'[p] # "none" => genBy'[p] = "SPAWN_AUTH"
              /\ genState[p] # "none" =>
                   \A s \in GenSlots : genCaps[p][s] # genCaps'[p][s] => genCaps'[p][s] = "RAM"]_genVars

\* A queued process holds each capability it was promised: no later insert displaced one.
QueuedProcessIsEquipped ==
    \A p \in GenPids : genState[p] \in {"queued", "idle"} =>
        Injected \subseteq {genCaps[p][s] : s \in GenSlots}

\* Genesis closes the bridge only after Paradigm could be given its own spawn authority.
HandOverBeforeClosing ==
    genProg = "genesis" /\ genExhausted =>
        genState[2] = "queued" /\ genCaps[2][SPAWN_AUTH_SLOT] = "SPAWN_AUTH"

\* The bridge equips whom it starts and hands over before it closes, and what it has itself stays
\* with the first process (genesis_spawn, GENESIS_OP_DELEGATE, GENESIS_OP_DESTROY).
BridgeHandsOver == GenesisStaysWithTheFirst /\ QueuedProcessIsEquipped /\ HandOverBeforeClosing
=============================================================================
