------------------------------ MODULE Syscall ------------------------------
(***************************************************************************)
(* The dispatcher of kernel/syscall.c: the gate prologue, SYS_MAP and      *)
(* SYS_UNMAP on page-table capabilities, SYS_FRAME_ALLOC with its failure  *)
(* paths, the counters they keep and SYS_LAW2_ATTEST, which judges them.   *)
(* The capability operations are in Capability, waiting and exiting in     *)
(* Threads, endpoints in Endpoint, lattices in Lattice.                    *)
(***************************************************************************)
EXTENDS Integers, Sequences, FiniteSets

CONSTANTS
    SysCaps,            \* the caller's cspace: slot -> [type, rights, obj]; 0 is never used
    SysIndices,         \* table indices, those below SysTableSize in range
    SysTableSize,       \* 512
    SysFrames,          \* frames pmm_alloc can hand out
    SysIdents,          \* identities the cache can hand out
    LAW2_DAY28_MIN_STRICT_MAP_CALLS,
    LAW2_DAY29_MIN_STRICT_UNMAP_CALLS,
    SysMaxCalls         \* bound on the calls made

VARIABLES
    sysSlot,       \* the cspace
    sysTable,      \* page-table entries: <<table object, index>> -> entry
    sysFree,       \* free frames
    sysIdent,      \* free identities
    sysM,          \* g_sys_metrics
    sysReasons,    \* g_day29_reason_mask
    sysHalted,     \* the kernel has taken a fatal exception
    sysEvents      \* history: what calls were made and how they ended

sysVars == <<sysSlot, sysTable, sysFree, sysIdent, sysM, sysReasons, sysHalted, sysEvents>>

PteFlags == {"PRESENT", "USER", "WRITABLE", "NX"}    \* USER_PTE_ALLOWED_MASK
SysEmpty == [type |-> "none", rights |-> {}, obj |-> "none"]
NoEntry == [obj |-> "none", flags |-> {}]
Counters == {"total", "unknown", "invalid", "perm", "fault", "map", "mapStrict", "unmap",
             "unmapStrict", "unmapOk", "failParent", "failRights", "failIndex", "failChild",
             "failFlags", "flush"}
Bump(fields) == sysM' = [f \in Counters |-> IF f \in fields THEN sysM[f] + 1 ELSE sysM[f]]
Happened(e) == sysEvents' = sysEvents \cup {e}

SysTables == {SysCaps[s].obj : s \in {x \in DOMAIN SysCaps : SysCaps[x].type = "PAGETABLE"}}
SysInit ==
    /\ sysSlot = SysCaps
    /\ sysTable = [e \in SysTables \X SysIndices |-> NoEntry]
    /\ sysFree = SysFrames /\ sysIdent = SysIdents
    /\ sysM = [f \in Counters |-> 0]
    /\ sysReasons = {} /\ sysHalted = FALSE /\ sysEvents = {}

-----------------------------------------------------------------------------
(* The gate: the prologue of syscall_dispatcher and gate_op_to_legacy_sys.  *)

\* a call that is not SYS_GATE_CALL or whose operation is unknown, one whose message has a
\* bad size, and one whose message cannot be copied in
GateRejects ==
    /\ Bump({"total", "unknown", "invalid"}) \/ Bump({"total", "invalid"}) \/ Bump({"total", "fault"})
    /\ UNCHANGED <<sysSlot, sysTable, sysFree, sysIdent, sysReasons, sysHalted, sysEvents>>

-----------------------------------------------------------------------------
(* SYS_MAP and SYS_UNMAP.  A reason is the set of counters a refusal bumps. *)

\* syscall_map_validate_parent, and syscall_unmap_validate_parent but for its own counters
ParentReason(slot, index) ==
    CASE sysSlot[slot].type # "PAGETABLE" -> {"failParent", "invalid"}
      [] sysSlot[slot].type = "PAGETABLE" /\ "WRITE" \notin sysSlot[slot].rights -> {"failRights", "perm"}
      [] OTHER -> IF index >= SysTableSize THEN {"failIndex", "invalid"} ELSE {}

\* k_map_child_rules and syscall_map_validate_child
RequiredFlags(type) == IF type = "PAGETABLE" THEN {"USER", "WRITABLE"} ELSE {}
ChildReason(slot, flags) ==
    CASE sysSlot[slot].type \notin {"RAM", "PAGETABLE"} -> {"failChild", "invalid"}
      [] OTHER -> IF RequiredFlags(sysSlot[slot].type) \subseteq flags THEN {} ELSE {"failFlags", "invalid"}

MapReason(parent, index, child, flags) ==
    IF ParentReason(parent, index) # {} THEN ParentReason(parent, index)
    ELSE IF ~(flags \subseteq PteFlags) THEN {"failFlags", "invalid"}
    ELSE IF child = 0 THEN {"failChild", "invalid"}
    ELSE ChildReason(child, flags)

SafeFlags(child) ==
    {"PRESENT", "USER"} \cup (IF "WRITE" \in sysSlot[child].rights THEN {"WRITABLE"} ELSE {})
                        \cup (IF "EXECUTE" \in sysSlot[child].rights THEN {} ELSE {"NX"})

\* syscall_map_execute for an accepted request
syscall_map_execute(parent, index, child, flags) ==
    sysTable' = [sysTable EXCEPT ![sysSlot[parent].obj, index] =
                    [obj |-> sysSlot[child].obj, flags |-> flags \cap SafeFlags(child)]]

\* syscall_map_entry
syscall_map_entry(parent, index, child, flags, ctrl) ==
    LET reason == MapReason(parent, index, child, flags) IN
    /\ \/ /\ ~ctrl
          /\ Bump({"total", "failFlags", "invalid"}) /\ Happened("map.ctrl") /\ UNCHANGED sysTable
       \/ /\ ctrl /\ reason # {}
          /\ Bump({"total", "map", "mapStrict"} \cup reason)
          /\ Happened(IF "failIndex" \in reason THEN "map.index" ELSE "map.refused") /\ UNCHANGED sysTable
       \/ /\ ctrl /\ reason = {}
          /\ Bump({"total", "map", "mapStrict", "flush"}) /\ Happened("map.ok")
          /\ syscall_map_execute(parent, index, child, flags)
    /\ UNCHANGED <<sysSlot, sysFree, sysIdent, sysReasons, sysHalted>>

\* syscall_unmap_entry: every outcome leaves its bit in g_day29_reason_mask
UnmapReason(reason) ==
    CASE "failParent" \in reason -> "PARENT_DENY" [] "failRights" \in reason -> "RIGHTS_DENY"
      [] "failIndex" \in reason -> "INDEX_DENY" [] OTHER -> "AUTH_OK"
Noted(e) == sysReasons' = sysReasons \cup {e} /\ Happened(e)
syscall_unmap_entry(parent, index, ctrl) ==
    LET reason == ParentReason(parent, index) IN
    /\ \/ /\ ~ctrl /\ Bump({"total", "unmap", "invalid"}) /\ Noted("CTRL_DENY") /\ UNCHANGED sysTable
       \/ /\ ctrl /\ reason # {}
          /\ Bump({"total", "unmap", "unmapStrict"} \cup reason)
          /\ Noted(UnmapReason(reason)) /\ UNCHANGED sysTable
       \/ /\ ctrl /\ reason = {}
          /\ Bump({"total", "unmap", "unmapStrict", "unmapOk", "flush"}) /\ Noted("AUTH_OK")
          /\ sysTable' = [sysTable EXCEPT ![sysSlot[parent].obj, index] = NoEntry]
    /\ UNCHANGED <<sysSlot, sysFree, sysIdent, sysHalted>>

-----------------------------------------------------------------------------
(* SYS_FRAME_ALLOC: a frame, an identity, a slot; a failure undoes.         *)

InsertFails(slot) == sysSlot[slot] # SysEmpty
FrameAllocUndo(f) == sysFree' = sysFree /\ sysIdent' = sysIdent
sys_frame_alloc(slot) ==
    /\ \/ /\ sysFree = {}
          /\ Bump({"total", "invalid"}) /\ UNCHANGED <<sysSlot, sysFree, sysIdent, sysHalted>>
       \/ \E f \in sysFree :
             /\ sysIdent = 0 /\ Bump({"total", "invalid"})
             /\ FrameAllocUndo(f) /\ UNCHANGED <<sysSlot, sysHalted>>
       \/ \E f \in sysFree :      \* cap_identity_free also passes the physical address to kfree,
             /\ sysIdent > 0 /\ InsertFails(slot) /\ Bump({"total", "invalid"})
             /\ FrameAllocUndo(f) /\ sysHalted' \in BOOLEAN    \* which may fault
             /\ UNCHANGED sysSlot
       \/ \E f \in sysFree :
             /\ sysIdent > 0 /\ ~InsertFails(slot) /\ Bump({"total"})
             /\ sysFree' = sysFree \ {f} /\ sysIdent' = sysIdent - 1
             /\ sysSlot' = [sysSlot EXCEPT ![slot] =
                   [type |-> "RAM", rights |-> {"READ", "WRITE", "EXECUTE", "GRANT"}, obj |-> f]]
             /\ UNCHANGED sysHalted
    /\ UNCHANGED <<sysTable, sysReasons, sysEvents>>

-----------------------------------------------------------------------------
(* SYS_LAW2_ATTEST: the verdicts, which change nothing but the Fate log.    *)

law2_day28_reason ==
    IF sysM["map"] # sysM["mapStrict"] THEN 1
    ELSE IF sysM["mapStrict"] < LAW2_DAY28_MIN_STRICT_MAP_CALLS THEN 2
    ELSE IF sysM["failIndex"] < 1 THEN 3
    ELSE IF sysM["failChild"] < 1 THEN 4
    ELSE IF sysM["failFlags"] < 2 THEN 5 ELSE 0

DAY29_MASK_REQUIRED == {"AUTH_OK", "CTRL_DENY", "PARENT_DENY", "RIGHTS_DENY", "INDEX_DENY"}
\* the latency budget (reason 5) is not modelled
law2_day29_reason ==
    IF sysM["unmap"] < sysM["unmapStrict"] THEN 1
    ELSE IF sysM["unmapStrict"] < LAW2_DAY29_MIN_STRICT_UNMAP_CALLS THEN 2
    ELSE IF sysM["map"] # sysM["mapStrict"] THEN 3
    ELSE IF ~(DAY29_MASK_REQUIRED \subseteq sysReasons) THEN 4 ELSE 0

SysNext ==
    /\ ~sysHalted /\ sysM["total"] < SysMaxCalls
    /\ \/ GateRejects
       \/ \E parent \in DOMAIN SysCaps :      \* without the control word nothing else is looked at
             \/ syscall_map_entry(parent, SysTableSize, 0, {}, FALSE)
             \/ syscall_unmap_entry(parent, SysTableSize, FALSE)
       \/ \E parent \in DOMAIN SysCaps, index \in SysIndices :
             \/ syscall_unmap_entry(parent, index, TRUE)
             \/ \E child \in DOMAIN SysCaps \cup {0},
                   flags \in {{"PRESENT", "USER"}, {"PRESENT", "USER", "WRITABLE"}, {"GLOBAL"}} :
                   syscall_map_entry(parent, index, child, flags, TRUE)
       \/ \E slot \in DOMAIN SysCaps : sys_frame_alloc(slot)

-----------------------------------------------------------------------------
(* Properties.                                                              *)

\* A page-table entry written by SYS_MAP is writable only if the capability that supplied its
\* frame had the WRITE right (the slot of a capability is not reused in this model).
WritableEntriesAuthorised ==
    \A e \in DOMAIN sysTable : "WRITABLE" \in sysTable[e].flags =>
       \E s \in DOMAIN sysSlot : sysSlot[s].obj = sysTable[e].obj /\ "WRITE" \in sysSlot[s].rights

\* The Day 29 verdict is PASS only after a successful strict unmap and a refusal of each of
\* the four classes, which takes at least five SYS_UNMAP calls.
Day29IsEarned ==
    law2_day29_reason = 0 => DAY29_MASK_REQUIRED \subseteq sysEvents /\ sysM["unmap"] >= 5

\* The Day 28 verdict is PASS only after that many calls of SYS_MAP in strict form and two
\* malformed ones, and no call of SYS_MAP is counted that was not strict.
Day28IsEarned ==
    /\ sysM["map"] = sysM["mapStrict"]
    /\ law2_day28_reason = 0 =>
          /\ sysM["map"] >= LAW2_DAY28_MIN_STRICT_MAP_CALLS
          /\ sysEvents \cap {"map.refused", "map.ctrl"} # {}

\* Every frame is free or held by exactly one capability: the failure paths of SYS_FRAME_ALLOC
\* give back the frame and the identity.
FramesFreeOrHeld ==
    /\ \A f \in SysFrames : f \in sysFree <=> ~\E s \in DOMAIN sysSlot : sysSlot[s].obj = f
    /\ sysIdent + Cardinality({s \in DOMAIN sysSlot : sysSlot[s].obj \in SysFrames}) = SysIdents

=============================================================================
