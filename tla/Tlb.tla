-------------------------------- MODULE Tlb --------------------------------
(***************************************************************************)
(* Process-context identifiers and the TLB (kernel/pcid.c, vmm_switch of   *)
(* kernel/vmm.c, process_create and process_destroy of kernel/process.c).  *)
(* Each user mode has its own range of PCIDs, allocated next-fit from a    *)
(* hint; vmm_switch loads CR3 with the PCID and, except for GHOST, with    *)
(* the bit that keeps the PCID's cached translations; pcid_free flushes    *)
(* them before the identifier can be used again.                           *)
(*                                                                         *)
(* One processor with INVPCID.  The TLB is a set of translations, each     *)
(* tagged with the PCID under which it was cached and, as history, the     *)
(* process whose tables it was read from.  The process registry is the     *)
(* fixed table of kernel/process.c.                                        *)
(***************************************************************************)
EXTENDS Integers, FiniteSets, FiniteSetsExt

CONSTANTS
    TlbProcs,             \* process objects
    TlbModes,             \* user modes, as a sequence in the order of their ranges
    PCIDS_PER_USER_MODE,
    TlbPages,             \* virtual pages
    MAX_PROCESSES         \* slots of process_registry

\* PCID_SCHEME_MAX stays below PCID_KERNEL_SECURE (4095), as pcid.h lays the ranges out
ASSUME TlbAssumption ==
    /\ PCIDS_PER_USER_MODE \in Nat \ {0}
    /\ DOMAIN TlbModes \subseteq Nat \ {0}
    /\ \A m \in DOMAIN TlbModes : m * PCIDS_PER_USER_MODE < 4095
    /\ "kernel" \notin TlbProcs

VARIABLES
    pcidBitmap,   \* [mode]: relative indices in use
    pcidHint,     \* [mode]: next_hint
    pcidCount,    \* [mode]: allocated_count
    tlbProc,      \* [process]: its mode and PCID, or NoProcess
    tlbRegistry,  \* [slot]: process_registry
    tlbMapped,    \* [process]: pages its tables map
    tlbCurrent,   \* the process in CR3, or "kernel"
    tlbEntries    \* cached translations: [pcid, proc, page]

tlbVars == <<pcidBitmap, pcidHint, pcidCount, tlbProc, tlbRegistry, tlbMapped, tlbCurrent,
             tlbEntries>>

Modes == DOMAIN TlbModes
PCID_ERROR == 65535
PCID_KERNEL == 0
NoProcess == [mode |-> 0, pcid |-> PCID_ERROR]

pcid_get_mode_base(m) == 1 + (m - 1) * PCIDS_PER_USER_MODE
pcid_get_mode_count(m) == PCIDS_PER_USER_MODE

Alive == {p \in TlbProcs : tlbProc[p].mode # 0}
PcidOf(p) == IF p = "kernel" THEN PCID_KERNEL ELSE tlbProc[p].pcid

TlbInit ==
    /\ pcidBitmap = [m \in Modes |-> {}]
    /\ pcidHint = [m \in Modes |-> 0]
    /\ pcidCount = [m \in Modes |-> 0]
    /\ tlbProc = [p \in TlbProcs |-> NoProcess]
    /\ tlbRegistry = [i \in 1..MAX_PROCESSES |-> "none"]
    /\ tlbMapped = [p \in TlbProcs |-> {}]
    /\ tlbCurrent = "kernel"
    /\ tlbEntries = {}

-----------------------------------------------------------------------------
(* The allocator.                                                           *)

\* the first free index at or after the hint, cyclically
NextFit(m) ==
    LET n == pcid_get_mode_count(m)
        free == {i \in 0 .. n - 1 : (pcidHint[m] + i) % n \notin pcidBitmap[m]}
    IN IF free = {} THEN PCID_ERROR ELSE (pcidHint[m] + Min(free)) % n

\* pcid_alloc followed by process_create, as every caller in main.c and genesis.c does.
\* Without a free PCID, pcid_alloc returns PCID_ERROR and the process is created with it.
process_create(p, m) ==
    LET i == NextFit(m)
        slots == {s \in 1..MAX_PROCESSES : tlbRegistry[s] = "none"}
    IN
    /\ tlbProc[p] = NoProcess
    /\ IF i = PCID_ERROR
       THEN UNCHANGED <<pcidBitmap, pcidHint, pcidCount>>
       ELSE /\ pcidBitmap' = [pcidBitmap EXCEPT ![m] = @ \cup {i}]
            /\ pcidHint' = [pcidHint EXCEPT ![m] = (i + 1) % pcid_get_mode_count(m)]
            /\ pcidCount' = [pcidCount EXCEPT ![m] = @ + 1]
    /\ tlbProc' = [tlbProc EXCEPT ![p] =
          [mode |-> m, pcid |-> IF i = PCID_ERROR THEN PCID_ERROR ELSE pcid_get_mode_base(m) + i]]
    /\ tlbRegistry' = IF slots = {} THEN tlbRegistry ELSE [tlbRegistry EXCEPT ![Min(slots)] = p]
    /\ UNCHANGED <<tlbMapped, tlbCurrent, tlbEntries>>

\* invpcid, single context: everything cached under one PCID
FlushContext(entries, pcid) == {e \in entries : e.pcid # pcid}

\* pcid_free: flush first, then clear the bit; an identifier outside the mode's range
\* or already free is ignored
pcid_free_Fault(pcid, m) ==
    LET i == pcid - pcid_get_mode_base(m) IN
    /\ pcidBitmap' = [pcidBitmap EXCEPT ![m] = @ \ {i}]
    /\ pcidCount' = [pcidCount EXCEPT ![m] = IF i \in pcidBitmap[m] THEN @ - 1 ELSE @]
    /\ UNCHANGED tlbEntries
pcid_free(pcid, m) ==
    LET i == pcid - pcid_get_mode_base(m) IN
    IF pcid # PCID_ERROR /\ i \in pcidBitmap[m]
    THEN /\ tlbEntries' = FlushContext(tlbEntries, pcid)
         /\ pcidBitmap' = [pcidBitmap EXCEPT ![m] = @ \ {i}]
         /\ pcidCount' = [pcidCount EXCEPT ![m] = IF @ > 0 THEN @ - 1 ELSE @]
    ELSE UNCHANGED <<pcidBitmap, pcidCount, tlbEntries>>

\* The reaper destroys a process whose last thread has exited, so it is not current.
process_destroy(p) ==
    /\ p \in Alive /\ tlbCurrent # p
    /\ tlbRegistry' = [s \in 1..MAX_PROCESSES |-> IF tlbRegistry[s] = p THEN "none" ELSE tlbRegistry[s]]
    /\ pcid_free(tlbProc[p].pcid, tlbProc[p].mode)
    /\ tlbMapped' = [tlbMapped EXCEPT ![p] = {}]
    /\ tlbProc' = [tlbProc EXCEPT ![p] = NoProcess]
    /\ UNCHANGED <<pcidHint, tlbCurrent>>

-----------------------------------------------------------------------------
(* Address spaces in use.                                                   *)

\* vmm_switch panics unless the PCID lies in the mode's range; a switch to a GHOST
\* process flushes what its PCID has cached
TlbSwitch(p) ==
    /\ p \in Alive \cup {"kernel"} /\ p # tlbCurrent
    /\ p # "kernel" => LET base == pcid_get_mode_base(tlbProc[p].mode) IN
                       PcidOf(p) \in base .. base + pcid_get_mode_count(tlbProc[p].mode) - 1
    /\ tlbCurrent' = p
    /\ tlbEntries' = IF p # "kernel" /\ TlbModes[tlbProc[p].mode] = "GHOST"
                     THEN FlushContext(tlbEntries, PcidOf(p)) ELSE tlbEntries
    /\ UNCHANGED <<pcidBitmap, pcidHint, pcidCount, tlbProc, tlbRegistry, tlbMapped>>

MapPage(p, v) ==
    /\ p \in Alive /\ v \notin tlbMapped[p]
    /\ tlbMapped' = [tlbMapped EXCEPT ![p] = @ \cup {v}]
    /\ UNCHANGED <<pcidBitmap, pcidHint, pcidCount, tlbProc, tlbRegistry, tlbCurrent, tlbEntries>>

\* vmm_unmap_leaf_noalloc on the running process's own tables: clear the entry, then
\* invlpg, which drops the page under the current PCID
UnmapPage(p, v) ==
    /\ p \in Alive /\ tlbCurrent = p /\ v \in tlbMapped[p]
    /\ tlbMapped' = [tlbMapped EXCEPT ![p] = @ \ {v}]
    /\ tlbEntries' = {e \in tlbEntries : e.pcid # PcidOf(p) \/ e.page # v}
    /\ UNCHANGED <<pcidBitmap, pcidHint, pcidCount, tlbProc, tlbRegistry, tlbCurrent>>

\* the processor caches a translation it walks
Touch(v) ==
    /\ tlbCurrent # "kernel" /\ v \in tlbMapped[tlbCurrent]
    /\ tlbEntries' = tlbEntries \cup {[pcid |-> PcidOf(tlbCurrent), proc |-> tlbCurrent, page |-> v]}
    /\ tlbEntries' # tlbEntries
    /\ UNCHANGED <<pcidBitmap, pcidHint, pcidCount, tlbProc, tlbRegistry, tlbMapped, tlbCurrent>>

TlbNext ==
    \/ \E p \in TlbProcs : \/ \E m \in Modes : process_create(p, m)
                           \/ process_destroy(p)
                           \/ \E v \in TlbPages : MapPage(p, v) \/ UnmapPage(p, v)
    \/ \E p \in TlbProcs \cup {"kernel"} : TlbSwitch(p)
    \/ \E v \in TlbPages : Touch(v)

TlbSpec == TlbInit /\ [][TlbNext]_tlbVars

-----------------------------------------------------------------------------
(* Properties.                                                              *)

\* A cached translation belongs to the process that holds its PCID now, and that process
\* still maps the page: the flush in pcid_free ("Reuse without this flush can leak old
\* translations into the next owner") and the invlpg of an unmap leave nothing behind.
CachedTranslationsCurrent ==
    \A e \in tlbEntries : e.proc \in Alive /\ PcidOf(e.proc) = e.pcid /\ e.page \in tlbMapped[e.proc]

\* Two processes never hold the same PCID, and each holds one of its own mode's range;
\* allocated_count is the number of identifiers held (pcid_alloc, pcid_free).
PcidsExclusive ==
    /\ \A p, q \in Alive : p # q /\ PcidOf(p) # PCID_ERROR => PcidOf(p) # PcidOf(q)
    /\ \A m \in Modes :
          /\ pcidCount[m] = Cardinality(pcidBitmap[m])
          /\ pcidBitmap[m] = {PcidOf(p) - pcid_get_mode_base(m) :
                p \in {q \in Alive : tlbProc[q].mode = m /\ PcidOf(q) # PCID_ERROR}}

\* The TLB holds no stale translation and identifiers have one owner, through creation, switches,
\* unmapping, destruction and reuse (vmm_switch, pcid_alloc, pcid_free).
TlbIsCoherent == CachedTranslationsCurrent /\ PcidsExclusive

\* A GHOST process never resumes on translations cached before it was switched out.
GhostResumesCold ==
    [][\A p \in TlbProcs : tlbCurrent' = p /\ tlbCurrent # p /\ TlbModes[tlbProc[p].mode] = "GHOST"
         => \A e \in tlbEntries' : e.proc # p]_tlbVars
=============================================================================
