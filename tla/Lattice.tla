------------------------------ MODULE Lattice ------------------------------
(***************************************************************************)
(* Prismatic lattices (kernel/lattice.c, the attachments of                *)
(* kernel/process.c and the SYS_LATTICE_* and SYS_ATTUNE calls of          *)
(* kernel/syscall.c): pages that a source process writes and echo          *)
(* processes read.  A lattice counts its references; its pages are mapped  *)
(* when they fault; an echo that touches a page beyond crystal_index waits *)
(* until the source attunes the lattice.                                   *)
(*                                                                         *)
(* A process has one thread.  lattice_handle_fault compares the index      *)
(* before it takes the lattice's lock, so the comparison and the blocking  *)
(* are two steps; page faults run with interrupts off, hence nothing comes *)
(* between them when there is one processor.  Addresses are page numbers.  *)
(***************************************************************************)
EXTENDS Integers, Sequences, FiniteSets, FiniteSetsExt

CONSTANTS
    LatProcs,               \* processes
    Lattices,               \* lattice objects
    LatPages,               \* [lattice -> page_count]
    LatVaLimit,             \* USER_VA_LIMIT, in pages
    MAX_PROCESS_LATTICES,
    LatCpus,                \* number of processors
    LatMaxListeners         \* listeners that SYS_LATTICE_CREATE may mint

VARIABLES
    latState,      \* "none", "live" or "freed"
    latRef,        \* ref_count
    latIdents,     \* capability identities whose object_ptr is the lattice
    latListeners,  \* listeners minted when it was created
    latCrystal,    \* crystal_index
    latWait,       \* wait_head .. wait_tail
    latAttach,     \* [process][slot]: proc->lattices
    latFault,      \* [process]: the fault its thread is handling or blocked on
    latMapped      \* [process]: pages of lattices in its tables: <<address, lattice, index, writable>>

latVars == <<latState, latRef, latIdents, latListeners, latCrystal, latWait, latAttach,
             latFault, latMapped>>

Slots == 1..MAX_PROCESS_LATTICES
NoAttach == [lattice |-> "none", va |-> 0, pages |-> 0, source |-> FALSE]
NoFault == [pc |-> "run", lattice |-> "none", index |-> 0]
Used(p, s) == latAttach[p][s] # NoAttach

\* with one processor, a fault handler between its two steps keeps everyone else out
Others(p) == LatCpus > 1 \/ \A q \in LatProcs \ {p} : latFault[q].pc # "deciding"
Runs(p) == Others(p) /\ latFault[p].pc = "run"

LatInit ==
    /\ latState = [l \in Lattices |-> "none"]
    /\ latRef = [l \in Lattices |-> 0]
    /\ latIdents = [l \in Lattices |-> 0]
    /\ latListeners = [l \in Lattices |-> 0]
    /\ latCrystal = [l \in Lattices |-> 0]
    /\ latWait = [l \in Lattices |-> <<>>]
    /\ latAttach = [p \in LatProcs |-> [s \in Slots |-> NoAttach]]
    /\ latFault = [p \in LatProcs |-> NoFault]
    /\ latMapped = [p \in LatProcs |-> {}]

-----------------------------------------------------------------------------
(* Creation and references.                                                 *)

\* SYS_LATTICE_CREATE with n listeners: lattice_create holds one reference; a minted
\* listener is an identity of its own and takes none
lattice_create(p, l, n) ==
    /\ Runs(p) /\ latState[l] = "none"
    /\ latState' = [latState EXCEPT ![l] = "live"]
    /\ latRef' = [latRef EXCEPT ![l] = 1]
    /\ latIdents' = [latIdents EXCEPT ![l] = 1 + n]
    /\ latListeners' = [latListeners EXCEPT ![l] = n]
    /\ UNCHANGED <<latCrystal, latWait, latAttach, latFault, latMapped>>

\* lattice_destroy on each lattice of a sequence of releases: n of them for lattice l
Release(l, n) ==
    /\ latRef' = [latRef EXCEPT ![l] = @ - n]
    /\ latState' = [latState EXCEPT ![l] = IF @ = "live" /\ latRef[l] > 0 /\ latRef[l] <= n
                                           THEN "freed" ELSE @]

\* cap_identity_free of an identity that refers to the lattice
FreeIdentity(p, l) ==
    /\ Runs(p) /\ latIdents[l] > 0 /\ latState[l] = "live"
    /\ latIdents' = [latIdents EXCEPT ![l] = @ - 1]
    /\ Release(l, 1)
    /\ UNCHANGED <<latListeners, latCrystal, latWait, latAttach, latFault, latMapped>>

-----------------------------------------------------------------------------
(* Attachments.                                                             *)

Overlap(a, b) == a.va < b.va + b.pages /\ b.va < a.va + a.pages

\* The loop stops at the first empty slot: it compares the new range with the slots
\* before that one, not with those behind it.
FirstFree(p) == IF \A s \in Slots : Used(p, s) THEN MAX_PROCESS_LATTICES + 1
                ELSE Min({s \in Slots : ~Used(p, s)})
Refused(p, a) == \E s \in 1 .. FirstFree(p) - 1 : Overlap(a, latAttach[p][s])

process_attach_lattice(p, l, va, source) ==
    LET a == [lattice |-> l, va |-> va, pages |-> LatPages[l], source |-> source] IN
    /\ Runs(p) /\ latState[l] = "live" /\ latIdents[l] > 0
    /\ va + LatPages[l] <= LatVaLimit
    /\ FirstFree(p) \in Slots /\ ~Refused(p, a)
    /\ latAttach' = [latAttach EXCEPT ![p][FirstFree(p)] = a]
    /\ latRef' = [latRef EXCEPT ![l] = @ + 1]
    /\ UNCHANGED <<latState, latIdents, latListeners, latCrystal, latWait, latFault, latMapped>>

\* the pages stay in the process's tables
process_detach_lattice(p, s) ==
    /\ Runs(p) /\ Used(p, s) /\ latIdents[latAttach[p][s].lattice] > 0
    /\ Release(latAttach[p][s].lattice, 1)
    /\ latAttach' = [latAttach EXCEPT ![p][s] = NoAttach]
    /\ UNCHANGED <<latIdents, latListeners, latCrystal, latWait, latFault, latMapped>>

\* process_destroy: vmm_destroy_pml4 empties the tables (and frees every frame that is
\* mapped in them, a lattice's own frames included), then each attachment drops its
\* reference
DestroyProcess(p) ==
    LET held(l) == Cardinality({s \in Slots : latAttach[p][s].lattice = l}) IN
    /\ Runs(p)
    /\ latAttach[p] # [s \in Slots |-> NoAttach]
    /\ latMapped' = [latMapped EXCEPT ![p] = {}]
    /\ latRef' = [l \in Lattices |-> latRef[l] - held(l)]
    /\ latState' = [l \in Lattices |-> IF latState[l] = "live" /\ latRef[l] > 0 /\ latRef[l] <= held(l)
                                       THEN "freed" ELSE latState[l]]
    /\ latAttach' = [latAttach EXCEPT ![p] = [s \in Slots |-> NoAttach]]
    /\ UNCHANGED <<latIdents, latListeners, latCrystal, latWait, latFault>>

-----------------------------------------------------------------------------
(* Faults and attunement.                                                   *)

\* the attachment lattice_handle_fault finds: the first slot that covers the address
Covers(p, s, v) == Used(p, s) /\ v \in latAttach[p][s].va .. latAttach[p][s].va + latAttach[p][s].pages - 1
AttachmentOf(p, v) == latAttach[p][Min({s \in Slots : Covers(p, s, v)})]

\* a page that is not mapped faults; the source maps it read-write, an echo read-only
\* once it is crystallised, and otherwise goes on to block
lattice_handle_fault(p, v) ==
    LET a == AttachmentOf(p, v)
        i == v - a.va
        map(w) == latMapped' = [latMapped EXCEPT ![p] = @ \cup {<<v, a.lattice, i, w>>}]
    IN
    /\ Runs(p)
    /\ \A m \in latMapped[p] : m[1] # v
    /\ \E s \in Slots : Covers(p, s, v)
    /\ latState[a.lattice] = "live"
    /\ \/ a.source /\ map(TRUE) /\ UNCHANGED latFault
       \/ ~a.source /\ i <= latCrystal[a.lattice] /\ map(FALSE) /\ UNCHANGED latFault
       \/ /\ ~a.source /\ i > latCrystal[a.lattice]
          /\ latFault' = [latFault EXCEPT ![p] = [pc |-> "deciding", lattice |-> a.lattice, index |-> i]]
          /\ UNCHANGED latMapped
    /\ UNCHANGED <<latState, latRef, latIdents, latListeners, latCrystal, latWait, latAttach>>

BlockOnFuture(p) ==
    LET l == latFault[p].lattice IN
    /\ latFault[p].pc = "deciding"
    /\ latFault' = [latFault EXCEPT ![p].pc = "blocked"]
    /\ latWait' = [latWait EXCEPT ![l] = Append(@, p)]
    /\ UNCHANGED <<latState, latRef, latIdents, latListeners, latCrystal, latAttach, latMapped>>

lattice_attune(p, l, i) ==
    /\ Runs(p) /\ latState[l] = "live" /\ latIdents[l] > 0
    /\ i \in 0 .. LatPages[l] - 1
    /\ latCrystal' = [latCrystal EXCEPT ![l] = i]
    /\ latFault' = [q \in LatProcs |-> IF \E k \in DOMAIN latWait[l] : latWait[l][k] = q
                                       THEN NoFault ELSE latFault[q]]
    /\ latWait' = [latWait EXCEPT ![l] = <<>>]
    /\ UNCHANGED <<latState, latRef, latIdents, latListeners, latAttach, latMapped>>

LatNext ==
    \E p \in LatProcs :
       \/ \E l \in Lattices : \/ \E n \in 0..LatMaxListeners : lattice_create(p, l, n)
                              \/ FreeIdentity(p, l)
                              \/ \E va \in 0 .. LatVaLimit - 1, b \in BOOLEAN : process_attach_lattice(p, l, va, b)
                              \/ \E i \in 0 .. LatVaLimit - 1 : lattice_attune(p, l, i)
       \/ \E s \in Slots : process_detach_lattice(p, s)
       \/ DestroyProcess(p)
       \/ \E v \in 0 .. LatVaLimit - 1 : lattice_handle_fault(p, v)
       \/ BlockOnFuture(p)

-----------------------------------------------------------------------------
(* Properties.                                                              *)

\* A lattice that some process has attached is not freed: ref_count counts the
\* attachments and the identity that SYS_LATTICE_CREATE made.  It does not count the
\* listeners, each of which drops a reference when its identity is freed, so the
\* property is about lattices created without one.
AttachedLatticeIsLive ==
    \A p \in LatProcs, s \in Slots :
       Used(p, s) /\ latListeners[latAttach[p][s].lattice] = 0
         => latState[latAttach[p][s].lattice] = "live"

\* No echo sleeps on a page that is already crystallised: a thread in a wait queue waits
\* for an index beyond crystal_index (lattice_handle_fault, lattice_attune).
BlockedEchoWaitsForFuture ==
    \A l \in Lattices : \A k \in DOMAIN latWait[l] :
       /\ latFault[latWait[l][k]].pc = "blocked"
       /\ latFault[latWait[l][k]].index > latCrystal[l]

=============================================================================
