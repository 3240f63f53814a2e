------------------------------ MODULE MCKernel ------------------------------
(***************************************************************************)
(* The parts of the kernel around the scheduler and the capability engine, *)
(* on small instances.  They share no state here, so one of them is chosen *)
(* and runs while the others rest: the state spaces add instead of         *)
(* multiplying.                                                            *)
(***************************************************************************)
EXTENDS Pmm, Slab, Vmm, Tlb, Lattice, Endpoint, Records, Locks, Threads, Entry,
        Syscall, Genesis, Acpi, TLC

\* Pmm
Zone(t, b, l) == [type |-> t, base |-> b, length |-> l]

MCMaps == {
    <<Zone("RESERVED", 0, 16), Zone("USABLE", 16, 112)>>,
    <<Zone("USABLE", 10, 40), Zone("RECLAIMABLE", 64, 48), Zone("USABLE", 112, 70)>>,
    <<Zone("RESERVED", 0, 192)>>,
    <<Zone("USABLE", 16, 8), Zone("USABLE", 248, 16)>>,
    <<Zone("USABLE", 16, 8), Zone("USABLE", 40, 40)>> }

\* Slab
MCMaxObjects == [c \in SlabCaches |-> IF c = "CapIdent" THEN 1 ELSE 3]
MCModeMask == [c \in SlabCaches |-> IF c = "CapIdent" THEN {"CASUAL"} ELSE SlabModes]
MCSizes == UNION {n - 1 .. n + 1 : n \in {16, 512, 2048, 4032, 4084, 8180, 12276}}

\* Vmm: regions of one page, across two tables, huge, on demand, copy on write,
\* wrapping and without the user flag.
Contract(op, v, l, fl) == [op |-> op, virt |-> v, len |-> l, phys |-> 0, flags |-> fl]
Data == {"PRESENT", "WRITABLE", "USER", "NX"}
MCContracts == {
    Contract("MAP", 2, 4, {"PRESENT", "USER"}), Contract("MAP", 2, 4, {"DEMAND", "USER", "WRITABLE"}),
    Contract("MAP", 6, 2, {"PRESENT", "USER", "NX", "COW"}), Contract("MAP", 4, 4, Data \cup {"HUGE"}),
    Contract("MAP", 14, 4, Data), Contract("MAP", 0, 2, {"PRESENT"}),
    Contract("UNMAP", 4, 4, {}), Contract("UNMAP", 2, 2, {}) }

\* Tlb and Lattice
MCTlbModes == <<"CASUAL", "GHOST">>
MCLatPages == [l \in Lattices |-> 2]

\* Syscall
MCCaps == 1 :> [type |-> "PAGETABLE", rights |-> {"READ", "WRITE", "EXECUTE"}, obj |-> "pt1"]
       @@ 2 :> [type |-> "PAGETABLE", rights |-> {"READ"}, obj |-> "pt2"]
       @@ 3 :> [type |-> "RAM", rights |-> {"READ"}, obj |-> "ram"]
       @@ 4 :> SysEmpty

\* Genesis
MCReq == {[pagetable |-> 2, ram |-> 3, audit |-> 4, root |-> 5, thread |-> 6],
 [pagetable |-> 2, ram |-> 2, audit |-> 4, root |-> 5, thread |-> 6],
 [pagetable |-> 2, ram |-> 0, audit |-> 4, root |-> 5, thread |-> 6],
 [pagetable |-> 9, ram |-> 3, audit |-> 4, root |-> 5, thread |-> 6],
 [pagetable |-> 2, ram |-> 3, audit |-> 4, root |-> 5, thread |-> 5]}

\* Acpi
Sc(d, l) == [dev |-> d, len |-> l]
SeqsTo(S, n) == UNION {[1..k -> S] : k \in 0..n}
SLen(s) == FoldLeft(LAMBDA a, r : a + r.len, 0, s)
Rec(b, s, room) == [type |-> "DRHD", base |-> b, seg |-> 0, scopes |-> s, room |-> room, len |-> 2 + SLen(s) + room]
Zeros(s) == Cardinality({i \in DOMAIN s : s[i].len = 0})
Scopes == SeqsTo({Sc("a",1), Sc("b",1), Sc("a",0)}, 2)
Recs == {Rec(b, s, Zeros(s)) : b \in 0..2, s \in Scopes} \cup {Rec(3, <<Sc("c",2)>>, -1), [type |-> "RMRR", len |-> 1], [type |-> "DRHD", len |-> 1], [type |-> "RMRR", len |-> 0]}
Dmars == {[sig |-> "DMAR", sum |-> TRUE, recs |-> r, slack |-> Zeros(r) + k] : r \in SeqsTo(Recs, 2), k \in {-1,0}}
  \cup {[sig |-> "DMAR", sum |-> TRUE, recs |-> <<Rec(1,<<>>,0), Rec(2,<<Sc("b",1)>>,0), Rec(3,<<Sc("a",1)>>,0)>>, slack |-> 0]}
Madt == [sig |-> "APIC", sum |-> TRUE, slack |-> 0, recs |-> <<[type |-> "LAPIC", len |-> 2, id |-> 0], [type |-> "IOAPIC", len |-> 2, id |-> 1], [type |-> "LAPIC", len |-> 2, id |-> 1], [type |-> "LAPIC", len |-> 2, id |-> 2]>>]
Fw(r, v, x, o, t) == [rsdp |-> r, v2sum |-> v, xsdt |-> x, rsdt |-> o, tables |-> t]
MCFirm == {Fw("v2", TRUE, "ok", "ok", <<Madt, d>>) : d \in Dmars}
  \cup {Fw(r, v, x, o, <<[sig |-> "DMAR", sum |-> FALSE, recs |-> <<>>, slack |-> 0], Madt>>) : r \in {"none","bad","v1","v2"}, v \in BOOLEAN, x \in {"absent","bad","ok"}, o \in {"absent","bad","ok"}}

-----------------------------------------------------------------------------
VARIABLE part

kernelVars == <<pmmVars, slabVars, vmmVars, tlbVars, latVars, vars, recVars, lockVars,
                thVars, entVars, sysVars, genVars, acpVars, part>>

Alone(c) ==
    /\ part = c /\ UNCHANGED part
    /\ IF c = "pmm" THEN TRUE ELSE UNCHANGED pmmVars
    /\ IF c = "slab" THEN TRUE ELSE UNCHANGED slabVars
    /\ IF c = "vmm" THEN TRUE ELSE UNCHANGED vmmVars
    /\ IF c = "tlb" THEN TRUE ELSE UNCHANGED tlbVars
    /\ IF c = "lattice" THEN TRUE ELSE UNCHANGED latVars
    /\ IF c = "endpoint" THEN TRUE ELSE UNCHANGED vars
    /\ IF c \in {"fate", "audit", "log"} THEN TRUE ELSE UNCHANGED recVars
    /\ IF c = "locks" THEN TRUE ELSE UNCHANGED lockVars
    /\ IF c = "threads" THEN TRUE ELSE UNCHANGED thVars
    /\ IF c = "entry" THEN TRUE ELSE UNCHANGED entVars
    /\ IF c = "syscall" THEN TRUE ELSE UNCHANGED sysVars
    /\ IF c = "genesis" THEN TRUE ELSE UNCHANGED genVars
    /\ IF c = "acpi" THEN TRUE ELSE UNCHANGED acpVars

KernelInit ==
    /\ part \in {"pmm", "slab", "vmm", "tlb", "lattice", "endpoint", "fate", "audit", "log",
                 "locks", "threads", "entry", "syscall", "genesis", "acpi"}
    /\ PmmInit /\ SlabInit /\ VmmInit /\ TlbInit /\ LatInit /\ Init /\ RecInit /\ LockInit
    /\ ThInit /\ EntInit /\ SysInit /\ GenInit /\ AcpInit
    /\ part = "locks" \/ lockKind = "rw"
    /\ part = "entry" \/ entCur = CHOOSE t \in EntThreads : TRUE

KernelNext ==
    \/ Alone("pmm") /\ PmmNext
    \/ Alone("slab") /\ SlabNext
    \/ Alone("vmm") /\ VmmNext
    \/ Alone("tlb") /\ TlbNext
    \/ Alone("lattice") /\ LatNext
    \/ Alone("endpoint") /\ Next
    \/ Alone("fate") /\ FateEvent
    \/ Alone("audit") /\ audit_strike
    \/ Alone("log") /\ \E t \in {"OK", "ERR"} : vmm_contract_log_push(t)
    \/ Alone("locks") /\ LockNext
    \/ Alone("threads") /\ ThNext
    \/ Alone("entry") /\ EntNext
    \/ Alone("syscall") /\ SysNext
    \/ Alone("genesis") /\ GenNext
    \/ Alone("acpi") /\ AcpNext

KernelSpec == KernelInit /\ [][KernelNext]_kernelVars
=============================================================================
