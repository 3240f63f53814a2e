-------------------------------- MODULE Smp --------------------------------
(***************************************************************************)
(* Processor bring-up and TLB shootdown (kernel/cpu.c, and the start-up    *)
(* sequence that kernel/main.c drives on processor 0).                     *)
(*                                                                         *)
(* An application processor parks until the boot processor stages it,      *)
(* spins until its bit is in g_ap_start_request_mask, initialises itself,  *)
(* sets its bit in g_ap_runtime_ready_mask, and spins until it is online.  *)
(* cpu_tlb_shootdown_page publishes one request in global variables, sends *)
(* an interrupt to every other online processor and spins until all of     *)
(* them have acknowledged.  Each access to a global is a step of its own.  *)
(*                                                                         *)
(* A processor takes the interrupt when it is not inside a shootdown of    *)
(* its own: system calls run with interrupts off (SFMASK clears IF).       *)
(***************************************************************************)
EXTENDS Integers, FiniteSets, FiniteSetsExt

CONSTANTS
    SmpCpus,          \* 0..n-1; 0 is the boot processor
    SmpPages,         \* virtual pages that are unmapped
    SmpInitiators,    \* processors that unmap pages
    SmpMaxTimeouts,   \* bound on the waits that run out of their spins
    SmpMaxRequests    \* bound on the number of shootdowns

VARIABLES
    smpBoot,      \* phase of the boot processor's start-up sequence
    smpAp,        \* where each application processor is in cpu_ap_entry_stub
    smpRequested, \* g_ap_start_request_mask
    smpReady,     \* g_ap_runtime_ready_mask
    smpOnline,    \* g_sched_online_mask
    smpAddr,      \* g_tlb_req_addr
    smpGen,       \* g_tlb_req_gen
    smpAcks,      \* g_tlb_req_acks
    smpSeen,      \* g_tlb_seen_gen
    smpIpi,       \* processors with a CPU_IPI_TLB_VECTOR interrupt pending
    smpHandler,   \* each processor's position in cpu_handle_tlb_ipi, and the gen it loaded
    smpCall,      \* each processor's position in cpu_tlb_shootdown_page
    smpStale,     \* history: who may still hold the translation each call is about
    smpResult,    \* what the last call of each processor returned
    smpTimeouts   \* history: the number of waits that ran out of their spins

smpVars == <<smpBoot, smpAp, smpRequested, smpReady, smpOnline, smpAddr, smpGen, smpAcks,
             smpSeen, smpIpi, smpHandler, smpCall, smpStale, smpResult, smpTimeouts>>
bootVars == <<smpBoot, smpAp, smpRequested, smpReady, smpOnline>>
reqVars == <<smpAddr, smpGen, smpAcks>>

Aps == SmpCpus \ {0}
IdleCall == [pc |-> "idle", page |-> 0, targets |-> {}, next |-> 0, online |-> 0]
IdleHandler == [pc |-> "idle", gen |-> 0]
Running(c) == c \in {0} \cup {d \in Aps : smpAp[d] = "scheduling"}

\* cpu_topology_init
SmpInit ==
    /\ smpBoot = "topology"
    /\ smpAp = [c \in Aps |-> "parked"]
    /\ smpRequested = {} /\ smpReady = {} /\ smpOnline = {0}
    /\ smpAddr = 0 /\ smpGen = 0 /\ smpAcks = {}
    /\ smpSeen = [c \in SmpCpus |-> 0]
    /\ smpIpi = {}
    /\ smpHandler = [c \in SmpCpus |-> IdleHandler]
    /\ smpCall = [c \in SmpCpus |-> IdleCall]
    /\ smpStale = [c \in SmpCpus |-> {}]
    /\ smpResult = [c \in SmpCpus |-> "none"]
    /\ smpTimeouts = 0

-----------------------------------------------------------------------------
(* Bring-up.                                                                *)

cpu_smp_stage_ap_stub_start ==
    /\ smpBoot = "topology"
    /\ smpBoot' = "staged"
    /\ smpAp' = [c \in Aps |-> "stub"]
    /\ UNCHANGED <<smpRequested, smpReady, smpOnline>>

cpu_request_ap_runtime_start(c) ==
    /\ smpBoot = "staged"
    /\ c \in Aps \ smpRequested /\ \A d \in Aps : d < c => d \in smpRequested
    /\ smpRequested' = smpRequested \cup {c}
    /\ UNCHANGED <<smpBoot, smpAp, smpReady, smpOnline>>

\* the boot processor waits for every application processor, and panics if one is late
AllReady ==
    /\ smpBoot = "staged" /\ smpRequested = Aps
    /\ \/ smpReady = Aps /\ smpBoot' = "promote"
       \/ smpReady # Aps /\ smpTimeouts < SmpMaxTimeouts /\ smpBoot' = "panic"
    /\ UNCHANGED <<smpAp, smpRequested, smpReady, smpOnline>>

cpu_mark_sched_online(c) ==
    /\ smpBoot = "promote"
    /\ c \in Aps \ smpOnline /\ \A d \in Aps : d < c => d \in smpOnline
    /\ smpOnline' = smpOnline \cup {c}
    /\ smpBoot' = IF smpOnline' = SmpCpus THEN "up" ELSE smpBoot
    /\ UNCHANGED <<smpAp, smpRequested, smpReady>>

\* the steps of cpu_ap_entry_stub
cpu_ap_entry_stub(c) ==
    /\ \/ smpAp[c] = "stub" /\ c \in smpRequested
          /\ smpAp' = [smpAp EXCEPT ![c] = "init"] /\ UNCHANGED smpReady
       \/ smpAp[c] = "init"                       \* cpu_init_per_cpu, PCID, extended state
          /\ smpAp' = [smpAp EXCEPT ![c] = "ready"] /\ smpReady' = smpReady \cup {c}
       \/ smpAp[c] = "ready" /\ c \in smpOnline
          /\ smpAp' = [smpAp EXCEPT ![c] = "scheduling"] /\ UNCHANGED smpReady
    /\ UNCHANGED <<smpBoot, smpRequested, smpOnline>>

BringUp ==
    /\ \/ cpu_smp_stage_ap_stub_start
       \/ AllReady
       \/ \E c \in Aps : \/ cpu_request_ap_runtime_start(c)
                         \/ cpu_mark_sched_online(c)
                         \/ cpu_ap_entry_stub(c)
    /\ UNCHANGED <<reqVars, smpSeen, smpIpi, smpHandler, smpCall, smpStale, smpResult, smpTimeouts>>

-----------------------------------------------------------------------------
(* Shootdown: the initiator.                                                *)

\* everyone whose translation of page p is gone once processor c executes invlpg on it
Flushed(c, p) ==
    [d \in SmpCpus |-> IF smpCall[d].pc # "idle" /\ smpCall[d].page = p
                       THEN smpStale[d] \ {c} ELSE smpStale[d]]

\* entry: the page's entry has just been cleared, every other running processor may
\* hold it; invlpg locally, and nothing more when no other processor is online
ShootStart(c, p) ==
    LET n == Cardinality(smpOnline) IN
    /\ c \in SmpInitiators /\ Running(c) /\ smpCall[c].pc = "idle"
    /\ smpHandler[c].pc = "idle"
    /\ smpGen + Cardinality({d \in SmpCpus : smpCall[d].pc \in {"addr", "acks", "gen"}})
         < SmpMaxRequests
    /\ smpBoot \in {"topology", "up"}
    /\ IF n <= 1
       THEN /\ smpResult' = [smpResult EXCEPT ![c] = "true"]
            /\ smpStale' = [smpStale EXCEPT ![c] = {}]
            /\ UNCHANGED smpCall
       ELSE /\ smpCall' = [smpCall EXCEPT ![c] = [IdleCall EXCEPT !.pc = "addr", !.page = p, !.online = n]]
            /\ smpStale' = [Flushed(c, p) EXCEPT ![c] = smpOnline \ {c}]
            /\ smpResult' = [smpResult EXCEPT ![c] = "none"]
    /\ UNCHANGED <<bootVars, reqVars, smpSeen, smpIpi, smpHandler, smpTimeouts>>

ShootPublish(c) ==
    /\ \/ smpCall[c].pc = "addr"
          /\ smpAddr' = smpCall[c].page
          /\ smpCall' = [smpCall EXCEPT ![c].pc = "acks"]
          /\ UNCHANGED <<smpGen, smpAcks, smpSeen>>
       \/ smpCall[c].pc = "acks"
          /\ smpAcks' = {}
          /\ smpCall' = [smpCall EXCEPT ![c].pc = "gen"]
          /\ UNCHANGED <<smpAddr, smpGen, smpSeen>>
       \/ smpCall[c].pc = "gen"
          /\ smpGen' = smpGen + 1
          /\ smpSeen' = [smpSeen EXCEPT ![c] = smpGen + 1]
          /\ smpCall' = [smpCall EXCEPT ![c].pc = "send"]
          /\ UNCHANGED <<smpAddr, smpAcks>>
    /\ UNCHANGED <<bootVars, smpIpi, smpHandler, smpStale, smpResult, smpTimeouts>>

Return(c, r) ==
    /\ smpCall' = [smpCall EXCEPT ![c] = IdleCall]
    /\ smpResult' = [smpResult EXCEPT ![c] = r]
    /\ smpTimeouts' = IF r = "false" THEN smpTimeouts + 1 ELSE smpTimeouts

\* one iteration of the loop over c < online; a failed send returns at once
ShootSend(c) ==
    LET i == smpCall[c].next IN
    /\ smpCall[c].pc = "send"
    /\ \/ i = smpCall[c].online
          /\ IF smpCall[c].targets = {} THEN Return(c, "true")
             ELSE smpCall' = [smpCall EXCEPT ![c].pc = "wait"] /\ UNCHANGED <<smpResult, smpTimeouts>>
          /\ UNCHANGED smpIpi
       \/ i < smpCall[c].online /\ i = c
          /\ smpCall' = [smpCall EXCEPT ![c].next = i + 1]
          /\ UNCHANGED <<smpIpi, smpResult, smpTimeouts>>
       \/ i < smpCall[c].online /\ i # c
          /\ smpIpi' = smpIpi \cup {i}
          /\ smpCall' = [smpCall EXCEPT ![c].next = i + 1, ![c].targets = @ \cup {i}]
          /\ UNCHANGED <<smpResult, smpTimeouts>>
       \/ i < smpCall[c].online /\ i # c /\ smpTimeouts < SmpMaxTimeouts
          /\ Return(c, "false")
          /\ UNCHANGED smpIpi
    /\ UNCHANGED <<bootVars, reqVars, smpSeen, smpHandler, smpStale>>

ShootWait(c) ==
    /\ smpCall[c].pc = "wait"
    /\ \/ smpCall[c].targets \subseteq smpAcks /\ Return(c, "true")
       \/ smpTimeouts < SmpMaxTimeouts /\ Return(c, "false")
    /\ UNCHANGED <<bootVars, reqVars, smpSeen, smpIpi, smpHandler, smpStale>>

cpu_tlb_shootdown_page(c) == ShootPublish(c) \/ ShootSend(c) \/ ShootWait(c)

-----------------------------------------------------------------------------
(* Shootdown: the interrupt handler.                                        *)

cpu_handle_tlb_ipi_Fault(c) ==
    /\ \/ /\ smpHandler[c].pc = "idle" /\ c \in smpIpi /\ Running(c) /\ smpCall[c].pc = "idle"
          /\ smpHandler' = [smpHandler EXCEPT ![c] = [pc |-> "flush", gen |-> smpGen]]
          /\ UNCHANGED <<smpSeen, smpStale, smpAcks, smpIpi>>
       \/ /\ smpHandler[c].pc = "flush"
          /\ smpStale' = Flushed(c, smpAddr)
          /\ smpSeen' = [smpSeen EXCEPT ![c] = smpHandler[c].gen]
          /\ smpHandler' = [smpHandler EXCEPT ![c] = IdleHandler]
          /\ smpIpi' = smpIpi \ {c}
          /\ UNCHANGED smpAcks
    /\ UNCHANGED <<bootVars, smpAddr, smpGen, smpCall, smpResult, smpTimeouts>>
cpu_handle_tlb_ipi(c) ==
    /\ \/ /\ smpHandler[c].pc = "idle" /\ c \in smpIpi /\ Running(c) /\ smpCall[c].pc = "idle"
          /\ smpIpi' = smpIpi \ {c}
          /\ smpHandler' = [smpHandler EXCEPT ![c] =
                [pc |-> IF smpSeen[c] # smpGen THEN "flush" ELSE "ack", gen |-> smpGen]]
          /\ UNCHANGED <<smpSeen, smpStale, smpAcks>>
       \/ /\ smpHandler[c].pc = "flush"
          /\ smpStale' = Flushed(c, smpAddr)
          /\ smpSeen' = [smpSeen EXCEPT ![c] = smpHandler[c].gen]
          /\ smpHandler' = [smpHandler EXCEPT ![c].pc = "ack"]
          /\ UNCHANGED <<smpAcks, smpIpi>>
       \/ /\ smpHandler[c].pc = "ack"
          /\ smpAcks' = smpAcks \cup {c}
          /\ smpHandler' = [smpHandler EXCEPT ![c] = IdleHandler]
          /\ UNCHANGED <<smpSeen, smpStale, smpIpi>>
    /\ UNCHANGED <<bootVars, smpAddr, smpGen, smpCall, smpResult, smpTimeouts>>

SmpNext ==
    \/ BringUp
    \/ \E c \in SmpCpus : \/ \E p \in SmpPages : ShootStart(c, p)
                          \/ cpu_tlb_shootdown_page(c)
                          \/ cpu_handle_tlb_ipi(c)

\* An application processor spins and never stops, a processor in a shootdown keeps
\* looping, and a pending interrupt is taken by a processor that runs with interrupts on.
SmpFairness ==
    /\ WF_smpVars(BringUp)
    /\ \A c \in SmpCpus : /\ WF_smpVars(cpu_tlb_shootdown_page(c))
                          /\ WF_smpVars(cpu_handle_tlb_ipi(c))
    /\ \A c \in Aps : WF_smpVars(BringUp /\ cpu_ap_entry_stub(c))

-----------------------------------------------------------------------------
(* Properties.                                                              *)

\* When cpu_tlb_shootdown_page returns true, no other processor still holds the
\* translation ("synchronous cross-core TLB invalidation"): each has executed invlpg on
\* the page since the call began.  A call that gave up earlier leaves its interrupts
\* behind, and their acknowledgements may be counted for the next call: the property is
\* about executions without one.
ShootdownIsSynchronous ==
    smpTimeouts = 0 => \A c \in SmpCpus : smpResult[c] = "true" => smpStale[c] = {}

\* Only a processor that has finished cpu_init_per_cpu is marked online, so the
\* scheduler and the shootdown never count one that cannot take an interrupt.
OnlineProcessorsAreReady == smpOnline \ {0} \subseteq smpReady


\* A shootdown ends: every target comes to acknowledge and the initiator stops spinning.
\* Only SmpMaxTimeouts calls may end by their spin limit instead.
ShootdownCompletes == \A c \in SmpInitiators : smpCall[c].pc # "idle" ~> smpResult[c] # "none"
=============================================================================
