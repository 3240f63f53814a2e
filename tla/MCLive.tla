------------------------------- MODULE MCLive -------------------------------
(***************************************************************************)
(* What must go on for ever: the threads of a processor (Scheduler) and    *)
(* the processors among each other (Smp).  The two share no state here;    *)
(* one of them is chosen and runs while the other rests, and fairness is   *)
(* that of the one that runs.                                              *)
(***************************************************************************)
EXTENDS Scheduler, Smp

CONSTANTS a1, a2, a3, s1, P, S

VARIABLES
    world,
    recent    \* threads dispatched less than SCHED_STALL_THRESHOLD ticks ago

liveVars == <<vars, recent, smpVars, world>>

\* Three threads of a CASUAL process and one of a SECURE process.
MCService == {a1, a2, a3, s1}
MCProcs == {P, S}
MCServiceOwner == [t \in Threads |-> IF t = s1 THEN S ELSE P]
MCUserModes == {"CASUAL", "SECURE"}
MCProcMode == [p \in MCProcs |-> IF p = S THEN "SECURE" ELSE "CASUAL"]

(***************************************************************************)
(* The workload: the boot thread has created, authorised and added the     *)
(* thread of S in its mode, and then, after a transition, those of P in    *)
(* theirs; or only the three of P.  a1 only computes; the others are       *)
(* servers: they compute, yield, block and are woken.  All leave their     *)
(* authority alone; where there is a thread of S, the mode may change      *)
(* again.                                                                  *)
(***************************************************************************)
ServiceInit ==
    /\ pc = "run" /\ victim = Boot /\ current = Boot
    /\ mode = "CASUAL" /\ epoch = 2
    /\ \E crew \in {{a1, a2, a3}, {a1, a2, s1}} :
         /\ st = [t \in Souls |-> CASE t = Boot -> "RUNNING"
                                    [] t \in crew -> "READY"
                                    [] OTHER -> "NONE"]
         /\ ready = [m \in Envelopes |->
                        CASE m = "CASUAL" -> SelectSeq(<<a1, a2, a3>>, LAMBDA t : t \in crew)
                          [] m = "SECURE" -> SelectSeq(<<s1>>, LAMBDA t : t \in crew)
                          [] OTHER -> <<>>]
    /\ zombies = [m \in Envelopes |-> <<>>]
    /\ waiting = {} /\ revoked = {} /\ banned = {}
    /\ tokens = [t \in Souls |-> 0]
    /\ ticks = [t \in Souls |-> Quantum]
    /\ budget = [t \in Threads |-> MaxSlice]
    /\ pbudget = [p \in Procs |-> MaxTotal]
    /\ root = [p \in Procs |-> 1]
    /\ held = [p \in Procs |-> {1}]
    /\ auth = [t \in Threads |-> 1]
    /\ rootValid = [p \in Procs |-> TRUE]
    /\ authValid = [t \in Threads |-> TRUE]
    /\ lease = [t \in Threads |-> IF t = s1 THEN 1 ELSE 2]
    /\ leaseSeen = [t \in Threads |-> IF t = s1 THEN 1 ELSE 2]
    /\ leaseOk = [t \in Threads |-> TRUE]
    /\ resched = FALSE /\ depth = 0

(***************************************************************************)
(* The clock.  While threads are ready, each dispatch lasts a quantum at   *)
(* most: the thread that runs and the one it displaced have both been      *)
(* dispatched within the threshold (1000 ticks, a hundred quanta) and are  *)
(* not stalled.  Any other thread may have waited longer.  A thread that   *)
(* has the processor to itself, or an idle processor, lets any time pass.  *)
(***************************************************************************)
OnTime ==
    LET t == Head(ready[mode]) IN t \in recent => tokens'[t] = Picked(t, FALSE)

Schedule ==
    \/ KeepRunning /\ recent' = {}
    \/ GoIdle /\ recent' = {}
    \/ PickForeign /\ OnTime /\ UNCHANGED recent
    \/ /\ Pick /\ OnTime
       /\ recent' = IF pc' = "run" THEN {current'} \cup (recent \cap {current}) ELSE recent

ServiceNext ==
    \/ Schedule
    \/ /\ \/ \E t \in Threads : scheduler_wake(t)
          \/ current # a1 /\ (scheduler_block \/ thread_yield)
          \/ st[s1] # "NONE" /\ \E m \in UserModes : scheduler_on_mode_transition(m)
          \/ timer_handler
       /\ UNCHANGED recent

-----------------------------------------------------------------------------
In(w) ==
    /\ world = w /\ UNCHANGED world
    /\ IF w = "scheduler" THEN TRUE ELSE UNCHANGED <<vars, recent>>
    /\ IF w = "smp" THEN TRUE ELSE UNCHANGED smpVars

LiveInit ==
    /\ SmpInit /\ recent = {}
    /\ \/ world = "scheduler" /\ ServiceInit
       \/ world = "smp" /\ Init

LiveNext ==
    \/ In("scheduler") /\ ServiceNext
    \/ In("smp") /\ SmpNext

\* As in Scheduler and Smp, each for the component that runs.
LiveFairness ==
    /\ SF_liveVars(In("scheduler") /\ timer_handler /\ UNCHANGED recent)
    /\ WF_liveVars(In("scheduler") /\ Schedule)
    /\ WF_liveVars(In("smp") /\ BringUp)
    /\ \A c \in SmpCpus : /\ WF_liveVars(In("smp") /\ cpu_tlb_shootdown_page(c))
                          /\ WF_liveVars(In("smp") /\ cpu_handle_tlb_ipi(c))
    /\ \A c \in Aps : WF_liveVars(In("smp") /\ BringUp /\ cpu_ap_entry_stub(c))

LiveSpec == LiveInit /\ [][LiveNext]_liveVars /\ LiveFairness
=============================================================================
