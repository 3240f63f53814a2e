---------------------------- MODULE MCScheduler ----------------------------
(* Instances of the scheduler for TLC. *)
EXTENDS Scheduler, TLC

CONSTANTS a1, a2, s1, P, Q, S

\* Two threads of a CASUAL process and one of a SECURE process.
MCThreads == {a1, a2, s1}
MCProcs == {P, S}
MCOwner == [t \in MCThreads |-> IF t = s1 THEN S ELSE P]
MCUserModes == {"CASUAL", "SECURE"}
MCProcMode == [p \in MCProcs |-> IF p = S THEN "SECURE" ELSE "CASUAL"]

\* One thread in each of the two.
MCPair == {a1, s1}
MCPairOwner == [t \in MCPair |-> IF t = s1 THEN S ELSE P]

\* One thread in each of two CASUAL processes, which spawn each other.
MCSpawn == {a1, a2}
MCSpawnProcs == {P, Q}
MCSpawnOwner == [t \in MCSpawn |-> IF t = a1 THEN P ELSE Q]
MCSpawnProcMode == [p \in MCSpawnProcs |-> "CASUAL"]

\* The two threads of P are interchangeable.
Twins == Permutations({a1, a2})

\* So are the two spawned processes, each with its thread.
Neighbours == {(a1 :> a2) @@ (a2 :> a1) @@ (P :> Q) @@ (Q :> P)}

\* From the state in which the boot thread has created, authorised and added
\* the thread of S in SECURE mode and has then gone on to CASUAL: the threads
\* of P run there, and the next transition finds s1 in its queue.
ModesInit ==
    /\ pc = "run" /\ victim = Boot /\ current = Boot
    /\ mode = "CASUAL" /\ epoch = 2
    /\ st = [t \in Souls |-> CASE t = Boot -> "RUNNING" [] t = s1 -> "READY" [] OTHER -> "NONE"]
    /\ ready = [m \in Envelopes |-> IF m = "SECURE" THEN <<s1>> ELSE <<>>]
    /\ zombies = [m \in Envelopes |-> <<>>]
    /\ waiting = {} /\ revoked = {} /\ banned = {}
    /\ tokens = [t \in Souls |-> 0]
    /\ ticks = [t \in Souls |-> IF t \in {Boot, s1} THEN Quantum ELSE 0]
    /\ budget = [t \in Threads |-> IF t = s1 THEN MaxSlice ELSE 0]
    /\ pbudget = [p \in Procs |-> IF p = S THEN MaxTotal ELSE 0]
    /\ root = [p \in Procs |-> IF p = S THEN 1 ELSE 0]
    /\ held = [p \in Procs |-> IF p = S THEN {1} ELSE {}]
    /\ auth = [t \in Threads |-> IF t = s1 THEN 1 ELSE 0]
    /\ rootValid = [p \in Procs |-> p = S]
    /\ authValid = [t \in Threads |-> t = s1]
    /\ lease = [t \in Threads |-> IF t = s1 THEN 1 ELSE 0]
    /\ leaseSeen = [t \in Threads |-> IF t = s1 THEN 1 ELSE 0]
    /\ leaseOk = [t \in Threads |-> t = s1]
    /\ resched = FALSE /\ depth = 0

ModesSpec == ModesInit /\ [][Next]_vars
=============================================================================
