------------------------------ MODULE Threads ------------------------------
(***************************************************************************)
(* The life of a thread: thread_create with its three allocations,         *)
(* SYS_WAIT, thread_exit, the reaper's thread_destroy and the destruction  *)
(* of a process with its last thread (kernel/thread.c, kernel/syscall.c).  *)
(* A system call runs with interrupts off, so it is one step up to the     *)
(* point where it calls schedule(); a woken waiter finishes in a later one.*)
(***************************************************************************)
EXTENDS Integers, FiniteSets

CONSTANTS
    ThreadIds, ThProcs,
    ThObjects,      \* thread_t objects the cache can hand out
    ThPages,        \* free pages for stacks and extended state
    ThMaxEvents     \* bound on the exit events a process leaves pending

ASSUME ThreadsAssumption ==
    /\ IsFiniteSet(ThreadIds)
    /\ "NULL" \notin ThreadIds \cup ThProcs
    /\ ThObjects \in Nat /\ ThPages \in Nat

VARIABLES
    thState,        \* none, ready, blocked, woken (in SYS_WAIT after schedule()), zombie
    thOwner,        \* owner
    thProc,         \* process: live or dead, thread_count, waiter_thread, exit_events
    thObjects, thPages   \* what is left of the two pools

thVars == <<thState, thOwner, thProc, thObjects, thPages>>

KSTACK_PAGES == 2   \* THREAD_KSTACK_ORDER is 1
NoThread == "NULL"
ThLive == {t \in ThreadIds : thState[t] # "none"}
NewProc == [life |-> "live", count |-> 0, waiter |-> NoThread, events |-> 0]

ThInit ==
    /\ thState = [t \in ThreadIds |-> "none"]
    /\ thOwner = [t \in ThreadIds |-> NoThread]
    /\ thProc = [p \in ThProcs |-> NewProc]
    /\ thObjects = ThObjects /\ thPages = ThPages

\* thread_create: the object, the stack, the extended state; a failure gives back what it took
thread_create_Fault(p, t) ==
    /\ thProc[p].life = "live" /\ thState[t] = "none" /\ thObjects > 0
    /\ \/ /\ thPages < KSTACK_PAGES /\ UNCHANGED thVars
       \/ /\ thPages = KSTACK_PAGES
          /\ thPages' = thPages - KSTACK_PAGES /\ UNCHANGED <<thState, thOwner, thProc, thObjects>>
       \/ /\ thPages > KSTACK_PAGES
          /\ thState' = [thState EXCEPT ![t] = "ready"] /\ thOwner' = [thOwner EXCEPT ![t] = p]
          /\ thProc' = [thProc EXCEPT ![p].count = @ + 1]
          /\ thObjects' = thObjects - 1 /\ thPages' = thPages - KSTACK_PAGES - 1
thread_create(p, t) ==
    /\ thProc[p].life = "live" /\ thState[t] = "none"
    /\ \/ /\ thObjects = 0 \/ thPages < KSTACK_PAGES \/ thPages - KSTACK_PAGES < 1
          /\ UNCHANGED thVars
       \/ /\ thObjects > 0 /\ thPages > KSTACK_PAGES
          /\ thState' = [thState EXCEPT ![t] = "ready"] /\ thOwner' = [thOwner EXCEPT ![t] = p]
          /\ thProc' = [thProc EXCEPT ![p].count = @ + 1]
          /\ thObjects' = thObjects - 1 /\ thPages' = thPages - KSTACK_PAGES - 1

\* SYS_WAIT with flags 0 or 1 (nonblocking), up to schedule()
Conflict(t, p) == p.waiter # NoThread /\ p.waiter # t
sys_wait(t, nonblocking) ==
    LET p == thProc[thOwner[t]] IN
    /\ thState[t] = "ready"
    /\ \/ /\ p.events > 0                        \* consume a pending exit: 0
          /\ thProc' = [thProc EXCEPT ![thOwner[t]].events = @ - 1]
          /\ UNCHANGED <<thState, thOwner, thObjects, thPages>>
       \/ /\ p.events = 0                        \* not ready, no peers: 1; other waiter: -1
          /\ nonblocking \/ p.count <= 1 \/ Conflict(t, p)
          /\ UNCHANGED thVars
       \/ /\ p.events = 0 /\ ~nonblocking /\ p.count > 1 /\ ~Conflict(t, p)
          /\ thProc' = [thProc EXCEPT ![thOwner[t]].waiter = t]
          /\ thState' = [thState EXCEPT ![t] = "blocked"]
          /\ UNCHANGED <<thOwner, thObjects, thPages>>

\* the rest of SYS_WAIT: one event if there still is one (0), otherwise -1
WaitResume(t) ==
    /\ thState[t] = "woken"
    /\ thState' = [thState EXCEPT ![t] = "ready"]
    /\ thProc' = [thProc EXCEPT ![thOwner[t]].events = IF @ > 0 THEN @ - 1 ELSE @]
    /\ UNCHANGED <<thOwner, thObjects, thPages>>

\* thread_exit: count the event, wake the registered waiter, become a zombie
thread_exit(t) ==
    LET p == thProc[thOwner[t]]
        wakes == p.waiter \notin {NoThread, t} IN
    /\ thState[t] = "ready" /\ p.events < ThMaxEvents
    /\ thProc' = [thProc EXCEPT ![thOwner[t]] =
                     [life |-> p.life, count |-> p.count, events |-> p.events + 1,
                      waiter |-> IF wakes THEN NoThread ELSE p.waiter]]
    /\ thState' = [s \in ThreadIds |->
                     IF s = t THEN "zombie"
                     ELSE IF wakes /\ s = p.waiter /\ thState[s] = "blocked" THEN "woken"
                     ELSE thState[s]]
    /\ UNCHANGED <<thOwner, thObjects, thPages>>

\* thread_destroy, from scheduler_reap; the last thread takes the process with it
LastOf(p) == p.count = 1
thread_destroy(t) ==
    LET p == thProc[thOwner[t]] IN
    /\ thState[t] = "zombie"
    /\ thState' = [thState EXCEPT ![t] = "none"]
    /\ thObjects' = thObjects + 1 /\ thPages' = thPages + KSTACK_PAGES + 1
    /\ thProc' = [thProc EXCEPT ![thOwner[t]] =
                    IF LastOf(p) THEN [NewProc EXCEPT !.life = "dead"]
                    ELSE [life |-> p.life, count |-> p.count - 1, events |-> p.events,
                          waiter |-> IF p.waiter = t THEN NoThread ELSE p.waiter]]
    /\ thOwner' = [thOwner EXCEPT ![t] = NoThread]

\* process_create gives a destroyed slot to a new process
ThProcessCreate(p) ==
    /\ thProc[p].life = "dead"
    /\ thProc' = [thProc EXCEPT ![p] = NewProc]
    /\ UNCHANGED <<thState, thOwner, thObjects, thPages>>

ThNext ==
    \/ \E p \in ThProcs : ThProcessCreate(p) \/ \E t \in ThreadIds : thread_create(p, t)
    \/ \E t \in ThreadIds :
          \/ \E nonblocking \in BOOLEAN : sys_wait(t, nonblocking)
          \/ WaitResume(t) \/ thread_exit(t) \/ thread_destroy(t)

ThSpec == ThInit /\ [][ThNext]_thVars

-----------------------------------------------------------------------------
(* Properties.                                                              *)

\* Every page and object taken from the pools belongs to a thread that exists: the early
\* returns of thread_create and thread_destroy together leak nothing.
ThreadResourcesConserved ==
    /\ thObjects + Cardinality(ThLive) = ThObjects
    /\ thPages + (KSTACK_PAGES + 1) * Cardinality(ThLive) = ThPages

\* A thread blocked in SYS_WAIT is its process's waiter_thread, the one the next exit wakes,
\* so a process never has two of them.
BlockedIsTheWaiter ==
    \A t \in ThreadIds : thState[t] = "blocked" => thProc[thOwner[t]].waiter = t

\* A process exists as long as one of its threads does, and thread_count counts them.
ThreadsOwnALiveProcess ==
    \A p \in ThProcs :
       LET mine == {t \in ThLive : thOwner[t] = p} IN
       thProc[p].count = Cardinality(mine) /\ (mine # {} => thProc[p].life = "live")

\* Threads, their memory, their waiters and their processes agree, through failed creations,
\* waits, exits and reaping in any order (thread_create, thread_exit, thread_destroy, SYS_WAIT).
ThreadsAreAccounted == ThreadResourcesConserved /\ BlockedIsTheWaiter /\ ThreadsOwnALiveProcess
=============================================================================
