--------------------------- MODULE ThreadsProofs ---------------------------
(***************************************************************************)
(* Proofs about the life of threads (kernel/thread.c, SYS_WAIT), for any   *)
(* finite set of threads and pools of any size.                            *)
(***************************************************************************)
EXTENDS Threads, FiniteSetTheorems, TLAPS

ThreadStates == {"none", "ready", "blocked", "woken", "zombie"}
ProcessRecord ==
    [life : {"live", "dead"}, count : Nat, waiter : ThreadIds \cup {NoThread}, events : Nat]
Mine(p) == {t \in ThLive : thOwner[t] = p}

ThType ==
    /\ thState \in [ThreadIds -> ThreadStates]
    /\ thOwner \in [ThreadIds -> ThProcs \cup {NoThread}]
    /\ thProc \in [ThProcs -> ProcessRecord]
    /\ thObjects \in Int /\ thPages \in Int

\* Exactly the threads that exist have a process.
OwnersInv == \A t \in ThreadIds : thState[t] # "none" <=> thOwner[t] # NoThread

\* ThreadsOwnALiveProcess, in terms of Mine.
CountsInv ==
    \A p \in ThProcs : /\ thProc[p].count = Cardinality(Mine(p))
                       /\ Mine(p) # {} => thProc[p].life = "live"

ThInv ==
    /\ ThType
    /\ OwnersInv
    /\ ThreadResourcesConserved
    /\ BlockedIsTheWaiter
    /\ CountsInv

-----------------------------------------------------------------------------
(* Counting threads.                                                        *)

LEMMA ThreadsFinite ==
    /\ IsFiniteSet(ThLive) /\ Cardinality(ThLive) \in Nat
    /\ \A p : IsFiniteSet(Mine(p)) /\ Cardinality(Mine(p)) \in Nat
<1>1. ThLive \in SUBSET ThreadIds
  BY DEF ThLive
<1>2. IsFiniteSet(ThLive)
  BY <1>1, ThreadsAssumption, FS_Subset
<1>3. \A p : Mine(p) \in SUBSET ThLive
  BY DEF Mine
<1>4. \A p : IsFiniteSet(Mine(p))
  BY <1>2, <1>3, FS_Subset
<1> QED  BY <1>2, <1>4, FS_CardinalityType

\* A new thread of process p.
LEMMA ThreadAdded ==
    ASSUME ThType, OwnersInv, NEW p \in ThProcs, NEW t \in ThreadIds, thState[t] = "none",
           thState' = [thState EXCEPT ![t] = "ready"], thOwner' = [thOwner EXCEPT ![t] = p]
    PROVE  /\ Cardinality(ThLive') = Cardinality(ThLive) + 1
           /\ Cardinality(Mine(p)') = Cardinality(Mine(p)) + 1
           /\ \A q \in ThProcs : q # p => Mine(q)' = Mine(q)
<1> USE DEF ThType, OwnersInv, ThLive, Mine
<1>1. ThLive' = ThLive \cup {t} /\ t \notin ThLive
  OBVIOUS
<1>2. Mine(p)' = Mine(p) \cup {t} /\ t \notin Mine(p)
  BY ThreadsAssumption DEF NoThread
<1>3. \A q \in ThProcs : q # p => Mine(q)' = Mine(q)
  BY ThreadsAssumption DEF NoThread
<1> HIDE DEF ThLive, Mine
<1>4. Cardinality(ThLive \cup {t}) = Cardinality(ThLive) + 1
  BY <1>1, ThreadsFinite, FS_AddElement
<1>5. Cardinality(Mine(p) \cup {t}) = Cardinality(Mine(p)) + 1
  BY <1>2, ThreadsFinite, FS_AddElement
<1> QED  BY <1>1, <1>2, <1>3, <1>4, <1>5

\* A thread of process p is gone.
LEMMA ThreadRemoved ==
    ASSUME ThType, OwnersInv, NEW p \in ThProcs, NEW t \in ThreadIds, thState[t] # "none",
           thOwner[t] = p,
           thState' = [thState EXCEPT ![t] = "none"], thOwner' = [thOwner EXCEPT ![t] = NoThread]
    PROVE  /\ Cardinality(ThLive') = Cardinality(ThLive) - 1
           /\ Cardinality(Mine(p)') = Cardinality(Mine(p)) - 1
           /\ Mine(p)' = Mine(p) \ {t}
           /\ \A q \in ThProcs : q # p => Mine(q)' = Mine(q)
<1> USE DEF ThType, OwnersInv, ThLive, Mine
<1>1. ThLive' = ThLive \ {t} /\ t \in ThLive
  OBVIOUS
<1>2. Mine(p)' = Mine(p) \ {t} /\ t \in Mine(p)
  OBVIOUS
<1>3. \A q \in ThProcs : q # p => Mine(q)' = Mine(q)
  OBVIOUS
<1> HIDE DEF ThLive, Mine
<1>4. Cardinality(ThLive \ {t}) = Cardinality(ThLive) - 1
  BY <1>1, ThreadsFinite, FS_RemoveElement
<1>5. Cardinality(Mine(p) \ {t}) = Cardinality(Mine(p)) - 1
  BY <1>2, ThreadsFinite, FS_RemoveElement
<1> QED  BY <1>1, <1>2, <1>3, <1>4, <1>5

\* A step in which no thread comes or goes.
LEMMA ThreadsStay ==
    ASSUME thOwner' = thOwner,
           \A t \in ThreadIds : thState'[t] = "none" <=> thState[t] = "none"
    PROVE  ThLive' = ThLive /\ \A p : Mine(p)' = Mine(p)
  BY DEF ThLive, Mine

-----------------------------------------------------------------------------
LEMMA ThInvInit == ThInit => ThInv
<1> SUFFICES ASSUME ThInit PROVE ThInv
  OBVIOUS
<1>1. ThLive = {} /\ \A p : Mine(p) = {}
  BY DEF ThInit, ThLive, Mine
<1>2. Cardinality({}) = 0
  BY FS_EmptySet
<1>3. ThType
  BY ThreadsAssumption DEF ThInit, ThType, ThreadStates, ProcessRecord, NewProc
<1>4. OwnersInv /\ BlockedIsTheWaiter
  BY DEF ThInit, OwnersInv, BlockedIsTheWaiter
<1>5. ThreadResourcesConserved
  BY <1>1, <1>2, ThreadsAssumption DEF ThInit, ThreadResourcesConserved, KSTACK_PAGES
<1>6. CountsInv
  BY <1>1, <1>2 DEF ThInit, CountsInv, NewProc
<1> QED  BY <1>3, <1>4, <1>5, <1>6 DEF ThInv

LEMMA CreateStep ==
    ASSUME ThInv, NEW p \in ThProcs, NEW t \in ThreadIds, thread_create(p, t)
    PROVE  ThInv' \/ UNCHANGED thVars
<1> SUFFICES ASSUME ~ UNCHANGED thVars PROVE ThInv'
  OBVIOUS
<1> USE DEF ThInv
<1>1. /\ thProc[p].life = "live" /\ thState[t] = "none"
      /\ thState' = [thState EXCEPT ![t] = "ready"] /\ thOwner' = [thOwner EXCEPT ![t] = p]
      /\ thProc' = [thProc EXCEPT ![p].count = @ + 1]
      /\ thObjects' = thObjects - 1 /\ thPages' = thPages - KSTACK_PAGES - 1
  BY DEF thread_create
<1>2. /\ Cardinality(ThLive') = Cardinality(ThLive) + 1
      /\ Cardinality(Mine(p)') = Cardinality(Mine(p)) + 1
      /\ \A q \in ThProcs : q # p => Mine(q)' = Mine(q)
  BY <1>1, ThreadAdded
<1>3. thProc' \in [ThProcs -> ProcessRecord]
  BY <1>1 DEF ThType, ProcessRecord
<1>4. \A q \in ThProcs : /\ q # p => thProc'[q] = thProc[q]
                         /\ thProc'[q].waiter = thProc[q].waiter
                         /\ thProc'[q].life = thProc[q].life
  BY <1>1 DEF ThType, ProcessRecord
<1>5. thProc'[p].count = thProc[p].count + 1
  BY <1>1 DEF ThType, ProcessRecord
<1>6. ThType'
  BY <1>1, <1>3 DEF ThType, ThreadStates, KSTACK_PAGES
<1>7. OwnersInv'
  BY <1>1, ThreadsAssumption DEF OwnersInv, ThType, NoThread
<1>8. ThreadResourcesConserved'
  BY <1>1, <1>2, ThreadsFinite DEF ThreadResourcesConserved, KSTACK_PAGES, ThType
<1>9. BlockedIsTheWaiter'
  <2> SUFFICES ASSUME NEW s \in ThreadIds, thState'[s] = "blocked"
               PROVE  thProc'[thOwner'[s]].waiter = s
    BY DEF BlockedIsTheWaiter
  <2>1. s # t /\ thState[s] = "blocked" /\ thOwner'[s] = thOwner[s]
    BY <1>1 DEF ThType
  <2>2. thOwner[s] \in ThProcs
    BY <2>1 DEF OwnersInv, ThType
  <2> QED  BY <1>4, <2>1, <2>2 DEF BlockedIsTheWaiter
<1>10. CountsInv'
  BY <1>1, <1>2, <1>4, <1>5 DEF CountsInv
<1> QED  BY <1>6, <1>7, <1>8, <1>9, <1>10

\* The steps in which no thread comes or goes and at most one process record changes, with
\* its thread_count kept.
LEMMA QuietStep ==
    ASSUME ThInv, NEW p \in ThProcs, NEW r \in ProcessRecord,
           thState' \in [ThreadIds -> ThreadStates],
           \A t \in ThreadIds : thState'[t] = "none" <=> thState[t] = "none",
           thProc' = [thProc EXCEPT ![p] = r], r.count = thProc[p].count,
           r.life = thProc[p].life,
           UNCHANGED <<thOwner, thObjects, thPages>>,
           BlockedIsTheWaiter'
    PROVE  ThInv'
<1> USE DEF ThInv
<1>1. ThLive' = ThLive /\ \A q : Mine(q)' = Mine(q)
  BY ThreadsStay
<1>2. \A q \in ThProcs : thProc'[q].count = thProc[q].count /\ thProc'[q].life = thProc[q].life
  BY DEF ThType
<1>3. ThType'
  BY DEF ThType
<1>4. OwnersInv'
  BY DEF OwnersInv
<1>5. ThreadResourcesConserved'
  BY <1>1 DEF ThreadResourcesConserved
<1>6. CountsInv'
  BY <1>1, <1>2 DEF CountsInv
<1> QED  BY <1>3, <1>4, <1>5, <1>6

LEMMA WaitStep ==
    ASSUME ThInv, NEW t \in ThreadIds, NEW nonblocking \in BOOLEAN, sys_wait(t, nonblocking)
    PROVE  ThInv' \/ UNCHANGED thVars
<1> SUFFICES ASSUME ~ UNCHANGED thVars PROVE ThInv'
  OBVIOUS
<1> DEFINE p == thOwner[t]
<1>1. thState[t] = "ready" /\ p \in ThProcs
  BY DEF sys_wait, ThInv, OwnersInv, ThType
<1>2. thProc[p] \in ProcessRecord
  BY <1>1 DEF ThInv, ThType
<1>3. CASE /\ thProc[p].events > 0
           /\ thProc' = [thProc EXCEPT ![p].events = @ - 1]
           /\ UNCHANGED <<thState, thOwner, thObjects, thPages>>
  <2> DEFINE r == [thProc[p] EXCEPT !.events = @ - 1]
  <2>1. r \in ProcessRecord /\ r.count = thProc[p].count /\ r.life = thProc[p].life
        /\ r.waiter = thProc[p].waiter
    BY <1>2, <1>3 DEF ProcessRecord
  <2>2. thProc' = [thProc EXCEPT ![p] = r]
    BY <1>3
  <2>3. BlockedIsTheWaiter'
    BY <1>1, <1>3, <2>1, <2>2 DEF ThInv, BlockedIsTheWaiter, ThType, OwnersInv
  <2> HIDE DEF r
  <2> QED  BY <1>1, <1>3, <2>1, <2>2, <2>3, QuietStep DEF ThInv, ThType
<1>4. CASE /\ ~Conflict(t, thProc[p])
           /\ thProc' = [thProc EXCEPT ![p].waiter = t]
           /\ thState' = [thState EXCEPT ![t] = "blocked"]
           /\ UNCHANGED <<thOwner, thObjects, thPages>>
  <2> DEFINE r == [thProc[p] EXCEPT !.waiter = t]
  <2>1. r \in ProcessRecord /\ r.count = thProc[p].count /\ r.life = thProc[p].life /\ r.waiter = t
    BY <1>2, <1>4 DEF ProcessRecord
  <2>2. thProc' = [thProc EXCEPT ![p] = r]
    BY <1>4
  <2>3. ASSUME NEW s \in ThreadIds, thState'[s] = "blocked", s # t
        PROVE  thOwner[s] # p /\ thOwner[s] \in ThProcs /\ thProc[thOwner[s]].waiter = s
    <3>1. thState[s] = "blocked" /\ thOwner[s] \in ThProcs
      BY <1>4, <2>3 DEF ThInv, ThType, OwnersInv
    <3>2. thProc[thOwner[s]].waiter = s
      BY <3>1 DEF ThInv, BlockedIsTheWaiter
    <3> QED  BY <1>4, <2>3, <3>1, <3>2, ThreadsAssumption DEF Conflict, NoThread
  <2>4. BlockedIsTheWaiter'
    BY <1>1, <1>4, <2>1, <2>2, <2>3 DEF ThInv, BlockedIsTheWaiter, ThType
  <2>5. /\ thState' \in [ThreadIds -> ThreadStates]
        /\ \A s \in ThreadIds : thState'[s] = "none" <=> thState[s] = "none"
    BY <1>1, <1>4 DEF ThInv, ThType, ThreadStates
  <2> HIDE DEF r
  <2> QED  BY <1>1, <1>4, <2>1, <2>2, <2>4, <2>5, QuietStep
<1> QED  BY <1>3, <1>4 DEF sys_wait

LEMMA ResumeStep ==
    ASSUME ThInv, NEW t \in ThreadIds, WaitResume(t)
    PROVE  ThInv'
<1> DEFINE p == thOwner[t]
<1>1. thState[t] = "woken" /\ p \in ThProcs
  BY DEF WaitResume, ThInv, OwnersInv, ThType
<1>2. thProc[p] \in ProcessRecord
  BY <1>1 DEF ThInv, ThType
<1> DEFINE r == [thProc[p] EXCEPT !.events = IF @ > 0 THEN @ - 1 ELSE @]
<1>3. r \in ProcessRecord /\ r.count = thProc[p].count /\ r.life = thProc[p].life
      /\ r.waiter = thProc[p].waiter
  BY <1>2 DEF ProcessRecord
<1>4. /\ thProc' = [thProc EXCEPT ![p] = r] /\ thState' = [thState EXCEPT ![t] = "ready"]
      /\ UNCHANGED <<thOwner, thObjects, thPages>>
  BY DEF WaitResume
<1> HIDE DEF r
<1>5. BlockedIsTheWaiter'
  BY <1>1, <1>3, <1>4 DEF ThInv, BlockedIsTheWaiter, ThType, OwnersInv
<1>6. /\ thState' \in [ThreadIds -> ThreadStates]
      /\ \A s \in ThreadIds : thState'[s] = "none" <=> thState[s] = "none"
  BY <1>1, <1>4 DEF ThInv, ThType, ThreadStates
<1> QED  BY <1>1, <1>3, <1>4, <1>5, <1>6, QuietStep

LEMMA ExitStep ==
    ASSUME ThInv, NEW t \in ThreadIds, thread_exit(t)
    PROVE  ThInv'
<1>0. thState[t] = "ready" /\ thOwner[t] \in ThProcs
  BY DEF thread_exit, ThInv, OwnersInv, ThType
<1>1. PICK p \in ThProcs : p = thOwner[t]
  BY <1>0
<1> DEFINE wakes == thProc[p].waiter \notin {NoThread, t}
           r == [life |-> thProc[p].life, count |-> thProc[p].count,
                 events |-> thProc[p].events + 1,
                 waiter |-> IF wakes THEN NoThread ELSE thProc[p].waiter]
<1>2. thProc[p] \in ProcessRecord
  BY <1>1 DEF ThInv, ThType
<1>3. /\ r \in ProcessRecord /\ r.count = thProc[p].count /\ r.life = thProc[p].life
      /\ r.waiter = IF wakes THEN NoThread ELSE thProc[p].waiter
  BY <1>2 DEF ProcessRecord
<1>4. /\ thProc' = [thProc EXCEPT ![p] = r]
      /\ thState' = [s \in ThreadIds |->
                       IF s = t THEN "zombie"
                       ELSE IF wakes /\ s = thProc[p].waiter /\ thState[s] = "blocked" THEN "woken"
                       ELSE thState[s]]
      /\ UNCHANGED <<thOwner, thObjects, thPages>>
  BY <1>1 DEF thread_exit
<1>5. BlockedIsTheWaiter'
  <2> SUFFICES ASSUME NEW s \in ThreadIds, thState'[s] = "blocked"
               PROVE  thProc'[thOwner[s]].waiter = s
    BY <1>4 DEF BlockedIsTheWaiter
  <2>1. thState[s] = "blocked" /\ s # t /\ ~(wakes /\ s = thProc[p].waiter)
    BY <1>4
  <2>2. thOwner[s] \in ThProcs /\ thProc[thOwner[s]].waiter = s
    BY <2>1 DEF ThInv, ThType, OwnersInv, BlockedIsTheWaiter
  <2>3. thOwner[s] # p
    BY <2>1, <2>2, ThreadsAssumption DEF NoThread
  <2> QED  BY <1>4, <2>2, <2>3 DEF ThInv, ThType
<1>6. /\ thState' \in [ThreadIds -> ThreadStates]
      /\ \A s \in ThreadIds : thState'[s] = "none" <=> thState[s] = "none"
  BY <1>0, <1>4 DEF ThInv, ThType, ThreadStates
<1> HIDE DEF r
<1> QED  BY <1>1, <1>3, <1>4, <1>5, <1>6, QuietStep

LEMMA DestroyStep ==
    ASSUME ThInv, NEW t \in ThreadIds, thread_destroy(t)
    PROVE  ThInv'
<1>0. thState[t] = "zombie" /\ thOwner[t] \in ThProcs
  BY DEF thread_destroy, ThInv, OwnersInv, ThType
<1>1. PICK p \in ThProcs : p = thOwner[t]
  BY <1>0
<1> DEFINE rest == [life |-> thProc[p].life, count |-> thProc[p].count - 1,
                    events |-> thProc[p].events,
                    waiter |-> IF thProc[p].waiter = t THEN NoThread ELSE thProc[p].waiter]
           r == IF LastOf(thProc[p]) THEN [NewProc EXCEPT !.life = "dead"] ELSE rest
<1>2. thProc[p] \in ProcessRecord
  BY <1>1 DEF ThInv, ThType
<1>3. /\ thState' = [thState EXCEPT ![t] = "none"] /\ thOwner' = [thOwner EXCEPT ![t] = NoThread]
      /\ thProc' = [thProc EXCEPT ![p] = r]
      /\ thObjects' = thObjects + 1 /\ thPages' = thPages + KSTACK_PAGES + 1
  BY <1>1 DEF thread_destroy
<1>4. /\ Cardinality(ThLive') = Cardinality(ThLive) - 1
      /\ Cardinality(Mine(p)') = Cardinality(Mine(p)) - 1
      /\ Mine(p)' = Mine(p) \ {t}
      /\ \A q \in ThProcs : q # p => Mine(q)' = Mine(q)
  BY <1>0, <1>1, <1>3, ThreadRemoved DEF ThInv
<1>5. thProc[p].count = Cardinality(Mine(p)) /\ thProc[p].life = "live" /\ t \in Mine(p)
  BY <1>0, <1>1 DEF ThInv, CountsInv, Mine, ThLive
<1>6. thProc[p].count \in Nat \ {0}
  BY <1>5, ThreadsFinite, FS_EmptySet
<1>7. /\ r \in ProcessRecord /\ r.count = thProc[p].count - 1
      /\ r.count # 0 => r.life = "live" /\ (thProc[p].waiter # t => r.waiter = thProc[p].waiter)
  BY <1>2, <1>5, <1>6 DEF ProcessRecord, NewProc, LastOf
<1>8. ThType'
  <2>1. thProc' \in [ThProcs -> ProcessRecord]
    BY <1>1, <1>3, <1>7 DEF ThInv, ThType
  <2>2. thState' \in [ThreadIds -> ThreadStates] /\ thOwner' \in [ThreadIds -> ThProcs \cup {NoThread}]
    BY <1>3 DEF ThInv, ThType, ThreadStates
  <2> QED  BY <1>3, <2>1, <2>2 DEF ThInv, ThType, KSTACK_PAGES
<1>9. OwnersInv'
  BY <1>3 DEF ThInv, ThType, OwnersInv
<1>10. ThreadResourcesConserved'
  BY <1>3, <1>4, ThreadsFinite DEF ThInv, ThType, ThreadResourcesConserved, KSTACK_PAGES
<1> HIDE DEF r
<1>11. thProc'[p] = r /\ \A q \in ThProcs : q # p => thProc'[q] = thProc[q]
  BY <1>1, <1>3 DEF ThInv, ThType
<1>12. CountsInv'
  <2>1. thProc'[p].count = Cardinality(Mine(p)')
    BY <1>4, <1>5, <1>7, <1>11
  <2>2. ASSUME Mine(p)' # {} PROVE thProc'[p].life = "live"
    <3>1. IsFiniteSet(Mine(p) \ {t}) /\ Mine(p) \ {t} # {}
      BY <1>4, <2>2, ThreadsFinite, FS_RemoveElement
    <3>2. Cardinality(Mine(p) \ {t}) # 0
      BY <3>1, FS_EmptySet
    <3> QED  BY <1>4, <1>7, <1>11, <2>1, <3>2
  <2>3. ASSUME NEW q \in ThProcs, q # p
        PROVE  thProc'[q].count = Cardinality(Mine(q)') /\ (Mine(q)' # {} => thProc'[q].life = "live")
    BY <1>4, <1>11, <2>3 DEF ThInv, CountsInv
  <2> QED  BY <2>1, <2>2, <2>3 DEF CountsInv
<1>13. BlockedIsTheWaiter'
  <2> SUFFICES ASSUME NEW s \in ThreadIds, thState'[s] = "blocked"
               PROVE  thProc'[thOwner'[s]].waiter = s
    BY DEF BlockedIsTheWaiter
  <2>1. s # t /\ thState[s] = "blocked" /\ thOwner'[s] = thOwner[s] /\ thOwner[s] \in ThProcs
    BY <1>3 DEF ThInv, ThType, OwnersInv
  <2>2. thProc[thOwner[s]].waiter = s
    BY <2>1 DEF ThInv, BlockedIsTheWaiter
  <2>3. CASE thOwner[s] = p
    <3>1. s \in Mine(p) \ {t}
      BY <2>1, <2>3 DEF Mine, ThLive
    <3>2. Cardinality(Mine(p) \ {t}) # 0
      BY <3>1, ThreadsFinite, FS_RemoveElement, FS_EmptySet
    <3>3. r.count # 0
      BY <1>4, <1>5, <1>7, <3>2
    <3> QED  BY <1>7, <1>11, <2>1, <2>2, <2>3, <3>3
  <2>4. CASE thOwner[s] # p
    BY <1>11, <2>1, <2>2, <2>4
  <2> QED  BY <2>3, <2>4
<1> QED  BY <1>8, <1>9, <1>10, <1>12, <1>13 DEF ThInv

LEMMA ProcessStep ==
    ASSUME ThInv, NEW p \in ThProcs, ThProcessCreate(p)
    PROVE  ThInv'
<1>1. /\ thProc[p].life = "dead" /\ thProc' = [thProc EXCEPT ![p] = NewProc]
      /\ UNCHANGED <<thState, thOwner, thObjects, thPages>>
  BY DEF ThProcessCreate
<1>2. Mine(p) = {}
  BY <1>1 DEF ThInv, CountsInv
<1>3. ThLive' = ThLive /\ \A q : Mine(q)' = Mine(q)
  BY <1>1, ThreadsStay
<1>4. NewProc \in ProcessRecord /\ NewProc.count = 0 /\ NewProc.life = "live"
  BY DEF NewProc, ProcessRecord
<1>5. thProc'[p] = NewProc /\ \A q \in ThProcs : q # p => thProc'[q] = thProc[q]
  BY <1>1 DEF ThInv, ThType
<1>6. ThType'
  BY <1>1, <1>4 DEF ThInv, ThType
<1>7. OwnersInv' /\ ThreadResourcesConserved'
  BY <1>1, <1>3 DEF ThInv, OwnersInv, ThreadResourcesConserved
<1>8. CountsInv'
  BY <1>2, <1>3, <1>4, <1>5, FS_EmptySet DEF ThInv, CountsInv
<1>9. BlockedIsTheWaiter'
  <2>1. ASSUME NEW s \in ThreadIds, thState[s] = "blocked"
        PROVE  thOwner[s] # p /\ thOwner[s] \in ThProcs
    BY <1>2, <2>1 DEF ThInv, ThType, OwnersInv, Mine, ThLive
  <2> QED  BY <1>1, <1>5, <2>1 DEF ThInv, BlockedIsTheWaiter
<1> QED  BY <1>6, <1>7, <1>8, <1>9 DEF ThInv

LEMMA ThInvStep == ThInv /\ [ThNext]_thVars => ThInv'
<1> SUFFICES ASSUME ThInv, [ThNext]_thVars PROVE ThInv'
  OBVIOUS
<1>1. ASSUME UNCHANGED thVars PROVE ThInv'
  <2>1. ThLive' = ThLive /\ \A p : Mine(p)' = Mine(p)
    BY <1>1, ThreadsStay DEF thVars
  <2> QED
    BY <1>1, <2>1
    DEF thVars, ThInv, ThType, OwnersInv, ThreadResourcesConserved, BlockedIsTheWaiter, CountsInv
<1>2. ASSUME NEW p \in ThProcs, NEW t \in ThreadIds, thread_create(p, t) PROVE ThInv'
  BY <1>1, <1>2, CreateStep
<1>3. ASSUME NEW t \in ThreadIds, NEW nonblocking \in BOOLEAN, sys_wait(t, nonblocking)
      PROVE  ThInv'
  BY <1>1, <1>3, WaitStep
<1> QED
  BY <1>1, <1>2, <1>3, ProcessStep, ResumeStep, ExitStep, DestroyStep DEF ThNext

-----------------------------------------------------------------------------
\* The inductive invariant.  The three properties need one another: a destroyed process has
\* no blocked thread because thread_count counts its threads, and that count is right because
\* exactly the threads that exist have an owner.
THEOREM ThreadsInvariant == ThSpec => []ThInv
  BY ThInvInit, ThInvStep, PTL DEF ThSpec

\* thread_create and thread_destroy lose neither a page nor a thread object, whichever of
\* the three allocations fails.
THEOREM ResourcesConserved == ThSpec => []ThreadResourcesConserved
<1>1. ThInv => ThreadResourcesConserved
  BY DEF ThInv
<1> QED  BY <1>1, ThreadsInvariant, PTL

\* A thread blocked in SYS_WAIT is the one that the next exit in its process wakes.
THEOREM WaiterIsRegistered == ThSpec => []BlockedIsTheWaiter
<1>1. ThInv => BlockedIsTheWaiter
  BY DEF ThInv
<1> QED  BY <1>1, ThreadsInvariant, PTL

\* thread_count is exact and a process outlives its threads, so that thread_destroy takes
\* the process with its last thread and not before.
THEOREM ProcessOutlivesThreads == ThSpec => []ThreadsOwnALiveProcess
<1>1. ThInv => ThreadsOwnALiveProcess
  BY DEF ThInv, CountsInv, Mine, ThreadsOwnALiveProcess
<1> QED  BY <1>1, ThreadsInvariant, PTL

\* Together: threads, their memory, their waiters and their processes agree.
THEOREM ThreadsStayAccounted == ThSpec => []ThreadsAreAccounted
BY ResourcesConserved, WaiterIsRegistered, ProcessOutlivesThreads, PTL DEF ThreadsAreAccounted
=============================================================================
