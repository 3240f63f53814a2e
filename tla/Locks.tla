------------------------------- MODULE Locks -------------------------------
(***************************************************************************)
(* The locks of kernel/include/utils.h: reader/writer lock, sequence lock  *)
(* and the reader counter called rcu, one atomic instruction per step.     *)
(* The critical sections are the clients': a seqlock writer updates two    *)
(* words one after the other and a reader reads them one after the other.  *)
(***************************************************************************)
EXTENDS Integers, FiniteSets

CONSTANTS
    LockThreads,
    LockKinds,          \* the locks exercised, a subset of {"rw", "seq", "rcu"}
    LockMaxWrites       \* bound on seqlock writes (seq is a 32-bit counter)

ASSUME LockAssumption ==
    /\ IsFiniteSet(LockThreads)
    /\ LockKinds \subseteq {"rw", "seq", "rcu"}
    /\ LockMaxWrites \in Nat

VARIABLES
    lockKind,    \* the lock this run exercises
    lockPc,      \* where each thread is
    lockVal,     \* its local variable: the value it loaded
    rw,          \* rwlock: [writer |-> RWLOCK_WRITER_BIT, readers |-> count]
    seq, wlock,  \* seqlock seq; writer_lock of the seqlock or rcu
    word,        \* the two words a seqlock protects
    seen,        \* the words a seqlock reader has read
    readers,     \* rcu readers
    grace        \* history: readers inside when rcu_synchronize began

lockVars == <<lockKind, lockPc, lockVal, rw, seq, wlock, word, seen, readers, grace>>

LockInit ==
    /\ lockKind \in LockKinds
    /\ lockPc = [t \in LockThreads |-> "idle"]
    /\ lockVal = [t \in LockThreads |-> 0]
    /\ rw = [writer |-> 0, readers |-> 0]
    /\ seq = 0 /\ wlock = 0
    /\ word = <<0, 0>>
    /\ seen = [t \in LockThreads |-> <<0, 0>>]
    /\ readers = 0
    /\ grace = [t \in LockThreads |-> {}]

Go(t, from, to) == lockPc[t] = from /\ lockPc' = [lockPc EXCEPT ![t] = to]

-----------------------------------------------------------------------------
(* rwlock_t                                                                 *)

\* rwlock_read_lock: load; spin while the writer bit is set; compare and exchange
ReadLoad(t) ==
    /\ lockPc[t] \in {"idle", "rload"} /\ rw.writer = 0
    /\ lockPc' = [lockPc EXCEPT ![t] = "rcas"]
    /\ lockVal' = [lockVal EXCEPT ![t] = rw.readers] /\ UNCHANGED rw
ReadCas_Fault(t) ==
    /\ Go(t, "rcas", "rcs") /\ rw' = [rw EXCEPT !.readers = @ + 1]
    /\ lockVal' = [lockVal EXCEPT ![t] = 0]
ReadCas(t) ==
    /\ \/ /\ rw = [writer |-> 0, readers |-> lockVal[t]] /\ Go(t, "rcas", "rcs")
          /\ rw' = [rw EXCEPT !.readers = @ + 1]
       \/ /\ rw # [writer |-> 0, readers |-> lockVal[t]] /\ Go(t, "rcas", "rload")
          /\ UNCHANGED rw
    /\ lockVal' = [lockVal EXCEPT ![t] = 0]
rwlock_read_unlock(t) ==
    Go(t, "rcs", "idle") /\ rw' = [rw EXCEPT !.readers = @ - 1] /\ UNCHANGED lockVal
rwlock_write_lock(t) ==
    /\ Go(t, "idle", "wcs") /\ rw = [writer |-> 0, readers |-> 0]
    /\ rw' = [rw EXCEPT !.writer = 1] /\ UNCHANGED lockVal
rwlock_write_unlock(t) ==
    Go(t, "wcs", "idle") /\ rw' = [writer |-> 0, readers |-> 0] /\ UNCHANGED lockVal

RwNext(t) ==
    /\ lockKind = "rw"
    /\ ReadLoad(t) \/ ReadCas(t) \/ rwlock_read_unlock(t) \/ rwlock_write_lock(t) \/ rwlock_write_unlock(t)
    /\ UNCHANGED <<lockKind, seq, wlock, word, seen, readers, grace>>

-----------------------------------------------------------------------------
(* seqlock_t                                                                *)

\* seqlock_read_begin spins while seq is odd
seqlock_read_begin(t) ==
    /\ seq % 2 = 0 /\ Go(t, "idle", "rd1")
    /\ lockVal' = [lockVal EXCEPT ![t] = seq]
    /\ seen' = [seen EXCEPT ![t] = <<0, 0>>] /\ UNCHANGED <<seq, wlock, word>>
ReadWord(t, i) ==
    /\ Go(t, <<"rd1", "rd2">>[i], <<"rd2", "retry">>[i])
    /\ seen' = [seen EXCEPT ![t][i] = word[i]] /\ UNCHANGED <<lockVal, seq, wlock, word>>
seqlock_read_retry(t) ==
    /\ \/ (seq # lockVal[t] \/ seq % 2 # 0) /\ Go(t, "retry", "idle")
       \/ seq = lockVal[t] /\ seq % 2 = 0 /\ Go(t, "retry", "accepted")
    /\ lockVal' = [lockVal EXCEPT ![t] = 0] /\ UNCHANGED <<seq, wlock, word, seen>>
UseRead(t) ==
    /\ Go(t, "accepted", "idle") /\ seen' = [seen EXCEPT ![t] = <<0, 0>>]
    /\ UNCHANGED <<lockVal, seq, wlock, word>>
\* seqlock_write_begin: take the writer lock, then make seq odd
WriteAcquire(t) ==
    /\ wlock = 0 /\ seq < 2 * LockMaxWrites /\ Go(t, "idle", "wbegin") /\ wlock' = 1
    /\ UNCHANGED <<lockVal, seq, word, seen>>
seqlock_write_begin(t) ==
    Go(t, "wbegin", "wr1") /\ seq' = seq + 1 /\ UNCHANGED <<lockVal, wlock, word, seen>>
WriteWord(t, i) ==
    /\ Go(t, <<"wr1", "wr2">>[i], <<"wr2", "wend">>[i])
    /\ word' = [word EXCEPT ![i] = @ + 1] /\ UNCHANGED <<lockVal, seq, wlock, seen>>
seqlock_write_end(t) ==
    Go(t, "wend", "wrel") /\ seq' = seq + 1 /\ UNCHANGED <<lockVal, wlock, word, seen>>
WriteRelease(t) ==
    Go(t, "wrel", "idle") /\ wlock' = 0 /\ UNCHANGED <<lockVal, seq, word, seen>>

SeqNext(t) ==
    /\ lockKind = "seq"
    /\ \/ seqlock_read_begin(t) \/ seqlock_read_retry(t) \/ UseRead(t)
       \/ WriteAcquire(t) \/ seqlock_write_begin(t) \/ seqlock_write_end(t) \/ WriteRelease(t)
       \/ \E i \in 1..2 : ReadWord(t, i) \/ WriteWord(t, i)
    /\ UNCHANGED <<lockKind, rw, readers, grace>>

-----------------------------------------------------------------------------
(* rcu_t (its epoch is written and never read)                              *)

Inside(pc) == {t \in LockThreads : lockPc[t] = pc}
rcu_read_lock(t) == Go(t, "idle", "rcs") /\ readers' = readers + 1 /\ UNCHANGED <<wlock, grace>>
rcu_read_unlock(t) ==
    /\ Go(t, "rcs", "idle") /\ readers' = readers - 1
    /\ grace' = [s \in LockThreads |-> grace[s] \ {t}] /\ UNCHANGED wlock
\* rcu_synchronize: writer lock, wait for a moment without readers, release
SyncBegin(t) ==
    /\ wlock = 0 /\ Go(t, "idle", "wait") /\ wlock' = 1
    /\ grace' = [grace EXCEPT ![t] = Inside("rcs")] /\ UNCHANGED readers
rcu_synchronize(t) ==
    /\ readers = 0 /\ Go(t, "wait", "synced") /\ UNCHANGED <<readers, wlock, grace>>
SyncEnd(t) ==
    /\ Go(t, "synced", "idle") /\ wlock' = 0
    /\ grace' = [grace EXCEPT ![t] = {}] /\ UNCHANGED readers

RcuNext(t) ==
    /\ lockKind = "rcu"
    /\ rcu_read_lock(t) \/ rcu_read_unlock(t) \/ SyncBegin(t) \/ rcu_synchronize(t) \/ SyncEnd(t)
    /\ UNCHANGED <<lockKind, lockVal, rw, seq, word, seen>>

LockNext == \E t \in LockThreads : RwNext(t) \/ SeqNext(t) \/ RcuNext(t)

LockSpec == LockInit /\ [][LockNext]_lockVars
-----------------------------------------------------------------------------
(* Properties.                                                              *)

\* A thread between rwlock_write_lock and its unlock is alone, whatever readers had loaded
\* before the writer came; the lock word counts the readers inside.
RwlockExcludes ==
    lockKind = "rw" =>
       /\ Cardinality(Inside("wcs")) = rw.writer
       /\ Cardinality(Inside("rcs")) = rw.readers
       /\ Inside("wcs") # {} => Inside("rcs") = {} /\ rw.writer = 1

\* A reader that seqlock_read_retry lets through saw the two words of one and the same write.
SeqlockReadsAreWhole ==
    \A t \in LockThreads : lockPc[t] = "accepted" => seen[t][1] = seen[t][2]

\* rcu_synchronize does not return before every reader that was inside at its start has left.
RcuGraceRespected ==
    \A t \in LockThreads : lockPc[t] = "synced" => grace[t] = {}

\* Each of the three locks keeps its promise: rwlock, seqlock and rcu (utils.h).
LocksProtect == RwlockExcludes /\ SeqlockReadsAreWhole /\ RcuGraceRespected
=============================================================================
