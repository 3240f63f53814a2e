---------------------------- MODULE LocksProofs ----------------------------
(***************************************************************************)
(* Proofs about the locks of kernel/include/utils.h, for any finite set of *)
(* threads and any number of writes.                                       *)
(***************************************************************************)
EXTENDS Locks, FiniteSetTheorems, TLAPS

RwPcs == {"idle", "rload", "rcas", "rcs", "wcs"}
SeqPcs == {"idle", "rd1", "rd2", "retry", "accepted", "wbegin", "wr1", "wr2", "wend", "wrel"}
RcuPcs == {"idle", "rcs", "wait", "synced"}

\* The lock word counts who is inside, and a writer is inside only without readers.
RwInv ==
    /\ lockPc \in [LockThreads -> RwPcs]
    /\ rw \in [writer : {0, 1}, readers : Nat]
    /\ Cardinality(Inside("wcs")) = rw.writer
    /\ Cardinality(Inside("rcs")) = rw.readers
    /\ rw.writer = 1 => rw.readers = 0

\* A thread in the middle of rcu_synchronize remembers only readers that are still inside.
RcuInv ==
    /\ lockPc \in [LockThreads -> RcuPcs]
    /\ readers = Cardinality(Inside("rcs"))
    /\ grace \in [LockThreads -> SUBSET LockThreads]
    /\ \A t \in LockThreads : grace[t] \subseteq Inside("rcs")
    /\ RcuGraceRespected

\* The thread that holds writer_lock, if there is one, is the only one in a writer's place,
\* and its place says how far the words are from half the sequence number.
Writing == {"wbegin", "wr1", "wr2", "wend", "wrel"}
WordsAt(pc) ==
    CASE pc = "wr1" -> 2 * word[1] + 1 = seq /\ 2 * word[2] + 1 = seq
      [] pc = "wr2" -> 2 * word[1] = seq + 1 /\ 2 * word[2] + 1 = seq
      [] pc = "wend" -> 2 * word[1] = seq + 1 /\ 2 * word[2] = seq + 1
      [] OTHER -> 2 * word[1] = seq /\ 2 * word[2] = seq
WriterInv ==
    \/ /\ wlock = 0 /\ WordsAt("idle")
       /\ \A t \in LockThreads : lockPc[t] \notin Writing
    \/ \E w \in LockThreads :
          /\ wlock = 1 /\ lockPc[w] \in Writing /\ WordsAt(lockPc[w])
          /\ \A t \in LockThreads : t # w => lockPc[t] \notin Writing

\* A reader's words are those of the sequence number it began with, as long as that is the
\* current one; it never changes back, because it only grows.
ReaderInv(t) ==
    /\ lockPc[t] \in {"rd1", "rd2", "retry"} => lockVal[t] <= seq
    /\ lockPc[t] \in {"rd2", "retry"} /\ lockVal[t] = seq /\ seq % 2 = 0 => 2 * seen[t][1] = seq
    /\ lockPc[t] = "retry" /\ lockVal[t] = seq /\ seq % 2 = 0 => 2 * seen[t][2] = seq
    /\ lockPc[t] = "accepted" => seen[t][1] = seen[t][2]
SeqInv ==
    /\ lockPc \in [LockThreads -> SeqPcs]
    /\ lockVal \in [LockThreads -> Nat]
    /\ seq \in Nat
    /\ word \in [1..2 -> Nat]
    /\ seen \in [LockThreads -> [1..2 -> Nat]]
    /\ WriterInv
    /\ \A t \in LockThreads : ReaderInv(t)

LockInv ==
    /\ lockKind \in {"rw", "seq", "rcu"}
    /\ lockKind = "rw" => RwInv
    /\ lockKind = "seq" => SeqInv
    /\ lockKind = "rcu" => RcuInv

-----------------------------------------------------------------------------
(* Counting the threads at a place.                                         *)

\* The threads at one place are finitely many.
LEMMA InsideFinite ==
    ASSUME NEW pc
    PROVE  IsFiniteSet(Inside(pc)) /\ Cardinality(Inside(pc)) \in Nat
<1>1. Inside(pc) \in SUBSET LockThreads
  BY DEF Inside
<1>2. IsFiniteSet(Inside(pc))
  BY <1>1, LockAssumption, FS_Subset
<1> QED  BY <1>2, FS_CardinalityType

\* A thread on its way elsewhere changes nothing at the other places.
LEMMA MoveOthers ==
    ASSUME NEW P, lockPc \in [LockThreads -> P], NEW t \in LockThreads,
           NEW from, NEW to, Go(t, from, to), NEW pc, pc # from, pc # to
    PROVE  Inside(pc)' = Inside(pc)
  BY DEF Inside, Go

\* A thread that goes from one place to another leaves the first and joins the second.
LEMMA MoveCounts ==
    ASSUME NEW P, lockPc \in [LockThreads -> P], NEW t \in LockThreads,
           NEW from, NEW to, from # to, Go(t, from, to)
    PROVE  /\ t \in Inside(from)
           /\ Cardinality(Inside(from)') = Cardinality(Inside(from)) - 1
           /\ Cardinality(Inside(to)') = Cardinality(Inside(to)) + 1
<1>1. /\ Inside(from)' = Inside(from) \ {t}
      /\ Inside(to)' = Inside(to) \cup {t}
      /\ t \in Inside(from) /\ t \notin Inside(to)
  BY DEF Inside, Go
<1>2. IsFiniteSet(Inside(from)) /\ IsFiniteSet(Inside(to))
  BY InsideFinite
<1>3. Cardinality(Inside(from) \ {t}) = Cardinality(Inside(from)) - 1
  BY <1>1, <1>2, FS_RemoveElement
<1>4. Cardinality(Inside(to) \cup {t}) = Cardinality(Inside(to)) + 1
  BY <1>1, <1>2, FS_AddElement
<1> QED  BY <1>1, <1>3, <1>4

-----------------------------------------------------------------------------
(* The reader/writer lock.                                                  *)

LEMMA RwInit == LockInit => RwInv
<1> SUFFICES ASSUME LockInit PROVE RwInv
  OBVIOUS
<1>1. Inside("wcs") = {} /\ Inside("rcs") = {}
  BY DEF LockInit, Inside
<1>2. Cardinality({}) = 0
  BY FS_EmptySet
<1> QED  BY <1>1, <1>2 DEF LockInit, RwInv, RwPcs

LEMMA RwStep ==
    ASSUME RwInv, NEW t \in LockThreads, RwNext(t)
    PROVE  RwInv'
<1> USE DEF RwInv
<1>1. CASE ReadLoad(t)
  <2>1. lockPc' \in [LockThreads -> RwPcs] /\ rw' = rw
    BY <1>1 DEF ReadLoad, RwPcs
  <2>2. Inside("wcs")' = Inside("wcs") /\ Inside("rcs")' = Inside("rcs")
    BY <1>1 DEF ReadLoad, Inside
  <2> QED  BY <2>1, <2>2
<1>2. CASE ReadCas(t)
  <2>1. CASE Go(t, "rcas", "rcs") /\ rw = [writer |-> 0, readers |-> lockVal[t]]
                 /\ rw' = [rw EXCEPT !.readers = @ + 1]
    <3>1. lockPc' \in [LockThreads -> RwPcs]
      BY <2>1 DEF Go, RwPcs
    <3>2. /\ Cardinality(Inside("rcs")') = Cardinality(Inside("rcs")) + 1
          /\ Inside("wcs")' = Inside("wcs")
      BY <2>1, MoveCounts, MoveOthers
    <3>3. rw' = [writer |-> rw.writer, readers |-> rw.readers + 1] /\ rw.writer = 0
      BY <2>1
    <3> QED  BY <3>1, <3>2, <3>3
  <2>2. CASE Go(t, "rcas", "rload") /\ UNCHANGED rw
    <3>1. lockPc' \in [LockThreads -> RwPcs]
      BY <2>2 DEF Go, RwPcs
    <3>2. Inside("rcs")' = Inside("rcs") /\ Inside("wcs")' = Inside("wcs")
      BY <2>2, MoveOthers
    <3> QED  BY <2>2, <3>1, <3>2
  <2> QED  BY <1>2, <2>1, <2>2 DEF ReadCas
<1>3. CASE rwlock_read_unlock(t)
  <2>1. Go(t, "rcs", "idle") /\ rw' = [rw EXCEPT !.readers = @ - 1]
    BY <1>3 DEF rwlock_read_unlock
  <2>2. lockPc' \in [LockThreads -> RwPcs]
    BY <2>1 DEF Go, RwPcs
  <2>3. /\ t \in Inside("rcs")
        /\ Cardinality(Inside("rcs")') = Cardinality(Inside("rcs")) - 1
        /\ Inside("wcs")' = Inside("wcs")
    BY <2>1, MoveCounts, MoveOthers
  <2>4. rw.readers > 0
    BY <2>3, InsideFinite, FS_EmptySet
  <2>5. rw' = [writer |-> rw.writer, readers |-> rw.readers - 1]
    BY <2>1
  <2> QED  BY <2>2, <2>3, <2>4, <2>5
<1>4. CASE rwlock_write_lock(t)
  <2>1. Go(t, "idle", "wcs") /\ rw = [writer |-> 0, readers |-> 0] /\ rw' = [rw EXCEPT !.writer = 1]
    BY <1>4 DEF rwlock_write_lock
  <2>2. lockPc' \in [LockThreads -> RwPcs]
    BY <2>1 DEF Go, RwPcs
  <2>3. /\ Cardinality(Inside("wcs")') = Cardinality(Inside("wcs")) + 1
        /\ Inside("rcs")' = Inside("rcs")
    BY <2>1, MoveCounts, MoveOthers
  <2>4. rw' = [writer |-> 1, readers |-> 0] /\ rw.writer = 0 /\ rw.readers = 0
    BY <2>1
  <2> QED  BY <2>2, <2>3, <2>4
<1>5. CASE rwlock_write_unlock(t)
  <2>1. Go(t, "wcs", "idle") /\ rw' = [writer |-> 0, readers |-> 0]
    BY <1>5 DEF rwlock_write_unlock
  <2>2. lockPc' \in [LockThreads -> RwPcs]
    BY <2>1 DEF Go, RwPcs
  <2>3. /\ t \in Inside("wcs")
        /\ Cardinality(Inside("wcs")') = Cardinality(Inside("wcs")) - 1
        /\ Inside("rcs")' = Inside("rcs")
    BY <2>1, MoveCounts, MoveOthers
  <2>4. rw.writer = 1
    BY <2>3, InsideFinite, FS_EmptySet
  <2> QED  BY <2>1, <2>2, <2>3, <2>4
<1> QED  BY <1>1, <1>2, <1>3, <1>4, <1>5 DEF RwNext

LEMMA RwSafe == RwInv => RwlockExcludes
<1> SUFFICES ASSUME RwInv, Inside("wcs") # {}
             PROVE  Inside("rcs") = {} /\ rw.writer = 1
  BY DEF RwInv, RwlockExcludes
<1>1. Cardinality(Inside("wcs")) # 0
  BY InsideFinite, FS_EmptySet
<1>2. Cardinality(Inside("rcs")) = 0 /\ rw.writer = 1
  BY <1>1 DEF RwInv
<1> QED  BY <1>2, InsideFinite, FS_EmptySet

-----------------------------------------------------------------------------
(* The reader counter called rcu.                                           *)

LEMMA RcuInit == LockInit => RcuInv
<1> SUFFICES ASSUME LockInit PROVE RcuInv
  OBVIOUS
<1>1. Inside("rcs") = {}
  BY DEF LockInit, Inside
<1>2. Cardinality({}) = 0
  BY FS_EmptySet
<1> QED  BY <1>1, <1>2 DEF LockInit, RcuInv, RcuPcs, RcuGraceRespected

LEMMA RcuStep ==
    ASSUME RcuInv, NEW t \in LockThreads, RcuNext(t)
    PROVE  RcuInv'
<1> USE DEF RcuInv, RcuGraceRespected
<1>1. CASE rcu_read_lock(t)
  <2>1. Go(t, "idle", "rcs") /\ readers' = readers + 1 /\ UNCHANGED grace
    BY <1>1 DEF rcu_read_lock
  <2>2. lockPc' \in [LockThreads -> RcuPcs]
    BY <2>1 DEF Go, RcuPcs
  <2>3. Cardinality(Inside("rcs")') = Cardinality(Inside("rcs")) + 1
    BY <2>1, MoveCounts
  <2>4. Inside("rcs") \subseteq Inside("rcs")'
    BY <2>1 DEF Go, Inside
  <2>5. \A s \in LockThreads : lockPc'[s] = "synced" => lockPc[s] = "synced"
    BY <2>1 DEF Go
  <2> QED  BY <2>1, <2>2, <2>3, <2>4, <2>5
<1>2. CASE rcu_read_unlock(t)
  <2>1. /\ Go(t, "rcs", "idle") /\ readers' = readers - 1
        /\ grace' = [s \in LockThreads |-> grace[s] \ {t}]
    BY <1>2 DEF rcu_read_unlock
  <2>2. lockPc' \in [LockThreads -> RcuPcs]
    BY <2>1 DEF Go, RcuPcs
  <2>3. Cardinality(Inside("rcs")') = Cardinality(Inside("rcs")) - 1
    BY <2>1, MoveCounts
  <2>4. Inside("rcs")' = Inside("rcs") \ {t}
    BY <2>1 DEF Go, Inside
  <2>5. \A s \in LockThreads : lockPc'[s] = "synced" => lockPc[s] = "synced"
    BY <2>1 DEF Go
  <2> QED  BY <2>1, <2>2, <2>3, <2>4, <2>5
<1>3. CASE SyncBegin(t)
  <2>1. /\ Go(t, "idle", "wait") /\ UNCHANGED readers
        /\ grace' = [grace EXCEPT ![t] = Inside("rcs")]
    BY <1>3 DEF SyncBegin
  <2>2. lockPc' \in [LockThreads -> RcuPcs]
    BY <2>1 DEF Go, RcuPcs
  <2>3. Inside("rcs")' = Inside("rcs") /\ Inside("rcs") \subseteq LockThreads
    BY <2>1 DEF Go, Inside
  <2>4. \A s \in LockThreads : lockPc'[s] = "synced" => lockPc[s] = "synced" /\ s # t
    BY <2>1 DEF Go
  <2> QED  BY <2>1, <2>2, <2>3, <2>4
<1>4. CASE rcu_synchronize(t)
  <2>1. Go(t, "wait", "synced") /\ readers = 0 /\ UNCHANGED <<readers, grace>>
    BY <1>4 DEF rcu_synchronize
  <2>2. lockPc' \in [LockThreads -> RcuPcs]
    BY <2>1 DEF Go, RcuPcs
  <2>3. Inside("rcs")' = Inside("rcs")
    BY <2>1 DEF Go, Inside
  <2>4. Inside("rcs") = {}
    BY <2>1, InsideFinite, FS_EmptySet
  <2> QED  BY <2>1, <2>2, <2>3, <2>4
<1>5. CASE SyncEnd(t)
  <2>1. Go(t, "synced", "idle") /\ UNCHANGED readers /\ grace' = [grace EXCEPT ![t] = {}]
    BY <1>5 DEF SyncEnd
  <2>2. lockPc' \in [LockThreads -> RcuPcs]
    BY <2>1 DEF Go, RcuPcs
  <2>3. Inside("rcs")' = Inside("rcs")
    BY <2>1 DEF Go, Inside
  <2>4. \A s \in LockThreads : lockPc'[s] = "synced" => lockPc[s] = "synced"
    BY <2>1 DEF Go
  <2> QED  BY <2>1, <2>2, <2>3, <2>4
<1> QED  BY <1>1, <1>2, <1>3, <1>4, <1>5 DEF RcuNext

-----------------------------------------------------------------------------
(* The sequence lock.                                                       *)

\* While the words are being written the sequence number is odd; otherwise each is its half.
LEMMA EvenMeansWritten ==
    ASSUME seq \in Nat, word \in [1..2 -> Nat], WriterInv, seq % 2 = 0
    PROVE  2 * word[1] = seq /\ 2 * word[2] = seq
<1>1. \A n \in Int : (2 * n + 1) % 2 = 1
  OBVIOUS
<1>2. word[1] \in Nat /\ word[2] \in Nat
  OBVIOUS
<1>3. 2 * word[1] + 1 # seq
  BY <1>1, <1>2
<1>4. 2 * word[1] # seq + 1
  <2>1. SUFFICES ASSUME 2 * word[1] = seq + 1 PROVE FALSE
    OBVIOUS
  <2>2. seq = 2 * (word[1] - 1) + 1 /\ word[1] - 1 \in Int
    BY <1>2, <2>1
  <2> QED  BY <1>1, <2>2
<1>5. ASSUME NEW pc, WordsAt(pc) PROVE 2 * word[1] = seq /\ 2 * word[2] = seq
  BY <1>3, <1>4, <1>5 DEF WordsAt
<1> QED  BY <1>5 DEF WriterInv

LEMMA SeqInit == LockInit => SeqInv
<1> SUFFICES ASSUME LockInit PROVE SeqInv
  OBVIOUS
<1> USE DEF LockInit
<1>1. word \in [1..2 -> Nat] /\ word[1] = 0 /\ word[2] = 0
  OBVIOUS
<1>2. seen \in [LockThreads -> [1..2 -> Nat]]
  OBVIOUS
<1>3. WriterInv
  BY <1>1 DEF WriterInv, WordsAt, Writing
<1>4. \A t \in LockThreads : ReaderInv(t)
  BY DEF ReaderInv
<1> QED  BY <1>1, <1>2, <1>3, <1>4 DEF SeqInv, SeqPcs

\* A reader's step leaves the writers' part alone.
LEMMA ReaderStepKeepsWriter ==
    ASSUME SeqInv, NEW t \in LockThreads, NEW from, NEW to, Go(t, from, to),
           from \notin Writing, to \notin Writing, UNCHANGED <<seq, wlock, word>>
    PROVE  WriterInv'
<1>1. \A s \in LockThreads : lockPc'[s] \in Writing <=> lockPc[s] \in Writing
  BY DEF Go, SeqInv
<1>2. \A s \in LockThreads : lockPc[s] \in Writing => lockPc'[s] = lockPc[s]
  BY DEF Go, SeqInv
<1>3. \A pc : WordsAt(pc)' <=> WordsAt(pc)
  BY DEF WordsAt
<1>4. CASE wlock = 0 /\ WordsAt("idle") /\ \A s \in LockThreads : lockPc[s] \notin Writing
  BY <1>1, <1>3, <1>4 DEF WriterInv
<1>5. ASSUME NEW w \in LockThreads,
             wlock = 1, lockPc[w] \in Writing, WordsAt(lockPc[w]),
             \A s \in LockThreads : s # w => lockPc[s] \notin Writing
      PROVE  WriterInv'
  <2>1. lockPc'[w] \in Writing /\ wlock' = 1
    BY <1>2, <1>5
  <2>2. WordsAt(lockPc[w])'
    BY <1>2, <1>3, <1>5 DEF WordsAt
  <2>3. \A s \in LockThreads : s # w => lockPc'[s] \notin Writing
    BY <1>1, <1>5
  <2> QED  BY <2>1, <2>2, <2>3 DEF WriterInv
<1> QED  BY <1>4, <1>5 DEF SeqInv, WriterInv

\* The thread in a writer's place is the only one there.
LEMMA HolderIsAlone ==
    ASSUME WriterInv, NEW t \in LockThreads, lockPc[t] \in Writing
    PROVE  /\ wlock = 1 /\ WordsAt(lockPc[t])
           /\ \A s \in LockThreads : s # t => lockPc[s] \notin Writing
  BY DEF WriterInv

\* The step of one thread does not disturb what another has read: the sequence number stays
\* or grows beyond the one the other began with.
LEMMA OtherReadersKept ==
    ASSUME SeqInv, NEW t \in LockThreads, NEW from, NEW to, Go(t, from, to),
           seq' = seq \/ seq' = seq + 1,
           \A s \in LockThreads : s # t => lockVal'[s] = lockVal[s] /\ seen'[s] = seen[s]
    PROVE  \A s \in LockThreads : s # t => ReaderInv(s)'
<1> SUFFICES ASSUME NEW s \in LockThreads, s # t PROVE ReaderInv(s)'
  OBVIOUS
<1>1. lockPc'[s] = lockPc[s] /\ lockVal'[s] = lockVal[s] /\ seen'[s] = seen[s]
  BY DEF Go, SeqInv
<1>2. ReaderInv(s) /\ seq \in Nat /\ lockVal[s] \in Nat
  BY DEF SeqInv
<1> QED  BY <1>1, <1>2 DEF ReaderInv

LEMMA SeqReaderStep ==
    ASSUME SeqInv, NEW t \in LockThreads,
           \/ seqlock_read_begin(t) \/ seqlock_read_retry(t) \/ UseRead(t)
           \/ ReadWord(t, 1) \/ ReadWord(t, 2)
    PROVE  SeqInv'
<1> USE DEF SeqInv
<1>w. UNCHANGED <<seq, wlock, word>>
  BY DEF seqlock_read_begin, seqlock_read_retry, UseRead, ReadWord
<1>h. seq % 2 = 0 => 2 * word[1] = seq /\ 2 * word[2] = seq
  BY EvenMeansWritten
<1>1. CASE seqlock_read_begin(t)
  <2>1. /\ Go(t, "idle", "rd1") /\ lockVal' = [lockVal EXCEPT ![t] = seq]
        /\ seen' = [seen EXCEPT ![t] = <<0, 0>>]
    BY <1>1 DEF seqlock_read_begin
  <2>2. WriterInv'
    BY <1>w, <2>1, ReaderStepKeepsWriter DEF Writing
  <2>3. \A s \in LockThreads : s # t => ReaderInv(s)'
    BY <1>w, <2>1, OtherReadersKept
  <2>4. ReaderInv(t)'
    BY <1>w, <2>1 DEF ReaderInv, Go
  <2>5. lockPc' \in [LockThreads -> SeqPcs] /\ lockVal' \in [LockThreads -> Nat]
    BY <2>1 DEF Go, SeqPcs
  <2>6. seen' \in [LockThreads -> [1..2 -> Nat]]
    BY <2>1
  <2> QED  BY <1>w, <2>2, <2>3, <2>4, <2>5, <2>6
<1>2. CASE seqlock_read_retry(t)
  <2>1. /\ lockVal' = [lockVal EXCEPT ![t] = 0] /\ UNCHANGED seen
        /\ \/ Go(t, "retry", "idle")
           \/ Go(t, "retry", "accepted") /\ seq = lockVal[t] /\ seq % 2 = 0
    BY <1>2 DEF seqlock_read_retry
  <2>2. WriterInv'
    BY <1>w, <2>1, ReaderStepKeepsWriter DEF Writing
  <2>3. \A s \in LockThreads : s # t => ReaderInv(s)'
    BY <1>w, <2>1, OtherReadersKept
  <2>4. ReaderInv(t)'
    <3>1. ReaderInv(t) /\ seen[t][1] \in Nat /\ seen[t][2] \in Nat
      OBVIOUS
    <3>2. CASE Go(t, "retry", "idle")
      BY <3>2 DEF ReaderInv, Go
    <3>3. CASE Go(t, "retry", "accepted") /\ seq = lockVal[t] /\ seq % 2 = 0
      <4>1. 2 * seen[t][1] = seq /\ 2 * seen[t][2] = seq
        BY <3>1, <3>3 DEF ReaderInv, Go
      <4>2. seen[t][1] = seen[t][2]
        BY <3>1, <4>1
      <4> QED  BY <2>1, <3>3, <4>2 DEF ReaderInv, Go
    <3> QED  BY <2>1, <3>2, <3>3
  <2>5. lockPc' \in [LockThreads -> SeqPcs] /\ lockVal' \in [LockThreads -> Nat]
    BY <2>1 DEF Go, SeqPcs
  <2> QED  BY <1>w, <2>1, <2>2, <2>3, <2>4, <2>5
<1>3. CASE UseRead(t)
  <2>1. /\ Go(t, "accepted", "idle") /\ UNCHANGED lockVal
        /\ seen' = [seen EXCEPT ![t] = <<0, 0>>]
    BY <1>3 DEF UseRead
  <2>2. WriterInv'
    BY <1>w, <2>1, ReaderStepKeepsWriter DEF Writing
  <2>3. \A s \in LockThreads : s # t => ReaderInv(s)'
    BY <1>w, <2>1, OtherReadersKept
  <2>4. ReaderInv(t)'
    BY <1>w, <2>1 DEF ReaderInv, Go
  <2>5. lockPc' \in [LockThreads -> SeqPcs]
    BY <2>1 DEF Go, SeqPcs
  <2>6. seen' \in [LockThreads -> [1..2 -> Nat]]
    BY <2>1
  <2> QED  BY <1>w, <2>1, <2>2, <2>3, <2>4, <2>5, <2>6
<1>4. CASE ReadWord(t, 1)
  <2>1. Go(t, "rd1", "rd2") /\ UNCHANGED lockVal /\ seen' = [seen EXCEPT ![t][1] = word[1]]
    BY <1>4 DEF ReadWord
  <2>2. WriterInv'
    BY <1>w, <2>1, ReaderStepKeepsWriter DEF Writing
  <2>3. \A s \in LockThreads : s # t => ReaderInv(s)'
    BY <1>w, <2>1, OtherReadersKept
  <2>4. ReaderInv(t)'
    <3>1. seen'[t][1] = word[1]
      BY <2>1
    <3> QED  BY <1>w, <1>h, <2>1, <3>1 DEF ReaderInv, Go
  <2>5. lockPc' \in [LockThreads -> SeqPcs]
    BY <2>1 DEF Go, SeqPcs
  <2>6. seen' \in [LockThreads -> [1..2 -> Nat]]
    BY <2>1
  <2> QED  BY <1>w, <2>1, <2>2, <2>3, <2>4, <2>5, <2>6
<1>5. CASE ReadWord(t, 2)
  <2>1. Go(t, "rd2", "retry") /\ UNCHANGED lockVal /\ seen' = [seen EXCEPT ![t][2] = word[2]]
    BY <1>5 DEF ReadWord
  <2>2. WriterInv'
    BY <1>w, <2>1, ReaderStepKeepsWriter DEF Writing
  <2>3. \A s \in LockThreads : s # t => ReaderInv(s)'
    BY <1>w, <2>1, OtherReadersKept
  <2>4. ReaderInv(t)'
    <3>1. seen'[t][2] = word[2] /\ seen'[t][1] = seen[t][1]
      BY <2>1
    <3> QED  BY <1>w, <1>h, <2>1, <3>1 DEF ReaderInv, Go
  <2>5. lockPc' \in [LockThreads -> SeqPcs]
    BY <2>1 DEF Go, SeqPcs
  <2>6. seen' \in [LockThreads -> [1..2 -> Nat]]
    BY <2>1
  <2> QED  BY <1>w, <2>1, <2>2, <2>3, <2>4, <2>5, <2>6
<1> QED  BY <1>1, <1>2, <1>3, <1>4, <1>5

\* The writers' steps: who takes writer_lock is the only one to hold it, and every later step
\* keeps the words in the distance from the sequence number that its place prescribes.
LEMMA SeqWriterStep ==
    ASSUME SeqInv, NEW t \in LockThreads,
           \/ WriteAcquire(t) \/ seqlock_write_begin(t) \/ seqlock_write_end(t)
           \/ WriteRelease(t) \/ WriteWord(t, 1) \/ WriteWord(t, 2)
    PROVE  SeqInv'
<1> USE DEF SeqInv
<1>u. UNCHANGED <<lockVal, seen>>
  BY DEF WriteAcquire, seqlock_write_begin, seqlock_write_end, WriteRelease, WriteWord
<1>r. ASSUME NEW from, NEW to \in {"idle"} \cup Writing, Go(t, from, to),
             seq' = seq \/ seq' = seq + 1
      PROVE  \A s \in LockThreads : ReaderInv(s)'
  <2>1. \A s \in LockThreads : s # t => ReaderInv(s)'
    BY <1>u, <1>r, OtherReadersKept
  <2>2. ReaderInv(t)'
    BY <1>r DEF ReaderInv, Go, Writing
  <2> QED  BY <2>1, <2>2
<1>1. CASE WriteAcquire(t)
  <2>1. Go(t, "idle", "wbegin") /\ wlock = 0 /\ wlock' = 1 /\ UNCHANGED <<seq, word>>
    BY <1>1 DEF WriteAcquire
  <2>2. WordsAt("idle") /\ \A s \in LockThreads : lockPc[s] \notin Writing
    BY <2>1 DEF WriterInv
  <2>3. lockPc' = [lockPc EXCEPT ![t] = "wbegin"]
    BY <2>1 DEF Go
  <2>4. lockPc'[t] = "wbegin" /\ \A s \in LockThreads : s # t => lockPc'[s] \notin Writing
    BY <2>2, <2>3
  <2>5. WordsAt(lockPc[t])'
    BY <2>1, <2>2, <2>4 DEF WordsAt
  <2>6. WriterInv'
    BY <2>1, <2>4, <2>5 DEF WriterInv, Writing
  <2>7. \A s \in LockThreads : ReaderInv(s)'
    BY <1>r, <2>1 DEF Writing
  <2> QED  BY <1>u, <2>1, <2>3, <2>6, <2>7 DEF SeqPcs
<1>2. ASSUME lockPc[t] \in Writing
      PROVE  /\ wlock = 1 /\ WordsAt(lockPc[t])
             /\ \A s \in LockThreads : s # t => lockPc[s] \notin Writing
  BY <1>2, HolderIsAlone
<1>3. ASSUME NEW from \in Writing, NEW to \in Writing, Go(t, from, to), wlock' = wlock,
             WordsAt(lockPc[t])'
      PROVE  WriterInv'
  <2>1. lockPc' = [lockPc EXCEPT ![t] = to] /\ lockPc[t] \in Writing
    BY <1>3 DEF Go
  <2>2. lockPc'[t] \in Writing /\ wlock' = 1
    BY <1>2, <1>3, <2>1
  <2>3. \A s \in LockThreads : s # t => lockPc'[s] \notin Writing
    BY <1>2, <2>1
  <2> QED  BY <1>3, <2>2, <2>3 DEF WriterInv
<1>4. CASE seqlock_write_begin(t)
  <2>1. Go(t, "wbegin", "wr1") /\ seq' = seq + 1 /\ UNCHANGED <<wlock, word>>
    BY <1>4 DEF seqlock_write_begin
  <2>2. lockPc[t] = "wbegin" /\ lockPc' = [lockPc EXCEPT ![t] = "wr1"]
    BY <2>1 DEF Go
  <2>3. 2 * word[1] = seq /\ 2 * word[2] = seq
    BY <1>2, <2>2 DEF WordsAt, Writing
  <2>4. WordsAt(lockPc[t])'
    BY <2>1, <2>2, <2>3 DEF WordsAt
  <2>5. WriterInv'
    BY <1>3, <2>1, <2>4 DEF Writing
  <2>6. \A s \in LockThreads : ReaderInv(s)'
    BY <1>r, <2>1 DEF Writing
  <2> QED  BY <1>u, <2>1, <2>2, <2>5, <2>6 DEF SeqPcs
<1>5. CASE WriteWord(t, 1)
  <2>1. Go(t, "wr1", "wr2") /\ word' = [word EXCEPT ![1] = @ + 1] /\ UNCHANGED <<wlock, seq>>
    BY <1>5 DEF WriteWord
  <2>2. lockPc[t] = "wr1" /\ lockPc' = [lockPc EXCEPT ![t] = "wr2"]
    BY <2>1 DEF Go
  <2>3. 2 * word[1] + 1 = seq /\ 2 * word[2] + 1 = seq
    BY <1>2, <2>2 DEF WordsAt, Writing
  <2>4. word'[1] = word[1] + 1 /\ word'[2] = word[2] /\ word' \in [1..2 -> Nat]
    BY <2>1
  <2>5. WordsAt(lockPc[t])'
    BY <2>1, <2>2, <2>3, <2>4 DEF WordsAt
  <2>6. WriterInv'
    BY <1>3, <2>1, <2>5 DEF Writing
  <2>7. \A s \in LockThreads : ReaderInv(s)'
    BY <1>r, <2>1 DEF Writing
  <2> QED  BY <1>u, <2>1, <2>2, <2>4, <2>6, <2>7 DEF SeqPcs
<1>6. CASE WriteWord(t, 2)
  <2>1. Go(t, "wr2", "wend") /\ word' = [word EXCEPT ![2] = @ + 1] /\ UNCHANGED <<wlock, seq>>
    BY <1>6 DEF WriteWord
  <2>2. lockPc[t] = "wr2" /\ lockPc' = [lockPc EXCEPT ![t] = "wend"]
    BY <2>1 DEF Go
  <2>3. 2 * word[1] = seq + 1 /\ 2 * word[2] + 1 = seq
    BY <1>2, <2>2 DEF WordsAt, Writing
  <2>4. word'[1] = word[1] /\ word'[2] = word[2] + 1 /\ word' \in [1..2 -> Nat]
    BY <2>1
  <2>5. WordsAt(lockPc[t])'
    BY <2>1, <2>2, <2>3, <2>4 DEF WordsAt
  <2>6. WriterInv'
    BY <1>3, <2>1, <2>5 DEF Writing
  <2>7. \A s \in LockThreads : ReaderInv(s)'
    BY <1>r, <2>1 DEF Writing
  <2> QED  BY <1>u, <2>1, <2>2, <2>4, <2>6, <2>7 DEF SeqPcs
<1>7. CASE seqlock_write_end(t)
  <2>1. Go(t, "wend", "wrel") /\ seq' = seq + 1 /\ UNCHANGED <<wlock, word>>
    BY <1>7 DEF seqlock_write_end
  <2>2. lockPc[t] = "wend" /\ lockPc' = [lockPc EXCEPT ![t] = "wrel"]
    BY <2>1 DEF Go
  <2>3. 2 * word[1] = seq + 1 /\ 2 * word[2] = seq + 1
    BY <1>2, <2>2 DEF WordsAt, Writing
  <2>4. WordsAt(lockPc[t])'
    BY <2>1, <2>2, <2>3 DEF WordsAt
  <2>5. WriterInv'
    BY <1>3, <2>1, <2>4 DEF Writing
  <2>6. \A s \in LockThreads : ReaderInv(s)'
    BY <1>r, <2>1 DEF Writing
  <2> QED  BY <1>u, <2>1, <2>2, <2>5, <2>6 DEF SeqPcs
<1>8. CASE WriteRelease(t)
  <2>1. Go(t, "wrel", "idle") /\ wlock' = 0 /\ UNCHANGED <<seq, word>>
    BY <1>8 DEF WriteRelease
  <2>2. lockPc[t] = "wrel" /\ lockPc' = [lockPc EXCEPT ![t] = "idle"]
    BY <2>1 DEF Go
  <2>3. /\ 2 * word[1] = seq /\ 2 * word[2] = seq
        /\ \A s \in LockThreads : s # t => lockPc[s] \notin Writing
    BY <1>2, <2>2 DEF WordsAt, Writing
  <2>4. \A s \in LockThreads : lockPc'[s] \notin Writing
    BY <2>2, <2>3 DEF Writing
  <2>5. WordsAt("idle")'
    BY <2>1, <2>3 DEF WordsAt
  <2>6. WriterInv'
    BY <2>1, <2>4, <2>5 DEF WriterInv
  <2>7. \A s \in LockThreads : ReaderInv(s)'
    BY <1>r, <2>1
  <2> QED  BY <1>u, <2>1, <2>2, <2>6, <2>7 DEF SeqPcs
<1> QED  BY <1>1, <1>4, <1>5, <1>6, <1>7, <1>8

LEMMA SeqStep ==
    ASSUME SeqInv, NEW t \in LockThreads, SeqNext(t)
    PROVE  SeqInv'
<1>1. \A i \in 1..2 : i = 1 \/ i = 2
  OBVIOUS
<1> QED  BY <1>1, SeqReaderStep, SeqWriterStep DEF SeqNext

-----------------------------------------------------------------------------
(* All three.                                                               *)

LEMMA LockInvInit == LockInit => LockInv
  BY RwInit, SeqInit, RcuInit, LockAssumption DEF LockInit, LockInv

LEMMA LockInvStep == LockInv /\ [LockNext]_lockVars => LockInv'
<1> SUFFICES ASSUME LockInv, [LockNext]_lockVars PROVE LockInv'
  OBVIOUS
<1>1. ASSUME NEW t \in LockThreads, RwNext(t) PROVE LockInv'
  <2>1. lockKind = "rw" /\ lockKind' = "rw"
    BY <1>1 DEF RwNext
  <2>2. RwInv'
    BY <1>1, <2>1, RwStep DEF LockInv
  <2> QED  BY <2>1, <2>2 DEF LockInv
<1>2. ASSUME NEW t \in LockThreads, SeqNext(t) PROVE LockInv'
  <2>1. lockKind = "seq" /\ lockKind' = "seq"
    BY <1>2 DEF SeqNext
  <2>2. SeqInv'
    BY <1>2, <2>1, SeqStep DEF LockInv
  <2> QED  BY <2>1, <2>2 DEF LockInv
<1>3. ASSUME NEW t \in LockThreads, RcuNext(t) PROVE LockInv'
  <2>1. lockKind = "rcu" /\ lockKind' = "rcu"
    BY <1>3 DEF RcuNext
  <2>2. RcuInv'
    BY <1>3, <2>1, RcuStep DEF LockInv
  <2> QED  BY <2>1, <2>2 DEF LockInv
<1>4. CASE UNCHANGED lockVars
  <2>1. Inside("wcs")' = Inside("wcs") /\ Inside("rcs")' = Inside("rcs")
    BY <1>4 DEF Inside, lockVars
  <2>2. \A t \in LockThreads : ReaderInv(t)' <=> ReaderInv(t)
    BY <1>4 DEF ReaderInv, lockVars
  <2>3. WriterInv' <=> WriterInv
    BY <1>4 DEF WriterInv, WordsAt, lockVars
  <2>4. RwInv' <=> RwInv
    BY <1>4, <2>1 DEF RwInv, lockVars
  <2>5. RcuInv' <=> RcuInv
    BY <1>4, <2>1 DEF RcuInv, RcuGraceRespected, lockVars
  <2>6. SeqInv' <=> SeqInv
    BY <1>4, <2>2, <2>3 DEF SeqInv, lockVars
  <2> QED  BY <1>4, <2>4, <2>5, <2>6 DEF LockInv, lockVars
<1> QED  BY <1>1, <1>2, <1>3, <1>4 DEF LockNext

\* The inductive invariant of the lock a behaviour exercises.
THEOREM LocksInvariant == LockSpec => []LockInv
  BY LockInvInit, LockInvStep, PTL DEF LockSpec

\* rwlock_t: between rwlock_write_lock and rwlock_write_unlock a thread is alone, whatever
\* the readers had loaded before their compare-and-exchange.
THEOREM RwlockMutualExclusion == LockSpec => []RwlockExcludes
<1>1. LockInv => RwlockExcludes
  BY RwSafe DEF LockInv, RwlockExcludes
<1> QED  BY <1>1, LocksInvariant, PTL

\* seqlock_t: what seqlock_read_retry accepts is one write's pair of words, for any number
\* of readers, writers and writes.
THEOREM SeqlockConsistency == LockSpec => []SeqlockReadsAreWhole
<1>1. LockInv => SeqlockReadsAreWhole
  BY DEF LockInv, RwInv, RwPcs, RcuInv, RcuPcs, SeqInv, ReaderInv, SeqlockReadsAreWhole
<1> QED  BY <1>1, LocksInvariant, PTL

\* rcu_t: rcu_synchronize returns only after every reader that was inside when it began has
\* left, although later ones may have come and gone.
THEOREM RcuGracePeriod == LockSpec => []RcuGraceRespected
<1>1. LockInv => RcuGraceRespected
  BY DEF LockInv, RwInv, RwPcs, RcuInv, SeqInv, SeqPcs, RcuGraceRespected
<1> QED  BY <1>1, LocksInvariant, PTL

\* Together: each of the three locks of utils.h keeps its promise.
THEOREM LocksKeepTheirPromise == LockSpec => []LocksProtect
BY RwlockMutualExclusion, SeqlockConsistency, RcuGracePeriod, PTL DEF LocksProtect
=============================================================================
