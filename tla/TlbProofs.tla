----------------------------- MODULE TlbProofs -----------------------------
(***************************************************************************)
(* Proofs about process-context identifiers and cached translations        *)
(* (kernel/pcid.c, vmm_switch, process_create, process_destroy), for any   *)
(* number of processes, modes, pages and identifiers per mode.             *)
(***************************************************************************)
EXTENDS Tlb, FiniteSetTheorems, WellFoundedInduction, TLAPS

Indices == 0 .. PCIDS_PER_USER_MODE - 1
Holds(p) == tlbProc[p].mode # 0 /\ tlbProc[p].pcid # PCID_ERROR
Index(p) == tlbProc[p].pcid - pcid_get_mode_base(tlbProc[p].mode)

TlbType ==
    /\ pcidBitmap \in [Modes -> SUBSET Indices]
    /\ pcidHint \in [Modes -> Indices]
    /\ pcidCount \in [Modes -> Int]
    /\ tlbProc \in [TlbProcs -> [mode : Modes \cup {0}, pcid : Nat]]
    /\ tlbMapped \in [TlbProcs -> SUBSET TlbPages]
    /\ tlbCurrent \in TlbProcs \cup {"kernel"}
    /\ tlbEntries \subseteq [pcid : Nat, proc : TlbProcs, page : TlbPages]

\* The bits set in a mode's bitmap are the indices its processes hold, each held once.
HeldInv ==
    /\ \A p \in TlbProcs : tlbProc[p].mode = 0 => tlbProc[p] = NoProcess
    /\ \A p \in TlbProcs : Holds(p) => Index(p) \in pcidBitmap[tlbProc[p].mode]
    /\ \A p, q \in TlbProcs :
          p # q /\ Holds(p) /\ Holds(q) /\ tlbProc[p].mode = tlbProc[q].mode => Index(p) # Index(q)
    /\ \A m \in Modes : \A i \in pcidBitmap[m] :
          \E p \in TlbProcs : Holds(p) /\ tlbProc[p].mode = m /\ Index(p) = i

CountInv == \A m \in Modes : pcidCount[m] = Cardinality(pcidBitmap[m])

\* Translations are cached only under an identifier that its process holds, and only a
\* process that holds one can be in CR3.
CacheInv ==
    /\ tlbCurrent # "kernel" => Holds(tlbCurrent)
    /\ \A e \in tlbEntries :
          /\ Holds(e.proc) /\ e.pcid = tlbProc[e.proc].pcid
          /\ e.page \in tlbMapped[e.proc]

TlbInv == TlbType /\ HeldInv /\ CountInv /\ CacheInv

-----------------------------------------------------------------------------
(* Arithmetic of the ranges.                                                *)

\* The ranges of the modes do not meet, and no identifier in them is PCID_ERROR.
LEMMA RangesApart ==
    ASSUME NEW m \in Modes, NEW k \in Modes, NEW i \in Indices, NEW j \in Indices
    PROVE  /\ pcid_get_mode_base(m) + i \in Nat
           /\ pcid_get_mode_base(m) + i < PCID_ERROR
           /\ pcid_get_mode_base(m) + i = pcid_get_mode_base(k) + j => m = k /\ i = j
<1> USE TlbAssumption DEF Modes, Indices, PCID_ERROR
<1>1. PICK n \in Nat \ {0} : n = PCIDS_PER_USER_MODE
  OBVIOUS
<1>2. m \in Nat \ {0} /\ k \in Nat \ {0} /\ m * n < 4095 /\ i \in 0 .. n - 1 /\ j \in 0 .. n - 1
  BY <1>1
<1>3. (m - 1) * n \in Nat /\ (k - 1) * n \in Nat /\ (m - 1) * n = m * n - n
  BY <1>2
<1>4. ASSUME NEW a \in Nat, NEW b \in Nat, a < b PROVE b * n >= a * n + n
  <2>1. PICK d \in Nat : b = a + 1 + d
    <3>1. b - a - 1 \in Nat /\ b = a + 1 + (b - a - 1)
      BY <1>4
    <3> QED  BY <3>1
  <2>2. b * n = a * n + n + d * n /\ d * n \in Nat
    BY <2>1
  <2> QED  BY <2>2
<1>5. m < k => (k - 1) * n >= (m - 1) * n + n
  BY <1>2, <1>4
<1>6. k < m => (m - 1) * n >= (k - 1) * n + n
  BY <1>2, <1>4
<1>7. pcid_get_mode_base(m) = 1 + (m - 1) * n /\ pcid_get_mode_base(k) = 1 + (k - 1) * n
  BY <1>1 DEF pcid_get_mode_base
<1>8. pcid_get_mode_base(m) + i \in Nat /\ pcid_get_mode_base(m) + i < PCID_ERROR
  BY <1>2, <1>3, <1>7
<1>9. ASSUME pcid_get_mode_base(m) + i = pcid_get_mode_base(k) + j PROVE m = k /\ i = j
  BY <1>2, <1>3, <1>5, <1>6, <1>7, <1>9
<1> QED  BY <1>8, <1>9

Less == {ss \in Nat \X Nat : ss[1] < ss[2]}

\* A non-empty set of natural numbers has a least element, which Min picks.
LEMMA MinOfNaturals ==
    ASSUME NEW S \in SUBSET Nat, S # {}
    PROVE  Min(S) \in S
<1>1. IsWellFoundedOn(Less, Nat)
  BY NatLessThanWellFounded DEF OpToRel, Less
<1>2. PICK x \in S : \A y \in S : ~ (<<y, x>> \in Less)
  BY <1>1, WFMin
<1>3. \A y \in Nat : <<y, x>> \in Less <=> y < x
  BY DEF Less
<1>4. \A y \in S : x =< y
  <2> TAKE y \in S
  <2>1. ~ (y < x)
    BY <1>2, <1>3
  <2> QED  BY <2>1
<1> QED  BY <1>4 DEF Min

\* pcid_alloc finds an index that is free in the mode's bitmap, or there is none.
LEMMA NextFitIsFree ==
    ASSUME TlbType, NEW m \in Modes
    PROVE  NextFit(m) = PCID_ERROR \/ NextFit(m) \in Indices \ pcidBitmap[m]
<1> DEFINE n == PCIDS_PER_USER_MODE
           free == {i \in 0 .. n - 1 : (pcidHint[m] + i) % n \notin pcidBitmap[m]}
<1>1. n \in Nat \ {0} /\ pcidHint[m] \in Nat
  BY TlbAssumption DEF TlbType, Indices
<1>2. CASE free = {}
  BY <1>2 DEF NextFit, pcid_get_mode_count
<1>3. CASE free # {}
  <2>1. free \in SUBSET Nat
    BY <1>1
  <2>2. Min(free) \in free
    BY <1>3, <2>1, MinOfNaturals
  <2>3. NextFit(m) = (pcidHint[m] + Min(free)) % n
    BY <1>3 DEF NextFit, pcid_get_mode_count
  <2>4. Min(free) \in Nat /\ (pcidHint[m] + Min(free)) % n \notin pcidBitmap[m]
    BY <2>1, <2>2
  <2> HIDE DEF free
  <2>5. (pcidHint[m] + Min(free)) % n \in 0 .. n - 1
    BY <1>1, <2>4
  <2> QED  BY <2>3, <2>4, <2>5 DEF Indices
<1> QED  BY <1>2, <1>3

\* A mode's identifiers in use are finitely many.
LEMMA BitmapFinite ==
    ASSUME TlbType, NEW m \in Modes
    PROVE  IsFiniteSet(pcidBitmap[m]) /\ Cardinality(pcidBitmap[m]) \in Nat
<1>1. pcidBitmap[m] \in SUBSET (0 .. PCIDS_PER_USER_MODE - 1)
  BY DEF TlbType, Indices
<1>2. IsFiniteSet(0 .. PCIDS_PER_USER_MODE - 1)
  BY TlbAssumption, FS_Interval
<1> QED  BY <1>1, <1>2, FS_Subset, FS_CardinalityType

-----------------------------------------------------------------------------
LEMMA TlbInvInit == TlbInit => TlbInv
<1> SUFFICES ASSUME TlbInit PROVE TlbInv
  OBVIOUS
<1> USE DEF TlbInit
<1>1. TlbType
  BY TlbAssumption DEF TlbType, Indices, NoProcess, PCID_ERROR
<1>2. HeldInv
  BY DEF HeldInv, Holds, NoProcess
<1>3. CountInv
  BY FS_EmptySet DEF CountInv
<1>4. CacheInv
  BY DEF CacheInv
<1> QED  BY <1>1, <1>2, <1>3, <1>4 DEF TlbInv

\* process_create: the identifier it is given, if any, was free.
LEMMA CreateStep ==
    ASSUME TlbInv, NEW p \in TlbProcs, NEW m \in Modes, process_create(p, m)
    PROVE  TlbInv'
<1> USE DEF TlbInv
<1>1. PICK i : i = NextFit(m)
  OBVIOUS
<1> DEFINE new == [mode |-> m, pcid |-> IF i = PCID_ERROR THEN PCID_ERROR
                                                          ELSE pcid_get_mode_base(m) + i]
<1>2. /\ tlbProc[p] = NoProcess /\ tlbProc' = [tlbProc EXCEPT ![p] = new]
      /\ UNCHANGED <<tlbMapped, tlbCurrent, tlbEntries>>
  BY <1>1 DEF process_create
<1>3. i = PCID_ERROR => UNCHANGED <<pcidBitmap, pcidHint, pcidCount>>
  BY <1>1 DEF process_create
<1>4. i # PCID_ERROR =>
        /\ pcidBitmap' = [pcidBitmap EXCEPT ![m] = @ \cup {i}]
        /\ pcidHint' = [pcidHint EXCEPT ![m] = (i + 1) % PCIDS_PER_USER_MODE]
        /\ pcidCount' = [pcidCount EXCEPT ![m] = @ + 1]
  BY <1>1 DEF process_create, pcid_get_mode_count
<1>5. i = PCID_ERROR \/ i \in Indices \ pcidBitmap[m]
  BY <1>1, NextFitIsFree
<1>6. i # PCID_ERROR => /\ pcid_get_mode_base(m) + i \in Nat
                        /\ pcid_get_mode_base(m) + i # PCID_ERROR
                        /\ pcid_get_mode_base(m) \in Int
  <2>1. pcid_get_mode_base(m) \in Int
    BY TlbAssumption DEF pcid_get_mode_base, Modes
  <2> QED  BY <1>5, <2>1, RangesApart DEF PCID_ERROR
<1>7. new \in [mode : Modes \cup {0}, pcid : Nat] /\ new.mode = m /\ m # 0
  BY <1>6, TlbAssumption DEF PCID_ERROR, Modes
<1>8. tlbProc'[p] = new /\ \A q \in TlbProcs : q # p => tlbProc'[q] = tlbProc[q]
  BY <1>2 DEF TlbType
<1>9. tlbProc[p].mode = 0 /\ ~Holds(p)
  BY <1>2 DEF NoProcess, Holds
<1>10. i = PCID_ERROR => ~Holds(p)'
  BY <1>8 DEF Holds
<1>11. i # PCID_ERROR => Holds(p)' /\ Index(p)' = i
  <2> SUFFICES ASSUME i # PCID_ERROR PROVE Holds(p)' /\ Index(p)' = i
    OBVIOUS
  <2>1. tlbProc'[p].pcid = pcid_get_mode_base(m) + i /\ tlbProc'[p].mode = m
    BY <1>8
  <2>2. i \in Int
    BY <1>5 DEF Indices
  <2>3. (pcid_get_mode_base(m) + i) - pcid_get_mode_base(m) = i
    BY <1>6, <2>2
  <2>4. Index(p)' = tlbProc'[p].pcid - pcid_get_mode_base(tlbProc'[p].mode)
    BY DEF Index, pcid_get_mode_base
  <2> QED  BY <1>6, <1>7, <2>1, <2>3, <2>4 DEF Holds
<1>12. \A q \in TlbProcs : q # p => (Holds(q)' <=> Holds(q)) /\ Index(q)' = Index(q)
  BY <1>8 DEF Holds, Index
<1>13. TlbType'
  <2>1. i # PCID_ERROR => (i + 1) % PCIDS_PER_USER_MODE \in Indices
    BY <1>5, TlbAssumption DEF Indices
  <2>2. pcidBitmap' \in [Modes -> SUBSET Indices] /\ pcidHint' \in [Modes -> Indices]
        /\ pcidCount' \in [Modes -> Int]
    BY <1>3, <1>4, <1>5, <2>1 DEF TlbType
  <2>3. tlbProc' \in [TlbProcs -> [mode : Modes \cup {0}, pcid : Nat]]
    BY <1>2, <1>7 DEF TlbType
  <2> QED  BY <1>2, <2>2, <2>3 DEF TlbType
<1> HIDE DEF new
<1>14. \A k \in Modes : pcidBitmap'[k] = IF k = m /\ i # PCID_ERROR THEN pcidBitmap[k] \cup {i}
                                                                   ELSE pcidBitmap[k]
  BY <1>3, <1>4 DEF TlbType
<1>15. HeldInv'
  <2>1. \A q \in TlbProcs : tlbProc'[q].mode = 0 => tlbProc'[q] = NoProcess
    BY <1>7, <1>8 DEF HeldInv
  <2>2. \A q \in TlbProcs : Holds(q)' => Index(q)' \in pcidBitmap'[tlbProc'[q].mode]
    <3> TAKE q \in TlbProcs
    <3> HAVE Holds(q)'
    <3>1. CASE q = p
      BY <1>7, <1>8, <1>10, <1>11, <1>14, <3>1
    <3>2. CASE q # p
      <4>1. Index(q)' = Index(q) /\ Index(q) \in pcidBitmap[tlbProc[q].mode]
        BY <1>12, <3>2 DEF HeldInv
      <4>2. tlbProc[q].mode \in Modes
        BY <1>12, <3>2 DEF Holds, TlbType
      <4> QED  BY <1>8, <1>14, <3>2, <4>1, <4>2
    <3> QED  BY <3>1, <3>2
  <2>3. ASSUME NEW q \in TlbProcs, q # p, Holds(q), tlbProc[q].mode = m, i # PCID_ERROR
        PROVE  Index(q) # i
    BY <1>5, <2>3 DEF HeldInv
  <2>4. ASSUME NEW q \in TlbProcs, NEW r \in TlbProcs, q # r, Holds(q)', Holds(r)',
               tlbProc'[q].mode = tlbProc'[r].mode
        PROVE  Index(q)' # Index(r)'
    <3>1. CASE q # p /\ r # p
      BY <1>8, <1>12, <2>4, <3>1 DEF HeldInv
    <3>2. CASE q = p
      BY <1>7, <1>8, <1>10, <1>11, <1>12, <2>3, <2>4, <3>2
    <3>3. CASE r = p
      BY <1>7, <1>8, <1>10, <1>11, <1>12, <2>3, <2>4, <3>3
    <3> QED  BY <3>1, <3>2, <3>3
  <2>5. ASSUME NEW k \in Modes, NEW j \in pcidBitmap'[k]
        PROVE  \E q \in TlbProcs : Holds(q)' /\ tlbProc'[q].mode = k /\ Index(q)' = j
    <3>1. CASE j \in pcidBitmap[k]
      <4>1. PICK q \in TlbProcs : Holds(q) /\ tlbProc[q].mode = k /\ Index(q) = j
        BY <3>1 DEF HeldInv
      <4>2. q # p
        BY <1>9, <4>1
      <4> QED  BY <1>8, <1>12, <4>1, <4>2
    <3>2. CASE j \notin pcidBitmap[k]
      <4>1. k = m /\ j = i /\ i # PCID_ERROR
        BY <1>14, <2>5, <3>2
      <4> QED  BY <1>7, <1>8, <1>11, <4>1
    <3> QED  BY <3>1, <3>2
  <2> QED  BY <2>1, <2>2, <2>4, <2>5 DEF HeldInv
<1>16. CountInv'
  <2> SUFFICES ASSUME NEW k \in Modes PROVE pcidCount'[k] = Cardinality(pcidBitmap'[k])
    BY DEF CountInv
  <2>1. IsFiniteSet(pcidBitmap[k])
    BY BitmapFinite
  <2>2. CASE k = m /\ i # PCID_ERROR
    <3>1. Cardinality(pcidBitmap[m] \cup {i}) = Cardinality(pcidBitmap[m]) + 1
      BY <1>5, <2>1, <2>2, FS_AddElement
    <3> QED  BY <1>4, <1>14, <2>2, <3>1 DEF CountInv, TlbType
  <2>3. CASE ~(k = m /\ i # PCID_ERROR)
    BY <1>3, <1>4, <1>14, <2>3 DEF CountInv, TlbType
  <2> QED  BY <2>2, <2>3
<1>17. CacheInv'
  <2>1. tlbCurrent # p /\ \A e \in tlbEntries : e.proc # p /\ e.proc \in TlbProcs
    BY <1>9, TlbAssumption DEF CacheInv, TlbType
  <2>2. tlbCurrent # "kernel" => Holds(tlbCurrent)'
    BY <1>2, <1>12, <2>1 DEF CacheInv, TlbType
  <2> QED  BY <1>2, <1>8, <1>12, <2>1, <2>2 DEF CacheInv
<1> QED  BY <1>13, <1>15, <1>16, <1>17

\* process_destroy with pcid_free: what the process had cached is flushed before its
\* identifier can be given to another.
LEMMA DestroyStep ==
    ASSUME TlbInv, NEW p \in TlbProcs, process_destroy(p)
    PROVE  TlbInv'
<1> USE DEF TlbInv
<1>1. /\ tlbProc[p].mode # 0 /\ tlbCurrent # p
      /\ pcid_free(tlbProc[p].pcid, tlbProc[p].mode)
      /\ tlbMapped' = [tlbMapped EXCEPT ![p] = {}]
      /\ tlbProc' = [tlbProc EXCEPT ![p] = NoProcess]
      /\ UNCHANGED <<pcidHint, tlbCurrent>>
  BY DEF process_destroy, Alive
<1>2. PICK m \in Modes : m = tlbProc[p].mode
  BY <1>1 DEF TlbType
<1>3. PICK i : i = Index(p)
  OBVIOUS
<1>4. Holds(p) =>
        /\ i \in pcidBitmap[m]
        /\ tlbEntries' = {e \in tlbEntries : e.pcid # tlbProc[p].pcid}
        /\ pcidBitmap' = [pcidBitmap EXCEPT ![m] = @ \ {i}]
        /\ pcidCount' = [pcidCount EXCEPT ![m] = IF @ > 0 THEN @ - 1 ELSE @]
  BY <1>1, <1>2, <1>3 DEF pcid_free, HeldInv, Holds, Index, FlushContext
<1>5. ~Holds(p) => UNCHANGED <<pcidBitmap, pcidCount, tlbEntries>>
  BY <1>1 DEF pcid_free, Holds
<1>6. tlbProc'[p] = NoProcess /\ \A q \in TlbProcs : q # p => tlbProc'[q] = tlbProc[q]
  BY <1>1 DEF TlbType
<1>7. ~Holds(p)'
  BY <1>6 DEF Holds, NoProcess
<1>8. \A q \in TlbProcs : q # p => (Holds(q)' <=> Holds(q)) /\ Index(q)' = Index(q)
  BY <1>6 DEF Holds, Index, pcid_get_mode_base
<1>9. \A k \in Modes : pcidBitmap'[k] = IF k = m /\ Holds(p) THEN pcidBitmap[k] \ {i}
                                                            ELSE pcidBitmap[k]
  BY <1>4, <1>5 DEF TlbType
<1>10. TlbType'
  <2>1. pcidBitmap' \in [Modes -> SUBSET Indices] /\ pcidCount' \in [Modes -> Int]
    BY <1>4, <1>5 DEF TlbType
  <2>2. tlbProc' \in [TlbProcs -> [mode : Modes \cup {0}, pcid : Nat]]
    BY <1>1 DEF TlbType, NoProcess, PCID_ERROR
  <2>3. tlbEntries' \subseteq tlbEntries
    BY <1>4, <1>5
  <2>4. tlbMapped' \in [TlbProcs -> SUBSET TlbPages]
    BY <1>1 DEF TlbType
  <2> QED  BY <1>1, <2>1, <2>2, <2>3, <2>4 DEF TlbType
<1>11. HeldInv'
  <2>1. \A q \in TlbProcs : tlbProc'[q].mode = 0 => tlbProc'[q] = NoProcess
    BY <1>6 DEF HeldInv
  <2>2. ASSUME NEW q \in TlbProcs, Holds(q)'
        PROVE  Index(q)' \in pcidBitmap'[tlbProc'[q].mode]
    <3>1. q # p /\ Holds(q) /\ Index(q)' = Index(q) /\ tlbProc'[q] = tlbProc[q]
      BY <1>6, <1>7, <1>8, <2>2
    <3>2. Index(q) \in pcidBitmap[tlbProc[q].mode] /\ tlbProc[q].mode \in Modes
      BY <3>1 DEF HeldInv, Holds, TlbType
    <3>3. Holds(p) /\ tlbProc[q].mode = m => Index(q) # i
      BY <1>2, <1>3, <3>1 DEF HeldInv
    <3> QED  BY <1>9, <3>1, <3>2, <3>3
  <2>3. ASSUME NEW q \in TlbProcs, NEW r \in TlbProcs, q # r, Holds(q)', Holds(r)',
               tlbProc'[q].mode = tlbProc'[r].mode
        PROVE  Index(q)' # Index(r)'
    BY <1>6, <1>7, <1>8, <2>3 DEF HeldInv
  <2>4. ASSUME NEW k \in Modes, NEW j \in pcidBitmap'[k]
        PROVE  \E q \in TlbProcs : Holds(q)' /\ tlbProc'[q].mode = k /\ Index(q)' = j
    <3>1. j \in pcidBitmap[k] /\ ~(k = m /\ Holds(p) /\ j = i)
      BY <1>9, <2>4
    <3>2. PICK q \in TlbProcs : Holds(q) /\ tlbProc[q].mode = k /\ Index(q) = j
      BY <3>1 DEF HeldInv
    <3>3. q # p
      BY <1>2, <1>3, <3>1, <3>2
    <3> QED  BY <1>6, <1>8, <3>2, <3>3
  <2> QED  BY <2>1, <2>2, <2>3, <2>4 DEF HeldInv
<1>12. CountInv'
  <2> SUFFICES ASSUME NEW k \in Modes PROVE pcidCount'[k] = Cardinality(pcidBitmap'[k])
    BY DEF CountInv
  <2>1. IsFiniteSet(pcidBitmap[k]) /\ Cardinality(pcidBitmap[k]) \in Nat
    BY BitmapFinite
  <2>2. CASE k = m /\ Holds(p)
    <3>1. i \in pcidBitmap[m]
      BY <1>4, <2>2
    <3>2. Cardinality(pcidBitmap[m] \ {i}) = Cardinality(pcidBitmap[m]) - 1
      BY <2>1, <2>2, <3>1, FS_RemoveElement
    <3>3. pcidCount[m] = Cardinality(pcidBitmap[m]) /\ Cardinality(pcidBitmap[m]) > 0
      BY <2>1, <2>2, <3>1, FS_EmptySet DEF CountInv
    <3> QED  BY <1>4, <1>9, <2>2, <3>2, <3>3 DEF TlbType
  <2>3. CASE ~(k = m /\ Holds(p))
    BY <1>4, <1>5, <1>9, <2>3 DEF CountInv, TlbType
  <2> QED  BY <2>2, <2>3
<1>13. CacheInv'
  <2>1. tlbCurrent' # "kernel" => Holds(tlbCurrent)'
    BY <1>1, <1>8 DEF CacheInv, TlbType
  <2>2. ASSUME NEW e \in tlbEntries'
        PROVE  /\ Holds(e.proc)' /\ e.pcid = tlbProc'[e.proc].pcid
               /\ e.page \in tlbMapped'[e.proc]
    <3>1. /\ e \in tlbEntries /\ e.proc \in TlbProcs /\ Holds(e.proc)
          /\ e.pcid = tlbProc[e.proc].pcid /\ e.page \in tlbMapped[e.proc]
      BY <1>4, <1>5, <2>2 DEF CacheInv, TlbType
    <3>2. e.proc # p
      BY <1>4, <2>2, <3>1
    <3> QED  BY <1>1, <1>6, <1>8, <3>1, <3>2 DEF TlbType
  <2> QED  BY <2>1, <2>2 DEF CacheInv
<1> QED  BY <1>10, <1>11, <1>12, <1>13

\* Steps that leave processes and identifiers alone.
LEMMA SameHolders ==
    ASSUME UNCHANGED <<pcidBitmap, pcidHint, pcidCount, tlbProc>>
    PROVE  /\ HeldInv => HeldInv'
           /\ CountInv => CountInv'
           /\ \A p : (Holds(p)' <=> Holds(p))
<1>1. \A p : (Holds(p)' <=> Holds(p)) /\ Index(p)' = Index(p)
  BY DEF Holds, Index, pcid_get_mode_base
<1> QED  BY <1>1 DEF HeldInv, CountInv

LEMMA SwitchStep ==
    ASSUME TlbInv, NEW p \in TlbProcs \cup {"kernel"}, TlbSwitch(p)
    PROVE  TlbInv'
<1> USE DEF TlbInv
<1>1. /\ p \in Alive \cup {"kernel"} /\ tlbCurrent' = p /\ tlbEntries' \subseteq tlbEntries
      /\ UNCHANGED <<pcidBitmap, pcidHint, pcidCount, tlbProc, tlbMapped>>
  BY DEF TlbSwitch, FlushContext
<1>2. HeldInv' /\ CountInv' /\ \A q : (Holds(q)' <=> Holds(q))
  BY <1>1, SameHolders
<1>3. TlbType'
  BY <1>1 DEF TlbType
<1>4. ASSUME p # "kernel" PROVE Holds(p)
  <2>1. p \in TlbProcs /\ tlbProc[p].mode # 0 /\ tlbProc[p].mode \in Modes
    BY <1>1, <1>4 DEF Alive, TlbType
  <2>2. PICK m \in Modes : m = tlbProc[p].mode
    BY <2>1
  <2>3. tlbProc[p].pcid \in pcid_get_mode_base(m) .. pcid_get_mode_base(m) + PCIDS_PER_USER_MODE - 1
    BY <1>4, <2>2 DEF TlbSwitch, PcidOf, pcid_get_mode_count
  <2>4. pcid_get_mode_base(m) \in Int /\ PCIDS_PER_USER_MODE \in Nat \ {0}
    BY TlbAssumption DEF pcid_get_mode_base, Modes
  <2>5. PICK i \in Indices : tlbProc[p].pcid = pcid_get_mode_base(m) + i
    <3>1. tlbProc[p].pcid \in Nat
      BY <2>1 DEF TlbType
    <3>2. tlbProc[p].pcid - pcid_get_mode_base(m) \in Indices
      BY <2>3, <2>4, <3>1 DEF Indices
    <3>3. tlbProc[p].pcid = pcid_get_mode_base(m) + (tlbProc[p].pcid - pcid_get_mode_base(m))
      BY <2>4, <3>1
    <3> QED  BY <3>2, <3>3
  <2>6. tlbProc[p].pcid < PCID_ERROR
    BY <2>5, RangesApart
  <2> QED  BY <2>1, <2>6 DEF Holds, TlbType, PCID_ERROR
<1>5. CacheInv'
  BY <1>1, <1>2, <1>4 DEF CacheInv
<1> QED  BY <1>2, <1>3, <1>5

LEMMA MapStep ==
    ASSUME TlbInv, NEW p \in TlbProcs, NEW v \in TlbPages, MapPage(p, v)
    PROVE  TlbInv'
<1> USE DEF TlbInv
<1>1. /\ tlbMapped' = [tlbMapped EXCEPT ![p] = @ \cup {v}]
      /\ UNCHANGED <<pcidBitmap, pcidHint, pcidCount, tlbProc, tlbCurrent, tlbEntries>>
  BY DEF MapPage
<1>2. HeldInv' /\ CountInv' /\ \A q : (Holds(q)' <=> Holds(q))
  BY <1>1, SameHolders
<1>3. TlbType' /\ \A q \in TlbProcs : tlbMapped[q] \subseteq tlbMapped'[q]
  BY <1>1 DEF TlbType
<1>4. CacheInv'
  BY <1>1, <1>2, <1>3 DEF CacheInv, TlbType
<1> QED  BY <1>2, <1>3, <1>4

\* The invlpg of an unmap reaches what the process has cached, because it runs under its
\* own identifier.
LEMMA UnmapStep ==
    ASSUME TlbInv, NEW p \in TlbProcs, NEW v \in TlbPages, UnmapPage(p, v)
    PROVE  TlbInv'
<1> USE DEF TlbInv
<1>1. /\ tlbMapped' = [tlbMapped EXCEPT ![p] = @ \ {v}]
      /\ tlbEntries' = {e \in tlbEntries : e.pcid # tlbProc[p].pcid \/ e.page # v}
      /\ tlbCurrent = p
      /\ UNCHANGED <<pcidBitmap, pcidHint, pcidCount, tlbProc, tlbCurrent>>
  BY TlbAssumption DEF UnmapPage, PcidOf
<1>2. HeldInv' /\ CountInv' /\ \A q : (Holds(q)' <=> Holds(q))
  BY <1>1, SameHolders
<1>3. TlbType'
  BY <1>1 DEF TlbType
<1>4. ASSUME NEW e \in tlbEntries' PROVE e.page \in tlbMapped'[e.proc]
  <2>1. e \in tlbEntries /\ e.proc \in TlbProcs
    BY <1>1, <1>4 DEF TlbType
  <2>2. e.page \in tlbMapped[e.proc] /\ e.pcid = tlbProc[e.proc].pcid
    BY <2>1 DEF CacheInv
  <2> QED  BY <1>1, <1>4, <2>1, <2>2 DEF TlbType
<1>5. CacheInv'
  BY <1>1, <1>2, <1>4 DEF CacheInv
<1> QED  BY <1>2, <1>3, <1>5

LEMMA TouchStep ==
    ASSUME TlbInv, NEW v \in TlbPages, Touch(v)
    PROVE  TlbInv'
<1> USE DEF TlbInv
<1>1. PICK p \in TlbProcs : p = tlbCurrent
  BY DEF Touch, TlbType
<1>2. PICK n : n = [pcid |-> tlbProc[p].pcid, proc |-> p, page |-> v]
  OBVIOUS
<1>3. /\ v \in tlbMapped[p]
      /\ tlbEntries' = tlbEntries \cup {n}
      /\ UNCHANGED <<pcidBitmap, pcidHint, pcidCount, tlbProc, tlbMapped, tlbCurrent>>
  BY <1>1, <1>2, TlbAssumption DEF Touch, PcidOf
<1>4. HeldInv' /\ CountInv' /\ \A q : (Holds(q)' <=> Holds(q))
  BY <1>3, SameHolders
<1>5. TlbType'
  <2>1. n \in [pcid : Nat, proc : TlbProcs, page : TlbPages]
    BY <1>2 DEF TlbType
  <2> QED  BY <1>3, <2>1 DEF TlbType
<1>6. Holds(p)
  BY <1>1, TlbAssumption DEF CacheInv
<1>7. CacheInv'
  <2>1. ASSUME NEW e \in tlbEntries'
        PROVE  Holds(e.proc) /\ e.pcid = tlbProc[e.proc].pcid /\ e.page \in tlbMapped[e.proc]
    BY <1>2, <1>3, <1>6, <2>1 DEF CacheInv
  <2> QED  BY <1>3, <1>4, <2>1 DEF CacheInv
<1> QED  BY <1>4, <1>5, <1>7

LEMMA TlbInvStep ==
    ASSUME TlbInv, [TlbNext]_tlbVars
    PROVE  TlbInv'
<1>1. CASE \E p \in TlbProcs : \E m \in Modes : process_create(p, m)
  BY <1>1, CreateStep
<1>2. CASE \E p \in TlbProcs : process_destroy(p)
  BY <1>2, DestroyStep
<1>3. CASE \E p \in TlbProcs : \E v \in TlbPages : MapPage(p, v)
  BY <1>3, MapStep
<1>4. CASE \E p \in TlbProcs : \E v \in TlbPages : UnmapPage(p, v)
  BY <1>4, UnmapStep
<1>5. CASE \E p \in TlbProcs \cup {"kernel"} : TlbSwitch(p)
  BY <1>5, SwitchStep
<1>6. CASE \E v \in TlbPages : Touch(v)
  BY <1>6, TouchStep
<1>7. CASE UNCHANGED tlbVars
  <2>1. HeldInv' /\ CountInv' /\ \A q : (Holds(q)' <=> Holds(q))
    BY <1>7, SameHolders DEF TlbInv, tlbVars
  <2>2. TlbType' /\ CacheInv'
    BY <1>7, <2>1 DEF TlbInv, tlbVars, TlbType, CacheInv
  <2> QED  BY <2>1, <2>2 DEF TlbInv
<1> QED  BY <1>1, <1>2, <1>3, <1>4, <1>5, <1>6, <1>7 DEF TlbNext

-----------------------------------------------------------------------------
(* Theorems.                                                                *)

\* The inductive invariant: a bit of a mode's bitmap stands for exactly one process, and
\* translations are cached only under an identifier their process holds.
THEOREM TlbInvariant == TlbSpec => []TlbInv
BY TlbInvInit, TlbInvStep, PTL DEF TlbSpec

LEMMA CurrentFromInv == TlbInv => CachedTranslationsCurrent
BY TlbAssumption DEF TlbInv, CacheInv, TlbType, Holds, CachedTranslationsCurrent, Alive, PcidOf

\* The flush of pcid_free and the invlpg of an unmap leave no translation behind that its
\* process no longer has, nor one another process could find under a reused identifier.
THEOREM CachedTranslationsAreCurrent == TlbSpec => []CachedTranslationsCurrent
BY TlbInvariant, CurrentFromInv, PTL

LEMMA ExclusiveFromInv == TlbInv => PcidsExclusive
<1> SUFFICES ASSUME TlbInv PROVE PcidsExclusive
  OBVIOUS
<1> USE DEF TlbInv
<1>0. \A p \in TlbProcs : PcidOf(p) = tlbProc[p].pcid
  BY TlbAssumption DEF PcidOf
<1>1. ASSUME NEW p \in TlbProcs, Holds(p)
      PROVE  /\ tlbProc[p].mode \in Modes /\ Index(p) \in Indices
             /\ tlbProc[p].pcid = pcid_get_mode_base(tlbProc[p].mode) + Index(p)
  <2>1. PICK m \in Modes : m = tlbProc[p].mode
    BY <1>1 DEF TlbType, Holds
  <2>2. Index(p) \in Indices
    BY <1>1, <2>1 DEF HeldInv, TlbType
  <2>3. pcid_get_mode_base(m) \in Int /\ tlbProc[p].pcid \in Nat
    BY TlbAssumption DEF pcid_get_mode_base, Modes, TlbType
  <2> QED  BY <2>1, <2>2, <2>3 DEF Index
<1>2. ASSUME NEW p \in Alive, NEW q \in Alive, p # q, PcidOf(p) # PCID_ERROR
      PROVE  PcidOf(p) # PcidOf(q)
  <2>1. p \in TlbProcs /\ q \in TlbProcs
    BY DEF Alive
  <2>2. CASE PcidOf(q) = PCID_ERROR
    BY <1>2, <2>2
  <2>3. CASE PcidOf(q) # PCID_ERROR
    <3>1. Holds(p) /\ Holds(q)
      BY <1>0, <1>2, <2>1, <2>3 DEF Holds, Alive
    <3>2. tlbProc[p].mode = tlbProc[q].mode => Index(p) # Index(q)
      BY <1>2, <2>1, <3>1 DEF HeldInv
    <3>3. /\ tlbProc[p].mode \in Modes /\ Index(p) \in Indices
          /\ tlbProc[p].pcid = pcid_get_mode_base(tlbProc[p].mode) + Index(p)
      BY <1>1, <2>1, <3>1
    <3>4. /\ tlbProc[q].mode \in Modes /\ Index(q) \in Indices
          /\ tlbProc[q].pcid = pcid_get_mode_base(tlbProc[q].mode) + Index(q)
      BY <1>1, <2>1, <3>1
    <3>5. pcid_get_mode_base(tlbProc[p].mode) + Index(p)
             # pcid_get_mode_base(tlbProc[q].mode) + Index(q)
      BY <3>2, <3>3, <3>4, RangesApart
    <3> QED  BY <1>0, <2>1, <3>3, <3>4, <3>5
  <2> QED  BY <2>2, <2>3
<1>3. ASSUME NEW m \in Modes
      PROVE  pcidBitmap[m] = {PcidOf(p) - pcid_get_mode_base(m) :
                p \in {q \in Alive : tlbProc[q].mode = m /\ PcidOf(q) # PCID_ERROR}}
  <2>0. m # 0
    BY TlbAssumption DEF Modes
  <2>1. ASSUME NEW i \in pcidBitmap[m]
        PROVE  \E p \in {q \in Alive : tlbProc[q].mode = m /\ PcidOf(q) # PCID_ERROR} :
                  i = PcidOf(p) - pcid_get_mode_base(m)
    <3>1. PICK p \in TlbProcs : Holds(p) /\ tlbProc[p].mode = m /\ Index(p) = i
      BY DEF HeldInv
    <3> QED  BY <1>0, <3>1 DEF Holds, Index, Alive
  <2>2. ASSUME NEW p \in {q \in Alive : tlbProc[q].mode = m /\ PcidOf(q) # PCID_ERROR}
        PROVE  PcidOf(p) - pcid_get_mode_base(m) \in pcidBitmap[m]
    <3>1. p \in TlbProcs /\ Holds(p) /\ tlbProc[p].mode = m
      BY <1>0, <2>0 DEF Holds, Alive
    <3>2. Index(p) \in pcidBitmap[m] /\ Index(p) = PcidOf(p) - pcid_get_mode_base(m)
      BY <1>0, <3>1 DEF HeldInv, Index
    <3> QED  BY <3>2
  <2> QED  BY <2>1, <2>2
<1> QED  BY <1>2, <1>3 DEF PcidsExclusive, CountInv

\* pcid_alloc's next fit and pcid_free's bitmap keep every identifier with one process,
\* inside the range of its mode, and allocated_count right.
THEOREM PcidsAreExclusive == TlbSpec => []PcidsExclusive
BY TlbInvariant, ExclusiveFromInv, PTL

\* vmm_switch hands a GHOST process an empty cache, whatever happened since it last ran.
THEOREM GhostProcessesResumeCold == TlbSpec => GhostResumesCold
<1>1. ASSUME TlbInv, [TlbNext]_tlbVars
      PROVE  [\A p \in TlbProcs :
                tlbCurrent' = p /\ tlbCurrent # p /\ TlbModes[tlbProc[p].mode] = "GHOST"
                  => \A e \in tlbEntries' : e.proc # p]_tlbVars
  <2> SUFFICES ASSUME NEW p \in TlbProcs, tlbCurrent' = p, tlbCurrent # p,
                      TlbModes[tlbProc[p].mode] = "GHOST",
                      NEW e \in tlbEntries'
               PROVE  e.proc # p
    OBVIOUS
  <2>1. TlbSwitch(p)
    BY <1>1 DEF TlbNext, tlbVars, process_create, process_destroy, MapPage, UnmapPage, Touch, TlbSwitch
  <2>2. tlbEntries' = {d \in tlbEntries : d.pcid # tlbProc[p].pcid}
    <3>1. p # "kernel"
      BY TlbAssumption
    <3>2. tlbEntries' = FlushContext(tlbEntries, PcidOf(p))
      BY <2>1, <3>1 DEF TlbSwitch
    <3> QED
      BY <3>1, <3>2 DEF FlushContext, PcidOf
  <2>3. e \in tlbEntries /\ e.pcid # tlbProc[p].pcid
    BY <2>2
  <2>4. e.pcid = tlbProc[e.proc].pcid
    BY <1>1, <2>3 DEF TlbInv, CacheInv
  <2> QED  BY <2>3, <2>4
<1> QED  BY <1>1, TlbInvariant, PTL DEF TlbSpec, GhostResumesCold

\* Together: the TLB is coherent and identifiers have one owner, whatever order creation,
\* switches, unmapping, destruction and reuse come in.
THEOREM TlbStaysCoherent == TlbSpec => []TlbIsCoherent
BY CachedTranslationsAreCurrent, PcidsAreExclusive, PTL DEF TlbIsCoherent
=============================================================================
