------------------------------ MODULE Records ------------------------------
(***************************************************************************)
(* The kernel's three logs.                                                *)
(*  - The Fate history (kernel/mode.c): a ring of MODE_HISTORY_SIZE hash-  *)
(*    chained records, read newest first through a filter (SYS_FATE_READ). *)
(*  - The audit lattice (kernel/audit.c): a bounded buffer with reserved   *)
(*    slots that nothing drains; strikes that find it full are counted.    *)
(*  - The contract log of kernel/vmm.c: a ring with a head and a count.    *)
(*                                                                         *)
(* A record is its type and a serial number that stands for its contents;  *)
(* a hash is the serial number of the record it was computed from, with 0  *)
(* for none, so equal hashes mean the same record.  recLog is the history  *)
(* of everything appended, which the rings forget.                         *)
(***************************************************************************)
EXTENDS Integers, Sequences, SequencesExt, FiniteSets

CONSTANTS
    MODE_HISTORY_SIZE,
    AUDIT_LATTICE_CAPACITY,
    AUDIT_WRITE_THRESHOLD,
    CONTRACT_LOG_SIZE,
    FATE_READ_MAX,          \* records one SYS_FATE_READ returns at most
    RecMax                  \* bound on the records appended

VARIABLES
    fateRing, fateHead, fateGen,             \* fate_history, fate_head_index, fate_generation_id
    auditRing, auditTail, auditOverflow, auditLast,  \* records, tail, overflow_count, g_last_hash
    auditStrikes,                            \* history: strikes made
    conRing, conHead, conCount,              \* vmm_contract_log and its head and count
    recLog                                   \* history: [log -> sequence of records appended]

recVars == <<fateRing, fateHead, fateGen, auditRing, auditTail, auditOverflow, auditLast,
             auditStrikes, conRing, conHead, conCount, recLog>>
fateVars == <<fateRing, fateHead, fateGen>>
auditVars == <<auditRing, auditTail, auditOverflow, auditLast, auditStrikes>>
conVars == <<conRing, conHead, conCount>>

FateTypes == {"TRANSITION", "FAULT", "LATTICE", "ATTEST"}
FateFilters == FateTypes \cup {"ALL"}
NoRec == [type |-> "none", prev |-> 0, hash |-> 0, gap |-> 0]

RecInit ==
    /\ fateRing = [i \in 0 .. MODE_HISTORY_SIZE - 1 |-> NoRec] /\ fateHead = 0 /\ fateGen = 0
    /\ auditRing = [i \in 0 .. AUDIT_LATTICE_CAPACITY - 1 |-> NoRec]
    /\ auditTail = 0 /\ auditOverflow = 0 /\ auditLast = 0 /\ auditStrikes = 0
    /\ conRing = [i \in 0 .. CONTRACT_LOG_SIZE - 1 |-> NoRec] /\ conHead = 0 /\ conCount = 0
    /\ recLog = [l \in {"fate", "con"} |-> <<>>]

-----------------------------------------------------------------------------
(* The Fate history.                                                        *)

\* calculate_record_hash and fate_append_record; the callers fill in the record
fate_append_record(type) ==
    LET rec == [type |-> type, hash |-> fateHead + 1, gap |-> 0,
                prev |-> IF fateHead = 0 THEN 0 ELSE fateRing[(fateHead - 1) % MODE_HISTORY_SIZE].hash]
    IN /\ fateRing' = [fateRing EXCEPT ![fateHead % MODE_HISTORY_SIZE] = rec]
       /\ fateHead' = fateHead + 1
       /\ fateGen' = IF fateHead' % MODE_HISTORY_SIZE = 0 THEN fateGen + 1 ELSE fateGen
       /\ recLog' = [recLog EXCEPT !["fate"] = Append(@, rec)]

\* each logger holds transition_lock around one append
FateEvent ==
    /\ fateHead < RecMax
    /\ \/ fate_append_record("TRANSITION")   \* fate_log_transition_event, mode_log_sched_event
       \/ fate_append_record("FAULT")        \* mode_log_fault_event
       \/ fate_append_record("LATTICE")      \* mode_log_lattice_event
       \/ fate_append_record("ATTEST")       \* mode_log_law2_attestation
    /\ UNCHANGED <<auditVars, conVars>>

fate_record_matches_filter(rec, filter) == filter = "ALL" \/ rec.type = filter

\* mode_get_history_filtered: from the newest back, keeping what matches, at most count
FateAvailable == IF fateHead < MODE_HISTORY_SIZE THEN fateHead ELSE MODE_HISTORY_SIZE
mode_get_history_filtered(count, filter) ==
    LET newest == [i \in 1 .. FateAvailable |->
                     fateRing[(fateHead - i + MODE_HISTORY_SIZE) % MODE_HISTORY_SIZE]]
        kept == SelectSeq(newest, LAMBDA r : fate_record_matches_filter(r, filter))
    IN SubSeq(kept, 1, IF Len(kept) < count THEN Len(kept) ELSE count)

\* SYS_FATE_READ, once the auditor capability, the filter and the buffer are accepted
sys_fate_read(count, filter) ==
    mode_get_history_filtered(IF count > FATE_READ_MAX THEN FATE_READ_MAX ELSE count, filter)

-----------------------------------------------------------------------------
(* The audit lattice.  head stays 0: nothing in the kernel consumes records. *)

\* storing a record at the tail, or counting it when the buffer is full
AuditStore(s, type) ==
    LET next == (s.tail + 1) % AUDIT_LATTICE_CAPACITY IN
    IF next = 0 THEN [s EXCEPT !.overflow = @ + 1]
    ELSE [ring |-> [s.ring EXCEPT ![s.tail] = [type |-> type, prev |-> s.last, hash |-> s.last + 1,
                                               gap |-> s.overflow]],
          tail |-> next, overflow |-> 0, last |-> s.last + 1]

\* audit_strike: beyond the threshold the first strike leaves an OVERFLOW record in a
\* reserved slot, and that strike and all later ones are only counted
AuditState == [ring |-> auditRing, tail |-> auditTail, overflow |-> auditOverflow, last |-> auditLast]
StrikeResult_Fault(s) ==
    IF s.tail >= AUDIT_WRITE_THRESHOLD
    THEN LET r == AuditStore(s, "OVERFLOW") IN [r EXCEPT !.overflow = @ + 1]
    ELSE AuditStore(s, "EVENT")
StrikeResult(s) ==
    IF s.tail >= AUDIT_WRITE_THRESHOLD
    THEN LET r == IF s.overflow = 0 THEN AuditStore(s, "OVERFLOW") ELSE s
         IN [r EXCEPT !.overflow = @ + 1]
    ELSE AuditStore(s, "EVENT")
audit_strike ==
    LET s == StrikeResult(AuditState) IN
    /\ auditStrikes < RecMax
    /\ auditRing' = s.ring /\ auditTail' = s.tail
    /\ auditOverflow' = s.overflow /\ auditLast' = s.last
    /\ auditStrikes' = auditStrikes + 1
    /\ UNCHANGED <<fateVars, conVars, recLog>>

-----------------------------------------------------------------------------
(* The contract log.                                                        *)

vmm_contract_log_push(type) ==
    LET rec == [type |-> type, prev |-> 0, hash |-> Len(recLog["con"]) + 1, gap |-> 0] IN
    /\ Len(recLog["con"]) < RecMax
    /\ conRing' = [conRing EXCEPT ![conHead] = rec]
    /\ conHead' = (conHead + 1) % CONTRACT_LOG_SIZE
    /\ conCount' = IF conCount < CONTRACT_LOG_SIZE THEN conCount + 1 ELSE conCount
    /\ recLog' = [recLog EXCEPT !["con"] = Append(@, rec)]
    /\ UNCHANGED <<fateVars, auditVars>>

vmm_read_recent_contracts(max) ==
    LET n == IF conCount < max THEN conCount ELSE max IN
    [i \in 1..n |-> conRing[(conHead + CONTRACT_LOG_SIZE - 1 - (i - 1)) % CONTRACT_LOG_SIZE]]

RecNext ==
    \/ FateEvent
    \/ audit_strike
    \/ \E t \in {"OK", "ERR"} : vmm_contract_log_push(t)

-----------------------------------------------------------------------------
(* Properties.                                                              *)

\* the last n elements of a log, newest first
Newest(s, n) == Reverse(SubSeq(s, IF Len(s) > n THEN Len(s) - n + 1 ELSE 1, Len(s)))

\* SYS_FATE_READ returns, newest first, exactly the most recent records of the kind asked
\* for that the ring still holds: the wrap-around of fate_head_index loses and repeats none.
FateReadsNewestFirst ==
    \A count \in 0 .. MODE_HISTORY_SIZE + 1, filter \in FateFilters :
       LET all == SelectSeq(Newest(recLog["fate"], MODE_HISTORY_SIZE),
                            LAMBDA r : fate_record_matches_filter(r, filter))
           cap == IF count > FATE_READ_MAX THEN FATE_READ_MAX ELSE count
       IN sys_fate_read(count, filter) = SubSeq(all, 1, IF Len(all) < cap THEN Len(all) ELSE cap)

\* Each Fate record carries the hash of the record appended before it, also across the
\* wrap-around (fate_append_record).
FateChainUnbroken ==
    \A i \in 1 .. Len(recLog["fate"]) :
       recLog["fate"][i].prev = IF i = 1 THEN 0 ELSE recLog["fate"][i - 1].hash

\* No strike is lost without a trace: every strike is a record in the lattice or is in
\* overflow_count, and the lattice holds at most one OVERFLOW record (audit_strike).
AuditAccountsForEveryStrike ==
    LET stored(t) == Cardinality({i \in 0 .. auditTail - 1 : auditRing[i].type = t}) IN
    /\ auditStrikes = stored("EVENT") + auditOverflow
    /\ stored("OVERFLOW") <= 1
    /\ \A i \in 1 .. auditTail - 1 : auditRing[i].prev = auditRing[i - 1].hash

\* vmm_read_recent_contracts returns the latest contracts, newest first.
ContractLogNewestFirst ==
    \A max \in 1 .. CONTRACT_LOG_SIZE + 1 :
       vmm_read_recent_contracts(max)
         = Newest(recLog["con"], IF max < CONTRACT_LOG_SIZE THEN max ELSE CONTRACT_LOG_SIZE)

\* The three logs lose nothing silently and are read newest first, across every wrap-around
\* (fate_append_record, audit_strike, vmm_contract_log_push and their readers).
LogsAreComplete ==
    /\ FateReadsNewestFirst
    /\ FateChainUnbroken
    /\ AuditAccountsForEveryStrike
    /\ ContractLogNewestFirst
=============================================================================
