----------------------------- MODULE ModeProofs -----------------------------
(***************************************************************************)
(* Proofs about Mode: the boot record follows the mode through any number  *)
(* of transitions, boots and power failures, and a torn record is refused. *)
(***************************************************************************)
EXTENDS Mode, TLAPS

(* The bit of the checksum that receives bit 0 of the payload.             *)
LEMMA ChecksumParity ==
    ASSUME NEW s \in 0 .. 255, NEW m, NEW v
    PROVE  3 \in boot_record_checksum(s, m, v)
              <=> 0 \notin Payload(s, m, v)
  BY DEF boot_record_checksum, Rotl3, Xor, FinalBits

(* The sequence number counts in bit 0, so two consecutive ones differ     *)
(* there, also where the byte wraps.                                       *)
LEMMA SequenceParity ==
    ASSUME NEW s \in 0 .. 255
    PROVE  /\ (s + 1) % 256 \in 0 .. 255
           /\ 0 \in Bits((s + 1) % 256) <=> 0 \notin Bits(s)
<1>1. Pow2[1] = 1
  BY DEF Pow2
<1>2. (s + 1) % 256 \in 0 .. 255
  OBVIOUS
<1>3. ASSUME NEW n \in 0 .. 255
      PROVE  0 \in Bits(n) <=> n % 2 = 1
  BY <1>1, <1>3 DEF Bits
<1>4. (s + 1) % 256 = IF s = 255 THEN 0 ELSE s + 1
  OBVIOUS
<1>5. ((s + 1) % 256) % 2 = 1 <=> ~(s % 2 = 1)
  BY <1>4
<1> QED
  BY <1>2, <1>3, <1>5

(* A checksum never passes for the next sequence number: this is what      *)
(* detects a store of boot_record_store_persistent cut off after its first *)
(* changed byte.                                                           *)
LEMMA ChecksumSeparates ==
    ASSUME NEW s \in 0 .. 255, NEW m, NEW v
    PROVE  boot_record_checksum((s + 1) % 256, m, v)
              # boot_record_checksum(s, m, v)
<1>1. 0 \in Payload((s + 1) % 256, m, v) <=> 0 \notin Payload(s, m, v)
  BY SequenceParity DEF Payload, Xor
<1>2. 3 \in boot_record_checksum(s, m, v) <=> 0 \notin Payload(s, m, v)
  BY ChecksumParity
<1>3. 3 \in boot_record_checksum((s + 1) % 256, m, v)
         <=> 0 \notin Payload((s + 1) % 256, m, v)
  BY SequenceParity, ChecksumParity
<1> QED
  BY <1>1, <1>2, <1>3

LEMMA ChecksumType ==
    ASSUME NEW s, NEW m, NEW v
    PROVE  boot_record_checksum(s, m, v) \in SUBSET (0 .. 7)
  BY DEF boot_record_checksum, Rotl3, Xor, FinalBits

LEMMA RebuiltRecord ==
    ASSUME NEW r \in Records, NEW m \in Restorable
    PROVE  /\ Rebuilt(r, m) \in Records
           /\ Rebuilt(r, m).header = r.header
           /\ Rebuilt(r, m).sequence = (r.sequence + 1) % 256
           /\ Rebuilt(r, m).mode = m
           /\ Rebuilt(r, m).valid = 1
           /\ SelfConsistent(Rebuilt(r, m))
<1>1. (r.sequence + 1) % 256 \in 0 .. 255
  BY SequenceParity DEF Records
<1>2. m \in Modes
  BY DEF Restorable, Modes, CASUAL, LOCKDOWN, VOID, GHOST
<1> DEFINE c == boot_record_checksum((r.sequence + 1) % 256, m, 1)
<1>3. c \in SUBSET (0 .. 7)
  BY ChecksumType
<1> HIDE DEF c
<1>4. Rebuilt(r, m) = [header |-> r.header, sequence |-> (r.sequence + 1) % 256,
                       mode |-> m, valid |-> 1, checksum |-> c]
  BY DEF Rebuilt, c
<1>5. Rebuilt(r, m).checksum = c
  BY <1>4 DEF Records
<1>6. /\ Rebuilt(r, m).header = r.header
      /\ Rebuilt(r, m).sequence = (r.sequence + 1) % 256
      /\ Rebuilt(r, m).mode = m
      /\ Rebuilt(r, m).valid = 1
  BY <1>4 DEF Records
<1>7. Rebuilt(r, m) \in Records
  BY <1>1, <1>2, <1>3, <1>4 DEF Records
<1> QED
  BY <1>5, <1>6, <1>7 DEF SelfConsistent, c

LEMMA VerifyType ==
    ASSUME NEW from, NEW to, NEW source, NEW flags
    PROVE  env_verify_transition(from, to, source, flags) \in Reasons
  BY DEF env_verify_transition, Reasons

LEMMA BootRecordInit == Init => BootRecordInv
<1> SUFFICES ASSUME Init PROVE BootRecordInv
  OBVIOUS
<1>1. PICK h \in {"good", "bad"}, s \in FirstSequences, m \in Restorable, v \in 0 .. 1 :
         cmos = [header |-> h, sequence |-> s, mode |-> m, valid |-> v,
                 checksum |-> boot_record_checksum(s, m, v)]
  BY DEF Init
<1>2. cmos \in Records /\ SelfConsistent(cmos)
  <2>1. s \in 0 .. 255 /\ m \in Modes
    BY ModeAssumption DEF Restorable, Modes, CASUAL, LOCKDOWN, VOID, GHOST
  <2>2. boot_record_checksum(s, m, v) \in SUBSET (0 .. 7)
    BY ChecksumType
  <2> QED
    BY <1>1, <2>1, <2>2 DEF Records, SelfConsistent
<1>3. TypeOK
  BY <1>2 DEF Init, TypeOK, Modes, VOID, GHOST, Reasons
<1> QED
  BY <1>2, <1>3 DEF Init, BootRecordInv

(* What writing one more byte does to the record in the CMOS.              *)
LEMMA ByteWritten ==
    ASSUME NEW c \in Records, NEW r \in Records, NEW n \in 0 .. 4
    PROVE  /\ Written(c, r, n) \in Records
           /\ Written(c, r, n).header = c.header
           /\ n > 1 => Written(c, r, n).mode = r.mode
           /\ Written(Written(c, r, n), r, n) = Written(c, r, n)
           /\ n < 4 => Written(Written(c, r, n), r, n + 1) = Written(c, r, n + 1)
  BY DEF Written, Records

LEMMA NothingWritten ==
    ASSUME NEW c \in Records, NEW r \in Records
    PROVE  Written(c, r, 0) = c
  BY DEF Written, Records

LEMMA AllWritten ==
    ASSUME NEW c \in Records, NEW r \in Records, c.header = r.header
    PROVE  Written(c, r, 4) = r
  BY DEF Written, Records

(* The state just after boot_record_store_mode has rebuilt the record, from *)
(* a state in which CMOS and memory agree.                                  *)
LEMMA StoreBegins ==
    ASSUME BootRecordInv, pc \in {"boot", "run"}, NEW m \in Restorable,
           NEW next, BeginStore(m, next), UNCHANGED <<cmos, sound>>
    PROVE  /\ ram' \in Records /\ SelfConsistent(ram') /\ ram'.valid = 1
           /\ ram'.mode = m /\ ram'.header = cmos'.header
           /\ ram'.sequence = (sound'.sequence + 1) % 256
           /\ cmos' = Written(cmos', ram', 0)
           /\ cmos' = sound'
           /\ cmos' \in Records
<1>1. ram' = Rebuilt(ram, m) /\ ram \in Records /\ cmos = ram /\ sound = ram
  BY DEF BeginStore, BootRecordInv, TypeOK
<1>2. /\ ram' \in Records /\ SelfConsistent(ram') /\ ram'.valid = 1
      /\ ram'.mode = m /\ ram'.header = ram.header
      /\ ram'.sequence = (ram.sequence + 1) % 256
  BY <1>1, RebuiltRecord
<1>3. Written(cmos, ram', 0) = cmos
  BY <1>1, <1>2, NothingWritten
<1> QED
  BY <1>1, <1>2, <1>3

LEMMA AcceptStep ==
    ASSUME BootRecordInv, pc \in {"boot", "run"}, NEW to \in CASUAL .. GHOST,
           to # current, Accept(to, "run")
    PROVE  BootRecordInv'
<1> USE ModeAssumption
<1>1. to \in Modes
  BY DEF Modes, VOID, CASUAL, GHOST
<1>2. CASE to \in Restorable
  <2>1. BeginStore(to, "run") /\ UNCHANGED <<cmos, sound>>
    BY <1>2 DEF Accept
  <2>2. /\ ram' \in Records /\ SelfConsistent(ram') /\ ram'.valid = 1
        /\ ram'.mode = to /\ ram'.header = cmos'.header
        /\ ram'.sequence = (sound'.sequence + 1) % 256
        /\ cmos' = Written(cmos', ram', 0)
        /\ cmos' = sound'
    BY <1>2, <2>1, StoreBegins
  <2>3. TypeOK'
    BY <1>1, <1>2, <2>1, <2>2
    DEF Accept, BeginStore, BootRecordInv, TypeOK, Reasons
  <2> QED
    BY <1>2, <2>1, <2>2, <2>3
    DEF Accept, BeginStore, BootRecordInv, TypeOK, SelfConsistent
<1>3. CASE to \notin Restorable
  <2>1. to = GHOST /\ current # GHOST
    BY <1>3 DEF Restorable, CASUAL, LOCKDOWN, GHOST
  <2>2. /\ pc' = "run"
        /\ UNCHANGED <<after, written, ram, tick, cmos, boots, sound, clean, intent>>
        /\ previous' = current /\ current' = to
        /\ failures' = failures
        /\ enterTick' = [enterTick EXCEPT ![to] = tick]
        /\ epoch' = epoch + 1 /\ reason' = "NONE"
    BY <1>3, <2>1 DEF Accept, LOCKDOWN, GHOST
  <2>3. TypeOK'
    BY <1>1, <2>2 DEF BootRecordInv, TypeOK, Reasons
  <2> QED
    BY <2>1, <2>2, <2>3 DEF BootRecordInv, SelfConsistent
<1> QED
  BY <1>2, <1>3

LEMMA BootRecordStep == BootRecordInv /\ [Next]_vars => BootRecordInv'
<1> SUFFICES ASSUME BootRecordInv, [Next]_vars PROVE BootRecordInv'
  OBVIOUS
<1> USE ModeAssumption
<1>1. CASE PowerOn
  <2>1. ram' = Rebuilt(cmos, CASUAL) /\ cmos \in Records /\ CASUAL \in Restorable
    BY <1>1 DEF PowerOn, BootRecordInv, TypeOK, Restorable, CASUAL, LOCKDOWN
  <2>2. /\ ram' \in Records /\ SelfConsistent(ram') /\ ram'.valid = 1
        /\ ram'.mode = CASUAL /\ ram'.header = cmos.header
        /\ ram'.sequence = (cmos.sequence + 1) % 256
    BY <2>1, RebuiltRecord
  <2>3. Written(cmos, ram', 0) = cmos
    BY <2>1, <2>2, NothingWritten
  <2>4. boot_record_load_mode(cmos) \in Modes
    BY <2>1 DEF boot_record_load_mode, Restorable, Modes, VOID, GHOST, CASUAL, LOCKDOWN
  <2>5. TypeOK'
    BY <1>1, <2>2, <2>4
    DEF PowerOn, BootRecordInv, TypeOK, Modes, CASUAL, VOID, GHOST
  <2>6. /\ pc' = "store" /\ after' = "restore" /\ current' = CASUAL
        /\ written' = 0 /\ failures' = 0 /\ cmos' = cmos /\ sound' = sound
        /\ SelfConsistent(sound) /\ cmos.header = sound.header
    BY <1>1 DEF PowerOn, BootRecordInv
  <2>7. clean' => cmos = sound
    BY <1>1 DEF PowerOn
  <2> QED
    BY <2>1, <2>2, <2>3, <2>5, <2>6, <2>7 DEF BootRecordInv, SelfConsistent
<1>2. CASE Restore
  <2> DEFINE m == boot_record_load_mode(ram)
  <2>1. CASE m \in {SECURE, LOCKDOWN}
    <3>1. Accept(m, "run") /\ pc = "boot" /\ current = CASUAL
      BY <1>2, <2>1 DEF Restore, BootRecordInv
    <3>2. m \in CASUAL .. GHOST /\ m # current
      BY <2>1, <3>1 DEF CASUAL, SECURE, LOCKDOWN, GHOST
    <3> QED
      BY <3>1, <3>2, AcceptStep
  <2>2. CASE m \notin {SECURE, LOCKDOWN}
    <3>1. /\ pc = "boot" /\ pc' = "run"
          /\ UNCHANGED <<after, written, current, previous, enterTick, tick,
                         failures, epoch, reason, ram, cmos, boots, sound,
                         clean, intent>>
      BY <1>2, <2>2 DEF Restore
    <3> QED
      BY <3>1 DEF BootRecordInv, TypeOK, SelfConsistent
  <2> QED
    BY <2>1, <2>2
<1>3. CASE StoreByte
  <2> DEFINE n == written + 1
  <2>1. /\ pc = "store" /\ cmos \in Records /\ ram \in Records /\ sound \in Records
        /\ n \in 1 .. 4 /\ written \in 0 .. 4
        /\ cmos = Written(cmos, ram, written)
        /\ cmos.header = ram.header
        /\ cmos' = Written(cmos, ram, n)
    BY <1>3 DEF StoreByte, BootRecordInv, TypeOK
  <2>2. /\ cmos' \in Records /\ cmos'.header = cmos.header
        /\ cmos' = Written(cmos', ram, n)
    BY <2>1, ByteWritten
  <2>3. CASE written < 3
    <3>1. clean => cmos' = Written(sound, ram, n)
      <4> SUFFICES ASSUME clean PROVE cmos' = Written(sound, ram, n)
        OBVIOUS
      <4>1. cmos = Written(sound, ram, written)
        BY <2>1 DEF BootRecordInv
      <4> QED
        BY <2>1, <2>3, <4>1, ByteWritten
    <3>2. /\ written' = n
          /\ UNCHANGED <<pc, after, current, previous, enterTick, tick, failures,
                         epoch, reason, ram, sound, clean, boots, intent>>
      BY <1>3, <2>3 DEF StoreByte
    <3>3. TypeOK'
      BY <2>2, <2>3, <3>2 DEF BootRecordInv, TypeOK
    <3> QED
      BY <2>1, <2>2, <3>1, <3>2, <3>3 DEF BootRecordInv, SelfConsistent
  <2>4. CASE written >= 3
    <3>1. n = 4 /\ cmos' = ram
      BY <2>1, <2>4, AllWritten
    <3>2. sound' = ram /\ clean' = TRUE /\ UNCHANGED <<boots, intent>>
      BY <1>3, <2>1, <2>4 DEF StoreByte
    <3>3. SelfConsistent(ram) /\ ram.valid = 1
      BY <2>1 DEF BootRecordInv
    <3>4. CASE after = "reboot"
      <4>1. PowerDown
        BY <1>3, <2>1, <2>4, <3>4 DEF StoreByte
      <4>2. TypeOK'
        BY <2>1, <3>1, <3>2, <4>1
        DEF PowerDown, BootRecordInv, TypeOK, Modes, VOID, GHOST, Reasons
      <4> QED
        BY <3>1, <3>2, <3>3, <4>1, <4>2 DEF PowerDown, BootRecordInv
    <3>5. CASE after # "reboot"
      <4>1. /\ pc' = (IF after = "restore" THEN "boot" ELSE "run")
            /\ written' = 0
            /\ UNCHANGED <<after, current, previous, enterTick, tick, failures,
                           epoch, reason, ram>>
        BY <1>3, <2>1, <2>4, <3>5 DEF StoreByte
      <4>2. TypeOK'
        BY <2>1, <3>1, <3>2, <4>1 DEF BootRecordInv, TypeOK
      <4>3. current \in Restorable /\ ram.mode = current
            /\ (after = "restore" => current = CASUAL) /\ failures < RetryLimit
        BY <2>1, <3>5 DEF BootRecordInv
      <4> QED
        BY <2>1, <3>1, <3>2, <3>3, <4>1, <4>2, <4>3
        DEF BootRecordInv, TypeOK, SelfConsistent, Restorable, CASUAL, LOCKDOWN, GHOST
    <3> QED
      BY <3>4, <3>5
  <2> QED
    BY <2>1, <2>3, <2>4
<1>4. ASSUME NEW to \in CASUAL .. GHOST, NEW source \in Sources,
             NEW flags \in FlagsOf(source), Request(to, source, flags)
      PROVE  BootRecordInv'
  <2> DEFINE why == env_verify_transition(current, to, source, flags)
  <2>1. pc = "run" /\ to # current
    BY <1>4 DEF Request
  <2>2. CASE why = "NONE"
    BY <1>4, <2>1, <2>2, AcceptStep DEF Request
  <2>3. CASE why # "NONE"
    <3>1. Reject(to, source, why)
      BY <1>4, <2>3 DEF Request
    <3>2. why \in Reasons
      BY VerifyType
    <3> HIDE DEF why
    <3> DEFINE prompt == /\ current = CASUAL /\ to = LOCKDOWN
                         /\ source = "DAEMON" /\ why = "AUTH_REQUIRED"
    <3>3. /\ failures' = (IF prompt THEN failures + 1 ELSE failures)
          /\ reason' = why
          /\ UNCHANGED <<current, previous, enterTick, tick, epoch, cmos, boots,
                         sound, clean, intent>>
      BY <3>1 DEF Reject
    <3>4. CASE prompt /\ failures + 1 >= RetryLimit
      <4>1. BeginStore(LOCKDOWN, "reboot")
        BY <3>1, <3>4 DEF Reject
      <4>2. LOCKDOWN \in Restorable /\ CASUAL \in Restorable
        BY DEF Restorable, CASUAL, LOCKDOWN
      <4>3. /\ ram' \in Records /\ SelfConsistent(ram') /\ ram'.valid = 1
            /\ ram'.mode = LOCKDOWN /\ ram'.header = cmos'.header
            /\ ram'.sequence = (sound'.sequence + 1) % 256
            /\ cmos' = Written(cmos', ram', 0)
            /\ cmos' = sound'
        BY <2>1, <3>3, <4>1, <4>2, StoreBegins
      <4>4. TypeOK'
        BY <3>2, <3>3, <4>1, <4>3 DEF BeginStore, BootRecordInv, TypeOK
      <4> QED
        BY <3>3, <3>4, <4>1, <4>2, <4>3, <4>4
        DEF BeginStore, BootRecordInv, SelfConsistent
    <3>5. CASE ~(prompt /\ failures + 1 >= RetryLimit)
      <4>1. UNCHANGED <<pc, after, written, ram>>
        BY <3>1, <3>5 DEF Reject
      <4>2. failures \in Nat /\ failures < RetryLimit
        BY <2>1 DEF BootRecordInv, TypeOK
      <4>3. failures' \in Nat /\ failures' < RetryLimit
        BY <3>3, <3>5, <4>2
      <4>4. TypeOK'
        BY <3>2, <3>3, <4>1, <4>3 DEF BootRecordInv, TypeOK
      <4> QED
        BY <2>1, <3>3, <4>1, <4>3, <4>4 DEF BootRecordInv, SelfConsistent
    <3> QED
      BY <3>4, <3>5
  <2> QED
    BY <2>2, <2>3
<1>5. CASE Tick
  BY <1>5 DEF Tick, BootRecordInv, TypeOK, SelfConsistent
<1>6. CASE PowerFail
  <2>1. PowerDown /\ UNCHANGED <<cmos, boots, sound, clean, intent>>
    BY <1>6 DEF PowerFail
  <2>2. TypeOK'
    BY <2>1 DEF PowerDown, BootRecordInv, TypeOK, Modes, VOID, GHOST, Reasons
  <2> QED
    BY <2>1, <2>2 DEF PowerDown, BootRecordInv, SelfConsistent
<1>7. CASE UNCHANGED vars
  BY <1>7 DEF vars, BootRecordInv, TypeOK, SelfConsistent
<1> QED
  BY <1>1, <1>2, <1>3, <1>4, <1>5, <1>6, <1>7 DEF Next

(* The invariant that the three theorems below rest on.                    *)
THEOREM BootRecordInvariant == Spec => []BootRecordInv
  BY BootRecordInit, BootRecordStep, PTL DEF Spec

(* Every variable keeps its type, for all windows, limits and bounds.      *)
THEOREM ModeTypeCorrect == Spec => []TypeOK
<1>1. BootRecordInv => TypeOK
  BY DEF BootRecordInv
<1> QED
  BY <1>1, BootRecordInvariant, PTL

(* boot_record_store_mode keeps the CMOS in step with current_mode:        *)
(* whenever the system runs, a record with a good header is valid and      *)
(* names the current mode (the mode before it in GHOST).                   *)
THEOREM RecordFollowsMode == Spec => []RecordTracksMode
<1>1. BootRecordInv => RecordTracksMode
  BY DEF BootRecordInv, RecordTracksMode, SelfConsistent, boot_record_is_valid
<1> QED
  BY <1>1, BootRecordInvariant, PTL

(* A store that is cut off leaves the old record, the new one, or one that *)
(* boot_record_is_valid refuses, provided the record it overwrote was      *)
(* itself complete.                                                        *)
THEOREM TornStoreRefused == Spec => []TornStoreIsRefused
<1>1. ASSUME BootRecordInv PROVE TornStoreIsRefused
  <2> SUFFICES ASSUME clean, boot_record_is_valid(cmos), pc = "store"
               PROVE  cmos \in {sound, ram}
    BY DEF TornStoreIsRefused
  <2>1. /\ sound \in Records /\ ram \in Records /\ cmos \in Records
        /\ written \in 0 .. 3
        /\ cmos = Written(sound, ram, written)
        /\ SelfConsistent(sound) /\ SelfConsistent(ram) /\ ram.valid = 1
        /\ sound.header = ram.header
        /\ ram.sequence = (sound.sequence + 1) % 256
    BY <1>1 DEF BootRecordInv, TypeOK
  <2>2. cmos.checksum = boot_record_checksum(cmos.sequence, cmos.mode, cmos.valid)
        /\ cmos.valid # 0
    BY DEF boot_record_is_valid
  <2>3. CASE written = 0
    BY <2>1, <2>3, NothingWritten
  <2>4. CASE written = 1
    <3>1. /\ cmos.sequence = (sound.sequence + 1) % 256
          /\ cmos.mode = sound.mode /\ cmos.valid = sound.valid
          /\ cmos.checksum = sound.checksum
      BY <2>1, <2>4 DEF Written
    <3>2. sound.sequence \in 0 .. 255
      BY <2>1 DEF Records
    <3> QED
      BY <2>1, <2>2, <3>1, <3>2, ChecksumSeparates DEF SelfConsistent
  <2>5. CASE written \in 2 .. 3
    <3>1. /\ cmos.sequence = ram.sequence /\ cmos.mode = ram.mode
          /\ cmos.valid \in {sound.valid, ram.valid}
          /\ cmos.header = ram.header
      BY <2>1, <2>5 DEF Written
    <3>2. cmos.valid = ram.valid
      BY <2>1, <2>2, <3>1 DEF Records
    <3>3. cmos.checksum = ram.checksum
      BY <2>1, <2>2, <3>1, <3>2 DEF SelfConsistent
    <3> QED
      BY <2>1, <3>1, <3>2, <3>3 DEF Records
  <2> QED
    BY <2>1, <2>3, <2>4, <2>5
<1> QED
  BY <1>1, BootRecordInvariant, PTL

(* The prompt counter of env_verify_transition cannot reach its limit in a *)
(* running system, and the reboot it causes records LOCKDOWN first.        *)
THEOREM RetryLimitRecorded == Spec => []RetryLimitLocksDown
<1>1. ASSUME BootRecordInv PROVE RetryLimitLocksDown
  <2>1. ASSUME failures >= RetryLimit, written = 3
        PROVE  cmos.mode = LOCKDOWN
    <3>1. /\ failures \in Nat /\ pc = "store" /\ after = "reboot"
          /\ cmos \in Records /\ ram \in Records
          /\ cmos = Written(cmos, ram, 3) /\ ram.mode = LOCKDOWN
      BY <1>1, <2>1, ModeAssumption DEF BootRecordInv, TypeOK
    <3> QED
      BY <3>1, ByteWritten
  <2> QED
    BY <1>1, <2>1, ModeAssumption DEF RetryLimitLocksDown, BootRecordInv, TypeOK
<1> QED
  BY <1>1, BootRecordInvariant, PTL

\* Together: the boot record survives a stop at any byte of a store.
THEOREM BootRecordStaysSound == Spec => []BootRecordIsSound
BY RecordFollowsMode, TornStoreRefused, RetryLimitRecorded, PTL DEF BootRecordIsSound

(* mode_transition: within one boot the security epoch never goes back,    *)
(* and it moves on whenever the mode changes, so that a lease of an epoch  *)
(* belongs to one mode.                                                    *)
THEOREM EpochMovesWithMode == Spec => EpochFollowsMode
<1>1. ASSUME BootRecordInv, [Next]_vars
      PROVE  pc # "off" /\ pc' # "off" =>
                epoch' >= epoch /\ (current' # current => epoch' > epoch)
  <2>1. epoch \in Nat
    BY <1>1 DEF BootRecordInv, TypeOK
  <2>2. CASE PowerOn
    BY <2>2 DEF PowerOn
  <2>3. CASE Restore
    BY <2>1, <2>3 DEF Restore, Accept, Reject
  <2>4. CASE StoreByte
    BY <2>1, <2>4 DEF StoreByte, PowerDown
  <2>5. CASE \E to \in CASUAL .. GHOST, source \in Sources :
                \E flags \in FlagsOf(source) : Request(to, source, flags)
    BY <2>1, <2>5 DEF Request, Accept, Reject
  <2>6. CASE Tick
    BY <2>1, <2>6 DEF Tick
  <2>7. CASE PowerFail
    BY <2>7 DEF PowerFail, PowerDown
  <2>8. CASE UNCHANGED vars
    BY <2>1, <2>8 DEF vars
  <2> QED
    BY <1>1, <2>2, <2>3, <2>4, <2>5, <2>6, <2>7, <2>8 DEF Next
<1> QED
  BY <1>1, BootRecordInvariant, PTL DEF Spec, EpochFollowsMode
=============================================================================
