-------------------------------- MODULE Mode --------------------------------
(***************************************************************************)
(* The mode state machine of kernel/mode.c: transition requests, their     *)
(* verification and application, and the boot record that is kept in CMOS  *)
(* so that the mode survives a restart.                                    *)
(*                                                                         *)
(* A request runs from beginning to end under transition_lock with         *)
(* interrupts off, so it is one step; only the CMOS bytes are written one  *)
(* at a time, because the power can fail between two of them.              *)
(***************************************************************************)
EXTENDS Integers, Sequences, FiniteSets

CONSTANTS
    CooldownTicks,   \* MODE_SECURE_COOLDOWN_TICKS
    DeescTicks,      \* MODE_LOCKDOWN_DEESC_TICKS
    RetryLimit,      \* MODE_PROMPT_AUTH_RETRY_LIMIT
    MaxTick,         \* bound on the scheduler's global tick
    MaxEpoch,        \* bound on the transitions of one boot
    MaxBoots,        \* bound on the number of boots
    FirstSequences   \* sequence numbers the CMOS may hold at first power on

ASSUME ModeAssumption ==
    /\ CooldownTicks \in Nat
    /\ DeescTicks \in Nat
    /\ RetryLimit \in Nat \ {0}
    /\ MaxTick \in Nat
    /\ MaxEpoch \in Nat
    /\ MaxBoots \in Nat
    /\ FirstSequences \subseteq 0 .. 255

-----------------------------------------------------------------------------
(* Modes, sources and authorisation flags (include/mode.h). *)

VOID == 0
CASUAL == 1
SECURE == 2
LOCKDOWN == 3
GHOST == 4
Modes == VOID .. GHOST
Restorable == CASUAL .. LOCKDOWN
Sources == {"USER", "DAEMON", "KERNEL"}

UserFlags == {"PASSWORD", "SPECIAL_KEY", "SYSTEM_PROMPT", "COOLDOWN", "DEESC"}
BootFlags == {"AUTOMATIC", "BOOT_INTENT"}
KernelFlags == {"AUTOMATIC", "BOOT_INTENT", "COOLDOWN", "DEESC"}

(* The flags a caller presents: SYS_MODE_TRANSITION masks the user's, a    *)
(* kernel caller always passes mode_default_auth_flags.                    *)
FlagsOf(source) ==
    IF source = "KERNEL" THEN {KernelFlags} ELSE SUBSET UserFlags

-----------------------------------------------------------------------------
(* The boot record.  Bytes that enter the checksum are seen as sets of bit *)
(* positions, on which exclusive or is symmetric difference.  magic and    *)
(* version are stored back exactly as they were loaded, so all that        *)
(* matters is whether both are the expected ones.                          *)

Pow2 == <<1, 2, 4, 8, 16, 32, 64, 128>>
Bits(n) == {i \in 0 .. 7 : (n \div Pow2[i + 1]) % 2 = 1}
Xor(a, b) == (a \ b) \cup (b \ a)
Rotl3(a) == {i \in 0 .. 7 : (i + 5) % 8 \in a}

\* magic ^ version ^ 0xA5 = 0x4D ^ 0x01 ^ 0xA5 = 0xE9
HeaderBits == {0, 3, 5, 6, 7}
FinalBits == {1, 3, 4, 6}

\* Fault: the sequence number is left out of the checksum.
Payload_NoSequence(sequence, mode, valid) ==
    Xor(Xor(HeaderBits, Bits(mode)), Bits(valid))

Payload(sequence, mode, valid) ==
    Xor(Xor(Xor(HeaderBits, Bits(sequence)), Bits(mode)), Bits(valid))

boot_record_checksum(sequence, mode, valid) ==
    Xor(Rotl3(Payload(sequence, mode, valid)), FinalBits)

Records == [header : {"good", "bad"}, sequence : 0 .. 255, mode : Modes,
            valid : 0 .. 1, checksum : SUBSET (0 .. 7)]

boot_record_is_valid(r) ==
    /\ r.header = "good"
    /\ r.valid # 0
    /\ r.checksum = boot_record_checksum(r.sequence, r.mode, r.valid)

\* The mode boot_record_load_mode reports, VOID when it reports none.
boot_record_load_mode(r) ==
    IF boot_record_is_valid(r) /\ r.mode \in Restorable THEN r.mode ELSE VOID

\* The record in memory once boot_record_store_mode has rebuilt it.
Rebuilt(r, m) ==
    LET s == (r.sequence + 1) % 256
    IN  [header |-> r.header, sequence |-> s, mode |-> m, valid |-> 1,
         checksum |-> boot_record_checksum(s, m, 1)]

(* The record in the CMOS once the first n of its changing bytes, in the   *)
(* order in which boot_record_store_persistent writes them, are those of   *)
(* new and the others still those of old.                                  *)
Written(old, new, n) ==
    [header |-> old.header,
     sequence |-> IF n > 0 THEN new.sequence ELSE old.sequence,
     mode |-> IF n > 1 THEN new.mode ELSE old.mode,
     valid |-> IF n > 2 THEN new.valid ELSE old.valid,
     checksum |-> IF n > 3 THEN new.checksum ELSE old.checksum]

-----------------------------------------------------------------------------
VARIABLES
    pc,          \* "off", "boot" (mode_init), "run" or "store"
    after,       \* what follows a store: "run", "restore" or "reboot"
    written,     \* bytes of the running store already in the CMOS
    current,     \* current_mode
    previous,    \* previous_mode
    enterTick,   \* mode_enter_tick
    tick,        \* the scheduler's global tick
    failures,    \* prompt_auth_failures
    epoch,       \* security_epoch
    reason,      \* outcome of the latest request in the fate ledger
    ram,         \* g_mode_boot_record
    cmos,        \* CMOS bytes 0x40..0x47
    boots,       \* number of times the power came on
    sound,       \* history: the last record whose store was completed
    clean,       \* history: the record loaded at boot was a complete one
    intent       \* history: the mode the record named when power came on

vars == <<pc, after, written, current, previous, enterTick, tick, failures,
          epoch, reason, ram, cmos, boots, sound, clean, intent>>

Reasons == {"NONE", "TARGET_INVALID", "EDGE_ILLEGAL", "AUTH_REQUIRED",
            "SPECIAL_KEY_REQUIRED", "SYSTEM_PROMPT_REQUIRED",
            "COOLDOWN_ACTIVE", "DEESC_WINDOW_ACTIVE", "BOOT_POLICY"}

(* Every variable holds a value of its C type; the ticks and counters stay *)
(* natural numbers.                                                        *)
TypeOK ==
    /\ pc \in {"off", "boot", "run", "store"}
    /\ after \in {"run", "restore", "reboot"}
    /\ written \in 0 .. 3
    /\ current \in Modes
    /\ previous \in Modes
    /\ enterTick \in [Modes -> Nat]
    /\ tick \in Nat
    /\ failures \in Nat
    /\ epoch \in Nat
    /\ reason \in Reasons
    /\ ram \in Records
    /\ cmos \in Records
    /\ boots \in Nat
    /\ sound \in Records
    /\ clean \in BOOLEAN
    /\ intent \in Modes

-----------------------------------------------------------------------------
(* env_verify_transition: which source may take which edge ... *)

EdgeSources(from, to) ==
    CASE <<from, to>> \in {<<CASUAL, SECURE>>, <<SECURE, GHOST>>} -> Sources
      [] <<from, to>> \in {<<CASUAL, LOCKDOWN>>, <<SECURE, CASUAL>>,
                           <<SECURE, LOCKDOWN>>, <<LOCKDOWN, SECURE>>}
             -> {"USER", "DAEMON"}
      [] <<from, to>> \in {<<CASUAL, GHOST>>, <<GHOST, SECURE>>} -> {"USER"}
      [] <<from, to>> = <<GHOST, LOCKDOWN>> -> {"KERNEL", "DAEMON"}
      [] OTHER -> {}

\* ... and where a kernel request that claims AUTOMATIC is let through.
OverrideEdges == {<<CASUAL, LOCKDOWN>>, <<SECURE, CASUAL>>,
                  <<SECURE, LOCKDOWN>>, <<LOCKDOWN, SECURE>>,
                  <<GHOST, SECURE>>}

PasswordEdges == {<<CASUAL, LOCKDOWN>>, <<CASUAL, GHOST>>, <<SECURE, CASUAL>>,
                  <<SECURE, LOCKDOWN>>, <<GHOST, SECURE>>}

kernel_override(source, flags) == source = "KERNEL" /\ "AUTOMATIC" \in flags

SourceOk(from, to, source, flags) ==
    \/ source \in EdgeSources(from, to)
    \/ kernel_override(source, flags) /\ <<from, to>> \in OverrideEdges

\* Ticks spent in a mode are measured from the tick at which it was entered.
Waited(m, ticks) == tick - enterTick[m] >= ticks

(* The reason for which a request is rejected, NONE when it is accepted.   *)
(* The guards are tried in the order of the code.                          *)
env_verify_transition(from, to, source, flags) ==
    LET edge == <<from, to>>
        override == kernel_override(source, flags)
        deescalation == edge = <<LOCKDOWN, SECURE>> /\ source # "USER"
    IN  IF to \notin CASUAL .. GHOST
        THEN "TARGET_INVALID"
        ELSE IF from = VOID
        THEN IF \/ to = CASUAL
                \/ to \in Restorable /\ "BOOT_INTENT" \in flags
             THEN "NONE" ELSE "BOOT_POLICY"
        ELSE IF ~SourceOk(from, to, source, flags)
        THEN "EDGE_ILLEGAL"
        ELSE IF /\ edge = <<SECURE, CASUAL>>
                /\ ~Waited(SECURE, CooldownTicks) /\ "COOLDOWN" \notin flags
        THEN "COOLDOWN_ACTIVE"
        ELSE IF edge \in PasswordEdges /\ "PASSWORD" \notin flags /\ ~override
        THEN "AUTH_REQUIRED"
        ELSE IF /\ edge = <<LOCKDOWN, SECURE>> /\ source = "USER"
                /\ "SPECIAL_KEY" \notin flags
        THEN "SPECIAL_KEY_REQUIRED"
        ELSE IF /\ deescalation
                /\ ~Waited(LOCKDOWN, DeescTicks) /\ "DEESC" \notin flags
        THEN "DEESC_WINDOW_ACTIVE"
        ELSE IF \/ /\ edge = <<CASUAL, LOCKDOWN>> /\ source = "DAEMON"
                   /\ "SYSTEM_PROMPT" \notin flags
                \/ /\ deescalation /\ ~override
                   /\ ~({"PASSWORD", "SYSTEM_PROMPT"} \subseteq flags)
        THEN "SYSTEM_PROMPT_REQUIRED"
        ELSE "NONE"

-----------------------------------------------------------------------------
(* First power on: the CMOS holds whatever it was left with.               *)
Init ==
    /\ pc = "off"
    /\ after = "run"
    /\ written = 0
    /\ current = VOID
    /\ previous = VOID
    /\ enterTick = [m \in Modes |-> 0]
    /\ tick = 0
    /\ failures = 0
    /\ epoch = 0
    /\ reason = "NONE"
    /\ \E h \in {"good", "bad"}, s \in FirstSequences, m \in Restorable, v \in 0 .. 1 :
          cmos = [header |-> h, sequence |-> s, mode |-> m, valid |-> v,
                  checksum |-> boot_record_checksum(s, m, v)]
    /\ ram = cmos
    /\ boots = 0
    /\ sound = cmos
    /\ clean = TRUE
    /\ intent = VOID

\* boot_record_store_mode, up to the first byte written to the CMOS.
BeginStore(m, next) ==
    /\ ram' = Rebuilt(ram, m)
    /\ pc' = "store"
    /\ written' = 0
    /\ after' = next

\* env_apply_transition, the fate record, and the boot record of a
\* restorable mode.
Accept(to, next) ==
    /\ previous' = current
    /\ current' = to
    /\ enterTick' = [enterTick EXCEPT ![to] = tick]
    /\ failures' = IF to = LOCKDOWN THEN 0 ELSE failures
    /\ epoch' = epoch + 1
    /\ reason' = "NONE"
    /\ IF to \in Restorable
       THEN BeginStore(to, next)
       ELSE pc' = "run" /\ UNCHANGED <<after, written, ram>>
    /\ UNCHANGED <<tick, cmos, boots, sound, clean, intent>>

\* Volatile memory is gone; only the CMOS (and the history) stays.
PowerDown ==
    /\ pc' = "off"
    /\ after' = "run"
    /\ written' = 0
    /\ current' = VOID
    /\ previous' = VOID
    /\ enterTick' = [m \in Modes |-> 0]
    /\ tick' = 0
    /\ failures' = 0
    /\ epoch' = 0
    /\ reason' = "NONE"
    /\ ram' = cmos'

(* mode_init: load the record and take the VOID -> CASUAL transition, whose *)
(* store begins at once.                                                    *)
PowerOn ==
    /\ pc = "off"
    /\ boots < MaxBoots
    /\ boots' = boots + 1
    /\ intent' = boot_record_load_mode(cmos)
    /\ clean' = (cmos = sound)
    /\ ram' = Rebuilt(cmos, CASUAL)
    /\ current' = CASUAL
    /\ epoch' = 1
    /\ pc' = "store"
    /\ after' = "restore"
    /\ UNCHANGED <<written, previous, enterTick, tick, failures, reason, cmos,
                   sound>>

(* mode_init, second half: go on to the recorded mode, if it is another.   *)
Restore ==
    /\ pc = "boot"
    /\ LET m == boot_record_load_mode(ram)
       IN  IF m \in {SECURE, LOCKDOWN}
           THEN Accept(m, "run")
           ELSE /\ pc' = "run"
                /\ UNCHANGED <<after, written, current, previous, enterTick,
                               tick, failures, epoch, reason, ram, cmos, boots,
                               sound, clean, intent>>

\* One byte of boot_record_store_persistent; the last completes the record.
StoreByte ==
    /\ pc = "store"
    /\ cmos' = Written(cmos, ram, written + 1)
    /\ IF written < 3
       THEN /\ written' = written + 1
            /\ UNCHANGED <<pc, after, current, previous, enterTick, tick,
                           failures, epoch, reason, ram, sound, clean>>
       ELSE /\ sound' = ram
            /\ clean' = TRUE
            /\ IF after = "reboot"
               THEN PowerDown
               ELSE /\ pc' = IF after = "restore" THEN "boot" ELSE "run"
                    /\ written' = 0
                    /\ UNCHANGED <<after, current, previous, enterTick, tick,
                                   failures, epoch, reason, ram>>
    /\ UNCHANGED <<boots, intent>>

(* A rejected request only leaves its reason in the ledger, except that a  *)
(* daemon's failed prompts are counted, and the last one the limit allows  *)
(* records LOCKDOWN and reboots.                                           *)
Reject(to, source, why) ==
    LET prompt == /\ current = CASUAL /\ to = LOCKDOWN
                  /\ source = "DAEMON" /\ why = "AUTH_REQUIRED"
    IN  /\ failures' = IF prompt THEN failures + 1 ELSE failures
        /\ reason' = why
        /\ IF prompt /\ failures + 1 >= RetryLimit
           THEN BeginStore(LOCKDOWN, "reboot")
           ELSE UNCHANGED <<pc, after, written, ram>>
        /\ UNCHANGED <<current, previous, enterTick, tick, epoch, cmos, boots,
                       sound, clean, intent>>

(* mode_request_transition_ex.  A request for the current mode changes     *)
(* nothing and is left out.                                                *)
Request(to, source, flags) ==
    /\ pc = "run"
    /\ to # current
    /\ epoch < MaxEpoch
    /\ LET why == env_verify_transition(current, to, source, flags)
       IN  IF why = "NONE" THEN Accept(to, "run") ELSE Reject(to, source, why)

Tick ==
    /\ pc = "run"
    /\ tick < MaxTick
    /\ tick' = tick + 1
    /\ UNCHANGED <<pc, after, written, current, previous, enterTick, failures,
                   epoch, reason, ram, cmos, boots, sound, clean, intent>>

\* The power may fail at any moment.
PowerFail ==
    /\ pc # "off"
    /\ UNCHANGED <<cmos, boots, sound, clean, intent>>
    /\ PowerDown

Next ==
    \/ PowerOn
    \/ Restore
    \/ StoreByte
    \/ \E to \in CASUAL .. GHOST, source \in Sources :
          \E flags \in FlagsOf(source) : Request(to, source, flags)
    \/ Tick
    \/ PowerFail

Spec == Init /\ [][Next]_vars

-----------------------------------------------------------------------------
(* While the system runs, a record with a good header passes the integrity *)
(* check and names the mode the machine is in, or, in GHOST, the mode      *)
(* GHOST was entered from: whatever crashes and torn writes came before.   *)
RecordTracksMode ==
    pc = "run" /\ cmos.header = "good" =>
        /\ boot_record_is_valid(cmos)
        /\ cmos.mode = IF current = GHOST THEN previous ELSE current

(* If the record loaded at boot was complete, then a power failure at any  *)
(* byte of a later store leaves the old record, the new one, or one that   *)
(* boot_record_is_valid refuses.                                           *)
TornStoreIsRefused ==
    clean /\ boot_record_is_valid(cmos) /\ pc = "store" => cmos \in {sound, ram}

(* The failed prompts never reach the limit while the system runs, and the *)
(* reboot the limit causes is never reached with another mode than         *)
(* LOCKDOWN in a record that has a good header.                            *)
RetryLimitLocksDown ==
    /\ pc = "run" => failures < RetryLimit
    /\ failures >= RetryLimit =>
          /\ pc = "store" /\ after = "reboot"
          /\ written = 3 /\ cmos.header = "good" => cmos.mode = LOCKDOWN

\* The boot record survives the machine: it follows the mode, a torn store is refused, and the
\* limit of failed prompts ends in LOCKDOWN (boot_record_store_persistent).
BootRecordIsSound == RecordTracksMode /\ TornStoreIsRefused /\ RetryLimitLocksDown

(* A mode is never left for another within one boot without the security   *)
(* epoch moving on, and the epoch of a boot never goes back.               *)
EpochFollowsMode ==
    [][pc # "off" /\ pc' # "off" =>
          epoch' >= epoch /\ (current' # current => epoch' > epoch)]_vars

(* What the documents promise.  transition_contract_freeze.md: the boot    *)
(* restore record decides the mode of the next boot.                       *)
BootRestoresIntent ==
    [][pc = "boot" /\ pc' # "off" /\ intent \in {SECURE, LOCKDOWN}
          => current' = intent]_vars

(* transition_contract_freeze.md: on an accepted transition into a         *)
(* restorable mode the integrity-checked record is updated, so that it is  *)
(* valid while the system runs.                                            *)
StoredRecordIsValid == pc = "run" => boot_record_is_valid(cmos)

(* The record of a completed store carries its own checksum.               *)
SelfConsistent(r) == r.checksum = boot_record_checksum(r.sequence, r.mode, r.valid)

(* The inductive invariant behind the properties above: how the CMOS, the  *)
(* record in memory and the last complete record relate at every byte of a *)
(* store.                                                                  *)
BootRecordInv ==
    /\ TypeOK
    /\ SelfConsistent(sound)
    /\ cmos.header = sound.header /\ ram.header = cmos.header
    /\ pc # "store" => written = 0
    /\ pc # "off" => SelfConsistent(ram) /\ ram.valid = 1
    /\ pc \in {"boot", "run"} =>
          /\ cmos = ram /\ sound = ram
          /\ failures < RetryLimit
          /\ cmos.mode = IF current = GHOST THEN previous ELSE current
    /\ pc = "boot" => current = CASUAL
    /\ pc = "store" =>
          /\ current \in Restorable
          /\ ram.mode = IF after = "reboot" THEN LOCKDOWN ELSE current
          /\ after = "restore" => current = CASUAL
          /\ after # "reboot" => failures < RetryLimit
          /\ cmos = Written(cmos, ram, written)
          /\ clean => /\ ram.sequence = (sound.sequence + 1) % 256
                      /\ cmos = Written(sound, ram, written)
    /\ pc = "off" => failures = 0

=============================================================================
