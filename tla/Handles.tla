------------------------------ MODULE Handles ------------------------------
(***************************************************************************)
(* How the UEFI boot loader finds which of its volumes a firmware handle   *)
(* stands for (limine/common/drivers/disk.s2.c): by the hash of its first  *)
(* sectors when no other volume has the same, and otherwise by writing a   *)
(* random signature through the handle and looking for it in the volumes.  *)
(* A place is where a device or a partition starts; its first sectors hold *)
(* a value.  Device operations may fail.                                   *)
(***************************************************************************)
EXTENDS Integers, Sequences, FiniteSets, FiniteSetsExt

CONSTANTS Machines,          \* descriptions of volumes, handles and contents
          MaxFail

SIG == "signature"
NEW_SIG == "new_signature"

VARIABLES machine,           \* [vols, handles, content]
          sect,              \* first sectors of each place
          unique_sector_valid, unique_sector_b2b,
          vi, hi,            \* loop counters
          orig, found,
          efi_part_handle,   \* volume each handle was given to, 0 if none
          unread,            \* volumes find_unique_sectors() could not read
          failed,            \* device operations that failed
          hdPc               \* "start", "unique", "handle", "sign", "scan", "restore", "end"

hdVars == <<machine, sect, unique_sector_valid, unique_sector_b2b, vi, hi, orig, found, efi_part_handle, unread, failed, hdPc>>

HdInit ==
    /\ machine = 0 /\ sect = <<>> /\ unique_sector_valid = <<>> /\ unique_sector_b2b = <<>>
    /\ vi = 1 /\ hi = 1 /\ orig = "" /\ found = 0 /\ efi_part_handle = <<>> /\ unread = {} /\ failed = 0 /\ hdPc = "start"

\* The volume index is complete; a volume is [place, large], a handle
\* [place, large, hdd, skip].
Indexed_(m) ==
    /\ hdPc = "start"
    /\ machine' = m
    /\ sect' = m.content
    /\ unique_sector_valid' = [i \in DOMAIN m.vols |-> FALSE]
    /\ unique_sector_b2b' = [i \in DOMAIN m.vols |-> ""]
    /\ efi_part_handle' = [h \in DOMAIN m.handles |-> 0]
    /\ hdPc' = "unique"
    /\ UNCHANGED <<vi, hi, orig, found, unread, failed>>

volume_by_unique_sector(b2b) ==
    LET same == {i \in DOMAIN unique_sector_valid : unique_sector_valid[i] /\ unique_sector_b2b[i] = b2b}
    IN  IF same = {} THEN 0 ELSE Min(same)

Invalidated(collision) == [unique_sector_valid EXCEPT ![collision] = FALSE]

\* A device operation succeeds, or fails while failures are left.
Works(ok) == failed' = failed + (IF ok THEN 0 ELSE 1) /\ failed' <= MaxFail

\* find_unique_sectors(): one volume; ok tells if it could be read.
find_unique_sectors(ok) ==
    /\ hdPc = "unique" /\ vi <= Len(machine.vols)
    /\ Works(ok)
    /\ LET v == machine.vols[vi]
           collision == volume_by_unique_sector(sect[v.place])
       IN  \/ /\ ~v.large \/ ~ok
              /\ UNCHANGED <<unique_sector_valid, unique_sector_b2b>>
           \/ /\ v.large /\ ok /\ collision = 0
              /\ unique_sector_valid' = [unique_sector_valid EXCEPT ![vi] = TRUE]
              /\ unique_sector_b2b' = [unique_sector_b2b EXCEPT ![vi] = sect[v.place]]
           \/ /\ v.large /\ ok /\ collision # 0
              /\ unique_sector_valid' = Invalidated(collision)
              /\ UNCHANGED unique_sector_b2b
    /\ unread' = IF ok THEN unread ELSE unread \cup {vi}
    /\ vi' = vi + 1
    /\ hdPc' = IF vi = Len(machine.vols) THEN "handle" ELSE "unique"
    /\ UNCHANGED <<machine, sect, hi, orig, found, efi_part_handle>>

\* disk_volume_from_efi_handle() returns v to find_part_handles().
Return_(v) ==
    /\ efi_part_handle' = [efi_part_handle EXCEPT ![hi] = v]
    /\ hi' = hi + 1
    /\ hdPc' = IF hi = Len(machine.handles) THEN "end" ELSE "handle"

Handle_ == machine.handles[hi]

\* By the first sectors, unless the handle is not a hard disk's either.
Lookup(ok) ==
    /\ hdPc = "handle"
    /\ Works(ok)
    /\ LET v == IF Handle_.large /\ ok THEN volume_by_unique_sector(sect[Handle_.place]) ELSE 0
       IN  \/ /\ Handle_.skip \/ (v = 0 /\ ~Handle_.hdd)
              /\ Return_(0)
           \/ /\ ~Handle_.skip /\ v # 0
              /\ Return_(v)
           \/ /\ ~Handle_.skip /\ v = 0 /\ Handle_.hdd
              /\ hdPc' = "sign"
              /\ UNCHANGED <<hi, efi_part_handle>>
    /\ UNCHANGED <<machine, sect, unique_sector_valid, unique_sector_b2b, vi, orig, found, unread>>

Put(value) == [sect EXCEPT ![Handle_.place] = value]

\* The signature is written through the handle.  A write that fails may have
\* happened; the original is then written once more.
Sign(r, w, again, done) ==
    /\ hdPc = "sign"
    /\ failed' = failed + (IF r THEN 0 ELSE 1) + (IF r /\ ~w THEN 1 ELSE 0) + (IF r /\ ~w /\ ~again THEN 1 ELSE 0)
    /\ failed' <= MaxFail
    /\ orig' = sect[Handle_.place]
    /\ found' = 0
    /\ vi' = 1
    /\ \/ /\ ~r
          /\ Return_(0)
          /\ UNCHANGED sect
       \/ /\ r /\ ~w
          /\ sect' = IF again \/ ~done THEN sect ELSE Put(SIG)
          /\ Return_(0)
       \/ /\ r /\ w
          /\ sect' = Put(SIG)
          /\ hdPc' = "scan"
          /\ UNCHANGED <<hi, efi_part_handle>>
    /\ UNCHANGED <<machine, unique_sector_valid, unique_sector_b2b, unread>>

\* The first volume that shows the signature is taken without a second look.
Confirmed_Fault(v) == TRUE

\* "Double check": the volume shows the new signature too.  The first may be one
\* an earlier failure left on a disk: random numbers are drawn again but not
\* compared with what the disks hold.
Confirmed(v) == Put(NEW_SIG)[machine.vols[v].place] = NEW_SIG

\* One volume is compared.  step names the first operation that fails.
Scan(step) ==
    LET v    == machine.vols[vi]
        here == sect[v.place] = SIG
    IN  /\ hdPc = "scan" /\ vi <= Len(machine.vols)
        /\ failed' = failed + (IF step = "none" THEN 0 ELSE 1) /\ failed' <= MaxFail
        /\ \/ /\ step = "read" \/ (step = "none" /\ ~here)
              /\ vi' = vi + 1
              /\ UNCHANGED <<sect, found, hdPc>>
           \/ /\ here /\ step \in {"reread", "rewrite"}
              /\ sect' \in IF step = "rewrite" THEN {sect, Put(NEW_SIG)} ELSE {sect}
              /\ hdPc' = "restore"
              /\ UNCHANGED <<found, vi>>
           \/ /\ here /\ step = "back" /\ ~Confirmed(vi)
              /\ sect' = Put(NEW_SIG)
              /\ hdPc' = "restore"
              /\ UNCHANGED <<found, vi>>
           \/ /\ here /\ step = "check"
              /\ sect' = Put(NEW_SIG)
              /\ vi' = vi + 1
              /\ UNCHANGED <<found, hdPc>>
           \/ /\ here /\ step = "none" /\ Confirmed(vi)
              /\ sect' = Put(NEW_SIG)
              /\ found' = vi
              /\ hdPc' = "restore"
              /\ UNCHANGED vi
           \/ /\ here /\ step = "none" /\ ~Confirmed(vi)
              /\ vi' = vi + 1
              /\ UNCHANGED <<sect, found, hdPc>>
        /\ UNCHANGED <<machine, unique_sector_valid, unique_sector_b2b, hi, orig, efi_part_handle, unread>>

ScanEnds ==
    /\ hdPc = "scan" /\ vi > Len(machine.vols)
    /\ hdPc' = "restore"
    /\ UNCHANGED <<machine, sect, unique_sector_valid, unique_sector_b2b, vi, hi, orig, found, efi_part_handle, unread, failed>>


\* The original is read over and written back.
WriteBack(ok, done) ==
    /\ hdPc = "restore"
    /\ Works(ok)
    /\ sect' = IF ok \/ done THEN Put(orig) ELSE sect
    /\ Return_(IF ok THEN found ELSE 0)
    /\ UNCHANGED <<machine, unique_sector_valid, unique_sector_b2b, vi, orig, found, unread>>

HdNext ==
    \/ \E m \in Machines : Indexed_(m)
    \/ \E ok \in BOOLEAN : find_unique_sectors(ok) \/ Lookup(ok)
    \/ \E r, w, again, done \in BOOLEAN : Sign(r, w, again, done)
    \/ \E step \in {"none", "read", "reread", "rewrite", "check", "back"} : Scan(step)
    \/ ScanEnds
    \/ \E ok, done \in BOOLEAN : WriteBack(ok, done)

HdSpec == HdInit /\ [][HdNext]_hdVars
-----------------------------------------------------------------------------
\* Between two handles every place holds what it held, unless a device operation
\* failed: identifying a disk does not change it (disk_volume_from_efi_handle).
DisksAreLeftAsFound ==
    hdPc \in {"handle", "end"} /\ failed = 0 => sect = machine.content

\* A handle is given the volume that starts where it does, even when another
\* volume starts with the same sectors and a device operation fails, as long as
\* every volume could be read once and no three look alike (find_unique_sectors).
HandleFindsItsVolume ==
    hdPc # "start" /\ unread = {} =>
      \A h \in DOMAIN efi_part_handle :
          efi_part_handle[h] # 0 => machine.vols[efi_part_handle[h]].place = machine.handles[h].place

=============================================================================
