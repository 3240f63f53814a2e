------------------------------- MODULE Volume -------------------------------
(***************************************************************************)
(* How the boot loader finds drives and partitions and reads them: the     *)
(* index of volumes (limine/common/drivers/disk.s2.c) and the partition    *)
(* tables and cached reads (limine/common/lib/part.s2.c, part.h).  Sizes   *)
(* count 512-byte units; a drive has `size` of them in a sector.  Unit u   *)
(* of a drive holds the value u + 1.                                       *)
(***************************************************************************)
EXTENDS Integers, Sequences, FiniteSets, FiniteSetsExt, SequencesExt

CONSTANTS Drives,                  \* sequences of drives explored
          lb_guesses,              \* where a GPT header may be
          XFER_BUF_SIZE, xfer_sizes, XFER_FALLBACK,
          MAX_LOGICAL_PARTITIONS, OPTICAL_SIZE, MaxRead, MaxReads

VARIABLES drives, firmware,        \* "bios" or "uefi"
          bda_disk_count,
          drive, part,             \* loop counters of disk_create_index()
          hdd_indices, optical_indices, consumed_bda_disks,
          volume_index,            \* volumes found
          block,                   \* place of the current drive's own volume
          visited,                 \* volumes volume_iterate_parts() went over
          lastRead, reads,
          volPc                    \* "start", "drives", "parts", "ready"

volVars == <<drives, firmware, bda_disk_count, drive, part, hdd_indices, optical_indices, consumed_bda_disks, volume_index, block, visited, lastRead, reads, volPc>>

NO_PARTITION == "no_partition"
INVALID_TABLE == "invalid_table"
END_OF_TABLE == "end_of_table"
NoRead == [vol |-> 0, loc |-> 0, ok |-> FALSE, data |-> <<>>]
NoCache == [ready |-> FALSE, block |-> 0, data |-> <<>>]

VolInit ==
    /\ drives = <<>> /\ firmware = "bios" /\ bda_disk_count = 0 /\ drive = 1 /\ part = 0
    /\ hdd_indices = 1 /\ optical_indices = 1 /\ consumed_bda_disks = 0
    /\ volume_index = <<>> /\ block = 0 /\ visited = <<>> /\ lastRead = NoRead /\ reads = 0 /\ volPc = "start"

\* The device transfers whole sectors, all of them or none.
disk_read_sectors(dev, sector, count) == sector + count <= dev.len /\ sector..(sector + count - 1) \cap dev.bad = {}

\* The start of the volume is not converted to sectors of the drive.
cache_block_Fault(dev, v, b) ==
    LET c     == IF v.cache.data = <<>> THEN [v.cache EXCEPT !.data = [i \in 1..(v.fastest * v.size) |-> 0]] ELSE v.cache
        from  == v.first_sect + b * v.fastest
        works == {n \in 1..v.fastest : disk_read_sectors(dev, from, n)}
    IN  IF c.ready /\ c.block = b THEN c
        ELSE IF works = {} THEN [c EXCEPT !.ready = FALSE]
        ELSE [ready |-> TRUE, block |-> b, data |-> [i \in DOMAIN c.data |-> IF i <= Max(works) * v.size THEN from * v.size + i ELSE c.data[i]]]

\* cache_block(): the whole block, or as many of its first sectors as the drive
\* gives; the others keep what the cache held.
cache_block(dev, v, b) ==
    LET c     == IF v.cache.data = <<>> THEN [v.cache EXCEPT !.data = [i \in 1..(v.fastest * v.size) |-> 0]] ELSE v.cache
        from  == v.first_sect \div v.size + b * v.fastest
        works == {n \in 1..v.fastest : disk_read_sectors(dev, from, n)}
    IN  IF c.ready /\ c.block = b THEN c
        ELSE IF v.first_sect % v.size # 0 \/ works = {} THEN [c EXCEPT !.ready = FALSE]
        ELSE [ready |-> TRUE, block |-> b, data |-> [i \in DOMAIN c.data |-> IF i <= Max(works) * v.size THEN from * v.size + i ELSE c.data[i]]]

InVolume(v, loc, count) == loc < v.sect_count * v.size /\ count <= v.sect_count * v.size - loc

\* volume_read(): the volume with its new cache, and the units read, a block at a time.
Gathered(acc, c, lo, hi) ==
    IF ~acc.ok THEN acc
    ELSE [vol |-> [acc.vol EXCEPT !.cache = c], ok |-> c.ready, data |-> IF c.ready THEN acc.data \o SubSeq(c.data, lo + 1, hi) ELSE acc.data]

volume_read(dev, v, loc, count) ==
    LET bs     == v.fastest * v.size
        blocks == [i \in 1..((loc + count - 1) \div bs - loc \div bs + 1) |-> loc \div bs + i - 1]
        step(acc, b) == Gathered(acc, cache_block(dev, acc.vol, b), IF b * bs < loc THEN loc - b * bs ELSE 0,
                                 IF (b + 1) * bs > loc + count THEN loc + count - b * bs ELSE bs)
    IN  IF ~InVolume(v, loc, count) THEN [vol |-> v, ok |-> FALSE, data |-> <<>>]
        ELSE FoldLeft(step, [vol |-> v, ok |-> TRUE, data |-> <<>>], blocks)

\* gpt_get_guid(), gpt_get_part(): the block size whose header is found, 0 if none.
Guessed(dev, r, g) == [vol |-> r.vol, lb |-> IF r.ok /\ dev.table.kind = "gpt" /\ dev.table.lb = g THEN g ELSE 0]

GptHeader(dev, v) ==
    FoldLeft(LAMBDA acc, g : IF acc.lb # 0 THEN acc ELSE Guessed(dev, volume_read(dev, acc.vol, g, 1), g),
             [vol |-> v, lb |-> 0], lb_guesses)

Part(v, number, first, count) ==
    [v EXCEPT !.partition = number, !.first_sect = first, !.sect_count = count, !.cache = NoCache, !.max_partition = 0]

Answer(ret, v) == [ret |-> ret, vol |-> v, part |-> v]
Found(v, p) == [ret |-> "found", vol |-> v, part |-> p]

\* Entries are numbered after the header.
GptEntry(v, r, lb, e, partition) ==
    IF ~r.ok THEN Answer(END_OF_TABLE, r.vol)
    ELSE IF e.type = 0 \/ e.last < e.first THEN Answer(NO_PARTITION, r.vol)
    ELSE Found(r.vol, Part(v, partition + 1, e.first * lb, (e.last - e.first + 1) * lb))

GptTable(dev, v, h, partition) ==
    IF h.lb = 0 \/ ~dev.table.valid THEN Answer(INVALID_TABLE, h.vol)
    ELSE IF partition >= Len(dev.table.entries) THEN Answer(END_OF_TABLE, h.vol)
    ELSE GptEntry(v, volume_read(dev, h.vol, 2 * h.lb + partition, 1), h.lb, dev.table.entries[partition + 1], partition)

gpt_get_part(dev, v, partition) == GptTable(dev, v, GptHeader(dev, v), partition)

Extended == 5

LinkOk(i, prev, next, extended) == next # 0 /\ ~(i > 0 /\ next <= prev) /\ next < extended.sect_count

\* mbr_get_logical_part(): the chain of extended boot records is followed from
\* the start for every partition.
mbr_get_logical_part(dev, v, extended, partition) ==
    LET at(sector) == IF extended.first_sect + sector \in DOMAIN dev.table.ebr THEN dev.table.ebr[extended.first_sect + sector]
                      ELSE [type |-> 0, first |-> 0, count |-> 0, link |-> 0, ltype |-> 0]
        followed(h, r, e, i) ==
            [sector |-> e.link, vol |-> r.vol, ok |-> r.ok /\ e.ltype = Extended /\ LinkOk(i, h.sector, e.link, extended)]
        hop(h, i) == IF ~h.ok THEN h ELSE followed(h, volume_read(dev, h.vol, h.sector, 1), at(h.sector), i)
        found(last, e) ==
            IF ~last.ok \/ ~volume_read(dev, last.vol, last.sector, 1).ok THEN Answer(END_OF_TABLE, v)
            ELSE IF e.type = 0 \/ e.count = 0 THEN Answer(NO_PARTITION, v)
            ELSE Found(v, Part(v, partition + 4 + 1, extended.first_sect + last.sector + e.first, e.count))
        reach(last) == found(last, at(last.sector))
    IN  IF partition >= MAX_LOGICAL_PARTITIONS THEN Answer(END_OF_TABLE, v)
        ELSE reach(FoldLeft(hop, [sector |-> 0, vol |-> extended, ok |-> TRUE], [i \in 1..partition |-> i - 1]))

\* is_valid_mbr(): flags and no file system's signature, all in the first sectors.
is_valid_mbr(dev, v) == [volume_read(dev, v, 0, 1) EXCEPT !.ok = @ /\ dev.table.kind = "mbr"]

\* mbr_get_part(): four primary partitions, then those of the first extended one.
MbrEntry(dev, v, vol, partition) ==
    LET ext == {i \in 1..4 : dev.table.entries[i].type = Extended /\ dev.table.entries[i].count # 0}
        x == dev.table.entries[Min(ext)]
        e == dev.table.entries[partition + 1]
    IN  IF partition > 3
        THEN IF ext = {} THEN Answer(END_OF_TABLE, vol)
             ELSE mbr_get_logical_part(dev, vol, Part(v, Min(ext), x.first, x.count), partition - 4)
        ELSE IF e.type = 0 \/ e.count = 0 THEN Answer(NO_PARTITION, vol) ELSE Found(vol, Part(v, partition + 1, e.first, e.count))

MbrTable(dev, v, r, partition) == IF ~r.ok THEN Answer(INVALID_TABLE, r.vol) ELSE MbrEntry(dev, v, r.vol, partition)

mbr_get_part(dev, v, partition) == MbrTable(dev, v, is_valid_mbr(dev, v), partition)

Otherwise(g, dev, partition) == IF g.ret # INVALID_TABLE THEN g ELSE mbr_get_part(dev, g.vol, partition)

part_get(dev, v, partition) == Otherwise(gpt_get_part(dev, v, partition), dev, partition)

\* detect_sector_size(): the last byte that differs from the filling, for two
\* fillings; a byte of each unit of the first sector stands for the unit.
detect_sector_size(dev) ==
    LET a == Max({0} \cup {i \in 1..dev.size : dev.tail[i] # 0})
        b == Max({0} \cup {i \in 1..dev.size : dev.tail[i] # 255})
    IN  IF a > b THEN a ELSE b

\* fastest_xfer_size(): timing decides, within the transfer buffer; eight sectors
\* when a trial fails.
fastest_xfer_size(size) ==
    {XFER_FALLBACK} \cup {x \in xfer_sizes : x * size <= XFER_BUF_SIZE}

\* The firmware's description of the machine.
PowerUp(ds, fw, count) ==
    /\ volPc = "start"
    /\ drives' = ds /\ firmware' = fw /\ bda_disk_count' = count /\ volPc' = "drives"
    /\ UNCHANGED <<drive, part, hdd_indices, optical_indices, consumed_bda_disks, volume_index, block, visited, lastRead, reads>>

Skip ==
    /\ drive' = drive + 1
    /\ UNCHANGED <<hdd_indices, optical_indices, consumed_bda_disks, volume_index, block, part, volPc>>

\* A drive becomes a volume, and its partitions are looked for.
Enter(dev, size, optical, x) ==
    LET whole == [index |-> IF optical THEN optical_indices ELSE hdd_indices, is_optical |-> optical, partition |-> 0, drive |-> drive,
                  size |-> size, fastest |-> x, first_sect |-> 0, sect_count |-> dev.len, max_partition |-> -1, cache |-> NoCache]
    IN  /\ optical_indices' = optical_indices + (IF optical THEN 1 ELSE 0)
        /\ hdd_indices' = hdd_indices + (IF optical THEN 0 ELSE 1)
        /\ volume_index' = Append(volume_index, [whole EXCEPT !.cache = GptHeader(dev, whole).vol.cache])   \* gpt_get_guid()
        /\ block' = Len(volume_index')
        /\ part' = 0 /\ volPc' = "parts"
        /\ UNCHANGED drive

\* disk_create_index() under BIOS: fixed drives beyond the count in the BIOS data
\* area are left out.
NextDriveBios ==
    LET dev == drives[drive]
        size == detect_sector_size(dev)
        optical == ~dev.writable /\ size = OPTICAL_SIZE
        fixed == ~dev.removable /\ ~optical
        left == size = 0 \/ ~disk_read_sectors(dev, 0, 1) \/ (fixed /\ consumed_bda_disks = bda_disk_count)
    IN  /\ volPc = "drives" /\ drive <= Len(drives) /\ firmware = "bios"
        /\ \/ left = TRUE /\ Skip
           \/ /\ ~left
              /\ \E x \in fastest_xfer_size(size) : Enter(dev, size, optical, x)
              /\ consumed_bda_disks' = consumed_bda_disks + (IF fixed THEN 1 ELSE 0)
        /\ UNCHANGED <<drives, firmware, bda_disk_count, visited, lastRead, reads>>

\* disk_create_index() under UEFI: handles of partitions are left out.
NextDriveUefi ==
    LET dev == drives[drive]
        left == dev.logical \/ dev.len = 1 \/ ~disk_read_sectors(dev, 0, 1)
    IN  /\ volPc = "drives" /\ drive <= Len(drives) /\ firmware = "uefi"
        /\ \/ left = TRUE /\ Skip
           \/ /\ ~left
              /\ \E x \in xfer_sizes : Enter(dev, dev.size, ~dev.writable /\ dev.size = OPTICAL_SIZE, x)   \* the firmware's granularity
              /\ UNCHANGED consumed_bda_disks
        /\ UNCHANGED <<drives, firmware, bda_disk_count, visited, lastRead, reads>>

Counted(v) == [v EXCEPT !.max_partition = @ + 1]

NextPart ==
    /\ volPc = "parts"
    /\ \E a \in {part_get(drives[drive], volume_index[block], part)} :
        /\ \/ /\ a.ret \in {END_OF_TABLE, INVALID_TABLE}
              /\ volume_index' = [volume_index EXCEPT ![block] = a.vol]
              /\ drive' = drive + 1 /\ volPc' = "drives"
              /\ UNCHANGED part
           \/ /\ a.ret = NO_PARTITION
              /\ volume_index' = [volume_index EXCEPT ![block] = a.vol]
              /\ part' = part + 1
              /\ UNCHANGED <<drive, volPc>>
           \/ /\ a.ret = "found"
              /\ volume_index' = Append([volume_index EXCEPT ![block] = Counted(a.vol)], a.part)
              /\ part' = part + 1
              /\ UNCHANGED <<drive, volPc>>
        /\ UNCHANGED <<drives, firmware, bda_disk_count, hdd_indices, optical_indices, consumed_bda_disks, block, visited, lastRead, reads>>

Indexed ==
    /\ volPc = "drives" /\ drive > Len(drives)
    /\ volPc' = "ready"
    /\ UNCHANGED <<drives, firmware, bda_disk_count, drive, part, hdd_indices, optical_indices, consumed_bda_disks, volume_index, block, visited, lastRead, reads>>

volume_get_by_coord(optical, index, partition) ==
    LET fits == {i \in DOMAIN volume_index : volume_index[i].is_optical = optical /\ volume_index[i].index = index /\ volume_index[i].partition = partition}
    IN  IF fits = {} THEN 0 ELSE Min(fits)

\* volume_iterate_parts() from a volume of the drive whose own volume is b: by
\* partition number, until max_partition + 2 of them were seen.  TURNS rounds
\* are enough when it ends.
TURNS == MAX_LOGICAL_PARTITIONS + 8

volume_iterate_parts(b) ==
    LET v == volume_index[b]
        turn[n \in 0..TURNS] ==
            IF n = 0 THEN [count |-> -1, seen |-> <<>>, ended |-> FALSE]
            ELSE LET t == turn[n - 1]
                     p == volume_get_by_coord(v.is_optical, v.index, n - 1)
                 IN  IF t.ended \/ t.count > v.max_partition THEN [t EXCEPT !.ended = TRUE]
                     ELSE IF p = 0 THEN t ELSE [count |-> t.count + 1, seen |-> Append(t.seen, p), ended |-> FALSE]
    IN  /\ volPc = "ready" /\ visited = <<>> /\ reads = 0 /\ v.partition = 0
        /\ visited' = <<b, turn[TURNS]>>
        /\ UNCHANGED <<drives, firmware, bda_disk_count, drive, part, hdd_indices, optical_indices, consumed_bda_disks, volume_index, block, lastRead, reads, volPc>>

ReadVolume(i, loc, count) ==
    LET v == volume_index[i]
        r == volume_read(drives[v.drive], v, loc, count)
    IN  /\ volPc = "ready" /\ visited = <<>> /\ reads < MaxReads
        /\ lastRead.vol \in {0, i}        \* volumes share no cache
        /\ volume_index' = [volume_index EXCEPT ![i] = r.vol]
        /\ lastRead' = [vol |-> i, loc |-> loc, ok |-> r.ok, data |-> r.data]
        /\ reads' = reads + 1
        /\ UNCHANGED <<drives, firmware, bda_disk_count, drive, part, hdd_indices, optical_indices, consumed_bda_disks, block, visited, volPc>>

VolNext ==
    \/ volPc = "start" /\ \E ds \in Drives, fw \in {"bios", "uefi"}, n \in 0..1 : PowerUp(ds, fw, n)
    \/ NextDriveBios \/ NextDriveUefi
    \/ NextPart \/ Indexed
    \/ \E b \in DOMAIN volume_index : volume_iterate_parts(b)
    \/ \E i \in DOMAIN volume_index : \E loc \in 0..(volume_index[i].sect_count * volume_index[i].size), n \in {1, MaxRead} : ReadVolume(i, loc, n)

VolSpec == VolInit /\ [][VolNext]_volVars
-----------------------------------------------------------------------------
\* A successful read returns what the drive has there, through whatever the cache
\* held before, on a drive without unreadable sectors (cache_block, volume_read).
ReadReturnsTheDisk ==
    lastRead.ok /\ drives[volume_index[lastRead.vol].drive].bad = {} =>
      LET v == volume_index[lastRead.vol]
      IN  \A k \in DOMAIN lastRead.data :
              v.first_sect + lastRead.loc + k <= drives[v.drive].len * v.size => lastRead.data[k] = v.first_sect + lastRead.loc + k

\* A read of a volume on a drive of 512-byte sectors stays inside it (volume_read).
ReadStaysInTheVolume ==
    lastRead.ok /\ volume_index[lastRead.vol].size = 1 =>
      lastRead.loc + Len(lastRead.data) <= volume_index[lastRead.vol].sect_count

\* The sector size found by experiment is the drive's, whatever its first sector
\* holds (detect_sector_size).
SectorSizeIsDetected ==
    \A i \in DOMAIN volume_index : volume_index[i].size = drives[volume_index[i].drive].size

\* No two volumes have the same drive and partition number, by which
\* configuration paths name them (volume_get_by_coord).
CoordinatesAreUnique ==
    \A i, j \in DOMAIN volume_index :
        i # j => <<volume_index[i].is_optical, volume_index[i].index, volume_index[i].partition>> #
                 <<volume_index[j].is_optical, volume_index[j].index, volume_index[j].partition>>

\* Going over the partitions of a drive ends, and meets each of its volumes once.
IterationMeetsEveryVolume ==
    visited # <<>> =>
      /\ visited[2].ended
      /\ Len(visited[2].seen) = Cardinality(ToSet(visited[2].seen))
      /\ ToSet(visited[2].seen) = {i \in DOMAIN volume_index : volume_index[i].drive = volume_index[visited[1]].drive}

\* The logical partitions listed belong to different boot records: a chain that
\* turns back ends the table (mbr_get_logical_part).
LogicalPartitionsAdvance ==
    \A i, j \in DOMAIN volume_index :
        /\ i < j /\ volume_index[i].drive = volume_index[j].drive
        /\ volume_index[i].partition > 4 /\ volume_index[j].partition > 4
        /\ drives[volume_index[i].drive].table.kind = "mbr"
        => volume_index[i].first_sect # volume_index[j].first_sect

\* The volume index is the disks' partitions, each once, and reading a volume reads its disk.
VolumesAreTheDisks ==
    /\ ReadReturnsTheDisk
    /\ ReadStaysInTheVolume
    /\ SectorSizeIsDetected
    /\ CoordinatesAreUnique
    /\ IterationMeetsEveryVolume
    /\ LogicalPartitionsAdvance
=============================================================================
