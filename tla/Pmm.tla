-------------------------------- MODULE Pmm --------------------------------
(***************************************************************************)
(* The physical frame allocator of kernel/pmm.c: pmm_init builds the       *)
(* ledger and the buddy free lists from the boot memory map, pmm_alloc_ex  *)
(* takes a block of 2^order frames, pmm_free_ex gives one back, and        *)
(* pmm_transfer changes a frame's owner.  Every operation runs under       *)
(* pmm_lock, so it is one action.                                          *)
(*                                                                         *)
(* Addresses are numbers of units, PAGE_SIZE units to the frame, so that   *)
(* the alignment arithmetic of pmm_init is the code's.  A free list is a   *)
(* set: which of its blocks pmm_buddy_pop returns is left open.  The       *)
(* contents of a frame, zeroed on every allocation and every free, and the *)
(* epoch and state tags that choose how it is zeroed, are left out.        *)
(***************************************************************************)
EXTENDS Integers, Sequences, FiniteSets, FiniteSetsExt, Functions

CONSTANTS
    PAGE_SIZE,                 \* units in a frame
    UINT64_MAX,                \* the largest address
    META_SIZE,                 \* sizeof(struct frame_metadata)
    PMM_BUDDY_MAX_ORDER,
    PMM_DMA_FRAMES,            \* PMM_DMA_LIMIT_BYTES, in frames
    PMM_NORMAL_FRAMES,         \* PMM_HIGH_LIMIT_BYTES, in frames
    PMM_MIN_FREE_FRAMES,
    PMM_MAX_QUARANTINE_PERCENT,
    PmmMaps,                   \* the memory maps the boot loader may hand over
    PmmOwners                  \* owner tokens

VARIABLES
    pmmPhase,    \* "boot", "up", or "panic" after pmm_fail_closed
    pmmMap,      \* the memory map received
    pmmTotal,    \* total_frames
    pmmLedger,   \* the frames that hold the bitmap and the metadata
    pmmUsed,     \* the frames whose bit in the bitmap is set
    pmmFlags,    \* metadata[].flags: HEAD bit and order
    pmmOwner,    \* metadata[].owner_token, 0 for none
    pmmLists,    \* buddy_free_heads[zone][order] and the chain behind it
    pmmFree,     \* free_frames
    pmmHeld      \* the blocks callers hold: <<first frame, order>>

pmmVars == <<pmmPhase, pmmMap, pmmTotal, pmmLedger, pmmUsed, pmmFlags, pmmOwner,
             pmmLists, pmmFree, pmmHeld>>

PmmZones == {"DMA", "NORMAL", "HIGH"}
PmmOrders == 0..PMM_BUDDY_MAX_ORDER
NoFlags == [head |-> FALSE, order |-> 0]

-----------------------------------------------------------------------------
(* Arithmetic of addresses and blocks.                                      *)

align_up_u64(v, a) ==
    LET rem == v % a IN
    IF rem = 0 THEN v ELSE IF v > UINT64_MAX - (a - rem) THEN UINT64_MAX ELSE v + (a - rem)

align_down_u64(v, a) == v - (v % a)

u64_percent(part, total) == IF total = 0 THEN 0 ELSE (part * 100) \div total

pmm_zone_from_frame(f) ==
    IF f < PMM_DMA_FRAMES THEN "DMA" ELSE IF f < PMM_NORMAL_FRAMES THEN "NORMAL" ELSE "HIGH"

pmm_zone_limit_frame(zone, total) ==
    CASE zone = "DMA" -> Min({PMM_DMA_FRAMES, total})
      [] zone = "NORMAL" -> Min({PMM_NORMAL_FRAMES, total})
      [] OTHER -> total

pmm_block_pages(order) == 2 ^ order
Block(idx, order) == idx .. idx + pmm_block_pages(order) - 1
pmm_block_fits_zone(idx, order, zone, total) ==
    idx + pmm_block_pages(order) <= pmm_zone_limit_frame(zone, total)

\* The block of that order that idx lies in.
BlockBase(idx, order) == idx - (idx % pmm_block_pages(order))

\* idx ^ pmm_block_pages(order), for an idx aligned to the order.
BuddyOf(idx, order) ==
    IF (idx \div pmm_block_pages(order)) % 2 = 0
    THEN idx + pmm_block_pages(order) ELSE idx - pmm_block_pages(order)

-----------------------------------------------------------------------------
(* pmm_init.                                                                *)

Usable(map) == SelectSeq(map, LAMBDA e : e.type = "USABLE")
RegionStart(e) == align_up_u64(e.base, PAGE_SIZE)
RegionEnd(e) == align_down_u64(e.base + e.length, PAGE_SIZE)
HasFrames(e) == RegionStart(e) # UINT64_MAX /\ RegionEnd(e) > RegionStart(e)

MaxAddress(map) ==
    Max({0} \cup {e.base + e.length :
                    e \in {x \in Range(map) : x.length # 0 /\ x.type \in {"USABLE", "RECLAIMABLE"}}})

LedgerUnits(total) == align_up_u64(((total + 7) \div 8) + total * META_SIZE, PAGE_SIZE)

InLedger(f, phys, needed) == phys <= f * PAGE_SIZE /\ f * PAGE_SIZE < phys + needed

\* The usable regions, by position in the map, that can hold the ledger.
LedgerRegions(map, needed) ==
    {i \in DOMAIN map : /\ map[i].type = "USABLE" /\ map[i].length # 0 /\ HasFrames(map[i])
                        /\ RegionEnd(map[i]) - RegionStart(map[i]) >= needed}

FramesOf(e) == {f \in 0..(UINT64_MAX \div PAGE_SIZE) :
                  RegionStart(e) <= f * PAGE_SIZE /\ f * PAGE_SIZE < RegionEnd(e)}

\* The largest block pmm_buddy_init_from_free_frames starts at a free frame.
BestOrder(idx, used, total) ==
    LET zone == pmm_zone_from_frame(idx)
        Grows(o) == /\ idx % pmm_block_pages(o) = 0
                    /\ idx + pmm_block_pages(o) <= total
                    /\ pmm_block_fits_zone(idx, o, zone, total)
                    /\ Block(idx, o) \cap used = {}
    IN Max({o \in PmmOrders : \A k \in 1..o : Grows(k)})

\* The greedy left-to-right scan: the heads it pushes, from a frame on.
HeadsFrom(used, total) ==
    LET scan[idx \in 0..(total + pmm_block_pages(PMM_BUDDY_MAX_ORDER))] ==
          IF idx >= total THEN {}
          ELSE IF idx \in used THEN scan[idx + 1]
          ELSE LET o == BestOrder(idx, used, total)
               IN {<<idx, o>>} \cup scan[idx + pmm_block_pages(o)]
    IN scan[0]

pmm_buddy_init_from_free_frames(used, total) ==
    LET heads == HeadsFrom(used, total) IN
    [lists |-> [z \in PmmZones |-> [o \in PmmOrders |->
                  {f \in 0..total - 1 : <<f, o>> \in heads /\ pmm_zone_from_frame(f) = z}]],
     flags |-> [f \in 0..total - 1 |->
                  IF \E o \in PmmOrders : <<f, o>> \in heads
                  THEN [head |-> TRUE, order |-> CHOOSE o \in PmmOrders : <<f, o>> \in heads]
                  ELSE NoFlags]]

PmmInit ==
    /\ pmmPhase = "boot" /\ pmmMap = <<>> /\ pmmTotal = 0 /\ pmmLedger = {}
    /\ pmmUsed = {} /\ pmmFlags = <<>> /\ pmmOwner = <<>>
    /\ pmmLists = [z \in PmmZones |-> [o \in PmmOrders |-> {}]]
    /\ pmmFree = 0 /\ pmmHeld = {}

\* Fails closed, in the code's order, or sets up the ledger and the lists.
pmm_init(map) ==
    LET total == MaxAddress(map) \div PAGE_SIZE
        needed == LedgerUnits(total)
        regions == LedgerRegions(map, needed)
        overflows == \E e \in Range(map) : e.length # 0 /\ e.base > UINT64_MAX - e.length
    IN /\ pmmPhase = "boot"
       /\ pmmMap' = map
       /\ IF overflows \/ total = 0 \/ needed = UINT64_MAX \/ regions = {}
          THEN pmmPhase' = "panic" /\ UNCHANGED <<pmmTotal, pmmLedger, pmmUsed, pmmFlags, pmmOwner,
                                                  pmmLists, pmmFree, pmmHeld>>
          ELSE LET phys == RegionStart(map[Min(regions)])
                   usable == {e \in Range(Usable(map)) : HasFrames(e)}
                   candidates == UNION {FramesOf(e) : e \in usable}
                   taken == {f \in candidates : ~InLedger(f, phys, needed)}
                   free == taken \cap 0..total - 1
                   trimmed(e) == (RegionStart(e) - e.base) \div PAGE_SIZE
                                   + (e.base + e.length - RegionEnd(e)) \div PAGE_SIZE
                   quarantined == Cardinality(taken \ (0..total - 1))
                                    + MapThenSumSet(trimmed, usable)
                   buddy == pmm_buddy_init_from_free_frames((0..total - 1) \ free, total)
               IN /\ pmmTotal' = total /\ pmmLedger' = (phys \div PAGE_SIZE)..((phys + needed) \div PAGE_SIZE) - 1
                  /\ pmmUsed' = (0..total - 1) \ free
                  /\ pmmFlags' = buddy.flags /\ pmmLists' = buddy.lists
                  /\ pmmOwner' = [f \in 0..total - 1 |-> 0]
                  /\ pmmFree' = Cardinality(free) /\ pmmHeld' = {}
                  /\ pmmPhase' = IF \/ Cardinality(free) < PMM_MIN_FREE_FRAMES
                                    \/ u64_percent(quarantined, Cardinality(candidates))
                                         > PMM_MAX_QUARANTINE_PERCENT
                                 THEN "panic" ELSE "up"

-----------------------------------------------------------------------------
(* Allocation.                                                              *)

ZoneTry(preferred) ==
    IF preferred = "ANY" THEN <<"NORMAL", "DMA", "HIGH">> ELSE <<preferred>>

Servable(zone, order) == {o \in PmmOrders : o >= order /\ pmmLists[zone][o] # {}}

\* The upper halves a split of a block of order cur pushes on its way down.
SplitOff(idx, cur, order) == {<<idx + pmm_block_pages(o), o>> : o \in order..cur - 1}

AllocFlags_Fault(idx, order, split) ==
    [f \in DOMAIN pmmFlags |->
       IF \E b \in split : b[1] = f
       THEN [head |-> TRUE, order |-> (CHOOSE b \in split : b[1] = f)[2]] ELSE pmmFlags[f]]

AllocFlags(idx, order, split) ==
    [f \in DOMAIN pmmFlags |->
       CASE f = idx -> [head |-> FALSE, order |-> order]
         [] f \in Block(idx, order) \ {idx} -> NoFlags
         [] \E b \in split : b[1] = f ->
              [head |-> TRUE, order |-> (CHOOSE b \in split : b[1] = f)[2]]
         [] OTHER -> pmmFlags[f]]

pmm_buddy_alloc_block(order, zone, idx, cur, owner) ==
    LET split == SplitOff(idx, cur, order) IN
    /\ pmmLists' = [pmmLists EXCEPT ![zone] = [o \in PmmOrders |->
                      (IF o = cur THEN @[o] \ {idx} ELSE @[o])
                        \cup {b[1] : b \in {x \in split : x[2] = o}}]]
    /\ pmmFlags' = AllocFlags(idx, order, split)
    /\ pmmUsed' = (pmmUsed \ UNION {Block(b[1], b[2]) : b \in split}) \cup Block(idx, order)
    /\ pmmFree' = pmmFree - pmm_block_pages(order)
    /\ pmmOwner' = [f \in DOMAIN pmmOwner |-> IF f \in Block(idx, order) THEN owner ELSE pmmOwner[f]]
    /\ pmmHeld' = pmmHeld \cup {<<idx, order>>}

\* An order beyond the maximum, an unverified request or exhausted zones
\* change nothing and return 0.
pmm_alloc_ex(order, preferred, owner) ==
    /\ pmmPhase = "up" /\ order <= PMM_BUDDY_MAX_ORDER
    /\ \E zi \in DOMAIN ZoneTry(preferred) :
         LET zone == ZoneTry(preferred)[zi] IN
         /\ \A zj \in 1..zi - 1 : Servable(ZoneTry(preferred)[zj], order) = {}
         /\ Servable(zone, order) # {}
         /\ LET cur == Min(Servable(zone, order)) IN
              \E idx \in pmmLists[zone][cur] : pmm_buddy_alloc_block(order, zone, idx, cur, owner)
    /\ UNCHANGED <<pmmPhase, pmmMap, pmmTotal, pmmLedger>>

-----------------------------------------------------------------------------
(* Freeing and transfer.                                                    *)

\* The free block of that order that the block of idx merges with, if any.
Mergeable(idx, o, zone) ==
    LET b == BuddyOf(BlockBase(idx, o), o) IN
    /\ b < pmmTotal
    /\ pmm_block_fits_zone(b, o, zone, pmmTotal)
    /\ pmmFlags[b] = [head |-> TRUE, order |-> o]
    /\ b \notin pmmUsed
    /\ b \in pmmLists[zone][o]

MergedOrder(idx, order, zone) ==
    Min({o \in order..PMM_BUDDY_MAX_ORDER : o = PMM_BUDDY_MAX_ORDER \/ ~Mergeable(idx, o, zone)})

pmm_buddy_free_block(idx, order) ==
    LET zone == pmm_zone_from_frame(idx)
        top == MergedOrder(idx, order, zone)
        eaten == {BuddyOf(BlockBase(idx, o), o) : o \in order..top - 1}
        base == BlockBase(idx, top)
    IN /\ pmmUsed' = pmmUsed \ Block(idx, order)
       /\ pmmFree' = pmmFree + pmm_block_pages(order)
       /\ pmmLists' = [pmmLists EXCEPT ![zone] =
                         [o \in PmmOrders |-> (@[o] \ eaten) \cup (IF o = top THEN {base} ELSE {})]]
       /\ pmmFlags' = [f \in DOMAIN pmmFlags |->
                         CASE f = base -> [head |-> TRUE, order |-> top]
                           [] f \in eaten \ {base} -> [pmmFlags[f] EXCEPT !.head = FALSE]
                           [] f \in Block(idx, order) \ {base} -> NoFlags
                           [] OTHER -> pmmFlags[f]]

\* A caller frees a block it holds with the order it asked for.
pmm_free_ex(idx, order) ==
    /\ pmmPhase = "up" /\ <<idx, order>> \in pmmHeld
    /\ idx < pmmTotal /\ order <= PMM_BUDDY_MAX_ORDER
    /\ pmmOwner' = [f \in DOMAIN pmmOwner |-> IF f \in Block(idx, order) THEN 0 ELSE pmmOwner[f]]
    /\ pmm_buddy_free_block(idx, order)
    /\ pmmHeld' = pmmHeld \ {<<idx, order>>}
    /\ UNCHANGED <<pmmPhase, pmmMap, pmmTotal, pmmLedger>>

\* Refused for a frame outside memory or whose bit is clear.
pmm_transfer(idx, owner) ==
    /\ pmmPhase = "up" /\ idx < pmmTotal /\ idx \in pmmUsed
    /\ pmmOwner' = [pmmOwner EXCEPT ![idx] = owner]
    /\ UNCHANGED <<pmmPhase, pmmMap, pmmTotal, pmmLedger, pmmUsed, pmmFlags, pmmLists, pmmFree, pmmHeld>>

PmmNext ==
    \/ \E map \in PmmMaps : pmm_init(map)
    \/ \E order \in PmmOrders, zone \in PmmZones \cup {"ANY"}, owner \in PmmOwners :
         pmm_alloc_ex(order, zone, owner)
    \/ \E b \in pmmHeld : pmm_free_ex(b[1], b[2])
    \/ \E b \in pmmHeld, owner \in PmmOwners : pmm_transfer(b[1], owner)

-----------------------------------------------------------------------------
(* Properties.                                                              *)

FreeBlocks == {<<z, o, f>> \in PmmZones \X PmmOrders \X (0..pmmTotal - 1) : f \in pmmLists[z][o]}
FramesOnLists == UNION {Block(b[3], b[2]) : b \in FreeBlocks}

\* The free lists of pmm.c partition the frames whose bitmap bit is clear:
\* blocks are aligned, stay inside their zone and share no frame, and the
\* frames pmm_stats counts as free are exactly the frames on the lists, after
\* any splits and merges.
BuddyListsExact ==
    /\ \A b \in FreeBlocks :
         /\ b[3] % pmm_block_pages(b[2]) = 0
         /\ \A f \in Block(b[3], b[2]) : f < pmmTotal /\ pmm_zone_from_frame(f) = b[1]
    /\ FramesOnLists = (0..pmmTotal - 1) \ pmmUsed
    /\ MapThenSumSet(LAMBDA b : pmm_block_pages(b[2]), FreeBlocks) = pmmFree
    /\ pmmFree = Cardinality(FramesOnLists)

\* A frame carries the HEAD flag of an order exactly while the block it heads
\* is on the list of that order: pmm_buddy_pop leaves the flag behind and
\* pmm_free_ex wipes flags before merging, so a stale flag would let
\* pmm_buddy_free_block merge with a block that is not free.
HeadFlagsExact ==
    \A f \in DOMAIN pmmFlags, o \in PmmOrders :
      (pmmFlags[f] = [head |-> TRUE, order |-> o]) <=> f \in pmmLists[pmm_zone_from_frame(f)][o]

\* Blocks handed to callers are disjoint from each other, from the lists and
\* from the ledger, and with the ledger and the unusable frames they are all
\* the used frames: no allocation is lost and none is given out twice.  The
\* frames with an owner are exactly those of the blocks held.
HeldBlocksDisjoint ==
    pmmPhase = "up" =>
      /\ \A a, b \in pmmHeld : a # b => Block(a[1], a[2]) \cap Block(b[1], b[2]) = {}
      /\ \A a \in pmmHeld : /\ Block(a[1], a[2]) \subseteq pmmUsed
                            /\ Block(a[1], a[2]) \cap pmmLedger = {}
      /\ {f \in DOMAIN pmmOwner : pmmOwner[f] # 0} = UNION {Block(a[1], a[2]) : a \in pmmHeld}
      /\ \A f \in pmmUsed \ UNION {Block(a[1], a[2]) : a \in pmmHeld} :
           f \in pmmLedger \/ ~\E e \in Range(Usable(pmmMap)) : f \in FramesOf(e)

\* Merging loses nothing: no two free buddies stay apart, so once every block
\* is back the free lists are the ones pmm_init built.
FullyCoalesced ==
    /\ \A b \in FreeBlocks :
         b[2] < PMM_BUDDY_MAX_ORDER => BuddyOf(b[3], b[2]) \notin pmmLists[b[1]][b[2]]
    /\ pmmPhase = "up" /\ pmmHeld = {} =>
         pmmLists = pmm_buddy_init_from_free_frames(pmmUsed, pmmTotal).lists

\* Every frame is accounted for once, through any sequence of splits and merges: on the free
\* lists, under the flags, held by a caller, or merged with its buddy (pmm_alloc_ex,
\* pmm_free_ex).
FramesAreAccounted ==
    /\ BuddyListsExact
    /\ HeadFlagsExact
    /\ HeldBlocksDisjoint
    /\ FullyCoalesced
=============================================================================
