-------------------------------- MODULE Slab --------------------------------
(***************************************************************************)
(* The object allocator of kernel/slab.c and the size classes of           *)
(* kernel/kmalloc.c above it.  A slab is one page of equal objects, bound  *)
(* to the cache and to the operating mode it was allocated under; kmalloc  *)
(* sends a request to a bucket cache or, when it is too large, to a block  *)
(* of frames with a header of its own, and kfree tells the two apart by    *)
(* the magic number at the start of the page.  Every operation runs under  *)
(* the lock of its cache, so it is one action.                             *)
(*                                                                         *)
(* The lists are sets and the slot search starts anywhere: which slab of a *)
(* list, and which free slot of it, is used is left open.  Scrubbing,      *)
(* poisoning and the redzone canary change only contents, and are left out.*)
(***************************************************************************)
EXTENDS Integers, Sequences, FiniteSets, FiniteSetsExt, Functions

CONSTANTS
    SlabPages,        \* pages the frame allocator can hand out
    SlabCaches,       \* the caches on global_cache_list
    SlabModes,        \* operating modes
    MaxObjects,       \* [SlabCaches -> Nat]: max_objects of a slab of the cache
    ModeMask,         \* [SlabCaches -> SUBSET SlabModes]: policy.mode_mask
    MinPartial,       \* policy.min_partial_slabs
    MaxModeSwitches,  \* bound on mode switches
    KmallocSizes,     \* request sizes
    MaxLarge          \* bound on kmalloc_large blocks held

VARIABLES
    slabPage,     \* what each page holds
    slabTotals,   \* [cache -> [objects, pages]]: total_objects, total_pages
    slabMode,     \* mode_get_current()
    slabLive,     \* what callers hold: <<page, slot, mode at allocation>>
    slabScoured,  \* caches slab_annihilate has been applied to
    slabSwitches

slabVars == <<slabPage, slabTotals, slabMode, slabLive, slabScoured, slabSwitches>>

EmptyPage == [magic |-> "none"]

SlabInit ==
    /\ slabPage = [p \in SlabPages |-> EmptyPage]
    /\ slabTotals = [c \in SlabCaches |-> [objects |-> 0, pages |-> 0]]
    /\ slabMode = CHOOSE m \in SlabModes : TRUE
    /\ slabLive = {} /\ slabScoured = {} /\ slabSwitches = 0

SlabsOf(c, mode, list) ==
    {p \in SlabPages : /\ slabPage[p].magic = "SLAB" /\ slabPage[p].cache = c
                       /\ slabPage[p].mode = mode /\ slabPage[p].list = list}

UnusedPages == {p \in SlabPages : slabPage[p].magic = "none"}

\* slab_allocate_page: a page of the frame allocator, coloured for the mode.
slab_allocate_page(c, mode) ==
    [magic |-> "SLAB", cache |-> c, mode |-> mode, list |-> "partial", used |-> {}]

\* The slab slab_alloc uses: the partial list, then the free list, then a new page.
SourceOf(c, mode) ==
    IF SlabsOf(c, mode, "partial") # {} THEN SlabsOf(c, mode, "partial")
    ELSE IF SlabsOf(c, mode, "free") # {} THEN SlabsOf(c, mode, "free")
    ELSE UnusedPages

\* Denied by policy, or without a page, the request changes no list.
slab_alloc(c) ==
    /\ slabMode \in ModeMask[c]
    /\ \E p \in SourceOf(c, slabMode) :
         LET new == slabPage[p].magic = "none"
             s == IF new THEN slab_allocate_page(c, slabMode) ELSE slabPage[p]
         IN \E slot \in (0..MaxObjects[c] - 1) \ s.used :
              LET used == s.used \cup {slot} IN
              /\ slabPage' = [slabPage EXCEPT ![p] = [s EXCEPT !.used = used,
                                !.list = IF Cardinality(used) = MaxObjects[c] THEN "full" ELSE "partial"]]
              /\ slabTotals' = [slabTotals EXCEPT ![c].objects = @ + 1,
                                                  ![c].pages = IF new THEN @ + 1 ELSE @]
              /\ slabLive' = slabLive \cup {<<p, slot, slabMode>>}
    /\ UNCHANGED <<slabMode, slabScoured, slabSwitches>>

\* Where a slab goes when an object of it has been freed: it leaves the full
\* list; when it is empty it is kept on the free list of its own mode if that
\* list is short, else its page goes back to the frame allocator.
AfterFree_KeepsList(s, used) ==
    IF used # {} THEN [s EXCEPT !.used = used]
    ELSE IF MinPartial > 0 /\ Cardinality(SlabsOf(s.cache, s.mode, "free")) < MinPartial
    THEN [s EXCEPT !.used = {}, !.list = "free"]
    ELSE EmptyPage

AfterFree(s, used) ==
    IF used # {} THEN [s EXCEPT !.used = used, !.list = "partial"]
    ELSE IF MinPartial > 0 /\ Cardinality(SlabsOf(s.cache, s.mode, "free")) < MinPartial
    THEN [s EXCEPT !.used = {}, !.list = "free"]
    ELSE EmptyPage

slab_free(c, p, slot) ==
    LET s == slabPage[p]
        after == AfterFree(s, s.used \ {slot})
    IN /\ slabPage' = [slabPage EXCEPT ![p] = after]
       /\ slabTotals' = [slabTotals EXCEPT
            ![c].objects = IF @ > 0 THEN @ - 1 ELSE 0,
            ![c].pages = IF after = EmptyPage /\ @ > 0 THEN @ - 1 ELSE @]

\* slab_annihilate: every slab of the cache and mode goes, live objects and
\* all.  The page is zeroed before its in_use_count is read (caches that scrub,
\* which is every cache the kernel makes), so total_objects keeps its value.
slab_annihilate(c, mode) ==
    LET doomed == {p \in SlabPages : /\ slabPage[p].magic = "SLAB" /\ slabPage[p].cache = c
                                     /\ slabPage[p].mode = mode}
    IN /\ c \notin slabScoured
       /\ slabPage' = [p \in SlabPages |-> IF p \in doomed THEN EmptyPage ELSE slabPage[p]]
       /\ slabTotals' = [slabTotals EXCEPT ![c].pages = Max({0, @ - Cardinality(doomed)})]
       /\ slabLive' = {o \in slabLive : o[1] \notin doomed}
       /\ slabScoured' = slabScoured \cup {c}
       /\ UNCHANGED <<slabMode, slabSwitches>>

-----------------------------------------------------------------------------
(* kmalloc: a block of frames of its own for what no bucket holds.          *)

kmalloc_large ==
    /\ Cardinality({o \in slabLive : slabPage[o[1]].magic = "KMLG"}) < MaxLarge
    /\ \E p \in UnusedPages :
         /\ slabPage' = [slabPage EXCEPT ![p] = [magic |-> "KMLG"]]
         /\ slabLive' = slabLive \cup {<<p, 0, slabMode>>}
    /\ UNCHANGED <<slabTotals, slabMode, slabScoured, slabSwitches>>

\* kfree, by the magic of the page the pointer lies in; a page with neither
\* magic is left alone.
kfree(o) ==
    /\ o \in slabLive
    /\ slabLive' = slabLive \ {o}
    /\ \/ /\ slabPage[o[1]].magic = "SLAB"
          /\ slab_free(slabPage[o[1]].cache, o[1], o[2])
       \/ /\ slabPage[o[1]].magic = "KMLG"
          /\ slabPage' = [slabPage EXCEPT ![o[1]] = EmptyPage]
          /\ UNCHANGED slabTotals
    /\ UNCHANGED <<slabMode, slabScoured, slabSwitches>>

\* The mode manager switches modes between two calls.
SlabModeSwitch(m) ==
    /\ m # slabMode /\ slabSwitches < MaxModeSwitches
    /\ slabMode' = m /\ slabSwitches' = slabSwitches + 1
    /\ UNCHANGED <<slabPage, slabTotals, slabLive, slabScoured>>

SlabNext ==
    \/ \E c \in SlabCaches : slab_alloc(c)
    \/ \E o \in slabLive : kfree(o)
    \/ kmalloc_large
    \/ \E c \in SlabCaches, m \in SlabModes : slab_annihilate(c, m)
    \/ \E m \in SlabModes : SlabModeSwitch(m)

-----------------------------------------------------------------------------
(* The size classes, with the sizes of the source.                          *)

SLAB_HEADER == 72       \* sizeof(struct slab)
bucket_sizes == <<16, 32, 64, 128, 256, 512, 1024, 2048, 4032>>

RoundUp(size, align) == IF size % align = 0 THEN size ELSE (size + align) - (size % align)

\* slab_create_cache_ex: the object size of a cache, 0 when it is refused.
object_size(size, align, redzone) ==
    LET a == Max({align, 8})
        s == RoundUp(size, a)
        o == IF redzone THEN RoundUp(s + 8, a) ELSE s
    IN IF o + SLAB_HEADER > 4096 THEN 0 ELSE o

\* kmalloc's choice: the first bucket the size fits, 0 for kmalloc_large.
BucketFor(size) ==
    LET fits == {i \in DOMAIN bucket_sizes : size <= bucket_sizes[i]}
    IN IF fits = {} THEN 0 ELSE Min(fits)

pages_to_order(pages) == Min({o \in 0..31 : o = 31 \/ 2 ^ o >= pages})

LARGE_HEADER == 12      \* sizeof(kmalloc_large_header_t)
LargeOrder(size) == pages_to_order((LARGE_HEADER + size + 4096 - 1) \div 4096)

-----------------------------------------------------------------------------
(* Properties.                                                              *)

AllSlabs == {p \in SlabPages : slabPage[p].magic = "SLAB"}
LiveIn(p) == {o[2] : o \in {x \in slabLive : x[1] = p}}

\* The bitmap of a slab marks exactly the objects callers hold, and its list
\* follows from how many those are, so the checks of slab_alloc and slab_free
\* that end in a panic (no free slot in a partial slab, wrong cache, double
\* free) never fire for callers that free what they hold once.
SlabListsExact ==
    /\ \A p \in AllSlabs :
         LET s == slabPage[p] IN
         /\ s.used = LiveIn(p)
         /\ s.list = CASE s.used = {} -> "free"
                       [] Cardinality(s.used) = MaxObjects[s.cache] -> "full"
                       [] OTHER -> "partial"
    /\ \A o \in slabLive : slabPage[o[1]].magic # "none"

\* A page never mixes modes: every object a caller holds lies in a slab of the
\* mode that was current when it was allocated, whatever mode is current when
\* its neighbours come and go.
ModesNeverShareASlab ==
    \A o \in slabLive : slabPage[o[1]].magic = "SLAB" => slabPage[o[1]].mode = o[3]

\* A cache keeps at most MinPartial empty slabs for each mode; the others go
\* back to the frame allocator.
EmptySlabsAreBounded ==
    \A c \in SlabCaches, m \in SlabModes : Cardinality(SlabsOf(c, m, "free")) <= MinPartial

\* total_pages is the number of slabs, and total_objects the number of objects
\* held for a cache that was never annihilated (afterwards it only bounds it).
SlabTotalsExact ==
    \A c \in SlabCaches :
      LET mine == {p \in AllSlabs : slabPage[p].cache = c}
          held == Cardinality({o \in slabLive : o[1] \in mine})
      IN /\ slabTotals[c].pages = Cardinality(mine)
         /\ c \notin slabScoured => slabTotals[c].objects = held
         /\ slabTotals[c].objects >= held

\* What kmalloc returns holds what was asked for: the object of the chosen
\* bucket, or the block of kmalloc_large behind its header, is large enough,
\* and the block is the smallest power of two of pages that is.
KmallocFits ==
    slabSwitches = 0 /\ Cardinality(slabLive) = 1 =>
      \A size \in KmallocSizes :
        IF BucketFor(size) # 0
        THEN LET o == object_size(bucket_sizes[BucketFor(size)], 16, FALSE) IN o = 0 \/ o >= size
        ELSE /\ LARGE_HEADER + size <= 4096 * 2 ^ LargeOrder(size)
             /\ LargeOrder(size) > 0 => LARGE_HEADER + size > 4096 * 2 ^ (LargeOrder(size) - 1)

\* The slabs are what their callers make of them: bitmaps, lists, modes and totals follow every
\* allocation and free, and kmalloc's blocks hold what was asked (slab_alloc, slab_free, kmalloc).
SlabsAreExact ==
    /\ SlabListsExact
    /\ ModesNeverShareASlab
    /\ EmptySlabsAreBounded
    /\ SlabTotalsExact
    /\ KmallocFits
=============================================================================
