------------------------------ MODULE Memmap ------------------------------
(***************************************************************************)
(* The boot loader's memory map and the allocator that lives in it         *)
(* (limine/common/mm/pmm.s2.c, pmm.c): an array of ranges, each of one     *)
(* type, is read from the firmware, cleaned up by pmm_sanitise_entries     *)
(* after every change, carved by the allocation functions and finally      *)
(* handed to the kernel.  Addresses are small integers, PAGE units to the  *)
(* page; the array is a sequence, kept in the code's order.                *)
(***************************************************************************)
EXTENDS Naturals, Sequences, FiniteSets, SequencesExt

CONSTANTS PAGE,            \* 4096
          ADDR_SPACE,      \* 2^64: where address arithmetic overflows
          EBDA, LOW_TOP,   \* the extended BIOS data area and 1 MiB
          HIGH_TOP,        \* 4 GiB
          BSS_END,         \* end of the BIOS loader's own image
          memmap_max_entries,
          E820Maps, EfiMaps,   \* the firmware maps explored
          EfiImage, RECL_SIZE, FIRMWARE_CHUNKS, FIRMWARE_CHUNK,
          AllocSizes, AllocTypes, FixedRanges, MaxLive

VARIABLES memmap,          \* memmap[0 .. memmap_entries - 1]
          untouched,       \* untouched_memmap
          allocations_disallowed,
          conv_base,       \* the static "base" of conv_mem_alloc
          live,            \* allocations handed out and not freed
          firm,            \* what the firmware said
          owned,           \* pages obtained from AllocatePages (UEFI)
          mmPc             \* "firmware", "bios", "uefi", "handed", "raw", "released", "panic"

memmapVars == <<memmap, untouched, allocations_disallowed, conv_base, live, firm, owned, mmPc>>

Entry_(base, length, type) == [base |-> base, length |-> length, type |-> type]
Top(e) == (e.base + e.length) % ADDR_SPACE
Overflows(e) == e.base + e.length >= ADDR_SPACE
Bytes(e) == e.base .. (e.base + e.length - 1)
BytesOf(m, types) == UNION {Bytes(m[i]) : i \in {j \in DOMAIN m : m[j].type \in types}}

\* panic(): the result of an operation that does not return.
PANIC == <<Entry_(0, 0, "PANIC")>>

ALIGN_UP(x, a) == ((x + a - 1) \div a) * a
ALIGN_DOWN(x, a) == (x \div a) * a

\* m[i] = m[count - 1]; count--
SwapOut(m, i) == LET last == m[Len(m)] IN Front([m EXCEPT ![i] = last])

\* The entry e without the part that r covers; a range strictly inside is fatal.
Trimmed(e, r) ==
    LET inBase == r.base >= e.base /\ r.base < Top(e)
        top    == IF inBase THEN r.base ELSE Top(e)
        base   == IF Top(r) >= e.base /\ Top(r) < top THEN Top(r) ELSE e.base
    IN  IF e.type = "PANIC" THEN e
        ELSE IF inBase /\ Top(r) >= e.base /\ Top(r) < Top(e) THEN PANIC[1]
        ELSE [e EXCEPT !.base = base, !.length = (ADDR_SPACE + top - base) % ADDR_SPACE]

Aligned(e) ==
    LET base == ALIGN_UP(e.base, PAGE)
        left == e.length - (base - e.base)
    IN  [e EXCEPT !.base = base, !.length = ALIGN_DOWN(left, PAGE)]

align_entry(e) == e.length >= PAGE /\ Aligned(e).length > 0

RECURSIVE OverlapPass(_, _, _)
OverlapPass(m, i, align) ==
    IF i > Len(m) THEN m
    ELSE IF m[i].type # "USABLE" THEN OverlapPass(m, i + 1, align)
    ELSE LET e == FoldLeft(Trimmed, m[i], RemoveAt(m, i))
         IN  IF e.type = "PANIC" THEN PANIC
             ELSE IF e.length = 0 \/ (align /\ ~align_entry(e)) THEN OverlapPass(SwapOut(m, i), i, align)
             ELSE OverlapPass([m EXCEPT ![i] = IF align THEN Aligned(e) ELSE e], i + 1, align)

\* Usable memory below the first page is dropped unless the build keeps it.
RECURSIVE FirstPagePass(_, _, _)
FirstPagePass(m, i, keep) ==
    IF i > Len(m) THEN m
    ELSE IF m[i].type = "USABLE" /\ ~keep /\ m[i].base < PAGE
         THEN IF Overflows(m[i]) \/ Top(m[i]) <= PAGE THEN FirstPagePass(SwapOut(m, i), i, keep)
              ELSE FirstPagePass([m EXCEPT ![i].base = PAGE, ![i].length = @ - (PAGE - m[i].base)], i + 1, keep)
         ELSE IF m[i].type = "USABLE" /\ m[i].length = 0 THEN FirstPagePass(SwapOut(m, i), i, keep)
         ELSE FirstPagePass(m, i + 1, keep)

\* One round of the selection sort: the first smallest base from p on comes to p.
Selected(m, p) ==
    LET min == CHOOSE i \in p..Len(m) :
                  /\ \A j \in p..Len(m) : m[i].base <= m[j].base
                  /\ \A j \in p..(i - 1) : m[i].base < m[j].base
    IN  [m EXCEPT ![p] = m[min], ![min] = m[p]]

SortPass(m) == FoldLeft(Selected, m, [p \in 1..(Len(m) - 1) |-> p])

RECURSIVE MergePass(_, _)
MergePass(m, i) ==
    IF i + 1 > Len(m) THEN m
    ELSE IF /\ m[i].type \in {"BOOTLOADER_RECLAIMABLE", "ACPI_TABLES", "USABLE"}
            /\ m[i + 1].type = m[i].type
            /\ m[i + 1].base = m[i].base + m[i].length
         THEN MergePass(RemoveAt([m EXCEPT ![i].length = @ + m[i + 1].length], i + 1), i)
         ELSE MergePass(m, i + 1)

Sanitised(m, trimmed, keep) ==
    IF m = PANIC \/ trimmed = PANIC THEN PANIC ELSE MergePass(SortPass(FirstPagePass(trimmed, 1, keep)), 1)

pmm_sanitise_entries(m, align, keep) == Sanitised(m, OverlapPass(m, 1, align), keep)

\* The part of entry e that a new range n leaves, as a sequence of entries.
Shaved(e, n) ==
    CASE n.base <= e.base /\ Top(n) < Top(e) /\ Top(n) > e.base ->
           <<[e EXCEPT !.base = Top(n), !.length = Top(e) - Top(n)]>>
      [] n.base > e.base /\ n.base < Top(e) /\ Top(n) >= Top(e) ->
           <<[e EXCEPT !.length = n.base - e.base]>>
      [] n.base > e.base /\ Top(n) < Top(e) ->
           <<[e EXCEPT !.length = n.base - e.base], Entry_(Top(n), Top(e) - Top(n), e.type)>>
      [] OTHER -> <<e>>

RECURSIVE CutOut(_, _, _)
CutOut(m, i, n) ==
    IF i > Len(m) THEN m
    ELSE IF Overflows(m[i]) THEN CutOut(m, i + 1, n)
    ELSE IF n.base <= m[i].base /\ Top(n) >= Top(m[i]) THEN CutOut(SwapOut(m, i), i, n)
    ELSE LET parts == Shaved(m[i], n)
         IN  IF Len(parts) = 2 /\ Len(m) >= memmap_max_entries THEN PANIC
             ELSE CutOut([m EXCEPT ![i] = parts[1]] \o Tail(parts), i + 1, n)

Added(cut, n) == IF Overflows(n) \/ cut = PANIC \/ Len(cut) >= memmap_max_entries THEN PANIC ELSE Append(cut, n)

pmm_new_entry(m, n) == Added(CutOut(m, 1, n), n)

\* Some entry (of the overlay type, when one is asked for) holds all of n.
Holds(m, n, overlay) ==
    \E i \in DOMAIN m : /\ overlay = "ANY" \/ m[i].type = overlay
                        /\ ~Overflows(m[i])
                        /\ n.base >= m[i].base /\ n.base < Top(m[i]) /\ Top(n) <= Top(m[i])

\* The array afterwards; ok says whether the call returned true.
memmap_alloc_range_in(m, n, overlay, do_panic, new_entry, keep) ==
    CASE m = PANIC -> [ok |-> FALSE, m |-> PANIC]
      [] m # PANIC /\ n.length = 0 -> [ok |-> TRUE, m |-> m]
      [] m # PANIC /\ n.length > 0 /\ ~Overflows(n) /\ (Holds(m, n, overlay) \/ new_entry) ->
           [ok |-> TRUE, m |-> pmm_sanitise_entries(pmm_new_entry(m, n), FALSE, keep)]
      [] OTHER -> [ok |-> FALSE, m |-> IF do_panic THEN PANIC ELSE m]

Keep == mmPc = "uefi"

\* The hole below 1 MiB is forgotten.
BelowEbda_Fault(e) == <<e>>

\* A usable firmware range loses what lies between the EBDA and 1 MiB.
BelowEbda(e) ==
    LET top == Top(e)
        low == e.base >= EBDA /\ e.base < LOW_TOP
        up  == IF low THEN Entry_(LOW_TOP, e.length - (LOW_TOP - e.base), e.type) ELSE e
    IN  CASE e.type # "USABLE" -> <<e>>
          [] e.type = "USABLE" /\ low /\ top <= LOW_TOP -> <<>>
          [] OTHER -> <<IF top > EBDA /\ top <= LOW_TOP THEN [up EXCEPT !.length = @ - (top - EBDA)] ELSE up>>

MemmapInit ==
    /\ memmap = <<>> /\ untouched = <<>> /\ allocations_disallowed = TRUE /\ conv_base = PAGE
    /\ live = {} /\ firm = <<>> /\ owned = {} /\ mmPc = "firmware"

\* The loader's own image, never freed.
BiosImage == Entry_(PAGE, ALIGN_UP(BSS_END, PAGE) - PAGE, "BOOTLOADER_RECLAIMABLE")
UefiImage == [EfiImage EXCEPT !.type = "BOOTLOADER_RECLAIMABLE"]

\* init_memmap() of the BIOS build.
init_memmap_bios(e820) ==
    LET copied == FlattenSeq([i \in DOMAIN e820 |-> BelowEbda(e820[i])])
        clean  == pmm_sanitise_entries(copied, FALSE, FALSE)
        own    == memmap_alloc_range_in(clean, BiosImage, "ANY", TRUE, FALSE, FALSE).m
    IN  /\ mmPc = "firmware"
        /\ firm' = e820
        /\ memmap' = pmm_sanitise_entries(own, FALSE, FALSE)
        /\ mmPc' = IF Len(e820) > memmap_max_entries \/ memmap' = PANIC THEN "panic" ELSE "bios"
        /\ allocations_disallowed' = FALSE
        /\ live' = {BiosImage}
        /\ UNCHANGED <<untouched, conv_base, owned>>

\* Where the top-down allocator places count bytes: the highest usable entry
\* that has room, below 4 GiB unless high allocations are allowed.
EntryTop(e, high) == IF Top(e) >= HIGH_TOP /\ ~high THEN HIGH_TOP ELSE Top(e)

Fits(e, count, alignment, high) ==
    /\ e.type = "USABLE"
    /\ e.base < EntryTop(e, high)
    /\ count <= EntryTop(e, high)
    /\ ALIGN_DOWN(EntryTop(e, high) - count, alignment) >= e.base

Placed(m, base, top, count, type, keep) ==
    [m |-> pmm_sanitise_entries(memmap_alloc_range_in(m, Entry_(base, top - base, type), "USABLE", TRUE, FALSE, keep).m, FALSE, keep),
     at |-> Entry_(base, count, type)]

ext_mem_alloc(m, bytes, type, alignment, high, keep) ==
    LET count == ALIGN_UP(bytes, alignment)
        fits  == {i \in DOMAIN m : Fits(m[i], count, alignment, high)}
        top   == EntryTop(m[CHOOSE k \in fits : \A j \in fits : j <= k], high)
    IN  IF m = PANIC \/ fits = {} THEN [m |-> PANIC, at |-> PANIC[1]]
        ELSE Placed(m, ALIGN_DOWN(top - count, alignment), top, count, type, keep)

EfiType(t) ==
    CASE t \in {"Loader", "BootServices"} -> "EFI_RECLAIMABLE"
      [] t = "AcpiReclaim" -> "ACPI_RECLAIMABLE"
      [] t = "AcpiNvs" -> "ACPI_NVS"
      [] t = "Conventional" -> "USABLE"
      [] OTHER -> "RESERVED"

AllPages == [e \in 1..(ADDR_SPACE \div PAGE) |-> (e - 1) * PAGE]
PagesIn(bytes) == SelectSeq(AllPages, LAMBDA p : p \in bytes)
Pages(m, types) == ToSet(PagesIn(BytesOf(m, types)))

\* memmap_alloc_range() for the pages the firmware refuses to hand over.
GiveUp(m, p) == memmap_alloc_range_in(m, Entry_(p, PAGE, "EFI_RECLAIMABLE"), "USABLE", TRUE, FALSE, TRUE).m

\* The firmware's map, with a chunk left to the firmware's own allocations.
FromFirmware(used) ==
    FoldLeft(LAMBDA m, k : ext_mem_alloc(m, FIRMWARE_CHUNK, "EFI_RECLAIMABLE", PAGE, FALSE, TRUE).m,
             pmm_sanitise_entries([i \in DOMAIN used |-> [used[i] EXCEPT !.type = EfiType(@)]], FALSE, TRUE),
             [k \in 1..FIRMWARE_CHUNKS |-> k])
WithImage(m) == pmm_sanitise_entries(memmap_alloc_range_in(m, UefiImage, "ANY", TRUE, TRUE, TRUE).m, FALSE, TRUE)

\* init_memmap() of the UEFI build; nth are the pages AllocatePages denies.
init_memmap_uefi(efi, nth) ==
    \E left \in {FromFirmware(SelectSeq(efi, LAMBDA e : e.length > 0))} :
    \E refused \in {Pages(left, {"USABLE"}) \cap nth} :
        /\ mmPc = "firmware"
        /\ firm' = efi
        /\ untouched' = FoldLeft(GiveUp, left, PagesIn(refused))
        /\ memmap' = ext_mem_alloc(WithImage(untouched'), RECL_SIZE, "BOOTLOADER_RECLAIMABLE", PAGE, FALSE, TRUE).m
        /\ mmPc' = IF memmap' = PANIC THEN "panic" ELSE "uefi"
        /\ owned' = IF left = PANIC THEN {} ELSE Pages(left, {"USABLE"}) \ refused
        /\ live' = {UefiImage}
        /\ allocations_disallowed' = FALSE
        /\ UNCHANGED conv_base

Running == mmPc \in {"bios", "uefi"} /\ ~allocations_disallowed

Settle(m, allocations) ==
    /\ memmap' = m
    /\ live' = allocations
    /\ mmPc' = IF m = PANIC THEN "panic" ELSE mmPc
    /\ UNCHANGED <<untouched, allocations_disallowed, firm, owned>>

ext_mem_alloc_type_aligned_mode(bytes, type, alignment, high) ==
    LET got == ext_mem_alloc(memmap, bytes, type, alignment, high, Keep)
    IN  /\ Running
        /\ Cardinality(live) < MaxLive
        /\ Settle(got.m, live \cup {got.at})
        /\ UNCHANGED conv_base

\* The first page run at or above the static cursor that is usable.
conv_mem_alloc(bytes) ==
    LET count == ALIGN_UP(bytes, PAGE)
        try(b) == memmap_alloc_range_in(memmap, Entry_(b, count, "BOOTLOADER_RECLAIMABLE"), "USABLE", FALSE, FALSE, Keep)
    IN  /\ Running
        /\ Cardinality(live) < MaxLive
        /\ \E good \in {{b \in {conv_base + k * PAGE : k \in 0..LOW_TOP} : b + count <= LOW_TOP /\ try(b).ok}} :
           \/ \E base \in good :
              /\ \A b \in good : base <= b
              /\ Settle(pmm_sanitise_entries(try(base).m, FALSE, Keep), live \cup {Entry_(base, count, "BOOTLOADER_RECLAIMABLE")})
              /\ conv_base' = base + count
           \/ /\ good = {}
              /\ Settle(PANIC, live)
              /\ UNCHANGED conv_base

\* memmap_alloc_range() at an address the caller chose: a protocol's load
\* address ("USABLE" overlay, no panic) or a range put over anything.
alloc_fixed(n, overlay, new_entry) ==
    LET got == memmap_alloc_range_in(memmap, n, overlay, FALSE, new_entry, Keep)
    IN  /\ Running
        /\ Cardinality(live) < MaxLive
        /\ Settle(got.m, IF got.ok THEN live \cup {n} ELSE live)
        /\ UNCHANGED conv_base

\* freadall(): a file already in loader memory changes type where it lies.
retype(a) ==
    LET file == [a EXCEPT !.type = "KERNEL_AND_MODULES"]
    IN  /\ Running
        /\ Settle(memmap_alloc_range_in(memmap, file, "ANY", TRUE, FALSE, Keep).m, (live \ {a}) \cup {file})
        /\ UNCHANGED conv_base

Freed(m, a) == memmap_alloc_range_in(m, Entry_(a.base, ALIGN_UP(a.length, PAGE), "USABLE"), "ANY", FALSE, TRUE, Keep).m

pmm_free(a) == Running /\ Settle(Freed(memmap, a), live \ {a}) /\ UNCHANGED conv_base

\* The block moves: allocate, copy, free the old one.
pmm_realloc(a, bytes) ==
    LET got == ext_mem_alloc(memmap, bytes, "BOOTLOADER_RECLAIMABLE", PAGE, FALSE, Keep)
    IN  /\ Running
        /\ Settle(IF got.m = PANIC THEN PANIC ELSE Freed(got.m, a), (live \ {a}) \cup {got.at})
        /\ UNCHANGED conv_base

\* The firmware's map when boot services end, page by page: what the loader
\* owns is loader memory, conventional pages left to the firmware are of type t.
FinalEfi(t) ==
    LET typeAt(p) == CHOOSE x \in {firm[i].type : i \in {j \in DOMAIN firm : p \in Bytes(firm[j])}} : TRUE
        order == PagesIn(UNION {Bytes(firm[i]) : i \in DOMAIN firm})
    IN  [k \in DOMAIN order |->
           Entry_(order[k], PAGE, IF order[k] \in owned THEN "Loader"
                                  ELSE IF typeAt(order[k]) = "Conventional" THEN t ELSE typeAt(order[k]))]

\* Everything the firmware still holds is given back as bootloader memory.
ReclaimedType_Fault(t, raw) == IF raw THEN "USABLE" ELSE "BOOTLOADER_RECLAIMABLE"

\* The type a firmware range gets when its EFI-reclaimable memory is given back.
ReclaimedType(t, raw) ==
    CASE t \in {"Loader", "BootServices"} -> IF raw THEN "USABLE" ELSE "BOOTLOADER_RECLAIMABLE"
      [] t = "Conventional" -> "USABLE"
      [] t = "AcpiReclaim" -> "ACPI_RECLAIMABLE"
      [] t = "AcpiNvs" -> "ACPI_NVS"
      [] OTHER -> "RESERVED"

Clipped(e, r) ==
    LET base == IF e.base < r.base THEN r.base ELSE e.base
        top  == IF Top(e) > Top(r) THEN Top(r) ELSE Top(e)
    IN  IF top > base THEN <<[e EXCEPT !.base = base, !.length = top - base]>> ELSE <<>>

pmm_reclaim_uefi_mem(m, efi, raw) ==
    LET recl   == SelectSeq(m, LAMBDA e : e.type = "EFI_RECLAIMABLE")
        holes  == FlattenSeq([k \in DOMAIN recl |-> FlattenSeq([i \in DOMAIN efi |-> Clipped(efi[i], recl[k])])])
        punch(x, h) == memmap_alloc_range_in(x, [h EXCEPT !.type = ReclaimedType(@, raw)], "ANY", TRUE, FALSE, TRUE).m
    IN  pmm_sanitise_entries(FoldLeft(punch, m, holes), FALSE, TRUE)

\* The map goes to the kernel; nothing may be allocated afterwards.
get_memmap(t) ==
    LET whole == IF mmPc = "uefi" THEN pmm_reclaim_uefi_mem(memmap, FinalEfi(t), FALSE) ELSE memmap
    IN  /\ mmPc \in {"bios", "uefi"}
        /\ memmap' = pmm_sanitise_entries(whole, TRUE, Keep)
        /\ mmPc' = IF memmap' = PANIC THEN "panic" ELSE "handed"
        /\ allocations_disallowed' = TRUE
        /\ firm' = IF mmPc = "uefi" THEN FinalEfi(t) ELSE firm
        /\ UNCHANGED <<untouched, conv_base, live, owned>>

\* The firmware's own map, for protocols that pass it on.
get_raw_memmap(t) ==
    /\ mmPc \in {"bios", "uefi"}
    /\ untouched' = IF mmPc = "bios" THEN firm ELSE pmm_reclaim_uefi_mem(untouched, FinalEfi(t), TRUE)
    /\ mmPc' = IF untouched' = PANIC THEN "panic" ELSE "raw"
    /\ allocations_disallowed' = (mmPc = "uefi")
    /\ firm' = IF mmPc = "uefi" THEN FinalEfi(t) ELSE firm
    /\ UNCHANGED <<memmap, conv_base, live, owned>>

\* Before another loader is started every page goes back with FreePages, which
\* fails, and ends the loader, for a page that was never obtained.
pmm_release_uefi_mem ==
    LET freed == Pages(untouched, {"USABLE", "BOOTLOADER_RECLAIMABLE"})
    IN  /\ mmPc = "uefi"
        /\ owned' = owned \ freed
        /\ mmPc' = IF freed \subseteq owned THEN "released" ELSE "panic"
        /\ allocations_disallowed' = TRUE
        /\ UNCHANGED <<memmap, untouched, conv_base, live, firm>>

RamTypes == {"USABLE", "BOOTLOADER_RECLAIMABLE", "KERNEL_AND_MODULES"} \cup (IF Keep THEN {"EFI_RECLAIMABLE"} ELSE {})

\* How many bytes of [base, top) an entry contributes.
OverlapSize(e, base, top) ==
    LET bottomIn == e.base >= base /\ e.base < top
        topIn    == Top(e) > base /\ Top(e) <= top
    IN  IF bottomIn \/ topIn THEN (IF topIn THEN Top(e) ELSE top) - (IF bottomIn THEN e.base ELSE base) ELSE 0

\* Is every byte of [base, top) backed by memory the loader may write?  The
\* entries' shares are added up until none is missing.
check_usable_memory(base, top) ==
    LET ram == {i \in DOMAIN memmap : memmap[i].type \in RamTypes}
    IN  \/ \E i \in ram : base >= memmap[i].base /\ base < Top(memmap[i]) /\ top <= Top(memmap[i])
        \/ MapThenSumSet(LAMBDA i : OverlapSize(memmap[i], base, top), ram) = top - base

MemmapNext ==
    \/ \E e820 \in E820Maps : init_memmap_bios(e820)
    \/ \E efi \in EfiMaps, nth \in SUBSET {4 * PAGE, 9 * PAGE} : init_memmap_uefi(efi, nth)
    \/ \E bytes \in AllocSizes, type \in AllocTypes, a \in {PAGE, 2 * PAGE}, high \in BOOLEAN :
          ext_mem_alloc_type_aligned_mode(bytes, type, a, high)
    \/ \E bytes \in AllocSizes : conv_mem_alloc(bytes)
    \/ \E f \in FixedRanges : alloc_fixed(f.range, f.overlay, f.new_entry)
    \/ \E a \in {b \in live \ {BiosImage, UefiImage} : b.type = "BOOTLOADER_RECLAIMABLE"} :
          retype(a) \/ pmm_free(a) \/ \E bytes \in AllocSizes : pmm_realloc(a, bytes)
    \/ \E t \in {"Conventional", "BootServices", "Runtime"} : get_memmap(t) \/ get_raw_memmap(t)
    \/ pmm_release_uefi_mem

MemmapSpec == MemmapInit /\ [][MemmapNext]_memmapVars
-----------------------------------------------------------------------------
Overlapping(e, f) == e.base < f.base + f.length /\ f.base < e.base + e.length

\* Between any two calls the map is sorted, and a usable or bootloader
\* reclaimable entry overlaps no other entry: what the kernel may use freely is
\* described once.  In the map the kernel gets, usable entries are also whole
\* pages (pmm_sanitise_entries, pmm_new_entry).
MapIsUnambiguous ==
    mmPc \in {"bios", "uefi", "handed"} =>
      /\ \A i \in DOMAIN memmap, j \in DOMAIN memmap : i < j =>
           /\ memmap[i].base <= memmap[j].base
           /\ {memmap[i].type, memmap[j].type} \cap {"USABLE", "BOOTLOADER_RECLAIMABLE"} # {}
                => ~Overlapping(memmap[i], memmap[j])
      /\ mmPc = "handed" =>
           \A i \in DOMAIN memmap : memmap[i].type = "USABLE" =>
             memmap[i].length > 0 /\ memmap[i].base % PAGE = 0 /\ memmap[i].length % PAGE = 0

\* What was allocated and not freed keeps its type in the map, byte for byte,
\* and no two allocations share a byte, through every later allocation, free,
\* reallocation, and the final cleanup (ext_mem_alloc_type_aligned_mode,
\* conv_mem_alloc, pmm_realloc, get_memmap).
AllocationsStayReserved ==
    mmPc \in {"bios", "uefi", "handed"} =>
      /\ \A a \in live : Bytes(a) \subseteq BytesOf(memmap, {a.type})
      /\ \A a, b \in live : a # b => ~Overlapping(a, b)

\* The bytes that the firmware offers for general use and no entry keeps;
\* under the BIOS, the hole from the EBDA to 1 MiB is not among them.
FirmwareRam ==
    LET ram == {"USABLE", "Conventional", "Loader", "BootServices"}
        keeps == BytesOf(firm, {firm[i].type : i \in DOMAIN firm} \ ram)
    IN  BytesOf(firm, ram) \ (keeps \cup (IF owned = {} THEN EBDA..(LOW_TOP - 1) ELSE {}))

\* No byte the firmware keeps (reserved, ACPI, runtime services) is ever
\* described as usable or as bootloader memory, before or after the firmware's
\* memory is reclaimed (init_memmap, pmm_reclaim_uefi_mem).
FirmwareMemoryIsNeverUsable ==
    /\ mmPc \in {"bios", "uefi", "handed"} => BytesOf(memmap, {"USABLE", "BOOTLOADER_RECLAIMABLE"}) \subseteq FirmwareRam
    /\ mmPc = "raw" /\ owned # {} => BytesOf(untouched, {"USABLE"}) \subseteq FirmwareRam

\* The test that the multiboot loader makes before it relocates a kernel says
\* yes exactly when every byte of the range is memory (check_usable_memory).
UsableCheckIsExact ==
    mmPc \in {"bios", "uefi"} =>
      \A base, top \in ToSet(AllPages) : base < top =>
        (check_usable_memory(base, top) <=> base..(top - 1) \subseteq BytesOf(memmap, RamTypes))

\* Releasing the loader's memory frees exactly the pages AllocatePages gave:
\* no FreePages fails, nothing stays behind (pmm_release_uefi_mem).
ReleaseIsExact == mmPc = "uefi" => Pages(untouched, {"USABLE", "BOOTLOADER_RECLAIMABLE"}) = owned

\* The memory map tells the truth: it is unambiguous, keeps what was allocated and never offers
\* what the firmware keeps, the loaders' test of it is exact, and releasing it frees just that.
MemoryMapIsSound ==
    /\ MapIsUnambiguous
    /\ AllocationsStayReserved
    /\ FirmwareMemoryIsNeverUsable
    /\ UsableCheckIsExact
    /\ ReleaseIsExact
=============================================================================
