------------------------------ MODULE Pagemap ------------------------------
(***************************************************************************)
(* The page tables the boot loader builds for a kernel: mapping with pages *)
(* of three sizes and splitting of large ones (limine/common/mm/vmm.c),    *)
(* and what is mapped where (build_pagemap(), build_identity_map() and     *)
(* get_hhdm_span_top() in limine/common/protos/limine.c).                  *)
(* Addresses count 4 KiB pages, on a machine where a table has FAN entries *)
(* and VA pages can be addressed; the upper half starts at VA / 2.         *)
(***************************************************************************)
EXTENDS Integers, Sequences, FiniteSets, FiniteSetsExt, SequencesExt

CONSTANTS FAN, VA, FOUR_GIB,
          Memmaps,           \* memory maps explored: sequences of [base, top, type]
          Framebuffers,      \* their framebuffers: sequences of such entries
          KernelRanges,      \* ranges of kernels: sequences of [base, length, x, w]
          PHYSICAL_BASE, VIRTUAL_BASE

VARIABLES memmap_, ranges, base_revision, nx,
          gib_pages, pat_supported,      \* what the processor has
          direct_map_offset,
          pt,            \* entry of each <<level, index>>
          last,          \* history: what was mapped last at each page
          at,            \* place in the current loop
          span_top,      \* hhdm_span_top
          pgPc           \* "start", "found", "kernel", "low", "entries", "fb", "switch", "identity", "ready", "panic"

pgVars == <<memmap_, ranges, base_revision, nx, gib_pages, pat_supported, direct_map_offset, pt, last, at, span_top, pgPc>>

Size[l \in 0..3] == IF l = 0 THEN 1 ELSE FAN * Size[l - 1]
Keys == UNION {{<<l, i>> : i \in 0..(VA \div Size[l] - 1)} : l \in 0..3}
None == [kind |-> "none", phys |-> 0, w |-> FALSE, nx |-> FALSE, fb |-> FALSE]
Table == [None EXCEPT !.kind = "table"]
PageFlags(w, x, f) == [kind |-> "page", phys |-> 0, w |-> w, nx |-> x, fb |-> f]
HALF == VA \div 2

\* new_pagemap(): an empty top level.
NewPagemap == [k \in Keys |-> None]

PgInit ==
    /\ memmap_ = <<>> /\ ranges = <<>> /\ base_revision = 0 /\ nx = FALSE /\ gib_pages = FALSE /\ pat_supported = FALSE
    /\ direct_map_offset = 0 /\ pt = <<>> /\ last = <<>> /\ at = 1 /\ span_top = 0 /\ pgPc = "start"

Below(k, l, i) == k[1] < l /\ (k[2] * Size[k[1]]) \div Size[l] = i


\* PT_TO_VMM_FLAGS() keeps the rights.
Recreated(old, offset) == [old EXCEPT !.phys = @ + offset]

\* get_next_level() for pages of level d: the table is there, or a new one is
\* allocated; a larger page is split into pages of level d.
get_next_level(p, l, i, d) ==
    IF p[<<l, i>>].kind = "table" THEN p
    ELSE [k \in Keys |->
            IF k = <<l, i>> THEN Table
            ELSE IF ~Below(k, l, i) THEN p[k]
            ELSE IF p[<<l, i>>].kind = "page" /\ k[1] > d THEN Table
            ELSE IF p[<<l, i>>].kind = "page" /\ k[1] = d THEN Recreated(p[<<l, i>>], k[2] * Size[d] - i * Size[l])
            ELSE IF k[1] = l - 1 THEN None ELSE p[k]]

\* Splitting a large page with the write-combining type finds bit 12 of its
\* entry in the address: "Unexpected page table entry address".
Unexpected(p, virt, d) ==
    \E l \in (d + 1)..2 : LET e == p[<<l, virt \div Size[l]>>]
                          IN  /\ e.kind = "page" /\ e.fb
                              /\ \A m \in (l + 1)..3 : p[<<m, virt \div Size[m]>>].kind = "table"

\* map_page() at level d of the tables.
PutPage(p, virt, phys, f, d) ==
    LET down[l \in d..3] == IF l = 3 THEN p ELSE get_next_level(down[l + 1], l + 1, virt \div Size[l + 1], d)
    IN  [down[d] EXCEPT ![<<d, virt \div Size[d]>>] = [f EXCEPT !.phys = phys, !.fb = @ /\ pat_supported]]

Bad == [k \in {} |-> None]

\* map_page(): a page of 1 GiB becomes pages of 2 MiB on a processor without them.
map_page(p, virt, phys, f, d) ==
    LET pieces == IF d = 2 /\ ~gib_pages THEN [n \in 1..FAN |-> (n - 1) * Size[1]] ELSE <<0>>
        level == IF d = 2 /\ ~gib_pages THEN 1 ELSE d
    IN  FoldLeft(LAMBDA q, o : IF q = Bad \/ Unexpected(q, virt + o, level) THEN Bad ELSE PutPage(q, virt + o, phys + o, f, level), p, pieces)

\* Physical addresses are not required to be aligned.
LargestAt_Fault(virt, phys, count, i) ==
    Max({d \in 0..2 : d = 0 \/ ((virt + i) % Size[d] = 0 /\ count - i >= Size[d])})

\* The largest page both addresses and the rest of the range allow.
LargestAt(virt, phys, count, i) ==
    Max({d \in 0..2 : d = 0 \/ ((phys + i) % Size[d] = 0 /\ (virt + i) % Size[d] = 0 /\ count - i >= Size[d])})

\* map_pages().
map_pages(p, virt, phys, f, count) ==
    LET done[i \in 0..count] ==        \* the tables once i pages are left
            IF i = count THEN <<p, 0>>
            ELSE LET q == done[i + 1]
                     d == LargestAt(virt, phys, count, q[2])
                 IN  IF q[1] = Bad \/ q[2] >= count THEN q
                     ELSE <<map_page(q[1], virt + q[2], phys + q[2], f, d), q[2] + Size[d]>>
    IN  done[0][1]

\* Maps several ranges, each <<virt, phys, count>>, into page tables and moves on.
Map(from, was, rs, f, next) ==
    LET p == FoldLeft(LAMBDA q, r : IF q = Bad THEN q ELSE map_pages(q, r[1], r[2], f, r[3]), from, rs)
        is(v) == {n \in DOMAIN rs : v >= rs[n][1] /\ v < rs[n][1] + rs[n][3]}
    IN  IF p = Bad THEN pgPc' = "panic" /\ UNCHANGED <<pt, last, at>>
        ELSE /\ pt' = p
             /\ last' = [v \in DOMAIN was |-> IF is(v) = {} THEN was[v]
                            ELSE [f EXCEPT !.phys = rs[Max(is(v))][2] + v - rs[Max(is(v))][1], !.fb = @ /\ pat_supported]]
             /\ next

Unmoved == UNCHANGED <<memmap_, ranges, base_revision, nx, gib_pages, pat_supported, direct_map_offset, span_top>>

\* The entries get_hhdm_span_top() takes into account.
Spanned(e, rev) ==
    /\ ~(((rev >= 1 /\ rev < 3) \/ rev >= 4) /\ e.type \in {"RESERVED", "BAD_MEMORY"})
    /\ ~(rev = 3 /\ e.type \notin {"USABLE", "BOOTLOADER_RECLAIMABLE", "KERNEL_AND_MODULES", "FRAMEBUFFER", "EFI_RECLAIMABLE"})

FromHigh(e, rev) == IF rev < 3 /\ e.base < FOUR_GIB THEN FOUR_GIB ELSE e.base

get_hhdm_span_top(m, rev) ==
    LET tops == {((m[i].top + Size[2] - 1) \div Size[2]) * Size[2] : i \in {n \in DOMAIN m : Spanned(m[n], rev) /\ FromHigh(m[n], rev) < m[n].top}}
    IN  Max({IF rev >= 3 THEN 0 ELSE FOUR_GIB} \cup tops)

\* A quarter of the address space is; an eighth is left for its random base.
FitsHhdm(top) == top < VA \div 4

\* limine_load() up to the page tables: set_paging_mode() draws the offset.
StartBuild(m, rs, rev, x, g, p, slide) ==
    /\ pgPc = "start"
    /\ memmap_' = m /\ ranges' = rs /\ base_revision' = rev /\ nx' = x /\ gib_pages' = g /\ pat_supported' = p
    /\ direct_map_offset' = HALF + slide
    /\ span_top' = get_hhdm_span_top(m, rev)
    /\ pgPc' = IF FitsHhdm(span_top') THEN "found" ELSE "panic"
    /\ UNCHANGED <<pt, last, at>>

\* fb_init() gives the framebuffers, which enter the memory map only now.
AddFramebuffers(fbs) ==
    /\ pgPc = "found"
    /\ memmap_' = memmap_ \o fbs
    /\ pt' = NewPagemap /\ last' = [v \in 0..(VA - 1) |-> None]
    /\ pgPc' = "kernel"
    /\ UNCHANGED <<ranges, base_revision, nx, gib_pages, pat_supported, direct_map_offset, at, span_top>>

\* The kernel's own ranges come first.
MapKernel ==
    /\ pgPc = "kernel"
    /\ LET r == ranges[at]
       IN  Map(pt, last, <<<<r.base, PHYSICAL_BASE + (r.base - VIRTUAL_BASE), r.length>>>>, PageFlags(r.w, ~r.x /\ nx, FALSE),
               IF at = Len(ranges) THEN pgPc' = "low" /\ at' = 1 ELSE at' = at + 1 /\ UNCHANGED pgPc)
    /\ Unmoved

\* The first four gigabytes, below base revision 3.
MapLow ==
    /\ pgPc = "low"
    /\ Map(pt, last, (IF base_revision = 0 THEN <<<<1, 1, FOUR_GIB - 1>>>> ELSE <<>>) \o
           (IF base_revision < 3 THEN <<<<direct_map_offset, 0, FOUR_GIB>>>> ELSE <<>>),
           PageFlags(TRUE, FALSE, FALSE), pgPc' = "entries" /\ at' = 1)
    /\ Unmoved

\* Which entries build_pagemap() maps.
Mapped(e, rev) ==
    /\ ~(((rev >= 1 /\ rev < 3) \/ rev >= 4) /\ e.type \in {"RESERVED", "BAD_MEMORY"})
    /\ ~(rev = 3 /\ e.type \notin {"USABLE", "BOOTLOADER_RECLAIMABLE", "KERNEL_AND_MODULES", "FRAMEBUFFER", "EFI_RECLAIMABLE"})

Twice(base, n) ==
    (IF base_revision = 0 THEN <<<<base, base, n>>>> ELSE <<>>) \o <<<<direct_map_offset + base, base, n>>>>

MapEntries ==
    /\ pgPc = "entries"
    /\ \/ /\ at > Len(memmap_)
          /\ pgPc' = "fb" /\ at' = 1
          /\ UNCHANGED <<pt, last>>
       \/ /\ at <= Len(memmap_)
          /\ LET e == memmap_[at]
                 base == FromHigh(e, base_revision)
             IN  Map(pt, last, IF Mapped(e, base_revision) /\ base < e.top THEN Twice(base, e.top - base) ELSE <<>>,
                     PageFlags(TRUE, FALSE, FALSE), at' = at + 1 /\ UNCHANGED pgPc)
    /\ Unmoved

\* Framebuffers once more, write-combining.
MapFramebuffers ==
    /\ pgPc = "fb"
    /\ \/ /\ at > Len(memmap_)
          /\ pgPc' = "switch"
          /\ UNCHANGED <<pt, last, at>>
       \/ /\ at <= Len(memmap_)
          /\ LET e == memmap_[at]
             IN  Map(pt, last, IF e.type = "FRAMEBUFFER" THEN Twice(e.base, e.top - e.base) ELSE <<>>,
                     PageFlags(TRUE, FALSE, TRUE), at' = at + 1 /\ UNCHANGED pgPc)
    /\ Unmoved

\* "a quick and dirty way to switch to the higher half"
MapSwitch ==
    /\ pgPc = "switch"
    /\ Map(pt, last, IF base_revision >= 1 THEN <<<<0, 0, FOUR_GIB>>>> ELSE <<>>, PageFlags(TRUE, FALSE, FALSE), pgPc' = "ready" /\ UNCHANGED at)
    /\ Unmoved

\* build_identity_map(): what a 32-bit loader uses to write above 4 GiB.
build_identity_map(m, g) ==
    /\ pgPc = "start"
    /\ memmap_' = m /\ gib_pages' = g
    /\ LET high == SelectSeq(m, LAMBDA e : Spanned(e, 3) /\ FromHigh(e, 0) < e.top)
       IN  Map(NewPagemap, [v \in 0..(VA - 1) |-> None], <<<<0, 0, FOUR_GIB>>>> \o [n \in DOMAIN high |-> <<FromHigh(high[n], 0), FromHigh(high[n], 0), high[n].top - FromHigh(high[n], 0)>>],
               PageFlags(TRUE, FALSE, FALSE), pgPc' = "identity" /\ UNCHANGED at)
    /\ UNCHANGED <<ranges, base_revision, nx, pat_supported, direct_map_offset, span_top>>

PgNext ==
    \/ pgPc = "start" /\ \E m \in Memmaps, rs \in KernelRanges, rev \in 0..4, x, g, p \in BOOLEAN, s \in {i \in 0..(VA \div 8 - 1) : i % Size[2] = 0} : StartBuild(m, rs, rev, x, g, p, s)
    \/ \E fbs \in Framebuffers : AddFramebuffers(fbs)
    \/ MapKernel \/ MapLow \/ MapEntries \/ MapFramebuffers \/ MapSwitch
    \/ pgPc = "start" /\ \E m \in Memmaps, g \in BOOLEAN : build_identity_map(m, g)

PgSpec == PgInit /\ [][PgNext]_pgVars
-----------------------------------------------------------------------------
\* What the processor finds for a virtual page: the low bits of a large page's
\* entry are no address.
Walk(p, v) ==
    LET top == Max({l \in 0..3 : p[<<l, v \div Size[l]>>].kind # "table" /\ \A m \in (l + 1)..3 : p[<<m, v \div Size[m]>>].kind = "table"})
        e == p[<<top, v \div Size[top]>>]
    IN  IF e.kind = "none" THEN None ELSE [e EXCEPT !.phys = (@ \div Size[top]) * Size[top] + (v % Size[top])]

\* Each page translates to what was mapped there last, through every mixture of
\* page sizes and splits (map_page, get_next_level).
TranslationsAreTheLastMade ==
    pgPc \notin {"start", "found", "panic"} => \A v \in DOMAIN last : Walk(pt, v) = last[v]

\* Of the memory known when the direct map was sized, nothing is mapped above
\* its span (get_hhdm_span_top and build_pagemap select entries separately).
DirectMapStaysInItsSpan ==
    pgPc = "ready" =>
      \A v \in direct_map_offset..(VIRTUAL_BASE - 1) :
          \/ last[v].kind = "page" => v < direct_map_offset + span_top
          \/ \E n \in DOMAIN memmap_ : memmap_[n].type = "FRAMEBUFFER" /\ v - direct_map_offset \in memmap_[n].base..(memmap_[n].top - 1)

\* The kernel keeps its pages and their rights: no later mapping lies on them.
KernelMappingsSurvive ==
    pgPc = "ready" =>
      \A n \in DOMAIN ranges : \A v \in ranges[n].base..(ranges[n].base + ranges[n].length - 1) :
          Walk(pt, v) = [PageFlags(ranges[n].w, ~ranges[n].x /\ nx, FALSE) EXCEPT !.phys = PHYSICAL_BASE + v - VIRTUAL_BASE]

=============================================================================
