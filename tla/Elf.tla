-------------------------------- MODULE Elf --------------------------------
(***************************************************************************)
(* The boot loader's ELF loader (limine/common/lib/elf.c): the checks on   *)
(* the program headers, the choice of the slide, the copy of the segments  *)
(* with their relocations, the ranges the page tables are built from, and  *)
(* the simpler loading at physical addresses used by Multiboot.            *)
(* Addresses count 8-byte words and wrap at TOP; HIGH is where the last    *)
(* two gigabytes start.  A word of a segment holds Content before it is    *)
(* relocated.                                                              *)
(***************************************************************************)
EXTENDS Integers, Sequences, FiniteSets, FiniteSetsExt, SequencesExt

CONSTANTS TOP, HIGH, PAGE_W,
          RELR_BITS,             \* 63: relocations described by a bitmap entry
          max_simulated_tries,
          ElfFiles               \* files explored

VARIABLES elf, kaslr, is_reloc, lower_to_higher,
          min_vaddr, image_size, max_align, slide, try_count,
          image,         \* words loaded at physical_base
          loaded,        \* program headers done
          memRanges,     \* [base, length, flags]
          secImage,      \* copy made by elf64_load_section()
          elsewhere,     \* [target, words, entry] of *_load_elsewhere()
          elfPc          \* "idle", "slide", "load", "done", "elsewhere", "panic"

elfVars == <<elf, kaslr, is_reloc, lower_to_higher, min_vaddr, image_size, max_align, slide, try_count, image, loaded, memRanges, secImage, elsewhere, elfPc>>

Content(i, k) == 100 * i + k + 1
Loads(f) == SelectSeq([i \in DOMAIN f.segs |-> i], LAMBDA i : f.segs[i].memsz > 0)
LoadSet(f) == {i \in DOMAIN f.segs : f.segs[i].memsz > 0}
Nowhere == [target |-> 0, words |-> <<>>, entry |-> 0]

ElfInit ==
    /\ elf = 0 /\ kaslr = FALSE /\ is_reloc = FALSE /\ lower_to_higher = FALSE /\ min_vaddr = 0 /\ image_size = 0
    /\ max_align = 0 /\ slide = 0 /\ try_count = 0 /\ image = <<>> /\ loaded = 0 /\ memRanges = <<>>
    /\ secImage = <<>> /\ elsewhere = Nowhere /\ elfPc = "idle"

\* elf64_is_relocatable(): a shared object with a dynamic segment.
elf64_is_relocatable(f) == f.type = "dyn" /\ f.dynamic > 0

Ends(s) == s.vaddr + s.memsz
RoundDown(a, n) == (a \div n) * n
RoundUp(a, n) == ((a + n - 1) \div n) * n

\* "check for overlapping phdrs": an end of one inside the other.
Overlap_(s, t) == (t.vaddr >= s.vaddr /\ t.vaddr < Ends(s)) \/ (Ends(t) > s.vaddr /\ Ends(t) <= Ends(s))

SharesPage(s, t) ==
    LET base == RoundDown(s.vaddr, PAGE_W)     top == RoundUp(Ends(s), PAGE_W)
        lo   == RoundDown(t.vaddr, PAGE_W)     hi  == RoundUp(Ends(t), PAGE_W)
    IN  (base >= lo /\ base < hi) \/ (top > lo /\ top <= hi)

\* Program headers for which elf64_load() panics.  A high one after a low one is
\* noticed, the other order is not.
Rejected(f) ==
    \/ f.type = "rel"
    \/ f.type = "dyn" /\ f.dynamic = 0
    \/ LoadSet(f) = {}
    \/ \E i \in LoadSet(f) : f.segs[i].vaddr < HIGH /\ ~elf64_is_relocatable(f)
    \/ \E i, j \in LoadSet(f) : i < j /\ f.segs[i].vaddr < HIGH /\ f.segs[j].vaddr >= HIGH
    \/ \E i, j \in LoadSet(f) : i # j /\ Overlap_(f.segs[i], f.segs[j])
    \/ \E i, j \in LoadSet(f) : i # j /\ SharesPage(f.segs[i], f.segs[j]) /\ f.segs[i].flags # f.segs[j].flags

\* elf64_load() up to the allocation of the image.
elf64_load(f, random) ==
    LET low == Min({f.segs[i].vaddr : i \in LoadSet(f)})
    IN  /\ elfPc = "idle"
        /\ elf' = f
        /\ kaslr' = random
        /\ \/ /\ Rejected(f) = TRUE
              /\ elfPc' = "panic"
              /\ UNCHANGED <<is_reloc, lower_to_higher, min_vaddr, image_size, max_align, slide, image>>
           \/ /\ ~Rejected(f)
              /\ is_reloc' = elf64_is_relocatable(f)
              /\ lower_to_higher' = \E i \in LoadSet(f) : f.segs[i].vaddr < HIGH
              /\ min_vaddr' = low
              /\ image_size' = Max({Ends(f.segs[i]) : i \in LoadSet(f)}) - low
              /\ max_align' = Max({f.segs[i].align : i \in LoadSet(f)})
              /\ slide' = IF lower_to_higher' THEN HIGH - low ELSE 0
              /\ image' = [w \in 0..(image_size' - 1) |-> 0]
              /\ elfPc' = "slide"
        /\ UNCHANGED <<try_count, loaded, memRanges, secImage, elsewhere>>

\* "this comparison relies on overflow": the end wrapped, or is too low.
TooHigh(s) == (min_vaddr + s + image_size) % TOP < HIGH

\* "again:": a random aligned slide, drawn until the image fits.
Again(r) ==
    /\ elfPc = "slide"
    /\ LET s == RoundDown(r, max_align) + (IF lower_to_higher THEN HIGH - min_vaddr ELSE 0)
       IN  \/ /\ ~(is_reloc /\ kaslr)
              /\ elfPc' = "load"
              /\ UNCHANGED <<slide, try_count>>
           \/ /\ is_reloc /\ kaslr /\ ~TooHigh(s)
              /\ slide' = s /\ elfPc' = "load"
              /\ UNCHANGED try_count
           \/ /\ is_reloc /\ kaslr /\ TooHigh(s)
              /\ try_count' = try_count + 1
              /\ elfPc' = IF try_count' = max_simulated_tries THEN "panic" ELSE "slide"
              /\ UNCHANGED slide
    /\ UNCHANGED <<elf, kaslr, is_reloc, lower_to_higher, min_vaddr, image_size, max_align, image, loaded, memRanges, secImage, elsewhere>>

\* A bitmap entry covers one word too many.
RelrStep_Fault(acc, e) ==
    IF e.bits = {0} THEN [where |-> e.addr + 1, list |-> Append(acc.list, e.addr)]
    ELSE [where |-> acc.where + RELR_BITS + 1,
          list  |-> acc.list \o SelectSeq([j \in 1..RELR_BITS |-> acc.where + j - 1], LAMBDA w : w - acc.where + 1 \in e.bits)]

\* DT_RELR: an address, or a bitmap of the words after the last one described.
\* An address entry is written with bits = {0}.
RelrStep(acc, e) ==
    IF e.bits = {0} THEN [where |-> e.addr + 1, list |-> Append(acc.list, e.addr)]
    ELSE [where |-> acc.where + RELR_BITS,
          list  |-> acc.list \o SelectSeq([j \in 1..RELR_BITS |-> acc.where + j - 1], LAMBDA w : w - acc.where + 1 \in e.bits)]

DecodeRelr(relr) == FoldLeft(RelrStep, [where |-> 0, list |-> <<>>], relr).list

\* The array of relocations: DT_RELR, then DT_RELA, then DT_JMPREL.
Relocs(f) ==
    LET words == DecodeRelr(f.relr)
    IN  [i \in DOMAIN words |-> [addr |-> words[i], kind |-> "relr", sym |-> 0, addend |-> 0]] \o f.rela \o f.jmprel

\* A relocation that names a symbol the file does not have or define.
Unresolvable(f, r) ==
    r.kind \in {"glob_dat", "abs64"} /\ (r.sym \notin DOMAIN f.syms \/ f.syms[r.sym].bind = "undefined")

Value(f, r, old, s) ==
    CASE r.kind = "none" -> old
      [] r.kind = "relr" -> (old + s) % (100 * TOP)
      [] r.kind = "relative" -> s + r.addend
      [] r.kind = "glob_dat" -> IF f.syms[r.sym].bind = "weak" THEN 0 ELSE s + f.syms[r.sym].value
      [] r.kind = "abs64" -> IF f.syms[r.sym].bind = "weak" THEN 0 ELSE s + f.syms[r.sym].value + r.addend

Inside_(r, vaddr, size) == r.addr >= vaddr /\ vaddr + size >= r.addr + 1

\* elf64_apply_relocations() to a buffer that starts at vaddr.
elf64_apply_relocations(f, buffer, first, vaddr, size, s) ==
    FoldLeft(LAMBDA b, r : IF Inside_(r, vaddr, size) THEN [b EXCEPT ![first + r.addr - vaddr] = Value(f, r, @, s)] ELSE b,
             buffer, Relocs(f))

BadRelocation(f, vaddr, size) ==
    \E i \in DOMAIN Relocs(f) : Inside_(Relocs(f)[i], vaddr, size) /\ Unresolvable(f, Relocs(f)[i])

\* One segment is copied to its place in the image and relocated there.
LoadSegment ==
    LET i == Loads(elf)[loaded + 1]
        s == elf.segs[i]
        at == s.vaddr - min_vaddr
        copied == [w \in DOMAIN image |-> IF w >= at /\ w < at + s.filesz THEN Content(i, w - at) ELSE image[w]]
    IN  /\ elfPc = "load" /\ loaded < Len(Loads(elf))
        /\ \/ /\ (s.filesz > s.memsz \/ BadRelocation(elf, s.vaddr, s.memsz)) = TRUE
              /\ elfPc' = "panic"
              /\ UNCHANGED <<image, loaded>>
           \/ /\ s.filesz <= s.memsz /\ ~BadRelocation(elf, s.vaddr, s.memsz)
              /\ image' = elf64_apply_relocations(elf, copied, at, s.vaddr, s.memsz, slide)
              /\ loaded' = loaded + 1
              /\ UNCHANGED elfPc
        /\ UNCHANGED <<elf, kaslr, is_reloc, lower_to_higher, min_vaddr, image_size, max_align, slide, try_count, memRanges, secImage, elsewhere>>

\* elf64_get_ranges(): each segment, stretched to its own alignment.
RangeOf(s) ==
    LET base == RoundDown(s.vaddr + slide, s.align)
    IN  [base |-> base, length |-> RoundUp(s.vaddr + slide + s.memsz - base, s.align), flags |-> s.flags]

elf64_get_ranges ==
    /\ elfPc = "load" /\ loaded = Len(Loads(elf))
    /\ memRanges' = [n \in DOMAIN Loads(elf) |-> RangeOf(elf.segs[Loads(elf)[n]])]
    /\ elfPc' = "done"
    /\ UNCHANGED <<elf, kaslr, is_reloc, lower_to_higher, min_vaddr, image_size, max_align, slide, try_count, image, loaded, secImage, elsewhere>>

\* elf64_load_section(): a section, here the first words of the first segment's
\* file, is copied once more and relocated in the copy, which is returned as it is.
elf64_load_section ==
    /\ elfPc = "done" /\ secImage = <<>>
    /\ LET i == Loads(elf)[1]
           n == elf.segs[i].filesz
       IN  secImage' = elf64_apply_relocations(elf, [w \in 0..(n - 1) |-> Content(i, w)], 0, elf.segs[i].vaddr, n, slide)
    /\ UNCHANGED <<elf, kaslr, is_reloc, lower_to_higher, min_vaddr, image_size, max_align, slide, try_count, image, loaded, memRanges, elsewhere, elfPc>>

PhysicalEntry(f) ==
    LET holds == {i \in LoadSet(f) : f.entry >= f.segs[i].vaddr /\ f.entry < Ends(f.segs[i])}
    IN  IF holds = {} THEN f.entry ELSE f.entry - f.segs[Min(holds)].vaddr + f.segs[Min(holds)].paddr

\* Loading by physical address; the two word sizes differ in the headers only.
elf32_load_elsewhere(f) ==
    LET low == Min({f.segs[i].paddr : i \in LoadSet(f)})
        top == Max({f.segs[i].paddr + f.segs[i].memsz : i \in LoadSet(f)})
        put(words, i) == [w \in DOMAIN words |->
            LET at == f.segs[i].paddr - low
            IN  IF w >= at /\ w < at + f.segs[i].filesz THEN Content(i, w - at) ELSE words[w]]
        refused == f.type = "rel" \/ \E i \in LoadSet(f) : f.segs[i].filesz > f.segs[i].memsz
    IN  /\ elfPc = "idle" /\ LoadSet(f) # {}
        /\ elf' = f
        /\ elfPc' = IF refused = TRUE THEN "panic" ELSE "elsewhere"
        /\ elsewhere' = IF refused = TRUE THEN Nowhere
                        ELSE [target |-> low, words |-> FoldLeft(put, [w \in 0..(top - low - 1) |-> 0], Loads(f)), entry |-> PhysicalEntry(f)]
        /\ UNCHANGED <<kaslr, is_reloc, lower_to_higher, min_vaddr, image_size, max_align, slide, try_count, image, loaded, memRanges, secImage>>

elf64_load_elsewhere(f) == elf32_load_elsewhere(f)

ElfNext ==
    \/ elfPc = "idle" /\ \E f \in ElfFiles, k \in BOOLEAN : elf64_load(f, k)
    \/ \E r \in 0..(2 * (TOP - HIGH) - 1) : Again(r)   \* rand32(): twice the two gigabytes
    \/ LoadSegment \/ elf64_get_ranges \/ elf64_load_section
    \/ elfPc = "idle" /\ \E f \in ElfFiles : elf32_load_elsewhere(f) \/ elf64_load_elsewhere(f)

ElfSpec == ElfInit /\ [][ElfNext]_elfVars
-----------------------------------------------------------------------------
\* The words DT_RELR describes, read off the entries one by one.
RelrWords(relr) ==
    {relr[i].addr : i \in {n \in DOMAIN relr : relr[n].bits = {0}}} \cup
    UNION {{relr[Max(from)].addr + RELR_BITS * (i - Max(from) - 1) + b : b \in relr[i].bits} :
              <<i, from>> \in {p \in {<<n, {m \in 1..(n - 1) : relr[m].bits = {0}}>> : n \in DOMAIN relr} :
                                  relr[p[1]].bits # {0} /\ p[2] # {}}}

\* What a word of a loaded file must be: the last relocation that names it, or
\* its content and the slide once if DT_RELR names it, or its content.
Expected(f, s, w) ==
    LET named == {n \in DOMAIN (f.rela \o f.jmprel) : (f.rela \o f.jmprel)[n].addr = w /\ (f.rela \o f.jmprel)[n].kind # "none"}
        r == (f.rela \o f.jmprel)[Max(named)]
        i == CHOOSE n \in LoadSet(f) : w >= f.segs[n].vaddr /\ w < Ends(f.segs[n])
        raw == IF w < f.segs[i].vaddr + f.segs[i].filesz THEN Content(i, w - f.segs[i].vaddr) ELSE 0
    IN  IF named # {} THEN Value(f, r, raw, s) ELSE IF w \in RelrWords(f.relr) THEN (raw + s) % (100 * TOP) ELSE raw

\* Every word of a loaded image is relocated exactly as the file asks, once,
\* whatever the order of the segments and tables (elf64_apply_relocations).
ImageIsRelocated ==
    elfPc = "done" =>
      \A i \in LoadSet(elf) : \A w \in elf.segs[i].vaddr..(Ends(elf.segs[i]) - 1) :
          image[w - min_vaddr] = Expected(elf, slide, w)

\* The image, slid at random or not, lies in the last two gigabytes (Again).
ImageStaysHigh ==
    elfPc = "done" => min_vaddr + slide >= HIGH /\ min_vaddr + slide + image_size <= TOP

\* No page carries two kinds of access rights, for segments aligned to no more
\* than a page (the page sharing check, elf64_get_ranges).
PagesHaveOneRight ==
    elfPc = "done" /\ max_align <= PAGE_W =>
      \A m, n \in DOMAIN memRanges : memRanges[m].flags # memRanges[n].flags =>
          \/ RoundUp(memRanges[m].base + memRanges[m].length, PAGE_W) <= RoundDown(memRanges[n].base, PAGE_W)
          \/ RoundUp(memRanges[n].base + memRanges[n].length, PAGE_W) <= RoundDown(memRanges[m].base, PAGE_W)

\* A section read on its own holds the words the image has at its addresses.
SectionAgreesWithImage ==
    secImage # <<>> =>
      \A w \in DOMAIN secImage : secImage[w] = image[elf.segs[Loads(elf)[1]].vaddr - min_vaddr + w]

\* The physical entry point is the word the file has at its entry, when the entry
\* is part of a file and no later segment is laid over it (PhysicalEntry).
EntryIsTheEntryWord ==
    elfPc = "elsewhere" =>
      \A i \in LoadSet(elf) :
          /\ elf.entry >= elf.segs[i].vaddr /\ elf.entry < elf.segs[i].vaddr + elf.segs[i].filesz
          /\ \A j \in LoadSet(elf) : j # i => ~(elf.entry >= elf.segs[j].vaddr /\ elf.entry < Ends(elf.segs[j]))
          /\ \A j \in LoadSet(elf) : j > i =>
               (elf.entry - elf.segs[i].vaddr + elf.segs[i].paddr) \notin elf.segs[j].paddr..(elf.segs[j].paddr + elf.segs[j].filesz - 1)
          => elsewhere.words[elsewhere.entry - elsewhere.target] = Content(i, elf.entry - elf.segs[i].vaddr)

\* A loaded image is the file's: relocated once, in range, with one right to a page, entered at
\* its entry (elf64_load, elf64_load_section, elf32_load_elsewhere).
ImageIsAsTheFileAsks ==
    /\ ImageIsRelocated
    /\ ImageStaysHigh
    /\ PagesHaveOneRight
    /\ SectionAgreesWithImage
    /\ EntryIsTheEntryWord
=============================================================================
