----------------------------- MODULE Multiboot -----------------------------
(***************************************************************************)
(* Where the Multiboot loaders put what the kernel needs                   *)
(* (limine/common/protos/multiboot1.c and multiboot2.c, lib/elsewhere.c,   *)
(* the *_load_elsewhere functions of lib/elf.c and the relocation stub of  *)
(* protos/multiboot_reloc.asm_x86).  Everything is loaded "elsewhere", its *)
(* final target only planned; when the loader is done the stub copies the  *)
(* ranges to their targets, in order, and jumps to the kernel.             *)
(* Memory is MEM units of which PAGE_UNITS make a page.                    *)
(***************************************************************************)
EXTENDS Naturals, Sequences, FiniteSets, FiniteSetsExt, SequencesExt

CONSTANTS PAGE_UNITS, MEM,
          INFO_LOC,     \* 0x10000, where GRUB puts the boot information
          MbMemories,   \* sets of usable pages explored
          MbKernels,    \* [target, length, reloc, min, max, align] of kernels
          MbInfoSizes, MbModuleSizes, MaxModules

VARIABLES usablePages, reclaimPages, filePages,   \* USABLE, BOOTLOADER_RECLAIMABLE, KERNEL_AND_MODULES
          mbProto, mbKernel, mbKernelFile,
          mbRanges,        \* elsewhere_range: [elsewhere, target, length]
          mbModules,       \* modules loaded so far
          mbMem, mbCopied, \* memory during the stub: unit -> <<range, offset>>; ranges copied
          mbPc             \* "off", "kernel", "info", "modules", "stub", "kernel_runs", "panic"

mbVars == <<usablePages, reclaimPages, filePages, mbProto, mbKernel, mbKernelFile, mbRanges, mbModules, mbMem, mbCopied, mbPc>>

NPages == MEM \div PAGE_UNITS
PagesOf(base, len) == IF len = 0 THEN {} ELSE (base \div PAGE_UNITS)..((base + len - 1) \div PAGE_UNITS)
PageUp(a) == ((a + PAGE_UNITS - 1) \div PAGE_UNITS) * PAGE_UNITS
Spans(b, l) == b..(b + l - 1)

\* ext_mem_alloc(): the highest free place, counted in pages.
Places(len) ==
    {p \in 0..(NPages - 1) : \A q \in p..(p + PageUp(len) \div PAGE_UNITS - 1) : q \in usablePages}

MbInit ==
    /\ usablePages = {} /\ reclaimPages = {} /\ filePages = {}
    /\ mbProto = 0 /\ mbKernel = [target |-> 0, length |-> 0] /\ mbKernelFile = 0
    /\ mbRanges = <<>> /\ mbModules = 0 /\ mbMem = <<>> /\ mbCopied = 0 /\ mbPc = "off"

MbPanic ==
    /\ mbPc' = "panic"
    /\ UNCHANGED <<usablePages, reclaimPages, filePages, mbProto, mbKernel, mbKernelFile, mbRanges, mbModules, mbMem, mbCopied>>

\* The kernel file is read into memory; its header fixes the target.
LoadFile(proto, pages, k) ==
    /\ mbPc = "off"
    /\ \E at \in 0..(NPages - 1) :
          LET size == PagesOf(at * PAGE_UNITS, k.length)
          IN  /\ size \subseteq pages
              /\ \A b \in (at + 1)..(NPages - 1) : ~(PagesOf(b * PAGE_UNITS, k.length) \subseteq pages)
              /\ usablePages' = pages \ size
              /\ filePages' = size
              /\ mbKernelFile' = at * PAGE_UNITS
    /\ mbProto' = proto /\ mbKernel' = k /\ mbPc' = "kernel"
    /\ UNCHANGED <<reclaimPages, mbRanges, mbModules, mbMem, mbCopied>>

\* check_usable_memory(): all of a range is RAM the loader may use or reclaim.
MbUsable(base, len) == PagesOf(base, len) \subseteq usablePages \cup reclaimPages \cup filePages

\* The relocatable tag: the lowest aligned base between its bounds that is RAM.
Relocations(k) ==
    {b \in 0..MEM : b % k.align = 0 /\ b >= k.min /\ b + k.length <= k.max /\ MbUsable(b, k.length)}

\* The address tag or *_load_elsewhere(): the segments are laid out elsewhere,
\* as one range.  Only Multiboot 2 looks at what the target is.
LoadKernel ==
    /\ mbPc = "kernel"
    /\ LET places == Places(mbKernel.length)
           bases == IF mbKernel.reloc = 1 /\ mbProto = 2 THEN Relocations(mbKernel) ELSE {mbKernel.target}
           base  == IF bases = {} THEN MEM ELSE Min(bases)
           viable == places # {} /\ bases # {} /\ (mbProto = 2 => MbUsable(base, mbKernel.length))
           taken == PagesOf(Max({0} \cup places) * PAGE_UNITS, mbKernel.length)
       IN  \/ ~viable /\ MbPanic
           \/ /\ viable
              /\ mbRanges' = <<[elsewhere |-> Max(places) * PAGE_UNITS, target |-> base, length |-> mbKernel.length]>>
              /\ usablePages' = usablePages \ taken
              /\ reclaimPages' = reclaimPages \cup taken
              /\ mbPc' = "info"
              /\ UNCHANGED <<filePages, mbProto, mbKernel, mbKernelFile, mbModules, mbMem, mbCopied>>

elsewhere_overlap_check(base1, top1, base2, top2) ==
    (base1 >= base2 /\ base1 < top2) \/ (top1 > base2 /\ top1 <= top2)

\* memmap_alloc_range() in simulation: the range lies in one kind of memory.
\* Nothing is reserved.
Exists(base, len) ==
    PagesOf(base, len) \subseteq usablePages \/ PagesOf(base, len) \subseteq reclaimPages

\* elsewhere_append(): the target moves up until no check fails; NPages past the
\* end of memory every check of existence fails and the retries run out.
FinalTarget(ranges, want, len) ==
    LET trouble(r, t) ==
            IF elsewhere_overlap_check(r.target, r.target + r.length, t, t + len) THEN PageUp(r.target + r.length)
            ELSE IF elsewhere_overlap_check(r.elsewhere, r.elsewhere + r.length, t, t + len) \/ ~Exists(t, len)
            THEN t + PAGE_UNITS ELSE t
        try[t \in Nat] ==
            LET first == SelectInSeq(ranges, LAMBDA r : trouble(r, t) # t)
            IN  IF t > MEM THEN MEM + 1
                ELSE IF first = 0 THEN t ELSE try[trouble(ranges[first], t)]
    IN  try[want]

TopOfAll(ranges) == PageUp(Max({0} \cup {ranges[i].target + ranges[i].length : i \in DOMAIN ranges}))

elsewhere_append(src, want, len) ==
    LET t == FinalTarget(mbRanges, IF want = MEM THEN TopOfAll(mbRanges) ELSE want, len)
    IN  /\ t <= MEM
        /\ mbRanges' = Append(mbRanges, [elsewhere |-> src, target |-> t, length |-> len])

\* A source is allocated, then its target is planned.
AllocAndAppend(want, len) ==
    LET at == Max(Places(len)) * PAGE_UNITS
    IN  /\ Places(len) # {}
        /\ elsewhere_append(at, want, len)
        /\ usablePages' = usablePages \ PagesOf(at, len)
        /\ reclaimPages' = reclaimPages \cup PagesOf(at, len)

\* The boot information goes to 0x10000 if it can.
AppendInfo(size) ==
    /\ mbPc = "info"
    /\ AllocAndAppend(INFO_LOC, size)
    /\ mbPc' = "modules"
    /\ UNCHANGED <<filePages, mbProto, mbKernel, mbKernelFile, mbModules, mbMem, mbCopied>>

\* Sections of the ELF file that no segment loads, straight from the file.
AppendSection ==
    /\ mbPc = "modules" /\ mbModules = 0 /\ Len(mbRanges) = 2
    /\ elsewhere_append(mbKernelFile, MEM, 1)
    /\ UNCHANGED <<usablePages, reclaimPages, filePages, mbProto, mbKernel, mbKernelFile, mbModules, mbMem, mbCopied, mbPc>>

AppendModule(size) ==
    /\ mbPc = "modules" /\ mbModules < MaxModules
    /\ AllocAndAppend(MEM, size)
    /\ mbModules' = mbModules + 1
    /\ UNCHANGED <<filePages, mbProto, mbKernel, mbKernelFile, mbMem, mbCopied, mbPc>>

\* Nothing fits, or no target is found.
LoadFails ==
    /\ mbPc \in {"info", "modules"}
    /\ \/ mbPc = "info" /\ \E s \in MbInfoSizes : ~ENABLED AppendInfo(s)
       \/ mbPc = "modules" /\ mbModules < MaxModules /\ \E s \in MbModuleSizes : ~ENABLED AppendModule(s)
    /\ MbPanic

\* The stub is put in memory of its own and the machine is handed to it.
multiboot_spinup_32 ==
    /\ mbPc = "modules"
    /\ IF usablePages = {} THEN MbPanic
       ELSE /\ mbPc' = "stub"
            /\ mbMem' = [u \in 0..(MEM - 1) |->
                           IF \E i \in DOMAIN mbRanges : u \in Spans(mbRanges[i].elsewhere, mbRanges[i].length)
                           THEN LET i == CHOOSE j \in DOMAIN mbRanges : u \in Spans(mbRanges[j].elsewhere, mbRanges[j].length)
                                IN  <<i, u - mbRanges[i].elsewhere>>
                           ELSE <<0, 0>>]
            /\ UNCHANGED <<usablePages, reclaimPages, filePages, mbProto, mbKernel, mbKernelFile, mbRanges, mbModules, mbCopied>>

\* A copy of pairs: the last unit of an odd range is left behind.
RECURSIVE RepMovsb_Fault(_, _, _)
RepMovsb_Fault(m, r, k) ==
    IF k + 1 >= r.length THEN m
    ELSE RepMovsb_Fault([m EXCEPT ![r.target + k] = m[r.elsewhere + k], ![r.target + k + 1] = m[r.elsewhere + k + 1]], r, k + 2)

\* rep movsb: ascending, one unit at a time, so an overlap repeats itself.
RECURSIVE RepMovsb(_, _, _)
RepMovsb(m, r, k) ==
    IF k = r.length THEN m ELSE RepMovsb([m EXCEPT ![r.target + k] = m[r.elsewhere + k]], r, k + 1)

multiboot_reloc_stub ==
    /\ mbPc = "stub"
    /\ mbCopied < Len(mbRanges)
    /\ mbMem' = RepMovsb(mbMem, mbRanges[mbCopied + 1], 0)
    /\ mbCopied' = mbCopied + 1
    /\ UNCHANGED <<usablePages, reclaimPages, filePages, mbProto, mbKernel, mbKernelFile, mbRanges, mbModules, mbPc>>

StartKernel ==
    /\ mbPc = "stub"
    /\ mbCopied = Len(mbRanges)
    /\ mbPc' = "kernel_runs"
    /\ UNCHANGED <<usablePages, reclaimPages, filePages, mbProto, mbKernel, mbKernelFile, mbRanges, mbModules, mbMem, mbCopied>>

MbNext ==
    \/ mbPc = "off" /\ \E p \in 1..2, pages \in MbMemories, k \in MbKernels : LoadFile(p, pages, k)
    \/ LoadKernel
    \/ \E s \in MbInfoSizes : AppendInfo(s)
    \/ AppendSection
    \/ \E s \in MbModuleSizes : AppendModule(s)
    \/ LoadFails \/ multiboot_spinup_32 \/ multiboot_reloc_stub \/ StartKernel

MbSpec == MbInit /\ [][MbNext]_mbVars
-----------------------------------------------------------------------------
Overlaps(i, j) ==
    Spans(mbRanges[i].target, mbRanges[i].length) \cap Spans(mbRanges[j].target, mbRanges[j].length) # {}
StrictlyInside(j, i) ==
    /\ mbRanges[i].target < mbRanges[j].target
    /\ mbRanges[j].target + mbRanges[j].length < mbRanges[i].target + mbRanges[i].length

\* The targets of two ranges overlap in one case only: the later one lies
\* strictly inside the earlier one (elsewhere_overlap_check tests the ends of the
\* earlier range only).
TargetsOverlapOnlyNested ==
    \A i, j \in DOMAIN mbRanges : i < j /\ Overlaps(i, j) => StrictlyInside(j, i)

\* When every source lies above every target and no target inside another, the
\* stub delivers every range unharmed: kernel, information, sections, modules.
RangesArriveIntact ==
    /\ mbPc = "kernel_runs"
    /\ \A i, j \in DOMAIN mbRanges : mbRanges[i].elsewhere >= mbRanges[j].target + mbRanges[j].length
    /\ \A i, j \in DOMAIN mbRanges : ~StrictlyInside(j, i)
    => \A i \in DOMAIN mbRanges : \A k \in 0..(mbRanges[i].length - 1) :
          mbMem[mbRanges[i].target + k] = mbMem[mbRanges[i].elsewhere + k] /\ mbMem[mbRanges[i].elsewhere + k][1] = i

\* A relocatable Multiboot 2 kernel lies between the bounds of its tag, aligned,
\* in memory that exists (multiboot2_load).
RelocatedWithinBounds ==
    mbRanges # <<>> /\ mbProto = 2 /\ mbKernel.reloc = 1 =>
      LET r == mbRanges[1]
      IN  r.target >= mbKernel.min /\ r.target + r.length <= mbKernel.max /\ r.target % mbKernel.align = 0

\* Every range arrives intact at a place it may be, unless it was placed inside another.
KernelArrivesIntact == TargetsOverlapOnlyNested /\ RangesArriveIntact /\ RelocatedWithinBounds
=============================================================================
