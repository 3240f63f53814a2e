------------------------------ MODULE Requests ------------------------------
(***************************************************************************)
(* limine_load() (limine/common/protos/limine.c): how the boot loader finds *)
(* the base revision and the requests in the image of a kernel, settles on *)
(* a paging mode, answers the requests feature by feature and hands over.  *)
(* The image is a sequence of items: markers, base revision tags and       *)
(* requests; addresses and contents of responses are left out.             *)
(***************************************************************************)
EXTENDS Integers, Sequences, FiniteSets, FiniteSetsExt, SequencesExt

CONSTANTS Images,            \* kernels: sequences of [kind, value]
          Sections,          \* .limine_reqs sections: sequences of names; "none" in <<"none">>
          MAX_REQUESTS, SUPPORTED_BASE_REVISION,
          VaQuarter,         \* VaQuarter[arch][mode]: what fits in a direct map
          SpanTops,             \* values of hhdm_span_top
          Modules            \* lists of modules: [internal, config], each of [required, found]

VARIABLES image_, section, arch, base_revision_, tagAt,
          requests,          \* names of the requests taken, in order
          bounds,            \* limits of the paging mode: [lo, hi, klo, khi, asked]
          paging_mode, span,
          feature,           \* place in Features
          responses, allocations, reported, offered, modules,
          rqPc

rqVars == <<image_, section, arch, base_revision_, tagAt, requests, bounds, paging_mode, span, feature, responses, allocations, reported, offered, modules, rqPc>>

NoBounds == [lo |-> 0, hi |-> 0, klo |-> 0, khi |-> 0, asked |-> FALSE]
NoModules == [internal |-> <<>>, config |-> <<>>]
Fail == rqPc' = "panic"

RqInit ==
    /\ image_ = <<>> /\ section = <<>> /\ arch = "x86" /\ base_revision_ = 0 /\ tagAt = 0 /\ requests = <<>>
    /\ bounds = NoBounds /\ paging_mode = 0 /\ span = 0 /\ feature = 1 /\ responses = {}
    /\ allocations = 0 /\ reported = -1 /\ offered = NoModules /\ modules = <<>> /\ rqPc = "start"

StartLoad(img, sec, a) ==
    /\ rqPc = "start"
    /\ image_' = img /\ section' = sec /\ arch' = a
    /\ rqPc' = "revision"
    /\ UNCHANGED <<base_revision_, tagAt, requests, bounds, paging_mode, span, feature, responses, allocations, reported, offered, modules>>

\* A scan goes to the end marker.
ScanEnd(img) == Min({i \in DOMAIN img : img[i].kind = "end"} \cup {Len(img) + 1}) - 1

\* One item of the scan for the base revision; revision -1 is the panic for
\* a duplicated tag, which a tag of revision 0 does not cause.
RevisionStep(s, i) ==
    CASE s.rev = -1 -> s
      [] image_[i].kind = "start" -> [rev |-> 0, at |-> 0]
      [] image_[i].kind = "tag" -> [rev |-> IF s.rev # 0 THEN -1 ELSE Min({image_[i].value, SUPPORTED_BASE_REVISION}), at |-> i]
      [] OTHER -> s

FindRevision ==
    /\ rqPc = "revision"
    /\ LET s == FoldLeft(RevisionStep, [rev |-> 0, at |-> 0], [i \in 1..ScanEnd(image_) |-> i])
       IN  IF s.rev = -1 THEN Fail /\ UNCHANGED <<base_revision_, tagAt>>
           ELSE base_revision_' = s.rev /\ tagAt' = s.at /\ rqPc' = "requests"
    /\ UNCHANGED <<image_, section, arch, requests, bounds, paging_mode, span, feature, responses, allocations, reported, offered, modules>>

\* A request of a name already seen replaces nothing and is kept as well.
Taken_Fault(rs, name) == IF Len(rs) = MAX_REQUESTS THEN <<"panic">> ELSE Append(rs, name)

\* A request is taken unless there are too many or one of its name is there.
Taken(rs, name) ==
    IF Len(rs) = MAX_REQUESTS \/ name \in ToSet(rs) THEN <<"panic">> ELSE Append(rs, name)

RequestStep(rs, i) ==
    CASE rs = <<"panic">> -> rs
      [] image_[i].kind = "start" -> <<>>
      [] image_[i].kind = "request" -> Taken(rs, image_[i].value)
      [] OTHER -> rs

\* Base revision 0 of an ELF kernel looks at section .limine_reqs first, and
\* takes all of it.
FindRequests ==
    /\ rqPc = "requests"
    /\ LET found == IF base_revision_ = 0 /\ section # <<"none">> THEN section
                    ELSE FoldLeft(RequestStep, <<>>, [i \in 1..ScanEnd(image_) |-> i])
       IN  IF found = <<"panic">> THEN Fail /\ UNCHANGED requests
           ELSE requests' = found /\ rqPc' = "found"
    /\ UNCHANGED <<image_, section, arch, base_revision_, tagAt, bounds, paging_mode, span, feature, responses, allocations, reported, offered, modules>>

\* Paging modes are numbered from 0; MaxMode is the largest a processor may have.
MaxMode == [x86 |-> 1, riscv |-> 2, aarch64 |-> 0]
NamedModes == [x86 |-> 0..1, riscv |-> 0..2, aarch64 |-> 0..1]
DirectMapFits(a, top, mode) == top < VaQuarter[a][mode + 1]

\* The smallest mode whose direct map holds the span, at most the processor's.
MinSupported(a, top, most) ==
    LET ok == {mode \in 0..most : DirectMapFits(a, top, mode)} IN IF ok = {} THEN -1 ELSE Min(ok)

Default(a, hi) == IF a = "riscv" /\ hi >= 1 THEN 1 ELSE 0

Clamped(mode, lo, hi) == IF mode > hi THEN hi ELSE IF mode < lo THEN lo ELSE mode

\* The paging mode: the processor's limits, then the user's, then the kernel's.
ChooseMode(most, top, umin, umax, pm) ==
    /\ rqPc = "found"
    /\ LET least == MinSupported(arch, top, most)
           hi == Min({umax, most})
           lo == Max({umin, least})
           asked == "paging_mode" \in ToSet(requests)
           klo == IF pm.revision >= 1 THEN pm.min ELSE 0
           khi == IF pm.revision >= 1 THEN pm.max ELSE pm.mode
           wanted == Clamped(pm.mode, lo, hi)
       IN  IF \/ least = -1 \/ umax < umin \/ umax < least \/ umin > hi
              \/ asked /\ (khi < klo \/ (wanted > khi /\ khi < lo) \/ (wanted < klo /\ klo > hi))
           THEN Fail /\ UNCHANGED <<paging_mode, bounds, span>>
           ELSE /\ paging_mode' = IF asked THEN Max({Min({wanted, khi}), klo}) ELSE Default(arch, hi)
                /\ bounds' = [lo |-> lo, hi |-> hi, klo |-> klo, khi |-> khi, asked |-> asked]
                /\ span' = top
                /\ rqPc' = "mode"
    /\ UNCHANGED <<image_, section, arch, base_revision_, tagAt, requests, feature, responses, allocations, reported, offered, modules>>

\* The mode is set; the image, the limits and the span are not used again.
SetPagingMode ==
    /\ rqPc = "mode"
    /\ responses' = IF bounds.asked THEN {"paging_mode"} ELSE {}
    /\ allocations' = IF bounds.asked THEN 2 ELSE 1        \* and the file of the kernel
    /\ image_' = <<>> /\ section' = <<>> /\ tagAt' = 0 /\ bounds' = NoBounds /\ span' = 0
    /\ rqPc' = "features"
    /\ UNCHANGED <<arch, base_revision_, requests, paging_mode, feature, reported, offered, modules>>

\* The features up to the page tables, in the order of the code, and those after.
Features == <<"entry_point", "bootloader_info", "executable_cmdline", "firmware_type", "executable_address", "hhdm", "rsdp", "smbios",
              "efi_system_table", "dtb", "stack_size", "executable_file", "module", "framebuffer", "date_at_boot", "stack",
              "bootloader_performance", "efi_memmap", "pagemap", "mp", "bsp_hartid", "memmap">>
\* What the machine may lack, or be built without: no answer then.
Optional == {"rsdp", "smbios", "efi_system_table", "dtb", "framebuffer", "bootloader_performance", "efi_memmap", "mp", "bsp_hartid"}
Current == Features[feature]
Wanted == Current \in ToSet(requests)
NextFeature == IF feature < Len(Features) THEN feature' = feature + 1 /\ UNCHANGED rqPc ELSE rqPc' = "spinup" /\ UNCHANGED feature

\* One feature: the response is allocated and the request points to it.
Respond(features, available) ==
    /\ rqPc = "features"
    /\ Current \in features
    /\ ~available => Current \in Optional
    /\ IF Wanted /\ available
       THEN responses' = responses \cup {Current} /\ allocations' = allocations + 1
       ELSE UNCHANGED <<responses, allocations>>
    /\ NextFeature
    /\ UNCHANGED <<image_, section, arch, base_revision_, tagAt, requests, bounds, paging_mode, span, reported, offered, modules>>

\* What is known without the firmware, and its RSDP and SMBIOS tables.
AnswerKnown(available) ==
    Respond({"entry_point", "bootloader_info", "executable_cmdline", "firmware_type", "executable_address", "hhdm", "rsdp", "smbios"}, available)
\* EFI system table, device tree, stack size, the executable's file.
AnswerTables(available) == Respond({"efi_system_table", "dtb", "stack_size", "executable_file"}, available)
AnswerScreen(available) == Respond({"framebuffer", "date_at_boot"}, available)
\* Around efi_exit_boot_services().
AnswerExit(available) == Respond({"bootloader_performance", "efi_memmap"}, available)
\* Once the page tables are there, the other processors are started.
AnswerProcessors(available) == Respond({"mp", "bsp_hartid"}, available)

\* The stack of the kernel and the page tables are allocated for everyone.
Allocate ==
    /\ rqPc = "features" /\ Current \in {"stack", "pagemap"}
    /\ allocations' = allocations + 1
    /\ NextFeature
    /\ UNCHANGED <<image_, section, arch, base_revision_, tagAt, requests, bounds, paging_mode, span, responses, reported, offered, modules>>

\* Internal modules come first, then the configured ones.
ModuleAt(o, i) == IF i <= Len(o.internal) THEN o.internal[i] ELSE o.config[i - Len(o.internal)]

\* Modules: one that is missing is an error if it is required.
LoadModules(o) ==
    /\ rqPc = "features" /\ Current = "module"
    /\ LET n == Len(o.internal) + Len(o.config)
           all == [i \in 1..n |-> ModuleAt(o, i)]
       IN  IF ~Wanted \/ n = 0 THEN NextFeature /\ UNCHANGED <<responses, allocations, offered, modules>>
           ELSE /\ offered' = o
                /\ IF \E i \in DOMAIN all : ~all[i].found /\ all[i].required
                   THEN Fail /\ UNCHANGED <<feature, responses, allocations, modules>>
                   ELSE /\ modules' = SelectSeq(all, LAMBDA x : x.found)
                        /\ responses' = responses \cup {"module"}
                        /\ allocations' = allocations + 1 + Len(modules')
                        /\ NextFeature
    /\ UNCHANGED <<image_, section, arch, base_revision_, tagAt, requests, bounds, paging_mode, span, reported>>

\* The map is taken first, then the memory for the response.
ReportMap_Fault ==
    /\ rqPc = "features" /\ Current = "memmap"
    /\ IF Wanted
       THEN allocations' = allocations + 1 /\ reported' = allocations /\ responses' = responses \cup {"memmap"}
       ELSE UNCHANGED <<allocations, reported, responses>>
    /\ NextFeature
    /\ UNCHANGED <<image_, section, arch, base_revision_, tagAt, requests, bounds, paging_mode, span, offered, modules>>

\* The memory map, the last feature: get_memmap() closes the map.
ReportMap ==
    /\ rqPc = "features" /\ Current = "memmap"
    /\ IF Wanted
       THEN allocations' = allocations + 1 /\ reported' = allocations' /\ responses' = responses \cup {"memmap"}
       ELSE UNCHANGED <<allocations, reported, responses>>
    /\ NextFeature
    /\ UNCHANGED <<image_, section, arch, base_revision_, tagAt, requests, bounds, paging_mode, span, offered, modules>>

KernelModes == {[revision |-> 0, mode |-> n, min |-> 0, max |-> 0] : n \in 0..3}
          \cup {[revision |-> 1, mode |-> n, min |-> a, max |-> b] : n \in 0..2, a, b \in 0..2}

RqNext ==
    \/ rqPc = "start" /\ \E img \in Images, sec \in Sections, a \in {"x86", "riscv", "aarch64"} : StartLoad(img, sec, a)
    \/ FindRevision \/ FindRequests
    \/ rqPc = "found" /\ \E most \in 0..MaxMode[arch], top \in SpanTops, pm \in KernelModes :
         /\ "paging_mode" \notin ToSet(requests) => pm.revision = 0 /\ pm.mode = 0
         /\ \E umin, umax \in NamedModes[arch] : ChooseMode(most, top, umin, umax, pm)
    \/ SetPagingMode
    \/ \E available \in BOOLEAN :
         AnswerKnown(available) \/ AnswerTables(available) \/ AnswerScreen(available) \/ AnswerExit(available) \/ AnswerProcessors(available)
    \/ Allocate
    \/ \E o \in Modules : LoadModules(o)
    \/ ReportMap

RqSpec == RqInit /\ [][RqNext]_rqVars
-----------------------------------------------------------------------------
\* The base revision and the requests are those between the markers, whatever
\* else in the image looks like one, each request once.
ScanRespectsTheMarkers ==
    rqPc = "found" =>
      LET from == Max({i \in 1..ScanEnd(image_) : image_[i].kind = "start"} \cup {0})
          named(k) == {i \in (from + 1)..ScanEnd(image_) : image_[i].kind = k}
      IN  /\ tagAt \in named("tag") \/ (named("tag") = {} /\ base_revision_ = 0)
          /\ tagAt # 0 => base_revision_ = Min({image_[tagAt].value, SUPPORTED_BASE_REVISION})
          /\ (section = <<"none">> \/ base_revision_ # 0) =>
               /\ ToSet(requests) = {image_[i].value : i \in named("request")}
               /\ Len(requests) = Cardinality(ToSet(requests))

\* A mode settled with the kernel is within the limits of the processor, of the
\* user and of the kernel, and its direct map holds the memory.
PagingModeIsAgreed ==
    rqPc = "mode" /\ bounds.asked =>
      /\ paging_mode >= bounds.lo /\ paging_mode <= bounds.hi
      /\ paging_mode >= bounds.klo /\ paging_mode <= bounds.khi
      /\ DirectMapFits(arch, span, paging_mode)

\* The kernel is told of everything in memory: nothing is allocated between
\* get_memmap() and the hand-over.
ReportedMapIsFinal ==
    rqPc = "spinup" /\ reported # -1 => reported = allocations

\* The modules handed over are those that were found, the kernel's own first,
\* and none that is required is missing.
ModulesAreInOrder ==
    "module" \in responses =>
      /\ modules = SelectSeq(offered.internal, LAMBDA x : x.found) \o SelectSeq(offered.config, LAMBDA x : x.found)
      /\ \A i \in DOMAIN offered.config : offered.config[i].required => offered.config[i].found

\* The kernel's requests are found, agreed on and answered from the final state of the loader.
RequestsAreAnswered ==
    /\ ScanRespectsTheMarkers
    /\ PagingModeIsAgreed
    /\ ReportedMapIsFinal
    /\ ModulesAreInOrder
=============================================================================
