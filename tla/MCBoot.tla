------------------------------- MODULE MCBoot -------------------------------
(***************************************************************************)
(* The components of the boot loader and the kernel's mode record, which    *)
(* outlives a power failure, on small instances.  They share no state, so   *)
(* one of them is chosen and runs while the others rest: their state spaces *)
(* add instead of multiplying.                                              *)
(***************************************************************************)
EXTENDS Mode, Memmap, Config, Menu, Editor, Multiboot, MbInfo, Elf, Volume, Handles, Pagemap, Requests

\* Mode: the sequence number of the stored record is about to wrap to zero.
MCFirstSequences == {255}

\* Memmap
E(b, t, ty) == Entry_(b, t - b, ty)
MCE820 == {
  <<E(0, 10, "USABLE"), E(10, 12, "RESERVED"), E(12, 18, "USABLE"), E(18, 20, "RESERVED"), E(20, 26, "USABLE")>>,
  <<E(12, 19, "USABLE"), E(0, 11, "USABLE"), E(17, 20, "RESERVED"), E(8, 13, "ACPI_NVS")>>,
  <<E(11, 17, "USABLE"), E(0, 9, "USABLE"), E(17, 19, "ACPI_RECLAIMABLE"), E(19, 25, "USABLE")>> }
MCEfi == {
  <<E(0, 4, "Conventional"), E(4, 6, "BootServices"), E(6, 8, "Loader"), E(8, 20, "Conventional"), E(20, 24, "Runtime")>>,
  <<E(0, 2, "Runtime"), E(2, 10, "Conventional"), E(10, 12, "Loader"), E(12, 12, "AcpiNvs"), E(12, 14, "AcpiReclaim"), E(14, 22, "Conventional"), E(22, 24, "AcpiNvs")>> }
MCFixed == {[range |-> E(14, 16, "BOOTLOADER_RECLAIMABLE"), overlay |-> "USABLE", new_entry |-> FALSE],
            [range |-> E(26, 27, "FRAMEBUFFER"), overlay |-> "ANY", new_entry |-> TRUE]}
MCImage2 == E(6, 8, "Loader")

\* Config
Tk(kind, s, w) == [t |-> kind, s |-> s, w |-> w]
Ln(k, depth, plus, key, text) == [k |-> k, depth |-> depth, plus |-> plus, key |-> key, text |-> text]
MCLines == {
  Ln("entry", 1, TRUE, "", <<Tk("lit", "a", 1)>>),
  Ln("entry", 2, FALSE, "", <<Tk("use", "M", 1)>>),
  Ln("entry", 1, FALSE, "", <<>>),
  Ln("option", 0, FALSE, "timeout", <<Tk("lit", "5", 1)>>),
  Ln("option", 0, FALSE, "module_path", <<Tk("use", "M", 1), Tk("use", "M", 1), Tk("use", "M", 1), Tk("use", "M", 1), Tk("use", "M", 1), Tk("use", "M", 1), Tk("use", "M", 1)>>),
  Ln("option", 0, FALSE, "module_string", <<Tk("lit", "s", 1)>>),
  Ln("option", 0, FALSE, "module_string", <<Tk("unclosed", "", 0)>>),
  Ln("def", 0, FALSE, "M", <<Tk("lit", "v", 1)>>),
  Ln("def", 0, FALSE, "M", <<Tk("lit", "w", 200)>>) }
St(type, size, terminated, config) == [type |-> type, size |-> size, terminated |-> terminated, config |-> config]
MCTables == { NoTable,
  [length |-> 9, count |-> 0, structs |-> <<St(1, 4, TRUE, FALSE), St(11, 5, TRUE, FALSE), St(11, 5, TRUE, TRUE)>>],
  [length |-> 9, count |-> 1, structs |-> <<St(1, 4, TRUE, FALSE), St(11, 4, TRUE, TRUE)>>],
  [length |-> 9, count |-> 0, structs |-> <<St(11, 4, TRUE, FALSE), St(11, 4, TRUE, TRUE)>>],
  [length |-> 6, count |-> 0, structs |-> <<St(2, 4, TRUE, FALSE), St(11, 4, TRUE, TRUE)>>],
  [length |-> 9, count |-> 0, structs |-> <<St(2, 4, TRUE, FALSE), St(3, 6, TRUE, FALSE), St(127, 4, TRUE, FALSE)>>],
  [length |-> 9, count |-> 2, structs |-> <<St(2, 4, TRUE, FALSE), St(127, 4, TRUE, TRUE)>>] }

\* Menu
M(parent, foreign, plus) == [parent |-> parent, foreign |-> foreign, plus |-> plus]
MCMenus == {
  <<M(0, FALSE, FALSE), M(0, FALSE, FALSE), M(2, FALSE, FALSE), M(2, TRUE, FALSE), M(0, FALSE, FALSE)>>,
  <<M(0, FALSE, TRUE), M(1, FALSE, FALSE), M(2, FALSE, FALSE), M(0, TRUE, FALSE), M(0, FALSE, FALSE)>>,
  <<M(0, TRUE, FALSE)>> }

\* Editor
MCOrig == {<<>>, <<NL, "a", NL, "a">>, <<"a", "a", "a", "a", "a", "a">>}

\* Multiboot
MCMems == {0..9, (0..9) \ {4}, 0..6}
K(t, l, r, mn, mx, a) == [target |-> t, length |-> l, reloc |-> r, min |-> mn, max |-> mx, align |-> a]
MCKernels == {K(t, l, 0, 0, 0, 1) : t \in {0, 1, 2, 3, 4, 5, 6}, l \in {1, 3, 6}} \cup
             {K(1, 3, 1, mn, mx, a) : mn \in {0, 3, 8}, mx \in {6, 12}, a \in {1, 4}}

\* MbInfo
Tg(t, r) == [tag |-> t, required |-> r]
MCTags == {Tg(t, r) : t \in Requestable, r \in BOOLEAN} \cup {Tg("custom", TRUE), Tg("custom", FALSE), Tg("console", TRUE)}
MCHeaders == {<<>>} \cup {<<a>> : a \in MCTags} \cup {<<Tg("acpi_old", r), Tg("acpi_old", q)>> : r, q \in BOOLEAN}
              \cup {<<Tg("elf", TRUE), Tg("framebuffer", r)>> : r \in BOOLEAN}
Full == [cmdline |-> 5, modules |-> <<0, 0, 2>>, sections |-> 1, relocatable |-> TRUE, uefi |-> TRUE, framebuffer |-> TRUE,
         acpi_new |-> TRUE, acpi_old |-> TRUE, smbios |-> <<>>, mmap |-> MEMMAP_MAX, efi_mmap |-> EFI_MEMMAP_MAX, dhcp |-> TRUE]
MCInfos == {Full, [Full EXCEPT !.modules = <<1>>], [Full EXCEPT !.modules = <<3>>, !.cmdline = 0, !.mmap = MEMMAP_MAX + 1],
            [Full EXCEPT !.modules = <<>>, !.smbios = <<31, 24>>], [Full EXCEPT !.modules = <<7>>, !.acpi_new = FALSE, !.acpi_old = FALSE],
            [Full EXCEPT !.sections = 0, !.framebuffer = FALSE, !.mmap = 0, !.modules = <<2, 8>>, !.dhcp = FALSE],
            [Full EXCEPT !.uefi = FALSE, !.framebuffer = FALSE, !.efi_mmap = 0, !.modules = <<4>>, !.relocatable = FALSE]}
MCAddrs == [load_addr : {NO_ADDR, 0, 4, 6}, header_addr : {2, 4, 7}, load_end_addr : {0, 5, 9}, bss_end_addr : {0, 8, 12}, offset : {0, 2, 4}, file : {6, 8}]

\* Elf
Sg(v, p, fs, ms, fl, al) == [vaddr |-> v, paddr |-> p, filesz |-> fs, memsz |-> ms, flags |-> fl, align |-> al]
Rl(a, k, s, d) == [addr |-> a, kind |-> k, sym |-> s, addend |-> d]
Ad(a) == [addr |-> a, bits |-> {0}]
Bm(b) == [addr |-> 0, bits |-> b]
Sy(b, v) == [bind |-> b, value |-> v]
Base(t, dn, segs) == [type |-> t, dynamic |-> dn, segs |-> segs, entry |-> 49, relr |-> <<>>, rela |-> <<>>, jmprel |-> <<>>, syms |-> <<>>]
\* Pairs of segments, ascending, with and without gaps, bss and shared pages.
MCSegs == {<<Sg(48, p, fa, ma, 1, al), Sg(v, 2, 2, mb, fl, 2)>> : p \in {1, 50}, fa \in {1, 2, 4}, ma \in {2, 3}, v \in {50, 51, 52}, mb \in {2, 4}, fl \in {1, 3}, al \in {1, 2}}
MCLow == {<<Sg(1, 1, 3, 4, 1, a), Sg(v, 1, 2, 3, 1, 2)>> : a \in {1, 2}, v \in {5, 6, 50}}
MCReloc == {[Base("dyn", 1, sg) EXCEPT !.relr = rr, !.rela = ra, !.jmprel = jr, !.syms = <<Sy("defined", 3), Sy("weak", 0), Sy("undefined", 0)>>] :
              sg \in {<<Sg(2, 2, 3, 4, 1, 2), Sg(6, 6, 4, 5, 3, 2)>>, <<Sg(48, 1, 3, 3, 1, 1), Sg(52, 9, 4, 6, 3, 2)>>},
              rr \in {<<>>, <<Ad(2), Bm({1, 2}), Bm({2, 3})>>, <<Ad(48), Bm({2}), Bm({1, 3}), Ad(56)>>},
              ra \in {<<>>, <<Rl(3, "relative", 0, 7), Rl(53, "relative", 0, 5), Rl(6, "none", 0, 0)>>, <<Rl(8, "abs64", 1, 4), Rl(54, "glob_dat", 2, 0)>>},
              jr \in {<<>>, <<Rl(8, "glob_dat", 1, 0)>>, <<Rl(53, "glob_dat", 3, 0)>>, <<Rl(53, "abs64", 4, 0)>>}}
MCFiles == {Base(t, 1, sg) : t \in {"exec", "dyn"}, sg \in MCSegs} \cup {Base(t, d, sg) : t \in {"exec", "dyn", "rel"}, d \in 0..1, sg \in MCLow} \cup MCReloc

\* Volume
MCGuesses == <<1, 2>>
Gp(a, b, t) == [type |-> t, first |-> a, last |-> b, count |-> 0]
Mb(a, n, t) == [type |-> t, first |-> a, last |-> 0, count |-> n]
Eb(t, f, n, lt, l) == [type |-> t, first |-> f, count |-> n, ltype |-> lt, link |-> l]
Tb(k, lb, v, e, x) == [kind |-> k, lb |-> lb, valid |-> v, entries |-> e, ebr |-> x]
NoEbr == [s \in {} |-> 0]
Dv(sz, tl, ln, bd, w, rm, t) == [size |-> sz, tail |-> tl, len |-> ln, bad |-> bd, writable |-> w, removable |-> rm, logical |-> FALSE, table |-> t]
Tables == {Tb("none", 0, FALSE, <<>>, NoEbr),
  Tb("gpt", 1, TRUE, <<Gp(5, 6, 1), Gp(0, 0, 0), Gp(7, 9, 1), Gp(9, 8, 1)>>, NoEbr),
  Tb("gpt", 2, TRUE, <<Gp(3, 3, 1), Gp(4, 4, 1)>>, NoEbr),
  Tb("gpt", 1, FALSE, <<Gp(5, 6, 1)>>, NoEbr),
  Tb("mbr", 0, TRUE, <<Mb(1, 2, 1), Mb(4, 6, Extended), Mb(0, 0, 0), Mb(3, 1, 1)>>, (4 :> Eb(1, 1, 1, Extended, 2)) @@ (6 :> Eb(0, 0, 0, Extended, 4)) @@ (8 :> Eb(1, 1, 1, 0, 0))),
  Tb("mbr", 0, TRUE, <<Mb(1, 2, 1), Mb(4, 6, Extended), Mb(0, 0, 0), Mb(2, 0, 1)>>, (4 :> Eb(1, 1, 1, Extended, 2)) @@ (6 :> Eb(1, 1, 1, Extended, 4)) @@ (8 :> Eb(1, 1, 1, Extended, 2)))}
Plain == Tb("none", 0, FALSE, <<>>, NoEbr)
One == {Dv(1, <<tl>>, 4, {}, w, rm, Plain) : tl \in {0, 255, 7}, w \in BOOLEAN, rm \in BOOLEAN}
         \cup {Dv(1, <<7>>, 9, bd, TRUE, FALSE, t) : bd \in {{}, {3}, {0}}, t \in Tables}
Two == {Dv(2, tl, 5, {}, TRUE, FALSE, t) : tl \in {<<7, 0>>, <<7, 255>>}, t \in Tables}
         \cup {Dv(2, <<7, 7>>, 5, {2}, TRUE, FALSE, t) : t \in Tables} \cup {Dv(2, <<7, 0>>, 5, {}, FALSE, FALSE, Plain)}
MCDrives == {<<d>> : d \in One \cup Two} \cup {<<Dv(1, <<7>>, 4, {}, TRUE, r, Plain), [d EXCEPT !.logical = ~r]>> : r \in BOOLEAN, d \in {x \in Two : x.tail = <<7, 0>> /\ x.table.kind # "gpt"}}

\* Handles
Vl(p, l) == [place |-> p, large |-> l]
Hn(p, l, d, s) == [place |-> p, large |-> l, hdd |-> d, skip |-> s]
MCMachines == {[vols |-> <<Vl(1, TRUE), Vl(2, l), Vl(3, TRUE)>>, handles |-> <<Hn(a, a # 2 \/ l, d, FALSE), Hn(b, TRUE, TRUE, s)>>, content |-> c] :
   l \in BOOLEAN, a \in 1..3, b \in {1, 3}, d \in BOOLEAN, s \in BOOLEAN,
   c \in {<<"a", "b", "c">>, <<"a", "a", "b">>, <<"a", "b", "a">>, <<"b", "a", "a">>}}
MCThree == {[vols |-> <<Vl(1, TRUE), Vl(2, TRUE), Vl(3, TRUE)>>, handles |-> <<Hn(1, TRUE, TRUE, FALSE)>>, content |-> <<"a", "a", "a">>]}

\* Pagemap
En(b, t, k) == [base |-> b, top |-> t, type |-> k]
Rg(b, n, x, w) == [base |-> b, length |-> n, x |-> x, w |-> w]
MCMemmaps == {<<En(0, 4, "USABLE"), En(5, 7, "BOOTLOADER_RECLAIMABLE"), En(7, 9, t), En(9, c, "EFI_RECLAIMABLE")>> :
                c \in {10, 26}, t \in {"USABLE", "RESERVED"}}
MCFramebuffers == {<<>>, <<En(2, 4, "FRAMEBUFFER"), En(11, 14, "FRAMEBUFFER")>>,
                   <<En(4, 8, "FRAMEBUFFER"), En(7, 12, "FRAMEBUFFER")>>}
MCRanges == {<<Rg(56, 2, FALSE, TRUE), Rg(58, 1, TRUE, FALSE), Rg(60, 4, FALSE, FALSE)>>}

\* Requests
It(k, v) == [kind |-> k, value |-> v]
MCItems == {It("start", 0), It("end", 0), It("tag", 0), It("tag", 5), It("request", "paging_mode")}
MCImages == UNION {[1..n -> MCItems] : n \in 0..3}
       \cup {<<It("request", "hhdm"), It("start", 0), It("request", "hhdm"), It("request", "rsdp"), It("request", "mp"), It("request", "memmap"), It("end", 0), It("request", "module")>>,
             <<It("tag", 1), It("request", "module"), It("request", "paging_mode"), It("request", "memmap"), It("request", "stack_size")>>,
             <<It("request", "module"), It("request", "hhdm"), It("request", "memmap"), It("request", "dtb"), It("request", "mp")>>}
MCSections == {<<"none">>, <<"hhdm", "memmap">>}
MCVaQuarter == [x86 |-> <<8, 16>>, riscv |-> <<4, 8, 16>>, aarch64 |-> <<8>>]
Mo(n, r, f) == [name |-> n, required |-> r, found |-> f]
MCModules == {[internal |-> i, config |-> c] : i \in {<<>>, <<Mo("a", FALSE, FALSE), Mo("b", TRUE, TRUE)>>, <<Mo("a", TRUE, FALSE)>>},
                                               c \in {<<>>, <<Mo("c", TRUE, TRUE), Mo("d", TRUE, TRUE)>>}}

-----------------------------------------------------------------------------
VARIABLE component

\* what a resting Mode holds
EmptyRecord == [header |-> "bad", sequence |-> 255, mode |-> CASUAL, valid |-> 0,
                checksum |-> boot_record_checksum(255, CASUAL, 0)]

bootVars == <<memmapVars, cfgVars, menuVars, edVars, mbVars, mbiVars, elfVars, volVars, hdVars, pgVars, rqVars, vars, component>>

Alone(c) ==
    /\ component = c /\ UNCHANGED component
    /\ IF c = "memmap" THEN TRUE ELSE UNCHANGED memmapVars
    /\ IF c = "config" THEN TRUE ELSE UNCHANGED cfgVars
    /\ IF c = "menu" THEN TRUE ELSE UNCHANGED menuVars
    /\ IF c = "editor" THEN TRUE ELSE UNCHANGED edVars
    /\ IF c = "multiboot" THEN TRUE ELSE UNCHANGED mbVars
    /\ IF c = "mbinfo" THEN TRUE ELSE UNCHANGED mbiVars
    /\ IF c = "elf" THEN TRUE ELSE UNCHANGED elfVars
    /\ IF c = "volume" THEN TRUE ELSE UNCHANGED volVars
    /\ IF c = "handles" THEN TRUE ELSE UNCHANGED hdVars
    /\ IF c = "pagemap" THEN TRUE ELSE UNCHANGED pgVars
    /\ IF c = "requests" THEN TRUE ELSE UNCHANGED rqVars
    /\ IF c = "mode" THEN TRUE ELSE UNCHANGED vars

BootInit ==
    /\ component \in {"memmap", "config", "menu", "editor", "multiboot", "mbinfo", "elf", "volume",
                      "handles", "pagemap", "requests", "mode"}
    /\ MemmapInit /\ CfgInit /\ MenuInit /\ EdInit /\ MbInit /\ MbiInit /\ ElfInit /\ VolInit
    /\ HdInit /\ PgInit /\ RqInit /\ Init
    /\ component = "mode" \/ cmos = EmptyRecord

BootNext ==
    \/ Alone("memmap") /\ MemmapNext
    \/ Alone("config") /\ CfgNext
    \/ Alone("menu") /\ MenuNext
    \/ Alone("editor") /\ EdNext
    \/ Alone("multiboot") /\ MbNext
    \/ Alone("mbinfo") /\ MbiNext
    \/ Alone("elf") /\ ElfNext
    \/ Alone("volume") /\ VolNext
    \/ Alone("handles") /\ HdNext
    \/ Alone("pagemap") /\ PgNext
    \/ Alone("requests") /\ RqNext
    \/ Alone("mode") /\ Next

BootSpec == BootInit /\ [][BootNext]_bootVars
=============================================================================
