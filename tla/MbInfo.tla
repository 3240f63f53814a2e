------------------------------- MODULE MbInfo -------------------------------
(***************************************************************************)
(* What the Multiboot loaders tell the kernel (limine/common/protos/       *)
(* multiboot1.c and multiboot2.c): the tags of the Multiboot 2 header are  *)
(* read, the load addresses worked out, the size of the boot information   *)
(* is computed in advance, and its pieces are written one after the other  *)
(* into the block.  Sizes are in bytes.                                    *)
(***************************************************************************)
EXTENDS Integers, Sequences, FiniteSets, FiniteSetsExt, SequencesExt

CONSTANTS MEMMAP_MAX, EFI_MEMMAP_MAX, DHCP_ACK_PACKET_LEN,
          HeaderTags,    \* sequences of [tag, required]
          InfoConfigs,   \* what there is to tell, see the fields used below
          AddressTags    \* [load_addr, header_addr, load_end_addr, bss_end_addr, offset, file]

VARIABLES mbiProto, mbiHeader, mbiCfg,
          mbiRequired,   \* is_new_acpi_required and its like
          mbiSize,       \* mb1_info_size, mb2_info_size
          info_idx, mbiTags,
          mbiLoad,       \* [src, addr, size, full] of the address tag
          mbiPc          \* "off", "header", "tags", "done", "addressed", "panic"

mbiVars == <<mbiProto, mbiHeader, mbiCfg, mbiRequired, mbiSize, info_idx, mbiTags, mbiLoad, mbiPc>>

AlignUp(n, a) == ((n + a - 1) \div a) * a
NO_ADDR == -1
NoLoad == [src |-> 0, addr |-> 0, size |-> 0, full |-> 0]
SumOver(s, f(_)) == MapThenSumSet(LAMBDA i : f(s[i]), DOMAIN s)

MbiInit ==
    /\ mbiProto = 0 /\ mbiHeader = <<>> /\ mbiCfg = 0 /\ mbiRequired = {} /\ mbiSize = 0
    /\ info_idx = 0 /\ mbiTags = <<>> /\ mbiLoad = NoLoad /\ mbiPc = "off"

\* get_multiboot1_info_size(), with the sizes of its fixed parts.
get_multiboot1_info_size(c) ==
    128 + AlignUp(c.cmdline + 1, 16) + 16 + AlignUp(40 * c.sections, 16) + AlignUp(16 * Len(c.modules), 16)
        + SumOver(c.modules, LAMBDA len : AlignUp(len + 1, 16)) + AlignUp(24 * MEMMAP_MAX, 16)


get_multiboot2_info_size(c) ==
    8 + AlignUp(8 + c.cmdline + 1, 8) + 24 + 40 + AlignUp(44, 8) + AlignUp(28, 8) + AlignUp(20 + 40 * c.sections, 8)
      + AlignUp(SumOver(c.modules, LAMBDA len : 16 + len + 1), 8) + 16
      + AlignUp(SumOver(c.smbios, LAMBDA len : 16 + len), 8) + 16 + AlignUp(16 + 24 * MEMMAP_MAX, 8)
      + AlignUp(16 + 40 * EFI_MEMMAP_MAX, 8) + 16 + 16 + AlignUp(8 + DHCP_ACK_PACKET_LEN, 8) + 8

Requestable == {"acpi_new", "acpi_old", "elf", "framebuffer"}

\* A tag that may be ignored; one that must not panics if it is not known.
Understood == Requestable \cup {"module_align", "console", "entry", "relocatable"}

\* Requests are remembered; a later request for the same thing decides.
Requested(header) ==
    {r \in Requestable : \E i \in DOMAIN header :
        header[i].tag = r /\ header[i].required /\ \A j \in DOMAIN header : j > i => header[j].tag # r}

ReadHeader(proto, header, c) ==
    /\ mbiPc = "off"
    /\ mbiProto' = proto /\ mbiHeader' = header /\ mbiCfg' = c
    /\ mbiRequired' = IF proto = 2 THEN Requested(header) ELSE {}
    /\ mbiPc' = IF proto = 2 /\ \E i \in DOMAIN header : header[i].required /\ header[i].tag \notin Understood
                THEN "panic" ELSE "header"
    /\ UNCHANGED <<mbiSize, info_idx, mbiTags, mbiLoad>>

AllocInfo ==
    /\ mbiPc = "header"
    /\ mbiSize' = IF mbiProto = 1 THEN get_multiboot1_info_size(mbiCfg) ELSE get_multiboot2_info_size(mbiCfg)
    /\ info_idx' = IF mbiProto = 1 THEN 0 ELSE 8
    /\ mbiPc' = "tags"
    /\ UNCHANGED <<mbiProto, mbiHeader, mbiCfg, mbiRequired, mbiTags, mbiLoad>>

T(kind, size) == <<[kind |-> kind, size |-> size, written |-> size]>>
When(condition, tags) == IF condition THEN tags ELSE <<>>
ForEach(s, f(_)) == FlattenSeq([i \in DOMAIN s |-> f(s[i])])

\* The pieces of a Multiboot 1 block, in the order they are taken from it.
Pieces(c) ==
    T("info", 116) \o When(c.sections > 0, T("elf", 40 * c.sections))
    \o When(c.modules # <<>>, T("mods", 16 * Len(c.modules))) \o ForEach(c.modules, LAMBDA len : T("module", len + 1))
    \o T("cmdline", c.cmdline + 1) \o T("brand", 13) \o T("mmap", 24 * c.mmap)

\* The tags of a Multiboot 2 block, in the order they are written.
KernelTags(c) ==
    When(c.sections > 0, T("elf", 20 + 40 * c.sections)) \o When(c.relocatable, T("load_base", 12))
    \o ForEach(c.modules, LAMBDA len : T("module", 16 + len + 1)) \o T("cmdline", 8 + c.cmdline + 1)

LoaderTags(c) ==
    T("brand", 8 + 13) \o When(c.uefi, T("efi64_ih", 16)) \o When(c.framebuffer \/ ~c.uefi, T("framebuffer", 38))
    \o When(c.acpi_new, T("acpi_new", 44)) \o When(c.acpi_old, T("acpi_old", 28))

\* The size of an SMBIOS tag leaves out the table copied behind it.
FirmwareTags(c) ==
    ForEach(c.smbios, LAMBDA len : <<[kind |-> "smbios", size |-> 16, written |-> 16 + len]>>)
    \o When(c.uefi, T("efi64", 16)) \o T("mmap", 16 + 24 * c.mmap) \o T("meminfo", 16)
    \o When(c.uefi, T("efi_mmap", 16 + 40 * c.efi_mmap)) \o When(c.dhcp, T("network", 8 + DHCP_ACK_PACKET_LEN))
    \o T("end", 8)

Tags(c) == KernelTags(c) \o LoaderTags(c) \o FirmwareTags(c)

\* What cannot be told although the header insists.
Missing(c) ==
    (IF c.sections = 0 THEN {"elf"} ELSE {}) \cup (IF c.framebuffer \/ ~c.uefi THEN {} ELSE {"framebuffer"})
    \cup (IF c.acpi_new THEN {} ELSE {"acpi_new"}) \cup (IF c.acpi_old THEN {} ELSE {"acpi_old"})

\* mb1_info_alloc() and append_tag(): what follows starts at the next boundary.
Advance(size) == AlignUp(size, IF mbiProto = 1 THEN 16 ELSE 8)

append_tag ==
    LET tags == IF mbiProto = 1 THEN Pieces(mbiCfg) ELSE Tags(mbiCfg)
        n    == Len(mbiTags) + 1
        tag  == tags[n]
        refused == (mbiRequired \cap Missing(mbiCfg) # {}) \/ mbiCfg.mmap > MEMMAP_MAX \/ mbiCfg.efi_mmap > EFI_MEMMAP_MAX
    IN  /\ mbiPc = "tags"
        /\ \/ refused = TRUE /\ mbiPc' = "panic" /\ UNCHANGED <<info_idx, mbiTags>>
           \/ /\ ~refused
              /\ mbiTags' = Append(mbiTags, [kind |-> tag.kind, at |-> info_idx, written |-> tag.written])
              /\ info_idx' = info_idx + Advance(tag.size)
              /\ mbiPc' = IF n = Len(tags) THEN "done" ELSE "tags"
        /\ UNCHANGED <<mbiProto, mbiHeader, mbiCfg, mbiRequired, mbiSize, mbiLoad>>

\* Where in the file the image starts: Multiboot 1 subtracts unchecked.
LoadSource(p, a) == IF a.load_addr # NO_ADDR THEN a.offset - (a.header_addr - a.load_addr) ELSE 0

\* The address tag (Multiboot 2) or the address fields (Multiboot 1).
LoadByAddress(p, a) ==
    LET src  == LoadSource(p, a)
        addr == IF a.load_addr # NO_ADDR THEN a.load_addr ELSE a.header_addr - a.offset
        size == IF a.load_end_addr # 0 THEN a.load_end_addr - addr ELSE IF p = 1 THEN a.file ELSE a.file - src
        bss  == IF a.bss_end_addr # 0 THEN a.bss_end_addr - (addr + size) ELSE 0
        refused == \/ a.load_addr # NO_ADDR /\ a.load_addr > a.header_addr
                   \/ a.bss_end_addr # 0 /\ bss < 0
                   \/ p = 2 /\ (src < 0 \/ addr < 0 \/ size < 0 \/ src > a.file)
    IN  /\ mbiPc = "off"
        /\ p = 1 => a.load_addr # NO_ADDR
        /\ mbiProto' = p
        /\ mbiCfg' = a
        /\ mbiPc' = IF refused = TRUE THEN "panic" ELSE "addressed"
        /\ mbiLoad' = IF refused = TRUE THEN NoLoad ELSE [src |-> src, addr |-> addr, size |-> size, full |-> size + bss]
        /\ UNCHANGED <<mbiHeader, mbiRequired, mbiSize, info_idx, mbiTags>>

MbiNext ==
    \/ mbiPc = "off" /\ \E p \in 1..2, h \in HeaderTags, c \in InfoConfigs : ReadHeader(p, h, c)
    \/ AllocInfo \/ append_tag
    \/ mbiPc = "off" /\ \E p \in 1..2, a \in AddressTags : LoadByAddress(p, a)

MbiSpec == MbiInit /\ [][MbiNext]_mbiVars
-----------------------------------------------------------------------------
\* The block allocated in advance holds everything written into it: always in
\* Multiboot 1, and in Multiboot 2 with at most one module, whose padding is the
\* only thing the computed size leaves out (get_multiboot2_info_size).
InfoFits ==
    mbiPc \in {"tags", "done"} /\ (mbiProto = 1 \/ Len(mbiCfg.modules) <= 1) =>
      info_idx <= mbiSize /\ \A i \in DOMAIN mbiTags : mbiTags[i].at + mbiTags[i].written <= mbiSize

\* No tag is written over an earlier one, SMBIOS tables excepted (append_tag).
TagsAreWhole ==
    \A i \in 1..(Len(mbiTags) - 1) :
        mbiTags[i].kind # "smbios" => mbiTags[i].at + mbiTags[i].written <= mbiTags[i + 1].at

\* A kernel is started without something its header requires only if a later
\* tag of the header asked for the same thing as optional.
RequiredTagsArePresent ==
    mbiPc = "done" /\ mbiProto = 2 =>
      \A i \in DOMAIN mbiHeader :
          /\ mbiHeader[i].required /\ mbiHeader[i].tag \in Requestable
          /\ \A j \in DOMAIN mbiHeader : j > i => mbiHeader[j].tag # mbiHeader[i].tag
          => \E t \in DOMAIN mbiTags : mbiTags[t].kind = mbiHeader[i].tag

\* The header of the kernel ends up at the address it gives itself, and a Multiboot
\* 2 image without an explicit end comes from inside the file (LoadByAddress).
HeaderLandsWhereItSays ==
    mbiPc = "addressed" =>
      /\ mbiLoad.addr + (mbiCfg.offset - mbiLoad.src) = mbiCfg.header_addr
      /\ mbiProto = 2 /\ mbiCfg.load_end_addr = 0 => mbiLoad.src >= 0 /\ mbiLoad.src + mbiLoad.size <= mbiCfg.file

=============================================================================
