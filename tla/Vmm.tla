-------------------------------- MODULE Vmm --------------------------------
(***************************************************************************)
(* The virtual memory manager of kernel/vmm.c: a region contract is        *)
(* compiled (checked) and then applied to the page tables of a process,    *)
(* page by page, with a rollback when a page table cannot be allocated;    *)
(* vmm_handle_fault populates demand pages and copies copy-on-write pages; *)
(* vmm_fork_pml4 and vmm_destroy_pml4 create and release an address space. *)
(* user_range_valid_and_mapped (kernel/syscall.c) is the check behind      *)
(* every copy to and from user space.                                      *)
(*                                                                         *)
(* The path of tables that get_next_level walks is one level here: a page  *)
(* directory entry per table of PT_PAGES pages.  Frames are numbers; the   *)
(* allocator is a set of free frames and hands out the smallest, since     *)
(* frames are interchangeable (Pmm models which one it is).  A caller that *)
(* maps a page has just allocated the frames, as elf.c and genesis.c do,   *)
(* and frees them again when the mapping fails.  Addresses are numbers of  *)
(* units, VPAGE units to the page.                                         *)
(***************************************************************************)
EXTENDS Integers, FiniteSets, FiniteSetsExt

CONSTANTS
    VmmProcs,         \* processes
    VPAGE,            \* PAGE_SIZE
    PT_PAGES,         \* pages under one page directory entry: 2 MiB / PAGE_SIZE
    KERNEL_VIRT_BASE, \* the first kernel address
    VA_LIMIT,         \* addresses wrap here (2^64)
    VmmFrames,        \* 1..n
    VmmContracts      \* the contracts callers issue

VARIABLES
    vmmRoot,      \* proc->pml4_phys, 0 when the process does not exist
    vmmPd,        \* [proc][table]: page directory entries
    vmmPte,       \* [proc][page]: leaf entries; meaningful under a "table" entry
    vmmFree,      \* the frames pmm_alloc can still hand out
    vmmCr3,       \* the root in CR3, 0 for the kernel's own
    vmmResult     \* the result of the contract that the last step logged

vmmVars == <<vmmRoot, vmmPd, vmmPte, vmmFree, vmmCr3, vmmResult>>

UserPages == 0 .. (KERNEL_VIRT_BASE \div VPAGE) - 1
UserTables == {v \div PT_PAGES : v \in UserPages}
PagesOf(t) == {v \in UserPages : v \div PT_PAGES = t}

NoPde == [kind |-> "none", frame |-> 0, flags |-> {}]
NoPte == [frame |-> 0, flags |-> {}]

-----------------------------------------------------------------------------
(* Walking the tables.                                                      *)

\* vmm_walk_leaf_noalloc: the entry a page's address leads to, if there is a path
vmm_walk_leaf_noalloc(pd, pte, v) ==
    LET e == pd[v \div PT_PAGES] IN
    CASE e.kind = "none" -> NoPte
      [] e.kind = "huge" -> [frame |-> e.frame, flags |-> e.flags]
      [] e.kind = "table" -> pte[v]

IsMapped(pd, pte, v) == "PRESENT" \in vmm_walk_leaf_noalloc(pd, pte, v).flags

user_page_access_ok(p, v, require_write) ==
    LET e == vmm_walk_leaf_noalloc(vmmPd[p], vmmPte[p], v) IN
    /\ {"PRESENT", "USER"} \subseteq e.flags
    /\ require_write => "WRITABLE" \in e.flags

\* the bounds test of user_range_valid_and_mapped, with USER_VA_LIMIT = lim
RangeInside(addr, n, lim) == addr < lim /\ n - 1 <= lim - 1 - addr

user_range_valid_and_mapped(p, addr, n, require_write) ==
    \/ n = 0
    \/ /\ RangeInside(addr, n, KERNEL_VIRT_BASE)
       /\ \A v \in addr \div VPAGE .. (addr + n - 1) \div VPAGE :
             user_page_access_ok(p, v, require_write)

-----------------------------------------------------------------------------
(* Compiling a contract: the checks in the order the code makes them.       *)

CheckMap(c) ==
    LET huge == PT_PAGES * VPAGE IN
    IF c.phys % VPAGE # 0 THEN "ERR_ALIGNMENT"
    ELSE IF "DEMAND" \in c.flags /\ c.flags \cap {"PRESENT", "NX"} # {} THEN "ERR_FLAGS"
    ELSE IF "HUGE" \in c.flags /\ c.len # huge THEN "ERR_LENGTH"
    ELSE IF "HUGE" \in c.flags /\ (c.virt % huge # 0 \/ c.phys % huge # 0) THEN "ERR_ALIGNMENT"
    ELSE IF "USER" \notin c.flags THEN "ERR_POLICY"
    ELSE "OK"

CheckUnmap(c) == IF c.phys # 0 \/ c.flags # {} THEN "ERR_FLAGS" ELSE "OK"

vmm_compile_region_contract(c) ==
    IF c.op \notin {"MAP", "UNMAP"} THEN "ERR_OP"
    ELSE IF c.len = 0 \/ c.len % VPAGE # 0 THEN "ERR_LENGTH"
    ELSE IF c.virt % VPAGE # 0 THEN "ERR_ALIGNMENT"
    ELSE IF (c.virt + c.len) % VA_LIMIT < c.virt THEN "ERR_OVERFLOW"
    ELSE IF c.virt >= KERNEL_VIRT_BASE \/ c.virt + c.len > KERNEL_VIRT_BASE THEN "ERR_POLICY"
    ELSE IF c.op = "MAP" THEN CheckMap(c) ELSE CheckUnmap(c)

-----------------------------------------------------------------------------
(* Applying a compiled contract.  An outcome holds the tables afterwards.   *)

Outcome(pd, pte, free, res) ==
    [pd |-> pd, pte |-> pte, free |-> free, result |-> res]

\* what vmm_map_raw stores in the leaf
LeafFor(flags, frame) ==
    IF "DEMAND" \in flags
    THEN [frame |-> 0, flags |-> flags \cap {"DEMAND", "COW", "USER", "WRITABLE"}]
    ELSE [frame |-> frame, flags |-> flags \cap {"PRESENT", "WRITABLE", "USER", "NX", "COW"}]

\* the tables get_next_level must allocate to reach pages first..last, and the frames it takes
TablesMissing(pd, first, last) ==
    {t \in UserTables : pd[t].kind = "none" /\ \E v \in first..last : v \div PT_PAGES = t}
FrameFor(missing, free, t) ==
    CHOOSE f \in free : Cardinality({g \in free : g < f})
                          = Cardinality({u \in missing : u < t})

\* the number of pages, from the first on, that vmm_map_raw maps before an allocation fails
Reached(pd, free, first, n) ==
    Max({0} \cup {k \in 1..n : Cardinality(TablesMissing(pd, first, first + k - 1))
                                 <= Cardinality(free)})

\* vmm_map_raw on pages first .. first+k-1
MapPages(pd, pte, free, first, k, frame, flags) ==
    LET new == TablesMissing(pd, first, first + k - 1)
        at(t) == FrameFor(new, free, t)
    IN Outcome([t \in UserTables |-> IF t \in new
                  THEN [kind |-> "table", frame |-> at(t), flags |-> {"PRESENT", "WRITABLE", "USER"}]
                  ELSE pd[t]],
               [v \in UserPages |-> IF v \in first .. first + k - 1
                  THEN LeafFor(flags, frame + (v - first))
                  ELSE IF v \div PT_PAGES \in new THEN NoPte ELSE pte[v]],
               free \ {at(t) : t \in new}, "OK")

Rollback(o, first, k) ==
    LET gone == {v \in first .. first + k - 1 : IsMapped(o.pd, o.pte, v)} IN
    [o EXCEPT !.pte = [v \in UserPages |-> IF v \in gone THEN NoPte ELSE o.pte[v]],
              !.result = IF gone = first .. first + k - 1 THEN "ERR_ALLOC" ELSE "ERR_ROLLBACK"]

\* a huge page replaces the directory entry, whatever empty table was there
MapHuge(pd, pte, free, t, frame, flags) ==
    Outcome([pd EXCEPT ![t] = [kind |-> "huge", frame |-> frame,
                               flags |-> flags \cap {"HUGE", "PRESENT", "WRITABLE", "USER", "NX"}]],
            pte, free, "OK")

ApplyMap(pd, pte, free, c) ==
    LET first == c.virt \div VPAGE
        n == c.len \div VPAGE
        k == Reached(pd, free, first, n)
        o == MapPages(pd, pte, free, first, k, c.phys \div VPAGE, c.flags)
    IN IF \E v \in first .. first + n - 1 : IsMapped(pd, pte, v)
       THEN Outcome(pd, pte, free, "ERR_ALREADY_MAPPED")
       ELSE IF "HUGE" \in c.flags
            THEN MapHuge(pd, pte, free, first \div PT_PAGES, c.phys \div VPAGE, c.flags)
       ELSE IF k = n THEN o
       ELSE IF k > 0 THEN Rollback(o, first, k)
       ELSE Outcome(pd, pte, free, "ERR_ALLOC")

\* Clearing the first page of a huge page clears the directory entry, so the next
\* page of the region has no path and the loop stops with ERR_WALK.
ApplyUnmap(pd, pte, free, c) ==
    LET first == c.virt \div VPAGE
        n == c.len \div VPAGE
        pages == first .. first + n - 1
        huge == {t \in UserTables : pd[t].kind = "huge" /\ PagesOf(t) \cap pages # {}}
        bad == {v \in pages : v \div PT_PAGES \in huge /\ v - 1 \in pages
                              /\ (v - 1) \div PT_PAGES = v \div PT_PAGES}
        done == IF bad = {} THEN pages ELSE first .. Min(bad) - 1
    IN IF \E v \in pages : ~IsMapped(pd, pte, v)
       THEN Outcome(pd, pte, free, "ERR_NOT_MAPPED")
       ELSE Outcome([t \in UserTables |-> IF t \in huge /\ PagesOf(t) \cap done # {}
                                          THEN NoPde ELSE pd[t]],
                    [v \in UserPages |-> IF v \in done /\ v \div PT_PAGES \notin huge
                                         THEN NoPte ELSE pte[v]],
                    free, IF bad = {} THEN "OK" ELSE "ERR_WALK")

vmm_apply_compiled_mapping(pd, pte, free, c) ==
    IF c.op = "MAP" THEN ApplyMap(pd, pte, free, c) ELSE ApplyUnmap(pd, pte, free, c)

-----------------------------------------------------------------------------
(* The operations.                                                          *)

NoResult == "NONE"
Live == {p \in VmmProcs : vmmRoot[p] # 0}

VmmInit ==
    /\ vmmRoot = [p \in VmmProcs |-> 0]
    /\ vmmPd = [p \in VmmProcs |-> [t \in UserTables |-> NoPde]]
    /\ vmmPte = [p \in VmmProcs |-> [v \in UserPages |-> NoPte]]
    /\ vmmFree = VmmFrames
    /\ vmmCr3 = 0
    /\ vmmResult = NoResult

vmm_fork_pml4(p) ==
    /\ vmmRoot[p] = 0
    /\ vmmFree # {}
    /\ vmmRoot' = [vmmRoot EXCEPT ![p] = Min(vmmFree)]
    /\ vmmFree' = vmmFree \ {Min(vmmFree)}
    /\ vmmPd' = [vmmPd EXCEPT ![p] = [t \in UserTables |-> NoPde]]
    /\ vmmPte' = [vmmPte EXCEPT ![p] = [v \in UserPages |-> NoPte]]
    /\ vmmResult' = NoResult
    /\ UNCHANGED vmmCr3

\* the runs of n free frames a caller's allocation can return, aligned for a huge page
FreeRuns(n, align) ==
    {f \in vmmFree : f .. f + n - 1 \subseteq vmmFree /\ f % align = 0}

\* vmm_map, and vmm_compile_region_contract followed by vmm_apply_compiled_mapping
vmm_map(p, c) ==
    LET n == IF "DEMAND" \in c.flags THEN 0 ELSE c.len \div VPAGE
        align == IF "HUGE" \in c.flags THEN PT_PAGES ELSE 1
    IN
    /\ p \in Live /\ c.op # "UNMAP"
    /\ n > 0 => FreeRuns(n, align) # {}
    /\ LET f == IF n > 0 THEN Min(FreeRuns(n, align)) ELSE 0
           held == IF n > 0 THEN f .. f + n - 1 ELSE {}
           d == [c EXCEPT !.phys = f * VPAGE + c.phys]
           checked == vmm_compile_region_contract(d)
           o == IF checked = "OK"
                THEN vmm_apply_compiled_mapping(vmmPd[p], vmmPte[p], vmmFree \ held, d)
                ELSE Outcome(vmmPd[p], vmmPte[p], vmmFree \ held, checked)
       IN /\ vmmPd' = [vmmPd EXCEPT ![p] = o.pd]
          /\ vmmPte' = [vmmPte EXCEPT ![p] = o.pte]
          /\ vmmFree' = IF o.result = "OK" THEN o.free ELSE o.free \cup held
          /\ vmmResult' = o.result
    /\ UNCHANGED <<vmmRoot, vmmCr3>>

\* vmm_unmap_region; the caller then frees the frames of the 4 KiB pages it had mapped
vmm_unmap_region(p, c) ==
    LET checked == vmm_compile_region_contract(c)
        o == IF checked = "OK"
             THEN vmm_apply_compiled_mapping(vmmPd[p], vmmPte[p], vmmFree, c)
             ELSE Outcome(vmmPd[p], vmmPte[p], vmmFree, checked)
        gone == {v \in UserPages : /\ vmmPd[p][v \div PT_PAGES].kind = "table"
                                   /\ "PRESENT" \in vmmPte[p][v].flags
                                   /\ o.pte[v] = NoPte}
    IN
    /\ p \in Live /\ c.op = "UNMAP"
    /\ vmmPd' = [vmmPd EXCEPT ![p] = o.pd]
    /\ vmmPte' = [vmmPte EXCEPT ![p] = o.pte]
    /\ vmmFree' = vmmFree \cup {vmmPte[p][v].frame : v \in gone}
    /\ vmmResult' = o.result
    /\ UNCHANGED <<vmmRoot, vmmCr3>>

vmm_switch(p) ==
    /\ p \in Live
    /\ vmmCr3' \in {0, vmmRoot[p]}
    /\ vmmCr3' # vmmCr3
    /\ vmmResult' = NoResult
    /\ UNCHANGED <<vmmRoot, vmmPd, vmmPte, vmmFree>>

\* Case A keeps the placeholder's low bits; case B clears COW and, since NX is not
\* among the low twelve bits, NX with it.
FaultLeaf(entry, new, write) ==
    CASE "PRESENT" \notin entry.flags /\ "DEMAND" \in entry.flags ->
            [frame |-> new, flags |-> entry.flags \cup {"PRESENT"}]
      [] {"PRESENT", "COW"} \subseteq entry.flags /\ write /\ "WRITABLE" \notin entry.flags ->
            [frame |-> new, flags |-> (entry.flags \ {"COW", "NX"}) \cup {"WRITABLE"}]
      [] OTHER -> entry

vmm_handle_fault(p, v, write) ==
    LET entry == vmmPte[p][v]
        new == Min(vmmFree)
        leaf == FaultLeaf(entry, new, write)
    IN
    /\ p \in Live /\ vmmCr3 = vmmRoot[p]
    /\ vmmPd[p][v \div PT_PAGES].kind = "table"
    /\ vmmFree # {}
    /\ leaf # entry
    /\ vmmPte' = [vmmPte EXCEPT ![p][v] = leaf]
    /\ vmmFree' = vmmFree \ {new}
    /\ vmmResult' = NoResult
    /\ UNCHANGED <<vmmRoot, vmmPd, vmmCr3>>

\* the frames destroy_table_recursive gives back: tables, present leaves, and of a
\* huge page its first frame
destroy_table_recursive(p) ==
    {vmmPd[p][t].frame : t \in {u \in UserTables : vmmPd[p][u].kind # "none"}}
      \cup {vmmPte[p][v].frame :
              v \in {u \in UserPages : /\ vmmPd[p][u \div PT_PAGES].kind = "table"
                                       /\ "PRESENT" \in vmmPte[p][u].flags}}

\* process_destroy's part in it: the process is gone even when its tables were active
\* and vmm_destroy_pml4 left them alone
vmm_destroy_pml4(p) ==
    /\ p \in Live
    /\ vmmFree' = IF vmmCr3 = vmmRoot[p] THEN vmmFree
                  ELSE vmmFree \cup destroy_table_recursive(p) \cup {vmmRoot[p]}
    /\ vmmRoot' = [vmmRoot EXCEPT ![p] = 0]
    /\ vmmPd' = [vmmPd EXCEPT ![p] = [t \in UserTables |-> NoPde]]
    /\ vmmPte' = [vmmPte EXCEPT ![p] = [v \in UserPages |-> NoPte]]
    /\ vmmResult' = NoResult
    /\ UNCHANGED vmmCr3

VmmNext ==
    \/ \E p \in VmmProcs : vmm_fork_pml4(p) \/ vmm_switch(p) \/ vmm_destroy_pml4(p)
    \/ \E p \in VmmProcs, c \in VmmContracts : vmm_map(p, c) \/ vmm_unmap_region(p, c)
    \/ \E p \in VmmProcs, v \in UserPages, write \in BOOLEAN : vmm_handle_fault(p, v, write)

-----------------------------------------------------------------------------
(* Properties.                                                              *)

\* the frames process p's tables use, each with the place that uses it
UsesOf(p) ==
    {<<vmmRoot[p], p, "root", 0>>}
      \cup {<<vmmPd[p][t].frame, p, "table", t>> :
              t \in {u \in UserTables : vmmPd[p][u].kind = "table"}}
      \cup {<<vmmPd[p][t].frame + i, p, "huge", t>> :
              t \in {u \in UserTables : vmmPd[p][u].kind = "huge"}, i \in 0 .. PT_PAGES - 1}
      \cup {<<vmmPte[p][v].frame, p, "page", v>> :
              v \in {u \in UserPages : /\ vmmPd[p][u \div PT_PAGES].kind = "table"
                                       /\ "PRESENT" \in vmmPte[p][u].flags}}
Uses == UNION {UsesOf(p) : p \in Live}

\* No frame serves two purposes: whatever the contracts, faults, rollbacks and
\* destructions, a frame in some live process's tables is not free for pmm_alloc and is
\* in one place only (vmm_map, vmm_handle_fault, vmm_destroy_pml4).
PageFramesExclusive ==
    /\ \A u \in Uses : u[1] \notin vmmFree
    /\ \A u, w \in Uses : u[1] = w[1] => u = w

\* vmm_destroy_pml4 never frees the root that CR3 holds ("Never destroy the universe you
\* are currently standing in").
ActiveRootNotFree == vmmCr3 # 0 => vmmCr3 \notin vmmFree

\* A contract that fails leaves every translation as it was: the checks before the loop
\* and the rollback after it make vmm_apply_compiled_mapping all or nothing.  The one
\* exception is ERR_WALK, unmapping a region that holds a huge page.
KeepsTranslations ==
    vmmResult' \notin {"NONE", "OK", "ERR_WALK"} =>
         \A p \in Live, v \in UserPages :
            /\ IsMapped(vmmPd[p], vmmPte[p], v) = IsMapped(vmmPd'[p], vmmPte'[p], v)
            /\ IsMapped(vmmPd[p], vmmPte[p], v) =>
                  vmm_walk_leaf_noalloc(vmmPd[p], vmmPte[p], v)
                    = vmm_walk_leaf_noalloc(vmmPd'[p], vmmPte'[p], v)

\* Destroying an address space that is not active returns every frame its tables hold,
\* except the tail of a huge page, which is freed as a single frame.
ReleasesTables ==
    \A p \in VmmProcs : vmmRoot[p] # 0 /\ vmmRoot'[p] = 0 /\ vmmCr3 # vmmRoot[p] =>
         \A u \in UsesOf(p) : u[1] \in vmmFree' \/ (u[3] = "huge" /\ u[1] # vmmPd[p][u[4]].frame)


\* copy_from_user and copy_to_user touch a range exactly when user_range_valid_and_mapped
\* accepts it: acceptance means that every byte of the range is a user address on a page
\* with the rights asked for, wrap-around and page boundaries included.
UserCopiesStayInside ==
    \A p \in Live, addr \in {1, 5, KERNEL_VIRT_BASE - 1}, n \in {1, 2, VA_LIMIT - 1}, w \in BOOLEAN :
       user_range_valid_and_mapped(p, addr, n, w) =>
          \A b \in addr .. addr + n - 1 :
             LET e == vmm_walk_leaf_noalloc(vmmPd[p], vmmPte[p], b \div VPAGE) IN
             /\ b < KERNEL_VIRT_BASE
             /\ (IF w THEN {"PRESENT", "USER", "WRITABLE"} ELSE {"PRESENT", "USER"}) \subseteq e.flags

=============================================================================
