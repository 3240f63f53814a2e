-------------------------------- MODULE Acpi --------------------------------
(***************************************************************************)
(* Firmware tables at boot: locating the root table and the tables in it,  *)
(* parsing MADT and DMAR (kernel/acpi.c), and the IOMMU inventory built    *)
(* from the DMAR table with its verdict and audit (kernel/iommu.c).        *)
(*                                                                         *)
(* A table is a sequence of records with a length in bytes scaled down:    *)
(* headers take 1, a DRHD 2 and a device scope 1 plus its path.  `slack`   *)
(* is how much longer (or shorter) the table's own length field is.        *)
(***************************************************************************)
EXTENDS Integers, Sequences, FiniteSets, SequencesExt

CONSTANTS
    Firmwares,                     \* records rsdp, xsdt, rsdt, see Roots below
    MAX_CPUS, MAX_IOAPICS, MAX_UNITS, MAX_SCOPES

VARIABLES
    acpPhase,     \* "off", "acpi", "iommu", "tested"
    acpFirm,      \* what the firmware provides
    acpRoot,      \* g_root_sdt: "none", "xsdt" or "rsdt"
    acpMadt,      \* g_madt_info: cpus and ioapics
    acpDmar,      \* present, valid, units, scopes
    acpInv,       \* g_iommu_inventory: state, reason, units, scopes
    acpAudit      \* events struck by iommu_emit_audit_once

acpVars == <<acpPhase, acpFirm, acpRoot, acpMadt, acpDmar, acpInv, acpAudit>>

NoDmar == [present |-> FALSE, valid |-> FALSE, units |-> <<>>, scopes |-> <<>>]
NoInv == [state |-> "UNINITIALIZED", reason |-> "NONE", units |-> <<>>, scopes |-> <<>>]

AcpInit ==
    /\ acpPhase = "off" /\ acpFirm = [rsdp |-> "none"] /\ acpRoot = "none"
    /\ acpMadt = [cpus |-> <<>>, ioapics |-> <<>>] /\ acpDmar = NoDmar
    /\ acpInv = NoInv /\ acpAudit = <<>>

-----------------------------------------------------------------------------
(* The root table and the tables it lists.                                  *)

\* rsdp: "none", "bad" (signature or checksum), "v1" or "v2"; the extended fields of a v2
\* pointer have a checksum of their own (v2sum).  A root is "absent", "bad" or a list of tables.
\* A bad extended root is not replaced by the old one.
RootOf(fw) ==
    IF fw.rsdp \notin {"v1", "v2"} THEN "none"
    ELSE LET root == IF fw.rsdp = "v2" /\ fw.v2sum /\ fw.xsdt # "absent" THEN "xsdt"
                     ELSE IF fw.rsdt # "absent" THEN "rsdt" ELSE "none"
         IN IF root # "none" /\ fw[root] = "bad" THEN "none" ELSE root

\* the first table of that signature whose checksum is right; NULL entries are skipped
Matching(fw, root, sig) ==
    IF root = "none" THEN {}
    ELSE {i \in DOMAIN fw.tables : fw.tables[i].sig = sig /\ fw.tables[i].sum}
Found(fw, root, sig) == Matching(fw, root, sig) # {}
acpi_find_table(fw, root, sig) ==
    fw.tables[CHOOSE i \in Matching(fw, root, sig) : \A j \in Matching(fw, root, sig) : i <= j]

-----------------------------------------------------------------------------
(* The record walk that MADT and DMAR share: it stops at a record that is   *)
(* shorter than its header or does not fit, which makes a DMAR invalid.     *)

Ends(recs) == [i \in 0..Len(recs) |-> FoldLeft(LAMBDA s, r : s + r.len, 0, SubSeq(recs, 1, i))]
\* the records that are walked, and whether the walk ended in a defect: at the first
\* record that does not start in the table, is too short or runs past the end
Walk(recs, ends, end) ==
    LET stops == {i \in DOMAIN recs : ends[i - 1] + 1 > end \/ recs[i].len < 1 \/ ends[i] > end}
        stop == IF stops = {} THEN Len(recs) + 1 ELSE CHOOSE i \in stops : \A j \in stops : i <= j
    IN [recs |-> SubSeq(recs, 1, stop - 1), defect |-> stop \in stops /\ ends[stop - 1] + 1 <= end]
Walked(t) == Walk(t.recs, Ends(t.recs), Ends(t.recs)[Len(t.recs)] + t.slack)

Capped(s, n) == SubSeq(s, 1, IF Len(s) < n THEN Len(s) ELSE n)
acpi_parse_madt(t) ==
    LET OfType(k) == SelectSeq(Walked(t).recs, LAMBDA r : r.type = k /\ r.len >= 2)
    IN [cpus |-> Capped(OfType("LAPIC"), MAX_CPUS), ioapics |-> Capped(OfType("IOAPIC"), MAX_IOAPICS)]

\* the device scopes of one DRHD: as many as are well-formed and fit in what is left
Fitted(w, room) ==
    LET k == IF Len(w.recs) < room THEN Len(w.recs) ELSE room
    IN [list |-> SubSeq(w.recs, 1, k), defect |-> w.defect \/ k < Len(w.recs)]
ScopesOf(rec, have) == Fitted(Walked([recs |-> rec.scopes, slack |-> rec.room]), MAX_SCOPES - have)

WithUnit(d, rec, s) ==
    [d EXCEPT !.units = Append(@, [base |-> rec.base, seg |-> rec.seg, index |-> Len(d.scopes),
                                   count |-> Len(s.list)]),
              !.scopes = @ \o s.list, !.valid = @ /\ ~s.defect]
AddUnit(d, rec) == WithUnit(d, rec, ScopesOf(rec, Len(d.scopes)))

\* short DRHDs and those beyond MAX_UNITS are passed over
acpi_parse_dmar(t) ==
    LET Step(d, rec) == IF rec.type = "DRHD" /\ rec.len >= 2 /\ Len(d.units) < MAX_UNITS
                        THEN AddUnit(d, rec) ELSE d
        start == [NoDmar EXCEPT !.present = TRUE, !.valid = ~Walked(t).defect]
    IN FoldLeft(Step, start, Walked(t).recs)

acpi_init ==
    /\ acpPhase = "off" /\ acpPhase' = "acpi"
    /\ \E fw \in Firmwares : LET root == RootOf(fw) IN
       /\ acpFirm' = fw /\ acpRoot' = root
       /\ acpMadt' = IF Found(fw, root, "APIC")
                     THEN acpi_parse_madt(acpi_find_table(fw, root, "APIC")) ELSE acpMadt
       /\ acpDmar' = IF Found(fw, root, "DMAR")
                     THEN acpi_parse_dmar(acpi_find_table(fw, root, "DMAR")) ELSE NoDmar
       /\ UNCHANGED <<acpInv, acpAudit>>

-----------------------------------------------------------------------------
(* The IOMMU inventory.                                                     *)

UnitScopes(inv, u) == SubSeq(inv.scopes, u.index + 1, u.index + u.count)
iommu_scope_eq(s, t) == s.dev = t.dev

SharesScope(inv, i, j) ==
    \E s \in ToSet(UnitScopes(inv, inv.units[i])), t \in ToSet(UnitScopes(inv, inv.units[j])) :
        iommu_scope_eq(s, t)
SharesBase(inv, i, j) == inv.units[i].seg = inv.units[j].seg /\ inv.units[i].base = inv.units[j].base

\* "NONE" when the inventory is accepted
UnitReason(inv, i) ==
    LET u == inv.units[i] IN
    IF u.base = 0 \/ u.index + u.count > Len(inv.scopes) THEN "INVALID_DMAR"
    ELSE IF \E j \in i + 1..Len(inv.units) : SharesBase(inv, i, j) THEN "AMBIGUOUS" ELSE "NONE"
iommu_validate_inventory_Fault(inv) ==
    LET bad == {i \in DOMAIN inv.units : UnitReason(inv, i) # "NONE"} IN
    IF inv.units = <<>> THEN "INVALID_DMAR"
    ELSE IF bad # {} THEN UnitReason(inv, CHOOSE i \in bad : \A j \in bad : i <= j)
    ELSE "NONE"
iommu_validate_inventory(inv) ==
    LET bad == {i \in DOMAIN inv.units : UnitReason(inv, i) # "NONE"} IN
    IF inv.units = <<>> THEN "INVALID_DMAR"
    ELSE IF bad # {} THEN UnitReason(inv, CHOOSE i \in bad : \A j \in bad : i <= j)
    ELSE IF \E i, j \in DOMAIN inv.units : i < j /\ SharesScope(inv, i, j) THEN "AMBIGUOUS" ELSE "NONE"

iommu_init ==
    LET inv == [NoInv EXCEPT !.units = acpDmar.units, !.scopes = acpDmar.scopes]
        reason == iommu_validate_inventory(inv)
    IN /\ acpPhase = "acpi" /\ acpPhase' = "iommu"
       /\ acpAudit' = <<>>
       /\ acpInv' = IF ~Found(acpFirm, acpRoot, "DMAR")
                    THEN [NoInv EXCEPT !.state = "UNAVAILABLE", !.reason = "NO_DMAR"]
                    ELSE IF ~(acpDmar.present /\ acpDmar.valid)
                    THEN [NoInv EXCEPT !.state = "DEGRADED", !.reason = "INVALID_DMAR"]
                    ELSE [inv EXCEPT !.state = IF reason = "NONE" THEN "INVENTORIED" ELSE "DEGRADED",
                                     !.reason = reason]
       /\ UNCHANGED <<acpFirm, acpRoot, acpMadt, acpDmar>>

iommu_emit_audit_once ==
    IF acpAudit # <<>> THEN acpAudit
    ELSE IF acpInv.state = "INVENTORIED"
    THEN <<"INVENTORY">> \o [i \in DOMAIN acpInv.units |-> "UNIT_DISCOVERED"]
    ELSE <<"DEGRADED">> \o (IF acpInv.reason \in {"AMBIGUOUS", "INVALID_DMAR"}
                            THEN <<"TOPOLOGY_REJECT">> ELSE <<>>)

\* main.c runs the self-test with its closure tests, and again on request
iommu_self_test ==
    /\ acpPhase \in {"iommu", "tested"} /\ acpPhase' = "tested"
    /\ acpAudit' = iommu_emit_audit_once
    /\ UNCHANGED <<acpFirm, acpRoot, acpMadt, acpDmar, acpInv>>

AcpNext == acpi_init \/ iommu_init \/ iommu_self_test

-----------------------------------------------------------------------------
(* Properties.                                                              *)

TheDmar == acpi_find_table(acpFirm, acpRoot, "DMAR")
Drhds == SelectSeq(TheDmar.recs, LAMBDA r : r.type = "DRHD" /\ r.len >= 2)

\* An accepted inventory is the table: its units are the DRHDs of the table in order, up to
\* the capacity, each with exactly the scopes the table lists for it.
InventoryIsTheTable ==
    acpInv.state = "INVENTORIED" =>
        /\ Len(acpInv.units) = Len(Capped(Drhds, MAX_UNITS))
        /\ \A i \in DOMAIN acpInv.units :
             /\ acpInv.units[i].base = Drhds[i].base
             /\ UnitScopes(acpInv, acpInv.units[i]) = Drhds[i].scopes

\* No device is under two units of an accepted inventory, and no two units share registers.
InventoryIsUnambiguous ==
    acpInv.state = "INVENTORIED" =>
        \A i, j \in DOMAIN acpInv.units : i # j =>
            /\ ~SharesBase(acpInv, i, j)
            /\ \A s \in ToSet(Drhds[i].scopes), t \in ToSet(Drhds[j].scopes) : s.dev # t.dev

\* An accepted inventory is the firmware's table and is unambiguous (iommu_init,
\* iommu_validate_inventory).
InventoryIsExact == InventoryIsTheTable /\ InventoryIsUnambiguous
=============================================================================
