------------------------------ MODULE Config ------------------------------
(***************************************************************************)
(* The boot loader's configuration (limine/common/lib/config.c): where it  *)
(* is looked for, how macros are expanded, the tree of menu entries, and   *)
(* the look-up of options.  A file is a sequence of lines; a line opens an *)
(* entry, sets an option, defines a macro or is blank; its text is a       *)
(* sequence of tokens, each a literal or the use of a macro.               *)
(***************************************************************************)
EXTENDS Naturals, Sequences, FiniteSets, SequencesExt

CONSTANTS LineSet, MaxLines,     \* the lines a file is made of, and how many
          CfgVolumes,            \* number of partitions of the boot drive
          SmTables,              \* SMBIOS tables explored
          SM_HEADER,             \* sizeof(struct smbios_struct_header)
          EXPANSION_FACTOR       \* new_config_size = config_size * 4

VARIABLES cfgPc,        \* "write", "smbios", "disk", "parse", "ready", "bad", "absent"
          cfgLines,     \* the file in config_addr
          cfgWhere,     \* [vol, path] pairs at which a limine.conf exists
          cfgTable,     \* the SMBIOS table
          smPos, smNum, smBytes,   \* structure looked at, its number, bytes processed
          cfgFrom,      \* where the configuration came from
          menu_tree,    \* set of [entry, parent, sub, expanded]
          bad_config

cfgVars == <<cfgPc, cfgLines, cfgWhere, cfgTable, smPos, smNum, smBytes, cfgFrom, menu_tree, bad_config>>

NoTable == [length |-> 0, count |-> 0, structs |-> <<>>]

CfgInit ==
    /\ cfgPc = "write" /\ cfgLines = <<>> /\ cfgWhere = {} /\ cfgTable = NoTable
    /\ smPos = 0 /\ smNum = 0 /\ smBytes = 0
    /\ cfgFrom = <<>> /\ menu_tree = {} /\ bad_config = FALSE

\* Somebody writes the file; somewhere, or in the firmware's table.
WriteLine(line) ==
    /\ cfgPc = "write"
    /\ Len(cfgLines) < MaxLines
    /\ cfgLines' = Append(cfgLines, line)
    /\ UNCHANGED <<cfgPc, cfgWhere, cfgTable, smPos, smNum, smBytes, cfgFrom, menu_tree, bad_config>>

StoreFile(where, table) ==
    /\ cfgPc = "write"
    /\ cfgWhere' = where
    /\ cfgTable' = table
    /\ cfgPc' = IF table.length = 0 THEN "disk" ELSE "smbios"
    /\ smPos' = 1
    /\ UNCHANGED <<cfgLines, smNum, smBytes, cfgFrom, menu_tree, bad_config>>
-----------------------------------------------------------------------------
\* init_config_smbios(): a structure is [type, size, terminated, config]; the
\* table says how long it is and, in its 32-bit form, how many it holds.
smbios_struct_size(s, remaining) ==
    IF remaining < SM_HEADER \/ s.size > remaining \/ ~s.terminated THEN 0 ELSE s.size

SmEnd == cfgPc' = "disk" /\ UNCHANGED <<smPos, smNum, smBytes, cfgFrom>>

SmStep ==
    LET s == cfgTable.structs[smPos]
        remaining == cfgTable.length - smBytes
        size == smbios_struct_size(s, remaining)
        stop == \/ cfgTable.count # 0 /\ smNum >= cfgTable.count
                \/ remaining < SM_HEADER
                \/ s.type = 127
                \/ size = 0
    IN  \/ stop = TRUE /\ SmEnd
        \/ /\ stop = FALSE /\ s.type = 11 /\ s.config
           /\ cfgFrom' = <<"smbios", smPos>>
           /\ cfgPc' = "parse"
           /\ smBytes' = smBytes + size
           /\ UNCHANGED <<smPos, smNum>>
        \/ /\ stop = FALSE /\ ~(s.type = 11 /\ s.config)
           /\ smBytes' = smBytes + size
           /\ smPos' = smPos + 1 /\ smNum' = smNum + 1
           /\ cfgPc' = IF smBytes' >= cfgTable.length THEN "disk" ELSE "smbios"
           /\ UNCHANGED cfgFrom

init_config_smbios ==
    /\ cfgPc = "smbios"
    /\ SmStep
    /\ UNCHANGED <<cfgLines, cfgWhere, cfgTable, menu_tree, bad_config>>

\* init_config_disk() for every volume in turn: the first path that opens.
First(S) == CHOOSE x \in S : \A y \in S : x[1] < y[1] \/ (x[1] = y[1] /\ x[2] <= y[2])

init_config_disk ==
    /\ cfgPc = "disk"
    /\ IF cfgWhere = {}
       THEN cfgPc' = "absent" /\ UNCHANGED cfgFrom
       ELSE cfgPc' = "parse" /\ cfgFrom' = <<"disk", First(cfgWhere)>>
    /\ UNCHANGED <<cfgLines, cfgWhere, cfgTable, smPos, smNum, smBytes, menu_tree, bad_config>>
-----------------------------------------------------------------------------
\* Macros.  Widths count characters: "${M}" and "${M}=" are the name plus 3, 4.
TokenWidth(t) == IF t.t = "use" THEN t.w + 3 ELSE t.w
TextWidth(text) == FoldLeft(LAMBDA n, t : n + TokenWidth(t), 0, text)
LineWidth(l) == 1 + l.depth + TextWidth(l.text) + (IF l.k = "def" THEN 4 ELSE 0) + (IF l.k = "option" THEN 2 ELSE 0)
FileWidth(f) == FoldLeft(LAMBDA n, l : n + LineWidth(l), 1, f)

Malformed(f) == \E i \in DOMAIN f : \E j \in DOMAIN f[i].text : f[i].text[j].t = "unclosed" /\ f[i].k # "def"

\* Definitions are pushed on a list: the newest of a name is found first.
MacroValue(f, name) ==
    LET defs == SelectSeq(f, LAMBDA l : l.k = "def" /\ l.key = name)
    IN  IF defs = <<>> THEN <<>> ELSE Last(defs).text

ExpandText(f, text) ==
    FoldLeft(LAMBDA done, t : done \o (IF t.t = "use" THEN MacroValue(f, t.s) ELSE <<t>>), <<>>, text)

Blank == [k |-> "blank", depth |-> 0, plus |-> FALSE, key |-> "", text |-> <<>>]

\* A definition disappears with its line break; the file's first one leaves it.
ExpandLine(f, i) ==
    IF f[i].k # "def" THEN <<[f[i] EXCEPT !.text = ExpandText(f, @)]>>
    ELSE IF i = 1 THEN <<Blank>> ELSE <<>>

Expanded(f) == FoldLeft(LAMBDA done, i : done \o ExpandLine(f, i), <<>>, [i \in DOMAIN f |-> i])
-----------------------------------------------------------------------------
\* The i-th entry of the file (config_get_entry_name) and its line.
EntryLines(f) == SelectSeq([i \in DOMAIN f |-> i], LAMBDA i : f[i].k = "entry")

is_child(f, depth, i) ==
    LET es == EntryLines(f)
        l  == f[es[i]]
    IN  IF i > Len(es) THEN "NOT_CHILD"
        ELSE IF l.depth < depth \/ (l.text = <<>> /\ l.depth = depth) THEN "NOT_CHILD"
        ELSE IF l.depth > depth THEN "INDIRECT_CHILD" ELSE "DIRECT_CHILD"

\* A directory is an entry whose follower is one level deeper.
is_directory(f, depth, i) == is_child(f, depth + 1, i + 1) = "DIRECT_CHILD"
Parentless(f, depth, i) == is_child(f, depth + 1, i + 1) = "INDIRECT_CHILD"

Node(i, parent, sub, expanded) == [entry |-> i, parent |-> parent, sub |-> sub, expanded |-> expanded]
PARENTLESS == Node(0, 0, FALSE, FALSE)

\* Children are attached to the root of the walk instead of the entry.
RECURSIVE create_menu_tree_Fault(_, _, _, _)
create_menu_tree_Fault(f, parent, depth, i) ==
    IF is_child(f, depth, i) = "NOT_CHILD" THEN {}
    ELSE IF is_child(f, depth, i) = "INDIRECT_CHILD" THEN create_menu_tree_Fault(f, parent, depth, i + 1)
    ELSE {Node(i, parent, is_directory(f, depth, i), is_directory(f, depth, i) /\ f[EntryLines(f)[i]].plus)}
         \cup (IF is_directory(f, depth, i) THEN create_menu_tree_Fault(f, parent, depth + 1, i + 1) ELSE {})
         \cup create_menu_tree_Fault(f, parent, depth, i + 1)

RECURSIVE create_menu_tree(_, _, _, _)
create_menu_tree(f, parent, depth, i) ==
    IF is_child(f, depth, i) = "NOT_CHILD" THEN {}
    ELSE IF is_child(f, depth, i) = "INDIRECT_CHILD" THEN create_menu_tree(f, parent, depth, i + 1)
    ELSE IF Parentless(f, depth, i) THEN {PARENTLESS}
    ELSE LET dir == is_directory(f, depth, i)
         IN  {Node(i, parent, dir, dir /\ f[EntryLines(f)[i]].plus)}
             \cup (IF dir THEN create_menu_tree(f, i, depth + 1, i + 1) ELSE {})
             \cup create_menu_tree(f, parent, depth, i + 1)

\* init_config(): panic(true, ...) marks the file bad and returns to the menu.
init_config ==
    LET wide == FileWidth(Expanded(cfgLines)) > EXPANSION_FACTOR * FileWidth(cfgLines)
        file == Expanded(cfgLines)
        tree == create_menu_tree(file, 0, 1, 1)
        bad  == Malformed(cfgLines) \/ wide \/ PARENTLESS \in tree
    IN  /\ cfgPc = "parse"
        /\ cfgPc' = IF bad THEN "bad" ELSE "ready"
        /\ bad_config' = bad
        /\ menu_tree' = IF bad THEN {} ELSE tree
        /\ cfgLines' = IF bad THEN cfgLines ELSE file
        /\ UNCHANGED <<cfgWhere, cfgTable, smPos, smNum, smBytes, cfgFrom>>
-----------------------------------------------------------------------------
\* config_get_entry(): the lines of an entry's body.
config_get_entry(f, i) ==
    LET es == EntryLines(f)
    IN  SubSeq(f, es[i] + 1, IF i < Len(es) THEN es[i + 1] - 1 ELSE Len(f))

\* Positions of a key's assignments in a body; config_get_value's index-th.
KeyLines(body, key) == SelectSeq([i \in DOMAIN body |-> i], LAMBDA i : body[i].k = "option" /\ body[i].key = key)
config_get_value(body, index, key) ==
    IF index + 1 > Len(KeyLines(body, key)) THEN 0 ELSE KeyLines(body, key)[index + 1]

\* config_get_tuple(): the index-th key1 and the key2 that goes with it, as
\* line numbers, 0 for none; lastkey is what the comparison of addresses uses.
config_get_tuple(body, index, key1, key2) ==
    LET lk1  == config_get_value(body, index, key1)
        rest == SelectSeq(KeyLines(body, key2), LAMBDA i : i > lk1)
        lk2  == IF rest = <<>> THEN 0 ELSE rest[1]
        lk3  == config_get_value(body, index + 1, key1)
    IN  IF lk1 = 0 THEN <<0, 0>>
        ELSE IF lk2 # 0 /\ lk3 # 0 /\ lk2 > lk3 THEN <<lk1, 0>> ELSE <<lk1, lk2>>

CfgNext ==
    \/ \E l \in LineSet : WriteLine(l)
    \/ StoreFile({<<1, 1>>}, NoTable)
    \/ /\ cfgLines = <<>>
       /\ \E where \in SUBSET ((1..CfgVolumes) \X {1, 4}), t \in SmTables : StoreFile(where, t)
    \/ init_config_smbios
    \/ init_config_disk
    \/ init_config

CfgSpec == CfgInit /\ [][CfgNext]_cfgVars
-----------------------------------------------------------------------------
Depth(i) == cfgLines[EntryLines(cfgLines)[i]].depth
Entries == DOMAIN EntryLines(cfgLines)
WellFormed ==
    /\ \A i \in Entries : cfgLines[EntryLines(cfgLines)[i]].text # <<>>
    /\ \A i \in Entries : Depth(i) <= (IF i = 1 THEN 1 ELSE Depth(i - 1) + 1)

\* For a file in which every entry has a title and none skips a level, the tree
\* holds every entry, below the nearest earlier one that is shallower; and an
\* entry is a directory exactly when the next one is its child.  A level that is
\* skipped under a parent is refused (create_menu_tree, is_child, is_directory).
TreeFollowsTheFile ==
    /\ cfgPc = "ready" /\ WellFormed =>
         menu_tree = {Node(i, Max({0} \cup {j \in 1..(i - 1) : Depth(j) < Depth(i)}),
                           i + 1 \in Entries /\ Depth(i + 1) > Depth(i),
                           i + 1 \in Entries /\ Depth(i + 1) > Depth(i) /\ cfgLines[EntryLines(cfgLines)[i]].plus) : i \in Entries}
    /\ cfgPc = "ready" => \A n \in menu_tree : n.sub <=> \E c \in menu_tree : c.parent = n.entry

\* A module's string is the one between it and the next module, or none, for
\* every module of every entry (config_get_tuple).
ModuleStringsAreTheirOwn ==
    cfgPc = "ready" =>
      \A n \in menu_tree :
        LET body == config_get_entry(cfgLines, n.entry)
            mods == KeyLines(body, "module_path")
        IN  \A k \in DOMAIN mods :
              LET next == IF k < Len(mods) THEN mods[k + 1] ELSE Len(body) + 1
                  own  == {i \in (mods[k] + 1)..(next - 1) : body[i].k = "option" /\ body[i].key = "module_string"}
              IN  config_get_tuple(body, k - 1, "module_path", "module_string")
                    = <<mods[k], IF own = {} THEN 0 ELSE Min(own)>>

\* The walk over the SMBIOS structures never goes past the end of the table,
\* whatever the sizes in it say (init_config_smbios, smbios_struct_size).
SmbiosWalkStaysInside == smBytes <= cfgTable.length

\* The configuration is read as it was written: the tree, the strings of the modules, and no byte
\* beyond the table it came from.
ConfigIsAsWritten == TreeFollowsTheFile /\ ModuleStringsAreTheirOwn /\ SmbiosWalkStaysInside
=============================================================================
