------------------------------- MODULE Menu -------------------------------
(***************************************************************************)
(* The boot menu (limine/common/menu.c, _menu and print_tree): a tree of   *)
(* entries, some expanded, shown as a list in which one line is selected;  *)
(* a countdown, the keys, the editor's way in and out, and the return to   *)
(* the menu after a boot that failed.  The entries are numbered in the     *)
(* order of the configuration file; 0 stands for NULL.                     *)
(***************************************************************************)
EXTENDS Naturals, Sequences, FiniteSets, SequencesExt

CONSTANTS Menus,      \* trees explored: sequences of [parent, foreign, plus]
          Defaults,   \* values of default_entry
          MenuRows,   \* terms[0]->rows - 8, lines of the list on the screen
          MaxStarts    \* bound on the number of starts of the machine

VARIABLES tree,                 \* the chosen menu
          menuCfg,              \* [def, remember, timeout] of the configuration
          expanded,             \* entries that show their children
          selected_entry, selected_menu_entry, max_entries, tree_offset,
          skip_timeout, countdown,
          booting_from_editor, booting_from_blank,  \* survive the rewind
          LimineLastBootedEntry,  \* the firmware variable
          bootedEntry,          \* what boot() was last called with
          keyPressed, starts,
          rerun,                \* back in the menu after a failed boot
          menuPc                \* "off", "start", "countdown", "keys", "editor", "blank", "boot", "os", "fault"

menuVars == <<tree, menuCfg, expanded, selected_entry, selected_menu_entry, max_entries, tree_offset, skip_timeout,
              countdown, booting_from_editor, booting_from_blank, LimineLastBootedEntry, bootedEntry, keyPressed, starts, rerun, menuPc>>

NoLast == 99      \* the variable is not there
NO_TIMEOUT == 9   \* timeout: no
IsDir(t, i) == \E c \in DOMAIN t : t[c].parent = i

RECURSIVE Ancestors(_, _)
Ancestors(t, i) == IF t[i].parent = 0 THEN {} ELSE {t[i].parent} \cup Ancestors(t, t[i].parent)


Visible(t, exp) ==
    SelectSeq([i \in DOMAIN t |-> i],
              LAMBDA i : (IsDir(t, i) \/ ~t[i].foreign) /\ Ancestors(t, i) \subseteq exp)

\* Leaves *selected_menu_entry alone when the index is past the end.
Pointed(t, exp, index, old) ==
    IF index < Len(Visible(t, exp)) THEN Visible(t, exp)[index + 1] ELSE old

MenuInit ==
    /\ tree = <<>> /\ menuCfg = [def |-> 0, remember |-> FALSE, timeout |-> NO_TIMEOUT] /\ expanded = {}
    /\ selected_entry = 0 /\ selected_menu_entry = 0 /\ max_entries = 0 /\ tree_offset = 0
    /\ skip_timeout = FALSE /\ countdown = 0
    /\ booting_from_editor = FALSE /\ booting_from_blank = FALSE
    /\ LimineLastBootedEntry = NoLast /\ bootedEntry = 0 /\ keyPressed = FALSE /\ starts = 0 /\ rerun = FALSE
    /\ menuPc = "off"

\* A menu and its options are read from the configuration.
StartUp(t, c) ==
    /\ menuPc = "off"
    /\ tree' = IF starts = 0 THEN t ELSE tree
    /\ menuCfg' = IF starts = 0 THEN c ELSE menuCfg
    /\ starts = 0 \/ (t = tree /\ c = menuCfg)
    /\ menuPc' = "start"
    /\ starts' = starts + 1
    /\ expanded' = {i \in DOMAIN t : IsDir(t, i) /\ t[i].plus}
    /\ selected_menu_entry' = 0 /\ tree_offset' = 0 /\ keyPressed' = FALSE
    /\ booting_from_editor' = FALSE /\ booting_from_blank' = FALSE /\ rerun' = FALSE
    /\ UNCHANGED <<bootedEntry, selected_entry, max_entries, skip_timeout, countdown, LimineLastBootedEntry>>

\* The list scrolls so that the selected line is on the screen.
Scrolled(offset, index) ==
    LET down == IF index >= offset + MenuRows THEN index - (MenuRows - 1) ELSE offset
    IN  IF index < down THEN index ELSE down

\* "refresh:": draw, then count down, reopen the editor or wait for a key.
refresh(index, exp, skip, pointer) ==
    LET lines == Visible(tree, exp)
        at    == Pointed(tree, exp, index, pointer)
        skip2 == skip \/ Len(lines) = 0 \/ IsDir(tree, at)
    IN  /\ selected_entry' = index
        /\ expanded' = exp
        /\ tree_offset' = Scrolled(tree_offset, index)
        /\ max_entries' = Len(lines)
        /\ selected_menu_entry' = at
        /\ skip_timeout' = skip2
        /\ countdown' = IF skip2 THEN 0 ELSE menuCfg.timeout
        /\ menuPc' = IF ~skip2 THEN "countdown"
                     ELSE IF booting_from_editor /\ booting_from_blank THEN "blank"
                     ELSE IF booting_from_editor /\ Len(lines) > 0 /\ ~IsDir(tree, at) THEN "editor"
                     ELSE "keys"

\* boot(): the entry's protocol is loaded; the index is remembered (UEFI).
BootNow(index, at) ==
    /\ bootedEntry' = at
    /\ selected_entry' = index
    /\ selected_menu_entry' = at
    /\ LimineLastBootedEntry' = index
    /\ menuPc' = "boot"

\* "autoboot:" for a line: a directory is opened or closed instead of booted.
autoboot_Fault(index, at, skip) ==
    BootNow(index, at) /\ skip_timeout' = skip /\ UNCHANGED <<expanded, tree_offset, max_entries, countdown>>

autoboot(index, at, skip) ==
    \/ /\ IsDir(tree, at)
       /\ refresh(index, IF at \in expanded THEN expanded \ {at} ELSE expanded \cup {at}, skip, at)
       /\ UNCHANGED <<bootedEntry, LimineLastBootedEntry>>
    \/ /\ ~IsDir(tree, at)
       /\ BootNow(index, at)
       /\ skip_timeout' = skip
       /\ UNCHANGED <<expanded, tree_offset, max_entries, countdown>>

\* _menu(): which line is selected first, and whether the countdown is skipped.
StartIndex ==
    IF menuCfg.remember /\ LimineLastBootedEntry # NoLast THEN LimineLastBootedEntry
    ELSE IF menuCfg.def = 0 THEN 0 ELSE menuCfg.def - 1

_menu(first_run) ==
    LET lines == Visible(tree, expanded)
        index == IF StartIndex >= Len(lines) THEN 0 ELSE StartIndex
        at    == Pointed(tree, expanded, StartIndex, 0)
        skip  == ~first_run \/ menuCfg.timeout = NO_TIMEOUT
        now   == ~skip /\ menuCfg.timeout = 0
    IN  /\ menuPc = "start" /\ first_run = ~rerun
        /\ \/ now /\ Len(lines) > 0 /\ at = 0 /\ menuPc' = "fault"
              /\ UNCHANGED <<expanded, selected_entry, selected_menu_entry, max_entries, tree_offset, skip_timeout, countdown, bootedEntry, LimineLastBootedEntry>>
           \/ /\ now /\ Len(lines) > 0 /\ at # 0 /\ ~IsDir(tree, at)
              /\ BootNow(index, at)
              /\ max_entries' = Len(lines)
              /\ UNCHANGED <<expanded, tree_offset, skip_timeout, countdown>>
           \/ /\ (now => Len(lines) = 0 \/ (at # 0 /\ IsDir(tree, at))) = TRUE
              /\ refresh(index, expanded, skip \/ now, at)
              /\ UNCHANGED <<bootedEntry, LimineLastBootedEntry>>
        /\ UNCHANGED <<tree, menuCfg, booting_from_editor, booting_from_blank, keyPressed, starts, rerun>>

\* One second of the countdown passes.
Second ==
    /\ menuPc = "countdown"
    /\ \/ /\ countdown > 1
          /\ countdown' = countdown - 1
          /\ UNCHANGED <<expanded, selected_entry, selected_menu_entry, max_entries, tree_offset, skip_timeout, menuPc, bootedEntry, LimineLastBootedEntry>>
       \/ countdown = 1 /\ autoboot(selected_entry, selected_menu_entry, skip_timeout)
    /\ UNCHANGED <<tree, menuCfg, booting_from_editor, booting_from_blank, keyPressed, starts, rerun>>

Waiting == menuPc \in {"countdown", "keys"}

\* A key that moves the selection (arrows, Home, End); the countdown is over.
Moved(index) == refresh(index, expanded, TRUE, selected_menu_entry)

KeyMove ==
    /\ Waiting /\ max_entries > 0
    /\ \/ Moved(0)
       \/ Moved(max_entries - 1)
       \/ Moved(IF selected_entry = 0 THEN max_entries - 1 ELSE selected_entry - 1)
       \/ Moved(IF selected_entry + 1 = max_entries THEN 0 ELSE selected_entry + 1)
    /\ keyPressed' = TRUE
    /\ UNCHANGED <<tree, menuCfg, booting_from_editor, booting_from_blank, LimineLastBootedEntry, bootedEntry, starts, rerun>>

\* Enter, or a digit, which selects and enters at once.
KeyEnter ==
    /\ Waiting /\ max_entries > 0
    /\ \/ autoboot(selected_entry, selected_menu_entry, TRUE)
       \/ \E d \in 0..8 : /\ d < max_entries
                          /\ autoboot(d, Pointed(tree, expanded, d, selected_menu_entry), TRUE)
    /\ keyPressed' = TRUE
    /\ UNCHANGED <<tree, menuCfg, booting_from_editor, booting_from_blank, starts, rerun>>

Still == UNCHANGED <<tree, menuCfg, expanded, selected_entry, selected_menu_entry, max_entries, tree_offset, starts, rerun>>

\* 'e' on an entry, 'b' for a blank one.
KeyEdit ==
    /\ Waiting
    /\ \/ /\ max_entries > 0 /\ ~IsDir(tree, selected_menu_entry)
          /\ menuPc' = "editor"
          /\ UNCHANGED booting_from_blank
       \/ /\ menuPc' = "blank"
          /\ booting_from_blank' = TRUE
    /\ keyPressed' = TRUE /\ skip_timeout' = TRUE /\ countdown' = 0
    /\ Still
    /\ UNCHANGED <<booting_from_editor, LimineLastBootedEntry, bootedEntry>>

\* Any other key only stops the countdown.
KeyOther ==
    /\ menuPc = "countdown"
    /\ menuPc' = "keys"
    /\ keyPressed' = TRUE /\ skip_timeout' = TRUE /\ countdown' = 0
    /\ Still
    /\ UNCHANGED <<booting_from_editor, booting_from_blank, LimineLastBootedEntry, bootedEntry>>

\* Escape leaves the editor for the menu; F10 boots what was typed.
EditorEscape ==
    /\ menuPc \in {"editor", "blank"}
    /\ booting_from_editor' = FALSE
    /\ booting_from_blank' = (menuPc = "editor" /\ booting_from_blank)
    /\ menuPc' = "keys"
    /\ Still
    /\ UNCHANGED <<skip_timeout, countdown, LimineLastBootedEntry, bootedEntry, keyPressed>>

EditorBoot ==
    /\ menuPc \in {"editor", "blank"}
    /\ booting_from_editor' = TRUE
    /\ menuPc' = "boot"
    /\ bootedEntry' = IF menuPc = "editor" THEN selected_menu_entry ELSE bootedEntry
    /\ LimineLastBootedEntry' = IF menuPc = "editor" THEN selected_entry ELSE LimineLastBootedEntry
    /\ Still
    /\ UNCHANGED <<booting_from_blank, skip_timeout, countdown, keyPressed>>

\* _menu(false) rewinds the loader's data but not the no_unwind variables.
Rewound ==
    /\ rerun' = TRUE
    /\ expanded' = {i \in DOMAIN tree : IsDir(tree, i) /\ tree[i].plus}
    /\ selected_menu_entry' = 0
    /\ tree_offset' = 0

\* boot(): the protocol takes over, or panic(true, ...) comes back to the menu.
BootOutcome ==
    /\ menuPc = "boot"
    /\ \/ /\ menuPc' = "os"
          /\ UNCHANGED <<expanded, selected_menu_entry, tree_offset, rerun>>
       \/ menuPc' = "start" /\ Rewound
    /\ UNCHANGED <<tree, menuCfg, selected_entry, max_entries, skip_timeout, countdown, booting_from_editor,
                   booting_from_blank, LimineLastBootedEntry, bootedEntry, keyPressed, starts>>

\* The running system reboots the machine.
Reboot ==
    /\ menuPc = "os" /\ starts < MaxStarts
    /\ menuPc' = "off"
    /\ UNCHANGED <<tree, menuCfg, expanded, selected_entry, selected_menu_entry, max_entries, tree_offset, skip_timeout, countdown,
                   booting_from_editor, booting_from_blank, LimineLastBootedEntry, bootedEntry, keyPressed, starts, rerun>>

MenuNext ==
    \/ \E t \in Menus, d \in Defaults, r \in BOOLEAN, s \in {0, 2, NO_TIMEOUT} :
          StartUp(t, [def |-> d, remember |-> r, timeout |-> s])
    \/ _menu(TRUE) \/ _menu(FALSE)
    \/ Second \/ KeyMove \/ KeyEnter \/ KeyEdit \/ KeyOther \/ EditorEscape \/ EditorBoot \/ BootOutcome \/ Reboot

MenuSpec == MenuInit /\ [][MenuNext]_menuVars
-----------------------------------------------------------------------------
\* Whatever is expanded, collapsed, typed or restarted, the selected line is a
\* line of the list, the pointer the keys act on is that line's entry, and the
\* line is on the screen (refresh, print_tree).
SelectionIsOnScreen ==
    menuPc \in {"countdown", "keys", "editor"} /\ max_entries > 0 =>
      /\ selected_entry < Len(Visible(tree, expanded))
      /\ selected_menu_entry = Visible(tree, expanded)[selected_entry + 1]
      /\ tree_offset <= selected_entry /\ selected_entry < tree_offset + MenuRows

\* What is booted is an entry with a body this firmware can boot: never a
\* directory, never an entry the list leaves out, not even by default entry,
\* remembered index or countdown (autoboot, print_tree).
BootsALoadableEntry ==
    menuPc = "boot" /\ ~booting_from_blank => bootedEntry # 0 /\ ~IsDir(tree, bootedEntry) /\ ~tree[bootedEntry].foreign

\* A key stops the automatic boot for good: until the machine restarts there is
\* no countdown again, through redraws, the editor and failed boots
\* (skip_timeout, timeout_aborted).
KeyEndsCountdown == keyPressed => menuPc # "countdown"

=============================================================================
