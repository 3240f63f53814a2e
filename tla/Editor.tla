------------------------------ MODULE Editor ------------------------------
(***************************************************************************)
(* The menu's entry editor (limine/common/menu.c, config_entry_editor): a  *)
(* text buffer, a cursor, and a window of the lines on the screen, which   *)
(* is moved and redrawn until the cursor has been drawn.  A buffer is a    *)
(* sequence of NL (line feed) and ordinary characters; offsets are 0-based.*)
(***************************************************************************)
EXTENDS Naturals, Sequences, SequencesExt

CONSTANTS EDITOR_MAX_BUFFER_SIZE,
          EdRows,       \* terms[0]->rows - 8
          EdCols,       \* terms[0]->cols - 2
          OrigEntries   \* bodies the editor is opened with

VARIABLES edBuffer, cursor_offset, window_offset,
          saved_orig_entry, edResumed,   \* booting_from_editor and its text
          edOverflow,                    \* display_overflow_error
          edPc                           \* "closed", "open", "boot", "hung", "panic"

edVars == <<edBuffer, cursor_offset, window_offset, saved_orig_entry, edResumed, edOverflow, edPc>>

NL == "nl"
At(b, i) == IF i < Len(b) THEN b[i + 1] ELSE "nul"

\* Where the line holding an offset starts, how much of a line lies ahead.
RECURSIVE get_line_offset(_, _)
get_line_offset(b, index) ==
    IF index = 0 \/ At(b, index - 1) = NL THEN index ELSE get_line_offset(b, index - 1)

RECURSIVE get_line_length(_, _)
get_line_length(b, index) == IF At(b, index) \in {NL, "nul"} THEN 0 ELSE 1 + get_line_length(b, index + 1)

Lesser(a, b) == IF a < b THEN a ELSE b

get_next_line(b, index) ==
    LET displacement == index - get_line_offset(b, index)
        end == index + get_line_length(b, index)
    IN  IF At(b, end) = "nul" THEN end
        ELSE end + 1 + Lesser(displacement, get_line_length(b, end + 1))

get_prev_line(b, index) ==
    LET offset == get_line_offset(b, index)
        prev   == get_line_offset(b, offset - 1)
    IN  IF offset = 0 THEN 0 ELSE prev + Lesser(index - offset, get_line_length(b, prev))

\* One drawing: i is the character, line and col where it falls, size what is
\* left of the window after wrapped lines took their rows.  The result says
\* whether the cursor was drawn or in which direction the window must move.
RECURSIVE Draw(_, _, _, _, _, _, _)
Draw(b, cur, wo, i, line, col, size) ==
    LET inside(n) == line < wo + n /\ line >= wo
        wraps == At(b, i) # "nul" /\ col % EdCols = EdCols - 1
        left  == IF wraps /\ size > 0 THEN size - 1 ELSE size
    IN  IF At(b, i) = NL /\ inside(size)
        THEN IF i = cur THEN "shown" ELSE Draw(b, cur, wo, i + 1, line + 1, 0, size)
        ELSE IF i = cur /\ (inside(left) \/ (wraps /\ inside(size))) THEN "shown"
        ELSE IF At(b, i) = "nul" \/ line >= wo + left THEN IF i <= cur THEN "down" ELSE "up"
        ELSE IF At(b, i) = NL THEN Draw(b, cur, wo, i + 1, line + 1, 0, left)
        ELSE Draw(b, cur, wo, i + 1, line, IF line >= wo THEN col + 1 ELSE col, left)

\* The window follows the cursor down only.
RECURSIVE Settled_Fault(_, _, _, _)
Settled_Fault(b, cur, wo, fuel) ==
    IF Draw(b, cur, wo, 0, 0, 0, EdRows) = "shown" THEN <<wo>>
    ELSE IF fuel = 0 THEN <<>> ELSE Settled_Fault(b, cur, wo + 1, fuel - 1)

\* "goto refresh" until the cursor is on the screen; fuel bounds the search for
\* a window that shows it, and a search that runs out never ends.
RECURSIVE Settled(_, _, _, _)
Settled(b, cur, wo, fuel) ==
    LET d == Draw(b, cur, wo, 0, 0, 0, EdRows)
    IN  IF d = "shown" THEN <<wo>>
        ELSE IF fuel = 0 \/ (d = "up" /\ wo = 0) THEN <<>>
        ELSE Settled(b, cur, IF d = "down" THEN wo + 1 ELSE wo - 1, fuel - 1)

EdInit ==
    /\ edBuffer = <<>> /\ cursor_offset = 0 /\ window_offset = 0 /\ saved_orig_entry = <<>>
    /\ edResumed = FALSE /\ edOverflow = FALSE /\ edPc = "closed"

\* The end of every round: redraw, then wait for the next key.
Round(b, cur) ==
    LET wo == Settled(b, cur, window_offset, 2 * EDITOR_MAX_BUFFER_SIZE)
    IN  /\ edBuffer' = b
        /\ cursor_offset' = cur
        /\ window_offset' = IF wo = <<>> THEN window_offset ELSE wo[1]
        /\ edPc' = IF wo = <<>> THEN "hung" ELSE "open"
        /\ UNCHANGED <<saved_orig_entry, edResumed>>

RECURSIVE SkipBlank(_)
SkipBlank(b) == IF b # <<>> /\ b[1] = NL THEN SkipBlank(Tail(b)) ELSE b

\* A text that was booted from the editor and failed is shown again.
config_entry_editor(orig) ==
    LET text == SkipBlank(IF edResumed THEN saved_orig_entry ELSE orig)
    IN  /\ edPc = "closed"
        /\ \/ /\ Len(text) >= EDITOR_MAX_BUFFER_SIZE
              /\ edPc' = "panic"
              /\ UNCHANGED <<edBuffer, cursor_offset, window_offset, saved_orig_entry, edResumed>>
           \/ Len(text) < EDITOR_MAX_BUFFER_SIZE /\ window_offset = 0 /\ Round(text, 0)
        /\ edOverflow' = FALSE

KeyDown == edPc = "open" /\ Round(edBuffer, get_next_line(edBuffer, cursor_offset)) /\ edOverflow' = FALSE
KeyUp == edPc = "open" /\ Round(edBuffer, get_prev_line(edBuffer, cursor_offset)) /\ edOverflow' = FALSE
KeyLeft ==
    /\ edPc = "open"
    /\ Round(edBuffer, IF cursor_offset > 0 THEN cursor_offset - 1 ELSE 0)
    /\ edOverflow' = FALSE
KeyRight ==
    /\ edPc = "open"
    /\ Round(edBuffer, Lesser(cursor_offset + 1, Len(edBuffer)))
    /\ edOverflow' = FALSE
KeyHome == edPc = "open" /\ Round(edBuffer, get_line_offset(edBuffer, cursor_offset)) /\ edOverflow' = FALSE
KeyEnd ==
    /\ edPc = "open"
    /\ Round(edBuffer, cursor_offset + get_line_length(edBuffer, cursor_offset))
    /\ edOverflow' = FALSE

Without(b, i) == IF i < Len(b) THEN RemoveAt(b, i + 1) ELSE b

KeyBackspace ==
    /\ edPc = "open"
    /\ IF cursor_offset > 0 THEN Round(Without(edBuffer, cursor_offset - 1), cursor_offset - 1) ELSE Round(edBuffer, 0)
    /\ edOverflow' = FALSE
KeyDelete == edPc = "open" /\ Round(Without(edBuffer, cursor_offset), cursor_offset) /\ edOverflow' = FALSE

\* The terminator gets the last byte of the buffer.
HasRoom(b) == Len(b) < EDITOR_MAX_BUFFER_SIZE - 1

KeyType(c) ==
    /\ edPc = "open"
    /\ IF HasRoom(edBuffer)
       THEN Round(InsertAt(edBuffer, cursor_offset + 1, c), cursor_offset + 1) /\ edOverflow' = FALSE
       ELSE Round(edBuffer, cursor_offset) /\ edOverflow' = TRUE

\* F10 keeps the text in case the boot comes back; Escape drops it.
KeyBoot ==
    /\ edPc = "open"
    /\ saved_orig_entry' = edBuffer
    /\ edResumed' = TRUE
    /\ edPc' = "boot"
    /\ UNCHANGED <<edBuffer, cursor_offset, window_offset, edOverflow>>

Closed(resumed) ==
    /\ edResumed' = resumed
    /\ edPc' = "closed"
    /\ edBuffer' = <<>> /\ cursor_offset' = 0 /\ window_offset' = 0 /\ edOverflow' = FALSE
    /\ UNCHANGED saved_orig_entry

KeyEscape == edPc = "open" /\ Closed(FALSE)

\* A boot that fails comes back to the menu, and from there to the editor.
BootFailed == edPc = "boot" /\ Closed(TRUE)

EdNext ==
    \/ \E orig \in OrigEntries : config_entry_editor(orig)
    \/ KeyDown \/ KeyUp \/ KeyLeft \/ KeyRight \/ KeyHome \/ KeyEnd \/ KeyBackspace \/ KeyDelete
    \/ \E c \in {"a", NL} : KeyType(c)
    \/ KeyBoot \/ KeyEscape \/ BootFailed

EdSpec == EdInit /\ [][EdNext]_edVars
-----------------------------------------------------------------------------
\* The lines of a buffer: line and column of an offset.
LineOf(b, i) == Len(SelectSeq(SubSeq(b, 1, i), LAMBDA c : c = NL))

\* The cursor stays inside the text and the text, with its terminator, inside
\* the buffer, through any sequence of keys (config_entry_editor).
CursorInBuffer == cursor_offset <= Len(edBuffer) /\ Len(edBuffer) < EDITOR_MAX_BUFFER_SIZE

\* The window search ends, with the cursor on the screen, after every key: only
\* a cursor at the end of a text that shrank above the window, and a line that
\* takes all the rows of the window but one, defeat it (refresh).
RedrawEnds ==
    edPc = "hung" =>
      \/ cursor_offset = Len(edBuffer) /\ window_offset > LineOf(edBuffer, cursor_offset)
      \/ \E i \in 0..Len(edBuffer) :
            get_line_length(edBuffer, get_line_offset(edBuffer, i)) >= (EdRows - 1) * EdCols - 1

\* Text, cursor and window of the editor stay consistent, and its redraw ends, after any keys.
EditorIsConsistent == CursorInBuffer /\ RedrawEnds
=============================================================================
