------------------------------ MODULE Terminal ------------------------------
(***************************************************************************)
(* The control state of a terminal (rio-backend/src/crosswords/mod.rs):    *)
(* everything that decides which row and which cell a handler touches.     *)
(*    lines, columns   the size of both grids                              *)
(*    cursor, saved    cursor and saved cursor of the active grid          *)
(*    other            cursor and saved cursor of the inactive grid        *)
(*    region           scrolling region, lines start .. end - 1            *)
(*    mode             the modes that change where a handler writes        *)
(*    tabs             a flag for every column                             *)
(* A cursor is a row, a column and should_wrap, the flag that says the     *)
(* last column is written and the next character starts a new line.        *)
(* Every handler is an operator from control states to control states;     *)
(* module Crosswords adds what it does to the cells.  An index that is off *)
(* the screen is a panic in the code.                                      *)
(***************************************************************************)
EXTENDS Integers

CONSTANTS
    INITIAL_TABSTOPS,   \* default distance of tab stops, 8 in the code
    Sizes,              \* the sizes a window can have, <<lines, columns>>
    Params              \* the parameters of the sequences, 0 for a missing one

(* MIN_LINES and MIN_COLUMNS are 1 and 2. *)
ASSUME SizesAssumption ==
    /\ INITIAL_TABSTOPS \in Nat \ {0}
    /\ Sizes \subseteq (Nat \ {0}) \X (Nat \ {0, 1})
    /\ Params \subseteq Nat

VARIABLE term

Modes == {"ALT_SCREEN", "ORIGIN", "LINE_WRAP", "INSERT"}

DefaultModes == {"LINE_WRAP"}

AtMost(x, bound) == IF x < bound THEN x ELSE bound
AtLeast(x, bound) == IF x > bound THEN x ELSE bound

Home == [row |-> 0, col |-> 0, wrap |-> FALSE]

NewTabs(columns) == [c \in 0 .. columns - 1 |-> c % INITIAL_TABSTOPS = 0]

NewTerm(lines, columns) ==
    [lines |-> lines, columns |-> columns, cursor |-> Home, saved |-> Home,
     other |-> [cursor |-> Home, saved |-> Home],
     region |-> [start |-> 0, end |-> lines], mode |-> DefaultModes,
     tabs |-> NewTabs(columns)]

Is(t, mode) == mode \in t.mode
InRegion(t, row) == t.region.start <= row /\ row < t.region.end
LastColumn(t) == t.columns - 1

AtRow(t, row) == [t EXCEPT !.cursor.row = row]
AtColumn(t, col) == [t EXCEPT !.cursor.col = col, !.cursor.wrap = FALSE]

-----------------------------------------------------------------------------
(* Cursor motion. *)

(* In origin mode lines count from the top of the scrolling region. *)
goto(t, line, col) ==
    LET y_offset == IF Is(t, "ORIGIN") THEN t.region.start ELSE 0
        max_y == IF Is(t, "ORIGIN") THEN t.region.end - 1 ELSE t.lines - 1
    IN  [t EXCEPT !.cursor = [row |-> AtLeast(AtMost(line + y_offset, max_y), 0),
                              col |-> AtMost(col, LastColumn(t)), wrap |-> FALSE]]

goto_line(t, line) == goto(t, line, t.cursor.col)
goto_col(t, col) == goto(t, t.cursor.row, col)
move_up(t, n) == goto(t, t.cursor.row - n, t.cursor.col)
move_down(t, n) == goto(t, t.cursor.row + n, t.cursor.col)
move_up_and_cr(t, n) == goto(t, t.cursor.row - n, 0)
move_down_and_cr(t, n) == goto(t, t.cursor.row + n, 0)
move_forward(t, n) == AtColumn(t, AtMost(t.cursor.col + n, LastColumn(t)))
move_backward(t, n) == AtColumn(t, AtLeast(t.cursor.col - n, 0))
carriage_return(t) == AtColumn(t, 0)
backspace(t) == IF t.cursor.col > 0 THEN AtColumn(t, t.cursor.col - 1) ELSE t

(* At the bottom of the region the region scrolls and the cursor stays. *)
FeedScrolls(t) == t.cursor.row + 1 = t.region.end

linefeed(t) ==
    IF ~FeedScrolls(t) /\ t.cursor.row + 1 < t.lines
    THEN AtRow(t, t.cursor.row + 1) ELSE t

reverse_index(t) ==
    IF t.cursor.row = t.region.start THEN t
    ELSE AtRow(t, AtLeast(t.cursor.row - 1, 0))

(* The next tab stop to the right, or the last column; to the left, or     *)
(* where the cursor is.                                                    *)
NextTab(t, col) ==
    LET stops == {c \in col + 1 .. LastColumn(t) : t.tabs[c]}
    IN  IF stops = {} THEN LastColumn(t) ELSE CHOOSE c \in stops : \A d \in stops : c <= d

PreviousTab(t, col) ==
    LET stops == {c \in 0 .. col - 1 : t.tabs[c]}
    IN  IF stops = {} THEN col ELSE CHOOSE c \in stops : \A d \in stops : d <= c

(* Tab handlers repeat one of the two n times; should_wrap stays. *)
TabForward(t) == [t EXCEPT !.cursor.col = NextTab(t, t.cursor.col)]
TabBackward(t) == [t EXCEPT !.cursor.col = PreviousTab(t, t.cursor.col)]

set_horizontal_tabstop(t) == [t EXCEPT !.tabs[t.cursor.col] = TRUE]
ClearTab(t) == [t EXCEPT !.tabs[t.cursor.col] = FALSE]
ClearTabs(t) == [t EXCEPT !.tabs = [c \in DOMAIN t.tabs |-> FALSE]]

-----------------------------------------------------------------------------
(* Writing a character. *)

wrapline(t) ==
    IF ~Is(t, "LINE_WRAP") THEN t
    ELSE AtColumn(IF t.cursor.row + 1 >= t.region.end THEN linefeed(t)
                  ELSE AtRow(t, t.cursor.row + 1), 0)

(* After a write: one column on, or should_wrap in the last column. *)
Advance(t) ==
    IF t.cursor.col + 1 < t.columns THEN [t EXCEPT !.cursor.col = @ + 1]
    ELSE [t EXCEPT !.cursor.wrap = TRUE]

AfterPendingWrap(t) == IF t.cursor.wrap THEN wrapline(t) ELSE t

(* A wide character needs two columns of one line. *)
NoRoomForWide(t) == t.cursor.col + 1 >= t.columns

InputNarrow(t) == Advance(AfterPendingWrap(t))

InputWideAlways(t) == Advance([AfterPendingWrap(t) EXCEPT !.cursor.col = @ + 1])

InputWide(t) ==
    LET w == AfterPendingWrap(t)
    IN  CASE ~NoRoomForWide(w) -> Advance([w EXCEPT !.cursor.col = @ + 1])
          [] NoRoomForWide(w) /\ Is(w, "LINE_WRAP") ->
                Advance([wrapline(w) EXCEPT !.cursor.col = @ + 1])
          [] OTHER -> [w EXCEPT !.cursor.wrap = TRUE]

(* VS16 widens the character before the cursor, in the next line when it   *)
(* is in the last column; VS15 narrows it again.                           *)
WidenBase(t) ==
    LET base == IF t.cursor.wrap THEN t.cursor.col ELSE t.cursor.col - 1
    IN  IF base + 1 < t.columns
        THEN Advance(AtColumn(t, base + 1))
        ELSE Advance([wrapline(AtColumn(t, base)) EXCEPT !.cursor.col = 1])

WidenAllowed(t) ==
    /\ t.cursor.wrap \/ t.cursor.col > 0
    /\ t.cursor.wrap /\ t.cursor.col = LastColumn(t) => Is(t, "LINE_WRAP")

NarrowBase(t) ==
    AtColumn(t, IF t.cursor.wrap THEN t.cursor.col ELSE t.cursor.col - 1)

NarrowAllowed(t) == IF t.cursor.wrap THEN t.cursor.col > 0 ELSE t.cursor.col >= 2

(* A tab behind the last column is a line break. *)
put_tab(t) == IF t.cursor.wrap THEN wrapline(t) ELSE TabForward(t)

-----------------------------------------------------------------------------
(* Modes, region, screens. *)

save_cursor_position(t) == [t EXCEPT !.saved = t.cursor]
restore_cursor_position(t) == [t EXCEPT !.cursor = t.saved]

set_mode(t, m) == [t EXCEPT !.mode = @ \cup {m}]
unset_mode(t, m) == [t EXCEPT !.mode = @ \ {m}]

(* bottom is 0 when the sequence leaves it out; a region may be empty.     *)
set_scrolling_region(t, top, bottom) ==
    LET last == IF bottom = 0 THEN t.lines ELSE bottom
    IN  IF top >= last THEN t
        ELSE goto([t EXCEPT !.region = [start |-> AtMost(top - 1, t.lines),
                                        end |-> AtMost(last, t.lines)]], 0, 0)

deccolm(t) == set_scrolling_region(t, 1, 0)

(* Entering the alternate screen takes the cursor along. *)
swap_alt(t) ==
    LET swapped(inactive, saved) ==
            [t EXCEPT !.cursor = inactive.cursor, !.saved = inactive.saved,
                      !.other = [cursor |-> t.cursor, saved |-> saved]]
    IN  IF Is(t, "ALT_SCREEN")
        THEN unset_mode(swapped(t.other, t.saved), "ALT_SCREEN")
        ELSE set_mode(swapped([cursor |-> t.cursor, saved |-> t.other.saved], t.cursor),
                      "ALT_SCREEN")

SetAltScreen(t) == IF Is(t, "ALT_SCREEN") THEN t ELSE swap_alt(t)
UnsetAltScreen(t) == IF Is(t, "ALT_SCREEN") THEN swap_alt(t) ELSE t

reset_state(t) == NewTerm(t.lines, t.columns)

(* TabStops::resize keeps the flags of the columns that stay. *)
ResizedTabs(t, columns) ==
    [c \in 0 .. columns - 1 |->
        IF c \in DOMAIN t.tabs THEN t.tabs[c] ELSE c % INITIAL_TABSTOPS = 0]

(* A resize moves four cursors, each somewhere on the new screen: where is *)
(* computed in Crosswords from the rows.                                   *)
ResizedTerm(t, lines, columns, cursor, saved, other) ==
    [t EXCEPT !.lines = lines, !.columns = columns,
              !.cursor = cursor, !.saved = saved, !.other = other,
              !.region = [start |-> 0, end |-> lines],
              !.tabs = ResizedTabs(t, columns)]

Positions(lines, columns) ==
    [row : 0 .. lines - 1, col : 0 .. columns - 1, wrap : BOOLEAN]

-----------------------------------------------------------------------------

TermInit == \E size \in Sizes : term = NewTerm(size[1], size[2])

(* A parameter of a sequence is 1 when it is missing or 0 (next_param_or); *)
(* lines and columns of a position count from 1.                           *)
Counts == Params \ {0}

Motion ==
    \/ \E y, x \in Counts : term' = goto(term, y - 1, x - 1)
    \/ \E n \in Counts :
            term' \in {goto_line(term, n - 1), goto_col(term, n - 1),
                       move_up(term, n), move_down(term, n), move_up_and_cr(term, n),
                       move_down_and_cr(term, n), move_forward(term, n),
                       move_backward(term, n)}
    \/ term' \in {carriage_return(term), backspace(term), linefeed(term),
                  carriage_return(linefeed(term)), reverse_index(term),
                  TabForward(term), TabBackward(term)}

Writing ==
    \/ term' \in {InputNarrow(term), InputWide(term), put_tab(term)}
    \/ WidenAllowed(term) /\ term' = WidenBase(term)
    \/ NarrowAllowed(term) /\ term' = NarrowBase(term)

Screens ==
    \/ term' \in {save_cursor_position(term), restore_cursor_position(term),
                  deccolm(term), SetAltScreen(term), UnsetAltScreen(term), reset_state(term)}
    \/ \E m \in Modes \ {"ALT_SCREEN"} : term' \in {set_mode(term, m), unset_mode(term, m)}
    \/ \E top \in Counts, bottom \in Params : term' = set_scrolling_region(term, top, bottom)
    \/ term' \in {set_horizontal_tabstop(term), ClearTab(term), ClearTabs(term)}

Resized(size) ==
    /\ {term'.cursor, term'.saved, term'.other.cursor, term'.other.saved}
            \subseteq Positions(size[1], size[2])
    /\ term' = ResizedTerm(term, size[1], size[2], term'.cursor, term'.saved,
                           [cursor |-> term'.other.cursor, saved |-> term'.other.saved])

TermNext == Motion \/ Writing \/ Screens \/ \E size \in Sizes : Resized(size)

(* The control state alone, whatever cells the handlers meet and wherever  *)
(* a reflow finds the cursors a place.                                     *)
TermSpec == TermInit /\ [][TermNext]_term

-----------------------------------------------------------------------------

CursorType == [row : Int, col : Int, wrap : BOOLEAN]

TermType(t) ==
    /\ <<t.lines, t.columns>> \in Sizes
    /\ {t.cursor, t.saved, t.other.cursor, t.other.saved} \subseteq CursorType
    /\ t.mode \subseteq Modes

OnScreen(t, cursor) == cursor \in Positions(t.lines, t.columns)

(* Rows, cells, damage flags and tab stops are arrays that handlers index  *)
(* with the cursor and the scrolling region, and swap_alt and              *)
(* restore_cursor_position bring back cursors of before a resize: whatever *)
(* the sequence of handlers, all of them stay on the screen of now.        *)
InBounds ==
    /\ TermType(term)
    /\ \A c \in {term.cursor, term.saved, term.other.cursor, term.other.saved} :
            OnScreen(term, c)
    /\ 0 <= term.region.start /\ term.region.start <= term.region.end
    /\ term.region.end <= term.lines
    /\ DOMAIN term.tabs = 0 .. term.columns - 1
=============================================================================
