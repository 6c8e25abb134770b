-------------------------------- MODULE Grid --------------------------------
(***************************************************************************)
(* The terminal grid (rio-backend/src/crosswords/grid/{mod,resize,row}.rs) *)
(* on top of the ring buffer of module Storage.  A grid is a record        *)
(*    raw               its row storage                                    *)
(*    lines             lines on the screen                                *)
(*    display_offset    how far the view is scrolled back into history     *)
(*    max_scroll_limit  how many history lines it may keep                 *)
(*    cursor, saved     rows of the cursor and of the saved cursor         *)
(* A row is its text and the dirty bit that tells the renderer's snapshot  *)
(* to copy it.  Columns are abstracted: a row's cells are one value, Blank *)
(* when every cell is empty.  Every method is an operator from grids to    *)
(* grids; its loops over lines are folds in the loop's order.              *)
(***************************************************************************)
EXTENDS Integers, Sequences, SequencesExt

CONSTANTS
    MAX_CACHE_SIZE,
    Blank               \* the text of a row with no content

BlankRow == [text |-> Blank, dirty |-> TRUE]

INSTANCE Storage WITH NewRow <- BlankRow

-----------------------------------------------------------------------------
(* Loops. *)

AtMost(x, bound) == IF x < bound THEN x ELSE bound

(* The lines from a up to but not including b, downwards and upwards. *)
Upto(a, b) == [i \in 1 .. b - a |-> a + i - 1]
Downfrom(a, b) == Reverse(Upto(a, b))

SwapEach(st, ls, distance) ==
    FoldLeft(LAMBDA s, l : swap(s, l, l + distance), st, ls)

(* Row::reset clears the cells and sets the dirty bit. *)
ResetEach(st, ls) == FoldLeft(LAMBDA s, l : SetRow(s, l, BlankRow), st, ls)

DirtyEach(st, ls) ==
    FoldLeft(LAMBDA s, l : SetRow(s, l, [RowAt(s, l) EXCEPT !.dirty = TRUE]), st, ls)

-----------------------------------------------------------------------------

new(lines, limit) ==
    [raw |-> with_capacity(lines), lines |-> lines, display_offset |-> 0,
     max_scroll_limit |-> limit, cursor |-> 0, saved |-> 0]

HistorySize(g) == g.raw.len - g.lines

(* The rows of the screen, top first, and of the history, oldest first. *)
ScreenRows(g) == [i \in 1 .. g.lines |-> RowAt(g.raw, i - 1)]
HistoryRows(g) == [i \in 1 .. HistorySize(g) |-> RowAt(g.raw, i - 1 - HistorySize(g))]

Texts(rs) == [i \in 1 .. Len(rs) |-> rs[i].text]

(* Writing a cell of a row goes through IndexMut<Column>: the row is dirty. *)
write(g, line, text) ==
    [g EXCEPT !.raw = SetRow(g.raw, line, [text |-> text, dirty |-> TRUE])]

scroll_display(g, delta) ==
    LET back == IF g.display_offset + delta < 0 THEN 0 ELSE g.display_offset + delta
    IN  [g EXCEPT !.display_offset = AtMost(back, HistorySize(g))]

UnboundedHistory(g, count) == [g EXCEPT !.raw = initialize(g.raw, count)]

increase_scroll_limit(g, count) ==
    LET n == AtMost(count, g.max_scroll_limit - HistorySize(g))
    IN  IF n # 0 THEN [g EXCEPT !.raw = initialize(g.raw, n)] ELSE g

decrease_scroll_limit(g, count) ==
    LET n == AtMost(count, HistorySize(g))
        shrunk == [g EXCEPT !.raw = shrink_lines(g.raw, n)]
    IN  IF n # 0
        THEN [shrunk EXCEPT !.display_offset = AtMost(g.display_offset, HistorySize(shrunk))]
        ELSE g

(* Lines [start, end) move down by n; the rows they leave are cleared.     *)
(* Without history the whole buffer is rotated and the fixed lines are     *)
(* swapped back; with history the rows are swapped one by one.             *)
scroll_down(g, start, end, n) ==
    LET without_history ==
            LET bottom == SwapEach(g.raw, Upto(end, g.lines), -n)
                cleared == ResetEach(rotate_down(bottom, n), Upto(0, n))
            IN  SwapEach(cleared, Upto(0, start), n)
        with_history ==
            ResetEach(SwapEach(g.raw, Downfrom(start + n, end), -n),
                      Downfrom(start, start + n))
        moved == IF g.max_scroll_limit = 0 THEN without_history ELSE with_history
    IN  IF end - start <= n
        THEN [g EXCEPT !.raw = ResetEach(g.raw, Upto(start, end))]
        ELSE [g EXCEPT !.raw = DirtyEach(moved, Upto(start, end))]

FrozenOffset(g, n) == g.display_offset

ScrolledOffset(g, n) ==
    IF g.display_offset = 0 THEN 0
    ELSE AtMost(g.display_offset + n, g.max_scroll_limit)

FixedLinesInWrongOrder(g, end, n) ==
    LET grown == increase_scroll_limit(g, n)
    IN  SwapEach(rotate(grown.raw, -n), Upto(end, g.lines), -n)

(* The rows a region at the top of the screen scrolls out become history. *)
RotateIntoHistory(g, end, n) ==
    LET grown == increase_scroll_limit(g, n)
    IN  SwapEach(rotate(grown.raw, -n), Downfrom(end, g.lines), -n)

RotateRegion(g, start, end, n) == SwapEach(g.raw, Upto(start, end - n), n)

(* Lines [start, end) move up by n; n blank rows come in at the bottom. *)
scroll_up(g, start, end, n) ==
    LET moved == IF start = 0 THEN RotateIntoHistory(g, end, n)
                 ELSE RotateRegion(g, start, end, n)
        cleared == ResetEach(moved, Upto(end - n, end))
    IN  IF end - start <= n /\ start # 0
        THEN [g EXCEPT !.raw = ResetEach(g.raw, Upto(start, end))]
        ELSE [g EXCEPT !.display_offset = ScrolledOffset(g, n),
                       !.raw = DirtyEach(cleared, Upto(start, end))]

(* How many lines clear_viewport scrolls: up to the last one with content. *)
(* Its backwards iterator ends on line -1 of an empty screen, or on line 0 *)
(* when there is no history above it.                                      *)
UsedLines(g) ==
    LET last == SelectLastInSeq(ScreenRows(g), LAMBDA r : r.text # Blank)
    IN  IF last = 0 /\ HistorySize(g) = 0 THEN 1 ELSE last

clear_viewport(g) ==
    LET used == UsedLines(g)
        scrolled == scroll_up(g, 0, g.lines, used)
    IN  [scrolled EXCEPT !.raw = ResetEach(@, Upto(0, g.lines - used))]

reset_region(g, start, end) ==
    [g EXCEPT !.raw = ResetEach(g.raw, Upto(start, end))]

clear_history(g) ==
    [g EXCEPT !.raw = shrink_lines(g.raw, HistorySize(g)), !.display_offset = 0]

reset(g) ==
    LET cleared == clear_history(g)
    IN  [cleared EXCEPT !.raw = ResetEach(@, Upto(0, g.lines)),
                        !.cursor = 0, !.saved = 0]

-----------------------------------------------------------------------------
(* Resizing the number of lines (grid/resize.rs). *)

(* Lines are pulled out of history; what history cannot give is added as   *)
(* blank lines at the bottom.                                              *)
grow_lines(g, target) ==
    LET added == target - g.lines
        from_history == AtMost(HistorySize(g), added)
        taller == [g EXCEPT !.raw = grow_visible_lines(g.raw, target), !.lines = target]
        filled == IF from_history # added
                  THEN scroll_up(taller, 0, target, added - from_history) ELSE taller
        back == IF filled.display_offset < added THEN 0 ELSE filled.display_offset - added
    IN  decrease_scroll_limit(
            [filled EXCEPT !.cursor = g.cursor + from_history,
                           !.saved = g.saved + from_history,
                           !.display_offset = back], added)

(* The lines above the cursor that no longer fit go to history, then the   *)
(* lines below the new screen are cut off.                                 *)
shrink_grid_lines(g, target) ==
    LET required == IF g.cursor + 1 > target THEN g.cursor + 1 - target ELSE 0
        scrolled == IF required > 0
                    THEN [scroll_up(g, 0, g.lines, required) EXCEPT
                            !.cursor = AtMost(g.cursor, target - 1)]
                    ELSE g
        rotated == rotate(scrolled.raw, g.lines - target)
    IN  [scrolled EXCEPT !.saved = AtMost(g.saved, target - 1),
                         !.raw = shrink_visible_lines(rotated, target),
                         !.lines = target]

resize(g, target) ==
    CASE g.lines < target -> grow_lines(g, target)
      [] g.lines > target -> shrink_grid_lines(g, target)
      [] OTHER -> g
=============================================================================
