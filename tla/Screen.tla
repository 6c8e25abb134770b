------------------------------- MODULE Screen -------------------------------
(***************************************************************************)
(* A grid as the list of rows it stands for: run grid shows that the ring  *)
(* buffer of module Grid implements such lists.  A grid is                 *)
(*    screen, history  rows, top and oldest first                          *)
(*    offset           how far the view is scrolled back                   *)
(*    limit            how many history rows it may keep                   *)
(* A row is its cells and the dirty bit that tells the renderer's snapshot *)
(* to copy it; every write through IndexMut sets it.  A cell holds         *)
(*    "_"  nothing     "t" a tab         " " a space                       *)
(*    "a"  a letter    "b" a letter with a combining mark                  *)
(*    "e"  an emoji in text presentation                                   *)
(*    "E"  the same emoji, wide          "s" the spacer behind it          *)
(*    "l"  the leading spacer in the last column in front of a wide cell   *)
(* and the flag that says the line goes on in the next row.                *)
(***************************************************************************)
EXTENDS Terminal, Sequences, SequencesExt

Cell(c) == [c |-> c, wrapline |-> FALSE]
Empty == Cell("_")

(* GridSquare::is_empty: a wrap flag makes a cell count as content. *)
IsEmpty(cell) == cell.c \in {"_", "t"} /\ ~cell.wrapline

(* set_wide(Wide::Narrow) *)
Unwiden(cell) ==
    [cell EXCEPT !.c = CASE cell.c = "E" -> "e" [] cell.c \in {"s", "l"} -> " "
                         [] OTHER -> cell.c]

(* A sequence given as a function.  The concatenation makes TLC evaluate   *)
(* it at once: it may get EXCEPT wrong on one that is still unevaluated.   *)
Sequence(f) == <<>> \o f

Dirty(cells) == [cells |-> cells, dirty |-> TRUE]
Filled(cell, columns) == Dirty(Sequence([c \in 1 .. columns |-> cell]))
Blanks(n, columns) == Sequence([i \in 1 .. n |-> Filled(Empty, columns)])
AllDirty(rows) == Sequence([i \in DOMAIN rows |-> Dirty(rows[i].cells)])

NewGrid(lines, columns, limit) ==
    [screen |-> Blanks(lines, columns), history |-> <<>>, offset |-> 0, limit |-> limit]

Lines(g) == Len(g.screen)
Columns(g) == Len(g.screen[1].cells)
HistorySize(g) == Len(g.history)

Cells(g, row) == g.screen[row + 1].cells
SetCells(g, row, cells) == [g EXCEPT !.screen[row + 1] = Dirty(cells)]
SetCell(g, row, col, cell) == [g EXCEPT !.screen[row + 1] = Dirty([@.cells EXCEPT ![col + 1] = cell])]

(* The last n elements of s. *)
Newest(s, n) == IF Len(s) <= n THEN s ELSE SubSeq(s, Len(s) - n + 1, Len(s))

-----------------------------------------------------------------------------
(* Moving rows: grid/mod.rs. *)

(* Rows start + 1 .. end of the screen become rows, all of them dirty. *)
WithRegion(g, start, end, rows) ==
    [g EXCEPT !.screen = SubSeq(@, 1, start) \o AllDirty(rows) \o SubSeq(@, end + 1, Len(@))]

scroll_down(g, start, end, n) ==
    LET m == AtMost(n, end - start)
    IN  WithRegion(g, start, end, Blanks(m, Columns(g)) \o SubSeq(g.screen, start + 1, end - m))

(* Only a region at the top of the screen scrolls into history. *)
scroll_up(g, start, end, n) ==
    LET m == AtMost(n, end - start)
        moved == WithRegion(g, start, end,
                            SubSeq(g.screen, start + m + 1, end) \o Blanks(m, Columns(g)))
        offset == IF g.offset = 0 THEN 0 ELSE AtMost(g.offset + n, g.limit)
    IN  CASE end - start <= n /\ start # 0 -> moved
          [] end - start > n /\ start # 0 -> [moved EXCEPT !.offset = offset]
          [] start = 0 -> [moved EXCEPT !.offset = offset,
                !.history = Newest(g.history \o SubSeq(g.screen, 1, m), g.limit)]

reset_region(g, start, end) == WithRegion(g, start, end, Blanks(end - start, Columns(g)))

UsedLines(g) ==
    LET last == SelectLastInSeq(g.screen, LAMBDA r : \E i \in DOMAIN r.cells : ~IsEmpty(r.cells[i]))
    IN  IF last = 0 /\ HistorySize(g) = 0 THEN 1 ELSE last

clear_viewport(g) == reset_region(scroll_up(g, 0, Lines(g), UsedLines(g)), 0, Lines(g) - UsedLines(g))

clear_history(g) == [g EXCEPT !.history = <<>>, !.offset = 0]

ResetGrid(g) == reset_region(clear_history(g), 0, Lines(g))

ScrollView(g, delta) == [g EXCEPT !.offset = AtMost(AtLeast(@ + delta, 0), HistorySize(g))]

(* The rows a reader sees, top first: the history rows that offset selects *)
(* and the screen rows above the bottom of the view.  A view beyond the    *)
(* history (see run grid_offset) shows rows that do not exist.             *)
NoRow == [cells |-> <<>>, dirty |-> FALSE]

ViewRow(g, y) ==
    LET line == y - g.offset
    IN  CASE line >= 0 -> g.screen[line + 1]
          [] line < 0 /\ -line <= HistorySize(g) -> g.history[HistorySize(g) + line + 1]
          [] OTHER -> NoRow

ViewRows(g) == [y \in 1 .. Lines(g) |-> ViewRow(g, y - 1)]

(* What snapshot_visible leaves behind: the rows of the view are clean. *)
Cleaned(g) ==
    LET InView(line) == line + g.offset >= 0 /\ line + g.offset < Lines(g)
        Clean(row, line) == [cells |-> row.cells, dirty |-> row.dirty /\ ~InView(line)]
    IN  [g EXCEPT
            !.screen = Sequence([i \in DOMAIN @ |-> Clean(@[i], i - 1)]),
            !.history = Sequence([i \in DOMAIN @ |-> Clean(@[i], i - 1 - Len(@))])]
=============================================================================
