------------------------------- MODULE Reflow -------------------------------
(***************************************************************************)
(* Resizing a grid (rio-backend/src/crosswords/grid/resize.rs).  A change  *)
(* of the number of columns takes all rows out, joins the rows of wrapped  *)
(* lines or splits long ones, and moves the cursor along; a grid without   *)
(* reflow (the alternate screen) cuts or pads its rows.  The two loops are *)
(* folds over the rows, oldest first, on a record                          *)
(*    out       the new rows                                               *)
(*    cursor    the cursor, its row counted in lines of the screen         *)
(*    offset    how far the view is scrolled back                          *)
(* and what each loop carries besides.  A grid to resize is a record with  *)
(* the fields grid, cursor and saved.                                      *)
(***************************************************************************)
EXTENDS Screen

AllRows(g) == g.history \o g.screen

(* The rows as a grid again: the last ones are the screen, and the view    *)
(* stays within the history.                                               *)
WithRows(g, rows, lines, offset) ==
    LET history == Len(rows) - lines
    IN  [g EXCEPT !.history = SubSeq(rows, 1, history),
                  !.screen = SubSeq(rows, history + 1, Len(rows)),
                  !.offset = AtMost(offset, history)]

(* Distance of the cursor's row from the bottom of the screen. *)
CursorBufferLine(lines, cursor) == lines - cursor.row - 1

WithWrap(cells, flag) == [cells EXCEPT ![Len(cells)].wrapline = flag]

IsClear(cells) == \A i \in DOMAIN cells : IsEmpty(cells[i])

Padded(cells, columns) == cells \o [i \in 1 .. AtLeast(columns - Len(cells), 0) |-> Empty]

PaddedRow(row, columns) == [cells |-> Padded(row.cells, columns), dirty |-> row.dirty]

(* Removes the line-wrap special case: the cursor goes outside the grid. *)
Unwrapped(cursor) ==
    IF cursor.wrap THEN [cursor EXCEPT !.wrap = FALSE, !.col = @ + 1] ELSE cursor

(* Pos::sub with the boundary of the cursor: n cells back. *)
PosSub(cursor, columns, n) ==
    LET row == cursor.row - (AtLeast(n + columns - 1 - cursor.col, 0) \div columns)
        col == (columns + cursor.col - (n % columns)) % columns
    IN  IF row < 0 THEN [cursor EXCEPT !.row = 0, !.col = 0]
        ELSE [cursor EXCEPT !.row = row, !.col = col]

-----------------------------------------------------------------------------
(* Lines. *)

grow_lines(s, target) ==
    LET g == s.grid
        added == target - Lines(g)
        from_history == AtMost(HistorySize(g), added)
        scrolled == IF g.offset = 0 \/ from_history = added THEN g.offset
                    ELSE AtMost(g.offset + added - from_history, g.limit)
        rows == AllRows(g) \o Blanks(added - from_history, Columns(g))
    IN  [s EXCEPT !.grid = [WithRows(g, rows, target, 0) EXCEPT !.offset = AtLeast(scrolled - added, 0)],
                  !.cursor.row = @ + from_history, !.saved.row = @ + from_history]

shrink_lines(s, target) ==
    LET required == AtLeast(s.cursor.row + 1 - target, 0)
        g == IF required > 0 THEN scroll_up(s.grid, 0, Lines(s.grid), required) ELSE s.grid
    IN  [s EXCEPT !.grid = [g EXCEPT !.screen = SubSeq(@, 1, target)],
                  !.cursor.row = AtMost(@, target - 1), !.saved.row = AtMost(@, target - 1)]

-----------------------------------------------------------------------------
(* More columns: rows of a wrapped line are joined. *)

TornPulled(cells, len) ==
    [up |-> SubSeq(cells, 1, len), rest |-> SubSeq(cells, len + 1, Len(cells)), short |-> 0]

(* The row's cells that move up, num_wrapped columns of room being left,   *)
(* and the ones that stay.  A wide cell is never torn from its spacer.     *)
Pulled(cells, len) ==
    IF cells[len].c = "E"
    THEN [up |-> Append(SubSeq(cells, 1, len - 1), Cell("l")),
          rest |-> SubSeq(cells, len, Len(cells)), short |-> 1]
    ELSE [up |-> SubSeq(cells, 1, len), rest |-> SubSeq(cells, len + 1, Len(cells)), short |-> 0]

WithoutSpacer(cells) == IF Last(cells).c = "l" THEN Front(cells) ELSE cells

(* The row above with the cells of this row that have room behind it, the  *)
(* cells that stay, and by how many columns the cursor moves back.         *)
Join(head, cells, columns) ==
    LET pull == Pulled(cells, AtMost(Len(cells), columns - Len(head)))
    IN  [cells |-> head \o pull.up, rest |-> pull.rest,
         num_wrapped |-> columns - Len(head) - pull.short]

Merged(out, join) == Append(Front(out), Dirty(join.cells))
Split(out, join) == Append(Append(Front(out), Dirty(WithWrap(join.cells, TRUE))), Dirty(join.rest))

(* The cursor's row. *)
GrowCursor(cursor, join, columns) ==
    LET target == PosSub(cursor, columns, join.num_wrapped)
    IN  IF target.col = 0 /\ IsClear(join.rest)
        THEN [PosSub(target, columns, 1) EXCEPT !.wrap = TRUE] ELSE target

JoinCursorRow(a, join, target) ==
    LET line_delta == a.cursor.row - target.row
        moved == [a EXCEPT !.cursor.col = target.col, !.cursor.wrap = target.wrap]
    IN  IF line_delta # 0 /\ IsClear(join.rest)
        THEN [moved EXCEPT !.out = Merged(@, join)]
        ELSE [moved EXCEPT !.out = Split(@, join), !.delta = @ + line_delta]

(* Any other row. *)
JoinRow(a, join, i, buffer_line) ==
    IF IsClear(join.rest)
    THEN [a EXCEPT !.out = Merged(@, join),
                   !.offset = IF i < @ THEN @ - 1 ELSE @,
                   !.cursor.row = IF i < buffer_line THEN @ + 1 ELSE @]
    ELSE [a EXCEPT !.out = Split(@, join)]

Continues(out, columns) ==
    /\ out # <<>>
    /\ Len(Last(out).cells) > 0 /\ Len(Last(out).cells) < columns
    /\ Last(Last(out).cells).wrapline

(* i is the row's distance from the bottom of the screen. *)
GrowStep(a, row, i, lines, columns, reflow) ==
    LET join == Join(WithoutSpacer(WithWrap(Last(a.out).cells, FALSE)), row.cells, columns)
        buffer_line == CursorBufferLine(lines, a.cursor)
    IN  CASE ~(reflow /\ Continues(a.out, columns)) -> [a EXCEPT !.out = Append(@, row)]
          [] reflow /\ Continues(a.out, columns) /\ i = buffer_line ->
                JoinCursorRow(a, join, GrowCursor(a.cursor, join, columns))
          [] OTHER -> JoinRow(a, join, i, buffer_line)

(* The viewport is filled up, and lines below the cursor are given up for  *)
(* the lines it moved up by.                                               *)
PullDown(a, lines, columns) ==
    LET missing == AtLeast(lines - Len(a.out), 0)
        out == a.out \o Blanks(missing, columns)
        row == AtLeast(a.cursor.row - missing, 0)
        available == AtMost(lines - row - 1, Len(out) - lines)
        overflow == AtLeast(a.delta - available, 0)
    IN  [a EXCEPT !.out = SubSeq(out, 1, Len(out) + overflow - a.delta),
                  !.cursor.row = AtLeast(row - overflow, 0)]

(* The loop over the rows. *)
GrowRows(start, list, lines, columns, reflow) ==
    FoldLeftDomain(LAMBDA a, j : GrowStep(a, list[j], Len(list) - j, lines, columns, reflow),
                   start, list)

grow_columns(s, columns, reflow) ==
    LET g == s.grid
        lines == Lines(g)
        start == [out |-> <<>>, delta |-> 0, offset |-> g.offset,
                  cursor |-> IF reflow THEN Unwrapped(s.cursor) ELSE s.cursor]
        done == PullDown(GrowRows(start, AllRows(g), lines, columns, reflow), lines, columns)
        padded == [j \in DOMAIN done.out |-> PaddedRow(done.out[j], columns)]
    IN  [s EXCEPT !.grid = WithRows(g, padded, lines, done.offset), !.cursor = done.cursor]

-----------------------------------------------------------------------------
(* Fewer columns: long rows are split. *)

(* Row::shrink gives the cells behind the new last column, up to the last  *)
(* one with content.                                                       *)
Overhang(cells, columns) ==
    LET cut == SubSeq(cells, columns + 1, Len(cells))
    IN  SubSeq(cut, 1, SelectLastInSeq(cut, LAMBDA c : ~IsEmpty(c)))

(* The row up to the last column, and what goes on behind it.  A wide cell *)
(* in the last column leaves a leading spacer and goes on whole.           *)
Cut(first, tail) ==
    IF Last(first).c = "E"
    THEN [kept |-> Append(Front(first), Cell("l")), over |-> <<Last(first)>> \o tail]
    ELSE [kept |-> first, over |-> tail]

(* The rest of a line goes in front of the next row of that line if it is  *)
(* shorter than a row, else it is the next turn's.                         *)
PassOn(b, over, i, buffer_line, columns) ==
    IF over # <<>> /\ Last(over).wrapline /\ i >= 1 /\ Len(over) < columns
    THEN [b EXCEPT !.buffered = WithWrap(over, FALSE), !.done = TRUE]
    ELSE [b EXCEPT
            !.cells = Padded(over, columns),
            !.cursor.row = IF (i = buffer_line /\ b.cursor.col < columns) \/ i < buffer_line
                           THEN AtLeast(@ - 1, 0) ELSE @,
            !.cursor.col = IF i = buffer_line /\ @ >= columns THEN @ - columns ELSE @,
            !.offset = IF i < @ THEN @ + 1 ELSE @]

SplitRow(b, cut, i, buffer_line, columns) ==
    LET pushed == [b EXCEPT !.out = Append(@, Dirty(WithWrap(cut.kept, TRUE)))]
        spacerEnds == cut.over # <<>> /\ Last(cut.over).c = "l"
    IN  CASE ~spacerEnds -> PassOn(pushed, cut.over, i, buffer_line, columns)
          [] spacerEnds /\ Len(cut.over) = 1 -> [pushed EXCEPT !.done = TRUE]
          [] OTHER -> PassOn(pushed, WithWrap(Front(cut.over), TRUE), i, buffer_line, columns)

(* One turn of the loop on a row: it is pushed if it fits, else split. *)
ShrinkTurn(b, i, lines, columns, reflow) ==
    LET tail == Overhang(b.cells, columns)
        first == SubSeq(b.cells, 1, columns)
        buffer_line == CursorBufferLine(lines, b.cursor)
        fits == ~reflow \/ (tail = <<>> /\ ~(i = buffer_line /\ b.cursor.col > columns))
    IN  CASE b.done -> b
          [] ~b.done /\ fits -> [b EXCEPT !.out = Append(@, Dirty(first)), !.done = TRUE]
          [] OTHER -> SplitRow(b, Cut(first, tail), i, buffer_line, columns)

(* The loop on one row, *)
ShrinkTurns(begin, turns, i, lines, columns, reflow) ==
    FoldLeft(LAMBDA b, k : ShrinkTurn(b, i, lines, columns, reflow), begin,
             [k \in 1 .. turns |-> k])

(* Cells left over from the row above come first; the cursor on this row   *)
(* moves behind them.  Every turn takes a cell or a column of the cursor.  *)
ShrinkStep(a, row, i, lines, columns, reflow) ==
    LET ahead == IF i = CursorBufferLine(lines, a.cursor) THEN Len(a.buffered) ELSE 0
        begin == [a EXCEPT !.cells = a.buffered \o row.cells, !.buffered = <<>>,
                           !.cursor.col = @ + ahead, !.done = FALSE]
        turns == Len(begin.cells) + begin.cursor.col + 1
    IN  ShrinkTurns(begin, turns, i, lines, columns, reflow)

(* and the loop over the rows. *)
ShrinkRows(start, list, lines, columns, reflow) ==
    FoldLeftDomain(LAMBDA a, j : ShrinkStep(a, list[j], Len(list) - j, lines, columns, reflow),
                   start, list)

(* The reflown cursor may be one column beyond: then the next character    *)
(* wraps.  Else it is clamped to the grid (Pos::grid_clamp).               *)
LandCursor(cursor, g, columns, reflow) ==
    LET beyond == /\ cursor.col = columns
                  /\ ~Last(Cells(g, cursor.row)).wrapline
    IN  CASE ~reflow -> [cursor EXCEPT !.col = AtMost(@, columns - 1)]
          [] reflow /\ beyond -> [cursor EXCEPT !.wrap = TRUE, !.col = @ - 1]
          [] OTHER -> [cursor EXCEPT !.col = AtMost(@, columns - 1)]

shrink_columns(s, columns, reflow) ==
    LET g == s.grid
        lines == Lines(g)
        start == [out |-> <<>>, buffered |-> <<>>, cells |-> <<>>, done |-> TRUE,
                  offset |-> g.offset,
                  cursor |-> IF reflow THEN Unwrapped(s.cursor) ELSE s.cursor]
        done == ShrinkRows(start, AllRows(g), lines, columns, reflow)
        new == WithRows(g, Newest(done.out, g.limit + lines), lines, done.offset)
    IN  [grid |-> new, cursor |-> LandCursor(done.cursor, new, columns, reflow),
         saved |-> [s.saved EXCEPT !.col = AtMost(@, columns - 1)]]

-----------------------------------------------------------------------------

resize(s, lines, columns, reflow) ==
    LET t == CASE Lines(s.grid) < lines -> grow_lines(s, lines)
               [] Lines(s.grid) > lines -> shrink_lines(s, lines)
               [] OTHER -> s
    IN  CASE Columns(s.grid) < columns -> grow_columns(t, columns, reflow)
          [] Columns(s.grid) > columns -> shrink_columns(t, columns, reflow)
          [] OTHER -> t
=============================================================================
