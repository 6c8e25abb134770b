----------------------------- MODULE Crosswords -----------------------------
(***************************************************************************)
(* The terminal of one panel (rio-backend/src/crosswords/mod.rs): the      *)
(* handlers of the escape sequences on the control state of module         *)
(* Terminal and the rows of module Screen, the damage they report, the     *)
(* snapshot the renderer takes of the view, and the keyboard modes.        *)
(* A handler is an action: its operator of Terminal gives the new control  *)
(* state, an operator of this module on the pair (t, k) the new rows,      *)
(* where k is                                                              *)
(*    grid, inactive   the two grids                                       *)
(*    damage           "none", "partial" or "full": of the damaged lines   *)
(*                     only whether there is one is ever read              *)
(*    last_cursor      where the cursor was at the last render             *)
(*    slipped          (ghost) output scrolled the rows under a view that  *)
(*                     could not follow, and no full render happened since *)
(***************************************************************************)
EXTENDS Reflow

CONSTANTS
    DEPTH,              \* KEYBOARD_MODE_STACK_MAX_DEPTH, 8 in the code
    KeyFlags,           \* keyboard mode flags
    Programs            \* each the operations, the sizes and the history limit
                        \* of some behaviours

ASSUME CrosswordsAssumption ==
    /\ DEPTH \in Nat \ {0}
    /\ \A p \in Programs : p.sizes \subseteq Sizes /\ p.max_scroll_limit \in Nat

VARIABLES
    rows,               \* k
    frame,              \* the renderer's copy of the view: visible_rows
    keys,               \* keyboard mode stacks: stack, idx and the inactive pair
    key_mode,           \* the KITTY_KEYBOARD_PROTOCOL bits of self.mode, which
                        \* decide how the frontend encodes keys
    program,            \* operations, sizes and limit of this behaviour
    call                \* the operation just performed, for properties only

vars == <<term, rows, frame, keys, key_mode, program, call>>

(* No action reads call. *)
ViewWithoutCall == <<term, rows, frame, keys, key_mode, program>>

-----------------------------------------------------------------------------
(* Damage. *)

Damaged(k) == IF k.damage = "full" THEN k ELSE [k EXCEPT !.damage = "partial"]
mark_fully_damaged(k) == [k EXCEPT !.damage = "full"]

(* Cells of the cursor's row, written through IndexMut. *)
CursorCells(t, k) == Cells(k.grid, t.cursor.row)
WithCells(t, k, cells) == [k EXCEPT !.grid = SetCells(@, t.cursor.row, cells)]
WithCell(t, k, col, cell) == [k EXCEPT !.grid = SetCell(@, t.cursor.row, col, cell)]

SwapCells(cells, i, j) == [cells EXCEPT ![i + 1] = cells[j + 1], ![j + 1] = cells[i + 1]]

(* In this order, each cell at positions with the one at that distance.    *)
Exchanged(cells, positions, distance) ==
    FoldLeft(LAMBDA row, i : SwapCells(row, i + distance, i), cells, positions)

Erased(cells, from, to) ==
    Sequence([i \in DOMAIN cells |-> IF i - 1 \in from .. to - 1 THEN Empty ELSE cells[i]])

-----------------------------------------------------------------------------
(* Scrolling. *)

(* The view follows output only if the lines go to history, history has    *)
(* room for the distance and no line below the region is in view.          *)
ViewFollows(g, start, end, n) ==
    \/ g.offset = 0 \/ start = end
    \/ start # 0 /\ end - start <= n
    \/ start = 0 /\ g.offset + n <= g.limit /\ Lines(g) - g.offset <= end

ScrollWithoutDamage(t, k, origin, lines) ==
    LET n == AtMost(lines, t.region.end - t.region.start)
    IN  [k EXCEPT !.grid = scroll_up(@, origin, t.region.end, n)]

scroll_up_relative(t, k, origin, lines) ==
    LET n == AtMost(lines, t.region.end - t.region.start)
        scrolled == [k EXCEPT
            !.grid = scroll_up(@, origin, t.region.end, n),
            !.slipped = @ \/ ~ViewFollows(k.grid, origin, t.region.end, n)]
    IN  IF origin < t.region.end THEN Damaged(scrolled) ELSE scrolled

scroll_down_relative(t, k, origin, lines) ==
    LET n == AtMost(AtMost(lines, t.region.end - t.region.start), t.region.end - origin)
    IN  mark_fully_damaged([k EXCEPT !.grid = scroll_down(@, origin, t.region.end, n)])

LinefeedRows(t, k) ==
    CASE FeedScrolls(t) -> scroll_up_relative(t, k, t.region.start, 1)
      [] ~FeedScrolls(t) /\ t.cursor.row + 1 < t.lines -> Damaged(k)
      [] OTHER -> k

ReverseIndexRows(t, k) ==
    IF t.cursor.row = t.region.start
    THEN scroll_down_relative(t, k, t.region.start, 1) ELSE Damaged(k)

DeleteLinesRows(t, k, lines) ==
    IF InRegion(t, t.cursor.row)
    THEN scroll_up_relative(t, k, t.cursor.row, AtMost(lines, t.lines - t.cursor.row)) ELSE k

InsertLinesRows(t, k, lines) ==
    IF InRegion(t, t.cursor.row) THEN scroll_down_relative(t, k, t.cursor.row, lines) ELSE k

-----------------------------------------------------------------------------
(* Writing characters. *)

Spaceless(row, columns) == Dirty([row.cells EXCEPT ![columns].c = IF @ = "l" THEN " " ELSE @])

(* Overwriting one half of a wide character removes the other half, and    *)
(* the leading spacer in the row above.                                    *)
ClearOtherHalf(t, k) ==
    LET col == t.cursor.col
        cells == CursorCells(t, k)
        old == cells[col + 1].c
        half == CASE old = "E" /\ col < LastColumn(t) ->
                        WithCell(t, k, col + 1, Unwiden(cells[col + 2]))
                  [] ~(old = "E" /\ col < LastColumn(t)) /\ col > 0 ->
                        WithCell(t, k, col - 1, Empty)
                  [] OTHER -> k
    IN  CASE old \notin {"E", "s"} -> k
          [] old \in {"E", "s"} /\ col <= 1 /\ t.cursor.row > 0 ->
                [half EXCEPT !.grid.screen[t.cursor.row] = Spaceless(@, t.columns)]
          [] old \in {"E", "s"} /\ col <= 1 /\ t.cursor.row = 0 /\ k.grid.history # <<>> ->
                [half EXCEPT !.grid.history[Len(k.grid.history)] = Spaceless(@, t.columns)]
          [] OTHER -> half

write_at_cursor(t, k, c) == WithCell(t, ClearOtherHalf(t, k), t.cursor.col, Cell(c))

WraplineRows(t, k) ==
    LET flagged == WithCell(t, k, t.cursor.col,
                            [CursorCells(t, k)[t.cursor.col + 1] EXCEPT !.wrapline = TRUE])
    IN  IF ~Is(t, "LINE_WRAP") THEN k
        ELSE Damaged(IF t.cursor.row + 1 >= t.region.end THEN LinefeedRows(t, flagged) ELSE flagged)

PendingWrapRows(t, k) == IF t.cursor.wrap THEN WraplineRows(t, k) ELSE k

(* Insert mode moves the rest of the row to the right. *)
InsertShift(t, k, width) ==
    IF Is(t, "INSERT") /\ t.cursor.col + width < t.columns
    THEN WithCells(t, k, Exchanged(CursorCells(t, k),
                                   Reverse([i \in 1 .. t.columns - width - t.cursor.col |->
                                                t.cursor.col + i - 1]), width))
    ELSE k

InputNarrowRows(t, k, c) ==
    LET w == AfterPendingWrap(t)
    IN  Damaged(write_at_cursor(w, InsertShift(w, PendingWrapRows(t, k), 1), c))

WriteWide(t, k) ==
    LET base == write_at_cursor(t, k, "E")
    IN  Damaged(write_at_cursor(AtColumn(t, t.cursor.col + 1), base, "s"))

InputWideRows(t, k) ==
    LET w == AfterPendingWrap(t)
        shifted == InsertShift(w, PendingWrapRows(t, k), 2)
    IN  CASE ~NoRoomForWide(w) -> WriteWide(w, shifted)
          [] NoRoomForWide(w) /\ Is(w, "LINE_WRAP") ->
                WriteWide(wrapline(w), WraplineRows(w, write_at_cursor(w, shifted, "l")))
          [] OTHER -> shifted

(* The cell before the cursor, to which a zero-width character belongs. *)
BaseColumn(t) == IF t.cursor.wrap THEN t.cursor.col ELSE AtLeast(t.cursor.col - 1, 0)

CombineRows(t, k) ==
    LET cells == CursorCells(t, k)
        col == IF cells[BaseColumn(t) + 1].c = "s" THEN AtLeast(BaseColumn(t) - 1, 0)
               ELSE BaseColumn(t)
    IN  Damaged(WithCell(t, k, col, [cells[col + 1] EXCEPT !.c = IF @ = "a" THEN "b" ELSE @]))

Widens(t, k) == WidenAllowed(t) /\ CursorCells(t, k)[BaseColumn(t) + 1].c = "e"

WidenRows(t, k) ==
    LET base == AtColumn(t, BaseColumn(t))
        cell == [CursorCells(t, k)[BaseColumn(t) + 1] EXCEPT !.c = "E"]
        next == wrapline(base)
    IN  IF BaseColumn(t) + 1 < t.columns
        THEN Damaged(write_at_cursor(AtColumn(t, BaseColumn(t) + 1),
                                     WithCell(t, k, BaseColumn(t), cell), "s"))
        ELSE LET wrapped == WraplineRows(base, write_at_cursor(base, k, "l"))
             IN  Damaged(write_at_cursor(AtColumn(next, 1), WithCell(next, wrapped, 0, cell), "s"))

(* VS15: the wide cell and its spacer before the cursor. *)
NarrowSpacer(t) == IF t.cursor.wrap THEN t.cursor.col ELSE t.cursor.col - 1
Narrows(t, k) == NarrowAllowed(t) /\ CursorCells(t, k)[NarrowSpacer(t)].c = "E"

NarrowRows(t, k) ==
    LET cells == [CursorCells(t, k) EXCEPT ![NarrowSpacer(t)].c = "e",
                                           ![NarrowSpacer(t) + 1] = Empty]
    IN  Damaged(WithCells(t, k, cells))

PutTabRows(t, k) ==
    LET cell == CursorCells(t, k)[t.cursor.col + 1]
    IN  IF t.cursor.wrap THEN WraplineRows(t, k)
        ELSE Damaged(WithCell(t, k, t.cursor.col,
                              [cell EXCEPT !.c = IF @ = "_" THEN "t" ELSE @]))

-----------------------------------------------------------------------------
(* Erasing. *)

EraseCharsRows(t, k, n) ==
    Damaged(WithCells(t, k, Erased(CursorCells(t, k), t.cursor.col,
                                   AtMost(t.cursor.col + n, t.columns))))

(* Cells behind the deleted ones are swapped in; the last n are blanked. *)
DeleteCharsRows(t, k, n) ==
    LET count == AtMost(n, t.columns)
        start == t.cursor.col
        end == AtMost(start + count, t.columns - 1)
        swapped == Exchanged(CursorCells(t, k), [i \in 1 .. t.columns - end |-> start + i - 1],
                             end - start)
    IN  Damaged(WithCells(t, k, Erased(swapped, t.columns - count, t.columns)))

InsertBlankRows(t, k, n) ==
    LET source == t.cursor.col
        destination == source + AtMost(n, t.columns - source)
        num_cells == t.columns - destination
        swapped == Exchanged(CursorCells(t, k), Reverse([i \in 1 .. num_cells |-> source + i - 1]),
                             destination - source)
    IN  Damaged(WithCells(t, k, Erased(swapped, source, destination)))

ClearLineRows(t, k, mode) ==
    LET left == IF mode = "Right" THEN t.cursor.col ELSE 0
        right == IF mode = "Left" THEN t.cursor.col + 1 ELSE t.columns
    IN  IF mode = "Right" /\ t.cursor.wrap THEN k
        ELSE Damaged(WithCells(t, k, Erased(CursorCells(t, k), left, right)))

(* Clearing above leaves the first line alone when the cursor is on the    *)
(* second.                                                                 *)
ClearAbove(t, k) ==
    LET g == IF t.cursor.row > 1 THEN reset_region(k.grid, 0, t.cursor.row) ELSE k.grid
    IN  Damaged(WithCells(t, [k EXCEPT !.grid = g], Erased(CursorCells(t, k), 0, t.cursor.col + 1)))

ClearBelow(t, k) ==
    LET erased == WithCells(t, k, Erased(CursorCells(t, k), t.cursor.col, t.columns))
    IN  Damaged([erased EXCEPT !.grid = reset_region(@, t.cursor.row + 1, t.lines)])

ClearAll(t, k) ==
    mark_fully_damaged([k EXCEPT !.grid = IF Is(t, "ALT_SCREEN") THEN reset_region(@, 0, t.lines)
                                          ELSE clear_viewport(@)])

ClearSaved(t, k) == mark_fully_damaged([k EXCEPT !.grid = clear_history(@)])

ClearScreenRows(t, k, mode) ==
    CASE mode = "Above" -> ClearAbove(t, k) [] mode = "Below" -> ClearBelow(t, k)
      [] mode = "All" -> ClearAll(t, k) [] mode = "Saved" -> ClearSaved(t, k)

DecalnRows(t, k) ==
    mark_fully_damaged([k EXCEPT !.grid.screen =
        Sequence([i \in 1 .. t.lines |-> Filled(Cell("a"), t.columns)])])

DeccolmRows(t, k) == mark_fully_damaged([k EXCEPT !.grid = reset_region(@, 0, t.lines)])

-----------------------------------------------------------------------------
(* Screens. *)

SwapAltRows(t, k) ==
    LET fresh == IF Is(t, "ALT_SCREEN") THEN k.inactive ELSE reset_region(k.inactive, 0, t.lines)
    IN  mark_fully_damaged([k EXCEPT !.grid = fresh, !.inactive = k.grid])

ResetStateRows(t, k) ==
    LET primary == IF Is(t, "ALT_SCREEN") THEN k.inactive ELSE k.grid
        alt == IF Is(t, "ALT_SCREEN") THEN k.grid ELSE k.inactive
    IN  mark_fully_damaged([k EXCEPT !.grid = ResetGrid(primary), !.inactive = ResetGrid(alt)])

ScrollDisplayRows(k, delta) ==
    LET g == ScrollView(k.grid, delta)
    IN  IF g.offset = k.grid.offset THEN k ELSE mark_fully_damaged([k EXCEPT !.grid = g])

(* The active and the inactive grid, each with its cursors; only the       *)
(* primary screen reflows.                                                 *)
ResizedActive(t, k, size) ==
    resize([grid |-> k.grid, cursor |-> t.cursor, saved |-> t.saved],
           size[1], size[2], ~Is(t, "ALT_SCREEN"))

ResizedInactive(t, k, size) ==
    resize([grid |-> k.inactive, cursor |-> t.other.cursor, saved |-> t.other.saved],
           size[1], size[2], Is(t, "ALT_SCREEN"))

-----------------------------------------------------------------------------
(* Rendering: what the renderer does with the terminal locked. *)

DamageRank == [none |-> 0, cursor |-> 1, partial |-> 2, full |-> 3]

merge_terminal_damages(a, b) == IF DamageRank[a] < DamageRank[b] THEN b ELSE a

Position(cursor) == [row |-> cursor.row, col |-> cursor.col]

damage_event(t, k) ==
    CASE Is(t, "INSERT") \/ k.damage = "full" -> "full"
      [] ~Is(t, "INSERT") /\ k.damage = "partial" -> "partial"
      [] ~Is(t, "INSERT") /\ k.damage = "none" ->
            IF k.last_cursor # Position(t.cursor) THEN "partial" ELSE "none"

Contents(view) == [y \in DOMAIN view |-> view[y].cells]

NeedsFull(t, f, damage) ==
    damage = "full" \/ Len(f) # t.lines \/ \E y \in DOMAIN f : Len(f[y]) # t.columns

(* The frame that snapshot_visible leaves: all rows, or the dirty ones. *)
snapshot_visible(t, k, f, damage) ==
    LET view == ViewRows(k.grid)
    IN  CASE NeedsFull(t, f, damage) -> Contents(view)
          [] ~NeedsFull(t, f, damage) /\ damage = "partial" ->
                [y \in DOMAIN f |-> IF view[y].dirty THEN view[y].cells ELSE f[y]]
          [] OTHER -> f

SnapshotRows(t, k, f, damage) ==
    LET full == NeedsFull(t, f, damage)
    IN  [k EXCEPT !.grid = IF full \/ damage = "partial" THEN Cleaned(@) ELSE @,
                  !.slipped = @ /\ ~full,
                  !.damage = "none", !.last_cursor = Position(t.cursor)]

-----------------------------------------------------------------------------
(* The keyboard mode stacks: rings with an index to the top. *)

EmptyStack == [i \in 0 .. DEPTH - 1 |-> {}]

push_keyboard_mode(ks, mode) ==
    LET idx == (ks.idx + 1) % DEPTH
    IN  [ks EXCEPT !.idx = idx, !.stack[idx] = mode]

(* Popping below index 0 goes on at the other end: usize::MAX % DEPTH is   *)
(* DEPTH - 1 because DEPTH is a power of two.                              *)
PopOne(ks) == [ks EXCEPT !.stack[ks.idx] = {}, !.idx = IF @ = 0 THEN DEPTH - 1 ELSE @ - 1]
pop_keyboard_modes(ks, n) ==
    IF n >= DEPTH THEN [ks EXCEPT !.stack = EmptyStack, !.idx = 0]
    ELSE FoldLeft(LAMBDA s, i : PopOne(s), ks, [i \in 1 .. n |-> i])

set_keyboard_mode(ks, mode, apply) ==
    [ks EXCEPT !.stack[ks.idx] = CASE apply = "replace" -> mode
                                   [] apply = "union" -> @ \cup mode
                                   [] apply = "difference" -> @ \ mode]

SwapStacksOnly(ks) == [ks EXCEPT !.stack = ks.inactive_stack, !.inactive_stack = ks.stack]

SwapStacks(ks) ==
    [stack |-> ks.inactive_stack, idx |-> ks.inactive_idx,
     inactive_stack |-> ks.stack, inactive_idx |-> ks.idx]

NewStacks ==
    [stack |-> EmptyStack, idx |-> 0, inactive_stack |-> EmptyStack, inactive_idx |-> 0]

-----------------------------------------------------------------------------
(* The handlers, with the parameters that csi_dispatch, esc_dispatch and   *)
(* execute give them.                                                      *)

Init ==
    /\ program \in Programs
    /\ \E size \in program.sizes : term = NewTerm(size[1], size[2])
    /\ rows = [grid |-> NewGrid(term.lines, term.columns, program.max_scroll_limit),
               inactive |-> NewGrid(term.lines, term.columns, 0),
               damage |-> "full", last_cursor |-> Position(Home), slipped |-> FALSE]
    /\ frame = <<>>
    /\ keys = NewStacks /\ key_mode = {}
    /\ call = [op |-> "new"]

Step(op, t, k) ==
    /\ op \in program.ops
    /\ term' = t /\ rows' = k
    /\ call' = [op |-> op]
    /\ UNCHANGED <<frame, keys, key_mode, program>>

InputLetter == \E c \in {"a", "e"} \cap program.ops : Step(c, InputNarrow(term), InputNarrowRows(term, rows, c))

InputEmoji == Step("E", InputWide(term), InputWideRows(term, rows))

Combine == Step("combine", term, CombineRows(term, rows))

VariationSelector16 ==
    IF Widens(term, rows)
    THEN Step("VS16", WidenBase(term), WidenRows(term, rows))
    ELSE Step("VS16", term, CombineRows(term, rows))

VariationSelector15 ==
    IF Narrows(term, rows)
    THEN Step("VS15", NarrowBase(term), NarrowRows(term, rows))
    ELSE Step("VS15", term, CombineRows(term, rows))

Tab == Step("tab", put_tab(term), PutTabRows(term, rows))

Linefeed == Step("LF", linefeed(term), LinefeedRows(term, rows))

CarriageReturn == Step("CR", carriage_return(term), Damaged(rows))

NextLine == Step("NEL", carriage_return(linefeed(term)), Damaged(LinefeedRows(term, rows)))

Backspace == Step("BS", backspace(term), IF term.cursor.col > 0 THEN Damaged(rows) ELSE rows)

ReverseIndex == Step("RI", reverse_index(term), ReverseIndexRows(term, rows))

Goto == \E y, x \in Counts : Step("goto", goto(term, y - 1, x - 1), Damaged(rows))

GotoOne == \E n \in Counts : \E t \in {goto_line(term, n - 1), goto_col(term, n - 1)} :
    Step("goto_one", t, Damaged(rows))

Move == \E n \in Counts :
    \E t \in {move_up(term, n), move_down(term, n), move_up_and_cr(term, n),
             move_down_and_cr(term, n), move_forward(term, n), move_backward(term, n)} :
        Step("move", t, Damaged(rows))

MoveTabs == \E t \in {TabForward(term), TabBackward(term)} : Step("move_tabs", t, Damaged(rows))

SetTabs == \E t \in {set_horizontal_tabstop(term), ClearTab(term), ClearTabs(term)} :
    Step("set_tabs", t, rows)

ScrollUp == \E n \in Counts :
    Step("SU", term, scroll_up_relative(term, rows, term.region.start, n))

ScrollDown == \E n \in Counts :
    Step("SD", term, scroll_down_relative(term, rows, term.region.start, n))

DeleteLines == \E n \in Counts : Step("DL", term, DeleteLinesRows(term, rows, n))
InsertBlankLines == \E n \in Counts : Step("IL", term, InsertLinesRows(term, rows, n))
EraseChars == \E n \in Counts : Step("ECH", term, EraseCharsRows(term, rows, n))
DeleteChars == \E n \in Counts : Step("DCH", term, DeleteCharsRows(term, rows, n))
InsertBlank == \E n \in Counts : Step("ICH", term, InsertBlankRows(term, rows, n))

ClearLine == \E mode \in {"Right", "Left", "All"} : Step("EL", term, ClearLineRows(term, rows, mode))

ClearScreen == \E mode \in {"Above", "Below", "All", "Saved"} :
    Step("ED", term, ClearScreenRows(term, rows, mode))

Decaln == Step("DECALN", term, DecalnRows(term, rows))

Deccolm == Step("DECCOLM", deccolm(term), DeccolmRows(term, rows))

SaveCursor == Step("save", save_cursor_position(term), rows)

RestoreCursor == Step("save", restore_cursor_position(term), Damaged(rows))

(* A region whose top is not above its bottom is ignored. *)
SetRegion == \E top \in Counts, bottom \in Params :
    LET last == IF bottom = 0 THEN term.lines ELSE bottom
    IN  Step("region", set_scrolling_region(term, top, bottom),
             IF top < last THEN Damaged(rows) ELSE rows)

SetMode == \E m \in {"ORIGIN", "LINE_WRAP", "INSERT"} \cap program.ops : Step(m, set_mode(term, m), rows)

UnsetMode == \E m \in {"ORIGIN", "LINE_WRAP", "INSERT"} \cap program.ops :
    Step(m, unset_mode(term, m), IF m = "INSERT" THEN mark_fully_damaged(rows) ELSE rows)

(* Setting and unsetting private mode 1049.  The stacks change places, the *)
(* bits of self.mode stay.                                                 *)
SwapAlt ==
    /\ "swap_alt" \in program.ops
    /\ term' \in {SetAltScreen(term), UnsetAltScreen(term)}
    /\ IF Is(term, "ALT_SCREEN") = ("ALT_SCREEN" \in term'.mode)
       THEN call' = [op |-> "no_swap"] /\ UNCHANGED <<rows, keys>>
       ELSE call' = [op |-> "swap_alt"] /\ rows' = SwapAltRows(term, rows) /\ keys' = SwapStacks(keys)
    /\ UNCHANGED <<frame, key_mode, program>>

ResetState ==
    /\ "reset_state" \in program.ops
    /\ term' = reset_state(term) /\ rows' = ResetStateRows(term, rows) /\ keys' = NewStacks
    /\ key_mode' = {}
    /\ call' = [op |-> "reset_state"]
    /\ UNCHANGED <<frame, program>>

(* Each sequence also brings the bits of self.mode in line with the top.   *)
TopMode(ks) == ks.stack[ks.idx]

KeyboardMode(c, ks, mode) ==
    /\ "keys" \in program.ops
    /\ keys' = ks /\ key_mode' = mode /\ call' = c
    /\ UNCHANGED <<term, rows, frame, program>>

PushKeyboardMode == \E m \in SUBSET KeyFlags :
    KeyboardMode([op |-> "push", mode |-> m], push_keyboard_mode(keys, m), m)

(* A plausible mistake: the bits are brought in line by pushes only. *)
PopWithoutSync == \E n \in Counts :
    KeyboardMode([op |-> "pop", n |-> n], pop_keyboard_modes(keys, n), key_mode)

PopKeyboardModes == \E n \in Counts :
    LET ks == pop_keyboard_modes(keys, n)
    IN  KeyboardMode([op |-> "pop", n |-> n], ks, IF n >= DEPTH THEN {} ELSE TopMode(ks))

SetKeyboardMode == \E m \in SUBSET KeyFlags, apply \in {"replace", "union", "difference"} :
    LET ks == set_keyboard_mode(keys, m, apply)
    IN  KeyboardMode([op |-> "set", mode |-> m, apply |-> apply], ks, TopMode(ks))

(* The window's, not the program's. *)
ScrollDisplay == \E delta \in {-1, 1} : Step("view", term, ScrollDisplayRows(rows, delta))

Resize == \E size \in program.sizes \ {<<term.lines, term.columns>>} :
    LET active == ResizedActive(term, rows, size)
        inactive == ResizedInactive(term, rows, size)
    IN  Step("resize",
             ResizedTerm(term, size[1], size[2], active.cursor, active.saved,
                         [cursor |-> inactive.cursor, saved |-> inactive.saved]),
             [rows EXCEPT !.grid = active.grid, !.inactive = inactive.grid,
                          !.damage = "full", !.last_cursor = Position(Home)])

Render == \E ui \in DOMAIN DamageRank :
    LET damage == merge_terminal_damages(ui, damage_event(term, rows))
    IN  /\ "render" \in program.ops
        /\ frame' = snapshot_visible(term, rows, frame, damage)
        /\ rows' = SnapshotRows(term, rows, frame, damage)
        /\ call' = [op |-> "render"]
        /\ UNCHANGED <<term, keys, key_mode, program>>

Next ==
    \/ InputLetter \/ InputEmoji \/ Combine \/ VariationSelector16 \/ VariationSelector15 \/ Tab
    \/ Linefeed \/ CarriageReturn \/ NextLine \/ Backspace \/ ReverseIndex
    \/ Goto \/ GotoOne \/ Move \/ MoveTabs \/ SetTabs
    \/ ScrollUp \/ ScrollDown \/ DeleteLines \/ InsertBlankLines
    \/ EraseChars \/ DeleteChars \/ InsertBlank \/ ClearLine \/ ClearScreen
    \/ Decaln \/ Deccolm \/ SaveCursor \/ RestoreCursor \/ SetRegion \/ SetMode \/ UnsetMode
    \/ SwapAlt \/ ResetState \/ PushKeyboardMode \/ PopKeyboardModes \/ SetKeyboardMode
    \/ ScrollDisplay \/ Resize \/ Render

Spec == Init /\ [][Next]_vars

-----------------------------------------------------------------------------

(* A render draws what the terminal shows.  The handlers only note that    *)
(* something is damaged, rows carry their own dirty bits, and a render     *)
(* copies the dirty rows of the view only: in every state the next render, *)
(* whatever else it is for, leaves a frame equal to the view, unless       *)
(* output scrolled under a view that could not follow.                     *)
FrameCurrent ==
    rows.slipped \/ \A ui \in DOMAIN DamageRank :
        snapshot_visible(term, rows, frame, merge_terminal_damages(ui, damage_event(term, rows)))
            = Contents(ViewRows(rows.grid))

(* The rings of keyboard modes implement the stacks of the protocol, for   *)
(* any mix of pushes, pops beyond the bottom and swaps of the screens.     *)
TopFirst(stack, idx) == [i \in 1 .. DEPTH |-> stack[(idx - i + 1) % DEPTH]]

Stacks == INSTANCE KeyStack WITH
    current <- TopFirst(keys.stack, keys.idx),
    waiting <- TopFirst(keys.inactive_stack, keys.inactive_idx), call <- call

KeyStackSpec == Stacks!Spec

(* The bits that decide how keys are encoded are kept beside the stacks.   *)
(* A change of screen swaps the stacks and leaves the bits as they are, so *)
(* they may be those of the other screen until the next keyboard sequence; *)
(* but they are never anything else: no mode that both screens have popped *)
(* or replaced stays in force, however pushes, pops, swaps and resets mix. *)
KeyModeOfAScreen ==
    key_mode \in {TopMode(keys), keys.inactive_stack[keys.inactive_idx]}

(* The text of some rows: rows joined where a line wraps, line ends        *)
(* elsewhere, without the spacers of wide cells and without the blank      *)
(* cells at the end of a line.                                             *)
Trimmed(text, blank) == SubSeq(text, 1, SelectLastInSeq(text, LAMBDA c : c \notin blank))

Letters(cells) ==
    LET letters == SelectSeq(cells, LAMBDA cell : cell.c \notin {"s", "l"})
    IN  [i \in DOMAIN letters |-> letters[i].c]

AddRow(text, row) ==
    IF Last(row.cells).wrapline THEN text \o Letters(row.cells)
    ELSE Append(Trimmed(text \o Letters(row.cells), {"_", "t"}), "newline")

Text(list) == Trimmed(FoldLeft(AddRow, <<>>, list), {"_", "t", "newline"})

TextUpTo(g, cursor) ==
    Text(Append(SubSeq(AllRows(g), 1, HistorySize(g) + cursor.row),
                Dirty(Append(SubSeq(Cells(g, cursor.row), 1, cursor.col), Empty))))

(* Wide characters keep their spacer behind them, in one row. *)
WideWhole(list) == \A i \in DOMAIN list :
    LET cells == list[i].cells
    IN  \A j \in DOMAIN cells :
            /\ cells[j].c = "E" => j < Len(cells) /\ cells[j + 1].c = "s"
            /\ cells[j].c = "s" => j > 1 /\ cells[j - 1].c = "E"

(* The flag is read in the last column only.  A flag that a clamped cursor *)
(* leaves elsewhere does not join lines, and neither does a row that keeps *)
(* nothing but a leading spacer under a cursor in the first line: there    *)
(* only the characters are compared, not where the lines end.              *)
Odd(list, cursor) ==
    \/ \E i \in DOMAIN list : \E j \in 1 .. Len(list[i].cells) - 1 : list[i].cells[j].wrapline
    \/ cursor.row = 0 /\ \E i \in DOMAIN list : Last(list[i].cells).c = "l"

Characters(text) == SelectSeq(text, LAMBDA c : c \notin {"_", "t", "newline"})

Primary == IF Is(term, "ALT_SCREEN") THEN rows.inactive ELSE rows.grid
PrimaryCursor == IF Is(term, "ALT_SCREEN") THEN term.other.cursor ELSE term.cursor

(* A resize of the window keeps the text of the primary screen, however    *)
(* its lines were wrapped, and no wide character is torn in two: lines are *)
(* lost at the top only when the history is full, and at the bottom only   *)
(* behind the cursor.                                                      *)
ReflowKeepsText ==
    [][call'.op = "resize" =>
        LET before == AllRows(Primary)
            after == AllRows(Primary')
            Read(text) == IF Odd(before, PrimaryCursor') THEN Characters(text) ELSE text
            old == Read(Text(before))
            new == Read(Text(after))
        IN  /\ WideWhole(before) => WideWhole(after)
            /\ \E cut \in 0 .. Len(old) - Len(new) :
                    /\ new = SubSeq(old, cut + 1, cut + Len(new))
                    /\ cut > 0 => \/ HistorySize(Primary') = program.max_scroll_limit
                                  \/ Len(before) > program.max_scroll_limit + Lines(Primary')
                    /\ cut + Len(new) >= Len(Read(TextUpTo(Primary, PrimaryCursor)))]_vars
=============================================================================
