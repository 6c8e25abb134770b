------------------------------ MODULE GridSpec ------------------------------
(***************************************************************************)
(* One terminal grid driven by every operation of Crosswords that moves    *)
(* rows: cell writes, scrolling of regions, scrolling of the view, erasing *)
(* and resizing the number of lines.                                       *)
(***************************************************************************)
EXTENDS Grid

CONSTANTS
    TextValues,         \* texts a row can hold besides Blank
    MaxLines,           \* tallest screen
    ScrollLimits        \* history limits: 0 for the alternate screen

ASSUME GridConstantsAssumption ==
    /\ MAX_CACHE_SIZE \in Nat \ {0}
    /\ Blank \notin TextValues
    /\ MaxLines \in Nat \ {0}
    /\ ScrollLimits \subseteq Nat

VARIABLES
    grid,               \* the record of module Grid
    call                \* the operation just performed, for the refinement only

vars == <<grid, call>>

(* No action reads call, so TLC may identify states that differ in it only: *)
(* it still checks every step, call included, against the refinement.       *)
ViewWithoutCall == grid

Init ==
    \E lines \in 1 .. MaxLines, limit \in ScrollLimits :
        /\ grid = new(lines, limit)
        /\ call = [op |-> "new"]

Write(line, text) ==
    /\ line < grid.lines
    /\ grid' = write(grid, line, text)
    /\ call' = [op |-> "write", line |-> line, text |-> text]

(* Cursor motion, and saving the position for a later restore. *)
Goto(row) ==
    /\ row < grid.lines
    /\ \E saved \in {grid.saved, grid.cursor} :
            grid' = [grid EXCEPT !.cursor = row, !.saved = saved]
    /\ call' = [op |-> "goto"]

(* The region is the scrolling region, or its part below the cursor; the   *)
(* distance has been clamped to the region by scroll_up_relative.          *)
ScrollUp(start, end, n) ==
    /\ start < end /\ end <= grid.lines
    /\ start = 0 => n <= end
    /\ grid' = scroll_up(grid, start, end, n)
    /\ call' = [op |-> "scroll_up", start |-> start, end |-> end, n |-> n]

ScrollDown(start, end, n) ==
    /\ start < end /\ end <= grid.lines
    /\ n <= end - start
    /\ grid' = scroll_down(grid, start, end, n)
    /\ call' = [op |-> "scroll_down", start |-> start, end |-> end, n |-> n]

ScrollDisplay(delta) ==
    /\ grid' = scroll_display(grid, delta)
    /\ call' = [op |-> "view"]

ResetRegion(start, end) ==
    /\ start < end /\ end <= grid.lines
    /\ grid' = reset_region(grid, start, end)
    /\ call' = [op |-> "erase", start |-> start, end |-> end]

ClearViewport ==
    /\ grid' = clear_viewport(grid)
    /\ call' = [op |-> "clear_viewport"]

ClearHistory ==
    /\ grid' = clear_history(grid)
    /\ call' = [op |-> "clear_history"]

Reset ==
    /\ grid' = reset(grid)
    /\ call' = [op |-> "reset"]

Resize(lines) ==
    /\ grid' = resize(grid, lines)
    /\ call' = [op |-> "resize", lines |-> lines]

Next ==
    \/ \E l \in 0 .. MaxLines - 1, t \in TextValues : Write(l, t)
    \/ \E r \in 0 .. MaxLines - 1 : Goto(r)
    \/ \E s \in 0 .. MaxLines - 1, e, n \in 1 .. MaxLines : ScrollUp(s, e, n)
    \/ \E s \in 0 .. MaxLines - 1, e, n \in 1 .. MaxLines : ScrollDown(s, e, n)
    \/ \E d \in -MaxLines .. MaxLines : ScrollDisplay(d)
    \/ \E s \in 0 .. MaxLines - 1, e \in 1 .. MaxLines : ResetRegion(s, e)
    \/ ClearViewport
    \/ ClearHistory
    \/ Reset
    \/ \E l \in 1 .. MaxLines : Resize(l)

Spec == Init /\ [][Next]_vars

-----------------------------------------------------------------------------

RowType == [text : TextValues \cup {Blank}, dirty : BOOLEAN]

(* Every field is of its type. *)
TypeOK ==
    /\ grid.raw \in [inner : Seq(RowType), zero : Nat, visible_lines : Nat, len : Nat]
    /\ grid.lines \in 1 .. MaxLines
    /\ grid.display_offset \in Nat
    /\ grid.max_scroll_limit \in ScrollLimits
    /\ {grid.cursor, grid.saved} \subseteq Nat

(* The grid's own counters agree with its storage's after any mix of       *)
(* scrolls and resizes: the screen height is the same, history is within   *)
(* its limit (increase_scroll_limit subtracts the two, grid/mod.rs:181),   *)
(* the ring is in bounds and both cursors are on the screen.               *)
GridSound ==
    /\ TypeOK
    /\ grid.raw.visible_lines = grid.lines
    /\ grid.lines <= grid.raw.len
    /\ grid.raw.len <= Capacity(grid.raw)
    /\ grid.raw.zero < Capacity(grid.raw)
    /\ HistorySize(grid) <= grid.max_scroll_limit
    /\ grid.display_offset <= grid.max_scroll_limit
    /\ {grid.cursor, grid.saved} \subseteq 0 .. grid.lines - 1

(* The view: the lines that display_offset selects. *)
ViewLines(g) == -g.display_offset .. g.lines - 1 - g.display_offset
ViewTexts(g) == [l \in 0 .. g.lines - 1 |-> RowAt(g.raw, l - g.display_offset).text]

(* "If the displayed region isn't at the bottom of the screen, it stays    *)
(* stationary while more text is emitted" (grid/mod.rs:54): output that    *)
(* scrolls lines into history does not move what a scrolled-back reader    *)
(* sees, as long as those lines are still kept.                            *)
ScrollsUnderView(g, c) ==
    /\ c.op = "scroll_up" /\ c.start = 0
    /\ g.display_offset # 0
    /\ g.display_offset <= HistorySize(g)
    /\ g.display_offset + c.n <= g.max_scroll_limit
    /\ g.lines - g.display_offset <= c.end

ViewStationary ==
    [][ScrollsUnderView(grid, call') => ViewTexts(grid') = ViewTexts(grid)]_vars

(* "debug_assert!(positive < self.len)" (grid/storage.rs:236): every line  *)
(* the renderer's snapshot asks the storage for exists.                    *)
DisplayedLinesExist == \A l \in ViewLines(grid) : ValidLine(grid.raw, l)

(* The grid implements the plain screen with history: no cached or         *)
(* recycled row ever shows up, no line is lost, duplicated or reordered,   *)
(* and the cursor keeps its text across resizes.                           *)
Text == INSTANCE TextBuffer WITH
    screen <- Texts(ScreenRows(grid)), history <- Texts(HistoryRows(grid)),
    limit <- grid.max_scroll_limit, cursor <- grid.cursor, call <- call

TextBufferSpec == Text!Spec
=============================================================================
