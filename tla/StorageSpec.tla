----------------------------- MODULE StorageSpec -----------------------------
(***************************************************************************)
(* The row storage as a state machine: every call its owner, Grid<T>, may  *)
(* make, in any order and with any arguments the callers in                *)
(* rio-backend/src/crosswords/grid/{mod,resize}.rs can pass.               *)
(***************************************************************************)
EXTENDS Storage

CONSTANTS
    Rows,               \* contents a row can have
    MaxLines            \* bound on the number of active rows

ASSUME RowsAssumption == NewRow \in Rows
ASSUME MaxLinesAssumption == MaxLines \in Nat \ {0}

VARIABLES
    storage,            \* the record of module Storage
    call                \* the call just made, for the refinement only

vars == <<storage, call>>

(* Position, counted from 1 at the bottommost line, of a line. *)
Position(line) == storage.visible_lines - line

(* The active rows in order, the list the storage stands for. *)
View(st) == [p \in 1 .. st.len |-> st.inner[Wrap(st, st.zero + p - 1) + 1]]

-----------------------------------------------------------------------------

Init ==
    \E n \in 1 .. MaxLines :
        /\ storage = with_capacity(n)
        /\ call = [op |-> "new", n |-> n]

(* increase_scroll_limit adds scrollback rows, at least one. *)
Initialize(k) ==
    /\ storage.len + k <= MaxLines
    /\ storage' = initialize(storage, k)
    /\ call' = [op |-> "resize", n |-> k]

(* update_history, decrease_scroll_limit and clear_history give up history. *)
ShrinkLines(k) ==
    /\ k <= history_size(storage)
    /\ storage' = shrink_lines(storage, k)
    /\ call' = [op |-> "resize", n |-> -k]

GrowVisibleLines(k) ==
    /\ storage.len + k <= MaxLines
    /\ storage' = grow_visible_lines(storage, storage.visible_lines + k)
    /\ call' = [op |-> "resize_screen", n |-> k]

ShrinkVisibleLines(k) ==
    /\ k < storage.visible_lines
    /\ storage' = shrink_visible_lines(storage, storage.visible_lines - k)
    /\ call' = [op |-> "resize_screen", n |-> -k]

(* scroll_up rotates by -positions, shrink_lines by the lines it removes. *)
Rotate(count) ==
    /\ count <= storage.visible_lines
    /\ -count <= storage.visible_lines
    /\ storage' = rotate(storage, count)
    /\ call' = [op |-> "rotate", n |-> count]

RotateDown(count) ==
    /\ count <= storage.visible_lines
    /\ storage' = rotate_down(storage, count)
    /\ call' = [op |-> "rotate", n |-> count]

Swap(a, b) ==
    /\ ValidLine(storage, a) /\ ValidLine(storage, b)
    /\ storage' = swap(storage, a, b)
    /\ call' = [op |-> "swap", n |-> <<Position(a), Position(b)>>]

(* A write through IndexMut, Row::reset included. *)
Write(line, row) ==
    /\ ValidLine(storage, line)
    /\ storage' = SetRow(storage, line, row)
    /\ call' = [op |-> "write", n |-> Position(line), row |-> row]

(* take_all and replace_inner, which a column resize does in one call.  It *)
(* always leaves at least a screenful of rows.                             *)
ReplaceInner(vec) ==
    /\ Len(vec) >= storage.visible_lines
    /\ storage' = replace_inner(storage, vec)
    /\ call' = [op |-> "replace", n |-> vec]

RowLists == UNION {[1 .. n -> Rows] : n \in 1 .. MaxLines}

Next ==
    \/ \E k \in 1 .. MaxLines : Initialize(k)
    \/ \E k \in 0 .. MaxLines : ShrinkLines(k)
    \/ \E k \in 1 .. MaxLines : GrowVisibleLines(k)
    \/ \E k \in 1 .. MaxLines : ShrinkVisibleLines(k)
    \/ \E c \in -MaxLines .. MaxLines : Rotate(c)
    \/ \E c \in 1 .. MaxLines : RotateDown(c)
    \/ \E a, b \in -MaxLines .. MaxLines : Swap(a, b)
    \/ \E l \in -MaxLines .. MaxLines, r \in Rows : Write(l, r)
    \/ \E vec \in RowLists : ReplaceInner(vec)

Spec == Init /\ [][Next]_vars

-----------------------------------------------------------------------------
StorageType == [inner : Seq(Rows), zero : Nat, visible_lines : Nat, len : Nat]

(* Every field is of its type. *)
TypeOK == storage \in StorageType

(* What compute_index relies on (storage.rs:242-243): the offset and the   *)
(* number of active rows stay inside the allocation, whatever was          *)
(* rotated, shrunk and grown before, and the screen is among the rows.     *)
RingInBounds ==
    /\ storage.zero < Capacity(storage)
    /\ 1 <= storage.visible_lines
    /\ storage.visible_lines <= storage.len
    /\ storage.len <= Capacity(storage)

(* Two lines never share a row: writing one line cannot change another,    *)
(* although compute_index wraps by subtracting once instead of % .         *)
LinesDoNotAlias ==
    \A a, b \in Lines(storage) :
        /\ compute_index(storage, a) \in 0 .. Capacity(storage) - 1
        /\ a # b => compute_index(storage, a) # compute_index(storage, b)

(* MAX_CACHE_SIZE is the "maximum number of buffered lines outside of the  *)
(* grid" (storage.rs:13), after any mix of initialize, which grows in      *)
(* strides of the cache size, and shrink_lines, which frees lazily.        *)
CacheBounded == Capacity(storage) <= storage.len + MAX_CACHE_SIZE

(* What a column resize takes out to reflow (take_all) is exactly the      *)
(* active rows in order: truncate must not cut a wrapped buffer.           *)
TakeAllIsView == take_all(storage) = View(storage)

(* The ring buffer implements the plain list of rows. *)
RowList == INSTANCE RowBuffer WITH
    rows <- View(storage), screen <- storage.visible_lines, call <- call

RowListSpec == RowList!Spec
=============================================================================
