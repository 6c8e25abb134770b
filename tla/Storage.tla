------------------------------- MODULE Storage -------------------------------
(***************************************************************************)
(* The ring buffer of rows behind a terminal grid                          *)
(* (rio-backend/src/crosswords/grid/storage.rs).                           *)
(*                                                                         *)
(* A storage is a record                                                   *)
(*    inner          the allocated rows, active ones and cached ones       *)
(*    zero           offset in inner of the bottommost line                *)
(*    visible_lines  number of lines on the screen                         *)
(*    len            number of active rows (screen and scrollback)         *)
(* and every method of Storage<T> is an operator from storages to          *)
(* storages.  Offsets into inner start at 0, as in the code; a TLA+        *)
(* sequence starts at 1.  Line l of the terminal counts downwards: 0 is    *)
(* the top of the screen, negative lines are scrollback.  Rows are opaque. *)
(*                                                                         *)
(* Operators that no other definition uses are plausible mistakes in the   *)
(* method they precede, kept so that the properties can be seen to fail.   *)
(***************************************************************************)
EXTENDS Integers, Sequences

CONSTANTS
    MAX_CACHE_SIZE,     \* rows that may stay allocated outside the grid
    NewRow              \* what Row::new returns

ASSUME MaxCacheSizeAssumption == MAX_CACHE_SIZE \in Nat \ {0}

Capacity(st) == Len(st.inner)

history_size(st) == st.len - st.visible_lines

(* The lines that compute_index accepts: what its two debug assertions say. *)
ValidLine(st, line) ==
    /\ line < st.visible_lines
    /\ st.visible_lines - 1 - line < st.len

Lines(st) == (st.visible_lines - st.len) .. (st.visible_lines - 1)

-----------------------------------------------------------------------------
(* Indexing. *)

WrapOffByOne(st, zeroed) ==
    IF zeroed > Capacity(st) THEN zeroed - Capacity(st) ELSE zeroed

Wrap(st, zeroed) ==
    IF zeroed >= Capacity(st) THEN zeroed - Capacity(st) ELSE zeroed

compute_index(st, line) ==
    LET positive == -(line - st.visible_lines) - 1
    IN  Wrap(st, st.zero + positive)

(* Index<Line> and IndexMut<Line>. *)
RowAt(st, line) == st.inner[compute_index(st, line) + 1]

SetRow(st, line, row) ==
    [st EXCEPT !.inner[compute_index(st, line) + 1] = row]

-----------------------------------------------------------------------------
(* The methods. *)

with_capacity(lines) ==
    [inner |-> [i \in 1..lines |-> NewRow],
     zero |-> 0, visible_lines |-> lines, len |-> lines]

(* Vec::rotate_left by zero, so that the bottommost line is at offset 0. *)
rezero(st) ==
    [st EXCEPT !.inner = SubSeq(st.inner, st.zero + 1, Capacity(st))
                            \o SubSeq(st.inner, 1, st.zero),
               !.zero = 0]

TruncateWithoutRezero(st) ==
    [st EXCEPT !.inner = SubSeq(st.inner, 1, st.len), !.zero = 0]

truncate(st) ==
    LET z == rezero(st)
    IN  [z EXCEPT !.inner = SubSeq(z.inner, 1, z.len)]

NeverFreeing(st, shrinkage) == [st EXCEPT !.len = st.len - shrinkage]

shrink_lines(st, shrinkage) ==
    LET s == [st EXCEPT !.len = st.len - shrinkage]
    IN  IF Capacity(s) > s.len + MAX_CACHE_SIZE THEN truncate(s) ELSE s

GrowthOf(additional_rows) ==
    IF additional_rows > MAX_CACHE_SIZE THEN additional_rows ELSE MAX_CACHE_SIZE

GrowInPlace(st, additional_rows) ==
    LET grown == st.inner \o [i \in 1..GrowthOf(additional_rows) |-> NewRow]
        s == IF st.len + additional_rows > Capacity(st)
             THEN [st EXCEPT !.inner = grown] ELSE st
    IN  [s EXCEPT !.len = st.len + additional_rows]

LateGrowth(st, additional_rows) ==
    LET s == IF st.len + additional_rows > Capacity(st) + 1
             THEN [rezero(st) EXCEPT
                     !.inner = @ \o [i \in 1..GrowthOf(additional_rows) |-> NewRow]]
             ELSE st
    IN  [s EXCEPT !.len = st.len + additional_rows]

(* The buffer is rotated back before it grows: rows appended to a rotated  *)
(* buffer would come between the newest and the oldest line.               *)
initialize(st, additional_rows) ==
    LET z == rezero(st)
        grown == [z EXCEPT
                    !.inner = z.inner \o [i \in 1..GrowthOf(additional_rows) |-> NewRow]]
        s == IF st.len + additional_rows > Capacity(st) THEN grown ELSE st
    IN  [s EXCEPT !.len = st.len + additional_rows]

grow_visible_lines(st, next) ==
    [initialize(st, next - st.visible_lines) EXCEPT !.visible_lines = next]

shrink_visible_lines(st, next) ==
    [shrink_lines(st, st.visible_lines - next) EXCEPT !.visible_lines = next]

swap(st, a, b) ==
    LET ia == compute_index(st, a) + 1
        ib == compute_index(st, b) + 1
    IN  [st EXCEPT !.inner[ia] = st.inner[ib], !.inner[ib] = st.inner[ia]]

RotateUnwrapped(st, count) == [st EXCEPT !.zero = st.zero + count]

rotate(st, count) ==
    [st EXCEPT !.zero = (st.zero + count + Capacity(st)) % Capacity(st)]

rotate_down(st, count) ==
    [st EXCEPT !.zero = (st.zero + count) % Capacity(st)]

(* take_all hands out the active rows, bottommost first, and leaves the    *)
(* storage empty until replace_inner fills it again.                       *)
take_all(st) == truncate(st).inner

replace_inner(st, vec) ==
    [st EXCEPT !.inner = vec, !.len = Len(vec), !.zero = 0]
=============================================================================
