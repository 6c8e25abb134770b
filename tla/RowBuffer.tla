------------------------------ MODULE RowBuffer ------------------------------
(***************************************************************************)
(* What the grid's row storage promises its caller: a list of rows,        *)
(* bottommost first, that can be rotated, extended and cut at the old end, *)
(* exchanged, overwritten and replaced.  There is no capacity, no offset   *)
(* and no cached row here.  The rows that a rotation or a growth brings in *)
(* are left open: the caller resets them or pulls them in on purpose.      *)
(*                                                                         *)
(* The variable call is the call the caller has just made, so that each    *)
(* method is held to its own promise.                                      *)
(***************************************************************************)
EXTENDS Integers, Sequences

VARIABLES
    rows,               \* the active rows, rows[1] is the bottommost line
    screen,             \* how many of them are on the screen
    call                \* the last call: [op, n] with the arguments it had

vars == <<rows, screen, call>>

Init == Len(rows) = screen

(* The rows at positions ps are found k places further up. *)
Shifted(ps, k) == \A p \in ps : rows'[p + k] = rows[p]

(* k rows come in at the bottom and k leave at the old end, or the reverse. *)
Rotate ==
    /\ call'.op = "rotate"
    /\ Len(rows') = Len(rows) /\ screen' = screen
    /\ \/ call'.n <= 0 /\ Shifted(1 .. Len(rows) + call'.n, -call'.n)
       \/ call'.n >= 0 /\ Shifted(call'.n + 1 .. Len(rows), -call'.n)

(* n rows are added at the old end, or -n are dropped there. *)
Resize ==
    /\ call'.op \in {"resize", "resize_screen"}
    /\ Len(rows') = Len(rows) + call'.n
    /\ screen' = IF call'.op = "resize" THEN screen ELSE screen + call'.n
    /\ \A p \in 1 .. Len(rows) : p <= Len(rows') => rows'[p] = rows[p]

(* The rows at positions n[1] and n[2] change places. *)
Exchange ==
    /\ call'.op = "swap"
    /\ Len(rows') = Len(rows) /\ screen' = screen
    /\ rows'[call'.n[1]] = rows[call'.n[2]]
    /\ rows'[call'.n[2]] = rows[call'.n[1]]
    /\ Shifted((1 .. Len(rows)) \ {call'.n[1], call'.n[2]}, 0)

(* The row at position n is written and no other. *)
Overwrite ==
    /\ call'.op = "write"
    /\ Len(rows') = Len(rows) /\ screen' = screen
    /\ rows'[call'.n] = call'.row
    /\ Shifted((1 .. Len(rows)) \ {call'.n}, 0)

Replace == call'.op = "replace" /\ rows' = call'.n /\ screen' = screen

Next == Rotate \/ Resize \/ Exchange \/ Overwrite \/ Replace

Spec == Init /\ [][Next]_vars
=============================================================================
