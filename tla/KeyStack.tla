------------------------------ MODULE KeyStack ------------------------------
(***************************************************************************)
(* What the kitty keyboard protocol promises of its mode stacks: each of   *)
(* the two screens has a stack of DEPTH modes, top first.  A push drops    *)
(* the oldest mode, a pop brings back the mode below and an empty one at   *)
(* the bottom.  No index, no ring.                                         *)
(***************************************************************************)
EXTENDS Integers, Sequences

CONSTANT DEPTH

VARIABLES
    current,    \* the stack of the active screen, top first
    waiting,    \* the stack of the other screen
    call        \* the operation that was performed

vars == <<current, waiting, call>>

NoModes == [i \in 1 .. DEPTH |-> {}]

Init == current = NoModes /\ waiting = NoModes

Push ==
    /\ call'.op = "push"
    /\ current' = <<call'.mode>> \o SubSeq(current, 1, DEPTH - 1)
    /\ UNCHANGED waiting

Pop ==
    LET n == IF call'.n < DEPTH THEN call'.n ELSE DEPTH
    IN  /\ call'.op = "pop"
        /\ current' = SubSeq(current, n + 1, DEPTH) \o SubSeq(NoModes, 1, n)
        /\ UNCHANGED waiting

Set ==
    /\ call'.op = "set"
    /\ current' = [current EXCEPT ![1] = CASE call'.apply = "replace" -> call'.mode
                                           [] call'.apply = "union" -> @ \cup call'.mode
                                           [] call'.apply = "difference" -> @ \ call'.mode]
    /\ UNCHANGED waiting

SwapScreens == call'.op = "swap_alt" /\ current' = waiting /\ waiting' = current

Reset == call'.op = "reset_state" /\ current' = NoModes /\ waiting' = NoModes

Other ==
    /\ call'.op \notin {"push", "pop", "set", "swap_alt", "reset_state"}
    /\ UNCHANGED <<current, waiting>>

Next == Push \/ Pop \/ Set \/ SwapScreens \/ Reset \/ Other

Spec == Init /\ [][Next]_vars
=============================================================================
