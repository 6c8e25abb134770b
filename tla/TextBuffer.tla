----------------------------- MODULE TextBuffer -----------------------------
(***************************************************************************)
(* What a terminal grid promises, in terms of text only: a screen of lines *)
(* and a bounded history of the lines that left it at the top.  No ring    *)
(* buffer, no cached rows, no swaps.                                       *)
(***************************************************************************)
EXTENDS Integers, Sequences, SequencesExt

CONSTANT Blank

VARIABLES
    screen,     \* texts of the lines on the screen, top first
    history,    \* texts of the lines that scrolled off, oldest first
    limit,      \* how many history lines are kept
    cursor,     \* the cursor's row
    call        \* the operation that was performed

vars == <<screen, history, limit, cursor, call>>

Blanks(n) == [i \in 1 .. n |-> Blank]

(* The last n elements of s. *)
Newest(s, n) == IF Len(s) <= n THEN s ELSE SubSeq(s, Len(s) - n + 1, Len(s))

(* The n top lines of the screen leave for history. *)
Retire(n) == history' = Newest(history \o SubSeq(screen, 1, n), limit)

Init ==
    /\ history = <<>>
    /\ screen = Blanks(Len(screen))
    /\ cursor = 0

Write ==
    /\ call'.op = "write"
    /\ screen' = [screen EXCEPT ![call'.line + 1] = call'.text]
    /\ UNCHANGED <<history, limit, cursor>>

MoveCursor == call'.op = "goto" /\ UNCHANGED <<screen, history, limit>>

View == call'.op = "view" /\ UNCHANGED <<screen, history, limit, cursor>>

(* Lines [start, end) of the screen move up by n, or all of them leave. *)
ScrollUp ==
    LET start == call'.start
        end == call'.end
        n == IF call'.n < end - start THEN call'.n ELSE end - start
    IN  /\ call'.op = "scroll_up"
        /\ screen' = SubSeq(screen, 1, start) \o SubSeq(screen, start + n + 1, end)
                        \o Blanks(n) \o SubSeq(screen, end + 1, Len(screen))
        /\ IF start = 0 THEN Retire(n) ELSE UNCHANGED history
        /\ UNCHANGED <<limit, cursor>>

ScrollDown ==
    LET start == call'.start
        end == call'.end
        n == IF call'.n < end - start THEN call'.n ELSE end - start
    IN  /\ call'.op = "scroll_down"
        /\ screen' = SubSeq(screen, 1, start) \o Blanks(n)
                        \o SubSeq(screen, start + 1, end - n)
                        \o SubSeq(screen, end + 1, Len(screen))
        /\ UNCHANGED <<history, limit, cursor>>

Erase ==
    /\ call'.op = "erase"
    /\ screen' = [i \in DOMAIN screen |->
                    IF i - 1 \in call'.start .. call'.end - 1 THEN Blank ELSE screen[i]]
    /\ UNCHANGED <<history, limit, cursor>>

(* Clearing the screen keeps its used lines in history. *)
ClearViewport ==
    /\ call'.op = "clear_viewport"
    /\ screen' = Blanks(Len(screen))
    /\ LET last == SelectLastInSeq(screen, LAMBDA t : t # Blank)
       IN  \/ Retire(last)
           \/ last = 0 /\ history = <<>> /\ Retire(1)
    /\ UNCHANGED <<limit, cursor>>

ClearHistory ==
    /\ call'.op = "clear_history"
    /\ history' = <<>>
    /\ UNCHANGED <<screen, limit, cursor>>

Reset ==
    /\ call'.op = "reset"
    /\ screen' = Blanks(Len(screen)) /\ history' = <<>> /\ cursor' = 0
    /\ UNCHANGED limit

(* A taller screen shows history again, then blank lines; the cursor stays *)
(* on its text.                                                            *)
Grow ==
    LET added == call'.lines - Len(screen)
        pulled == IF added < Len(history) THEN added ELSE Len(history)
    IN  /\ call'.op = "resize" /\ added >= 0
        /\ screen' = Newest(history, pulled) \o screen \o Blanks(added - pulled)
        /\ history' = SubSeq(history, 1, Len(history) - pulled)
        /\ cursor' = cursor + pulled
        /\ UNCHANGED limit

(* A shorter screen keeps the cursor's line: lines above it retire first,  *)
(* lines below it are lost.                                                *)
Shrink ==
    LET over == IF cursor + 1 > call'.lines THEN cursor + 1 - call'.lines ELSE 0
    IN  /\ call'.op = "resize" /\ call'.lines < Len(screen)
        /\ Retire(over)
        /\ screen' = SubSeq(screen, over + 1, over + call'.lines)
        /\ cursor' = cursor - over
        /\ UNCHANGED limit

Next ==
    \/ Write \/ MoveCursor \/ View \/ ScrollUp \/ ScrollDown \/ Erase
    \/ ClearViewport \/ ClearHistory \/ Reset \/ Grow \/ Shrink

Spec == Init /\ [][Next]_vars
=============================================================================
