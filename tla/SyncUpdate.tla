----------------------------- MODULE SyncUpdate -----------------------------
(***************************************************************************)
(* Synchronized updates in the escape sequence processor                   *)
(* (rio-backend/src/performer/handler.rs, Processor and SyncState).        *)
(* After a BSU escape the bytes that follow are held back in a buffer, so  *)
(* that a frame shows up at once; an ESU escape, a timeout or a full       *)
(* buffer hands them to the parser.  A processor is a record               *)
(*    applied   the bytes the parser has consumed so far                   *)
(*    buffer    the bytes held back                                        *)
(*    timeout   whether the timeout of an update is set                    *)
(* What the parser does with a byte is left out, except that it sets the   *)
(* timeout when it meets a BSU.  Offsets start at 0, as in the code.       *)
(*                                                                         *)
(* Operators that no other definition uses are plausible mistakes in the   *)
(* method they precede, kept so that the properties can be seen to fail.   *)
(***************************************************************************)
EXTENDS Integers, Sequences, FiniteSetsExt

CONSTANTS
    Byte,               \* the bytes a program may print
    SYNC_BUFFER_SIZE,   \* limit of one synchronized update
    BSU_CSI,            \* begins or extends a synchronized update
    ESU_CSI             \* ends it

ASSUME EscapesAssumption ==
    /\ BSU_CSI \in Seq(Byte) /\ ESU_CSI \in Seq(Byte)
    /\ BSU_CSI # ESU_CSI
    /\ Len(BSU_CSI) = Len(ESU_CSI) /\ Len(BSU_CSI) > 1
    \* both begin with the escape character, which is nowhere else in them
    /\ \A i \in 2 .. Len(ESU_CSI) : ESU_CSI[i] # BSU_CSI[1]
ASSUME SyncBufferAssumption == SYNC_BUFFER_SIZE \in Nat \ {0}

SYNC_ESCAPE_LEN == Len(BSU_CSI)

EscapeAt(bytes, offset, escape) ==
    SubSeq(bytes, offset + 1, offset + SYNC_ESCAPE_LEN) = escape

SaturatingSub(a, b) == IF a < b THEN 0 ELSE a - b

new_processor == [applied |-> <<>>, buffer |-> <<>>, timeout |-> FALSE]

sync_bytes_count(p) == Len(p.buffer)

-----------------------------------------------------------------------------

(* The parser consumes bytes to the last one: Performer does not override  *)
(* Perform::terminated, so advance_until_terminated never stops early.     *)
(* The parser keeps its state between calls, hence a BSU may have begun in *)
(* bytes it consumed before.                                               *)
parse(p, bytes) ==
    LET all == p.applied \o bytes
        ends == Len(p.applied) + 1 .. Len(all)
        begins == \E e \in ends : e >= SYNC_ESCAPE_LEN
                                    /\ EscapeAt(all, e - SYNC_ESCAPE_LEN, BSU_CSI)
    IN  [p EXCEPT !.applied = all, !.timeout = p.timeout \/ begins]

ForgetsBuffer(p) == [p EXCEPT !.timeout = FALSE]

(* stop_sync_internal without a new BSU: the update is over. *)
stop_sync(p) ==
    [parse(p, p.buffer) EXCEPT !.buffer = <<>>, !.timeout = FALSE]

StopSyncTearing(p, bsu_offset) ==
    [parse(p, SubSeq(p.buffer, 1, bsu_offset - 1)) EXCEPT
        !.buffer = SubSeq(p.buffer, bsu_offset, Len(p.buffer))]

(* stop_sync_internal with a new BSU: the bytes from it on stay back. *)
stop_sync_at(p, bsu_offset) ==
    [parse(p, SubSeq(p.buffer, 1, bsu_offset)) EXCEPT
        !.buffer = SubSeq(p.buffer, bsu_offset + 1, Len(p.buffer))]

ForgetsSplitEscapes(p, new_bytes) == Len(p.buffer) - new_bytes

(* Where an escape completed by the new bytes can begin. *)
start_offset(p, new_bytes) ==
    SaturatingSub(Len(p.buffer) - new_bytes, SYNC_ESCAPE_LEN - 1)

end_offset(p) == SaturatingSub(Len(p.buffer), SYNC_ESCAPE_LEN - 1)

(* The escapes are searched backwards: the last ESU ends the update, the   *)
(* first BSU after it, if any, begins the next one.                        *)
advance_sync_csi(p, new_bytes) ==
    LET found(escape) == {o \in start_offset(p, new_bytes) .. end_offset(p) - 1 :
                            EscapeAt(p.buffer, o, escape)}
        later == {o \in found(BSU_CSI) : \A e \in found(ESU_CSI) : e < o}
    IN  CASE found(ESU_CSI) = {} ->
                [p EXCEPT !.timeout = p.timeout \/ found(BSU_CSI) # {}]
          [] found(ESU_CSI) # {} /\ later = {} -> stop_sync(p)
          [] OTHER -> stop_sync_at(p, Min(later))

OverflowReordered(p, bytes) ==
    IF Len(p.buffer) + Len(bytes) >= SYNC_BUFFER_SIZE - 1
    THEN stop_sync(parse(p, bytes))
    ELSE advance_sync_csi([p EXCEPT !.buffer = p.buffer \o bytes], Len(bytes))

UnboundedSync(p, bytes) ==
    advance_sync_csi([p EXCEPT !.buffer = p.buffer \o bytes], Len(bytes))

advance_sync(p, bytes) ==
    IF Len(p.buffer) + Len(bytes) >= SYNC_BUFFER_SIZE - 1
    THEN parse(stop_sync(p), bytes)
    ELSE advance_sync_csi([p EXCEPT !.buffer = p.buffer \o bytes], Len(bytes))

(* Either branch consumes all the bytes, so the loop runs once. *)
advance(p, bytes) ==
    IF p.timeout THEN advance_sync(p, bytes) ELSE parse(p, bytes)

-----------------------------------------------------------------------------
IgnoresSyncBuffer(p, processed) == processed > 0

(* The condition under which pty_read (performer/mod.rs) tells the         *)
(* renderer about what it read.                                            *)
notifies(p, processed) == sync_bytes_count(p) < processed /\ processed > 0
=============================================================================
