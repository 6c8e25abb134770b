------------------------------ MODULE SyncSpec ------------------------------
(***************************************************************************)
(* The processor fed by the PTY thread (performer/mod.rs): pty_read hands  *)
(* it whatever pieces the kernel returns, cutting the program's output     *)
(* anywhere, and the poll timeout ends an update that the program does not *)
(* end.                                                                    *)
(***************************************************************************)
EXTENDS SyncUpdate

CONSTANTS
    Outputs,            \* what the program may print
    MaxRead,            \* bound on what one read returns
    MAX_LOCKED_READ     \* bytes after which pty_read returns

ASSUME SyncSpecAssumption ==
    /\ \A o \in Outputs : o \in Seq(Byte)
    /\ MaxRead \in Nat /\ MAX_LOCKED_READ \in Nat \ {0}

VARIABLES
    processor,          \* the record of module SyncUpdate
    output,             \* all that the program prints
    position,           \* how much of it has been read
    processed,          \* bytes handled by the current pty_read
    shown               \* length of applied when that pty_read began

vars == <<processor, output, position, processed, shown>>

Init ==
    /\ processor = new_processor
    /\ output \in Outputs
    /\ position = 0 /\ processed = 0 /\ shown = 0

(* One read inside the loop of pty_read and the parsing of what it got. *)
Read(n) ==
    /\ processed < MAX_LOCKED_READ
    /\ position + n <= Len(output)
    /\ processor' = advance(processor, SubSeq(output, position + 1, position + n))
    /\ position' = position + n
    /\ processed' = processed + n
    /\ UNCHANGED <<output, shown>>

(* pty_read returns: nothing to read, or MAX_LOCKED_READ reached. *)
EndRead ==
    /\ processed > 0
    /\ processed' = 0
    /\ shown' = Len(processor.applied)
    /\ UNCHANGED <<processor, output, position>>

(* The poll returned no event: the timeout of the update has passed. *)
StopSync ==
    /\ processed = 0
    /\ processor.timeout
    /\ processor' = stop_sync(processor)
    /\ shown' = Len(processor'.applied)
    /\ UNCHANGED <<output, position, processed>>

Next == (\E n \in 1 .. MaxRead : Read(n)) \/ EndRead \/ StopSync

(* pty_read returns, and a passed timeout is noticed unless more output    *)
(* keeps coming.                                                           *)
Fairness == WF_vars(EndRead) /\ WF_vars(StopSync)

Spec == Init /\ [][Next]_vars /\ Fairness

-----------------------------------------------------------------------------

(* Every variable is of its type. *)
TypeOK ==
    /\ processor \in [applied : Seq(Byte), buffer : Seq(Byte), timeout : BOOLEAN]
    /\ output \in Seq(Byte)
    /\ position \in 0 .. Len(output)
    /\ processed \in 0 .. position
    /\ shown \in 0 .. position

(* Holding bytes back neither loses, duplicates nor reorders output: the   *)
(* parser's input and then the buffer are what was read.                   *)
NothingLost ==
    processor.applied \o processor.buffer = SubSeq(output, 1, position)

(* Bytes are held back only while a timeout is set that will release them, *)
(* and never more than the limit allows.                                   *)
HeldBytesBounded ==
    /\ processor.buffer # <<>> => processor.timeout
    /\ Len(processor.buffer) < SYNC_BUFFER_SIZE

(* A frame whose ESU has been read into the buffer is not held back, even  *)
(* when the escape was cut by a read.                                      *)
HeldFrameIsOpen ==
    \A o \in 0 .. Len(processor.buffer) - SYNC_ESCAPE_LEN :
        ~EscapeAt(processor.buffer, o, ESU_CSI)

(* pty_read compares the size of the buffer with the bytes of this call to *)
(* decide whether the renderer is told: it is exactly when the parser got  *)
(* something (performer/mod.rs:221).                                       *)
NotifiedIffApplied ==
    notifies(processor, processed) <=> Len(processor.applied) > shown

(* While an update is open the parser gets whole frames only: what stays   *)
(* back begins with the BSU of the next one.                               *)
FramesNotTorn ==
    [][processor.timeout /\ processor'.applied # processor.applied
        => processor'.buffer = <<>> \/ EscapeAt(processor'.buffer, 0, BSU_CSI)]_vars

(* What is held back is shown in the end, whatever the program does. *)
HeldBytesShown == []<>(processor.buffer = <<>>)

(* "ESU CSI sequence for terminating synchronized updates"                 *)
(* (performer/handler.rs:42): no update is open right after an ESU.        *)
EsuTerminates ==
    /\ position >= SYNC_ESCAPE_LEN
    /\ EscapeAt(output, position - SYNC_ESCAPE_LEN, ESU_CSI)
    => ~processor.timeout
=============================================================================
