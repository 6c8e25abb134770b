----------------------------- MODULE PtyMachine -----------------------------
(***************************************************************************)
(* The PTY thread (performer/mod.rs) between the program behind the PTY    *)
(* and the UI thread.  The UI thread sends input over a channel and takes  *)
(* the terminal's FairMutex (event/sync.rs) to draw; the thread writes the *)
(* input to the PTY as the kernel accepts it, reads the program's output   *)
(* and parses it under the same mutex.  Poll registrations are one-shot,   *)
(* so whatever the thread still has to do when it polls again must have    *)
(* been registered for, or it waits for an event that never comes.         *)
(*                                                                         *)
(* Output bytes are counted; input bytes carry their message.  What        *)
(* parsing does is the subject of SyncUpdate, what the notification does   *)
(* of RenderPipeline.                                                      *)
(***************************************************************************)
EXTENDS Naturals, Sequences, FiniteSets, SequencesExt

CONSTANTS
    READ_BUFFER_SIZE, MAX_LOCKED_READ,  \* limits of pty_read
    TtySize,            \* input bytes the kernel holds for the program
    InputLen,           \* bytes of an input message
    MaxInputs,          \* bound on the input messages sent
    MaxOutput           \* bound on the bytes the program prints

ASSUME MachineAssumption ==
    /\ READ_BUFFER_SIZE \in Nat \ {0} /\ MAX_LOCKED_READ \in Nat \ {0}
    /\ TtySize \in Nat \ {0} /\ InputLen \in Nat \ {0}
    /\ MaxInputs \in Nat /\ MaxOutput \in Nat

VARIABLES
    program,    \* [printed, inbox, delivered, running]: behind the PTY
    unread,     \* output bytes in the kernel
    channel,    \* messages sent and not received
    peeked,     \* the slot of PeekableReceiver, empty or one message
    sent,       \* number of input messages sent
    state,      \* [write_list, writing]
    poll,       \* [channel, pty, writable]: what is registered with the poll
    events,     \* events of this round still to be handled
    pc,         \* where the PTY thread is
    read,       \* [unprocessed, processed]: locals of pty_read
    parsed,     \* bytes handed to the parser
    mutex,      \* [next, data]: owners of the two locks
    ui          \* what the UI thread does about the mutex

vars == <<program, unread, channel, peeked, sent, state, poll, events, pc, read,
          parsed, mutex, ui>>

Input(i) == [n \in 1 .. InputLen |-> i]
Shutdown == <<>>
Msg == {Input(i) : i \in 1 .. MaxInputs} \cup {Shutdown}

Init ==
    /\ program = [printed |-> 0, inbox |-> 0, delivered |-> <<>>, running |-> TRUE]
    /\ unread = 0
    /\ channel = <<>> /\ peeked = <<>> /\ sent = 0
    /\ state = [write_list |-> <<>>, writing |-> <<>>]
    /\ poll = [channel |-> TRUE, pty |-> TRUE, writable |-> FALSE]
    /\ events = {}
    /\ pc = "poll"
    /\ read = [unprocessed |-> 0, processed |-> 0]
    /\ parsed = 0
    /\ mutex = [next |-> "none", data |-> "none"]
    /\ ui = "idle"

-----------------------------------------------------------------------------
(* The program and the kernel. *)

Prints ==
    /\ program.running
    /\ program.printed < MaxOutput
    /\ program' = [program EXCEPT !.printed = @ + 1]
    /\ unread' = unread + 1
    /\ UNCHANGED <<channel, peeked, sent, state, poll, events, pc, read, parsed, mutex, ui>>

ReadsInput ==
    /\ program.running
    /\ program.inbox > 0
    /\ program' = [program EXCEPT !.inbox = @ - 1]
    /\ UNCHANGED <<unread, channel, peeked, sent, state, poll, events, pc, read, parsed, mutex, ui>>

Exits ==
    /\ program.running
    /\ program' = [program EXCEPT !.running = FALSE]
    /\ UNCHANGED <<unread, channel, peeked, sent, state, poll, events, pc, read, parsed, mutex, ui>>

-----------------------------------------------------------------------------
(* The UI thread. *)

SendsInput ==
    /\ sent < MaxInputs
    /\ sent' = sent + 1
    /\ channel' = Append(channel, Input(sent + 1))
    /\ UNCHANGED <<program, unread, peeked, state, poll, events, pc, read, parsed, mutex, ui>>

(* Msg::Shutdown is sent once, as the last message, when the panel is      *)
(* dropped.                                                                *)
SendsShutdown ==
    /\ sent = MaxInputs
    /\ ~Contains(channel \o peeked, Shutdown)
    /\ pc # "stopped"
    /\ channel' = Append(channel, Shutdown)
    /\ UNCHANGED <<program, unread, peeked, sent, state, poll, events, pc, read, parsed, mutex, ui>>

UiVars == <<program, unread, channel, peeked, sent, state, poll, events, pc, read, parsed>>

(* FairMutex::lock: next, then data, then next is given up. *)
UiCallsLock == ui = "idle" /\ ui' = "wants_next" /\ UNCHANGED <<mutex, UiVars>>

UiTakesNext ==
    /\ ui = "wants_next" /\ mutex.next = "none"
    /\ ui' = "wants_data"
    /\ mutex' = [mutex EXCEPT !.next = "ui"]
    /\ UNCHANGED UiVars

UiTakesData ==
    /\ ui = "wants_data" /\ mutex.data = "none"
    /\ ui' = "holds"
    /\ mutex' = [next |-> "none", data |-> "ui"]
    /\ UNCHANGED UiVars

UiUnlocks ==
    /\ ui = "holds"
    /\ ui' = "idle"
    /\ mutex' = [mutex EXCEPT !.data = "none"]
    /\ UNCHANGED UiVars

-----------------------------------------------------------------------------
(* The event loop of the PTY thread. *)

needs_write == state.writing # <<>> \/ state.write_list # <<>>

(* What poll may report, from the registrations and the state of the world *)
(* (corcovado and the kernel): the PTY event says what the PTY is ready    *)
(* for; the child event is level-triggered.                                *)
Readable == unread > 0
Writable == poll.writable /\ program.inbox < TtySize
Ready ==
    (IF poll.channel /\ channel # <<>> THEN {<<"channel">>} ELSE {})
    \cup (IF ~program.running THEN {<<"child">>} ELSE {})
    \cup (IF poll.pty /\ (Readable \/ Writable \/ ~program.running)
          THEN {<<"pty", Readable, Writable, ~program.running>>} ELSE {})

(* A one-shot registration is used up by the event it delivers. *)
UsedUp(p, es) ==
    [p EXCEPT !.channel = @ /\ <<"channel">> \notin es,
              !.pty = @ /\ ~\E e \in es : e[1] = "pty"]

Poll ==
    /\ pc = "poll"
    /\ Ready # {}
    /\ events' = Ready
    /\ poll' = UsedUp(poll, Ready)
    /\ pc' = "drain"
    /\ UNCHANGED <<program, unread, channel, peeked, sent, state, read, parsed, mutex, ui>>

(* The timeout of a synchronized update ends the poll without an event.    *)
(* If no message can be peeked the update is stopped under the lock, which *)
(* is one step here: stop_sync takes no part in what is modelled.          *)
PollTimesOut ==
    /\ pc = "poll"
    /\ parsed > 0
    /\ peeked' = IF peeked = <<>> /\ channel # <<>> THEN <<Head(channel)>> ELSE peeked
    /\ channel' = IF peeked = <<>> /\ channel # <<>> THEN Tail(channel) ELSE channel
    /\ peeked' = <<>> => mutex.next = "none" /\ mutex.data = "none"
    /\ pc' = IF peeked' = <<>> THEN "poll" ELSE "drain"
    /\ UNCHANGED <<program, unread, sent, state, poll, events, read, parsed, mutex, ui>>

(* A plausible mistake: the peeked message is taken after the others. *)
ReceivedLate == channel \o peeked

(* The order in which recv returns what is there. *)
Received == peeked \o channel

(* A shutdown message leaves what follows it in the channel. *)
drain_recv_channel ==
    LET stop == SelectInSeq(Received, LAMBDA m : m = Shutdown)
        taken == IF stop = 0 THEN Received ELSE SubSeq(Received, 1, stop - 1)
    IN  /\ state' = [state EXCEPT !.write_list = @ \o taken]
        /\ peeked' = <<>>
        /\ channel' = IF stop = 0 THEN <<>> ELSE SubSeq(Received, stop + 1, Len(Received))

Stops == Contains(Received, Shutdown)

Drain ==
    /\ pc = "drain"
    /\ drain_recv_channel
    /\ pc' = IF Stops THEN "stopped" ELSE "events"
    /\ UNCHANGED <<program, unread, sent, poll, events, read, parsed, mutex, ui>>

(* A plausible mistake: the channel is drained, its registration not renewed. *)
ChannelEventOnce ==
    /\ pc = "events" /\ <<"channel">> \in events
    /\ drain_recv_channel
    /\ events' = events \ {<<"channel">>}
    /\ pc' = IF Stops THEN "stopped" ELSE "events"
    /\ UNCHANGED <<program, unread, sent, poll, read, parsed, mutex, ui>>

channel_event ==
    /\ pc = "events" /\ <<"channel">> \in events
    /\ drain_recv_channel
    /\ events' = events \ {<<"channel">>}
    /\ poll' = [poll EXCEPT !.channel = ~Stops]
    /\ pc' = IF Stops THEN "stopped" ELSE "events"
    /\ UNCHANGED <<program, unread, sent, read, parsed, mutex, ui>>

(* The child has exited: terminal.lock().exit() sends CloseTerminal. *)
ChildExited ==
    /\ pc = "events" /\ <<"child">> \in events
    /\ mutex.next = "none" /\ mutex.data = "none"
    /\ pc' = "stopped"
    /\ UNCHANGED <<program, unread, channel, peeked, sent, state, poll, events, read, parsed, mutex, ui>>

(* An event of the PTY: nothing is done for a dead one, else it is read    *)
(* and then written.                                                       *)
PtyEvent ==
    /\ pc = "events"
    /\ \E e \in events :
        /\ e[1] = "pty"
        /\ pc' = CASE e[4] -> "events"
                   [] ~e[4] /\ e[2] -> "lease"
                   [] OTHER -> "write"
        /\ events' = IF e[4] THEN events \ {e} ELSE events
    /\ UNCHANGED <<program, unread, channel, peeked, sent, state, poll, read, parsed, mutex, ui>>

(* A plausible mistake: only what is being written asks for the next       *)
(* chance to write.                                                        *)
ReregisterCurrentOnly ==
    /\ pc = "events" /\ events = {}
    /\ poll' = [poll EXCEPT !.pty = TRUE, !.writable = state.writing # <<>>]
    /\ pc' = "poll"
    /\ UNCHANGED <<program, unread, channel, peeked, sent, state, events, read, parsed, mutex, ui>>

Reregister ==
    /\ pc = "events" /\ events = {}
    /\ poll' = [poll EXCEPT !.pty = TRUE, !.writable = needs_write]
    /\ pc' = "poll"
    /\ UNCHANGED <<program, unread, channel, peeked, sent, state, events, read, parsed, mutex, ui>>

-----------------------------------------------------------------------------
(* pty_read. *)

Lease ==
    /\ pc = "lease"
    /\ mutex.next = "none"
    /\ mutex' = [mutex EXCEPT !.next = "pty"]
    /\ pc' = "read"
    /\ UNCHANGED <<program, unread, channel, peeked, sent, state, poll, events, read, parsed, ui>>

PtyEvents == {e \in events : e[1] = "pty"}
ThenWrite == \E e \in PtyEvents : e[3]

(* A plausible mistake: the lease outlives the call. *)
ReturnsWithLease ==
    /\ mutex' = [mutex EXCEPT !.data = IF @ = "pty" THEN "none" ELSE @]
    /\ read' = [unprocessed |-> 0, processed |-> 0]
    /\ pc' = IF ThenWrite THEN "write" ELSE "events"
    /\ events' = IF ThenWrite THEN events ELSE events \ PtyEvents

(* pty_read returns and both guards are dropped. *)
ReadReturns ==
    /\ mutex' = [next |-> "none", data |-> IF mutex.data = "pty" THEN "none" ELSE mutex.data]
    /\ read' = [unprocessed |-> 0, processed |-> 0]
    /\ pc' = IF ThenWrite THEN "write" ELSE "events"
    /\ events' = IF ThenWrite THEN events ELSE events \ PtyEvents

(* A plausible mistake: bytes that wait for the lock are forgotten. *)
BlockDropsUnparsed ==
    /\ pc = "read"
    /\ unread = 0 /\ program.running
    /\ ReadReturns
    /\ UNCHANGED <<program, unread, channel, peeked, sent, state, poll, parsed, ui>>

(* A read that would block: pty_read is done unless bytes wait for the lock. *)
ReadWouldBlock ==
    /\ pc = "read"
    /\ unread = 0 /\ program.running
    /\ IF read.unprocessed = 0
       THEN ReadReturns
       ELSE pc' = "parse" /\ UNCHANGED <<mutex, read, events>>
    /\ UNCHANGED <<program, unread, channel, peeked, sent, state, poll, parsed, ui>>

(* A plausible mistake: a failed read is tried again. *)
RetriesOnError ==
    /\ pc = "read"
    /\ unread = 0 /\ ~program.running
    /\ UNCHANGED vars

(* On Linux a read after the client hung up fails with EIO: what was read  *)
(* and not parsed is dropped, the event is done.  The other errors that    *)
(* end the thread come from a broken descriptor or buffer, never from the  *)
(* program behind the PTY.                                                 *)
ReadFails ==
    /\ pc = "read"
    /\ unread = 0 /\ ~program.running
    /\ mutex' = [next |-> "none", data |-> IF mutex.data = "pty" THEN "none" ELSE mutex.data]
    /\ read' = [unprocessed |-> 0, processed |-> 0]
    /\ events' = events \ PtyEvents
    /\ pc' = "events"
    /\ UNCHANGED <<program, unread, channel, peeked, sent, state, poll, parsed, ui>>

Reads(n) ==
    /\ pc = "read"
    /\ n <= unread /\ n <= READ_BUFFER_SIZE - read.unprocessed
    /\ unread' = unread - n
    /\ read' = [read EXCEPT !.unprocessed = @ + n]
    /\ pc' = "parse"
    /\ UNCHANGED <<program, channel, peeked, sent, state, poll, events, parsed, mutex, ui>>

(* The lock is busy: read on, but with a full buffer wait for it. *)
ContinueReading ==
    /\ pc = "parse"
    /\ mutex.data = "ui"
    /\ read.unprocessed < READ_BUFFER_SIZE
    /\ pc' = "read"
    /\ UNCHANGED <<program, unread, channel, peeked, sent, state, poll, events, read, parsed, mutex, ui>>

(* The lock is held or free: the bytes are parsed, and reading goes on     *)
(* until MAX_LOCKED_READ bytes have been parsed under the lock.            *)
Parse ==
    /\ pc = "parse"
    /\ mutex.data # "ui"
    /\ parsed' = parsed + read.unprocessed
    /\ IF read.processed + read.unprocessed >= MAX_LOCKED_READ
       THEN ReadReturns
       ELSE /\ read' = [unprocessed |-> 0, processed |-> read.processed + read.unprocessed]
            /\ mutex' = [mutex EXCEPT !.data = "pty"]
            /\ pc' = "read"
            /\ UNCHANGED events
    /\ UNCHANGED <<program, unread, channel, peeked, sent, state, poll, ui>>

-----------------------------------------------------------------------------
(* pty_write. *)

(* ensure_next and goto_next: the next message is begun. *)
BeginNext ==
    /\ pc = "write"
    /\ state.writing = <<>> /\ state.write_list # <<>>
    /\ state' = [write_list |-> Tail(state.write_list), writing |-> Head(state.write_list)]
    /\ UNCHANGED <<program, unread, channel, peeked, sent, poll, events, pc, read, parsed, mutex, ui>>

(* The kernel accepts n bytes of the message being written. *)
Writes(n) ==
    /\ pc = "write"
    /\ n <= Len(state.writing) /\ program.inbox + n <= TtySize
    /\ program' = [program EXCEPT !.delivered = @ \o SubSeq(state.writing, 1, n), !.inbox = @ + n]
    /\ state' = [state EXCEPT !.writing = SubSeq(@, n + 1, Len(@))]
    /\ UNCHANGED <<unread, channel, peeked, sent, poll, events, pc, read, parsed, mutex, ui>>

(* All is written, or the write would block: the message stays current. *)
WriteReturns ==
    /\ pc = "write"
    /\ ~needs_write \/ (state.writing # <<>> /\ program.inbox = TtySize)
    /\ pc' = "events"
    /\ events' = events \ PtyEvents
    /\ UNCHANGED <<program, unread, channel, peeked, sent, state, poll, read, parsed, mutex, ui>>

-----------------------------------------------------------------------------

Program == Prints \/ ReadsInput \/ Exits

Ui == SendsInput \/ SendsShutdown \/ UiCallsLock \/ UiTakesNext \/ UiTakesData \/ UiUnlocks

PtyRead == Lease \/ ReadWouldBlock \/ ReadFails \/ (\E n \in 1 .. READ_BUFFER_SIZE : Reads(n))
           \/ ContinueReading \/ Parse

PtyWrite == BeginNext \/ (\E n \in 1 .. InputLen : Writes(n)) \/ WriteReturns

PtyThread == Poll \/ PollTimesOut \/ Drain \/ channel_event \/ ChildExited \/ PtyEvent
             \/ Reregister \/ PtyRead \/ PtyWrite

Next == Program \/ Ui \/ PtyThread

(* The threads run, the program reads its input, the UI thread does not    *)
(* keep the lock; a lock that is free again and again is not always lost   *)
(* to another thread (parking_lot's eventual fairness).                    *)
Fairness ==
    /\ WF_vars(ReadsInput) /\ WF_vars(UiUnlocks)
    /\ SF_vars(UiTakesNext) /\ SF_vars(UiTakesData)
    /\ WF_vars(Poll) /\ WF_vars(Drain) /\ WF_vars(channel_event) /\ WF_vars(PtyEvent)
    /\ WF_vars(Reregister) /\ WF_vars(PtyWrite)
    /\ SF_vars(ChildExited) /\ SF_vars(Lease) /\ SF_vars(Parse)
    /\ WF_vars(ReadWouldBlock \/ ReadFails \/ (\E n \in 1 .. READ_BUFFER_SIZE : Reads(n)))

Spec == Init /\ [][Next]_vars /\ Fairness

-----------------------------------------------------------------------------

(* Every variable is of its type. *)
TypeOK ==
    /\ program \in [printed : 0 .. MaxOutput, inbox : 0 .. TtySize,
                    delivered : Seq(1 .. MaxInputs), running : BOOLEAN]
    /\ unread \in 0 .. MaxOutput
    /\ channel \in Seq(Msg) /\ peeked \in Seq(Msg) /\ Len(peeked) <= 1
    /\ sent \in 0 .. MaxInputs
    /\ state.write_list \in Seq(Msg) /\ state.writing \in Seq(1 .. MaxInputs)
    /\ poll \in [channel : BOOLEAN, pty : BOOLEAN, writable : BOOLEAN]
    /\ events \subseteq {<<"channel">>, <<"child">>}
                        \cup {<<"pty", r, w, h>> : r, w, h \in BOOLEAN}
    /\ pc \in {"poll", "drain", "events", "lease", "read", "parse", "write", "stopped"}
    /\ read.unprocessed \in 0 .. READ_BUFFER_SIZE /\ read.processed \in 0 .. MAX_LOCKED_READ
    /\ parsed \in 0 .. MaxOutput
    /\ mutex \in [next : {"none", "pty", "ui"}, data : {"none", "pty", "ui"}]
    /\ ui \in {"idle", "wants_next", "wants_data", "holds"}

(* Input reaches the program complete, in order and once, through partial  *)
(* writes, a full kernel buffer and the peeked slot.                       *)
InputInOrder ==
    program.delivered \o state.writing
        \o FlattenSeq(state.write_list) \o FlattenSeq(peeked \o channel)
    = FlattenSeq([i \in 1 .. sent |-> Input(i)])

(* The thread does not sleep on work: polling, it is registered for the    *)
(* channel, for the PTY, and for writing if input is waiting to be written;*)
(* and at most one message waits in the peeked slot (TypeOK).              *)
RegisteredForWork ==
    /\ TypeOK
    /\ pc = "poll" => poll.channel /\ poll.pty /\ (needs_write => poll.writable)

(* Output is lost only when the program has gone (EIO). *)
OutputKept ==
    program.running => parsed + read.unprocessed + unread = program.printed

(* The mutex hand-over is free of deadlock and starvation: the UI thread   *)
(* gets the lock, whatever the program prints.                             *)
UiGetsLock == ui = "wants_next" ~> ui = "holds"

(* All input that was sent is delivered in the end, unless the thread      *)
(* stops or the program has gone.                                          *)
InputDelivered ==
    []<>(\/ Len(program.delivered) = sent * InputLen
         \/ pc = "stopped" \/ ~program.running)

(* A program that exited is noticed: the thread ends, with CloseTerminal   *)
(* or because it was shut down.                                            *)
ExitNoticed == ~program.running ~> pc = "stopped"
=============================================================================
