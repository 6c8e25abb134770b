------------------------------ MODULE Readiness ------------------------------
(***************************************************************************)
(* The channel between the UI threads and a PTY thread, and the readiness  *)
(* queue that wakes the PTY thread (corcovado/src/channel.rs and           *)
(* corcovado/src/poll.rs).  Senders put messages into a channel and, if    *)
(* it was empty, set the readiness of its node; a node that becomes ready  *)
(* is pushed on an intrusive queue of many producers, and the one consumer *)
(* marks the queue with sleep_marker before it blocks, so that the         *)
(* producer that finds the marker writes to the awakener.                  *)
(*                                                                         *)
(* No lock is involved: a step is one atomic access.  A compare-and-swap   *)
(* loop is the step of its last, successful turn.  A step of a thread is   *)
(* named by its pc; a thread that runs set_readiness or enqueue_node keeps *)
(* in then where it goes on.                                               *)
(***************************************************************************)
EXTENDS Integers, FiniteSets

CONSTANTS
    Channels,       \* each with a receiver registered with the poll, and a node
    Senders,        \* threads, each with a clone of the sender of one channel
    ChannelOf,      \* which one
    MaxSends,       \* (bound) messages each of them sends
    WordSize        \* the values of a usize; pending wraps below 0

ASSUME ReadinessAssumption ==
    /\ Channels # {} /\ IsFiniteSet(Channels) /\ IsFiniteSet(Senders)
    /\ {"null", "end", "sleep"} \cap Channels = {} /\ "poller" \notin Senders
    /\ ChannelOf \in [Senders -> Channels]
    /\ MaxSends \in [Senders -> Nat]
    /\ WordSize \in Nat \ {0} /\ \A s \in Senders : WordSize > 2 * (MaxSends[s] + 1) * Cardinality(Senders)

VARIABLES
    chan,       \* messages, pending, registered, unannounced (ghost)
    node,       \* state words: readiness, interest, queued
    next,       \* next_readiness of the nodes and of the two markers
    head, tail, \* head_readiness, tail_readiness
    awake,      \* the awakener's pipe holds a byte
    thread,     \* pc, then, item, prev, ready, and first of dec
    sends,      \* messages a sender may still send, -1 when it is dropped
    events,     \* channels whose event the poll returned
    todo        \* channels the poller still has to register or to drain

vars == <<chan, node, next, head, tail, awake, thread, sends, events, todo>>

Markers == {"end", "sleep"}
Items == Channels \cup Markers
Threads == Senders \cup {"poller"}

Resting(pc) ==
    [pc |-> pc, then |-> "idle", item |-> "null", prev |-> "null", ready |-> FALSE, first |-> 0]

(* t goes on at pc: with its locals, or when they are no longer needed. *)
Goto(t, pc) == thread' = [thread EXCEPT ![t].pc = pc]
Rest(t, pc) == thread' = [thread EXCEPT ![t] = Resting(pc)]

(* t runs set_readiness on c, or enqueue_node on an item, and goes on at pc then. *)
SetAndThen(t, c, ready, then) ==
    thread' = [thread EXCEPT ![t].pc = "set", ![t].item = c, ![t].ready = ready, ![t].then = then]
EnqueueAndThen(t, item, then) ==
    thread' = [thread EXCEPT ![t].pc = "enqueue", ![t].item = item, ![t].then = then]

Return(t) ==
    LET then == thread[t].then
    IN  IF then \in {"fill", "sub"}
        THEN thread' = [thread EXCEPT ![t] = [Resting(then) EXCEPT !.item = thread[t].item,
                                                                  !.first = thread[t].first]]
        ELSE Rest(t, then)

At(t, pc) == thread[t].pc = pc
Item(t) == thread[t].item

Init ==
    /\ chan = [c \in Channels |-> [messages |-> 0, pending |-> 0, registered |-> "no",
                                   unannounced |-> FALSE]]
    /\ node = [c \in Channels |-> [readiness |-> FALSE, interest |-> FALSE, queued |-> FALSE]]
    /\ next = [i \in Items |-> "null"]
    /\ head = "end" /\ tail = "end"
    /\ awake = FALSE
    /\ thread = [t \in Threads |-> Resting(IF t = "poller" THEN "register" ELSE "idle")]
    /\ sends = MaxSends
    /\ events = {}
    /\ todo = Channels

-----------------------------------------------------------------------------
(* RegistrationInner::set_readiness, ReadinessQueueInner::enqueue_node:    *)
(* any thread.                                                             *)

Effective(n) == n.readiness /\ n.interest

(* Whoever turns the queued flag on has to push the node. *)
Announced(old, n) == [n EXCEPT !.queued = old.queued \/ Effective(n)]
PushAgain(old, n) == n.queued
MustEnqueue(old, n) == ~old.queued /\ n.queued

SetReadiness(t) ==
    LET c == Item(t)
        new == Announced(node[c], [node[c] EXCEPT !.readiness = thread[t].ready])
    IN  /\ At(t, "set")
        /\ node' = [node EXCEPT ![c] = new]
        /\ IF MustEnqueue(node[c], new) THEN EnqueueAndThen(t, c, thread[t].then)
           ELSE Return(t)
        /\ UNCHANGED <<chan, next, head, tail, awake, sends, events, todo>>

Enqueue(t) ==
    /\ At(t, "enqueue")
    /\ next' = [next EXCEPT ![Item(t)] = "null"]
    /\ head' = Item(t)
    /\ thread' = [thread EXCEPT ![t].pc = "link", ![t].prev = head]
    /\ UNCHANGED <<chan, node, tail, awake, sends, events, todo>>

(* The poller is awake when it pushes end_marker. *)
WakesNobody(t) == FALSE
NeedsWakeup(t) == thread[t].prev = "sleep" /\ Item(t) # "end"

Link(t) ==
    /\ At(t, "link")
    /\ next' = [next EXCEPT ![thread[t].prev] = Item(t)]
    /\ IF NeedsWakeup(t) THEN Goto(t, "wakeup") ELSE Return(t)
    /\ UNCHANGED <<chan, node, head, tail, awake, sends, events, todo>>

Wakeup(t) ==
    /\ At(t, "wakeup")
    /\ awake' = TRUE
    /\ Return(t)
    /\ UNCHANGED <<chan, node, next, head, tail, sends, events, todo>>

-----------------------------------------------------------------------------
(* Sender::send, SenderCtl::inc and drop. *)

Send(s) ==
    /\ At(s, "idle") /\ sends[s] > 0
    /\ sends' = [sends EXCEPT ![s] = @ - 1]
    /\ chan' = [chan EXCEPT ![ChannelOf[s]].messages = @ + 1]
    /\ Goto(s, "inc")
    /\ UNCHANGED <<node, next, head, tail, awake, events, todo>>

(* Only the sender that finds the counter at 0 sets the readiness, and     *)
(* only when the receiver has left its handle.  A handle that comes after  *)
(* the receiver looked at the counter is too late (ghost unannounced).     *)
Inc(s) ==
    LET c == ChannelOf[s]
        first == chan[c].pending = 0
    IN  /\ At(s, "inc")
        /\ chan' = [chan EXCEPT ![c].pending = (@ + 1) % WordSize,
                                ![c].unannounced = @ \/ (first /\ chan[c].registered = "looked")]
        /\ IF first /\ chan[c].registered = "yes" THEN SetAndThen(s, c, TRUE, "idle")
           ELSE Rest(s, "idle")
        /\ UNCHANGED <<node, next, head, tail, awake, sends, events, todo>>

(* The last sender to go announces that, as if it were a message. *)
DropSender(s) ==
    /\ At(s, "idle") /\ sends[s] >= 0
    /\ sends' = [sends EXCEPT ![s] = -1]
    /\ IF \A r \in Senders \ {s} : ChannelOf[r] = ChannelOf[s] => sends[r] = -1
       THEN Goto(s, "inc") ELSE UNCHANGED thread
    /\ UNCHANGED <<chan, node, next, head, tail, awake, events, todo>>

-----------------------------------------------------------------------------
(* ReceiverCtl::register at the start of the PTY thread. *)

Poller(pc) == At("poller", pc)

Register ==
    /\ Poller("register")
    /\ IF todo = {} THEN Goto("poller", "prepare") /\ UNCHANGED <<node, todo>>
       ELSE \E c \in todo :
                /\ node' = [node EXCEPT ![c].interest = TRUE]
                /\ thread' = [thread EXCEPT !["poller"].pc = "look", !["poller"].item = c]
                /\ todo' = todo \ {c}
    /\ UNCHANGED <<chan, next, head, tail, awake, sends, events>>

Look ==
    LET c == Item("poller")
    IN  /\ Poller("look")
        /\ chan' = [chan EXCEPT ![c].registered = "looked"]
        /\ IF chan[c].pending > 0 THEN SetAndThen("poller", c, TRUE, "fill") ELSE Goto("poller", "fill")
        /\ UNCHANGED <<node, next, head, tail, awake, sends, events, todo>>

Fill ==
    /\ Poller("fill")
    /\ chan' = [chan EXCEPT ![Item("poller")].registered = "yes"]
    /\ Rest("poller", "register")
    /\ UNCHANGED <<node, next, head, tail, awake, sends, events, todo>>

-----------------------------------------------------------------------------
(* Poll::poll2. *)

(* A plausible mistake: the marker goes in without a look at the head. *)
SleepBlindly ==
    /\ Poller("prepare")
    /\ IF tail = "end"
       THEN /\ next' = [next EXCEPT !["sleep"] = "null"]
            /\ head' = "sleep" /\ tail' = "sleep" /\ Goto("poller", "block")
       ELSE Goto("poller", "select") /\ UNCHANGED <<next, head, tail>>
    /\ UNCHANGED <<chan, node, awake, sends, events, todo>>

(* The poller may block if its marker is alone in the queue. *)
prepare_for_sleep ==
    LET marked == tail = "end" /\ head = "end"
    IN  /\ Poller("prepare")
        /\ next' = IF tail = "end" THEN [next EXCEPT !["sleep"] = "null"] ELSE next
        /\ head' = IF marked THEN "sleep" ELSE head
        /\ tail' = IF marked THEN "sleep" ELSE tail
        /\ Goto("poller", IF marked \/ (tail = "sleep" /\ head = "sleep") THEN "block" ELSE "select")
        /\ UNCHANGED <<chan, node, awake, sends, events, todo>>

(* The timeout of a synchronized update has passed: poll is called with a  *)
(* zero timeout and leaves the queue unprepared.                           *)
ZeroTimeout ==
    /\ Poller("prepare")
    /\ Goto("poller", "select")
    /\ UNCHANGED <<chan, node, next, head, tail, awake, sends, events, todo>>

(* select blocks, or looks without blocking; cleanup empties the pipe. *)
Select ==
    /\ Poller("select") \/ (Poller("block") /\ awake)
    /\ Goto("poller", IF awake THEN "cleanup" ELSE "poll")
    /\ UNCHANGED <<chan, node, next, head, tail, awake, sends, events, todo>>

Cleanup ==
    /\ Poller("cleanup")
    /\ awake' = FALSE
    /\ Goto("poller", "poll")
    /\ UNCHANGED <<chan, node, next, head, tail, sends, events, todo>>

(* A timeout, or an event of the PTY. *)
OtherEvent ==
    /\ Poller("block")
    /\ Goto("poller", "poll")
    /\ UNCHANGED <<chan, node, next, head, tail, awake, sends, events, todo>>

-----------------------------------------------------------------------------
(* ReadinessQueue::poll and dequeue_node.  Nodes are edge-triggered, so    *)
(* none is pushed back, and events has room for all of them.               *)

SkipMarker ==
    /\ Poller("poll") /\ tail \in Markers
    /\ IF next[tail] = "null" THEN Goto("poller", "clear") /\ UNCHANGED tail
       ELSE tail' = next[tail] /\ Goto("poller", "pop")
    /\ UNCHANGED <<chan, node, next, head, awake, sends, events, todo>>

(* clear_sleep_marker: nobody sleeps any more. *)
ClearSleepMarker ==
    LET unmarked == tail = "sleep" /\ head = "sleep"
    IN  /\ Poller("clear")
        /\ next' = IF tail = "sleep" THEN [next EXCEPT !["end"] = "null"] ELSE next
        /\ head' = IF unmarked THEN "end" ELSE head
        /\ tail' = IF unmarked THEN "end" ELSE tail
        /\ thread' = [thread EXCEPT !["poller"].pc = "drain"]
        /\ todo' = Channels
        /\ UNCHANGED <<chan, node, awake, sends, events>>

(* The first item, if another follows it; else end_marker is pushed behind *)
(* it, unless a producer is about to push something else (Inconsistent).   *)
Pop(pc, otherwise) ==
    /\ Poller(pc)
    /\ IF next[tail] = "null" THEN Goto("poller", otherwise) /\ UNCHANGED tail
       ELSE /\ tail' = next[tail]
            /\ thread' = [thread EXCEPT !["poller"].pc = "process", !["poller"].item = tail]
    /\ UNCHANGED <<chan, node, next, head, awake, sends, events, todo>>

PopFirst == (tail \notin Markers /\ Pop("poll", "check")) \/ Pop("pop", "check")
PopSecond == Pop("pop_again", "stop")

CheckHead ==
    /\ Poller("check")
    /\ IF head = tail THEN EnqueueAndThen("poller", "end", "pop_again") ELSE Goto("poller", "stop")
    /\ UNCHANGED <<chan, node, next, head, tail, awake, sends, events, todo>>

StopPolling ==
    /\ Poller("stop")
    /\ Goto("poller", "drain") /\ todo' = Channels
    /\ UNCHANGED <<chan, node, next, head, tail, awake, sends, events>>

(* The node is off the queue; a one-shot node that is ready is disarmed. *)
Process ==
    LET c == Item("poller")
        ready == Effective(node[c])
    IN  /\ Poller("process")
        /\ node' = [node EXCEPT ![c].queued = FALSE, ![c].interest = @ /\ ~ready]
        /\ events' = IF ready THEN events \cup {c} ELSE events
        /\ Rest("poller", "poll")
        /\ UNCHANGED <<chan, next, head, tail, awake, sends, todo>>

-----------------------------------------------------------------------------
(* The PTY thread: drain_recv_channel after every poll, channel_event for  *)
(* a channel's event.  Receiver::try_recv and ReceiverCtl::dec.            *)

TryRecv == \E c \in todo :
    /\ Poller("drain") /\ chan[c].messages > 0
    /\ chan' = [chan EXCEPT ![c].messages = @ - 1]
    /\ thread' = [thread EXCEPT !["poller"].pc = "load", !["poller"].item = c]
    /\ UNCHANGED <<node, next, head, tail, awake, sends, events, todo>>

(* Nothing to receive; after an event the channel is registered again. *)
Drained == \E c \in todo :
    /\ Poller("drain") /\ chan[c].messages = 0
    /\ todo' = todo \ {c}
    /\ IF c \in events
       THEN thread' = [thread EXCEPT !["poller"].pc = "update", !["poller"].item = c]
       ELSE UNCHANGED thread
    /\ UNCHANGED <<chan, node, next, head, tail, awake, sends, events>>

NextPoll ==
    /\ Poller("drain") /\ todo = {}
    /\ Goto("poller", "prepare")
    /\ UNCHANGED <<chan, node, next, head, tail, awake, sends, events, todo>>

DecLoad ==
    LET c == Item("poller")
        first == chan[c].pending
        then == [thread EXCEPT !["poller"].first = first, !["poller"].then = "sub",
                               !["poller"].ready = FALSE,
                               !["poller"].pc = IF first = 1 THEN "set" ELSE "sub"]
    IN  /\ Poller("load")
        /\ thread' = then
        /\ UNCHANGED <<chan, node, next, head, tail, awake, sends, events, todo>>

(* Messages that came meanwhile need the readiness again. *)
SetAgain(first, second) == first = 1 /\ second > 1

DecSub ==
    LET c == Item("poller")
    IN  /\ Poller("sub")
        /\ chan' = [chan EXCEPT ![c].pending = (@ - 1) % WordSize]
        /\ IF SetAgain(thread["poller"].first, chan[c].pending)
           THEN SetAndThen("poller", c, TRUE, "drain") ELSE Rest("poller", "drain")
        /\ UNCHANGED <<node, next, head, tail, awake, sends, events, todo>>

(* RegistrationInner::update.  What was set while the node was disarmed    *)
(* has to be announced now.                                                *)
Rearmed(n) == Announced(n, [n EXCEPT !.interest = TRUE])

Reregister ==
    LET c == Item("poller")
        new == Rearmed(node[c])
    IN  /\ Poller("update")
        /\ node' = [node EXCEPT ![c] = new]
        /\ events' = events \ {c}
        /\ IF MustEnqueue(node[c], new) THEN EnqueueAndThen("poller", c, "drain")
           ELSE Rest("poller", "drain")
        /\ UNCHANGED <<chan, next, head, tail, awake, sends, todo>>

-----------------------------------------------------------------------------

Shared(t) == SetReadiness(t) \/ Enqueue(t) \/ Link(t) \/ Wakeup(t)

SenderStep(s) == Shared(s) \/ Inc(s)

PollerStep ==
    \/ Shared("poller") \/ Register \/ Look \/ Fill
    \/ prepare_for_sleep \/ Select \/ Cleanup
    \/ SkipMarker \/ ClearSleepMarker \/ PopFirst \/ PopSecond \/ CheckHead \/ StopPolling \/ Process
    \/ TryRecv \/ Drained \/ NextPoll \/ DecLoad \/ DecSub \/ Reregister

Next ==
    \/ PollerStep \/ ZeroTimeout \/ OtherEvent
    \/ \E s \in Senders : SenderStep(s) \/ Send(s) \/ DropSender(s)

(* Every thread that can go on does: the operating system runs it.  That   *)
(* there is anything to send, a timeout or PTY output is not assumed.      *)
Spec == Init /\ [][Next]_vars /\ WF_vars(PollerStep) /\ \A s \in Senders : WF_vars(SenderStep(s))

-----------------------------------------------------------------------------

(* What comes behind an item: a producer that took the head is about to    *)
(* link its node to the one it found there.                                *)
Follower(i) ==
    LET linking == {t \in Threads : At(t, "link") /\ thread[t].prev = i}
    IN  IF linking = {} THEN next[i] ELSE Item(CHOOSE t \in linking : TRUE)

Chain ==
    LET nth[n \in 0 .. Cardinality(Items)] ==
            IF n = 0 THEN tail
            ELSE IF nth[n - 1] = "null" THEN "null" ELSE Follower(nth[n - 1])
    IN  nth

InQueue(i) == \E n \in DOMAIN Chain : Chain[n] = i

(* Threads that hold the right or the duty to push the node. *)
Holders(c) ==
    {t \in Threads : At(t, "enqueue") /\ Item(t) = c}
        \cup {t \in {"poller"} : At(t, "process") /\ Item(t) = c}

(* Producers only write the head and one link, without a lock, and the     *)
(* queued flag of a node is the permission to push it: the links from the  *)
(* tail lead to the head without a cycle, and a node with its flag set is  *)
(* in the queue or in the hands of one thread, never twice, never nowhere. *)
QueueSound ==
    /\ Chain[Cardinality(Items)] = "null"
    /\ InQueue(head) /\ Follower(head) = "null"
    /\ \A t \in Threads : At(t, "link") => next[thread[t].prev] = "null"
    /\ \A c \in Channels :
            Cardinality(Holders(c)) + (IF InQueue(c) THEN 1 ELSE 0) = IF node[c].queued THEN 1 ELSE 0

(* No wakeup is lost: while the poller blocks on an empty pipe, nothing is *)
(* behind its marker or a producer is on its way to write to the pipe, and *)
(* when the senders rest every channel is empty.  The exception is a       *)
(* message that came while the receiver registered.                        *)
SleepSafe ==
    Poller("block") /\ ~awake =>
        /\ \/ head = "sleep"
           \/ \E t \in Senders : At(t, "wakeup") \/ (At(t, "link") /\ NeedsWakeup(t))
        /\ (\A s \in Senders : At(s, "idle")) =>
                \A c \in Channels : chan[c].messages = 0 \/ chan[c].unannounced

(* A message that is sent is received, without any other event to wake the *)
(* PTY thread.                                                             *)
Delivered ==
    \A c \in Channels : chan[c].messages > 0 ~> chan[c].messages = 0 \/ chan[c].unannounced
=============================================================================
