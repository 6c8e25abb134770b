--------------------------- MODULE ReadinessProofs ---------------------------
(***************************************************************************)
(* The two safety properties of the readiness queue, for any number of     *)
(* channels, senders and messages.                                         *)
(*                                                                         *)
(* QueueIsSound: the items ever pushed are listed in a sequence q, and     *)
(* those not popped are q[lo] .. q[hi] (QueueInv).  Each is linked to the  *)
(* next one, or a producer is about to link it; a node's queued flag says  *)
(* that it is in that window or in the hands of exactly one thread.        *)
(*                                                                         *)
(* SleepIsSafe: the poller only blocks behind its marker, and whoever      *)
(* pushes behind the marker writes to the awakener (Marked); all nodes are *)
(* armed then (Armed), so a node that is ready is in the queue             *)
(* (Announcing); and the counter of a channel is the difference, modulo    *)
(* the word size, of the times it was raised and lowered (Counts), so that *)
(* a message that is there while nobody is about to announce it was        *)
(* noticed (Noticed).                                                      *)
(***************************************************************************)
EXTENDS Readiness, SequenceTheorems, FiniteSetTheorems, WellFoundedInduction, TLAPS

(* A nonempty set of naturals has a least element. *)
LEMMA Least ==
    ASSUME NEW T, T \subseteq Nat, T # {}
    PROVE  \E x \in T : \A y \in T : x <= y
<1>1. PICK x \in T : \A y \in T : ~(<<y, x>> \in OpToRel(<, Nat))
  BY NatLessThanWellFounded, WFMin
<1>2. \A y \in T : x <= y
  <2> SUFFICES ASSUME NEW y \in T PROVE x <= y
    OBVIOUS
  <2>1. ~(y < x)
    BY <1>1 DEF OpToRel
  <2> QED BY <2>1
<1> QED
  BY <1>2

-----------------------------------------------------------------------------
(* Types, and what a thread's locals are worth at each pc.                 *)

PushPcs == {"set", "enqueue", "link", "wakeup"}
SenderPcs == PushPcs \cup {"idle", "inc"}
NodePcs == {"look", "fill", "process", "load", "sub", "update"}
PollerPcs ==
    PushPcs \cup NodePcs \cup
        {"register", "prepare", "block", "select", "cleanup", "poll", "clear",
         "pop", "check", "pop_again", "stop", "drain"}
Pcs == SenderPcs \cup PollerPcs

Local ==
    [pc : Pcs, then : Pcs, item : Items \cup {"null"}, prev : Items \cup {"null"},
     ready : BOOLEAN, first : Int]

SenderOK(s, r) ==
    /\ r.pc \in SenderPcs /\ r.then = "idle"
    /\ r.pc \in PushPcs => r.item = ChannelOf[s]
    /\ r.pc = "set" => r.ready

PollerOK(r) ==
    /\ r.pc \in PollerPcs
    /\ r.pc \in NodePcs => r.item \in Channels
    /\ r.pc \in PushPcs =>
            \/ r.item \in Channels /\ r.then \in {"fill", "sub", "drain"}
            \/ r.item = "end" /\ r.then = "pop_again" /\ r.pc \in {"enqueue", "link"}
    /\ r.pc = "set" /\ ~r.ready => r.then = "sub" /\ r.first = 1

(* Everything but thread. *)
DataType ==
    /\ chan \in [Channels -> [messages : Nat, pending : 0 .. WordSize - 1,
                              registered : {"no", "looked", "yes"}, unannounced : BOOLEAN]]
    /\ node \in [Channels -> [readiness : BOOLEAN, interest : BOOLEAN, queued : BOOLEAN]]
    /\ next \in [Items -> Items \cup {"null"}]
    /\ head \in Items /\ tail \in Items /\ awake \in BOOLEAN
    /\ sends \in [Senders -> Int]
    /\ \A s \in Senders : sends[s] >= -1 /\ sends[s] <= MaxSends[s]
    /\ events \subseteq Channels /\ todo \subseteq Channels

ThreadsOK ==
    /\ thread \in [Threads -> Local]
    /\ \A s \in Senders : SenderOK(s, thread[s])
    /\ PollerOK(thread["poller"])

Basic == DataType /\ ThreadsOK

-----------------------------------------------------------------------------
(* What the steps of a thread do to its locals. *)

(* t is at pc with these locals, and no other thread has moved. *)
Now(t, pc, then, item, prev, ready, first) ==
    /\ thread' \in [Threads -> Local]
    /\ thread'[t].pc = pc /\ thread'[t].then = then /\ thread'[t].item = item
    /\ thread'[t].prev = prev /\ thread'[t].ready = ready /\ thread'[t].first = first
    /\ \A u \in Threads : u # t => thread'[u] = thread[u]

(* What each way to move a thread leaves in its locals. *)
LEMMA GotoNow ==
    ASSUME thread \in [Threads -> Local], NEW t \in Threads, NEW pc \in Pcs, Goto(t, pc)
    PROVE  Now(t, pc, thread[t].then, thread[t].item, thread[t].prev, thread[t].ready,
               thread[t].first)
  BY DEF Goto, Now, Local

LEMMA RestNow ==
    ASSUME thread \in [Threads -> Local], NEW t \in Threads, NEW pc \in Pcs, Rest(t, pc)
    PROVE  Now(t, pc, "idle", "null", "null", FALSE, 0)
  BY DEF Rest, Resting, Now, Local, Pcs, SenderPcs

LEMMA SetNow ==
    ASSUME thread \in [Threads -> Local], NEW t \in Threads, NEW c \in Channels,
           NEW ready \in BOOLEAN, NEW then \in Pcs, SetAndThen(t, c, ready, then)
    PROVE  Now(t, "set", then, c, thread[t].prev, ready, thread[t].first)
<1>1. c \in Items /\ "set" \in Pcs
  BY DEF Items, Pcs, SenderPcs, PushPcs
<1> DEFINE r == [thread[t] EXCEPT !.pc = "set", !.item = c, !.ready = ready, !.then = then]
<1>2. thread' = [thread EXCEPT ![t] = r]
  BY DEF SetAndThen
<1>3. /\ r \in Local
      /\ r.pc = "set" /\ r.then = then /\ r.item = c /\ r.prev = thread[t].prev
      /\ r.ready = ready /\ r.first = thread[t].first
  BY <1>1 DEF Local
<1> HIDE DEF r
<1> QED
  BY <1>2, <1>3 DEF Now

LEMMA EnqueueNow ==
    ASSUME thread \in [Threads -> Local], NEW t \in Threads, NEW i \in Items,
           NEW then \in Pcs, EnqueueAndThen(t, i, then)
    PROVE  Now(t, "enqueue", then, i, thread[t].prev, thread[t].ready, thread[t].first)
<1>1. "enqueue" \in Pcs
  BY DEF Pcs, SenderPcs, PushPcs
<1> DEFINE r == [thread[t] EXCEPT !.pc = "enqueue", !.item = i, !.then = then]
<1>2. thread' = [thread EXCEPT ![t] = r]
  BY DEF EnqueueAndThen
<1>3. /\ r \in Local
      /\ r.pc = "enqueue" /\ r.then = then /\ r.item = i /\ r.prev = thread[t].prev
      /\ r.ready = thread[t].ready /\ r.first = thread[t].first
  BY <1>1 DEF Local
<1> HIDE DEF r
<1> QED
  BY <1>2, <1>3 DEF Now

LEMMA ReturnNow ==
    ASSUME thread \in [Threads -> Local], NEW t \in Threads, Return(t)
    PROVE  IF thread[t].then \in {"fill", "sub"}
           THEN Now(t, thread[t].then, "idle", thread[t].item, "null", FALSE, thread[t].first)
           ELSE Now(t, thread[t].then, "idle", "null", "null", FALSE, 0)
<1>1. CASE thread[t].then \in {"fill", "sub"}
  <2> DEFINE pc == thread[t].then
             r == [pc |-> pc, then |-> "idle", item |-> thread[t].item, prev |-> "null",
                   ready |-> FALSE, first |-> thread[t].first]
  <2>1. thread' = [thread EXCEPT ![t] = r]
    BY <1>1 DEF Return, Resting
  <2>2. r \in Local
    BY DEF Local, Pcs, SenderPcs
  <2> QED
    BY <1>1, <2>1, <2>2 DEF Now
<1>2. CASE thread[t].then \notin {"fill", "sub"}
  <2>1. Rest(t, thread[t].then) /\ thread[t].then \in Pcs
    BY <1>2 DEF Return, Local
  <2> QED
    BY <1>2, <2>1, RestNow
<1> QED
  BY <1>1, <1>2

(* It is enough to look at the thread that moves. *)
LEMMA MovesOK ==
    ASSUME ThreadsOK, NEW t \in Threads, NEW pc, NEW then, NEW item, NEW prev, NEW ready,
           NEW first, Now(t, pc, then, item, prev, ready, first),
           t \in Senders => SenderOK(t, thread'[t]),
           t = "poller" => PollerOK(thread'[t])
    PROVE  ThreadsOK'
  BY DEF Now, ThreadsOK, Threads

-----------------------------------------------------------------------------
(* t leaves set_readiness or enqueue_node for the place in then. *)
Leaves(t) ==
    /\ thread[t].then \in {"fill", "sub", "drain", "pop_again", "idle"}
    /\ LET kept == thread[t].then \in {"fill", "sub"}
       IN  Now(t, thread[t].then, "idle", IF kept THEN thread[t].item ELSE "null", "null", FALSE,
               IF kept THEN thread[t].first ELSE 0)

(* What a thread pushes, and where it goes on afterwards. *)
LEMMA PushFacts ==
    ASSUME Basic, NEW t \in Threads, thread[t].pc \in PushPcs
    PROVE  /\ t \in Senders => thread[t].item \in Channels /\ thread[t].then = "idle"
           /\ t = "poller" =>
                \/ thread[t].item \in Channels /\ thread[t].then \in {"fill", "sub", "drain"}
                \/ /\ thread[t].item = "end" /\ thread[t].then = "pop_again"
                   /\ thread[t].pc \in {"enqueue", "link"}
           /\ thread[t].item \in Items
           /\ thread[t].pc \in {"set", "wakeup"} => thread[t].item \in Channels
           /\ thread[t].item # "end" => thread[t].item \in Channels
  BY ReadinessAssumption DEF Basic, ThreadsOK, SenderOK, PollerOK, Threads, Items, Markers, PushPcs

LEMMA LeavesOK ==
    ASSUME Basic, NEW t \in Threads, thread[t].pc \in {"set", "link", "wakeup"}, Return(t)
    PROVE  ThreadsOK' /\ Leaves(t)
<1>1. thread \in [Threads -> Local] /\ thread[t].pc \in PushPcs
  BY DEF Basic, ThreadsOK, PushPcs
<1>2. Leaves(t)
  BY <1>1, PushFacts, ReturnNow DEF Leaves, Threads
<1>3. ThreadsOK
  BY DEF Basic
<1>4. t \in Senders => SenderOK(t, thread'[t])
  BY <1>1, <1>2, PushFacts DEF Leaves, Now, SenderOK, SenderPcs, PushPcs
<1>5. t = "poller" => PollerOK(thread'[t])
  BY <1>1, <1>2, PushFacts DEF Leaves, Now, PollerOK, PollerPcs, PushPcs, NodePcs
<1> QED
  BY <1>2, <1>3, <1>4, <1>5, MovesOK DEF Leaves

(* Where each step of a push leads, for any thread. *)
LEMMA SetReadinessNow ==
    ASSUME Basic, NEW t \in Threads, SetReadiness(t)
    PROVE  /\ ThreadsOK' /\ Item(t) \in Channels
           /\ LET c == Item(t)
                  new == Announced(node[c], [node[c] EXCEPT !.readiness = thread[t].ready])
              IN  IF MustEnqueue(node[c], new)
                  THEN Now(t, "enqueue", thread[t].then, c, thread[t].prev, thread[t].ready,
                           thread[t].first)
                  ELSE Leaves(t)
<1> DEFINE c == Item(t)
           must == MustEnqueue(node[c], Announced(node[c], [node[c] EXCEPT !.readiness = thread[t].ready]))
<1>1. /\ thread \in [Threads -> Local] /\ thread[t].pc = "set" /\ thread[t].pc \in PushPcs
      /\ thread[t].then \in Pcs /\ ThreadsOK
  BY DEF Basic, ThreadsOK, PushPcs, SetReadiness, At, Local
<1>2. c \in Channels /\ c \in Items /\ c = thread[t].item
  BY <1>1, PushFacts DEF Item
<1>3. IF must THEN EnqueueAndThen(t, c, thread[t].then) ELSE Return(t)
  BY DEF SetReadiness
<1> HIDE DEF must
<1>4. CASE must
  <2>1. Now(t, "enqueue", thread[t].then, c, thread[t].prev, thread[t].ready, thread[t].first)
    BY <1>1, <1>2, <1>3, <1>4, EnqueueNow
  <2>2. t \in Senders => SenderOK(t, thread'[t])
    BY <1>1, <1>2, <2>1, PushFacts DEF Now, SenderOK, SenderPcs, PushPcs, ThreadsOK
  <2>3. t = "poller" => PollerOK(thread'[t])
    BY <1>1, <1>2, <2>1, PushFacts DEF Now, PollerOK, PollerPcs, PushPcs, NodePcs
  <2>4. ThreadsOK'
    BY <1>1, <2>1, <2>2, <2>3, MovesOK
  <2> QED
    BY <1>2, <1>4, <2>1, <2>4 DEF must
<1>5. CASE ~must
  <2>1. Return(t)
    BY <1>3, <1>5
  <2>2. ThreadsOK' /\ Leaves(t)
    BY <1>1, <2>1, LeavesOK
  <2> QED
    BY <1>2, <1>5, <2>2 DEF must
<1> QED
  BY <1>4, <1>5

LEMMA EnqueueStepNow ==
    ASSUME Basic, NEW t \in Threads, Enqueue(t)
    PROVE  /\ ThreadsOK' /\ Item(t) \in Items
           /\ Now(t, "link", thread[t].then, thread[t].item, head, thread[t].ready, thread[t].first)
<1>1. /\ thread \in [Threads -> Local] /\ thread[t].pc = "enqueue" /\ thread[t].pc \in PushPcs
      /\ ThreadsOK /\ head \in Items /\ thread[t] \in Local
  BY DEF Basic, ThreadsOK, DataType, PushPcs, Enqueue, At
<1>2. thread' = [thread EXCEPT ![t].pc = "link", ![t].prev = head]
  BY DEF Enqueue
<1>3. "link" \in Pcs
  BY DEF Pcs, SenderPcs, PushPcs
<1>4. Now(t, "link", thread[t].then, thread[t].item, head, thread[t].ready, thread[t].first)
  BY <1>1, <1>2, <1>3 DEF Now, Local
<1>5. t \in Senders => SenderOK(t, thread'[t])
  BY <1>1, <1>4, PushFacts DEF Now, SenderOK, SenderPcs, PushPcs, ThreadsOK
<1>6. t = "poller" => PollerOK(thread'[t])
  BY <1>1, <1>4, PushFacts DEF Now, PollerOK, PollerPcs, PushPcs, NodePcs
<1> QED
  BY <1>1, <1>4, <1>5, <1>6, PushFacts, MovesOK DEF Item

LEMMA LinkNow ==
    ASSUME Basic, NEW t \in Threads, Link(t)
    PROVE  /\ ThreadsOK'
           /\ IF NeedsWakeup(t)
              THEN Now(t, "wakeup", thread[t].then, thread[t].item, thread[t].prev, thread[t].ready,
                       thread[t].first)
              ELSE Leaves(t)
<1>1. /\ thread \in [Threads -> Local] /\ thread[t].pc = "link" /\ thread[t].pc \in PushPcs
      /\ ThreadsOK /\ "wakeup" \in Pcs
  BY DEF Basic, ThreadsOK, PushPcs, Link, At, Pcs, SenderPcs
<1>2. IF NeedsWakeup(t) THEN Goto(t, "wakeup") ELSE Return(t)
  BY DEF Link
<1>3. CASE NeedsWakeup(t)
  <2>1. Now(t, "wakeup", thread[t].then, thread[t].item, thread[t].prev, thread[t].ready,
            thread[t].first)
    BY <1>1, <1>2, <1>3, GotoNow
  <2>2. t \in Senders => SenderOK(t, thread'[t])
    BY <1>1, <2>1, PushFacts DEF Now, SenderOK, SenderPcs, PushPcs, ThreadsOK
  <2>3. t = "poller" => PollerOK(thread'[t])
    BY <1>1, <1>3, <2>1, PushFacts DEF Now, PollerOK, PollerPcs, PushPcs, NodePcs, NeedsWakeup, Item
  <2> QED
    BY <1>1, <1>3, <2>1, <2>2, <2>3, MovesOK
<1>4. CASE ~NeedsWakeup(t)
  BY <1>1, <1>2, <1>4, LeavesOK
<1> QED
  BY <1>3, <1>4

LEMMA WakeupNow ==
    ASSUME Basic, NEW t \in Threads, Wakeup(t)
    PROVE  ThreadsOK' /\ Leaves(t)
<1>1. thread[t].pc = "wakeup" /\ Return(t)
  BY DEF Wakeup, At
<1> QED
  BY <1>1, LeavesOK

-----------------------------------------------------------------------------
(* The senders. *)

LEMMA SendNow ==
    ASSUME Basic, NEW s \in Senders, Goto(s, "inc"), At(s, "idle")
    PROVE  /\ ThreadsOK'
           /\ Now(s, "inc", thread[s].then, thread[s].item, thread[s].prev, thread[s].ready,
                  thread[s].first)
<1>1. /\ thread \in [Threads -> Local] /\ s \in Threads /\ ThreadsOK /\ "inc" \in Pcs
      /\ s # "poller" /\ SenderOK(s, thread[s])
  BY ReadinessAssumption DEF Basic, ThreadsOK, Pcs, SenderPcs, Threads
<1>2. Now(s, "inc", thread[s].then, thread[s].item, thread[s].prev, thread[s].ready,
          thread[s].first)
  BY <1>1, GotoNow
<1>3. SenderOK(s, thread'[s])
  BY <1>1, <1>2 DEF Now, SenderOK, SenderPcs, PushPcs
<1> QED
  BY <1>1, <1>2, <1>3, MovesOK

LEMMA IncNow ==
    ASSUME Basic, NEW s \in Senders, Inc(s)
    PROVE  /\ ThreadsOK' /\ ChannelOf[s] \in Channels
           /\ IF chan[ChannelOf[s]].pending = 0 /\ chan[ChannelOf[s]].registered = "yes"
              THEN Now(s, "set", "idle", ChannelOf[s], thread[s].prev, TRUE, thread[s].first)
              ELSE Now(s, "idle", "idle", "null", "null", FALSE, 0)
<1>1. /\ thread \in [Threads -> Local] /\ s \in Threads /\ ThreadsOK /\ "idle" \in Pcs
      /\ s # "poller" /\ SenderOK(s, thread[s]) /\ ChannelOf[s] \in Channels
  BY ReadinessAssumption DEF Basic, ThreadsOK, Pcs, SenderPcs, Threads
<1> DEFINE c == ChannelOf[s]
           announce == chan[c].pending = 0 /\ chan[c].registered = "yes"
<1>2. IF announce THEN SetAndThen(s, c, TRUE, "idle") ELSE Rest(s, "idle")
  BY DEF Inc
<1> HIDE DEF announce
<1>3. CASE announce
  <2>1. Now(s, "set", "idle", c, thread[s].prev, TRUE, thread[s].first)
    BY <1>1, <1>2, <1>3, SetNow
  <2>2. SenderOK(s, thread'[s])
    BY <2>1 DEF Now, SenderOK, SenderPcs, PushPcs
  <2> QED
    BY <1>1, <1>3, <2>1, <2>2, MovesOK DEF announce
<1>4. CASE ~announce
  <2>1. Now(s, "idle", "idle", "null", "null", FALSE, 0)
    BY <1>1, <1>2, <1>4, RestNow
  <2>2. SenderOK(s, thread'[s])
    BY <2>1 DEF Now, SenderOK, SenderPcs, PushPcs
  <2> QED
    BY <1>1, <1>4, <2>1, <2>2, MovesOK DEF announce
<1> QED
  BY <1>3, <1>4

-----------------------------------------------------------------------------
(* The poller. *)

FreePcs == PollerPcs \ (PushPcs \cup NodePcs)

PollerAt(pc) ==
    Now("poller", pc, thread["poller"].then, thread["poller"].item, thread["poller"].prev,
        thread["poller"].ready, thread["poller"].first)

PollerRests(pc) == Now("poller", pc, "idle", "null", "null", FALSE, 0)

(* What is known of the poller at any time. *)
LEMMA PollerFacts ==
    ASSUME Basic
    PROVE  /\ thread \in [Threads -> Local] /\ "poller" \in Threads /\ ThreadsOK
           /\ "poller" \notin Senders /\ PollerOK(thread["poller"]) /\ thread["poller"] \in Local
           /\ PollerPcs \subseteq Pcs /\ Channels \subseteq Items
  BY ReadinessAssumption DEF Basic, ThreadsOK, Threads, Pcs, Items

(* The poller goes on with its locals, or without them. *)
LEMMA PollerGoto ==
    ASSUME Basic, NEW pc \in PollerPcs, Goto("poller", pc),
           pc \notin PushPcs, pc \in NodePcs => thread["poller"].item \in Channels
    PROVE  ThreadsOK' /\ PollerAt(pc)
<1>1. PollerAt(pc)
  BY PollerFacts, GotoNow DEF PollerAt
<1>2. PollerOK(thread'["poller"])
  BY <1>1 DEF PollerAt, Now, PollerOK, PushPcs
<1> QED
  BY <1>1, <1>2, PollerFacts, MovesOK DEF PollerAt

LEMMA PollerRest ==
    ASSUME Basic, NEW pc \in FreePcs, Rest("poller", pc)
    PROVE  ThreadsOK' /\ PollerRests(pc)
<1>1. PollerRests(pc)
  BY PollerFacts, RestNow DEF PollerRests, FreePcs
<1>2. PollerOK(thread'["poller"])
  BY <1>1 DEF PollerRests, Now, PollerOK, PushPcs, NodePcs, FreePcs
<1> QED
  BY <1>1, <1>2, PollerFacts, MovesOK DEF PollerRests

(* The poller turns to a channel. *)
LEMMA PollerTakes ==
    ASSUME Basic, NEW pc \in NodePcs, NEW c \in Channels,
           thread' = [thread EXCEPT !["poller"].pc = pc, !["poller"].item = c]
    PROVE  /\ ThreadsOK'
           /\ Now("poller", pc, thread["poller"].then, c, thread["poller"].prev,
                  thread["poller"].ready, thread["poller"].first)
<1>1. pc \in Pcs /\ c \in Items
  BY DEF Items, Pcs, PollerPcs
<1>2. Now("poller", pc, thread["poller"].then, c, thread["poller"].prev,
          thread["poller"].ready, thread["poller"].first)
  BY <1>1, PollerFacts DEF Now, Local
<1>3. PollerOK(thread'["poller"])
  BY <1>2 DEF Now, PollerOK, PushPcs, NodePcs, PollerPcs
<1> QED
  BY <1>2, <1>3, PollerFacts, MovesOK

(* The poller sets a readiness, or pushes an item. *)
LEMMA PollerSets ==
    ASSUME Basic, NEW c \in Channels, NEW then \in {"fill", "drain"},
           SetAndThen("poller", c, TRUE, then)
    PROVE  /\ ThreadsOK'
           /\ Now("poller", "set", then, c, thread["poller"].prev, TRUE, thread["poller"].first)
<1>1. then \in Pcs
  BY DEF Pcs, PollerPcs, NodePcs
<1>2. Now("poller", "set", then, c, thread["poller"].prev, TRUE, thread["poller"].first)
  BY <1>1, PollerFacts, SetNow
<1>3. PollerOK(thread'["poller"])
  BY <1>2 DEF Now, PollerOK, PushPcs, NodePcs, PollerPcs
<1> QED
  BY <1>2, <1>3, PollerFacts, MovesOK

LEMMA PollerPushes ==
    ASSUME Basic, NEW i, NEW then, EnqueueAndThen("poller", i, then),
           (i \in Channels /\ then = "drain") \/ (i = "end" /\ then = "pop_again")
    PROVE  /\ ThreadsOK'
           /\ Now("poller", "enqueue", then, i, thread["poller"].prev, thread["poller"].ready,
                  thread["poller"].first)
<1>1. then \in Pcs /\ i \in Items
  BY DEF Pcs, PollerPcs, Items, Markers
<1>2. Now("poller", "enqueue", then, i, thread["poller"].prev, thread["poller"].ready,
          thread["poller"].first)
  BY <1>1, PollerFacts, EnqueueNow
<1>3. PollerOK(thread'["poller"])
  BY <1>2 DEF Now, PollerOK, PushPcs, NodePcs, PollerPcs
<1> QED
  BY <1>2, <1>3, PollerFacts, MovesOK

LEMMA AtNode ==
    ASSUME Basic, thread["poller"].pc \in NodePcs
    PROVE  Item("poller") \in Channels /\ thread["poller"].item \in Channels
  BY DEF Basic, ThreadsOK, PollerOK, Item

(* Where each step of the poller leads. *)

LEMMA RegisterNow ==
    ASSUME Basic, Register
    PROVE  /\ ThreadsOK'
           /\ IF todo = {} THEN PollerAt("prepare")
              ELSE \E c \in todo :
                    /\ node' = [node EXCEPT ![c].interest = TRUE] /\ todo' = todo \ {c}
                    /\ Now("poller", "look", thread["poller"].then, c, thread["poller"].prev,
                           thread["poller"].ready, thread["poller"].first)
<1>0. "prepare" \in PollerPcs /\ "prepare" \notin PushPcs /\ "prepare" \notin NodePcs
  BY DEF PollerPcs, PushPcs, NodePcs
<1>1. CASE todo = {}
  <2>1. Goto("poller", "prepare")
    BY <1>1 DEF Register
  <2> QED
    BY <1>0, <1>1, <2>1, PollerGoto
<1>2. CASE todo # {}
  <2>1. PICK c \in todo : /\ node' = [node EXCEPT ![c].interest = TRUE] /\ todo' = todo \ {c}
                          /\ thread' = [thread EXCEPT !["poller"].pc = "look", !["poller"].item = c]
    BY <1>2 DEF Register
  <2>2. c \in Channels /\ "look" \in NodePcs
    BY DEF Basic, DataType, NodePcs
  <2>3. ThreadsOK' /\ Now("poller", "look", thread["poller"].then, c, thread["poller"].prev,
                           thread["poller"].ready, thread["poller"].first)
    BY <2>1, <2>2, PollerTakes
  <2> QED
    BY <1>2, <2>1, <2>3
<1> QED
  BY <1>1, <1>2

LEMMA LookNow ==
    ASSUME Basic, Look
    PROVE  /\ ThreadsOK' /\ Item("poller") \in Channels
           /\ IF chan[Item("poller")].pending > 0
              THEN Now("poller", "set", "fill", Item("poller"), thread["poller"].prev, TRUE,
                       thread["poller"].first)
              ELSE PollerAt("fill")
<1> DEFINE c == Item("poller")
<1>1. thread["poller"].pc \in NodePcs /\ "fill" \in PollerPcs /\ "fill" \notin PushPcs
  BY DEF Look, Poller, At, NodePcs, PollerPcs, PushPcs
<1>2. c \in Channels /\ thread["poller"].item \in Channels
  BY <1>1, AtNode
<1>3. IF chan[c].pending > 0 THEN SetAndThen("poller", c, TRUE, "fill") ELSE Goto("poller", "fill")
  BY DEF Look
<1> HIDE DEF c
<1> QED
  BY <1>1, <1>2, <1>3, PollerGoto, PollerSets DEF c

LEMMA FillNow ==
    ASSUME Basic, Fill
    PROVE  ThreadsOK' /\ Item("poller") \in Channels /\ PollerRests("register")
<1>1. thread["poller"].pc \in NodePcs /\ "register" \in FreePcs /\ Rest("poller", "register")
  BY DEF Fill, Poller, At, FreePcs, NodePcs, PollerPcs, PushPcs
<1> QED
  BY <1>1, AtNode, PollerRest

LEMMA prepare_for_sleepNow ==
    ASSUME Basic, prepare_for_sleep
    PROVE  /\ ThreadsOK'
           /\ PollerAt(IF (tail = "end" /\ head = "end") \/ (tail = "sleep" /\ head = "sleep")
                       THEN "block" ELSE "select")
<1> DEFINE pc == IF (tail = "end" /\ head = "end") \/ (tail = "sleep" /\ head = "sleep")
                 THEN "block" ELSE "select"
<1>1. pc \in PollerPcs /\ pc \notin PushPcs /\ pc \notin NodePcs
  BY DEF NodePcs, PollerPcs, PushPcs
<1>2. Goto("poller", pc)
  BY DEF prepare_for_sleep
<1> HIDE DEF pc
<1> QED
  BY <1>1, <1>2, PollerGoto DEF pc

LEMMA PollingNow ==
    ASSUME Basic, Select \/ Cleanup \/ OtherEvent \/ ZeroTimeout
    PROVE  /\ ThreadsOK'
           /\ \/ Select /\ PollerAt(IF awake THEN "cleanup" ELSE "poll")
              \/ (Cleanup \/ OtherEvent) /\ PollerAt("poll")
              \/ ZeroTimeout /\ PollerAt("select")
<1>1. \A pc \in {"cleanup", "poll", "select"} : pc \in PollerPcs /\ pc \notin PushPcs /\ pc \notin NodePcs
  BY DEF NodePcs, PollerPcs, PushPcs
<1>2. CASE Select
  <2> DEFINE pc == IF awake THEN "cleanup" ELSE "poll"
  <2>1. Goto("poller", pc) /\ pc \in {"cleanup", "poll", "select"}
    BY <1>2 DEF Select
  <2> HIDE DEF pc
  <2> QED
    BY <1>1, <1>2, <2>1, PollerGoto DEF pc
<1>3. CASE Cleanup \/ OtherEvent
  <2>1. Goto("poller", "poll")
    BY <1>3 DEF Cleanup, OtherEvent
  <2> QED
    BY <1>1, <1>3, <2>1, PollerGoto
<1>4. CASE ZeroTimeout
  <2>1. Goto("poller", "select")
    BY <1>4 DEF ZeroTimeout
  <2> QED
    BY <1>1, <1>4, <2>1, PollerGoto
<1> QED
  BY <1>2, <1>3, <1>4

LEMMA SkipMarkerNow ==
    ASSUME Basic, SkipMarker
    PROVE  ThreadsOK' /\ PollerAt(IF next[tail] = "null" THEN "clear" ELSE "pop")
<1> DEFINE pc == IF next[tail] = "null" THEN "clear" ELSE "pop"
<1>1. pc \in PollerPcs /\ pc \notin PushPcs /\ pc \notin NodePcs
  BY DEF NodePcs, PollerPcs, PushPcs
<1>2. Goto("poller", pc)
  BY DEF SkipMarker
<1> HIDE DEF pc
<1> QED
  BY <1>1, <1>2, PollerGoto DEF pc

LEMMA ToDrainNow ==
    ASSUME Basic, ClearSleepMarker \/ StopPolling
    PROVE  ThreadsOK' /\ PollerAt("drain")
<1>1. "drain" \in PollerPcs /\ "drain" \notin PushPcs /\ "drain" \notin NodePcs
  BY DEF NodePcs, PollerPcs, PushPcs
<1>2. Goto("poller", "drain")
  BY DEF ClearSleepMarker, StopPolling, Goto
<1> QED
  BY <1>1, <1>2, PollerGoto

LEMMA NextPollNow ==
    ASSUME Basic, NextPoll
    PROVE  ThreadsOK' /\ PollerAt("prepare")
<1>1. "prepare" \in PollerPcs /\ "prepare" \notin PushPcs /\ "prepare" \notin NodePcs
  BY DEF NodePcs, PollerPcs, PushPcs
<1>2. Goto("poller", "prepare")
  BY DEF NextPoll
<1> QED
  BY <1>1, <1>2, PollerGoto

(* The item popped is a node when no marker is at the tail. *)
LEMMA PopNow ==
    ASSUME Basic, NEW pc, NEW otherwise \in {"check", "stop"}, Pop(pc, otherwise), tail \in Channels
    PROVE  /\ ThreadsOK'
           /\ IF next[tail] = "null" THEN PollerAt(otherwise)
              ELSE Now("poller", "process", thread["poller"].then, tail, thread["poller"].prev,
                       thread["poller"].ready, thread["poller"].first)
<1>1. otherwise \in PollerPcs /\ otherwise \notin PushPcs /\ otherwise \notin NodePcs
  BY DEF NodePcs, PollerPcs, PushPcs
<1>2. "process" \in NodePcs
  BY DEF NodePcs
<1>3. CASE next[tail] = "null"
  <2>1. Goto("poller", otherwise)
    BY <1>3 DEF Pop
  <2> QED
    BY <1>1, <1>3, <2>1, PollerGoto
<1>4. CASE next[tail] # "null"
  <2>1. thread' = [thread EXCEPT !["poller"].pc = "process", !["poller"].item = tail]
    BY <1>4 DEF Pop
  <2> QED
    BY <1>2, <1>4, <2>1, PollerTakes
<1> QED
  BY <1>3, <1>4

LEMMA CheckHeadNow ==
    ASSUME Basic, CheckHead
    PROVE  /\ ThreadsOK'
           /\ IF head = tail
              THEN Now("poller", "enqueue", "pop_again", "end", thread["poller"].prev,
                       thread["poller"].ready, thread["poller"].first)
              ELSE PollerAt("stop")
<1>1. "stop" \in PollerPcs /\ "stop" \notin PushPcs /\ "stop" \notin NodePcs
  BY DEF NodePcs, PollerPcs, PushPcs
<1>2. IF head = tail THEN EnqueueAndThen("poller", "end", "pop_again") ELSE Goto("poller", "stop")
  BY DEF CheckHead
<1> QED
  BY <1>1, <1>2, PollerGoto, PollerPushes

LEMMA ProcessNow ==
    ASSUME Basic, Process
    PROVE  ThreadsOK' /\ Item("poller") \in Channels /\ PollerRests("poll")
<1>1. thread["poller"].pc \in NodePcs /\ "poll" \in FreePcs /\ Rest("poller", "poll")
  BY DEF Process, Poller, At, FreePcs, NodePcs, PollerPcs, PushPcs
<1> QED
  BY <1>1, AtNode, PollerRest

LEMMA DrainNow ==
    ASSUME Basic, NEW c \in Channels, NEW pc \in {"load", "update"},
           thread' = [thread EXCEPT !["poller"].pc = pc, !["poller"].item = c]
    PROVE  /\ ThreadsOK'
           /\ Now("poller", pc, thread["poller"].then, c, thread["poller"].prev,
                  thread["poller"].ready, thread["poller"].first)
<1>1. pc \in NodePcs
  BY DEF NodePcs
<1> QED
  BY <1>1, PollerTakes

LEMMA DecLoadNow ==
    ASSUME Basic, DecLoad
    PROVE  /\ ThreadsOK' /\ Item("poller") \in Channels
           /\ Now("poller", IF chan[Item("poller")].pending = 1 THEN "set" ELSE "sub", "sub",
                  thread["poller"].item, thread["poller"].prev, FALSE, chan[Item("poller")].pending)
<1> DEFINE first == chan[Item("poller")].pending
           pc == IF first = 1 THEN "set" ELSE "sub"
<1>1. thread["poller"].pc \in NodePcs
  BY DEF DecLoad, Poller, At, NodePcs
<1>2. Item("poller") \in Channels /\ thread["poller"].item \in Channels
  BY <1>1, AtNode
<1>3. first \in Int
  BY <1>2, ReadinessAssumption DEF Basic, DataType
<1>4. pc \in Pcs /\ "sub" \in Pcs /\ FALSE \in BOOLEAN
  BY DEF Pcs, PollerPcs, PushPcs, NodePcs
<1>5. thread' = [thread EXCEPT !["poller"].first = first, !["poller"].then = "sub",
                               !["poller"].ready = FALSE, !["poller"].pc = pc]
  BY DEF DecLoad
<1>6. (pc = "set" /\ first = 1) \/ pc = "sub"
  OBVIOUS
<1> HIDE DEF first, pc
<1>7. Now("poller", pc, "sub", thread["poller"].item, thread["poller"].prev, FALSE, first)
  BY <1>3, <1>4, <1>5, PollerFacts DEF Now, Local
<1>8. PollerOK(thread'["poller"])
  BY <1>2, <1>6, <1>7 DEF Now, PollerOK, PushPcs, NodePcs, PollerPcs
<1>9. ThreadsOK'
  BY <1>7, <1>8, PollerFacts, MovesOK
<1> QED
  BY <1>2, <1>7, <1>9 DEF first, pc

LEMMA DecSubNow ==
    ASSUME Basic, DecSub
    PROVE  /\ ThreadsOK' /\ Item("poller") \in Channels
           /\ IF SetAgain(thread["poller"].first, chan[Item("poller")].pending)
              THEN Now("poller", "set", "drain", Item("poller"), thread["poller"].prev, TRUE,
                       thread["poller"].first)
              ELSE PollerRests("drain")
<1> DEFINE c == Item("poller")
<1>1. thread["poller"].pc \in NodePcs /\ "drain" \in FreePcs
  BY DEF DecSub, Poller, At, NodePcs, PollerPcs, PushPcs, FreePcs
<1>2. c \in Channels
  BY <1>1, AtNode
<1>3. IF SetAgain(thread["poller"].first, chan[c].pending)
      THEN SetAndThen("poller", c, TRUE, "drain") ELSE Rest("poller", "drain")
  BY DEF DecSub
<1> HIDE DEF c
<1> QED
  BY <1>1, <1>2, <1>3, PollerSets, PollerRest DEF c

LEMMA ReregisterNow ==
    ASSUME Basic, Reregister
    PROVE  /\ ThreadsOK' /\ Item("poller") \in Channels
           /\ IF MustEnqueue(node[Item("poller")], Rearmed(node[Item("poller")]))
              THEN Now("poller", "enqueue", "drain", Item("poller"), thread["poller"].prev,
                       thread["poller"].ready, thread["poller"].first)
              ELSE PollerRests("drain")
<1> DEFINE c == Item("poller")
<1>1. thread["poller"].pc \in NodePcs /\ "drain" \in FreePcs
  BY DEF Reregister, Poller, At, NodePcs, PollerPcs, PushPcs, FreePcs
<1>2. c \in Channels
  BY <1>1, AtNode
<1>3. IF MustEnqueue(node[c], Rearmed(node[c])) THEN EnqueueAndThen("poller", c, "drain")
      ELSE Rest("poller", "drain")
  BY DEF Reregister
<1> HIDE DEF c
<1> QED
  BY <1>1, <1>2, <1>3, PollerPushes, PollerRest DEF c

-----------------------------------------------------------------------------
(* Types hold in every state. *)

ChanType == [messages : Nat, pending : 0 .. WordSize - 1, registered : {"no", "looked", "yes"},
             unannounced : BOOLEAN]
NodeType == [readiness : BOOLEAN, interest : BOOLEAN, queued : BOOLEAN]

(* The assumptions on the constants, in the form the steps need. *)
LEMMA Constants ==
    /\ MaxSends \in [Senders -> Nat] /\ ChannelOf \in [Senders -> Channels]
    /\ "poller" \notin Senders
  BY ReadinessAssumption

LEMMA SendsBounded ==
    ASSUME Basic, NEW s \in Senders, NEW n \in Int, n >= -1, n <= sends[s],
           sends' = [sends EXCEPT ![s] = n]
    PROVE  /\ sends' \in [Senders -> Int]
           /\ \A x \in Senders : sends'[x] >= -1 /\ sends'[x] <= MaxSends[x]
<1>1. sends \in [Senders -> Int] /\ \A x \in Senders : sends[x] >= -1 /\ sends[x] <= MaxSends[x]
  BY DEF Basic, DataType
<1>2. \A x \in Senders : MaxSends[x] \in Nat
  BY Constants
<1> QED
  BY <1>1, <1>2

(* A counter stays within its word. *)
LEMMA Wraps == \A x \in Int : x % WordSize \in 0 .. WordSize - 1
<1>1. WordSize \in Nat \ {0}
  BY ReadinessAssumption
<1> QED
  BY <1>1

(* The steps that write no data but one record of chan or of node. *)
LEMMA SendersData ==
    ASSUME Basic, NEW s \in Senders, Send(s) \/ Inc(s) \/ DropSender(s)
    PROVE  DataType'
<1>1. ChannelOf[s] \in Channels /\ chan[ChannelOf[s]] \in ChanType /\ s \in Threads
  BY ReadinessAssumption DEF Basic, DataType, ChanType, Threads
<1>2. CASE Send(s)
  <2> DEFINE c == ChannelOf[s]
             r == [chan[c] EXCEPT !.messages = chan[c].messages + 1]
  <2>1. chan' = [chan EXCEPT ![c] = r] /\ sends' = [sends EXCEPT ![s] = sends[s] - 1] /\ sends[s] > 0
    BY <1>2 DEF Send
  <2>2. r \in ChanType
    BY <1>1 DEF ChanType
  <2> HIDE DEF r
  <2>3. chan' \in [Channels -> ChanType]
    BY <1>1, <2>1, <2>2 DEF Basic, DataType, ChanType
  <2>4. sends' \in [Senders -> Int] /\ \A x \in Senders : sends'[x] >= -1 /\ sends'[x] <= MaxSends[x]
    <3>1. PICK n \in Int : n = sends[s] - 1
      BY DEF Basic, DataType
    <3>2. n >= -1 /\ n <= sends[s] /\ sends' = [sends EXCEPT ![s] = n]
      BY <2>1, <3>1 DEF Basic, DataType
    <3> QED
      BY <3>2, SendsBounded
  <2> QED
    BY <1>2, <2>3, <2>4 DEF Send, Basic, DataType, ChanType
<1>3. CASE DropSender(s)
  <2>1. sends' = [sends EXCEPT ![s] = -1] /\ sends[s] >= 0
    BY <1>3 DEF DropSender
  <2>2. sends' \in [Senders -> Int] /\ \A x \in Senders : sends'[x] >= -1 /\ sends'[x] <= MaxSends[x]
    <3>1. PICK n \in Int : n = -1
      OBVIOUS
    <3>2. n >= -1 /\ n <= sends[s] /\ sends' = [sends EXCEPT ![s] = n]
      BY <2>1, <3>1 DEF Basic, DataType
    <3> QED
      BY <3>2, SendsBounded
  <2> QED
    BY <1>3, <2>2 DEF DropSender, Basic, DataType
<1>4. CASE Inc(s)
  <2> DEFINE c == ChannelOf[s]
             first == chan[c].pending = 0
             r == [chan[c] EXCEPT !.pending = (chan[c].pending + 1) % WordSize,
                                  !.unannounced = chan[c].unannounced \/ (first /\ chan[c].registered = "looked")]
  <2>1. chan' = [chan EXCEPT ![c] = r]
    BY <1>4 DEF Inc
  <2>2. (chan[c].pending + 1) % WordSize \in 0 .. WordSize - 1
    BY <1>1, Wraps DEF ChanType
  <2>3. r \in ChanType
    BY <1>1, <2>2 DEF ChanType
  <2> HIDE DEF r
  <2> QED
    BY <1>1, <1>4, <2>1, <2>3 DEF Inc, Basic, DataType, ChanType
<1> QED
  BY <1>2, <1>3, <1>4

(* The other variables keep their types, group by group. *)
LEMMA SharedData ==
    ASSUME Basic, NEW t \in Threads, Shared(t)
    PROVE  DataType'
<1>1. CASE SetReadiness(t)
  <2> DEFINE c == Item(t)
             new == Announced(node[c], [node[c] EXCEPT !.readiness = thread[t].ready])
  <2>1. c \in Channels
    BY <1>1, SetReadinessNow
  <2>2. node' = [node EXCEPT ![c] = new]
    BY <1>1 DEF SetReadiness
  <2>3. node[c] \in NodeType /\ thread[t].ready \in BOOLEAN
    BY <2>1 DEF NodeType, Basic, DataType, ThreadsOK, Local
  <2>4. new \in NodeType
    BY <2>3 DEF NodeType, Announced, Effective
  <2> HIDE DEF new, c
  <2>5. node' \in [Channels -> NodeType]
    BY <2>1, <2>2, <2>4 DEF Basic, DataType, NodeType
  <2> QED
    BY <1>1, <2>5 DEF SetReadiness, Basic, DataType, NodeType
<1>2. CASE Enqueue(t)
  <2>1. Item(t) \in Items
    BY <1>2, EnqueueStepNow
  <2> QED
    BY <1>2, <2>1 DEF Enqueue, Basic, DataType
<1>3. CASE Link(t)
  <2>1. thread[t].pc \in PushPcs
    BY <1>3 DEF Link, At, PushPcs
  <2>2. Item(t) \in Items
    BY <2>1, PushFacts DEF Item
  <2> QED
    BY <1>3, <2>2 DEF Link, Basic, DataType
<1>4. CASE Wakeup(t)
  BY <1>4 DEF Wakeup, Basic, DataType
<1> QED
  BY <1>1, <1>2, <1>3, <1>4 DEF Shared

LEMMA QueueData ==
    ASSUME Basic,
           \/ prepare_for_sleep \/ Select \/ Cleanup \/ OtherEvent \/ ZeroTimeout \/ SkipMarker
           \/ ClearSleepMarker \/ PopFirst \/ PopSecond \/ CheckHead \/ StopPolling
    PROVE  DataType'
<1>1. "end" \in Items /\ "sleep" \in Items /\ next[tail] \in Items \cup {"null"}
  BY DEF Items, Markers, Basic, DataType
<1>2. CASE prepare_for_sleep
  BY <1>1, <1>2 DEF prepare_for_sleep, Basic, DataType
<1>3. CASE Select \/ Cleanup \/ OtherEvent \/ ZeroTimeout \/ CheckHead \/ StopPolling
  BY <1>3 DEF Select, Cleanup, OtherEvent, ZeroTimeout, CheckHead, StopPolling, Basic, DataType
<1>4. CASE SkipMarker
  BY <1>4 DEF SkipMarker, Basic, DataType
<1>5. CASE ClearSleepMarker
  BY <1>1, <1>5 DEF ClearSleepMarker, Basic, DataType
<1>6. CASE PopFirst \/ PopSecond
  BY <1>6 DEF PopFirst, PopSecond, Pop, Basic, DataType
<1> QED
  BY <1>2, <1>3, <1>4, <1>5, <1>6

LEMMA NodeData ==
    ASSUME Basic, Register \/ Process \/ Reregister
    PROVE  DataType'
<1>1. CASE Register
  <2>1. CASE todo = {}
    BY <1>1, <2>1 DEF Register, Basic, DataType
  <2>2. CASE todo # {}
    <3>1. PICK c \in todo : node' = [node EXCEPT ![c].interest = TRUE] /\ todo' = todo \ {c}
      BY <1>1, <2>2 DEF Register
    <3>2. c \in Channels
      BY DEF Basic, DataType
    <3>3. node' \in [Channels -> NodeType]
      BY <3>1, <3>2 DEF Basic, DataType, NodeType
    <3> QED
      BY <1>1, <3>1, <3>3 DEF Register, Basic, DataType, NodeType
  <2> QED
    BY <2>1, <2>2
<1>2. CASE Process
  <2>1. Item("poller") \in Channels
    BY <1>2, ProcessNow
  <2> DEFINE c == Item("poller")
             n == [node[c] EXCEPT !.queued = FALSE, !.interest = node[c].interest /\ ~Effective(node[c])]
  <2>2. node' = [node EXCEPT ![c] = n]
    BY <1>2 DEF Process
  <2>3. n \in NodeType
    BY <2>1 DEF Basic, DataType, NodeType, Effective
  <2> HIDE DEF n
  <2>4. node' \in [Channels -> NodeType]
    BY <2>1, <2>2, <2>3 DEF Basic, DataType, NodeType
  <2>5. events' \subseteq Channels
    BY <1>2, <2>1 DEF Process, Basic, DataType
  <2> QED
    BY <1>2, <2>4, <2>5 DEF Process, Basic, DataType, NodeType
<1>3. CASE Reregister
  <2>1. Item("poller") \in Channels
    BY <1>3, ReregisterNow
  <2> DEFINE c == Item("poller")
             n == Rearmed(node[c])
  <2>2. node' = [node EXCEPT ![c] = n]
    BY <1>3 DEF Reregister
  <2>3. n \in NodeType
    BY <2>1 DEF Basic, DataType, NodeType, Effective, Rearmed, Announced
  <2> HIDE DEF n
  <2>4. node' \in [Channels -> NodeType]
    BY <2>1, <2>2, <2>3 DEF Basic, DataType, NodeType
  <2> QED
    BY <1>3, <2>4 DEF Reregister, Basic, DataType, NodeType
<1> QED
  BY <1>1, <1>2, <1>3

LEMMA ChanData ==
    ASSUME Basic, Look \/ Fill \/ TryRecv \/ Drained \/ NextPoll \/ DecLoad \/ DecSub
    PROVE  DataType'
<1>1. CASE Look
  BY <1>1, LookNow DEF Look, Basic, DataType, ChanType
<1>2. CASE Fill
  BY <1>2, FillNow DEF Fill, Basic, DataType, ChanType
<1>3. CASE TryRecv
  <2>1. PICK c \in todo : chan[c].messages > 0 /\ chan' = [chan EXCEPT ![c].messages = @ - 1]
    BY <1>3 DEF TryRecv
  <2>2. c \in Channels
    BY DEF Basic, DataType
  <2> DEFINE r == [chan[c] EXCEPT !.messages = @ - 1]
  <2>3. chan \in [Channels -> ChanType] /\ chan' = [chan EXCEPT ![c] = r]
    BY <2>1 DEF Basic, DataType, ChanType
  <2>4. r \in ChanType
    BY <2>1, <2>2, <2>3 DEF ChanType
  <2> HIDE DEF r
  <2>5. chan' \in [Channels -> ChanType]
    BY <2>3, <2>4
  <2> QED
    BY <1>3, <2>5 DEF TryRecv, Basic, DataType, ChanType
<1>4. CASE Drained \/ NextPoll \/ DecLoad
  BY <1>4 DEF Drained, NextPoll, DecLoad, Basic, DataType
<1>5. CASE DecSub
  <2>1. Item("poller") \in Channels
    BY <1>5, DecSubNow
  <2>2. chan[Item("poller")].pending - 1 \in Int
    BY <2>1, ReadinessAssumption DEF Basic, DataType
  <2> QED
    BY <1>5, <2>1, <2>2, Wraps DEF DecSub, Basic, DataType
<1> QED
  BY <1>1, <1>2, <1>3, <1>4, <1>5

(* A stuttering step. *)
LEMMA ThreadsStay == ASSUME ThreadsOK, UNCHANGED thread PROVE ThreadsOK'
  BY DEF ThreadsOK, SenderOK, PollerOK

-----------------------------------------------------------------------------
(* The queue, and the list of its items that a proof can talk about: the   *)
(* n-th item pushed is q[n], and the items lo .. hi have not been popped.  *)

InLine(q, lo, hi, i) == \E n \in lo .. hi : q[n] = i

Line(q, lo, hi) ==
    /\ lo <= hi /\ q[lo] = tail /\ q[hi] = head
    /\ \A m, n \in lo .. hi : q[m] = q[n] => m = n

Links(q, lo, hi) ==
    /\ next[q[hi]] = "null"
    /\ \A n \in lo .. hi - 1 :
            \/ next[q[n]] = q[n + 1]
            \/ /\ next[q[n]] = "null"
               /\ \E t \in Threads : At(t, "link") /\ thread[t].prev = q[n] /\ Item(t) = q[n + 1]
    /\ \A t \in Threads : At(t, "link") =>
            \E n \in lo .. hi - 1 :
                thread[t].prev = q[n] /\ Item(t) = q[n + 1] /\ next[q[n]] = "null"
    /\ \A t, u \in Threads :
            At(t, "link") /\ At(u, "link") /\ thread[t].prev = thread[u].prev => t = u

(* end_marker is only pushed behind nodes. *)
Marks(q, lo, hi) ==
    /\ ~(InLine(q, lo, hi, "end") /\ InLine(q, lo, hi, "sleep"))
    /\ \/ thread["poller"].pc \in {"check", "pop", "pop_again"}
       \/ thread["poller"].pc \in {"enqueue", "link"} /\ Item("poller") = "end"
       => tail \in Channels
    /\ At("poller", "enqueue") /\ Item("poller") = "end" => \A n \in lo .. hi : q[n] \in Channels

Holds(t, c) ==
    /\ At(t, "enqueue") \/ (t = "poller" /\ At(t, "process"))
    /\ Item(t) = c

Flags(q, lo, hi) ==
    \A c \in Channels :
        /\ node[c].queued <=> InLine(q, lo, hi, c) \/ \E t \in Threads : Holds(t, c)
        /\ \A t \in Threads : Holds(t, c) => ~InLine(q, lo, hi, c)
        /\ \A t, u \in Threads : Holds(t, c) /\ Holds(u, c) => t = u

Queue(q, lo, hi) == Line(q, lo, hi) /\ Links(q, lo, hi) /\ Marks(q, lo, hi) /\ Flags(q, lo, hi)

QueueInv == \E q \in [Nat -> Items], lo \in Nat, hi \in Nat : Queue(q, lo, hi)

(* What no thread but t has done. *)
Others(t) == \A u \in Threads : u # t => thread'[u] = thread[u]

SameQueued == \A c \in Channels : node'[c].queued = node[c].queued

(* A step that neither touches the queue nor begins or ends a push or a pop. *)
LEMMA QueueFrame ==
    ASSUME NEW q \in [Nat -> Items], NEW lo \in Nat, NEW hi \in Nat, Queue(q, lo, hi),
           UNCHANGED <<next, head, tail>>, SameQueued,
           NEW t \in Threads, Others(t),
           thread[t].pc \notin {"link", "enqueue", "process"},
           thread'[t].pc \notin {"link", "enqueue", "process"},
           t = "poller" /\ thread'[t].pc \in {"check", "pop", "pop_again"} => tail \in Channels
    PROVE  Queue(q, lo, hi)'
<1>1. Line(q, lo, hi)'
  BY DEF Queue, Line
<1>2. \A u \in Threads : \A pc \in {"link", "enqueue", "process"} :
            /\ At(u, pc)' <=> At(u, pc)
            /\ At(u, pc) => Item(u)' = Item(u) /\ thread'[u].prev = thread[u].prev
  BY DEF Others, At, Item
<1>3. Links(q, lo, hi)'
  BY <1>2 DEF Queue, Links
<1>4. Marks(q, lo, hi)'
  <2>1. CASE t = "poller"
    BY <2>1 DEF Queue, Marks, InLine, At
  <2>2. CASE t # "poller"
    <3>1. thread'["poller"] = thread["poller"]
      BY <2>2 DEF Others, Threads
    <3> QED
      BY <3>1 DEF Queue, Marks, InLine, At, Item
  <2> QED
    BY <2>1, <2>2
<1>5. Flags(q, lo, hi)'
  <2>1. \A u \in Threads, c \in Channels : Holds(u, c)' <=> Holds(u, c)
    BY <1>2 DEF Holds
  <2> QED
    BY <2>1 DEF Queue, Flags, InLine, SameQueued
<1> QED
  BY <1>1, <1>3, <1>4, <1>5 DEF Queue

(* t has turned the flag on and will push the node. *)
LEMMA QueueTakes ==
    ASSUME NEW q \in [Nat -> Items], NEW lo \in Nat, NEW hi \in Nat, Queue(q, lo, hi),
           UNCHANGED <<next, head, tail>>,
           NEW t \in Threads, Others(t), NEW c \in Channels,
           thread[t].pc \notin {"link", "enqueue", "process"},
           thread'[t].pc = "enqueue", thread'[t].item = c,
           ~node[c].queued, node'[c].queued,
           \A d \in Channels : d # c => node'[d].queued = node[d].queued
    PROVE  Queue(q, lo, hi)'
<1>0. c # "end"
  BY ReadinessAssumption
<1>1. Line(q, lo, hi)'
  BY DEF Queue, Line
<1>2. \A u \in Threads : u # t =>
            \A pc \in {"link", "enqueue", "process"} :
                /\ At(u, pc)' <=> At(u, pc)
                /\ Item(u)' = Item(u) /\ thread'[u].prev = thread[u].prev
  BY DEF Others, At, Item
<1>3. ~At(t, "link") /\ ~At(t, "link")' /\ ~At(t, "process")' /\ At(t, "enqueue")' /\ Item(t)' = c
  BY DEF At, Item
<1>4. Links(q, lo, hi)'
  <2>1. \A u \in Threads : At(u, "link")' <=> At(u, "link")
    BY <1>2, <1>3
  <2>2. \A u \in Threads : At(u, "link") => Item(u)' = Item(u) /\ thread'[u].prev = thread[u].prev
    BY <1>2, <1>3
  <2> QED
    BY <2>1, <2>2 DEF Queue, Links
<1>5. Marks(q, lo, hi)'
  <2>1. CASE t = "poller"
    BY <1>0, <2>1 DEF Queue, Marks, InLine, At, Item
  <2>2. CASE t # "poller"
    <3>1. thread'["poller"] = thread["poller"]
      BY <2>2 DEF Others, Threads
    <3> QED
      BY <3>1 DEF Queue, Marks, InLine, At, Item
  <2> QED
    BY <2>1, <2>2
<1>6. Flags(q, lo, hi)'
  <2>1. \A u \in Threads, d \in Channels : Holds(u, d)' <=> Holds(u, d) \/ (u = t /\ d = c)
    <3>1. \A d \in Channels : Holds(t, d)' <=> d = c
      BY <1>3 DEF Holds
    <3>2. \A d \in Channels : ~Holds(t, d)
      BY DEF Holds, At
    <3>3. \A u \in Threads : u # t => \A d \in Channels : Holds(u, d)' <=> Holds(u, d)
      BY <1>2 DEF Holds
    <3> QED
      BY <3>1, <3>2, <3>3
  <2>2. \A d \in Channels : InLine(q, lo, hi, d)' <=> InLine(q, lo, hi, d)
    BY DEF InLine
  <2>3. ~InLine(q, lo, hi, c) /\ \A u \in Threads : ~Holds(u, c)
    BY DEF Queue, Flags
  <2> QED
    BY <2>1, <2>2, <2>3 DEF Queue, Flags
<1> QED
  BY <1>1, <1>4, <1>5, <1>6 DEF Queue

(* Queue items are not "null". *)
LEMMA ItemFacts ==
    /\ "null" \notin Items /\ Channels \subseteq Items /\ "end" \in Items /\ "sleep" \in Items
    /\ \A i \in Items : i \notin Channels => i \in {"end", "sleep"}
    /\ "end" \notin Channels /\ "sleep" \notin Channels
  BY ReadinessAssumption DEF Items, Markers

(* The head is taken: the item is the last of the line, not linked yet. *)
LEMMA QueuePushes ==
    ASSUME NEW q \in [Nat -> Items], NEW lo \in Nat, NEW hi \in Nat, Queue(q, lo, hi), Basic,
           NEW t \in Threads, Enqueue(t), Others(t),
           thread'[t].pc = "link", thread'[t].item = Item(t), thread'[t].prev = head
    PROVE  QueueInv'
<1> DEFINE i == Item(t)
<1>a. PICK p \in [Nat -> Items] : p = [q EXCEPT ![hi + 1] = i]
  BY EnqueueStepNow
<1>0. i \in Items /\ thread[t].pc = "enqueue" /\ next \in [Items -> Items \cup {"null"}]
  BY EnqueueStepNow DEF Basic, DataType, Enqueue, At
<1>1. ~InLine(q, lo, hi, i)
  <2>1. CASE i \in Channels
    BY <2>1 DEF Queue, Flags, Holds, Enqueue
  <2>2. CASE i \notin Channels
    <3>1. t = "poller" /\ i = "end"
      BY <1>0, <2>2, PushFacts, ItemFacts DEF PushPcs, Item, Threads
    <3>2. \A n \in lo .. hi : q[n] \in Channels
      BY <1>0, <3>1 DEF Queue, Marks, At
    <3> QED
      BY <2>2, <3>2 DEF InLine
  <2> QED
    BY <2>1, <2>2
<1>2. /\ p \in [Nat -> Items] /\ hi + 1 \in Nat /\ p[hi + 1] = i /\ lo <= hi
      /\ \A n \in lo .. hi : p[n] = q[n] /\ n \in Nat
      /\ lo .. (hi + 1) - 1 = lo .. hi /\ lo \in lo .. hi /\ hi \in lo .. hi
      /\ \A n \in lo .. hi + 1 : n \in lo .. hi \/ n = hi + 1
  BY <1>0, <1>a DEF Queue, Line
<1>3. next' = [next EXCEPT ![i] = "null"] /\ head' = i /\ tail' = tail /\ node' = node
  BY DEF Enqueue
<1>4. \A n \in lo .. hi : q[n] # i /\ next'[q[n]] = next[q[n]]
  BY <1>0, <1>1, <1>2, <1>3 DEF InLine
<1>5. \A j : InLine(p, lo, hi + 1, j)' <=> InLine(q, lo, hi, j) \/ j = i
  BY <1>2 DEF InLine
<1>6. \A u \in Threads : u # t =>
            \A pc \in {"link", "enqueue", "process"} :
                /\ At(u, pc)' <=> At(u, pc)
                /\ Item(u)' = Item(u) /\ thread'[u].prev = thread[u].prev
  BY DEF Others, At, Item
<1>7. /\ ~At(t, "link") /\ At(t, "link")' /\ ~At(t, "process")' /\ ~At(t, "enqueue")' /\ Item(t)' = i
      /\ thread'[t].prev = q[hi] /\ At(t, "enqueue") /\ ~At(t, "process")
  BY <1>0 DEF At, Item, Queue, Line
<1> HIDE DEF i
<1>8. Line(p, lo, hi + 1)'
  BY <1>2, <1>3, <1>4 DEF Queue, Line
<1>9. Links(p, lo, hi + 1)'
  <2>1. next'[p[hi + 1]] = "null"
    BY <1>0, <1>2, <1>3
  <2>2. ASSUME NEW n \in lo .. hi
        PROVE  \/ next'[p[n]] = p[n + 1]
               \/ /\ next'[p[n]] = "null"
                  /\ \E u \in Threads : At(u, "link")' /\ thread'[u].prev = p[n] /\ Item(u)' = p[n + 1]
    <3>1. CASE n = hi
      <4>1. next'[p[hi]] = "null" /\ p[hi] = q[hi]
        BY <1>2, <1>4 DEF Queue, Links
      <4> QED
        BY <1>2, <1>7, <3>1, <4>1
    <3>2. CASE n # hi
      <4>1. n \in lo .. hi - 1 /\ n + 1 \in lo .. hi
        BY <1>2, <3>2
      <4>2. p[n] = q[n] /\ p[n + 1] = q[n + 1] /\ next'[p[n]] = next[q[n]]
        BY <1>2, <1>4, <4>1
      <4>3. \/ next[q[n]] = q[n + 1]
            \/ /\ next[q[n]] = "null"
               /\ \E u \in Threads : At(u, "link") /\ thread[u].prev = q[n] /\ Item(u) = q[n + 1]
        BY <4>1 DEF Queue, Links
      <4> QED
        BY <1>6, <1>7, <4>2, <4>3
    <3> QED
      BY <3>1, <3>2
  <2>3. ASSUME NEW u \in Threads, At(u, "link")'
        PROVE  \E n \in lo .. hi : thread'[u].prev = p[n] /\ Item(u)' = p[n + 1] /\ next'[p[n]] = "null"
    <3>1. CASE u = t
      <4>1. next'[p[hi]] = "null" /\ p[hi] = q[hi]
        BY <1>2, <1>4 DEF Queue, Links
      <4> QED
        BY <1>2, <1>7, <3>1, <4>1
    <3>2. CASE u # t
      <4>1. PICK n \in lo .. hi - 1 : thread[u].prev = q[n] /\ Item(u) = q[n + 1] /\ next[q[n]] = "null"
        BY <1>6, <2>3, <3>2 DEF Queue, Links
      <4>2. n \in lo .. hi /\ n + 1 \in lo .. hi
        BY <1>2, <4>1
      <4>3. p[n] = q[n] /\ p[n + 1] = q[n + 1] /\ next'[p[n]] = next[q[n]]
        BY <1>2, <1>4, <4>2
      <4> QED
        BY <1>6, <3>2, <4>1, <4>2, <4>3
    <3> QED
      BY <3>1, <3>2
  <2>4. ASSUME NEW u \in Threads, u # t, At(u, "link") PROVE thread[u].prev # q[hi]
    <3>1. PICK n \in lo .. hi - 1 : thread[u].prev = q[n]
      BY <2>4 DEF Queue, Links
    <3>2. n \in lo .. hi /\ n # hi
      BY <1>2, <3>1
    <3> QED
      BY <1>2, <3>1, <3>2 DEF Queue, Line
  <2>5. ASSUME NEW u \in Threads, NEW v \in Threads, At(u, "link")', At(v, "link")',
               thread'[u].prev = thread'[v].prev
        PROVE  u = v
    BY <1>6, <1>7, <2>4, <2>5 DEF Queue, Links
  <2> QED
    BY <1>2, <2>1, <2>2, <2>3, <2>5 DEF Links
<1>10. Marks(p, lo, hi + 1)'
  <2>1. ~At("poller", "enqueue")' \/ t # "poller"
    BY <1>7
  <2>2. CASE t = "poller"
    <3>1. thread["poller"].pc = "enqueue" /\ Item("poller") = i /\ thread'["poller"].pc = "link"
      BY <1>0, <1>7, <2>2 DEF At, i
    <3>2. i = "end" => tail \in Channels /\ \A n \in lo .. hi : q[n] \in Channels
      BY <3>1 DEF Queue, Marks, At
    <3>3. i = "end" => ~InLine(q, lo, hi, "sleep")
      BY <3>2, ItemFacts DEF InLine
    <3>4. i # "end" => i \in Channels
      BY <1>0, PushFacts DEF i, Item, PushPcs
    <3>5. ~(InLine(p, lo, hi + 1, "end") /\ InLine(p, lo, hi + 1, "sleep"))'
      BY <1>5, <3>3, <3>4, ItemFacts DEF Queue, Marks
    <3> QED
      BY <1>3, <1>7, <2>2, <3>1, <3>2, <3>5 DEF Marks, At
  <2>3. CASE t # "poller"
    <3>1. thread'["poller"] = thread["poller"] /\ t \in Senders
      BY <2>3 DEF Others, Threads
    <3>2. i \in Channels
      BY <1>0, <3>1, PushFacts DEF i, Item, PushPcs
    <3>3. ~(InLine(p, lo, hi + 1, "end") /\ InLine(p, lo, hi + 1, "sleep"))'
      BY <1>5, <3>2, ItemFacts DEF Queue, Marks
    <3> QED
      BY <1>2, <1>3, <3>1, <3>2, <3>3 DEF Queue, Marks, At, Item
  <2> QED
    BY <2>2, <2>3
<1>11. Flags(p, lo, hi + 1)'
  <2>1. \A u \in Threads, d \in Channels : Holds(u, d)' <=> Holds(u, d) /\ u # t
    <3>1. \A d \in Channels : ~Holds(t, d)'
      BY <1>7 DEF Holds
    <3>2. \A u \in Threads : u # t => \A d \in Channels : Holds(u, d)' <=> Holds(u, d)
      BY <1>6 DEF Holds
    <3> QED
      BY <3>1, <3>2
  <2>2. \A d \in Channels : Holds(t, d) <=> d = i
    BY <1>7 DEF Holds, i
  <2> QED
    BY <1>3, <1>5, <2>1, <2>2 DEF Queue, Flags
<1> QED
  BY <1>2, <1>8, <1>9, <1>10, <1>11 DEF QueueInv, Queue

(* The link is written: the item can be reached from the one before it. *)
LEMMA QueueLinks ==
    ASSUME NEW q \in [Nat -> Items], NEW lo \in Nat, NEW hi \in Nat, Queue(q, lo, hi), Basic,
           NEW t \in Threads, Link(t), Others(t),
           thread'[t].pc \notin {"link", "enqueue", "process", "check", "pop"},
           thread'[t].pc = "pop_again" => t = "poller" /\ Item(t) = "end"
    PROVE  Queue(q, lo, hi)'
<1> DEFINE i == Item(t)
<1>0. thread[t].pc = "link" /\ next \in [Items -> Items \cup {"null"}] /\ At(t, "link")
  BY DEF Basic, DataType, Link, At
<1>1. PICK k \in lo .. hi - 1 : thread[t].prev = q[k] /\ i = q[k + 1] /\ next[q[k]] = "null"
  BY <1>0 DEF Queue, Links
<1>2. /\ \A n \in lo .. hi : n \in Nat /\ q[n] \in Items
      /\ \A n \in lo .. hi - 1 : n \in lo .. hi /\ n + 1 \in lo .. hi
      /\ hi \in lo .. hi /\ hi # k
  BY <1>1 DEF Queue, Line
<1>3. next' = [next EXCEPT ![q[k]] = i] /\ head' = head /\ tail' = tail /\ node' = node
  BY <1>1 DEF Link
<1>4. \A n \in lo .. hi : n # k => q[n] # q[k] /\ next'[q[n]] = next[q[n]]
  BY <1>0, <1>1, <1>2, <1>3 DEF Queue, Line
<1>5. next'[q[k]] = q[k + 1]
  BY <1>0, <1>1, <1>2, <1>3
<1>6. \A u \in Threads : u # t =>
            \A pc \in {"link", "enqueue", "process"} :
                /\ At(u, pc)' <=> At(u, pc)
                /\ Item(u)' = Item(u) /\ thread'[u].prev = thread[u].prev
  BY DEF Others, At, Item
<1>7. ~At(t, "link")' /\ ~At(t, "enqueue")' /\ ~At(t, "process")'
  BY DEF At
<1> HIDE DEF i
<1>8. Line(q, lo, hi)'
  BY <1>3 DEF Queue, Line
<1>9. Links(q, lo, hi)'
  <2>1. next'[q[hi]] = "null"
    BY <1>2, <1>4 DEF Queue, Links
  <2>2. ASSUME NEW n \in lo .. hi - 1
        PROVE  \/ next'[q[n]] = q[n + 1]
               \/ /\ next'[q[n]] = "null"
                  /\ \E u \in Threads : At(u, "link")' /\ thread'[u].prev = q[n] /\ Item(u)' = q[n + 1]
    <3>1. CASE n = k
      BY <1>5, <3>1
    <3>2. CASE n # k
      <4>1. next'[q[n]] = next[q[n]] /\ q[n] # q[k]
        BY <1>2, <1>4, <3>2
      <4>2. \/ next[q[n]] = q[n + 1]
            \/ /\ next[q[n]] = "null"
               /\ \E u \in Threads : At(u, "link") /\ thread[u].prev = q[n] /\ Item(u) = q[n + 1]
        BY DEF Queue, Links
      <4> QED
        BY <1>1, <1>6, <4>1, <4>2
    <3> QED
      BY <3>1, <3>2
  <2>3. ASSUME NEW u \in Threads, At(u, "link")'
        PROVE  \E n \in lo .. hi - 1 : thread'[u].prev = q[n] /\ Item(u)' = q[n + 1] /\ next'[q[n]] = "null"
    <3>1. u # t /\ At(u, "link")
      BY <1>6, <1>7, <2>3
    <3>2. PICK n \in lo .. hi - 1 : thread[u].prev = q[n] /\ Item(u) = q[n + 1] /\ next[q[n]] = "null"
      BY <3>1 DEF Queue, Links
    <3>3. n # k
      BY <1>0, <1>1, <3>1, <3>2 DEF Queue, Links
    <3> QED
      BY <1>2, <1>4, <1>6, <3>1, <3>2, <3>3
  <2>4. ASSUME NEW u \in Threads, NEW v \in Threads, At(u, "link")', At(v, "link")',
               thread'[u].prev = thread'[v].prev
        PROVE  u = v
    BY <1>6, <1>7, <2>4 DEF Queue, Links
  <2> QED
    BY <2>1, <2>2, <2>3, <2>4 DEF Links
<1>10. Marks(q, lo, hi)'
  <2>1. CASE t = "poller"
    BY <1>0, <1>3, <2>1 DEF Queue, Marks, At, InLine
  <2>2. CASE t # "poller"
    <3>1. thread'["poller"] = thread["poller"]
      BY <2>2 DEF Others, Threads
    <3> QED
      BY <1>3, <3>1 DEF Queue, Marks, At, Item, InLine
  <2> QED
    BY <2>1, <2>2
<1>11. Flags(q, lo, hi)'
  <2>1. \A u \in Threads, d \in Channels : Holds(u, d)' <=> Holds(u, d)
    <3>1. \A d \in Channels : ~Holds(t, d)' /\ ~Holds(t, d)
      BY <1>0, <1>7 DEF Holds, At
    <3>2. \A u \in Threads : u # t => \A d \in Channels : Holds(u, d)' <=> Holds(u, d)
      BY <1>6 DEF Holds
    <3> QED
      BY <3>1, <3>2
  <2> QED
    BY <1>3, <2>1 DEF Queue, Flags, InLine
<1> QED
  BY <1>8, <1>9, <1>10, <1>11 DEF Queue

(* A line of one item: nobody is about to link anything. *)
LEMMA AloneInLine ==
    ASSUME NEW q \in [Nat -> Items], NEW lo \in Nat, NEW hi \in Nat, Queue(q, lo, hi), head = tail
    PROVE  /\ lo = hi /\ lo .. hi = {lo} /\ lo .. hi - 1 = {}
           /\ \A t \in Threads : ~At(t, "link")
<1>1. lo = hi
  <2>1. lo \in lo .. hi /\ hi \in lo .. hi
    BY DEF Queue, Line
  <2> QED
    BY <2>1 DEF Queue, Line
<1>2. lo .. hi - 1 = {} /\ lo .. hi = {lo}
  BY <1>1
<1> QED
  BY <1>1, <1>2 DEF Queue, Links

(* One marker alone in the queue is exchanged for the other. *)
LEMMA QueueSwaps ==
    ASSUME NEW q \in [Nat -> Items], NEW lo \in Nat, NEW hi \in Nat, Queue(q, lo, hi), Basic,
           NEW m \in Markers, head = tail, tail \in Markers, next' = [next EXCEPT ![m] = "null"],
           head' = m, tail' = m, node' = node,
           Others("poller"), thread["poller"].pc \notin {"link", "enqueue", "process"},
           thread'["poller"].pc \notin {"link", "enqueue", "process", "check", "pop", "pop_again"}
    PROVE  QueueInv'
<1>1. /\ lo = hi /\ lo .. hi = {lo} /\ lo .. hi - 1 = {} /\ m \in Items /\ lo .. lo = {lo}
      /\ lo .. lo - 1 = {} /\ \A t \in Threads : ~At(t, "link")
  BY AloneInLine DEF Items
<1>2. PICK p \in [Nat -> Items] : p = [q EXCEPT ![lo] = m]
  BY <1>1
<1>3. p[lo] = m
  BY <1>2
<1>4. \A u \in Threads : \A pc \in {"link", "enqueue", "process"} :
            /\ At(u, pc)' <=> At(u, pc)
            /\ At(u, pc) => Item(u)' = Item(u) /\ thread'[u].prev = thread[u].prev
  BY DEF Others, At, Item
<1>5. Line(p, lo, lo)'
  BY <1>1, <1>3 DEF Line
<1>6. Links(p, lo, lo)'
  <2>1. next'[p[lo]] = "null"
    BY <1>1, <1>3 DEF Basic, DataType
  <2> QED
    BY <1>1, <1>4, <2>1 DEF Links
<1>7. \A i : InLine(p, lo, lo, i)' <=> i = m
  BY <1>1, <1>3 DEF InLine
<1>8. Marks(p, lo, lo)'
  BY <1>7 DEF Marks, At
<1>9. Flags(p, lo, lo)'
  <2>1. \A u \in Threads, c \in Channels : Holds(u, c)' <=> Holds(u, c)
    BY <1>4 DEF Holds
  <2>2. \A c \in Channels : ~InLine(p, lo, lo, c)'
    BY <1>7, ItemFacts DEF Markers
  <2>3. q[lo] = tail
    BY DEF Queue, Line
  <2>4. \A c \in Channels : ~InLine(q, lo, hi, c)
    BY <1>1, <2>3, ItemFacts DEF InLine, Markers
  <2> QED
    BY <2>1, <2>2, <2>4 DEF Queue, Flags
<1> QED
  BY <1>5, <1>6, <1>8, <1>9 DEF QueueInv, Queue

(* A marker that is not in the queue may be written at any time. *)
LEMMA QueueUnused ==
    ASSUME NEW q \in [Nat -> Items], NEW lo \in Nat, NEW hi \in Nat, Queue(q, lo, hi), Basic,
           NEW m \in Markers, tail \in Markers \ {m}, next' = [next EXCEPT ![m] = "null"],
           UNCHANGED <<head, tail, node>>,
           Others("poller"), thread["poller"].pc \notin {"link", "enqueue", "process"},
           thread'["poller"].pc \notin {"link", "enqueue", "process", "check", "pop", "pop_again"}
    PROVE  QueueInv'
<1>1. \A n \in lo .. hi : q[n] # m
  <2>1. InLine(q, lo, hi, tail)
    BY DEF Queue, Line, InLine
  <2> QED
    BY <2>1 DEF Queue, Marks, InLine, Markers
<1>2. \A n \in lo .. hi : q[n] \in Items /\ next'[q[n]] = next[q[n]]
  BY <1>1 DEF Basic, DataType
<1>3. /\ \A n \in lo .. hi - 1 : n \in lo .. hi /\ n + 1 \in lo .. hi
      /\ hi \in lo .. hi
  BY DEF Queue, Line
<1>4. \A u \in Threads : \A pc \in {"link", "enqueue", "process"} :
            /\ At(u, pc)' <=> At(u, pc)
            /\ At(u, pc) => Item(u)' = Item(u) /\ thread'[u].prev = thread[u].prev
  BY DEF Others, At, Item
<1>5. Line(q, lo, hi)'
  BY DEF Queue, Line
<1>6. Links(q, lo, hi)'
  BY <1>2, <1>3, <1>4 DEF Queue, Links
<1>7. Marks(q, lo, hi)'
  BY DEF Queue, Marks, At, InLine
<1>8. Flags(q, lo, hi)'
  <2>1. \A u \in Threads, c \in Channels : Holds(u, c)' <=> Holds(u, c)
    BY <1>4 DEF Holds
  <2> QED
    BY <2>1 DEF Queue, Flags, InLine
<1> QED
  BY <1>5, <1>6, <1>7, <1>8 DEF QueueInv, Queue

(* The first item leaves when another can be reached from it; a node that  *)
(* leaves is in the hands of the poller.                                   *)
LEMMA QueuePops ==
    ASSUME NEW q \in [Nat -> Items], NEW lo \in Nat, NEW hi \in Nat, Queue(q, lo, hi), Basic,
           next[tail] # "null", tail' = next[tail], UNCHANGED <<head, next, node>>,
           Others("poller"), thread["poller"].pc \notin {"link", "enqueue", "process"},
           \/ tail \in Markers /\ thread'["poller"].pc = "pop"
           \/ tail \in Channels /\ thread'["poller"].pc = "process" /\ thread'["poller"].item = tail
    PROVE  QueueInv'
<1>1. lo < hi
  <2>1. lo # hi
    BY DEF Queue, Line, Links
  <2> QED
    BY <2>1 DEF Queue, Line
<1>2. lo \in lo .. hi - 1 /\ q[lo] = tail /\ lo + 1 \in Nat
  BY <1>1 DEF Queue, Line
<1>3. tail' = q[lo + 1]
  BY <1>2 DEF Queue, Links
<1>4. /\ \A n \in lo + 1 .. hi : n \in lo .. hi /\ n # lo
      /\ \A n \in lo + 1 .. hi - 1 : n \in lo .. hi - 1
      /\ \A n \in lo .. hi - 1 : n = lo \/ n \in lo + 1 .. hi - 1
      /\ \A n \in lo .. hi : n = lo \/ n \in lo + 1 .. hi
      /\ lo \in lo .. hi /\ lo + 1 \in lo + 1 .. hi /\ lo + 1 <= hi
  BY <1>1
<1>5. \A i : InLine(q, lo, hi, i) <=> InLine(q, lo + 1, hi, i) \/ i = tail
  BY <1>2, <1>4 DEF InLine
<1>6. ~InLine(q, lo + 1, hi, tail)
  BY <1>2, <1>4 DEF InLine, Queue, Line
<1>7. \A u \in Threads : u # "poller" =>
            \A pc \in {"link", "enqueue", "process"} :
                /\ At(u, pc)' <=> At(u, pc)
                /\ Item(u)' = Item(u) /\ thread'[u].prev = thread[u].prev
  BY DEF Others, At, Item
<1>8. /\ \A pc \in {"link", "enqueue", "process"} : ~At("poller", pc)
      /\ ~At("poller", "link")' /\ ~At("poller", "enqueue")'
  BY ItemFacts DEF At, Markers
<1>9. Line(q, lo + 1, hi)'
  BY <1>3, <1>4 DEF Queue, Line
<1>10. Links(q, lo + 1, hi)'
  <2>1. \A u \in Threads : At(u, "link")' => At(u, "link") /\ u # "poller"
    BY <1>7, <1>8
  <2>2. ASSUME NEW u \in Threads, At(u, "link")
        PROVE  \E n \in lo + 1 .. hi - 1 :
                    thread[u].prev = q[n] /\ Item(u) = q[n + 1] /\ next[q[n]] = "null"
    <3>1. PICK n \in lo .. hi - 1 : thread[u].prev = q[n] /\ Item(u) = q[n + 1] /\ next[q[n]] = "null"
      BY <2>2 DEF Queue, Links
    <3>2. n # lo
      BY <1>2, <3>1
    <3> QED
      BY <1>4, <3>1, <3>2
  <2>3. \A u \in Threads : At(u, "link") =>
            At(u, "link")' /\ Item(u)' = Item(u) /\ thread'[u].prev = thread[u].prev
    BY <1>7, <1>8
  <2>4. \A n \in lo + 1 .. hi - 1 :
            \/ next[q[n]] = q[n + 1]
            \/ /\ next[q[n]] = "null"
               /\ \E t \in Threads : At(t, "link") /\ thread[t].prev = q[n] /\ Item(t) = q[n + 1]
    BY <1>4 DEF Queue, Links
  <2>5. next[q[hi]] = "null"
    BY DEF Queue, Links
  <2>6. \A t, u \in Threads :
            At(t, "link") /\ At(u, "link") /\ thread[t].prev = thread[u].prev => t = u
    BY DEF Queue, Links
  <2> HIDE DEF Queue
  <2> QED
    BY <2>1, <2>2, <2>3, <2>4, <2>5, <2>6 DEF Links
<1>11. Marks(q, lo + 1, hi)'
  <2>1. ~(InLine(q, lo + 1, hi, "end") /\ InLine(q, lo + 1, hi, "sleep"))
    BY <1>5 DEF Queue, Marks
  <2>2. tail \in Markers => tail' \in Channels
    <3>1. InLine(q, lo + 1, hi, tail')
      BY <1>3, <1>4 DEF InLine
    <3>2. tail' \in Items
      BY <1>2, <1>3
    <3> QED
      BY <1>5, <1>6, <3>1, <3>2, ItemFacts DEF Queue, Marks, Markers
  <2>3. tail \in Channels => tail \notin Markers
    BY ItemFacts DEF Markers
  <2> QED
    BY <1>8, <2>1, <2>2, <2>3 DEF Marks, At, InLine
<1>12. Flags(q, lo + 1, hi)'
  <2>1. ASSUME NEW c \in Channels
        PROVE  /\ Holds("poller", c)' <=> c = tail
               /\ ~Holds("poller", c)
               /\ \A u \in Threads : u # "poller" => (Holds(u, c)' <=> Holds(u, c))
    <3>1. c = tail => tail \notin Markers
      BY ItemFacts DEF Markers
    <3>2. Holds("poller", c)' <=> c = tail
      BY <3>1 DEF Holds, At, Item
    <3> QED
      BY <1>7, <1>8, <3>2 DEF Holds
  <2>2. \A c \in Channels : InLine(q, lo, hi, c) => \A u \in Threads : ~Holds(u, c)
    BY DEF Queue, Flags
  <2>3. InLine(q, lo, hi, tail)
    BY <1>5
  <2>4. "poller" \in Threads
    BY DEF Threads
  <2>5. \A c \in Channels : InLine(q, lo + 1, hi, c)' <=> InLine(q, lo, hi, c) /\ c # tail
    BY <1>5, <1>6 DEF InLine
  <2>6. \A c \in Channels :
            /\ node[c].queued <=> InLine(q, lo, hi, c) \/ \E t \in Threads : Holds(t, c)
            /\ \A t \in Threads : Holds(t, c) => ~InLine(q, lo, hi, c)
            /\ \A t, u \in Threads : Holds(t, c) /\ Holds(u, c) => t = u
    BY DEF Queue, Flags
  <2> QED
    BY <2>1, <2>2, <2>3, <2>4, <2>5, <2>6 DEF Flags
<1> QED
  BY <1>2, <1>9, <1>10, <1>11, <1>12 DEF QueueInv, Queue

(* The node that was popped is off the queue. *)
LEMMA QueueReleases ==
    ASSUME NEW q \in [Nat -> Items], NEW lo \in Nat, NEW hi \in Nat, Queue(q, lo, hi), Basic,
           UNCHANGED <<next, head, tail>>, At("poller", "process"), NEW c \in Channels,
           Item("poller") = c, ~node'[c].queued,
           \A d \in Channels : d # c => node'[d].queued = node[d].queued,
           Others("poller"), thread'["poller"].pc = "poll"
    PROVE  Queue(q, lo, hi)'
<1>1. \A u \in Threads : u # "poller" =>
            \A pc \in {"link", "enqueue", "process"} :
                /\ At(u, pc)' <=> At(u, pc)
                /\ Item(u)' = Item(u) /\ thread'[u].prev = thread[u].prev
  BY DEF Others, At, Item
<1>2. /\ \A pc \in {"link", "enqueue", "process"} : ~At("poller", pc)'
      /\ ~At("poller", "link") /\ ~At("poller", "enqueue") /\ "poller" \in Threads
  BY DEF At, Threads
<1>3. Line(q, lo, hi)'
  BY DEF Queue, Line
<1>4. Links(q, lo, hi)'
  BY <1>1, <1>2 DEF Queue, Links
<1>5. Marks(q, lo, hi)'
  BY DEF Queue, Marks, At, InLine
<1>6. Flags(q, lo, hi)'
  <2>1. \A u \in Threads, d \in Channels : Holds(u, d)' <=> Holds(u, d) /\ u # "poller"
    BY <1>1, <1>2 DEF Holds
  <2>2. \A d \in Channels : Holds("poller", d) <=> d = c
    BY <1>2 DEF Holds
  <2> QED
    BY <1>2, <2>1, <2>2 DEF Queue, Flags, InLine
<1> QED
  BY <1>3, <1>4, <1>5, <1>6 DEF Queue

(* The poller finds a node alone and will push end_marker behind it. *)
LEMMA QueueChecked ==
    ASSUME NEW q \in [Nat -> Items], NEW lo \in Nat, NEW hi \in Nat, Queue(q, lo, hi), Basic,
           UNCHANGED <<next, head, tail, node>>, At("poller", "check"), head = tail,
           Others("poller"), thread'["poller"].pc = "enqueue", thread'["poller"].item = "end"
    PROVE  Queue(q, lo, hi)'
<1>1. lo .. hi = {lo} /\ q[lo] = tail /\ tail \in Channels
  BY AloneInLine DEF Queue, Line, Marks, At
<1>2. \A u \in Threads : u # "poller" =>
            \A pc \in {"link", "enqueue", "process"} :
                /\ At(u, pc)' <=> At(u, pc)
                /\ Item(u)' = Item(u) /\ thread'[u].prev = thread[u].prev
  BY DEF Others, At, Item
<1>3. /\ \A pc \in {"link", "enqueue", "process"} : ~At("poller", pc)
      /\ ~At("poller", "link")' /\ Item("poller")' = "end" /\ ~At("poller", "process")'
  BY DEF At, Item
<1>4. Line(q, lo, hi)'
  BY DEF Queue, Line
<1>5. Links(q, lo, hi)'
  BY <1>2, <1>3 DEF Queue, Links
<1>6. Marks(q, lo, hi)'
  BY <1>1 DEF Queue, Marks, At, InLine
<1>7. Flags(q, lo, hi)'
  <2>1. \A u \in Threads, d \in Channels : Holds(u, d)' <=> Holds(u, d)
    BY <1>2, <1>3, ItemFacts DEF Holds
  <2> QED
    BY <2>1 DEF Queue, Flags, InLine
<1> QED
  BY <1>4, <1>5, <1>6, <1>7 DEF Queue

-----------------------------------------------------------------------------
(* Types and queue are kept by every step. *)

QInv == Basic /\ QueueInv

LEMMA NowOthers ==
    ASSUME NEW t, NEW pc, NEW then, NEW item, NEW prev, NEW ready, NEW first,
           Now(t, pc, then, item, prev, ready, first)
    PROVE  Others(t) /\ thread'[t].pc = pc /\ thread'[t].item = item /\ thread'[t].prev = prev
  BY DEF Now, Others

(* A step of one thread, outside the places that push or pop, keeps the queue. *)
LEMMA QueueKept ==
    ASSUME QueueInv, UNCHANGED <<next, head, tail>>, SameQueued,
           NEW t \in Threads, Others(t),
           thread[t].pc \notin {"link", "enqueue", "process"},
           thread'[t].pc \notin {"link", "enqueue", "process"},
           t = "poller" /\ thread'[t].pc \in {"check", "pop", "pop_again"} => tail \in Channels
    PROVE  QueueInv'
<1>1. PICK q \in [Nat -> Items], lo \in Nat, hi \in Nat : Queue(q, lo, hi)
  BY DEF QueueInv
<1>2. Queue(q, lo, hi)'
  BY <1>1, QueueFrame
<1> QED
  BY <1>2 DEF QueueInv

LEMMA LeavesFacts ==
    ASSUME NEW t, Leaves(t)
    PROVE  /\ Others(t) /\ thread'[t].pc = thread[t].then
           /\ thread'[t].pc \notin {"link", "enqueue", "process", "check", "pop"}
  BY DEF Leaves, Now, Others

(* The steps of a push. *)
LEMMA SetReadinessQueue ==
    ASSUME QInv, NEW t \in Threads, SetReadiness(t)
    PROVE  QInv'
<1> DEFINE c == Item(t)
           new == Announced(node[c], [node[c] EXCEPT !.readiness = thread[t].ready])
<1>1. /\ Basic' /\ c \in Channels /\ Basic /\ QueueInv
      /\ IF MustEnqueue(node[c], new)
         THEN Now(t, "enqueue", thread[t].then, c, thread[t].prev, thread[t].ready, thread[t].first)
         ELSE Leaves(t)
  BY SetReadinessNow, SharedData DEF QInv, Basic, Shared
<1>2. /\ node' = [node EXCEPT ![c] = new] /\ thread[t].pc = "set" /\ UNCHANGED <<next, head, tail>>
  BY DEF SetReadiness, At
<1>3. new.queued = (node[c].queued \/ new.queued) /\ node[c].queued \in BOOLEAN /\ new.queued \in BOOLEAN
  BY <1>1 DEF Announced, Effective, Basic, DataType
<1>4. /\ node'[c].queued = new.queued /\ \A d \in Channels : d # c => node'[d].queued = node[d].queued
  BY <1>1, <1>2 DEF Basic, DataType
<1> HIDE DEF new, c
<1>5. CASE MustEnqueue(node[c], new)
  <2>1. PICK q \in [Nat -> Items], lo \in Nat, hi \in Nat : Queue(q, lo, hi)
    BY <1>1 DEF QueueInv
  <2>2. Others(t) /\ thread'[t].pc = "enqueue" /\ thread'[t].item = c
    BY <1>1, <1>5, NowOthers
  <2>3. ~node[c].queued /\ node'[c].queued
    BY <1>4, <1>5 DEF MustEnqueue
  <2>4. Queue(q, lo, hi)'
    BY <1>1, <1>2, <1>4, <2>1, <2>2, <2>3, QueueTakes
  <2> QED
    BY <1>1, <2>4 DEF QInv, QueueInv
<1>6. CASE ~MustEnqueue(node[c], new)
  <2>1. SameQueued
    BY <1>3, <1>4, <1>6 DEF SameQueued, MustEnqueue
  <2>2. /\ Others(t) /\ thread'[t].pc = thread[t].then
        /\ thread'[t].pc \notin {"link", "enqueue", "process", "check", "pop"}
    BY <1>1, <1>6, LeavesFacts
  <2>3. thread[t].then # "pop_again" \/ t # "poller"
    BY <1>1, <1>2 DEF Basic, ThreadsOK, PollerOK, PushPcs
  <2>4. QueueInv'
    BY <1>1, <1>2, <2>1, <2>2, <2>3, QueueKept
  <2> QED
    BY <1>1, <2>4 DEF QInv
<1> QED
  BY <1>5, <1>6

LEMMA EnqueueQueue ==
    ASSUME QInv, NEW t \in Threads, Enqueue(t)
    PROVE  QInv'
<1>1. /\ Basic' /\ Basic
      /\ Now(t, "link", thread[t].then, thread[t].item, head, thread[t].ready, thread[t].first)
  BY EnqueueStepNow, SharedData DEF QInv, Basic, Shared
<1>2. PICK q \in [Nat -> Items], lo \in Nat, hi \in Nat : Queue(q, lo, hi)
  BY DEF QInv, QueueInv
<1>3. Others(t) /\ thread'[t].pc = "link" /\ thread'[t].item = Item(t) /\ thread'[t].prev = head
  BY <1>1 DEF Now, Others, Item
<1>4. QueueInv'
  BY <1>1, <1>2, <1>3, QueuePushes
<1> QED
  BY <1>1, <1>4 DEF QInv

LEMMA LinkQueue ==
    ASSUME QInv, NEW t \in Threads, Link(t)
    PROVE  QInv'
<1>1. /\ Basic' /\ Basic
      /\ IF NeedsWakeup(t)
         THEN Now(t, "wakeup", thread[t].then, thread[t].item, thread[t].prev, thread[t].ready,
                  thread[t].first)
         ELSE Leaves(t)
  BY LinkNow, SharedData DEF QInv, Basic, Shared
<1>2. PICK q \in [Nat -> Items], lo \in Nat, hi \in Nat : Queue(q, lo, hi)
  BY DEF QInv, QueueInv
<1>3. thread[t].pc \in PushPcs
  BY DEF Link, At, PushPcs
<1>4. CASE NeedsWakeup(t)
  <2>1. Others(t) /\ thread'[t].pc = "wakeup"
    BY <1>1, <1>4, NowOthers
  <2> QED
    BY <1>1, <1>2, <2>1, QueueLinks DEF QInv, QueueInv
<1>5. CASE ~NeedsWakeup(t)
  <2>1. /\ Others(t) /\ thread'[t].pc = thread[t].then
        /\ thread'[t].pc \notin {"link", "enqueue", "process", "check", "pop"}
    BY <1>1, <1>5, LeavesFacts
  <2>2. thread'[t].pc = "pop_again" => t = "poller" /\ Item(t) = "end"
    BY <1>1, <1>3, <2>1, PushFacts DEF Threads, Item
  <2> QED
    BY <1>1, <1>2, <2>1, <2>2, QueueLinks DEF QInv, QueueInv
<1> QED
  BY <1>4, <1>5

LEMMA WakeupQueue ==
    ASSUME QInv, NEW t \in Threads, Wakeup(t)
    PROVE  QInv'
<1>1. Basic' /\ Basic /\ Leaves(t) /\ QueueInv
  BY WakeupNow, SharedData DEF QInv, Basic, Shared
<1>2. thread[t].pc = "wakeup" /\ thread[t].pc \in PushPcs /\ UNCHANGED <<next, head, tail, node>>
  BY DEF Wakeup, At, PushPcs
<1>3. thread[t].then # "pop_again" \/ t # "poller"
  BY <1>1, <1>2 DEF Basic, ThreadsOK, PollerOK
<1>4. QueueInv'
  BY <1>1, <1>2, <1>3, LeavesFacts, QueueKept DEF SameQueued
<1> QED
  BY <1>1, <1>4 DEF QInv

(* The steps of the senders and of the receiver, which leave the queue alone. *)
LEMMA SendersQueue ==
    ASSUME QInv, NEW s \in Senders, Send(s) \/ Inc(s) \/ DropSender(s)
    PROVE  QInv'
<1>1. DataType' /\ Basic /\ QueueInv /\ s \in Threads /\ s # "poller"
  BY SendersData, Constants DEF QInv, Threads
<1>2. UNCHANGED <<next, head, tail, node>>
  BY DEF Send, Inc, DropSender
<1>3. thread[s].pc \notin {"link", "enqueue", "process"}
  BY DEF Send, Inc, DropSender, At
<1>4. ThreadsOK' /\ Others(s) /\ thread'[s].pc \notin {"link", "enqueue", "process"}
  <2>1. CASE Goto(s, "inc") /\ At(s, "idle")
    BY <1>1, <2>1, SendNow, NowOthers
  <2>2. CASE Inc(s)
    <3>1. \/ Now(s, "set", "idle", ChannelOf[s], thread[s].prev, TRUE, thread[s].first)
          \/ Now(s, "idle", "idle", "null", "null", FALSE, 0)
      BY <1>1, <2>2, IncNow
    <3>2. Others(s) /\ thread'[s].pc \in {"set", "idle"}
      BY <3>1 DEF Now, Others
    <3> QED
      BY <1>1, <2>2, <3>2, IncNow
  <2>3. CASE UNCHANGED thread
    BY <1>1, <1>3, <2>3, ThreadsStay DEF Basic, Others
  <2> QED
    BY <2>1, <2>2, <2>3 DEF Send, DropSender
<1>5. QueueInv'
  BY <1>1, <1>2, <1>3, <1>4, QueueKept DEF SameQueued
<1> QED
  BY <1>1, <1>4, <1>5 DEF QInv, Basic

(* Steps of the poller that leave the queue alone. *)
LEMMA PollerKeeps ==
    ASSUME QInv, DataType', ThreadsOK', UNCHANGED <<next, head, tail>>, SameQueued,
           Others("poller"),
           thread["poller"].pc \notin {"link", "enqueue", "process"},
           thread'["poller"].pc \notin {"link", "enqueue", "process"},
           thread'["poller"].pc \in {"check", "pop", "pop_again"} => tail \in Channels
    PROVE  QInv'
<1>1. "poller" \in Threads
  BY DEF Threads
<1>2. QueueInv'
  BY <1>1, QueueKept DEF QInv
<1> QED
  BY <1>2 DEF QInv, Basic

LEMMA ReceiverQueue ==
    ASSUME QInv,
           \/ Register \/ Look \/ Fill \/ Select \/ Cleanup \/ OtherEvent \/ ZeroTimeout \/ StopPolling
           \/ TryRecv \/ NextPoll \/ DecLoad \/ DecSub
    PROVE  QInv'
<1>1. Basic
  BY DEF QInv
<1>2. CASE Register
  <2>1. DataType' /\ ThreadsOK' /\ thread["poller"].pc = "register" /\ UNCHANGED <<next, head, tail>>
    BY <1>1, <1>2, NodeData, RegisterNow DEF Register, Poller, At
  <2>2. CASE todo = {}
    <3>1. PollerAt("prepare") /\ node' = node
      BY <1>1, <1>2, <2>2, RegisterNow DEF Register
    <3>2. Others("poller") /\ thread'["poller"].pc = "prepare"
      BY <3>1 DEF PollerAt, Now, Others
    <3> QED
      BY <2>1, <3>1, <3>2, PollerKeeps DEF SameQueued
  <2>3. CASE todo # {}
    <3>1. PICK c \in todo :
            /\ node' = [node EXCEPT ![c].interest = TRUE]
            /\ Now("poller", "look", thread["poller"].then, c, thread["poller"].prev,
                   thread["poller"].ready, thread["poller"].first)
      BY <1>1, <1>2, <2>3, RegisterNow
    <3>2. SameQueued
      BY <1>1, <3>1 DEF SameQueued, Basic, DataType
    <3>3. Others("poller") /\ thread'["poller"].pc = "look"
      BY <3>1 DEF Now, Others
    <3> QED
      BY <2>1, <3>2, <3>3, PollerKeeps
  <2> QED
    BY <2>2, <2>3
<1>3. CASE Look
  <2>1. DataType' /\ ThreadsOK' /\ thread["poller"].pc = "look" /\ UNCHANGED <<next, head, tail, node>>
    BY <1>1, <1>3, ChanData, LookNow DEF Look, Poller, At
  <2>2. \/ Now("poller", "set", "fill", Item("poller"), thread["poller"].prev, TRUE,
               thread["poller"].first)
        \/ PollerAt("fill")
    BY <1>1, <1>3, LookNow
  <2>3. Others("poller") /\ thread'["poller"].pc \in {"set", "fill"}
    BY <2>2 DEF PollerAt, Now, Others
  <2> QED
    BY <2>1, <2>3, PollerKeeps DEF SameQueued
<1>4. CASE Fill
  <2>1. DataType' /\ ThreadsOK' /\ thread["poller"].pc = "fill" /\ UNCHANGED <<next, head, tail, node>>
    BY <1>1, <1>4, ChanData, FillNow DEF Fill, Poller, At
  <2>2. Others("poller") /\ thread'["poller"].pc = "register"
    BY <1>1, <1>4, FillNow DEF PollerRests, Now, Others
  <2> QED
    BY <2>1, <2>2, PollerKeeps DEF SameQueued
<1>5. CASE Select \/ Cleanup \/ OtherEvent \/ ZeroTimeout
  <2>1. /\ DataType' /\ ThreadsOK' /\ thread["poller"].pc \in {"prepare", "select", "block", "cleanup"}
        /\ UNCHANGED <<next, head, tail, node>>
    BY <1>1, <1>5, QueueData, PollingNow DEF Select, Cleanup, OtherEvent, ZeroTimeout, Poller, At
  <2>2. PollerAt("cleanup") \/ PollerAt("poll") \/ PollerAt("select")
    BY <1>1, <1>5, PollingNow
  <2>3. Others("poller") /\ thread'["poller"].pc \in {"cleanup", "poll", "select"}
    BY <2>2 DEF PollerAt, Now, Others
  <2> QED
    BY <2>1, <2>3, PollerKeeps DEF SameQueued
<1>6. CASE StopPolling
  <2>1. /\ DataType' /\ ThreadsOK' /\ thread["poller"].pc = "stop" /\ UNCHANGED <<next, head, tail, node>>
    BY <1>1, <1>6, QueueData, ToDrainNow DEF StopPolling, Poller, At
  <2>2. Others("poller") /\ thread'["poller"].pc = "drain"
    BY <1>1, <1>6, ToDrainNow DEF PollerAt, Now, Others
  <2> QED
    BY <2>1, <2>2, PollerKeeps DEF SameQueued
<1>7. CASE TryRecv
  <2>1. DataType' /\ thread["poller"].pc = "drain" /\ UNCHANGED <<next, head, tail, node>>
    BY <1>1, <1>7, ChanData DEF TryRecv, Poller, At
  <2>2. PICK c \in todo :
            thread' = [thread EXCEPT !["poller"].pc = "load", !["poller"].item = c]
    BY <1>7 DEF TryRecv
  <2>3. c \in Channels
    BY <1>1 DEF Basic, DataType
  <2>4. /\ ThreadsOK'
        /\ Now("poller", "load", thread["poller"].then, c, thread["poller"].prev,
               thread["poller"].ready, thread["poller"].first)
    BY <1>1, <2>2, <2>3, DrainNow
  <2>5. Others("poller") /\ thread'["poller"].pc = "load"
    BY <2>4 DEF Now, Others
  <2> QED
    BY <2>1, <2>4, <2>5, PollerKeeps DEF SameQueued
<1>8. CASE NextPoll
  <2>1. /\ DataType' /\ ThreadsOK' /\ thread["poller"].pc = "drain" /\ UNCHANGED <<next, head, tail, node>>
    BY <1>1, <1>8, ChanData, NextPollNow DEF NextPoll, Poller, At
  <2>2. Others("poller") /\ thread'["poller"].pc = "prepare"
    BY <1>1, <1>8, NextPollNow DEF PollerAt, Now, Others
  <2> QED
    BY <2>1, <2>2, PollerKeeps DEF SameQueued
<1>9. CASE DecLoad
  <2>1. /\ DataType' /\ ThreadsOK' /\ thread["poller"].pc = "load" /\ UNCHANGED <<next, head, tail, node>>
    BY <1>1, <1>9, ChanData, DecLoadNow DEF DecLoad, Poller, At
  <2>2. Now("poller", IF chan[Item("poller")].pending = 1 THEN "set" ELSE "sub", "sub",
            thread["poller"].item, thread["poller"].prev, FALSE, chan[Item("poller")].pending)
    BY <1>1, <1>9, DecLoadNow
  <2>3. Others("poller") /\ thread'["poller"].pc \in {"set", "sub"}
    BY <2>2 DEF Now, Others
  <2> QED
    BY <2>1, <2>3, PollerKeeps DEF SameQueued
<1>10. CASE DecSub
  <2>1. /\ DataType' /\ ThreadsOK' /\ thread["poller"].pc = "sub" /\ UNCHANGED <<next, head, tail, node>>
    BY <1>1, <1>10, ChanData, DecSubNow DEF DecSub, Poller, At
  <2>2. \/ Now("poller", "set", "drain", Item("poller"), thread["poller"].prev, TRUE,
               thread["poller"].first)
        \/ PollerRests("drain")
    BY <1>1, <1>10, DecSubNow
  <2>3. Others("poller") /\ thread'["poller"].pc \in {"set", "drain"}
    BY <2>2 DEF PollerRests, Now, Others
  <2> QED
    BY <2>1, <2>3, PollerKeeps DEF SameQueued
<1> QED
  BY <1>2, <1>3, <1>4, <1>5, <1>6, <1>7, <1>8, <1>9, <1>10

LEMMA DrainedQueue ==
    ASSUME QInv, Drained
    PROVE  QInv'
<1>1. /\ Basic /\ DataType' /\ thread["poller"].pc = "drain" /\ UNCHANGED <<next, head, tail, node>>
      /\ QueueInv /\ "poller" \in Threads
  BY ChanData DEF QInv, Drained, Poller, At, Threads
<1>2. PICK c \in todo : IF c \in events
            THEN thread' = [thread EXCEPT !["poller"].pc = "update", !["poller"].item = c]
            ELSE UNCHANGED thread
  BY DEF Drained
<1>3. c \in Channels
  BY <1>1 DEF Basic, DataType
<1>4. CASE c \in events
  <2>1. /\ ThreadsOK'
        /\ Now("poller", "update", thread["poller"].then, c, thread["poller"].prev,
               thread["poller"].ready, thread["poller"].first)
    BY <1>1, <1>2, <1>3, <1>4, DrainNow
  <2>2. Others("poller") /\ thread'["poller"].pc = "update"
    BY <2>1 DEF Now, Others
  <2> QED
    BY <1>1, <2>1, <2>2, PollerKeeps DEF SameQueued
<1>5. CASE c \notin events
  <2>1. UNCHANGED thread /\ ThreadsOK'
    BY <1>1, <1>2, <1>5, ThreadsStay DEF Basic
  <2>2. Others("poller") /\ thread'["poller"].pc = "drain"
    BY <1>1, <2>1 DEF Others
  <2>3. QueueInv'
    BY <1>1, <2>2, QueueKept DEF SameQueued
  <2> QED
    BY <1>1, <2>1, <2>3 DEF QInv, Basic
<1> QED
  BY <1>4, <1>5

(* The steps of the poll: the markers, the pops and what it does to a node. *)
LEMMA PrepareQueue ==
    ASSUME QInv, prepare_for_sleep
    PROVE  QInv'
<1>1. /\ Basic /\ DataType' /\ ThreadsOK' /\ thread["poller"].pc = "prepare" /\ node' = node
  BY prepare_for_sleepNow, QueueData DEF QInv, prepare_for_sleep, Poller, At
<1>2. Others("poller") /\ thread'["poller"].pc \in {"block", "select"}
  BY <1>1, prepare_for_sleepNow DEF PollerAt, Now, Others
<1>3. PICK q \in [Nat -> Items], lo \in Nat, hi \in Nat : Queue(q, lo, hi)
  BY DEF QInv, QueueInv
<1>4. CASE tail = "end" /\ head = "end"
  <2>1. next' = [next EXCEPT !["sleep"] = "null"] /\ head' = "sleep" /\ tail' = "sleep"
    BY <1>4 DEF prepare_for_sleep
  <2>2. "sleep" \in Markers /\ tail \in Markers /\ head = tail
    BY <1>4 DEF Markers
  <2> QED
    BY <1>1, <1>2, <1>3, <2>1, <2>2, QueueSwaps DEF QInv, Basic
<1>5. CASE tail = "end" /\ head # "end"
  <2>1. next' = [next EXCEPT !["sleep"] = "null"] /\ head' = head /\ tail' = tail
    BY <1>5 DEF prepare_for_sleep
  <2>2. "sleep" \in Markers /\ tail \in Markers \ {"sleep"}
    BY <1>5 DEF Markers
  <2> QED
    BY <1>1, <1>2, <1>3, <2>1, <2>2, QueueUnused DEF QInv, Basic
<1>6. CASE tail # "end"
  <2>1. UNCHANGED <<next, head, tail>>
    BY <1>6 DEF prepare_for_sleep
  <2> QED
    BY <1>1, <1>2, <2>1, PollerKeeps DEF SameQueued
<1> QED
  BY <1>4, <1>5, <1>6

LEMMA ClearQueue ==
    ASSUME QInv, ClearSleepMarker
    PROVE  QInv'
<1>1. /\ Basic /\ DataType' /\ ThreadsOK' /\ thread["poller"].pc = "clear" /\ node' = node
  BY ToDrainNow, QueueData DEF QInv, ClearSleepMarker, Poller, At
<1>2. Others("poller") /\ thread'["poller"].pc = "drain"
  BY <1>1, ToDrainNow DEF PollerAt, Now, Others
<1>3. PICK q \in [Nat -> Items], lo \in Nat, hi \in Nat : Queue(q, lo, hi)
  BY DEF QInv, QueueInv
<1>4. CASE tail = "sleep" /\ head = "sleep"
  <2>1. next' = [next EXCEPT !["end"] = "null"] /\ head' = "end" /\ tail' = "end"
    BY <1>4 DEF ClearSleepMarker
  <2>2. "end" \in Markers /\ tail \in Markers /\ head = tail
    BY <1>4 DEF Markers
  <2> QED
    BY <1>1, <1>2, <1>3, <2>1, <2>2, QueueSwaps DEF QInv, Basic
<1>5. CASE tail = "sleep" /\ head # "sleep"
  <2>1. next' = [next EXCEPT !["end"] = "null"] /\ head' = head /\ tail' = tail
    BY <1>5 DEF ClearSleepMarker
  <2>2. "end" \in Markers /\ tail \in Markers \ {"end"}
    BY <1>5 DEF Markers
  <2> QED
    BY <1>1, <1>2, <1>3, <2>1, <2>2, QueueUnused DEF QInv, Basic
<1>6. CASE tail # "sleep"
  <2>1. UNCHANGED <<next, head, tail>>
    BY <1>6 DEF ClearSleepMarker
  <2> QED
    BY <1>1, <1>2, <2>1, PollerKeeps DEF SameQueued
<1> QED
  BY <1>4, <1>5, <1>6

LEMMA SkipMarkerQueue ==
    ASSUME QInv, SkipMarker
    PROVE  QInv'
<1>1. /\ Basic /\ DataType' /\ ThreadsOK' /\ thread["poller"].pc = "poll" /\ tail \in Markers
      /\ UNCHANGED <<next, head, node>>
  BY SkipMarkerNow, QueueData DEF QInv, SkipMarker, Poller, At
<1>2. /\ Others("poller")
      /\ thread'["poller"].pc = IF next[tail] = "null" THEN "clear" ELSE "pop"
  BY <1>1, SkipMarkerNow DEF PollerAt, Now, Others
<1>3. PICK q \in [Nat -> Items], lo \in Nat, hi \in Nat : Queue(q, lo, hi)
  BY DEF QInv, QueueInv
<1>4. CASE next[tail] = "null"
  <2>1. tail' = tail
    BY <1>4 DEF SkipMarker
  <2> QED
    BY <1>1, <1>2, <1>4, <2>1, PollerKeeps DEF SameQueued
<1>5. CASE next[tail] # "null"
  <2>1. tail' = next[tail]
    BY <1>5 DEF SkipMarker
  <2> QED
    BY <1>1, <1>2, <1>3, <1>5, <2>1, QueuePops DEF QInv, Basic
<1> QED
  BY <1>4, <1>5

LEMMA PopQueue ==
    ASSUME QInv, NEW pc, NEW otherwise \in {"check", "stop"}, Pop(pc, otherwise),
           pc \in {"poll", "pop", "pop_again"}, tail \in Channels, DataType'
    PROVE  QInv'
<1>1. /\ Basic /\ thread["poller"].pc \in {"poll", "pop", "pop_again"}
      /\ UNCHANGED <<next, head, node>>
  BY DEF QInv, Pop, Poller, At
<1>2. PICK q \in [Nat -> Items], lo \in Nat, hi \in Nat : Queue(q, lo, hi)
  BY DEF QInv, QueueInv
<1>3. /\ ThreadsOK'
      /\ IF next[tail] = "null" THEN PollerAt(otherwise)
         ELSE Now("poller", "process", thread["poller"].then, tail, thread["poller"].prev,
                  thread["poller"].ready, thread["poller"].first)
  BY <1>1, PopNow
<1>4. CASE next[tail] = "null"
  <2>1. tail' = tail
    BY <1>4 DEF Pop
  <2>2. Others("poller") /\ thread'["poller"].pc = otherwise
    BY <1>3, <1>4 DEF PollerAt, Now, Others
  <2> QED
    BY <1>1, <1>3, <2>1, <2>2, PollerKeeps DEF SameQueued
<1>5. CASE next[tail] # "null"
  <2>1. tail' = next[tail]
    BY <1>5 DEF Pop
  <2>2. Others("poller") /\ thread'["poller"].pc = "process" /\ thread'["poller"].item = tail
    BY <1>3, <1>5 DEF Now, Others
  <2> QED
    BY <1>1, <1>2, <1>3, <1>5, <2>1, <2>2, QueuePops DEF QInv, Basic
<1> QED
  BY <1>4, <1>5

LEMMA PoppingQueue ==
    ASSUME QInv, PopFirst \/ PopSecond
    PROVE  QInv'
<1>1. Basic /\ DataType' /\ tail \in Items
  BY QueueData DEF QInv, Basic, DataType
<1>2. thread["poller"].pc \in {"pop", "pop_again"} => tail \in Channels
  BY DEF QInv, QueueInv, Queue, Marks
<1>3. CASE tail \notin Markers /\ Pop("poll", "check")
  <2>1. tail \in Channels
    BY <1>1, <1>3 DEF Items
  <2> QED
    BY <1>1, <1>3, <2>1, PopQueue
<1>4. CASE Pop("pop", "check")
  <2>1. tail \in Channels
    BY <1>2, <1>4 DEF Pop, Poller, At
  <2> QED
    BY <1>1, <1>4, <2>1, PopQueue
<1>5. CASE Pop("pop_again", "stop")
  <2>1. tail \in Channels
    BY <1>2, <1>5 DEF Pop, Poller, At
  <2> QED
    BY <1>1, <1>5, <2>1, PopQueue
<1> QED
  BY <1>3, <1>4, <1>5 DEF PopFirst, PopSecond

LEMMA CheckHeadQueue ==
    ASSUME QInv, CheckHead
    PROVE  QInv'
<1>1. /\ Basic /\ DataType' /\ ThreadsOK' /\ thread["poller"].pc = "check"
      /\ UNCHANGED <<next, head, tail, node>> /\ At("poller", "check")
  BY CheckHeadNow, QueueData DEF QInv, CheckHead, Poller, At
<1>2. PICK q \in [Nat -> Items], lo \in Nat, hi \in Nat : Queue(q, lo, hi)
  BY DEF QInv, QueueInv
<1>3. IF head = tail
      THEN Now("poller", "enqueue", "pop_again", "end", thread["poller"].prev,
               thread["poller"].ready, thread["poller"].first)
      ELSE PollerAt("stop")
  BY <1>1, CheckHeadNow
<1>4. CASE head = tail
  <2>1. Others("poller") /\ thread'["poller"].pc = "enqueue" /\ thread'["poller"].item = "end"
    BY <1>3, <1>4 DEF Now, Others
  <2> QED
    BY <1>1, <1>2, <1>4, <2>1, QueueChecked DEF QInv, Basic, QueueInv
<1>5. CASE head # tail
  <2>1. Others("poller") /\ thread'["poller"].pc = "stop"
    BY <1>3, <1>5 DEF PollerAt, Now, Others
  <2> QED
    BY <1>1, <2>1, PollerKeeps DEF SameQueued
<1> QED
  BY <1>4, <1>5

LEMMA ProcessQueue ==
    ASSUME QInv, Process
    PROVE  QInv'
<1> DEFINE c == Item("poller")
<1>1. /\ Basic /\ DataType' /\ ThreadsOK' /\ At("poller", "process") /\ c \in Channels
      /\ UNCHANGED <<next, head, tail>>
  BY ProcessNow, NodeData DEF QInv, Process, Poller
<1>2. PICK q \in [Nat -> Items], lo \in Nat, hi \in Nat : Queue(q, lo, hi)
  BY DEF QInv, QueueInv
<1>3. Others("poller") /\ thread'["poller"].pc = "poll"
  BY <1>1, ProcessNow DEF PollerRests, Now, Others
<1>4. ~node'[c].queued /\ \A d \in Channels : d # c => node'[d].queued = node[d].queued
  BY <1>1 DEF Process, Basic, DataType
<1> HIDE DEF c
<1>5. Queue(q, lo, hi)'
  BY <1>1, <1>2, <1>3, <1>4, QueueReleases DEF c
<1> QED
  BY <1>1, <1>5 DEF QInv, Basic, QueueInv

LEMMA ReregisterQueue ==
    ASSUME QInv, Reregister
    PROVE  QInv'
<1> DEFINE c == Item("poller")
           new == Rearmed(node[c])
<1>1. /\ Basic /\ DataType' /\ ThreadsOK' /\ thread["poller"].pc = "update" /\ c \in Channels
      /\ UNCHANGED <<next, head, tail>> /\ "poller" \in Threads
      /\ IF MustEnqueue(node[c], new)
         THEN Now("poller", "enqueue", "drain", c, thread["poller"].prev,
                  thread["poller"].ready, thread["poller"].first)
         ELSE PollerRests("drain")
  BY ReregisterNow, NodeData DEF QInv, Reregister, Poller, At, Threads
<1>2. node' = [node EXCEPT ![c] = new]
  BY DEF Reregister
<1>3. new.queued = (node[c].queued \/ new.queued) /\ node[c].queued \in BOOLEAN /\ new.queued \in BOOLEAN
  BY <1>1 DEF Rearmed, Announced, Effective, Basic, DataType
<1>4. node'[c].queued = new.queued /\ \A d \in Channels : d # c => node'[d].queued = node[d].queued
  BY <1>1, <1>2 DEF Basic, DataType
<1> HIDE DEF new, c
<1>5. CASE MustEnqueue(node[c], new)
  <2>1. PICK q \in [Nat -> Items], lo \in Nat, hi \in Nat : Queue(q, lo, hi)
    BY DEF QInv, QueueInv
  <2>2. Others("poller") /\ thread'["poller"].pc = "enqueue" /\ thread'["poller"].item = c
    BY <1>1, <1>5 DEF Now, Others
  <2>3. ~node[c].queued /\ node'[c].queued
    BY <1>4, <1>5 DEF MustEnqueue
  <2>4. Queue(q, lo, hi)'
    BY <1>1, <1>4, <2>1, <2>2, <2>3, QueueTakes
  <2> QED
    BY <1>1, <2>4 DEF QInv, Basic, QueueInv
<1>6. CASE ~MustEnqueue(node[c], new)
  <2>1. SameQueued
    BY <1>3, <1>4, <1>6 DEF SameQueued, MustEnqueue
  <2>2. Others("poller") /\ thread'["poller"].pc = "drain"
    BY <1>1, <1>6 DEF PollerRests, Now, Others
  <2> QED
    BY <1>1, <2>1, <2>2, PollerKeeps
<1> QED
  BY <1>5, <1>6

-----------------------------------------------------------------------------

LEMMA BasicInit == Init => Basic
<1> SUFFICES ASSUME Init PROVE Basic
  OBVIOUS
<1>1. DataType
  <2>1. 0 \in 0 .. WordSize - 1
    BY ReadinessAssumption
  <2>2. sends \in [Senders -> Int] /\ \A s \in Senders : sends[s] >= -1 /\ sends[s] <= MaxSends[s]
    BY Constants DEF Init
  <2> QED
    BY <2>1, <2>2 DEF Init, DataType, Items, Markers
<1>2. ThreadsOK
  <2>1. \A pc \in {"register", "idle"} : Resting(pc) \in Local
    BY DEF Resting, Local, Pcs, PollerPcs, SenderPcs
  <2>2. thread \in [Threads -> Local]
    BY <2>1 DEF Init
  <2>3. \A s \in Senders : thread[s] = Resting("idle")
    BY Constants DEF Init, Threads
  <2>4. thread["poller"] = Resting("register")
    BY DEF Init, Threads
  <2>5. \A s \in Senders : SenderOK(s, thread[s])
    BY <2>3 DEF SenderOK, Resting, SenderPcs, PushPcs
  <2>6. PollerOK(thread["poller"])
    BY <2>4 DEF PollerOK, Resting, PollerPcs, PushPcs, NodePcs
  <2> QED
    BY <2>2, <2>5, <2>6 DEF ThreadsOK
<1> QED
  BY <1>1, <1>2 DEF Basic

(* At first the queue is end_marker alone. *)
LEMMA QueueInit == Init => QInv
<1> SUFFICES ASSUME Init PROVE QInv
  OBVIOUS
<1>1. PICK q \in [Nat -> Items] : q = [n \in Nat |-> "end"]
  BY ItemFacts
<1>2. 0 .. 0 = {0} /\ 0 .. 0 - 1 = {} /\ q[0] = "end" /\ 0 <= 0
  BY <1>1
<1>3. \A t \in Threads : thread[t].pc \in {"register", "idle"}
  BY DEF Init, Resting
<1>4. \A i : InLine(q, 0, 0, i) <=> i = "end"
  BY <1>2 DEF InLine
<1>5. Line(q, 0, 0)
  BY <1>2 DEF Line, Init
<1>6. next["end"] = "null" /\ \A c \in Channels : ~node[c].queued
  BY ItemFacts DEF Init
<1>7. Links(q, 0, 0)
  BY <1>2, <1>3, <1>6 DEF Links, At
<1>8. Marks(q, 0, 0)
  BY <1>3, <1>4 DEF Marks, At, Threads
<1>9. Flags(q, 0, 0)
  BY <1>3, <1>4, <1>6, ItemFacts DEF Flags, Holds, At
<1> QED
  BY <1>5, <1>7, <1>8, <1>9, BasicInit DEF QInv, QueueInv, Queue

LEMMA QueueStays == ASSUME QInv, UNCHANGED vars PROVE QInv'
<1>1. DataType'
  BY DEF QInv, Basic, DataType, vars
<1>2. ThreadsOK'
  BY ThreadsStay DEF QInv, Basic, vars
<1>3. PICK q \in [Nat -> Items], lo \in Nat, hi \in Nat : Queue(q, lo, hi)
  BY DEF QInv, QueueInv
<1>4. UNCHANGED <<node, next, head, tail, thread>>
  BY DEF vars
<1>5. Line(q, lo, hi)' /\ Links(q, lo, hi)'
  BY <1>3, <1>4 DEF Queue, Line, Links, At, Item
<1>6. Marks(q, lo, hi)' /\ Flags(q, lo, hi)'
  BY <1>3, <1>4 DEF Queue, Marks, Flags, Holds, At, Item, InLine
<1>7. QueueInv'
  BY <1>5, <1>6 DEF QueueInv, Queue
<1> QED
  BY <1>1, <1>2, <1>7 DEF QInv, Basic

(* Every step keeps the queue. *)
LEMMA QueueNext == QInv /\ [Next]_vars => QInv'
<1> SUFFICES ASSUME QInv, [Next]_vars PROVE QInv'
  OBVIOUS
<1>1. ASSUME NEW t \in Threads, Shared(t) PROVE QInv'
  BY <1>1, SetReadinessQueue, EnqueueQueue, LinkQueue, WakeupQueue DEF Shared
<1>2. CASE PollerStep \/ OtherEvent \/ ZeroTimeout
  <2>1. "poller" \in Threads
    BY DEF Threads
  <2> QED
    BY <1>1, <1>2, <2>1, ReceiverQueue, PrepareQueue, SkipMarkerQueue, ClearQueue, PoppingQueue,
       CheckHeadQueue, ProcessQueue, DrainedQueue, ReregisterQueue DEF PollerStep
<1>3. ASSUME NEW s \in Senders, SenderStep(s) \/ Send(s) \/ DropSender(s) PROVE QInv'
  <2>1. s \in Threads
    BY DEF Threads
  <2> QED
    BY <1>1, <1>3, <2>1, SendersQueue DEF SenderStep
<1> QED
  BY <1>2, <1>3, QueueStays DEF Next

(* The queue, as the list q sees it, is sound in every state. *)
LEMMA QueueHolds == Spec => []QInv
  BY QueueInit, QueueNext, PTL DEF Spec

-----------------------------------------------------------------------------
(* QueueSound: what the recursive definition of Chain computes. *)

LEMMA ItemsFinite == IsFiniteSet(Items) /\ Cardinality(Items) \in Nat
<1>1. IsFiniteSet(Channels) /\ IsFiniteSet({"end"}) /\ IsFiniteSet({"sleep"})
  BY ReadinessAssumption, FS_Singleton
<1>2. IsFiniteSet({"end"} \cup {"sleep"})
  BY <1>1, FS_Union
<1>3. {"end"} \cup {"sleep"} = Markers
  BY DEF Markers
<1>4. IsFiniteSet(Items)
  BY <1>1, <1>2, <1>3, FS_Union DEF Items
<1> QED
  BY <1>4, FS_CardinalityType

Follows(f) ==
    f = [n \in 0 .. Cardinality(Items) |->
            IF n = 0 THEN tail
            ELSE IF f[n - 1] = "null" THEN "null" ELSE Follower(f[n - 1])]

(* Chain is defined by its equation: some function follows it, and only one. *)
LEMMA ChainDef == Chain = CHOOSE f : Follows(f)
  BY DEF Chain, Follows

(* There is only one such chain. *)
LEMMA FollowsOnce ==
    ASSUME NEW f, NEW w, Follows(f), Follows(w)
    PROVE  f = w
<1> DEFINE N == 0 .. Cardinality(Items)
           D == {n \in N : f[n] # w[n]}
<1>1. SUFFICES D = {}
  <2>1. /\ f = [n \in N |-> f[n]]
        /\ w = [n \in N |-> w[n]]
    BY DEF Follows
  <2> QED
    BY <2>1
<1>2. SUFFICES ASSUME D # {} PROVE FALSE
  OBVIOUS
<1>3. D \subseteq Nat
  OBVIOUS
<1> HIDE DEF D
<1>4. PICK n \in D : \A m \in D : n <= m
  BY <1>2, <1>3, Least
<1>5. n \in N /\ f[n] # w[n] /\ n \in Nat
  BY <1>3 DEF D
<1>6. \A m \in N : /\ f[m] = IF m = 0 THEN tail
                             ELSE IF f[m - 1] = "null" THEN "null" ELSE Follower(f[m - 1])
                   /\ w[m] = IF m = 0 THEN tail
                             ELSE IF w[m - 1] = "null" THEN "null" ELSE Follower(w[m - 1])
  BY DEF Follows
<1>7. n # 0
  BY <1>5, <1>6
<1>8. n - 1 \in N /\ n - 1 \notin D
  <2>1. Cardinality(Items) \in Nat /\ n - 1 \in Nat /\ ~(n <= n - 1)
    BY <1>5, <1>7, ItemsFinite
  <2> QED
    BY <1>4, <1>5, <2>1
<1>9. f[n - 1] = w[n - 1]
  BY <1>8 DEF D
<1> QED
  BY <1>5, <1>6, <1>7, <1>9

(* In the window, what follows q[n] is q[n + 1], and nothing follows the last. *)
LEMMA FollowerIs ==
    ASSUME NEW q \in [Nat -> Items], NEW lo \in Nat, NEW hi \in Nat, Queue(q, lo, hi),
           NEW n \in lo .. hi
    PROVE  Follower(q[n]) = IF n = hi THEN "null" ELSE q[n + 1]
<1> DEFINE linking == {t \in Threads : At(t, "link") /\ thread[t].prev = q[n]}
<1>1. Follower(q[n]) = IF linking = {} THEN next[q[n]] ELSE Item(CHOOSE t \in linking : TRUE)
  BY DEF Follower
<1>2. \A t \in linking : n # hi /\ Item(t) = q[n + 1] /\ next[q[n]] = "null"
  <2> SUFFICES ASSUME NEW t \in linking
               PROVE  n # hi /\ Item(t) = q[n + 1] /\ next[q[n]] = "null"
    OBVIOUS
  <2>1. PICK m \in lo .. hi - 1 : thread[t].prev = q[m] /\ Item(t) = q[m + 1] /\ next[q[m]] = "null"
    BY DEF Queue, Links
  <2>2. m \in lo .. hi /\ m # hi
    BY <2>1
  <2>3. m = n
    BY <2>1, <2>2 DEF Queue, Line
  <2> QED
    BY <2>1, <2>2, <2>3
<1>3. CASE linking = {}
  <2>1. CASE n = hi
    BY <1>1, <1>3, <2>1 DEF Queue, Links
  <2>2. CASE n # hi
    <3>1. n \in lo .. hi - 1
      BY <2>2
    <3> QED
      BY <1>1, <1>3, <2>2, <3>1 DEF Queue, Links
  <2> QED
    BY <2>1, <2>2
<1>4. CASE linking # {}
  <2>1. (CHOOSE t \in linking : TRUE) \in linking
    BY <1>4
  <2> HIDE DEF linking
  <2> QED
    BY <1>1, <1>2, <1>4, <2>1
<1> QED
  BY <1>3, <1>4

(* The line has no more items than there are. *)
LEMMA LineFits ==
    ASSUME NEW q \in [Nat -> Items], NEW lo \in Nat, NEW hi \in Nat, Queue(q, lo, hi)
    PROVE  Cardinality(Items) \in Nat /\ hi - lo + 1 <= Cardinality(Items)
<1> DEFINE f == [n \in lo .. hi |-> q[n]]
<1>1. lo <= hi /\ lo \in Int /\ hi \in Int
  BY DEF Queue, Line
<1>2. f \in [lo .. hi -> Items] /\ \A m, n \in lo .. hi : f[m] = f[n] => m = n
  BY DEF Queue, Line
<1> HIDE DEF f
<1>3. f \in Injection(lo .. hi, Items)
  BY <1>2 DEF Injection, IsInjective
<1>4. Cardinality(lo .. hi) <= Cardinality(Items)
  BY <1>3, ItemsFinite, FS_Injection
<1>5. Cardinality(lo .. hi) = hi - lo + 1
  BY <1>1, FS_Interval
<1> QED
  BY <1>4, <1>5, ItemsFinite, FS_CardinalityType

(* So Chain runs through the window. *)
LEMMA ChainIs ==
    ASSUME NEW q \in [Nat -> Items], NEW lo \in Nat, NEW hi \in Nat, Queue(q, lo, hi)
    PROVE  Chain = [n \in 0 .. Cardinality(Items) |-> IF n <= hi - lo THEN q[lo + n] ELSE "null"]
<1> DEFINE N == 0 .. Cardinality(Items)
           w == [n \in N |-> IF n <= hi - lo THEN q[lo + n] ELSE "null"]
<1>1. Cardinality(Items) \in Nat /\ lo <= hi /\ q[lo] = tail
  BY LineFits DEF Queue, Line
<1>2. ASSUME NEW n \in N
      PROVE  w[n] = IF n = 0 THEN tail
                    ELSE IF w[n - 1] = "null" THEN "null" ELSE Follower(w[n - 1])
  <2>1. CASE n = 0
    BY <1>1, <2>1
  <2>2. CASE n # 0
    <3>1. n - 1 \in N /\ n \in Nat
      BY <1>1, <2>2
    <3>2. CASE n - 1 <= hi - lo
      <4>1. lo + (n - 1) \in lo .. hi /\ lo + (n - 1) + 1 = lo + n /\ (lo + (n - 1) = hi <=> ~(n <= hi - lo))
        BY <1>1, <3>1, <3>2
      <4>2. w[n - 1] = q[lo + (n - 1)] /\ w[n - 1] # "null"
        BY <3>1, <3>2, <4>1, ItemFacts
      <4>3. Follower(w[n - 1]) = IF lo + (n - 1) = hi THEN "null" ELSE q[lo + n]
        BY <4>1, <4>2, FollowerIs
      <4> QED
        BY <2>2, <4>1, <4>2, <4>3
    <3>3. CASE ~(n - 1 <= hi - lo)
      BY <1>1, <2>2, <3>1, <3>3
    <3> QED
      BY <3>2, <3>3
  <2> QED
    BY <2>1, <2>2
<1>3. Follows(w)
  <2>1. w = [n \in N |-> w[n]]
    OBVIOUS
  <2> HIDE DEF w
  <2> QED
    BY <1>2, <2>1 DEF Follows
<1> HIDE DEF w
<1>4. Follows(Chain)
  BY <1>3, ChainDef
<1> QED
  BY <1>3, <1>4, FollowsOnce DEF w

(* An item is in the queue when it is in the window. *)
LEMMA InQueueIs ==
    ASSUME NEW q \in [Nat -> Items], NEW lo \in Nat, NEW hi \in Nat, Queue(q, lo, hi),
           NEW i \in Items
    PROVE  InQueue(i) <=> InLine(q, lo, hi, i)
<1> DEFINE N == 0 .. Cardinality(Items)
<1>1. Cardinality(Items) \in Nat /\ hi - lo + 1 <= Cardinality(Items) /\ i # "null"
  BY LineFits, ItemFacts
<1>2. DOMAIN Chain = N /\ \A n \in N : Chain[n] = IF n <= hi - lo THEN q[lo + n] ELSE "null"
  <2> DEFINE w == [n \in N |-> IF n <= hi - lo THEN q[lo + n] ELSE "null"]
  <2>1. Chain = w
    BY ChainIs
  <2>2. DOMAIN w = N /\ \A n \in N : w[n] = IF n <= hi - lo THEN q[lo + n] ELSE "null"
    OBVIOUS
  <2> HIDE DEF w
  <2> QED
    BY <2>1, <2>2
<1>3. \A n \in N : n <= hi - lo => lo + n \in lo .. hi
  BY <1>1
<1>4. \A m \in lo .. hi : m - lo \in N /\ m - lo <= hi - lo /\ lo + (m - lo) = m
  BY <1>1
<1>5. ASSUME InQueue(i) PROVE InLine(q, lo, hi, i)
  <2>1. PICK n \in N : Chain[n] = i
    BY <1>2, <1>5 DEF InQueue
  <2> QED
    BY <1>1, <1>2, <1>3, <2>1 DEF InLine
<1>6. ASSUME InLine(q, lo, hi, i) PROVE InQueue(i)
  <2>1. PICK m \in lo .. hi : q[m] = i
    BY <1>6 DEF InLine
  <2>2. m - lo \in N /\ Chain[m - lo] = i
    BY <1>2, <1>4, <2>1
  <2> QED
    BY <1>2, <2>2 DEF InQueue
<1> QED
  BY <1>5, <1>6

(* The queue of the readiness poll is a list from the tail to the head and *)
(* the queued flags say what is on it or about to be, in every state.      *)
THEOREM QueueIsSound == Spec => []QueueSound
<1>1. ASSUME QInv PROVE QueueSound
  <2>1. PICK q \in [Nat -> Items], lo \in Nat, hi \in Nat : Queue(q, lo, hi)
    BY <1>1 DEF QInv, QueueInv
  <2>2. Chain[Cardinality(Items)] = "null"
    <3>1. Cardinality(Items) \in 0 .. Cardinality(Items) /\ ~(Cardinality(Items) <= hi - lo)
      BY <2>1, LineFits
    <3> QED
      BY <2>1, <3>1, ChainIs
  <2>3. InQueue(head) /\ Follower(head) = "null"
    <3>1. hi \in lo .. hi /\ q[hi] = head /\ head \in Items
      BY <2>1 DEF Queue, Line
    <3>2. Follower(q[hi]) = "null"
      BY <2>1, <3>1, FollowerIs
    <3>3. InLine(q, lo, hi, head)
      BY <3>1 DEF InLine
    <3> QED
      BY <2>1, <3>1, <3>2, <3>3, InQueueIs
  <2>4. \A t \in Threads : At(t, "link") => next[thread[t].prev] = "null"
    BY <2>1 DEF Queue, Links
  <2>5. ASSUME NEW c \in Channels
        PROVE  Cardinality(Holders(c)) + (IF InQueue(c) THEN 1 ELSE 0) = IF node[c].queued THEN 1 ELSE 0
    <3>1. InQueue(c) <=> InLine(q, lo, hi, c)
      BY <2>1, InQueueIs DEF Items
    <3>2. \A t : t \in Holders(c) <=> t \in Threads /\ Holds(t, c)
      BY DEF Holders, Holds, Poller, Threads
    <3>3. CASE \E t \in Threads : Holds(t, c)
      <4>1. PICK t \in Threads : Holds(t, c)
        BY <3>3
      <4>2. Holders(c) = {t}
        BY <2>1, <3>2, <4>1 DEF Queue, Flags
      <4>3. node[c].queued /\ ~InQueue(c)
        BY <2>1, <3>1, <4>1 DEF Queue, Flags
      <4>4. Cardinality(Holders(c)) = 1
        BY <4>2, FS_Singleton
      <4> QED
        BY <4>3, <4>4
    <3>4. CASE ~\E t \in Threads : Holds(t, c)
      <4>1. Holders(c) = {}
        BY <3>2, <3>4
      <4>2. node[c].queued <=> InQueue(c)
        BY <2>1, <3>1, <3>4 DEF Queue, Flags
      <4>3. Cardinality(Holders(c)) = 0
        BY <4>1, FS_EmptySet
      <4> QED
        BY <4>2, <4>3
    <3> QED
      BY <3>3, <3>4
  <2> QED
    BY <2>2, <2>3, <2>4, <2>5 DEF QueueSound
<1> QED
  BY <1>1, QueueHolds, PTL

-----------------------------------------------------------------------------
(* Which nodes are armed: all of them, but for those whose event the poll  *)
(* has returned; the thread arms these again before it polls.              *)

Registering(r) == r.pc \in {"register", "look", "fill"} \/ (r.pc \in PushPcs /\ r.then = "fill")
Draining(r) ==
    r.pc \in {"drain", "load", "sub", "update"} \/ (r.pc \in PushPcs /\ r.then \in {"sub", "drain"})
Asleep(r) == r.pc \in {"prepare", "block", "select", "cleanup"}
Filling(r) == r.pc = "fill" \/ (r.pc \in PushPcs /\ r.then = "fill")

Armed(r) ==
    /\ Registering(r) => events = {} /\ \A c \in Channels : node[c].interest \/ c \in todo
    /\ Draining(r) => events \subseteq todo \cup {c \in {r.item} : r.pc = "update"}
    /\ Asleep(r) => events = {}
    /\ ~Registering(r) => \A c \in Channels : node[c].interest \/ c \in events

(* The receiver of every channel has looked at its counter, or will. *)
Looked(r) ==
    /\ \A c \in Channels :
            \/ chan[c].registered # "no"
            \/ Registering(r) /\ (c \in todo \/ (r.pc = "look" /\ r.item = c))
    /\ Filling(r) => chan[r.item].registered # "no"

ArmedInv == Armed(thread["poller"]) /\ Looked(thread["poller"])

(* At first the poller registers, and no channel has been looked at. *)
LEMMA ArmedInit == ASSUME Init PROVE ArmedInv
<1>1. thread["poller"] = Resting("register")
  BY DEF Init, Threads
<1>2. thread["poller"].pc = "register" /\ events = {} /\ todo = Channels
  BY <1>1 DEF Resting, Init
<1>3. Registering(thread["poller"]) /\ ~Draining(thread["poller"]) /\ ~Asleep(thread["poller"])
      /\ ~Filling(thread["poller"])
  BY <1>2 DEF Registering, Draining, Asleep, Filling, PushPcs
<1> QED
  BY <1>2, <1>3 DEF ArmedInv, Armed, Looked

(* While it registers a channel, the poller holds it. *)
LEMMA FillingItem ==
    ASSUME Basic, Filling(thread["poller"])
    PROVE  thread["poller"].item \in Channels
  BY DEF Basic, ThreadsOK, PollerOK, Filling, NodePcs

(* The same phase, and nothing has changed that matters. *)
LEMMA ArmedFrame ==
    ASSUME Basic, ArmedInv, UNCHANGED <<events, todo>>,
           \A c \in Channels : /\ node'[c].interest = node[c].interest
                               /\ chan'[c].registered = chan[c].registered,
           \/ thread'["poller"] = thread["poller"]
           \/ /\ Registering(thread'["poller"]) <=> Registering(thread["poller"])
              /\ Draining(thread'["poller"]) => Draining(thread["poller"]) /\ thread["poller"].pc # "update"
              /\ Asleep(thread'["poller"]) => Asleep(thread["poller"])
              /\ thread["poller"].pc # "look"
              /\ Filling(thread'["poller"]) =>
                    Filling(thread["poller"]) /\ thread'["poller"].item = thread["poller"].item
    PROVE  ArmedInv'
<1> DEFINE r == thread["poller"]
           p == thread'["poller"]
<1>1. CASE p = r
  <2>1. Armed(r)'
    BY <1>1 DEF ArmedInv, Armed, Registering, Draining, Asleep
  <2>2. Looked(r)'
    <3>1. Filling(r) => r.item \in Channels
      BY FillingItem
    <3>2. Looked(r)
      BY DEF ArmedInv
    <3> QED
      BY <1>1, <3>1, <3>2 DEF Looked, Registering, Filling
  <2> QED
    BY <2>1, <2>2 DEF ArmedInv
<1>2. ASSUME Registering(p) <=> Registering(r),
             Draining(p) => Draining(r) /\ r.pc # "update",
             Asleep(p) => Asleep(r), r.pc # "look",
             Filling(p) => Filling(r) /\ p.item = r.item
      PROVE  ArmedInv'
  <2>0. Filling(r) => r.item \in Channels
    BY FillingItem
  <2> HIDE DEF r, p
  <2>1. Armed(r) /\ Looked(r)
    BY DEF ArmedInv, r
  <2>2. /\ Registering(p) => events' = {} /\ \A c \in Channels : node'[c].interest \/ c \in todo'
        /\ Draining(p) => events' \subseteq todo'
        /\ Asleep(p) => events' = {}
        /\ ~Registering(p) => \A c \in Channels : node'[c].interest \/ c \in events'
    BY <1>2, <2>1 DEF Armed
  <2>3. /\ \A c \in Channels : chan'[c].registered # "no" \/ (Registering(p) /\ c \in todo')
        /\ Filling(p) => chan'[p.item].registered # "no"
    BY <1>2, <2>0, <2>1 DEF Looked
  <2>4. Armed(r)' /\ Looked(r)'
    BY <2>2, <2>3 DEF p, r, Armed, Looked, Registering, Draining, Asleep, Filling
  <2> QED
    BY <2>4 DEF ArmedInv, r
<1> QED
  BY <1>1, <1>2

(* A push does not change the phase the poller is in. *)
LEMMA PollerPushPhases ==
    ASSUME Basic, thread["poller"].pc \in PushPcs,
           \/ /\ thread'["poller"].pc \in PushPcs
              /\ thread'["poller"].then = thread["poller"].then
              /\ thread'["poller"].item = thread["poller"].item
           \/ Leaves("poller")
    PROVE  /\ Registering(thread'["poller"]) <=> Registering(thread["poller"])
           /\ Draining(thread'["poller"]) <=> Draining(thread["poller"])
           /\ ~Asleep(thread'["poller"])
           /\ thread["poller"].pc \notin {"look", "update"}
           /\ Filling(thread'["poller"]) =>
                Filling(thread["poller"]) /\ thread'["poller"].item = thread["poller"].item
<1>1. thread["poller"].then \in {"fill", "sub", "drain", "pop_again"}
  BY PushFacts DEF Threads
<1>2. CASE Leaves("poller")
  BY <1>1, <1>2 DEF Leaves, Now, Registering, Draining, Asleep, Filling, PushPcs
<1>3. CASE thread'["poller"].pc \in PushPcs /\ thread'["poller"].then = thread["poller"].then
           /\ thread'["poller"].item = thread["poller"].item
  BY <1>1, <1>3 DEF Registering, Draining, Asleep, Filling, PushPcs
<1> QED
  BY <1>2, <1>3

(* A push arms and disarms nothing. *)
LEMMA SharedArmed ==
    ASSUME Basic, ArmedInv, NEW t \in Threads, Shared(t)
    PROVE  ArmedInv'
<1>1. UNCHANGED <<events, todo, chan>>
  BY DEF Shared, SetReadiness, Enqueue, Link, Wakeup
<1>2. \A c \in Channels : node'[c].interest = node[c].interest
  <2>1. CASE SetReadiness(t)
    <3>1. Item(t) \in Channels
      BY <2>1, SetReadinessNow
    <3> QED
      BY <2>1, <3>1 DEF SetReadiness, Announced, Basic, DataType
  <2>2. CASE Enqueue(t) \/ Link(t) \/ Wakeup(t)
    BY <2>2 DEF Enqueue, Link, Wakeup
  <2> QED
    BY <2>1, <2>2 DEF Shared
<1>3. /\ thread[t].pc \in PushPcs
      /\ Others(t)
      /\ \/ /\ thread'[t].pc \in PushPcs /\ thread'[t].then = thread[t].then
            /\ thread'[t].item = thread[t].item
         \/ Leaves(t)
  <2>1. CASE SetReadiness(t)
    BY <2>1, SetReadinessNow DEF SetReadiness, At, PushPcs, Now, Leaves, Others, Item
  <2>2. CASE Enqueue(t)
    BY <2>2, EnqueueStepNow DEF Enqueue, At, PushPcs, Now, Others
  <2>3. CASE Link(t)
    BY <2>3, LinkNow DEF Link, At, PushPcs, Now, Leaves, Others
  <2>4. CASE Wakeup(t)
    BY <2>4, WakeupNow DEF Wakeup, At, PushPcs, Now, Leaves, Others
  <2> QED
    BY <2>1, <2>2, <2>3, <2>4 DEF Shared
<1>4. CASE t = "poller"
  BY <1>1, <1>2, <1>3, <1>4, PollerPushPhases, ArmedFrame
<1>5. CASE t # "poller"
  <2>1. thread'["poller"] = thread["poller"]
    BY <1>3, <1>5 DEF Others, Threads
  <2> QED
    BY <1>1, <1>2, <2>1, ArmedFrame
<1> QED
  BY <1>4, <1>5

(* The senders neither. *)
LEMMA SenderOthers ==
    ASSUME Basic, NEW s \in Senders, Send(s) \/ Inc(s) \/ DropSender(s)
    PROVE  Others(s)
<1>1. CASE Goto(s, "inc") /\ At(s, "idle")
  BY <1>1, SendNow, NowOthers
<1>2. CASE Inc(s)
  BY <1>2, IncNow DEF Now, Others
<1>3. CASE UNCHANGED thread
  BY <1>3 DEF Others
<1> QED
  BY <1>1, <1>2, <1>3 DEF Send, DropSender

LEMMA SendersArmed ==
    ASSUME Basic, ArmedInv, NEW s \in Senders, Send(s) \/ Inc(s) \/ DropSender(s)
    PROVE  ArmedInv'
<1>1. thread'["poller"] = thread["poller"]
  BY SenderOthers, Constants DEF Others, Threads
<1>2. UNCHANGED <<events, todo, node>>
  BY DEF Send, Inc, DropSender
<1>3. ChannelOf[s] \in Channels
  BY Constants
<1>4. \A c \in Channels : chan'[c].registered = chan[c].registered
  <2>1. CASE Send(s)
    <3>1. chan' = [chan EXCEPT ![ChannelOf[s]].messages = @ + 1]
      BY <2>1 DEF Send
    <3> QED
      BY <1>3, <3>1 DEF Basic, DataType
  <2>2. CASE DropSender(s)
    BY <2>2 DEF DropSender
  <2>3. CASE Inc(s)
    <3> DEFINE p == (chan[ChannelOf[s]].pending + 1) % WordSize
               u == chan[ChannelOf[s]].unannounced
                    \/ (chan[ChannelOf[s]].pending = 0 /\ chan[ChannelOf[s]].registered = "looked")
    <3>1. chan' = [chan EXCEPT ![ChannelOf[s]].pending = p, ![ChannelOf[s]].unannounced = u]
      BY <2>3 DEF Inc
    <3> HIDE DEF p, u
    <3> QED
      BY <1>3, <3>1 DEF Basic, DataType
  <2> QED
    BY <2>1, <2>2, <2>3
<1> QED
  BY <1>1, <1>2, <1>4, ArmedFrame

(* The thread registers the receivers. *)
LEMMA RegisterArmed ==
    ASSUME Basic, ArmedInv, Register \/ Look \/ Fill
    PROVE  ArmedInv'
<1> DEFINE r == thread["poller"]
           p == thread'["poller"]
<1>0. Armed(r) /\ Looked(r)
  BY DEF ArmedInv
<1>1. CASE Register /\ todo = {}
  <2>1. r.pc = "register" /\ p.pc = "prepare" /\ UNCHANGED <<events, todo, node, chan>>
    BY <1>1, RegisterNow DEF Register, Poller, At, PollerAt, Now
  <2>2. /\ Registering(r) /\ ~Registering(p) /\ ~Draining(p) /\ Asleep(p) /\ ~Filling(p)
    BY <2>1 DEF Registering, Draining, Asleep, Filling, PushPcs
  <2> HIDE DEF r, p
  <2>3. /\ events' = {} /\ (\A c \in Channels : node'[c].interest /\ chan'[c].registered # "no")
    BY <1>0, <1>1, <2>1, <2>2 DEF Armed, Looked
  <2> QED
    BY <2>2, <2>3 DEF ArmedInv, Armed, Looked, p, Registering, Draining, Asleep, Filling
<1>2. CASE Register /\ todo # {}
  <2>1. PICK c \in todo :
            /\ node' = [node EXCEPT ![c].interest = TRUE] /\ todo' = todo \ {c}
            /\ Now("poller", "look", thread["poller"].then, c, thread["poller"].prev,
                   thread["poller"].ready, thread["poller"].first)
    BY <1>2, RegisterNow
  <2>2. r.pc = "register" /\ p.pc = "look" /\ p.item = c /\ UNCHANGED <<events, chan>> /\ c \in Channels
    BY <1>2, <2>1 DEF Register, Poller, At, Now, Basic, DataType
  <2>3. /\ Registering(r) /\ Registering(p) /\ ~Draining(p) /\ ~Asleep(p) /\ ~Filling(p)
    BY <2>2 DEF Registering, Draining, Asleep, Filling, PushPcs
  <2>4. \A d \in Channels : node'[d].interest = (d = c \/ node[d].interest)
    BY <2>1, <2>2 DEF Basic, DataType
  <2>5. r.pc # "look"
    BY <2>2
  <2> HIDE DEF r, p
  <2>6. /\ events' = {} /\ \A d \in Channels : node'[d].interest \/ d \in todo'
    BY <1>0, <2>1, <2>2, <2>3, <2>4 DEF Armed
  <2>7. \A d \in Channels : chan'[d].registered # "no" \/ d \in todo' \/ p.item = d
    BY <1>0, <2>1, <2>2, <2>5 DEF Looked
  <2> QED
    BY <2>2, <2>3, <2>6, <2>7 DEF ArmedInv, Armed, Looked, p, Registering, Draining, Asleep, Filling
<1>3. CASE Look
  <2> DEFINE c == Item("poller")
  <2>1. /\ r.pc = "look" /\ UNCHANGED <<events, todo, node>> /\ c \in Channels /\ p.item = c /\ r.item = c
        /\ p.pc = "fill" \/ (p.pc = "set" /\ p.then = "fill")
    BY <1>3, LookNow DEF Look, Poller, At, PollerAt, Now, Item
  <2>2. \A d \in Channels : chan'[d].registered = IF d = c THEN "looked" ELSE chan[d].registered
    BY <1>3, <2>1 DEF Look, Basic, DataType
  <2>3. Registering(r) /\ Registering(p) /\ ~Draining(p) /\ ~Asleep(p) /\ Filling(p)
    BY <2>1 DEF Registering, Draining, Asleep, Filling, PushPcs
  <2> HIDE DEF r, p, c
  <2>4. events' = {} /\ \A d \in Channels : node'[d].interest \/ d \in todo'
    BY <1>0, <2>1, <2>3 DEF Armed
  <2>5. (\A d \in Channels : chan'[d].registered # "no" \/ d \in todo') /\ chan'[p.item].registered # "no"
    BY <1>0, <2>1, <2>2 DEF Looked
  <2> QED
    BY <2>3, <2>4, <2>5 DEF ArmedInv, Armed, Looked, p, Registering, Draining, Asleep, Filling
<1>4. CASE Fill
  <2> DEFINE c == Item("poller")
  <2>1. r.pc = "fill" /\ UNCHANGED <<events, todo, node>> /\ c \in Channels /\ p.pc = "register"
    BY <1>4, FillNow DEF Fill, Poller, At, PollerRests, Now, Item
  <2>2. \A d \in Channels : chan'[d].registered = IF d = c THEN "yes" ELSE chan[d].registered
    BY <1>4, <2>1 DEF Fill, Basic, DataType
  <2>3. Registering(r) /\ Registering(p) /\ ~Draining(p) /\ ~Asleep(p) /\ ~Filling(p)
    BY <2>1 DEF Registering, Draining, Asleep, Filling, PushPcs
  <2> HIDE DEF r, p, c
  <2>4. events' = {} /\ \A d \in Channels : node'[d].interest \/ d \in todo'
    BY <1>0, <2>1, <2>3 DEF Armed
  <2>5. (\A d \in Channels : chan'[d].registered # "no" \/ d \in todo')
    BY <1>0, <2>1, <2>2 DEF Looked
  <2> QED
    BY <2>3, <2>4, <2>5 DEF ArmedInv, Armed, Looked, p, Registering, Draining, Asleep, Filling
<1> QED
  BY <1>1, <1>2, <1>3, <1>4

(* Inside a poll no phase begins, until it returns. *)
LEMMA PollArmed ==
    ASSUME Basic, ArmedInv, tail \in Channels \/ ~(PopFirst \/ PopSecond),
           \/ prepare_for_sleep \/ Select \/ Cleanup \/ OtherEvent \/ ZeroTimeout \/ SkipMarker
           \/ PopFirst \/ PopSecond \/ CheckHead
    PROVE  ArmedInv'
<1> DEFINE r == thread["poller"]
           p == thread'["poller"]
<1>1. UNCHANGED <<events, todo, node, chan>>
  BY DEF prepare_for_sleep, Select, Cleanup, OtherEvent, ZeroTimeout, SkipMarker, PopFirst, PopSecond, Pop, CheckHead
<1>2. /\ r.pc \in {"prepare", "select", "block", "cleanup", "poll", "pop", "pop_again", "check"}
      /\ \/ p.pc \in {"poll", "pop", "check", "process", "clear", "stop"}
         \/ p.pc \in {"block", "select", "cleanup"} /\ r.pc \in {"prepare", "select", "block"}
         \/ p.pc = "enqueue" /\ p.then = "pop_again"
  <2>1. CASE prepare_for_sleep
    BY <2>1, prepare_for_sleepNow DEF prepare_for_sleep, Poller, At, PollerAt, Now
  <2>2. CASE Select \/ Cleanup \/ OtherEvent \/ ZeroTimeout
    BY <2>2, PollingNow DEF Select, Cleanup, OtherEvent, ZeroTimeout, Poller, At, PollerAt, Now
  <2>3. CASE SkipMarker
    BY <2>3, SkipMarkerNow DEF SkipMarker, Poller, At, PollerAt, Now
  <2>4. CASE PopFirst \/ PopSecond
    <3>1. tail \in Channels
      BY <2>4
    <3>2. \/ Pop("poll", "check") \/ Pop("pop", "check") \/ Pop("pop_again", "stop")
      BY <2>4 DEF PopFirst, PopSecond
    <3>3. ASSUME NEW pc, NEW otherwise \in {"check", "stop"}, Pop(pc, otherwise)
          PROVE  r.pc = pc /\ p.pc \in {"check", "stop", "process"}
      BY <3>1, <3>3, PopNow DEF Pop, Poller, At, PollerAt, Now
    <3> QED
      BY <3>2, <3>3
  <2>5. CASE CheckHead
    BY <2>5, CheckHeadNow DEF CheckHead, Poller, At, PollerAt, Now
  <2> QED
    BY <2>1, <2>2, <2>3, <2>4, <2>5
<1>3. /\ ~Registering(r) /\ ~Registering(p) /\ ~Draining(p) /\ ~Filling(p) /\ r.pc # "look"
      /\ Asleep(p) => Asleep(r)
  BY <1>2 DEF Registering, Draining, Asleep, Filling, PushPcs
<1> QED
  BY <1>1, <1>3, ArmedFrame

(* The poll returns; an event disarms its node. *)
LEMMA ReturnsArmed ==
    ASSUME Basic, ArmedInv, ClearSleepMarker \/ StopPolling \/ Process
    PROVE  ArmedInv'
<1> DEFINE r == thread["poller"]
           p == thread'["poller"]
<1>0. Armed(r) /\ Looked(r)
  BY DEF ArmedInv
<1>1. CASE ClearSleepMarker \/ StopPolling
  <2>1. /\ r.pc \in {"clear", "stop"} /\ p.pc = "drain" /\ UNCHANGED <<events, node, chan>>
        /\ todo' = Channels /\ events \subseteq Channels
    BY <1>1, ToDrainNow DEF ClearSleepMarker, StopPolling, Poller, At, PollerAt, Now, Basic, DataType
  <2>2. ~Registering(r) /\ ~Registering(p) /\ Draining(p) /\ ~Asleep(p) /\ ~Filling(p)
    BY <2>1 DEF Registering, Draining, Asleep, Filling, PushPcs
  <2> HIDE DEF r, p
  <2>3. (\A c \in Channels : node'[c].interest \/ c \in events') /\ events' \subseteq todo'
    BY <1>0, <2>1, <2>2 DEF Armed
  <2>4. \A c \in Channels : chan'[c].registered # "no"
    BY <1>0, <2>1, <2>2 DEF Looked
  <2> QED
    BY <2>2, <2>3, <2>4 DEF ArmedInv, Armed, Looked, p, Registering, Draining, Asleep, Filling
<1>2. CASE Process
  <2> DEFINE c == Item("poller")
  <2>1. r.pc = "process" /\ p.pc = "poll" /\ UNCHANGED <<todo, chan>> /\ c \in Channels
    BY <1>2, ProcessNow DEF Process, Poller, At, PollerRests, Now
  <2>2. /\ \A d \in Channels : d # c => node'[d].interest = node[d].interest
        /\ node'[c].interest = (node[c].interest /\ ~Effective(node[c]))
        /\ events' = IF Effective(node[c]) THEN events \cup {c} ELSE events
    BY <1>2, <2>1 DEF Process, Basic, DataType
  <2>3. ~Registering(r) /\ ~Registering(p) /\ ~Draining(p) /\ ~Asleep(p) /\ ~Filling(p)
    BY <2>1 DEF Registering, Draining, Asleep, Filling, PushPcs
  <2> HIDE DEF r, p, c
  <2>4. \A d \in Channels : node'[d].interest \/ d \in events'
    BY <1>0, <2>1, <2>2, <2>3 DEF Armed
  <2>5. \A d \in Channels : chan'[d].registered # "no"
    BY <1>0, <2>1, <2>3 DEF Looked
  <2> QED
    BY <2>3, <2>4, <2>5 DEF ArmedInv, Armed, Looked, p, Registering, Draining, Asleep, Filling
<1> QED
  BY <1>1, <1>2

(* The thread drains the channels and arms their nodes again. *)
LEMMA DrainArmed ==
    ASSUME Basic, ArmedInv, TryRecv \/ Drained \/ NextPoll \/ DecLoad \/ DecSub \/ Reregister
    PROVE  ArmedInv'
<1> DEFINE r == thread["poller"]
           p == thread'["poller"]
<1>0. Armed(r) /\ Looked(r)
  BY DEF ArmedInv
<1>1. CASE TryRecv
  <2>1. PICK c \in todo :
            /\ chan' = [chan EXCEPT ![c].messages = @ - 1]
            /\ thread' = [thread EXCEPT !["poller"].pc = "load", !["poller"].item = c]
    BY <1>1 DEF TryRecv
  <2>2. c \in Channels
    BY DEF Basic, DataType
  <2>3. Now("poller", "load", thread["poller"].then, c, thread["poller"].prev,
            thread["poller"].ready, thread["poller"].first)
    BY <2>1, <2>2, DrainNow
  <2>4. r.pc = "drain" /\ p.pc = "load" /\ UNCHANGED <<events, todo, node>>
    BY <1>1, <2>3 DEF TryRecv, Poller, At, Now
  <2>5. \A d \in Channels : chan'[d].registered = chan[d].registered
    BY <2>1, <2>2 DEF Basic, DataType
  <2>6. /\ ~Registering(r) /\ ~Registering(p) /\ Draining(r) /\ ~Asleep(p) /\ ~Filling(p)
        /\ r.pc \notin {"look", "update"}
    BY <2>4 DEF Registering, Draining, Asleep, Filling, PushPcs
  <2> QED
    BY <2>4, <2>5, <2>6, ArmedFrame
<1>2. CASE Drained
  <2>1. PICK c \in todo :
            /\ todo' = todo \ {c}
            /\ IF c \in events
               THEN thread' = [thread EXCEPT !["poller"].pc = "update", !["poller"].item = c]
               ELSE UNCHANGED thread
    BY <1>2 DEF Drained
  <2>2. c \in Channels /\ r.pc = "drain" /\ UNCHANGED <<chan, node, events>>
    BY <1>2 DEF Basic, DataType, Drained, Poller, At
  <2>3. ~Registering(r) /\ Draining(r)
    BY <2>2 DEF Registering, Draining, PushPcs
  <2>4. (\A d \in Channels : node'[d].interest \/ d \in events') /\ events \subseteq todo
    BY <1>0, <2>2, <2>3 DEF Armed
  <2>5. \A d \in Channels : chan'[d].registered # "no"
    BY <1>0, <2>2, <2>3 DEF Looked
  <2>6. CASE c \in events
    <3>1. Now("poller", "update", thread["poller"].then, c, thread["poller"].prev,
              thread["poller"].ready, thread["poller"].first)
      BY <2>1, <2>2, <2>6, DrainNow
    <3>2. p.pc = "update" /\ p.item = c
      BY <3>1 DEF Now
    <3>3. ~Registering(p) /\ Draining(p) /\ ~Asleep(p) /\ ~Filling(p)
      BY <3>2 DEF Registering, Draining, Asleep, Filling, PushPcs
    <3> HIDE DEF r, p
    <3>4. events' \subseteq todo' \cup {d \in {p.item} : p.pc = "update"}
      BY <2>1, <2>2, <2>4, <3>2
    <3> QED
      BY <2>4, <2>5, <3>3, <3>4 DEF ArmedInv, Armed, Looked, p, Registering, Draining, Asleep, Filling
  <2>7. CASE c \notin events
    <3>1. p = r
      BY <2>1, <2>7
    <3>2. ~Registering(p) /\ ~Asleep(p) /\ ~Filling(p)
      BY <2>2, <3>1 DEF Registering, Draining, Asleep, Filling, PushPcs
    <3> HIDE DEF r, p
    <3>3. events' \subseteq todo'
      BY <2>1, <2>2, <2>4, <2>7
    <3> QED
      BY <2>4, <2>5, <3>2, <3>3 DEF ArmedInv, Armed, Looked, p, Registering, Draining, Asleep, Filling
  <2> QED
    BY <2>6, <2>7
<1>3. CASE NextPoll
  <2>1. r.pc = "drain" /\ p.pc = "prepare" /\ UNCHANGED <<events, todo, node, chan>> /\ todo = {}
    BY <1>3, NextPollNow DEF NextPoll, Poller, At, PollerAt, Now
  <2>2. /\ ~Registering(r) /\ Draining(r) /\ ~Registering(p) /\ ~Draining(p) /\ Asleep(p)
        /\ ~Filling(p) /\ r.pc # "update"
    BY <2>1 DEF Registering, Draining, Asleep, Filling, PushPcs
  <2> HIDE DEF r, p
  <2>3. events' = {} /\ \A d \in Channels : node'[d].interest \/ d \in events'
    BY <1>0, <2>1, <2>2 DEF Armed
  <2>4. \A d \in Channels : chan'[d].registered # "no"
    BY <1>0, <2>1, <2>2 DEF Looked
  <2> QED
    BY <2>2, <2>3, <2>4 DEF ArmedInv, Armed, Looked, p, Registering, Draining, Asleep, Filling
<1>4. CASE DecLoad
  <2>1. /\ r.pc = "load" /\ UNCHANGED <<events, todo, node, chan>>
        /\ p.pc \in {"set", "sub"} /\ p.then = "sub"
    BY <1>4, DecLoadNow DEF DecLoad, Poller, At, Now
  <2>2. /\ ~Registering(r) /\ ~Registering(p) /\ Draining(r) /\ ~Asleep(p) /\ ~Filling(p)
        /\ r.pc \notin {"look", "update"}
    BY <2>1 DEF Registering, Draining, Asleep, Filling, PushPcs
  <2> QED
    BY <2>1, <2>2, ArmedFrame
<1>5. CASE DecSub
  <2>1. /\ r.pc = "sub" /\ UNCHANGED <<events, todo, node>>
        /\ p.pc = "drain" \/ (p.pc = "set" /\ p.then = "drain")
    BY <1>5, DecSubNow DEF DecSub, Poller, At, PollerRests, Now
  <2>2. /\ ~Registering(r) /\ ~Registering(p) /\ Draining(r) /\ ~Asleep(p) /\ ~Filling(p)
        /\ r.pc \notin {"look", "update"}
    BY <2>1 DEF Registering, Draining, Asleep, Filling, PushPcs
  <2>3. \A d \in Channels : chan'[d].registered = chan[d].registered
    <3> DEFINE n == (chan[Item("poller")].pending - 1) % WordSize
    <3>1. chan' = [chan EXCEPT ![Item("poller")].pending = n] /\ Item("poller") \in Channels
      BY <1>5, DecSubNow DEF DecSub
    <3> HIDE DEF n
    <3> QED
      BY <3>1 DEF Basic, DataType
  <2> QED
    BY <2>1, <2>2, <2>3, ArmedFrame
<1>6. CASE Reregister
  <2> DEFINE c == Item("poller")
  <2>1. /\ r.pc = "update" /\ r.item = c /\ UNCHANGED <<todo, chan>> /\ c \in Channels
        /\ events' = events \ {c}
        /\ p.pc = "drain" \/ (p.pc = "enqueue" /\ p.then = "drain")
    BY <1>6, ReregisterNow DEF Reregister, Poller, At, PollerRests, Now, Item
  <2>2. \A d \in Channels : node'[d].interest = (d = c \/ node[d].interest)
    BY <1>6, <2>1 DEF Reregister, Rearmed, Announced, Basic, DataType
  <2>3. ~Registering(r) /\ Draining(r) /\ ~Registering(p) /\ ~Asleep(p) /\ ~Filling(p)
    BY <2>1 DEF Registering, Draining, Asleep, Filling, PushPcs
  <2> HIDE DEF r, p, c
  <2>4. (\A d \in Channels : node'[d].interest \/ d \in events') /\ events' \subseteq todo'
    BY <1>0, <2>1, <2>2, <2>3 DEF Armed
  <2>5. \A d \in Channels : chan'[d].registered # "no"
    BY <1>0, <2>1, <2>3 DEF Looked
  <2> QED
    BY <2>3, <2>4, <2>5 DEF ArmedInv, Armed, Looked, p, Registering, Draining, Asleep, Filling
<1> QED
  BY <1>1, <1>2, <1>3, <1>4, <1>5, <1>6

-----------------------------------------------------------------------------
(* The poller blocks behind its marker only, and whoever pushes behind the *)
(* marker writes to the awakener.                                          *)

Waking(t) == At(t, "wakeup") \/ (At(t, "link") /\ thread[t].prev = "sleep")

Marked ==
    Poller("block") => tail = "sleep" /\ (awake \/ head = "sleep" \/ \E s \in Senders : Waking(s))

(* A sender that takes the head from the marker is about to wake the poller. *)
LEMMA MarkedSenders ==
    ASSUME Basic, Marked, NEW s \in Senders, SenderStep(s) \/ Send(s) \/ DropSender(s)
    PROVE  Marked'
<1>1. s \in Threads /\ s # "poller"
  BY Constants DEF Threads
<1>2. SUFFICES ASSUME Poller("block")'
               PROVE  tail' = "sleep" /\ (awake' \/ head' = "sleep" \/ \E t \in Senders : Waking(t)')
  BY DEF Marked
<1>3. CASE Enqueue(s)
  <2>1. Others(s) /\ thread'[s].pc = "link" /\ thread'[s].prev = head
    BY <1>1, <1>3, EnqueueStepNow DEF Now, Others
  <2>2. Poller("block") /\ UNCHANGED <<tail, awake>>
    BY <1>1, <1>2, <1>3, <2>1 DEF Poller, At, Others, Threads, Enqueue
  <2>3. \A t \in Senders : t # s => (Waking(t)' <=> Waking(t))
    BY <1>1, <2>1 DEF Waking, At, Others, Threads
  <2>4. ~Waking(s)
    BY <1>3 DEF Waking, At, Enqueue
  <2>5. head = "sleep" => Waking(s)'
    BY <2>1 DEF Waking, At
  <2> QED
    BY <2>2, <2>3, <2>4, <2>5 DEF Marked
<1>4. CASE Link(s)
  <2>1. /\ Others(s)
        /\ NeedsWakeup(s) => thread'[s].pc = "wakeup"
    BY <1>1, <1>4, LinkNow, LeavesFacts DEF Now, Others
  <2>2. Poller("block") /\ UNCHANGED <<tail, awake, head>>
    BY <1>1, <1>2, <1>4, <2>1 DEF Poller, At, Others, Threads, Link
  <2>3. \A t \in Senders : t # s => (Waking(t)' <=> Waking(t))
    BY <1>1, <2>1 DEF Waking, At, Others, Threads
  <2>4. Waking(s) => Waking(s)'
    <3>1. thread[s].pc \in PushPcs
      BY <1>4 DEF Link, At, PushPcs
    <3>2. Item(s) # "end"
      BY <1>1, <3>1, PushFacts, ItemFacts DEF Item
    <3> QED
      BY <1>4, <2>1, <3>2 DEF Waking, At, NeedsWakeup, Link
  <2> QED
    BY <2>2, <2>3, <2>4 DEF Marked
<1>5. CASE Wakeup(s)
  <2>1. Others(s)
    BY <1>1, <1>5, WakeupNow, LeavesFacts
  <2>2. Poller("block") /\ tail' = tail /\ awake'
    BY <1>1, <1>2, <1>5, <2>1 DEF Poller, At, Others, Threads, Wakeup
  <2> QED
    BY <2>2 DEF Marked
<1>6. CASE SetReadiness(s) \/ Inc(s) \/ Send(s) \/ DropSender(s)
  <2>1. Others(s) /\ UNCHANGED <<tail, awake, head>>
    <3>1. CASE SetReadiness(s)
      BY <1>1, <3>1, SetReadinessNow, LeavesFacts DEF Now, Others, SetReadiness
    <3>2. CASE Inc(s) \/ Send(s) \/ DropSender(s)
      BY <3>2, SenderOthers DEF Inc, Send, DropSender
    <3> QED
      BY <1>6, <3>1, <3>2
  <2>2. ~Waking(s)
    BY <1>6 DEF Waking, At, SetReadiness, Inc, Send, DropSender
  <2>3. \A t \in Senders : t # s => (Waking(t)' <=> Waking(t))
    BY <1>1, <2>1 DEF Waking, At, Others, Threads
  <2>4. Poller("block")
    BY <1>1, <1>2, <2>1 DEF Poller, At, Others, Threads
  <2> QED
    BY <2>1, <2>2, <2>3, <2>4 DEF Marked
<1> QED
  BY <1>3, <1>4, <1>5, <1>6 DEF SenderStep, Shared

(* The poller blocks when its marker is alone. *)
LEMMA MarkedPrepare ==
    ASSUME Basic, prepare_for_sleep
    PROVE  Marked'
<1>1. Poller("block")' => (tail = "end" /\ head = "end") \/ (tail = "sleep" /\ head = "sleep")
  BY prepare_for_sleepNow DEF PollerAt, Now, Poller, At
<1> QED
  BY <1>1 DEF Marked, prepare_for_sleep

(* Only prepare_for_sleep leads there. *)
LEMMA MarkedElsewhere ==
    ASSUME Basic, thread'["poller"].pc # "block" PROVE Marked'
  BY DEF Marked, Poller, At

(* No other step makes the poller block. *)
LEMMA PushesNotAsleep ==
    ASSUME Basic, Shared("poller")
    PROVE  thread'["poller"].pc # "block"
<1>1. "poller" \in Threads
  BY DEF Threads
<1>2. CASE SetReadiness("poller")
  BY <1>1, <1>2, SetReadinessNow DEF Leaves, Now
<1>3. CASE Enqueue("poller")
  BY <1>1, <1>3, EnqueueStepNow DEF Now
<1>4. CASE Link("poller")
  BY <1>1, <1>4, LinkNow DEF Leaves, Now
<1>5. CASE Wakeup("poller")
  BY <1>1, <1>5, WakeupNow DEF Leaves, Now
<1> QED
  BY <1>2, <1>3, <1>4, <1>5 DEF Shared

LEMMA NotAsleep ==
    ASSUME Basic, tail \in Channels \/ ~(PopFirst \/ PopSecond),
           PollerStep \/ OtherEvent \/ ZeroTimeout, ~prepare_for_sleep
    PROVE  thread'["poller"].pc # "block"
<1>1. CASE Shared("poller")
  BY <1>1, PushesNotAsleep
<1>2. CASE Register
  BY <1>2, RegisterNow DEF PollerAt, Now
<1>3. CASE Look
  BY <1>3, LookNow DEF PollerAt, Now
<1>4. CASE Fill
  BY <1>4, FillNow DEF PollerRests, Now
<1>5. CASE Select \/ Cleanup \/ OtherEvent \/ ZeroTimeout
  BY <1>5, PollingNow DEF PollerAt, Now
<1>6. CASE SkipMarker
  BY <1>6, SkipMarkerNow DEF PollerAt, Now
<1>7. CASE ClearSleepMarker \/ StopPolling
  BY <1>7, ToDrainNow DEF PollerAt, Now
<1>8. CASE PopFirst \/ PopSecond
  <2>1. ASSUME NEW pc, NEW otherwise \in {"check", "stop"}, Pop(pc, otherwise)
        PROVE  thread'["poller"].pc \in {"check", "stop", "process"}
    BY <1>8, <2>1, PopNow DEF PollerAt, Now
  <2>2. \/ Pop("poll", "check") \/ Pop("pop", "check") \/ Pop("pop_again", "stop")
    BY <1>8 DEF PopFirst, PopSecond
  <2> QED
    BY <2>1, <2>2
<1>9. CASE CheckHead
  BY <1>9, CheckHeadNow DEF PollerAt, Now
<1>10. CASE Process
  BY <1>10, ProcessNow DEF PollerRests, Now
<1>11. CASE TryRecv \/ Drained
  <2>1. thread["poller"].pc = "drain"
    BY <1>11 DEF TryRecv, Drained, Poller, At
  <2>2. CASE UNCHANGED thread
    BY <2>1, <2>2
  <2>3. CASE \E c \in Channels, pc \in {"load", "update"} :
                thread' = [thread EXCEPT !["poller"].pc = pc, !["poller"].item = c]
    <3>1. PICK c \in Channels, pc \in {"load", "update"} :
                thread' = [thread EXCEPT !["poller"].pc = pc, !["poller"].item = c]
      BY <2>3
    <3> QED
      BY <3>1, DrainNow DEF Now
  <2> QED
    BY <1>11, <2>2, <2>3 DEF TryRecv, Drained, Basic, DataType
<1>12. CASE NextPoll
  BY <1>12, NextPollNow DEF PollerAt, Now
<1>13. CASE DecLoad
  BY <1>13, DecLoadNow DEF Now
<1>14. CASE DecSub
  BY <1>14, DecSubNow DEF PollerRests, Now
<1>15. CASE Reregister
  BY <1>15, ReregisterNow DEF PollerRests, Now
<1> QED
  BY <1>1, <1>2, <1>3, <1>4, <1>5, <1>6, <1>7, <1>8, <1>9, <1>10, <1>11, <1>12, <1>13, <1>14,
     <1>15 DEF PollerStep

-----------------------------------------------------------------------------
(* How often a channel's counter can be raised. *)

Slots == {k \in Nat : \E s \in Senders : k <= MaxSends[s]}
Tokens == Senders \X Slots

(* A counter is never raised often enough to wrap. *)
LEMMA TokensFew ==
    IsFiniteSet(Tokens) /\ Cardinality(Tokens) \in Nat /\ 2 * Cardinality(Tokens) < WordSize
<1>1. /\ IsFiniteSet(Senders) /\ WordSize \in Nat \ {0} /\ MaxSends \in [Senders -> Nat]
      /\ \A s \in Senders : WordSize > 2 * (MaxSends[s] + 1) * Cardinality(Senders)
      /\ Cardinality(Senders) \in Nat
  BY ReadinessAssumption, FS_CardinalityType
<1>2. CASE Senders = {}
  <2>1. Tokens = {}
    BY <1>2 DEF Tokens
  <2>2. IsFiniteSet(Tokens) /\ Cardinality(Tokens) = 0
    BY <2>1, FS_EmptySet
  <2> QED
    BY <1>1, <2>2
<1>3. CASE Senders # {}
  <2> DEFINE n == Cardinality(Senders)
             D == {d \in Nat : \A s \in Senders : MaxSends[s] < d}
  <2>1. n >= 1
    BY <1>1, <1>3, FS_EmptySet
  <2>2. WordSize \in D
    <3>1. ASSUME NEW s \in Senders PROVE MaxSends[s] < WordSize
      <4> DEFINE m == MaxSends[s]
      <4>1. m \in Nat /\ n \in Nat /\ n >= 1 /\ WordSize \in Nat /\ WordSize > 2 * (m + 1) * n
        BY <1>1, <2>1
      <4> HIDE DEF m, n
      <4>2. 2 * (m + 1) * n >= 2 * (m + 1)
        BY <4>1, SMTT(30)
      <4> QED
        BY <4>1, <4>2 DEF m
    <3> QED
      BY <1>1, <3>1
  <2>3. D \subseteq Nat /\ D # {}
    BY <2>2
  <2>4. PICK d \in D : \A e \in D : d <= e
    BY <2>3, Least
  <2>5. d \in Nat /\ \A s \in Senders : MaxSends[s] < d
    OBVIOUS
  <2>6. PICK s \in Senders : d = MaxSends[s] + 1
    <3>1. d - 1 \in Nat /\ d - 1 \notin D
      <4>1. d > 0
        BY <1>1, <1>3, <2>5
      <4> QED
        BY <2>4, <2>5, <4>1
    <3>2. PICK s \in Senders : ~(MaxSends[s] < d - 1)
      BY <3>1
    <3> QED
      BY <1>1, <2>5, <3>2
  <2>7. Slots = 0 .. d - 1
    <3>1. ASSUME NEW k \in Slots PROVE k \in 0 .. d - 1
      BY <1>1, <2>5 DEF Slots
    <3>2. ASSUME NEW k \in 0 .. d - 1 PROVE k \in Slots
      BY <1>1, <2>5, <2>6 DEF Slots
    <3> QED
      BY <3>1, <3>2
  <2>8. IsFiniteSet(Slots) /\ Cardinality(Slots) = d
    <3>1. 0 \in Int /\ d - 1 \in Int /\ ~(0 > d - 1)
      BY <1>1, <2>5, <2>6
    <3> QED
      BY <2>5, <2>7, <3>1, FS_Interval
  <2>9. IsFiniteSet(Tokens) /\ Cardinality(Tokens) = n * d
    BY <1>1, <2>8, FS_Product DEF Tokens
  <2>10. WordSize > 2 * (MaxSends[s] + 1) * n
    BY <1>1
  <2>11. WordSize > 2 * d * n
    BY <2>6, <2>10
  <2> HIDE DEF n, D
  <2>12. 2 * d * n = 2 * (n * d) /\ n * d \in Nat
    <3>1. n \in Nat /\ d \in Nat
      BY <1>1, <2>5 DEF n
    <3> QED
      BY ONLY <3>1
  <2> QED
    BY <2>9, <2>11, <2>12
<1> QED
  BY <1>2, <1>3

(* The token of a sender that is about to raise the counter. *)
Arriving(c) ==
    {p \in Tokens : \E s \in Senders :
        At(s, "inc") /\ ChannelOf[s] = c /\ p = <<s, sends[s] + 1>>}

(* The poller has taken a message and has not lowered the counter; it has  *)
(* read 1 before it does.                                                  *)
Subtracting(r) == r.pc = "sub" \/ (r.pc \in PushPcs /\ r.then = "sub")
Receiving(c) ==
    LET r == thread["poller"] IN r.item = c /\ (r.pc = "load" \/ Subtracting(r))
FirstOne(c) ==
    LET r == thread["poller"] IN r.item = c /\ Subtracting(r) /\ r.first = 1

(* Somebody has told the poller of a message, or will. *)
Noticed(c) ==
    \/ chan[c].unannounced
    \/ node[c].readiness
    \/ \E s \in Senders : At(s, "set") /\ Item(s) = c
    \/ Poller("set") /\ Item("poller") = c /\ thread["poller"].ready
    \/ FirstOne(c)

Wrapped(v) == IF v >= 0 THEN v ELSE v + WordSize

(* a holds a token for every time the counter of c was raised, b says how  *)
(* often it was lowered.                                                   *)
Counts(a, b, c) ==
    /\ \A s \in Senders, k \in Slots : <<s, k>> \in a =>
            ChannelOf[s] = c /\ k > sends[s] /\ ~(At(s, "inc") /\ k = sends[s] + 1)
    /\ chan[c].messages + b + (IF Receiving(c) THEN 1 ELSE 0) <= Cardinality(a \cup Arriving(c))
    /\ chan[c].pending = Wrapped(Cardinality(a) - b)
    /\ FirstOne(c) => Cardinality(a) - b >= 1
    /\ chan[c].registered # "no" /\ Cardinality(a) - b >= 1 => Noticed(c)

IncBelow == \A s \in Senders : At(s, "inc") => sends[s] < MaxSends[s]

CountInv ==
    /\ IncBelow
    /\ \A c \in Channels : \E a \in SUBSET Tokens, b \in Nat : Counts(a, b, c)

(* A sender about to raise the counter holds a token. *)
LEMMA ArrivingIs ==
    ASSUME Basic, IncBelow, NEW s \in Senders, At(s, "inc")
    PROVE  <<s, sends[s] + 1>> \in Tokens /\ <<s, sends[s] + 1>> \in Arriving(ChannelOf[s])
<1>1. sends[s] \in Int /\ sends[s] >= -1 /\ sends[s] < MaxSends[s] /\ MaxSends[s] \in Nat
  BY Constants DEF Basic, DataType, IncBelow
<1>2. sends[s] + 1 \in Slots
  BY <1>1 DEF Slots
<1> QED
  BY <1>2 DEF Tokens, Arriving

(* Neither count exceeds the number of tokens. *)
LEMMA CountBounds ==
    ASSUME Basic, NEW c \in Channels, NEW a \in SUBSET Tokens, NEW b \in Nat, Counts(a, b, c)
    PROVE  /\ IsFiniteSet(a) /\ Cardinality(a) \in Nat /\ Cardinality(a) <= Cardinality(Tokens)
           /\ a \cup Arriving(c) \subseteq Tokens
           /\ IsFiniteSet(a \cup Arriving(c)) /\ Cardinality(a \cup Arriving(c)) \in Nat
           /\ Cardinality(a \cup Arriving(c)) <= Cardinality(Tokens)
           /\ b <= Cardinality(Tokens)
<1>1. a \cup Arriving(c) \subseteq Tokens
  BY DEF Arriving
<1>2. IsFiniteSet(a) /\ Cardinality(a) <= Cardinality(Tokens)
  BY TokensFew, FS_Subset
<1>3. IsFiniteSet(a \cup Arriving(c)) /\ Cardinality(a \cup Arriving(c)) <= Cardinality(Tokens)
  BY <1>1, TokensFew, FS_Subset
<1>4. Cardinality(a) \in Nat /\ Cardinality(a \cup Arriving(c)) \in Nat
  BY <1>2, <1>3, FS_CardinalityType
<1>5. b <= Cardinality(a \cup Arriving(c))
  <2>1. chan[c].messages \in Nat
    BY DEF Basic, DataType
  <2>2. chan[c].messages + b + (IF Receiving(c) THEN 1 ELSE 0) <= Cardinality(a \cup Arriving(c))
    BY DEF Counts
  <2> QED
    BY <1>4, <2>1, <2>2
<1> QED
  BY <1>1, <1>2, <1>3, <1>4, <1>5, TokensFew

(* What the counter shows of the difference. *)
LEMMA CounterShows ==
    ASSUME Basic, NEW c \in Channels, NEW a \in SUBSET Tokens, NEW b \in Nat, Counts(a, b, c)
    PROVE  /\ chan[c].pending = 0 <=> Cardinality(a) - b = 0
           /\ chan[c].pending = 1 <=> Cardinality(a) - b = 1
           /\ Cardinality(a) - b >= 1 => chan[c].pending = Cardinality(a) - b
<1> DEFINE n == Cardinality(Tokens)
           v == Cardinality(a) - b
<1>1. v \in Int /\ v <= n /\ v >= -n /\ n \in Nat /\ 2 * n < WordSize /\ WordSize \in Nat
  <2>1. WordSize \in Nat
    BY ReadinessAssumption
  <2>2. Cardinality(a) \in Nat /\ Cardinality(a) <= n /\ b <= n /\ b \in Nat
    BY CountBounds
  <2>3. n \in Nat /\ 2 * n < WordSize
    BY TokensFew
  <2> HIDE DEF n
  <2> QED
    BY <2>1, <2>2, <2>3
<1>2. chan[c].pending = Wrapped(v)
  BY DEF Counts
<1> HIDE DEF n, v
<1>3. /\ Wrapped(v) = 0 <=> v = 0
      /\ Wrapped(v) = 1 <=> v = 1
      /\ v >= 1 => Wrapped(v) = v
  BY <1>1 DEF Wrapped
<1> QED
  BY <1>2, <1>3 DEF v

(* Arithmetic of a word. *)
LEMMA WordSteps ==
    ASSUME NEW v \in Int, NEW n \in Nat, 2 * n < WordSize, v <= n, v >= -n
    PROVE  /\ v + 1 <= n => (Wrapped(v) + 1) % WordSize = Wrapped(v + 1)
           /\ v - 1 >= -n => (Wrapped(v) - 1) % WordSize = Wrapped(v - 1)
<1>1. WordSize \in Nat /\ WordSize > 0
  BY ReadinessAssumption
<1> DEFINE W == WordSize
<1>2. \A x \in Int : x >= 0 /\ x < W => x % W = x
  BY <1>1, SMTT(30)
<1>3. W % W = 0
  BY <1>1, SMTT(30)
<1>4. -1 % W = W - 1
  BY <1>1, SMTT(30)
<1>5. ASSUME v + 1 <= n PROVE (Wrapped(v) + 1) % WordSize = Wrapped(v + 1)
  <2>1. CASE v >= 0
    BY <1>1, <1>2, <1>5, <2>1 DEF Wrapped
  <2>2. CASE v = -1
    BY <1>1, <1>3, <2>2 DEF Wrapped
  <2>3. CASE v < -1
    BY <1>1, <1>2, <2>3 DEF Wrapped
  <2> QED
    BY <2>1, <2>2, <2>3
<1>6. ASSUME v - 1 >= -n PROVE (Wrapped(v) - 1) % WordSize = Wrapped(v - 1)
  <2>1. CASE v >= 1
    BY <1>1, <1>2, <2>1 DEF Wrapped
  <2>2. CASE v = 0
    BY <1>1, <1>4, <2>2 DEF Wrapped
  <2>3. CASE v < 0
    BY <1>1, <1>2, <1>6, <2>3 DEF Wrapped
  <2> QED
    BY <2>1, <2>2, <2>3
<1> QED
  BY <1>5, <1>6

(* At first nothing is counted. *)
LEMMA CountInit == ASSUME Init PROVE CountInv
<1>1. \A s \in Senders : thread[s].pc = "idle"
  BY Constants DEF Init, Threads, Resting
<1>2. IncBelow
  BY <1>1 DEF IncBelow, At
<1>3. ASSUME NEW c \in Channels PROVE Counts({}, 0, c)
  <2>1. Arriving(c) = {}
    BY <1>1 DEF Arriving, At
  <2>2. Cardinality({} \cup Arriving(c)) = 0 /\ Cardinality({}) = 0
    <3>1. {} \cup Arriving(c) = {}
      BY <2>1
    <3> QED
      BY <3>1, FS_EmptySet
  <2>3. thread["poller"].pc = "register"
    BY DEF Init, Threads, Resting
  <2>4. ~Receiving(c) /\ ~FirstOne(c)
    BY <2>3 DEF Receiving, FirstOne, Subtracting, PushPcs
  <2>5. chan[c].messages = 0 /\ chan[c].pending = 0 /\ Wrapped(0 - 0) = 0
    BY DEF Init, Wrapped
  <2> QED
    BY <2>2, <2>4, <2>5 DEF Counts
<1> QED
  BY <1>2, <1>3 DEF CountInv

-----------------------------------------------------------------------------
(* A step that neither raises nor lowers a counter. *)

SameArriving(c) == Arriving(c)' = Arriving(c)

(* One channel, then all of them. *)
LEMMA CountsFrame ==
    ASSUME NEW c \in Channels, NEW a \in SUBSET Tokens, NEW b \in Nat, Counts(a, b, c),
           Basic, Basic',
           chan'[c].messages + (IF Receiving(c)' THEN 1 ELSE 0)
                <= chan[c].messages + (IF Receiving(c) THEN 1 ELSE 0),
           chan'[c].pending = chan[c].pending,
           \A s \in Senders : ChannelOf[s] = c =>
                (At(s, "inc")' <=> At(s, "inc")) /\ sends'[s] = sends[s],
           FirstOne(c)' => FirstOne(c) \/ chan[c].pending = 1,
           \/ /\ chan'[c].registered # "no" => chan[c].registered # "no"
              /\ Noticed(c) => Noticed(c)'
           \/ chan[c].pending # 0 => Noticed(c)'
    PROVE  Counts(a, b, c)'
<1>1. Arriving(c)' = Arriving(c)
  BY DEF Arriving
<1>2. \A s \in Senders, k \in Slots : <<s, k>> \in a =>
            ChannelOf[s] = c /\ k > sends'[s] /\ ~(At(s, "inc")' /\ k = sends'[s] + 1)
  BY DEF Counts
<1>3. chan'[c].messages + b + (IF Receiving(c)' THEN 1 ELSE 0) <= Cardinality(a \cup Arriving(c)')
  <2> DEFINE m == chan[c].messages
             n == chan'[c].messages
             x == IF Receiving(c) THEN 1 ELSE 0
             y == IF Receiving(c)' THEN 1 ELSE 0
             k == Cardinality(a \cup Arriving(c))
  <2>1. m \in Nat /\ n \in Nat /\ x \in Nat /\ y \in Nat /\ n + y <= m + x
    BY DEF Basic, DataType
  <2>2. m + b + x <= k /\ k \in Nat
    BY CountBounds DEF Counts
  <2> HIDE DEF m, n, x, y, k
  <2>3. n + b + y <= k
    BY <2>1, <2>2
  <2> QED
    BY <1>1, <2>3 DEF n, y, k
<1>4. chan'[c].pending = Wrapped(Cardinality(a) - b)
  BY DEF Counts
<1>5. FirstOne(c)' => Cardinality(a) - b >= 1
  <2>1. chan[c].pending = 1 => Cardinality(a) - b >= 1
    BY CounterShows
  <2> QED
    BY <2>1 DEF Counts
<1>6. chan'[c].registered # "no" /\ Cardinality(a) - b >= 1 => Noticed(c)'
  <2>1. Cardinality(a) - b >= 1 => chan[c].pending # 0
    <3>1. Cardinality(a) - b = 0 => ~(Cardinality(a) - b >= 1)
      OBVIOUS
    <3> QED
      BY <3>1, CounterShows
  <2> QED
    BY <2>1 DEF Counts
<1> QED
  BY <1>2, <1>3, <1>4, <1>5, <1>6 DEF Counts

LEMMA CountKept ==
    ASSUME CountInv, Basic, Basic', sends' = sends, \A s \in Senders : At(s, "inc")' <=> At(s, "inc"),
           \A c \in Channels :
                /\ chan'[c].messages + (IF Receiving(c)' THEN 1 ELSE 0)
                        <= chan[c].messages + (IF Receiving(c) THEN 1 ELSE 0)
                /\ chan'[c].pending = chan[c].pending
                /\ FirstOne(c)' => FirstOne(c) \/ chan[c].pending = 1
                /\ \/ /\ chan'[c].registered # "no" => chan[c].registered # "no"
                      /\ Noticed(c) => Noticed(c)'
                   \/ chan[c].pending # 0 => Noticed(c)'
    PROVE  CountInv'
<1>1. IncBelow'
  BY DEF CountInv, IncBelow
<1>2. ASSUME NEW c \in Channels PROVE \E a \in SUBSET Tokens, b \in Nat : Counts(a, b, c)'
  <2>1. PICK a \in SUBSET Tokens, b \in Nat : Counts(a, b, c)
    BY DEF CountInv
  <2>2. Counts(a, b, c)'
    BY <2>1, CountsFrame
  <2> QED
    BY <2>2
<1> QED
  BY <1>1, <1>2 DEF CountInv

SendersSame ==
    \A s \in Senders : thread'[s] = thread[s]

(* A step of the poller leaves the senders where they are. *)
LEMMA OthersSenders == ASSUME Others("poller") PROVE SendersSame
  BY Constants DEF Others, SendersSame, Threads

LEMMA SendersSameFacts ==
    ASSUME SendersSame
    PROVE  /\ \A s \in Senders : At(s, "inc")' <=> At(s, "inc")
           /\ \A s \in Senders : (At(s, "set")' <=> At(s, "set")) /\ Item(s)' = Item(s)
  BY DEF SendersSame, At, Item

(* The poller is neither in set_readiness nor about to lower a counter. *)
Quiet(r) == ~Subtracting(r) /\ r.pc \notin {"load", "set"}

(* A quiet poller has no part in what the counters mean. *)
LEMMA QuietFacts ==
    ASSUME Quiet(thread["poller"]), NEW c
    PROVE  ~Receiving(c) /\ ~FirstOne(c) /\ ~Poller("set")
  BY DEF Quiet, Receiving, FirstOne, Poller, At

(* A step from a quiet poller that takes no message keeps the counts. *)
LEMMA PollerQuiet ==
    ASSUME CountInv, Basic, Basic', Others("poller"), sends' = sends,
           \A c \in Channels :
                /\ chan'[c].messages = chan[c].messages /\ chan'[c].pending = chan[c].pending
                /\ chan'[c].unannounced = chan[c].unannounced
                /\ chan'[c].registered # "no" => chan[c].registered # "no",
           \A c \in Channels : node'[c].readiness = node[c].readiness,
           Quiet(thread["poller"]),
           ~Subtracting(thread'["poller"]), thread'["poller"].pc # "load"
    PROVE  CountInv'
<1>1. /\ \A s \in Senders : At(s, "inc")' <=> At(s, "inc")
      /\ \A s \in Senders : (At(s, "set")' <=> At(s, "set")) /\ Item(s)' = Item(s)
  BY OthersSenders, SendersSameFacts
<1>2. \A c : ~Receiving(c) /\ ~FirstOne(c) /\ ~Poller("set")
  BY QuietFacts
<1>3. \A c : ~Receiving(c)' /\ ~FirstOne(c)'
  BY DEF Receiving, FirstOne, Subtracting
<1>4. \A c \in Channels : Noticed(c) => Noticed(c)'
  BY <1>1, <1>2 DEF Noticed
<1>5. \A c \in Channels : chan[c].messages \in Nat
  BY DEF Basic, DataType
<1> QED
  BY <1>1, <1>2, <1>3, <1>4, <1>5, CountKept

(* A sender inside set_readiness or enqueue_node. *)
LEMMA SenderPushCounts ==
    ASSUME CountInv, Basic, Basic', NEW s \in Senders, Shared(s)
    PROVE  CountInv'
<1>1. s \in Threads /\ s # "poller"
  BY Constants DEF Threads
<1>2. /\ Others(s) /\ UNCHANGED <<chan, sends>> /\ thread[s].pc \in PushPcs
      /\ thread'[s].pc \in {"enqueue", "link", "wakeup", "idle"}
  <2>1. CASE SetReadiness(s)
    <3>1. thread[s].then = "idle"
      BY <2>1, PushFacts, <1>1 DEF SetReadiness, At, PushPcs
    <3> QED
      BY <1>1, <2>1, <3>1, SetReadinessNow DEF SetReadiness, At, PushPcs, Leaves, Now, Others
  <2>2. CASE Enqueue(s)
    BY <1>1, <2>2, EnqueueStepNow DEF Enqueue, At, PushPcs, Now, Others
  <2>3. CASE Link(s)
    <3>1. thread[s].then = "idle"
      BY <2>3, PushFacts, <1>1 DEF Link, At, PushPcs
    <3> QED
      BY <1>1, <2>3, <3>1, LinkNow DEF Link, At, PushPcs, Leaves, Now, Others
  <2>4. CASE Wakeup(s)
    <3>1. thread[s].then = "idle"
      BY <2>4, PushFacts, <1>1 DEF Wakeup, At, PushPcs
    <3> QED
      BY <1>1, <2>4, <3>1, WakeupNow DEF Wakeup, At, PushPcs, Leaves, Now, Others
  <2> QED
    BY <2>1, <2>2, <2>3, <2>4 DEF Shared
<1>3. thread'["poller"] = thread["poller"]
  BY <1>1, <1>2 DEF Others, Threads
<1>4. \A c : (Receiving(c)' <=> Receiving(c)) /\ (FirstOne(c)' <=> FirstOne(c))
  BY <1>3 DEF Receiving, FirstOne, Subtracting
<1>5. \A t \in Senders : At(t, "inc")' <=> At(t, "inc")
  BY <1>2 DEF Others, At, PushPcs, Threads
<1>6. \A t \in Senders : t # s => (At(t, "set")' <=> At(t, "set")) /\ Item(t)' = Item(t)
  BY <1>2 DEF Others, At, Item, Threads
<1>7. ASSUME NEW c \in Channels, Noticed(c) PROVE Noticed(c)'
  <2>1. (Poller("set")' <=> Poller("set")) /\ Item("poller")' = Item("poller")
    BY <1>3 DEF Poller, At, Item
  <2>2. CASE SetReadiness(s)
    <3>1. Item(s) \in Channels /\ thread[s].ready
      BY <1>1, <2>2, SetReadinessNow DEF SetReadiness, At, Basic, ThreadsOK, SenderOK
    <3>2. node'[Item(s)].readiness /\ \A d \in Channels : d # Item(s) => node'[d] = node[d]
      BY <2>2, <3>1 DEF SetReadiness, Announced, Basic, DataType
    <3> QED
      BY <1>2, <1>3, <1>4, <1>6, <1>7, <2>1, <3>1, <3>2 DEF Noticed
  <2>3. CASE Enqueue(s) \/ Link(s) \/ Wakeup(s)
    <3>1. ~At(s, "set") /\ node' = node
      BY <2>3 DEF Enqueue, Link, Wakeup, At
    <3> QED
      BY <1>2, <1>3, <1>4, <1>6, <1>7, <2>1, <3>1 DEF Noticed
  <2> QED
    BY <2>2, <2>3 DEF Shared
<1>8. \A c \in Channels : chan[c].messages \in Nat
  BY DEF Basic, DataType
<1>9. \A c \in Channels :
        chan'[c].messages + (IF Receiving(c)' THEN 1 ELSE 0)
            <= chan[c].messages + (IF Receiving(c) THEN 1 ELSE 0)
  BY <1>2, <1>4, <1>8
<1> QED
  BY <1>2, <1>4, <1>5, <1>7, <1>9, CountKept

(* The poller inside set_readiness or enqueue_node. *)
LEMMA PollerPushCounts ==
    ASSUME CountInv, Basic, Basic', Shared("poller")
    PROVE  CountInv'
<1> DEFINE r == thread["poller"]
           p == thread'["poller"]
<1>0. "poller" \in Threads
  BY DEF Threads
<1>1. /\ Others("poller") /\ UNCHANGED <<chan, sends>> /\ r.pc \in PushPcs
      /\ \/ /\ p.pc \in {"enqueue", "link", "wakeup"}
            /\ p.then = r.then /\ p.item = r.item /\ p.first = r.first
         \/ Leaves("poller")
  <2>1. CASE SetReadiness("poller")
    BY <1>0, <2>1, SetReadinessNow DEF SetReadiness, At, PushPcs, Leaves, Now, Others, Item
  <2>2. CASE Enqueue("poller")
    BY <1>0, <2>2, EnqueueStepNow DEF Enqueue, At, PushPcs, Now, Others
  <2>3. CASE Link("poller")
    BY <1>0, <2>3, LinkNow DEF Link, At, PushPcs, Leaves, Now, Others
  <2>4. CASE Wakeup("poller")
    BY <1>0, <2>4, WakeupNow DEF Wakeup, At, PushPcs, Leaves, Now, Others
  <2> QED
    BY <2>1, <2>2, <2>3, <2>4 DEF Shared
<1>2. r.then \in {"fill", "sub", "drain", "pop_again"} /\ r.pc # "load"
  BY <1>0, <1>1, PushFacts DEF Threads, PushPcs
<1>3. \A c : (Receiving(c)' <=> Receiving(c)) /\ (FirstOne(c)' <=> FirstOne(c))
  <2>1. CASE Leaves("poller")
    <3>1. IF r.then \in {"fill", "sub"}
          THEN p.pc = r.then /\ p.item = r.item /\ p.first = r.first
          ELSE p.pc = r.then
      BY <2>1 DEF Leaves, Now
    <3>2. CASE r.then = "sub"
      <4>1. Subtracting(r) /\ Subtracting(p) /\ p.item = r.item /\ p.first = r.first
        BY <1>1, <3>1, <3>2 DEF Subtracting
      <4> QED
        BY <4>1 DEF Receiving, FirstOne, Subtracting
    <3>3. CASE r.then # "sub"
      <4>1. ~Subtracting(r) /\ ~Subtracting(p) /\ p.pc # "load"
        BY <1>1, <1>2, <3>1, <3>3 DEF Subtracting, PushPcs
      <4> QED
        BY <1>2, <4>1 DEF Receiving, FirstOne, Subtracting
    <3> QED
      BY <3>2, <3>3
  <2>2. CASE p.pc \in {"enqueue", "link", "wakeup"} /\ p.then = r.then /\ p.item = r.item /\ p.first = r.first
    <3>1. (Subtracting(p) <=> Subtracting(r)) /\ p.pc # "load"
      BY <1>1, <2>2 DEF Subtracting, PushPcs
    <3> QED
      BY <1>2, <2>2, <3>1 DEF Receiving, FirstOne, Subtracting
  <2> QED
    BY <1>1, <2>1, <2>2
<1>4. /\ \A s \in Senders : At(s, "inc")' <=> At(s, "inc")
      /\ \A s \in Senders : (At(s, "set")' <=> At(s, "set")) /\ Item(s)' = Item(s)
  BY <1>1, OthersSenders, SendersSameFacts
<1>5. ASSUME NEW c \in Channels, Noticed(c) PROVE Noticed(c)'
  <2>1. CASE SetReadiness("poller")
    <3>1. Item("poller") \in Channels /\ r.ready \in BOOLEAN /\ r.pc = "set" /\ PollerOK(r)
      BY <1>0, <2>1, SetReadinessNow DEF SetReadiness, At, Basic, ThreadsOK, Local
    <3>2. /\ node'[Item("poller")].readiness = r.ready
          /\ \A d \in Channels : d # Item("poller") => node'[d] = node[d]
      BY <2>1, <3>1 DEF SetReadiness, Announced, Basic, DataType
    <3>3. CASE r.ready
      BY <1>1, <1>3, <1>4, <1>5, <3>1, <3>2, <3>3 DEF Noticed
    <3>4. CASE ~r.ready
      <4>1. r.then = "sub" /\ r.first = 1
        BY <3>1, <3>4 DEF PollerOK
      <4>2. FirstOne(Item("poller"))
        BY <1>1, <4>1 DEF FirstOne, Subtracting, Item
      <4> QED
        BY <1>1, <1>3, <1>4, <1>5, <3>1, <3>2, <3>4, <4>2 DEF Noticed
    <3> QED
      BY <3>1, <3>3, <3>4
  <2>2. CASE Enqueue("poller") \/ Link("poller") \/ Wakeup("poller")
    <3>1. ~Poller("set") /\ node' = node
      BY <2>2 DEF Enqueue, Link, Wakeup, At, Poller
    <3> QED
      BY <1>1, <1>3, <1>4, <1>5, <3>1 DEF Noticed
  <2> QED
    BY <2>1, <2>2 DEF Shared
<1>6. \A c \in Channels : chan[c].messages \in Nat
  BY DEF Basic, DataType
<1>7. \A c \in Channels :
        chan'[c].messages + (IF Receiving(c)' THEN 1 ELSE 0)
            <= chan[c].messages + (IF Receiving(c) THEN 1 ELSE 0)
  BY <1>1, <1>3, <1>6
<1> QED
  BY <1>1, <1>3, <1>4, <1>5, <1>7, CountKept

(* The steps of the poll that concern the queue only. *)
LEMMA QuietSteps ==
    ASSUME CountInv, Basic, Basic',
           \/ Register \/ prepare_for_sleep \/ Select \/ Cleanup \/ OtherEvent \/ ZeroTimeout \/ SkipMarker
           \/ ClearSleepMarker \/ StopPolling \/ CheckHead \/ NextPoll
    PROVE  CountInv'
<1> DEFINE r == thread["poller"]
           p == thread'["poller"]
<1>1. UNCHANGED <<chan, sends>>
  BY DEF Register, prepare_for_sleep, Select, Cleanup, OtherEvent, ZeroTimeout, SkipMarker, ClearSleepMarker,
         StopPolling, CheckHead, NextPoll
<1>2. \A c \in Channels : node'[c].readiness = node[c].readiness
  <2>1. CASE Register
    <3>1. node' = node \/ \E c \in todo : node' = [node EXCEPT ![c].interest = TRUE]
      BY <2>1 DEF Register
    <3>2. \A c \in Channels : node[c] \in [readiness : BOOLEAN, interest : BOOLEAN, queued : BOOLEAN]
      BY DEF Basic, DataType
    <3>3. ASSUME NEW c, node' = [node EXCEPT ![c].interest = TRUE], NEW d \in Channels
          PROVE  node'[d].readiness = node[d].readiness
      BY <3>2, <3>3 DEF Basic, DataType
    <3> QED
      BY <3>1, <3>3
  <2>2. CASE ~Register
    <3>1. node' = node
      BY <2>2 DEF prepare_for_sleep, Select, Cleanup, OtherEvent, ZeroTimeout, SkipMarker, ClearSleepMarker,
         StopPolling, CheckHead, NextPoll
    <3> QED
      BY <3>1
  <2> QED
    BY <2>1, <2>2
<1>3. Quiet(r)
  BY DEF Register, prepare_for_sleep, Select, Cleanup, OtherEvent, ZeroTimeout, SkipMarker, ClearSleepMarker,
         StopPolling, CheckHead, NextPoll, Quiet, Subtracting, PushPcs, Poller, At
<1>4. Others("poller") /\ (p.pc \notin PushPcs \cup {"sub", "load"}
                            \/ (p.pc = "enqueue" /\ p.then = "pop_again"))
  <2>1. CASE Register
    BY <2>1, RegisterNow DEF PollerAt, Now, Others, PushPcs
  <2>2. CASE prepare_for_sleep
    BY <2>2, prepare_for_sleepNow DEF PollerAt, Now, Others, PushPcs
  <2>3. CASE Select \/ Cleanup \/ OtherEvent \/ ZeroTimeout
    BY <2>3, PollingNow DEF PollerAt, Now, Others, PushPcs
  <2>4. CASE SkipMarker
    BY <2>4, SkipMarkerNow DEF PollerAt, Now, Others, PushPcs
  <2>5. CASE ClearSleepMarker \/ StopPolling
    BY <2>5, ToDrainNow DEF PollerAt, Now, Others, PushPcs
  <2>6. CASE CheckHead
    BY <2>6, CheckHeadNow DEF PollerAt, Now, Others, PushPcs
  <2>7. CASE NextPoll
    BY <2>7, NextPollNow DEF PollerAt, Now, Others, PushPcs
  <2> QED
    BY <2>1, <2>2, <2>3, <2>4, <2>5, <2>6, <2>7
<1>5. ~Subtracting(p) /\ p.pc # "load"
  BY <1>4 DEF Subtracting, PushPcs
<1> QED
  BY <1>1, <1>2, <1>3, <1>4, <1>5, PollerQuiet

(* Pops, what is done to a node, and the end of a drain. *)
LEMMA TakesCounts ==
    ASSUME CountInv, Basic, Basic', PopFirst \/ PopSecond \/ Process \/ Drained \/ Reregister,
           tail \in Channels \/ ~(PopFirst \/ PopSecond)
    PROVE  CountInv'
<1> DEFINE r == thread["poller"]
           p == thread'["poller"]
<1>1. UNCHANGED <<chan, sends>>
  BY DEF PopFirst, PopSecond, Pop, Process, Drained, Reregister
<1>2. \A c \in Channels : node'[c].readiness = node[c].readiness
  <2>1. CASE Process
    BY <2>1 DEF Process, Basic, DataType
  <2>2. CASE Reregister
    BY <2>2 DEF Reregister, Rearmed, Announced, Basic, DataType
  <2> QED
    BY <2>1, <2>2 DEF PopFirst, PopSecond, Pop, Drained
<1>3. Quiet(r)
  BY DEF PopFirst, PopSecond, Pop, Process, Drained, Reregister, Quiet, Subtracting, PushPcs,
         Poller, At
<1>4. Others("poller") /\ (p.pc \notin PushPcs \cup {"sub", "load"}
                            \/ (p.pc = "enqueue" /\ p.then = "drain"))
  <2>1. CASE PopFirst \/ PopSecond
    <3>1. ASSUME NEW pc, NEW otherwise \in {"check", "stop"}, Pop(pc, otherwise)
          PROVE  Others("poller") /\ p.pc \in {"check", "stop", "process"}
      BY <2>1, <3>1, PopNow DEF PollerAt, Now, Others
    <3>2. \/ Pop("poll", "check") \/ Pop("pop", "check") \/ Pop("pop_again", "stop")
      BY <2>1 DEF PopFirst, PopSecond
    <3> QED
      BY <3>1, <3>2 DEF PushPcs
  <2>2. CASE Process
    BY <2>2, ProcessNow DEF PollerRests, Now, Others, PushPcs
  <2>3. CASE Drained
    <3>1. PICK c \in todo :
             /\ Poller("drain")
             /\ IF c \in events
                THEN thread' = [thread EXCEPT !["poller"].pc = "update", !["poller"].item = c]
                ELSE UNCHANGED thread
      BY <2>3 DEF Drained
    <3>2. c \in Channels
      BY DEF Basic, DataType
    <3>3. CASE c \in events
      BY <3>1, <3>2, <3>3, DrainNow DEF Now, Others, PushPcs
    <3>4. CASE c \notin events
      BY <3>1, <3>4, PollerFacts DEF Others, PushPcs, Poller, At
    <3> QED
      BY <3>3, <3>4
  <2>4. CASE Reregister
    BY <2>4, ReregisterNow DEF PollerRests, Now, Others, PushPcs
  <2> QED
    BY <2>1, <2>2, <2>3, <2>4
<1>5. ~Subtracting(p) /\ p.pc # "load"
  BY <1>4 DEF Subtracting, PushPcs
<1> QED
  BY <1>1, <1>2, <1>3, <1>4, <1>5, PollerQuiet

(* From now on the senders set the readiness; the receiver has looked already. *)
LEMMA FillCounts ==
    ASSUME CountInv, ArmedInv, Basic, Basic', Fill
    PROVE  CountInv'
<1> DEFINE r == thread["poller"]
           p == thread'["poller"]
<1>1. /\ r.pc = "fill" /\ r.item \in Channels /\ Others("poller") /\ p.pc = "register"
      /\ UNCHANGED <<node, sends>>
  BY FillNow DEF Fill, Poller, At, Item, PollerRests, Now, Others
<1>2. chan[r.item].registered # "no"
  BY <1>1 DEF ArmedInv, Looked, Filling
<1>3. \A c \in Channels :
            /\ chan'[c].messages = chan[c].messages /\ chan'[c].pending = chan[c].pending
            /\ chan'[c].unannounced = chan[c].unannounced
            /\ chan'[c].registered # "no" => chan[c].registered # "no"
  <2>1. chan' = [chan EXCEPT ![r.item].registered = "yes"]
    BY DEF Fill, Item
  <2> QED
    BY <1>1, <1>2, <2>1 DEF Basic, DataType
<1>4. Quiet(r) /\ ~Subtracting(p) /\ p.pc # "load"
  BY <1>1 DEF Quiet, Subtracting, PushPcs
<1> QED
  BY <1>1, <1>3, <1>4, PollerQuiet

(* The receiver looks: what is there is set by the poller itself. *)
LEMMA LookCounts ==
    ASSUME CountInv, Basic, Basic', Look
    PROVE  CountInv'
<1> DEFINE r == thread["poller"]
           p == thread'["poller"]
<1>0. PICK d : d = r.item
  OBVIOUS
<1>1. /\ r.pc = "look" /\ d \in Channels /\ UNCHANGED <<node, sends>>
      /\ chan' = [chan EXCEPT ![d].registered = "looked"]
      /\ Others("poller")
      /\ IF chan[d].pending > 0 THEN p.pc = "set" /\ p.item = d /\ p.ready /\ p.then = "fill"
         ELSE p.pc = "fill"
  BY <1>0, LookNow DEF Look, Poller, At, Item, PollerAt, Now, Others
<1>2. /\ \A s \in Senders : At(s, "inc")' <=> At(s, "inc")
      /\ \A s \in Senders : (At(s, "set")' <=> At(s, "set")) /\ Item(s)' = Item(s)
  BY <1>1, OthersSenders, SendersSameFacts
<1>3. \A c : ~Receiving(c) /\ ~FirstOne(c) /\ ~Poller("set")
  BY <1>1, QuietFacts DEF Quiet, Subtracting, PushPcs
<1>4. \A c : ~Receiving(c)' /\ ~FirstOne(c)'
  BY <1>1 DEF Receiving, FirstOne, Subtracting, PushPcs
<1>5. \A c \in Channels : /\ chan[c].messages \in Nat /\ chan'[c].messages = chan[c].messages
                          /\ chan'[c].pending = chan[c].pending /\ chan[c].pending \in Nat
                          /\ chan'[c].unannounced = chan[c].unannounced
                          /\ c # d => chan'[c].registered = chan[c].registered
  <2>1. \A x \in 0 .. WordSize - 1 : x \in Nat
    BY ReadinessAssumption
  <2> QED
    BY <1>1, <2>1 DEF Basic, DataType
<1>6. ASSUME NEW c \in Channels, c # d, Noticed(c) PROVE Noticed(c)'
  BY <1>1, <1>2, <1>3, <1>5, <1>6 DEF Noticed
<1>7. chan[d].pending # 0 => Noticed(d)'
  <2>1. chan[d].pending # 0 => chan[d].pending > 0
    BY <1>1, <1>5
  <2> QED
    BY <1>1, <2>1 DEF Noticed, Poller, At, Item
<1>8. \A c \in Channels :
        \/ /\ chan'[c].registered # "no" => chan[c].registered # "no"
           /\ Noticed(c) => Noticed(c)'
        \/ chan[c].pending # 0 => Noticed(c)'
  <2>1. ASSUME NEW c \in Channels, c # d
        PROVE  /\ chan'[c].registered # "no" => chan[c].registered # "no"
               /\ Noticed(c) => Noticed(c)'
    BY <1>5, <1>6, <2>1
  <2> QED
    BY <1>7, <2>1
<1>9. sends' = sends
  BY <1>1
<1> QED
  BY <1>2, <1>3, <1>4, <1>5, <1>8, <1>9, CountKept

(* A message is taken; the counter is lowered later. *)
LEMMA TryRecvCounts ==
    ASSUME CountInv, Basic, Basic', TryRecv
    PROVE  CountInv'
<1> DEFINE r == thread["poller"]
           p == thread'["poller"]
<1>1. PICK d \in Channels :
        /\ r.pc = "drain" /\ chan[d].messages > 0
        /\ chan' = [chan EXCEPT ![d].messages = @ - 1]
        /\ thread' = [thread EXCEPT !["poller"].pc = "load", !["poller"].item = d]
        /\ UNCHANGED <<node, sends>>
  BY DEF TryRecv, Poller, At, Basic, DataType
<1>2. Others("poller") /\ p.pc = "load" /\ p.item = d
  BY <1>1, DrainNow DEF Now, Others
<1>3. /\ \A s \in Senders : At(s, "inc")' <=> At(s, "inc")
      /\ \A s \in Senders : (At(s, "set")' <=> At(s, "set")) /\ Item(s)' = Item(s)
  BY <1>2, OthersSenders, SendersSameFacts
<1>4. \A c : ~Receiving(c) /\ ~FirstOne(c) /\ ~Poller("set")
  BY <1>1, QuietFacts DEF Quiet, Subtracting, PushPcs
<1>5. \A c : ~FirstOne(c)' /\ (Receiving(c)' => c = d)
  BY <1>2 DEF Receiving, FirstOne, Subtracting, PushPcs
<1>6. \A c \in Channels : /\ chan[c].messages \in Nat
                          /\ chan'[c].messages = IF c = d THEN chan[c].messages - 1 ELSE chan[c].messages
                          /\ chan'[c].pending = chan[c].pending
                          /\ chan'[c].unannounced = chan[c].unannounced
                          /\ chan'[c].registered = chan[c].registered
  BY <1>1 DEF Basic, DataType
<1>7. \A c \in Channels : Noticed(c) => Noticed(c)'
  BY <1>1, <1>3, <1>4, <1>6 DEF Noticed
<1>8. \A c \in Channels :
        chan'[c].messages + (IF Receiving(c)' THEN 1 ELSE 0)
            <= chan[c].messages + (IF Receiving(c) THEN 1 ELSE 0)
  BY <1>4, <1>5, <1>6
<1>9. sends' = sends
  BY <1>1
<1> QED
  BY <1>3, <1>5, <1>6, <1>7, <1>8, <1>9, CountKept

(* The poller reads the counter, and unsets the readiness when it reads 1. *)
LEMMA DecLoadCounts ==
    ASSUME CountInv, Basic, Basic', DecLoad
    PROVE  CountInv'
<1> DEFINE r == thread["poller"]
           p == thread'["poller"]
<1>1. /\ r.pc = "load" /\ r.item \in Channels /\ UNCHANGED <<node, sends, chan>>
      /\ Others("poller") /\ p.item = r.item /\ p.then = "sub" /\ p.first = chan[r.item].pending
      /\ p.pc \in {"set", "sub"}
  BY DecLoadNow DEF DecLoad, Poller, At, Item, Now, Others
<1>2. /\ \A s \in Senders : At(s, "inc")' <=> At(s, "inc")
      /\ \A s \in Senders : (At(s, "set")' <=> At(s, "set")) /\ Item(s)' = Item(s)
  BY <1>1, OthersSenders, SendersSameFacts
<1>3. \A c : (Receiving(c)' <=> Receiving(c)) /\ ~FirstOne(c) /\ ~Poller("set")
             /\ (FirstOne(c)' => chan[c].pending = 1)
  BY <1>1 DEF Receiving, FirstOne, Subtracting, PushPcs, Poller, At
<1>4. \A c \in Channels : Noticed(c) => Noticed(c)'
  BY <1>1, <1>2, <1>3 DEF Noticed
<1>5. \A c \in Channels : chan[c].messages \in Nat
  BY DEF Basic, DataType
<1>6. \A c \in Channels :
        chan'[c].messages + (IF Receiving(c)' THEN 1 ELSE 0)
            <= chan[c].messages + (IF Receiving(c) THEN 1 ELSE 0)
  BY <1>1, <1>3, <1>5
<1>7. sends' = sends /\ chan' = chan
  BY <1>1
<1> QED
  BY <1>2, <1>3, <1>4, <1>6, <1>7, CountKept

-----------------------------------------------------------------------------
(* A step that concerns the channel d only. *)

LEMMA CountsElsewhere ==
    ASSUME CountInv, Basic, Basic', NEW d \in Channels,
           \A c \in Channels : c # d => chan'[c] = chan[c] /\ node'[c] = node[c],
           \A s \in Senders : ChannelOf[s] # d => thread'[s] = thread[s] /\ sends'[s] = sends[s],
           \A s \in Senders : thread'[s] # thread[s] =>
                (At(s, "set") => Item(s) = d) /\ (At(s, "set")' => Item(s)' = d),
           \/ thread'["poller"] = thread["poller"]
           \/ /\ thread["poller"].item = d
              /\ thread'["poller"].item = d \/ thread'["poller"].pc = "drain",
           IncBelow',
           \E a \in SUBSET Tokens, b \in Nat : Counts(a, b, d)'
    PROVE  CountInv'
<1>1. ASSUME NEW c \in Channels, c # d
      PROVE  \E a \in SUBSET Tokens, b \in Nat : Counts(a, b, c)'
  <2>1. PICK a \in SUBSET Tokens, b \in Nat : Counts(a, b, c)
    BY DEF CountInv
  <2>2. \A s \in Senders : ChannelOf[s] = c =>
            (At(s, "inc")' <=> At(s, "inc")) /\ sends'[s] = sends[s]
    BY <1>1 DEF At
  <2>3. chan'[c] = chan[c] /\ node'[c] = node[c] /\ chan[c].messages \in Nat
    BY <1>1 DEF Basic, DataType
  <2>4. /\ Receiving(c)' <=> Receiving(c)
        /\ FirstOne(c)' <=> FirstOne(c)
        /\ Poller("set") /\ Item("poller") = c /\ thread["poller"].ready =>
              Poller("set")' /\ Item("poller")' = c /\ thread'["poller"].ready
    BY <1>1 DEF Receiving, FirstOne, Subtracting, PushPcs, Poller, At, Item
  <2>5. \A s \in Senders : At(s, "set") /\ Item(s) = c => At(s, "set")' /\ Item(s)' = c
    BY <1>1 DEF At, Item
  <2>6. Noticed(c) => Noticed(c)'
    BY <2>3, <2>4, <2>5 DEF Noticed
  <2>7. chan'[c].messages + (IF Receiving(c)' THEN 1 ELSE 0)
            <= chan[c].messages + (IF Receiving(c) THEN 1 ELSE 0)
    BY <2>3, <2>4
  <2>8. Counts(a, b, c)'
    BY <2>1, <2>2, <2>3, <2>4, <2>6, <2>7, CountsFrame
  <2> QED
    BY <2>8
<1> QED
  BY <1>1 DEF CountInv

(* The counter is lowered; what came since it was read is set again. *)
LEMMA DecSubCounts ==
    ASSUME CountInv, Basic, Basic', DecSub
    PROVE  CountInv'
<1> DEFINE r == thread["poller"]
           p == thread'["poller"]
<1>0. PICK d : d = r.item
  OBVIOUS
<1>1. /\ r.pc = "sub" /\ d \in Channels /\ UNCHANGED <<node, sends>> /\ Others("poller")
      /\ chan' = [chan EXCEPT ![d].pending = (@ - 1) % WordSize]
      /\ IF SetAgain(r.first, chan[d].pending)
         THEN p.pc = "set" /\ p.item = d /\ p.then = "drain" /\ p.ready
         ELSE p.pc = "drain"
  BY <1>0, DecSubNow DEF DecSub, Poller, At, Item, PollerRests, Now, Others
<1>2. /\ \A s \in Senders : At(s, "inc")' <=> At(s, "inc")
      /\ \A s \in Senders : (At(s, "set")' <=> At(s, "set")) /\ Item(s)' = Item(s)
  BY <1>1, OthersSenders, SendersSameFacts
<1>3. \A s \in Senders : thread'[s] = thread[s] /\ sends'[s] = sends[s]
  BY <1>1, OthersSenders DEF SendersSame
<1>4. /\ \A c \in Channels : c # d => chan'[c] = chan[c] /\ node'[c] = node[c]
      /\ chan'[d].messages = chan[d].messages
      /\ chan'[d].pending = (chan[d].pending - 1) % WordSize
      /\ chan'[d].unannounced = chan[d].unannounced
      /\ chan'[d].registered = chan[d].registered
      /\ node'[d] = node[d] /\ chan[d].messages \in Nat
  BY <1>1 DEF Basic, DataType
<1>5. PICK a \in SUBSET Tokens, b \in Nat : Counts(a, b, d)
  BY <1>1 DEF CountInv
<1>6. PICK v \in Int : v = Cardinality(a) - b
  <2>1. Cardinality(a) \in Nat
    BY <1>1, <1>5, CountBounds
  <2> QED
    BY <2>1
<1>7. PICK k \in Nat : k = Cardinality(a \cup Arriving(d)) /\ k <= Cardinality(Tokens)
  BY <1>1, <1>5, CountBounds
<1>8. Receiving(d) /\ ~Receiving(d)' /\ ~FirstOne(d)'
  BY <1>0, <1>1 DEF Receiving, FirstOne, Subtracting, PushPcs
<1>9. Arriving(d)' = Arriving(d)
  BY <1>1, <1>2 DEF Arriving
<1>10. chan[d].messages + b + 1 <= k
  <2>1. chan[d].messages + b + 1 <= Cardinality(a \cup Arriving(d))
    BY <1>5, <1>8 DEF Counts
  <2> QED
    BY <1>7, <2>1
<1>11. PICK n \in Nat : n = Cardinality(Tokens) /\ 2 * n < WordSize
  BY TokensFew
<1>12. v <= n /\ v - 1 >= -n
  <2>1. Cardinality(a) \in Nat /\ Cardinality(a) <= n
    BY <1>1, <1>5, <1>11, CountBounds
  <2> QED
    BY <1>4, <1>6, <1>7, <1>10, <1>11, <2>1
<1>13. chan'[d].pending = Wrapped(v - 1)
  <2>1. chan[d].pending = Wrapped(v)
    BY <1>5, <1>6 DEF Counts
  <2> QED
    BY <1>4, <1>11, <1>12, <2>1, WordSteps
<1>14. ASSUME chan[d].registered # "no", v - 1 >= 1 PROVE Noticed(d)'
  <2>1. Noticed(d) /\ chan[d].pending = v /\ v >= 1 /\ v > 1
    BY <1>1, <1>5, <1>6, <1>14, CounterShows DEF Counts
  <2>2. CASE r.first = 1
    <3>1. p.pc = "set" /\ p.item = d /\ p.ready
      BY <1>1, <2>1, <2>2 DEF SetAgain
    <3> QED
      BY <3>1 DEF Noticed, Poller, At, Item
  <2>3. CASE r.first # 1
    <3>1. ~FirstOne(d) /\ ~Poller("set")
      BY <1>1, <2>3 DEF FirstOne, Poller, At
    <3> QED
      BY <1>2, <1>4, <2>1, <3>1 DEF Noticed
  <2> QED
    BY <2>2, <2>3
<1>15. Counts(a, b + 1, d)'
  <2>1. Cardinality(a) - (b + 1) = v - 1
    <3>1. Cardinality(a) \in Nat
      BY <1>1, <1>5, CountBounds
    <3> QED
      BY <1>6, <3>1
  <2>2. \A s \in Senders, j \in Slots : <<s, j>> \in a =>
            ChannelOf[s] = d /\ j > sends'[s] /\ ~(At(s, "inc")' /\ j = sends'[s] + 1)
    BY <1>2, <1>3, <1>5 DEF Counts
  <2>3. chan'[d].messages + (b + 1) + 0 <= Cardinality(a \cup Arriving(d)')
    BY <1>4, <1>7, <1>9, <1>10
  <2> QED
    BY <1>4, <1>8, <1>13, <1>14, <2>1, <2>2, <2>3 DEF Counts
<1>16. IncBelow'
  BY <1>2, <1>3 DEF CountInv, IncBelow
<1>17. \E x \in SUBSET Tokens, y \in Nat : Counts(x, y, d)'
  BY <1>15
<1>18. thread["poller"].item = d /\ (thread'["poller"].item = d \/ thread'["poller"].pc = "drain")
  BY <1>0, <1>1
<1> QED
  BY <1>1, <1>3, <1>4, <1>16, <1>17, <1>18, CountsElsewhere

(* A step of one sender concerns its own channel only. *)
LEMMA SenderElsewhere ==
    ASSUME Basic, NEW s \in Senders, Others(s), thread[s].pc # "set",
           thread'[s].pc = "set" => thread'[s].item = ChannelOf[s]
    PROVE  /\ thread'["poller"] = thread["poller"]
           /\ \A u \in Senders : u # s => thread'[u] = thread[u]
           /\ \A u \in Senders : thread'[u] # thread[u] =>
                (At(u, "set") => Item(u) = ChannelOf[s]) /\ (At(u, "set")' => Item(u)' = ChannelOf[s])
           /\ ChannelOf[s] \in Channels
           /\ \A c : (Receiving(c)' <=> Receiving(c)) /\ (FirstOne(c)' <=> FirstOne(c))
           /\ (Poller("set")' <=> Poller("set")) /\ Item("poller")' = Item("poller")
<1>1. thread'["poller"] = thread["poller"] /\ \A u \in Senders : u # s => thread'[u] = thread[u]
  BY Constants DEF Others, Threads
<1>2. \A u \in Senders : thread'[u] # thread[u] =>
                (At(u, "set") => Item(u) = ChannelOf[s]) /\ (At(u, "set")' => Item(u)' = ChannelOf[s])
  BY <1>1 DEF At, Item
<1>3. ChannelOf[s] \in Channels
  BY ReadinessAssumption
<1>4. \A c : (Receiving(c)' <=> Receiving(c)) /\ (FirstOne(c)' <=> FirstOne(c))
  BY <1>1 DEF Receiving, FirstOne, Subtracting
<1>5. (Poller("set")' <=> Poller("set")) /\ Item("poller")' = Item("poller")
  BY <1>1 DEF Poller, At, Item
<1> QED
  BY <1>1, <1>2, <1>3, <1>4, <1>5

(* s raises the counter: its token is no longer about to arrive. *)
LEMMA IncCounts ==
    ASSUME CountInv, Basic, Basic', NEW s \in Senders, Inc(s)
    PROVE  CountInv'
<1>0. PICK d : d = ChannelOf[s]
  OBVIOUS
<1> DEFINE first == chan[d].pending = 0
<1>1. /\ thread[s].pc = "inc" /\ d \in Channels /\ UNCHANGED <<node, sends>> /\ Others(s)
      /\ chan' = [chan EXCEPT ![d].pending = (@ + 1) % WordSize,
                              ![d].unannounced = @ \/ (first /\ chan[d].registered = "looked")]
      /\ IF first /\ chan[d].registered = "yes" THEN thread'[s].pc = "set" /\ thread'[s].item = d
         ELSE thread'[s].pc = "idle"
  BY <1>0, IncNow DEF Inc, At, Now, Others
<1>2. /\ \A c \in Channels : c # d => chan'[c] = chan[c] /\ node'[c] = node[c]
      /\ chan'[d].messages = chan[d].messages
      /\ chan'[d].pending = (chan[d].pending + 1) % WordSize
      /\ chan'[d].unannounced <=> (chan[d].unannounced \/ (first /\ chan[d].registered = "looked"))
      /\ chan'[d].registered = chan[d].registered
      /\ node'[d] = node[d] /\ chan[d].messages \in Nat
      /\ chan[d].registered \in {"no", "looked", "yes"}
  BY <1>1 DEF Basic, DataType
<1> HIDE DEF first
<1>3. /\ thread'["poller"] = thread["poller"]
      /\ \A u \in Senders : u # s => thread'[u] = thread[u]
      /\ \A u \in Senders : thread'[u] # thread[u] =>
            (At(u, "set") => Item(u) = d) /\ (At(u, "set")' => Item(u)' = d)
      /\ \A c : (Receiving(c)' <=> Receiving(c)) /\ (FirstOne(c)' <=> FirstOne(c))
      /\ (Poller("set")' <=> Poller("set")) /\ Item("poller")' = Item("poller")
  BY <1>0, <1>1, SenderElsewhere
<1>4. PICK a \in SUBSET Tokens, b \in Nat : Counts(a, b, d)
  BY <1>1 DEF CountInv
<1>5. PICK tok : tok = <<s, sends[s] + 1>>
  OBVIOUS
<1>6. tok \in Tokens /\ tok \in Arriving(d) /\ sends[s] + 1 \in Slots /\ sends[s] \in Int
  BY <1>0, <1>1, <1>5, ArrivingIs DEF CountInv, At, Tokens, Basic, DataType
<1>7. tok \notin a
  BY <1>1, <1>4, <1>5, <1>6 DEF Counts, At
<1>8. (a \cup {tok}) \cup Arriving(d)' = a \cup Arriving(d)
  <2>1. \A u \in Senders : At(u, "inc")' <=> At(u, "inc") /\ u # s
    BY <1>1, <1>3 DEF At
  <2>2. \A x \in Arriving(d)' : x \in Arriving(d)
    BY <1>1, <2>1 DEF Arriving
  <2>3. \A x \in Arriving(d) : x = tok \/ x \in Arriving(d)'
    BY <1>1, <1>5, <2>1 DEF Arriving
  <2> QED
    BY <1>6, <2>2, <2>3
<1>9. PICK v \in Int : v = Cardinality(a) - b /\ Cardinality(a) \in Nat
  <2>1. Cardinality(a) \in Nat
    BY <1>1, <1>4, CountBounds
  <2> QED
    BY <2>1
<1>10. /\ IsFiniteSet(a \cup {tok}) /\ Cardinality(a \cup {tok}) = Cardinality(a) + 1
       /\ a \cup {tok} \in SUBSET Tokens
  <2>1. IsFiniteSet(a)
    BY <1>1, <1>4, CountBounds
  <2> QED
    BY <1>6, <1>7, <2>1, FS_AddElement
<1>11. PICK n \in Nat : n = Cardinality(Tokens) /\ 2 * n < WordSize
  BY TokensFew
<1>12. v + 1 <= n /\ v <= n /\ v >= -n
  <2>1. Cardinality(a \cup {tok}) <= n
    BY <1>10, <1>11, TokensFew, FS_Subset
  <2>2. b <= n
    BY <1>1, <1>4, <1>11, CountBounds
  <2> QED
    BY <1>9, <1>10, <1>11, <2>1, <2>2
<1>13. chan'[d].pending = Wrapped(v + 1)
  <2>1. chan[d].pending = Wrapped(v)
    BY <1>4, <1>9 DEF Counts
  <2> QED
    BY <1>2, <1>11, <1>12, <2>1, WordSteps
<1>14. ASSUME chan[d].registered # "no", v + 1 >= 1 PROVE Noticed(d)'
  <2>1. CASE v = 0
    <3>1. first
      BY <1>1, <1>4, <1>9, <2>1, CounterShows DEF first
    <3>2. CASE chan[d].registered = "yes"
      BY <1>1, <3>1, <3>2 DEF Noticed, At, Item
    <3>3. CASE chan[d].registered = "looked"
      BY <1>2, <3>1, <3>3 DEF Noticed
    <3> QED
      BY <1>2, <1>14, <3>2, <3>3
  <2>2. CASE v >= 1
    <3>1. Noticed(d)
      BY <1>4, <1>9, <1>14, <2>2 DEF Counts
    <3>2. \A u \in Senders : At(u, "set") /\ Item(u) = d => At(u, "set")' /\ Item(u)' = d
      BY <1>1, <1>3 DEF At, Item
    <3> QED
      BY <1>2, <1>3, <3>1, <3>2 DEF Noticed
  <2> QED
    BY <1>14, <2>1, <2>2
<1>15. Counts(a \cup {tok}, b, d)'
  <2>1. Cardinality(a \cup {tok}) - b = v + 1
    BY <1>9, <1>10
  <2>2. ASSUME NEW u \in Senders, NEW j \in Slots, <<u, j>> \in a \cup {tok}
        PROVE  ChannelOf[u] = d /\ j > sends'[u] /\ ~(At(u, "inc")' /\ j = sends'[u] + 1)
    <3>1. CASE <<u, j>> = tok
      <4>1. u = s /\ j = sends[s] + 1
        BY <1>5, <3>1
      <4> QED
        BY <1>0, <1>1, <1>6, <4>1 DEF At
    <3>2. CASE <<u, j>> \in a
      BY <1>1, <1>3, <1>4, <3>2 DEF Counts, At
    <3> QED
      BY <2>2, <3>1, <3>2
  <2>3. chan'[d].messages + b + (IF Receiving(d)' THEN 1 ELSE 0)
            <= Cardinality((a \cup {tok}) \cup Arriving(d)')
    BY <1>2, <1>3, <1>4, <1>8 DEF Counts
  <2>4. FirstOne(d)' => v + 1 >= 1
    BY <1>3, <1>4, <1>9 DEF Counts
  <2> QED
    BY <1>2, <1>13, <1>14, <2>1, <2>2, <2>3, <2>4 DEF Counts
<1>16. IncBelow'
  BY <1>1, <1>3 DEF CountInv, IncBelow, At
<1>17. \E x \in SUBSET Tokens, y \in Nat : Counts(x, y, d)'
  BY <1>10, <1>15
<1>18. \A u \in Senders : ChannelOf[u] # d => thread'[u] = thread[u] /\ sends'[u] = sends[u]
  BY <1>0, <1>1, <1>3
<1> QED
  BY <1>1, <1>2, <1>3, <1>16, <1>17, <1>18, CountsElsewhere

(* s takes one of its messages, or is dropped; its token arrives. *)
LEMMA SpendCounts ==
    ASSUME CountInv, Basic, Basic', NEW s \in Senders, Send(s) \/ DropSender(s)
    PROVE  CountInv'
<1>0. PICK d : d = ChannelOf[s]
  OBVIOUS
<1>1. PICK old \in Int, new \in Int : old = sends[s] /\ new = sends'[s]
  BY DEF Basic, DataType
<1>2. /\ thread[s].pc = "idle" /\ d \in Channels /\ node' = node /\ Others(s)
      /\ old <= MaxSends[s] /\ MaxSends[s] \in Nat /\ old >= 0 /\ new < old /\ new >= -1
      /\ \A u \in Senders : u # s => sends'[u] = sends[u]
      /\ thread'[s].pc = "inc" \/ thread' = thread
  <2>1. old <= MaxSends[s] /\ MaxSends[s] \in Nat /\ new >= -1
    BY <1>1, Constants DEF Basic, DataType
  <2>2. d \in Channels
    BY <1>0, ReadinessAssumption
  <2>3. At(s, "idle") /\ (Goto(s, "inc") \/ thread' = thread) /\ node' = node
    BY DEF Send, DropSender
  <2>4. Others(s) /\ thread[s].pc = "idle" /\ (thread'[s].pc = "inc" \/ thread' = thread)
    BY <2>3, SendNow, SenderOthers DEF At, Now
  <2>5. /\ old >= 0 /\ new < old
        /\ \A u \in Senders : u # s => sends'[u] = sends[u]
    <3>1. sends \in [Senders -> Int]
      BY DEF Basic, DataType
    <3>2. CASE Send(s)
      BY <1>1, <3>1, <3>2 DEF Send
    <3>3. CASE DropSender(s)
      BY <1>1, <3>1, <3>3 DEF DropSender
    <3> QED
      BY <3>2, <3>3
  <2> QED
    BY <2>1, <2>2, <2>3, <2>4, <2>5
<1>3. /\ \A c \in Channels : c # d => chan'[c] = chan[c] /\ node'[c] = node[c]
      /\ chan'[d].messages = chan[d].messages \/
            (chan'[d].messages = chan[d].messages + 1 /\ thread'[s].pc = "inc")
      /\ chan'[d].pending = chan[d].pending
      /\ chan'[d].unannounced = chan[d].unannounced
      /\ chan'[d].registered = chan[d].registered
      /\ node'[d] = node[d] /\ chan[d].messages \in Nat
  <2>1. CASE Send(s)
    BY <1>0, <1>2, <2>1, SendNow DEF Send, Basic, DataType, Now
  <2>2. CASE DropSender(s)
    BY <1>2, <2>2 DEF DropSender, Basic, DataType
  <2> QED
    BY <2>1, <2>2
<1>4. /\ thread'["poller"] = thread["poller"]
      /\ \A u \in Senders : u # s => thread'[u] = thread[u]
      /\ \A u \in Senders : thread'[u] # thread[u] =>
            (At(u, "set") => Item(u) = d) /\ (At(u, "set")' => Item(u)' = d)
      /\ \A c : (Receiving(c)' <=> Receiving(c)) /\ (FirstOne(c)' <=> FirstOne(c))
      /\ (Poller("set")' <=> Poller("set")) /\ Item("poller")' = Item("poller")
  <2>1. thread'[s].pc # "set"
    BY <1>2
  <2> QED
    BY <1>0, <1>2, <2>1, SenderElsewhere
<1>5. PICK a \in SUBSET Tokens, b \in Nat : Counts(a, b, d)
  BY <1>2 DEF CountInv
<1>6. IsFiniteSet(a \cup Arriving(d)) /\ Cardinality(a \cup Arriving(d)) \in Nat
  BY <1>2, <1>5, CountBounds
<1>7. PICK tok : tok = <<s, new + 1>>
  OBVIOUS
<1>8. new + 1 \in Slots /\ tok \in Tokens
  BY <1>2, <1>7 DEF Slots, Tokens
<1>9. tok \notin a
  BY <1>1, <1>2, <1>5, <1>7, <1>8 DEF Counts
<1>10. tok \notin Arriving(d)
  BY <1>2, <1>7 DEF Arriving, At
<1>11. ASSUME thread'[s].pc = "inc" PROVE Arriving(d)' = Arriving(d) \cup {tok}
  <2>1. \A u \in Senders : At(u, "inc")' <=> At(u, "inc") \/ u = s
    BY <1>4, <1>11 DEF At
  <2>2. \A x \in Arriving(d)' : x = tok \/ x \in Arriving(d)
    BY <1>1, <1>2, <1>7, <2>1 DEF Arriving
  <2>3. \A x \in Arriving(d) : x \in Arriving(d)'
    BY <1>2, <2>1 DEF Arriving, At
  <2>4. tok \in Arriving(d)'
    BY <1>0, <1>1, <1>7, <1>8, <2>1 DEF Arriving
  <2> QED
    BY <2>2, <2>3, <2>4
<1>12. ASSUME thread' = thread PROVE Arriving(d)' = Arriving(d)
  <2>1. \A u \in Senders : At(u, "inc")' <=> At(u, "inc") /\ u # s
    BY <1>2, <1>12 DEF At
  <2>2. \A u \in Senders : At(u, "inc") => u # s
    BY <1>2 DEF At
  <2> QED
    BY <1>2, <2>1, <2>2 DEF Arriving
<1>13. chan'[d].messages + b + (IF Receiving(d)' THEN 1 ELSE 0) <= Cardinality(a \cup Arriving(d)')
  <2>1. PICK k \in Nat : k = Cardinality(a \cup Arriving(d))
    BY <1>6
  <2>2. chan[d].messages + b + (IF Receiving(d)' THEN 1 ELSE 0) <= k
    BY <1>4, <1>5, <2>1 DEF Counts
  <2>3. CASE thread'[s].pc = "inc"
    <3>1. a \cup Arriving(d)' = (a \cup Arriving(d)) \cup {tok}
      BY <1>11, <2>3
    <3>2. Cardinality((a \cup Arriving(d)) \cup {tok}) = k + 1
      BY <1>6, <1>9, <1>10, <2>1, FS_AddElement
    <3>3. Cardinality(a \cup Arriving(d)') = k + 1
      BY <3>1, <3>2
    <3>4. PICK x \in {0, 1} : x = IF Receiving(d)' THEN 1 ELSE 0
      OBVIOUS
    <3>5. chan'[d].messages + b + x <= k + 1
      <4>1. chan[d].messages + b + x <= k
        BY <2>2, <3>4
      <4> QED
        BY <1>3, <4>1
    <3> QED
      BY <3>3, <3>4, <3>5
  <2>4. CASE thread' = thread
    <3>1. thread'[s].pc # "inc"
      BY <1>2, <2>4
    <3>2. Cardinality(a \cup Arriving(d)') = k
      BY <1>12, <2>1, <2>4
    <3>3. chan'[d].messages = chan[d].messages
      BY <1>3, <3>1
    <3> QED
      BY <2>2, <3>2, <3>3
  <2> QED
    BY <1>2, <2>3, <2>4
<1>14. \A u \in Senders, j \in Slots : <<u, j>> \in a =>
            ChannelOf[u] = d /\ j > sends'[u] /\ ~(At(u, "inc")' /\ j = sends'[u] + 1)
  <2>1. ASSUME NEW j \in Slots, <<s, j>> \in a
        PROVE  j > new /\ j # new + 1
    <3>1. j > old /\ j \in Nat
      BY <1>1, <1>5, <2>1 DEF Counts, Slots
    <3> QED
      BY <1>2, <3>1
  <2>2. ASSUME NEW u \in Senders, u # s, NEW j \in Slots, <<u, j>> \in a
        PROVE  j > sends'[u] /\ ~(At(u, "inc")' /\ j = sends'[u] + 1)
    BY <1>2, <1>4, <1>5, <2>2 DEF Counts, At
  <2> QED
    BY <1>1, <1>5, <2>1, <2>2 DEF Counts
<1>15. Noticed(d) => Noticed(d)'
  <2>1. \A u \in Senders : At(u, "set") /\ Item(u) = d => At(u, "set")' /\ Item(u)' = d
    BY <1>2, <1>4 DEF At, Item
  <2> QED
    BY <1>3, <1>4, <2>1 DEF Noticed
<1>16. Counts(a, b, d)'
  BY <1>3, <1>4, <1>5, <1>13, <1>14, <1>15 DEF Counts
<1>17. IncBelow'
  <2>1. ASSUME NEW u \in Senders, u # s, At(u, "inc")' PROVE sends'[u] < MaxSends[u]
    BY <1>2, <1>4, <2>1 DEF CountInv, IncBelow, At
  <2>2. sends'[s] < MaxSends[s]
    BY <1>1, <1>2
  <2> QED
    BY <2>1, <2>2 DEF IncBelow
<1>18. \A u \in Senders : ChannelOf[u] # d => thread'[u] = thread[u] /\ sends'[u] = sends[u]
  BY <1>0, <1>2, <1>4
<1>19. \E x \in SUBSET Tokens, y \in Nat : Counts(x, y, d)'
  BY <1>16
<1> QED
  BY <1>2, <1>3, <1>4, <1>17, <1>18, <1>19, CountsElsewhere

-----------------------------------------------------------------------------
(* A node that is ready and armed has its flag set; nothing is set on the  *)
(* node of a channel whose receiver has not looked yet.                    *)

Fresh(r) ==
    Registering(r) =>
        /\ \A c \in todo : chan[c].registered = "no"
        /\ r.pc = "look" => r.item \notin todo

Silent ==
    \A c \in Channels : chan[c].registered = "no" =>
        ~node[c].readiness /\ \A s \in Senders : ~(At(s, "set") /\ Item(s) = c)

Announcing == \A c \in Channels : Effective(node[c]) => node[c].queued

NodeInv == Fresh(thread["poller"]) /\ Silent /\ Announcing

(* At first nothing is ready. *)
LEMMA NodeInit == ASSUME Init PROVE NodeInv
<1>1. /\ \A t \in Threads : thread[t].pc \in {"register", "idle"}
      /\ \A c \in Channels : ~node[c].readiness /\ chan[c].registered = "no"
      /\ todo \subseteq Channels
  BY DEF Init, Resting
<1>2. thread["poller"].pc = "register"
  BY DEF Init, Resting, Threads
<1> QED
  BY <1>1, <1>2 DEF NodeInv, Fresh, Silent, Announcing, Effective, At, Threads

(* A step that sets the readiness of no node. *)
LEMMA NodeFrame ==
    ASSUME NodeInv,
           \A c \in Channels : /\ node'[c].readiness = node[c].readiness
                               /\ chan'[c].registered = "no" => chan[c].registered = "no"
                               /\ Effective(node'[c]) => node'[c].queued,
           \A s \in Senders : thread'[s] = thread[s] \/ ~At(s, "set")'
                                \/ chan'[Item(s)'].registered # "no",
           Fresh(thread["poller"])'
    PROVE  NodeInv'
<1>1. Silent'
  BY DEF NodeInv, Silent, At, Item
<1> QED
  BY <1>1 DEF NodeInv, Announcing

(* The poller does not register again. *)
LEMMA FreshFrame ==
    ASSUME NodeInv, Basic,
           \/ ~Registering(thread'["poller"])
           \/ /\ todo' = todo
              /\ \A c \in Channels : chan'[c].registered = chan[c].registered
              /\ \/ thread'["poller"] = thread["poller"]
                 \/ Registering(thread["poller"]) /\ thread'["poller"].pc # "look"
    PROVE  Fresh(thread["poller"])'
<1>1. CASE ~Registering(thread'["poller"])
  BY <1>1 DEF Fresh, Registering
<1>2. CASE /\ todo' = todo
           /\ \A c \in Channels : chan'[c].registered = chan[c].registered
           /\ \/ thread'["poller"] = thread["poller"]
              \/ Registering(thread["poller"]) /\ thread'["poller"].pc # "look"
  <2>1. Fresh(thread["poller"]) /\ todo \subseteq Channels
    BY DEF NodeInv, Basic, DataType
  <2> QED
    BY <1>2, <2>1 DEF Fresh, Registering
<1> QED
  BY <1>1, <1>2

(* set_readiness turns the flag on when the node becomes effective. *)
LEMMA SharedNode ==
    ASSUME Basic, ArmedInv, NodeInv, NEW t \in Threads, Shared(t)
    PROVE  NodeInv'
<1>1. UNCHANGED <<todo, chan>>
  BY DEF Shared, SetReadiness, Enqueue, Link, Wakeup
<1>2. /\ Others(t) /\ thread[t].pc \in PushPcs /\ thread'[t].pc # "set"
      /\ \/ /\ thread'[t].pc \in PushPcs
            /\ thread'[t].then = thread[t].then /\ thread'[t].item = thread[t].item
         \/ Leaves(t)
  <2>1. CASE SetReadiness(t)
    BY <2>1, SetReadinessNow DEF SetReadiness, At, PushPcs, Leaves, Now, Others, Item
  <2>2. CASE Enqueue(t)
    BY <2>2, EnqueueStepNow DEF Enqueue, At, PushPcs, Now, Others
  <2>3. CASE Link(t)
    BY <2>3, LinkNow DEF Link, At, PushPcs, Leaves, Now, Others
  <2>4. CASE Wakeup(t)
    BY <2>4, WakeupNow DEF Wakeup, At, PushPcs, Leaves, Now, Others
  <2> QED
    BY <2>1, <2>2, <2>3, <2>4 DEF Shared
<1>3. Fresh(thread["poller"])'
  <2>1. CASE t # "poller"
    <3>1. thread'["poller"] = thread["poller"]
      BY <1>2, <2>1 DEF Others, Threads
    <3> QED
      BY <1>1, <3>1, FreshFrame
  <2>2. CASE t = "poller"
    <3>1. Registering(thread'["poller"]) <=> Registering(thread["poller"])
      BY <1>2, <2>2, PollerPushPhases
    <3>2. thread'["poller"].pc # "look"
      BY <1>2, <2>2, PushFacts DEF Leaves, Now, PushPcs, Threads
    <3> QED
      BY <1>1, <3>1, <3>2, FreshFrame
  <2> QED
    BY <2>1, <2>2
<1>4. \A s \in Senders : thread'[s] = thread[s] \/ ~At(s, "set")'
  BY <1>2 DEF Others, At, Threads
<1>5. CASE SetReadiness(t)
  <2>1. PICK c \in Channels : c = Item(t)
    BY <1>5, SetReadinessNow
  <2>2. node' = [node EXCEPT ![c] = Announced(node[c], [node[c] EXCEPT !.readiness = thread[t].ready])]
    BY <1>5, <2>1 DEF SetReadiness
  <2>3. Effective(node'[c]) => node'[c].queued
    BY <2>1, <2>2 DEF Announced, Effective, Basic, DataType
  <2>4. \A d \in Channels : d # c => node'[d] = node[d]
    BY <2>1, <2>2 DEF Basic, DataType
  <2>5. chan[c].registered # "no"
    <3>1. CASE t \in Senders
      BY <1>5, <2>1, <3>1 DEF NodeInv, Silent, SetReadiness
    <3>2. CASE t = "poller"
      <4>1. thread["poller"].pc = "set" /\ thread["poller"].item = c
        BY <1>5, <2>1, <3>2 DEF SetReadiness, At, Item
      <4>2. Looked(thread["poller"])
        BY DEF ArmedInv
      <4>3. CASE thread["poller"].then = "fill"
        BY <4>1, <4>2, <4>3 DEF Looked, Filling, PushPcs
      <4>4. CASE thread["poller"].then # "fill"
        <5>1. ~Registering(thread["poller"])
          BY <4>1, <4>4 DEF Registering
        <5> QED
          BY <4>2, <5>1 DEF Looked
      <4> QED
        BY <4>3, <4>4
    <3> QED
      BY <3>1, <3>2 DEF Threads
  <2>6. Silent'
    BY <1>1, <1>4, <2>4, <2>5 DEF NodeInv, Silent, At, Item
  <2>7. Announcing'
    BY <2>3, <2>4 DEF NodeInv, Announcing
  <2> QED
    BY <1>3, <2>6, <2>7 DEF NodeInv
<1>6. CASE Enqueue(t) \/ Link(t) \/ Wakeup(t)
  <2>1. node' = node
    BY <1>6 DEF Enqueue, Link, Wakeup
  <2> QED
    BY <1>1, <1>3, <1>4, <2>1, NodeFrame DEF NodeInv, Announcing
<1> QED
  BY <1>5, <1>6 DEF Shared

(* A sender sets the readiness of a registered channel only. *)
LEMMA SendersNode ==
    ASSUME Basic, NodeInv, NEW s \in Senders, Send(s) \/ Inc(s) \/ DropSender(s)
    PROVE  NodeInv'
<1>1. Others(s) /\ UNCHANGED <<todo, node>>
  BY SenderOthers DEF Send, Inc, DropSender
<1>2. thread'["poller"] = thread["poller"] /\ \A u \in Senders : u # s => thread'[u] = thread[u]
  BY <1>1, Constants DEF Others, Threads
<1>3. ChannelOf[s] \in Channels
  BY ReadinessAssumption
<1>4. \A c \in Channels : chan'[c].registered = chan[c].registered
  <2>1. CASE Send(s)
    BY <1>3, <2>1 DEF Send, Basic, DataType
  <2>2. CASE Inc(s)
    BY <1>3, <2>2 DEF Inc, Basic, DataType
  <2>3. CASE DropSender(s)
    BY <2>3 DEF DropSender
  <2> QED
    BY <2>1, <2>2, <2>3
<1>5. At(s, "set")' => chan[Item(s)'].registered # "no" /\ Item(s)' \in Channels
  <2>1. CASE Inc(s)
    BY <1>3, <2>1, IncNow DEF Now, At, Item
  <2>2. CASE Send(s) \/ DropSender(s)
    <3>1. At(s, "idle") /\ (Goto(s, "inc") \/ thread' = thread)
      BY <2>2 DEF Send, DropSender
    <3> QED
      BY <3>1, SendNow DEF Now, At
  <2> QED
    BY <2>1, <2>2
<1>6. Fresh(thread["poller"])'
  BY <1>1, <1>2, <1>4, FreshFrame
<1>7. /\ \A c \in Channels : /\ node'[c].readiness = node[c].readiness
                             /\ chan'[c].registered = "no" => chan[c].registered = "no"
                             /\ Effective(node'[c]) => node'[c].queued
      /\ \A u \in Senders : thread'[u] = thread[u] \/ ~At(u, "set")' \/ chan'[Item(u)'].registered # "no"
  BY <1>1, <1>2, <1>4, <1>5 DEF NodeInv, Announcing
<1> QED
  BY <1>6, <1>7, NodeFrame

(* A node is armed before anything is set on it. *)
LEMMA RegisterNode ==
    ASSUME Basic, ArmedInv, NodeInv, Register \/ Look \/ Fill
    PROVE  NodeInv'
<1> DEFINE r == thread["poller"]
           p == thread'["poller"]
<1>0. Fresh(r) /\ Announcing /\ Silent /\ todo \subseteq Channels
  BY DEF NodeInv, Basic, DataType
<1>1. CASE Register /\ todo = {}
  <2>1. p.pc = "prepare" /\ Others("poller") /\ UNCHANGED <<node, chan>>
    BY <1>1, RegisterNow DEF PollerAt, Now, Others, Register
  <2>2. Fresh(r)'
    BY <2>1, FreshFrame DEF Registering, PushPcs
  <2>3. SendersSame
    BY <2>1, OthersSenders
  <2> QED
    BY <1>0, <2>1, <2>2, <2>3, NodeFrame DEF Announcing, SendersSame
<1>2. CASE Register /\ todo # {}
  <2>1. PICK c \in todo : /\ node' = [node EXCEPT ![c].interest = TRUE] /\ todo' = todo \ {c}
                          /\ p.pc = "look" /\ p.item = c /\ Others("poller")
    BY <1>2, RegisterNow DEF Now, Others
  <2>2. chan' = chan /\ r.pc = "register" /\ c \in Channels
    BY <1>0, <1>2, <2>1 DEF Register, Poller, At
  <2>3. \A d \in todo : chan[d].registered = "no"
    BY <1>0, <2>2 DEF Fresh, Registering
  <2>4. ~node[c].readiness
    BY <1>0, <2>1, <2>2, <2>3 DEF Silent
  <2>5. Fresh(r)'
    BY <2>1, <2>2, <2>3 DEF Fresh
  <2>6. SendersSame
    BY <2>1, OthersSenders
  <2>7. \A d \in Channels : /\ node'[d].readiness = node[d].readiness
                            /\ Effective(node'[d]) => node'[d].queued
    BY <1>0, <2>1, <2>2, <2>4 DEF Announcing, Effective, Basic, DataType
  <2> QED
    BY <2>2, <2>5, <2>6, <2>7, NodeFrame DEF SendersSame
<1>3. CASE Look
  <2>0. PICK d : d = r.item
    OBVIOUS
  <2>1. /\ r.pc = "look" /\ d \in Channels /\ UNCHANGED <<node, todo>>
        /\ chan' = [chan EXCEPT ![d].registered = "looked"]
        /\ Others("poller") /\ p.pc # "look"
    BY <1>3, <2>0, LookNow DEF Look, Poller, At, Item, PollerAt, Now, Others
  <2>2. \A c \in Channels : chan'[c].registered = IF c = d THEN "looked" ELSE chan[c].registered
    BY <2>1 DEF Basic, DataType
  <2>3. (\A c \in todo : chan[c].registered = "no") /\ d \notin todo
    BY <1>0, <2>0, <2>1 DEF Fresh, Registering
  <2>4. Fresh(r)'
    BY <1>0, <2>1, <2>2, <2>3 DEF Fresh
  <2>5. SendersSame
    BY <2>1, OthersSenders
  <2> QED
    BY <1>0, <2>1, <2>2, <2>4, <2>5, NodeFrame DEF Announcing, SendersSame
<1>4. CASE Fill
  <2>0. PICK d : d = r.item
    OBVIOUS
  <2>1. /\ r.pc = "fill" /\ d \in Channels /\ UNCHANGED <<node, todo>>
        /\ chan' = [chan EXCEPT ![d].registered = "yes"]
        /\ Others("poller") /\ p.pc = "register"
    BY <1>4, <2>0, FillNow DEF Fill, Poller, At, Item, PollerRests, Now, Others
  <2>2. \A c \in Channels : chan'[c].registered = IF c = d THEN "yes" ELSE chan[c].registered
    BY <2>1 DEF Basic, DataType
  <2>3. chan[d].registered # "no"
    BY <2>0, <2>1 DEF ArmedInv, Looked, Filling
  <2>4. \A c \in todo : chan[c].registered = "no"
    BY <1>0, <2>1 DEF Fresh, Registering
  <2>5. Fresh(r)'
    BY <1>0, <2>1, <2>2, <2>3, <2>4 DEF Fresh
  <2>6. SendersSame
    BY <2>1, OthersSenders
  <2> QED
    BY <1>0, <2>1, <2>2, <2>5, <2>6, NodeFrame DEF Announcing, SendersSame
<1> QED
  BY <1>1, <1>2, <1>3, <1>4

(* The poller registers at the start only. *)
LEMMA RegisteredOnce ==
    ASSUME Basic, tail \in Channels \/ ~(PopFirst \/ PopSecond), PollerStep \/ OtherEvent \/ ZeroTimeout,
           ~(Shared("poller") \/ Register \/ Look \/ Fill)
    PROVE  Others("poller") /\ ~Registering(thread'["poller"])
<1> DEFINE p == thread'["poller"]
<1>1. CASE prepare_for_sleep
  BY <1>1, prepare_for_sleepNow DEF PollerAt, Now, Others, Registering, PushPcs
<1>2. CASE Select \/ Cleanup \/ OtherEvent \/ ZeroTimeout
  BY <1>2, PollingNow DEF PollerAt, Now, Others, Registering, PushPcs
<1>3. CASE SkipMarker
  BY <1>3, SkipMarkerNow DEF PollerAt, Now, Others, Registering, PushPcs
<1>4. CASE ClearSleepMarker \/ StopPolling
  BY <1>4, ToDrainNow DEF PollerAt, Now, Others, Registering, PushPcs
<1>5. CASE PopFirst \/ PopSecond
  <2>1. ASSUME NEW pc, NEW otherwise \in {"check", "stop"}, Pop(pc, otherwise)
        PROVE  Others("poller") /\ p.pc \in {"check", "stop", "process"}
    BY <1>5, <2>1, PopNow DEF PollerAt, Now, Others
  <2>2. \/ Pop("poll", "check") \/ Pop("pop", "check") \/ Pop("pop_again", "stop")
    BY <1>5 DEF PopFirst, PopSecond
  <2> QED
    BY <2>1, <2>2 DEF Registering, PushPcs
<1>6. CASE CheckHead
  BY <1>6, CheckHeadNow DEF PollerAt, Now, Others, Registering, PushPcs
<1>7. CASE Process
  BY <1>7, ProcessNow DEF PollerRests, Now, Others, Registering, PushPcs
<1>8. CASE TryRecv \/ Drained
  <2>1. thread["poller"].pc = "drain"
    BY <1>8 DEF TryRecv, Drained, Poller, At
  <2>2. CASE UNCHANGED thread
    BY <2>1, <2>2, PollerFacts DEF Others, Registering, PushPcs
  <2>3. CASE \E c \in Channels, pc \in {"load", "update"} :
                thread' = [thread EXCEPT !["poller"].pc = pc, !["poller"].item = c]
    <3>1. PICK c \in Channels, pc \in {"load", "update"} :
                thread' = [thread EXCEPT !["poller"].pc = pc, !["poller"].item = c]
      BY <2>3
    <3> QED
      BY <3>1, DrainNow DEF Now, Others, Registering, PushPcs
  <2> QED
    BY <1>8, <2>2, <2>3 DEF TryRecv, Drained, Basic, DataType
<1>9. CASE NextPoll
  BY <1>9, NextPollNow DEF PollerAt, Now, Others, Registering, PushPcs
<1>10. CASE DecLoad
  BY <1>10, DecLoadNow DEF Now, Others, Registering, PushPcs
<1>11. CASE DecSub
  BY <1>11, DecSubNow DEF PollerRests, Now, Others, Registering, PushPcs
<1>12. CASE Reregister
  BY <1>12, ReregisterNow DEF PollerRests, Now, Others, Registering, PushPcs
<1> QED
  BY <1>1, <1>2, <1>3, <1>4, <1>5, <1>6, <1>7, <1>8, <1>9, <1>10, <1>11, <1>12 DEF PollerStep

(* Arming announces what was set; processing disarms it. *)
LEMMA PollerNode ==
    ASSUME Basic, NodeInv, tail \in Channels \/ ~(PopFirst \/ PopSecond), PollerStep \/ OtherEvent \/ ZeroTimeout,
           ~(Shared("poller") \/ Register \/ Look \/ Fill)
    PROVE  NodeInv'
<1>1. Others("poller") /\ ~Registering(thread'["poller"])
  BY RegisteredOnce
<1>2. SendersSame /\ Fresh(thread["poller"])'
  BY <1>1, OthersSenders, FreshFrame
<1>3. \A c \in Channels : /\ node'[c].readiness = node[c].readiness
                          /\ Effective(node'[c]) => node'[c].queued
  <2>1. CASE Process
    BY <2>1, ProcessNow DEF Process, NodeInv, Announcing, Effective, Basic, DataType
  <2>2. CASE Reregister
    BY <2>2, ReregisterNow DEF Reregister, Rearmed, NodeInv, Announcing, Announced, Effective, Basic, DataType
  <2>3. CASE ~(Process \/ Reregister)
    <3>1. node' = node
      BY <2>3 DEF PollerStep, OtherEvent, ZeroTimeout, prepare_for_sleep, Select, Cleanup, SkipMarker,
         ClearSleepMarker, PopFirst, PopSecond, Pop, CheckHead, StopPolling, TryRecv, Drained,
         NextPoll, DecLoad, DecSub
    <3> QED
      BY <3>1 DEF NodeInv, Announcing
  <2> QED
    BY <2>1, <2>2, <2>3
<1>4. \A c \in Channels : chan'[c].registered = chan[c].registered
  <2>1. CASE TryRecv
    BY <2>1 DEF TryRecv, Basic, DataType
  <2>2. CASE DecSub
    BY <2>2, DecSubNow DEF DecSub, Basic, DataType
  <2>3. CASE ~(TryRecv \/ DecSub)
    <3>1. chan' = chan
      BY <2>3 DEF PollerStep, OtherEvent, ZeroTimeout, prepare_for_sleep, Select, Cleanup, SkipMarker,
         ClearSleepMarker, PopFirst, PopSecond, Pop, CheckHead, StopPolling, Process, Drained,
         NextPoll, DecLoad, Reregister
    <3> QED
      BY <3>1
  <2> QED
    BY <2>1, <2>2, <2>3
<1> QED
  BY <1>2, <1>3, <1>4, NodeFrame DEF SendersSame

-----------------------------------------------------------------------------
(* Everything that keeps a sleeping poller from missing a message. *)

SleepInv == ArmedInv /\ Marked /\ CountInv /\ NodeInv

SInv == QInv /\ SleepInv

(* At first the poller is awake. *)
LEMMA SleepInit == Init => SInv
<1> SUFFICES ASSUME Init PROVE SInv
  OBVIOUS
<1>1. Marked
  BY DEF Init, Marked, Poller, At, Threads, Resting
<1> QED
  BY <1>1, QueueInit, ArmedInit, CountInit, NodeInit DEF SInv, SleepInv

(* The item popped is never a marker. *)
LEMMA PopsNodes == ASSUME QInv PROVE tail \in Channels \/ ~(PopFirst \/ PopSecond)
<1>1. tail \in Items
  BY DEF QInv, Basic, DataType
<1>2. thread["poller"].pc \in {"pop", "pop_again"} => tail \in Channels
  BY DEF QInv, QueueInv, Queue, Marks
<1> QED
  BY <1>1, <1>2 DEF PopFirst, PopSecond, Pop, Poller, At, Items

(* The steps of the poller. *)
LEMMA SleepPoller ==
    ASSUME SInv, QInv', PollerStep \/ OtherEvent \/ ZeroTimeout
    PROVE  SleepInv'
<1>1. /\ Basic /\ Basic' /\ ArmedInv /\ CountInv /\ NodeInv /\ "poller" \in Threads
      /\ tail \in Channels \/ ~(PopFirst \/ PopSecond)
  BY PopsNodes DEF SInv, SleepInv, QInv, Threads
<1>2. ArmedInv'
  BY <1>1, SharedArmed, RegisterArmed, PollArmed, ReturnsArmed, DrainArmed DEF PollerStep
<1>3. Marked'
  BY <1>1, NotAsleep, MarkedElsewhere, MarkedPrepare
<1>4. CountInv'
  BY <1>1, PollerPushCounts, QuietSteps, TakesCounts, FillCounts, LookCounts, TryRecvCounts,
     DecLoadCounts, DecSubCounts DEF PollerStep
<1>5. NodeInv'
  BY <1>1, SharedNode, RegisterNode, PollerNode
<1> QED
  BY <1>2, <1>3, <1>4, <1>5 DEF SleepInv

(* The steps of a sender. *)
LEMMA SleepSenders ==
    ASSUME SInv, QInv', NEW s \in Senders, SenderStep(s) \/ Send(s) \/ DropSender(s)
    PROVE  SleepInv'
<1>1. Basic /\ Basic' /\ ArmedInv /\ Marked /\ CountInv /\ NodeInv /\ s \in Threads
  BY DEF SInv, SleepInv, QInv, Threads
<1>2. Shared(s) \/ Send(s) \/ Inc(s) \/ DropSender(s)
  BY DEF SenderStep
<1>3. ArmedInv' /\ Marked'
  BY <1>1, <1>2, SharedArmed, SendersArmed, MarkedSenders
<1>4. CountInv' /\ NodeInv'
  BY <1>1, <1>2, SenderPushCounts, IncCounts, SpendCounts, SharedNode, SendersNode
<1> QED
  BY <1>3, <1>4 DEF SleepInv

(* A stuttering step. *)
LEMMA SleepStays == ASSUME SInv, QInv', UNCHANGED vars PROVE SleepInv'
<1>1. UNCHANGED <<chan, node, next, head, tail, awake, thread, sends, events, todo>>
  BY DEF vars
<1>2. Basic /\ Basic'
  BY DEF SInv, QInv
<1>3. ArmedInv'
  BY <1>1, <1>2, ArmedFrame DEF SInv, SleepInv
<1>4. Marked'
  BY <1>1 DEF SInv, SleepInv, Marked, Waking, Poller, At
<1>5. Fresh(thread["poller"])' /\ Announcing'
  BY <1>1 DEF SInv, SleepInv, NodeInv, Fresh, Announcing, Registering
<1>6. NodeInv'
  BY <1>1, <1>5, NodeFrame DEF SInv, SleepInv, NodeInv, Announcing
<1>7. CountInv'
  <2>1. \A s \in Senders : (At(s, "inc")' <=> At(s, "inc"))
    BY <1>1 DEF At
  <2>2. \A c : (Receiving(c)' <=> Receiving(c)) /\ (FirstOne(c)' <=> FirstOne(c))
    BY <1>1 DEF Receiving, FirstOne, Subtracting
  <2>3. \A c \in Channels : Noticed(c) => Noticed(c)'
    BY <1>1, <2>2 DEF Noticed, At, Item, Poller
  <2>4. \A c \in Channels : chan[c].messages \in Nat
    BY <1>2 DEF Basic, DataType
  <2>5. \A c \in Channels :
            chan'[c].messages + (IF Receiving(c)' THEN 1 ELSE 0)
                <= chan[c].messages + (IF Receiving(c) THEN 1 ELSE 0)
    BY <1>1, <2>2, <2>4
  <2> QED
    BY <1>1, <1>2, <2>1, <2>2, <2>3, <2>5, CountKept DEF SInv, SleepInv
<1> QED
  BY <1>3, <1>4, <1>6, <1>7 DEF SleepInv

(* Every step keeps the invariant. *)
LEMMA SleepNext == SInv /\ [Next]_vars => SInv'
<1> SUFFICES ASSUME SInv, [Next]_vars PROVE SInv'
  OBVIOUS
<1>1. QInv'
  BY QueueNext DEF SInv
<1>2. SleepInv'
  BY <1>1, SleepPoller, SleepSenders, SleepStays DEF Next
<1> QED
  BY <1>1, <1>2 DEF SInv

(* The whole invariant holds in every state. *)
LEMMA SleepHolds == Spec => []SInv
  BY SleepInit, SleepNext, PTL DEF Spec

(* Nothing is left to notice when the poller sleeps and the senders rest. *)
LEMMA SleepQuiet ==
    ASSUME SInv, Poller("block"), ~awake, \A s \in Senders : At(s, "idle"), NEW c \in Channels
    PROVE  chan[c].messages = 0 \/ chan[c].unannounced
<1>0. Basic /\ ArmedInv /\ Marked /\ CountInv /\ NodeInv
  BY DEF SInv, SleepInv, QInv
<1>1. thread["poller"].pc = "block" /\ \A s \in Senders : thread[s].pc = "idle"
  BY DEF Poller, At
<1>2. tail = "sleep" /\ head = "sleep"
  BY <1>0, <1>1 DEF Marked, Waking, At
<1>3. ~node[c].queued
  <2>1. PICK q \in [Nat -> Items], lo \in Nat, hi \in Nat : Queue(q, lo, hi)
    BY DEF SInv, QInv, QueueInv
  <2>2. lo = hi /\ q[lo] = "sleep"
    BY <1>2, <2>1 DEF Queue, Line
  <2>3. ~InLine(q, lo, hi, c)
    BY <2>2, ItemFacts DEF InLine
  <2>4. \A t \in Threads : ~Holds(t, c)
    BY <1>1 DEF Holds, At, Threads
  <2> QED
    BY <2>1, <2>3, <2>4 DEF Queue, Flags
<1>4. ~Registering(thread["poller"]) /\ Asleep(thread["poller"])
  BY <1>1 DEF Registering, Asleep, PushPcs
<1>5. node[c].interest /\ chan[c].registered # "no"
  BY <1>0, <1>4 DEF ArmedInv, Armed, Looked
<1>6. ~node[c].readiness
  BY <1>0, <1>3, <1>5 DEF NodeInv, Announcing, Effective
<1>7. Noticed(c) => chan[c].unannounced
  BY <1>1, <1>6 DEF Noticed, FirstOne, Subtracting, PushPcs, Poller, At
<1>8. PICK a \in SUBSET Tokens, b \in Nat : Counts(a, b, c)
  BY <1>0 DEF CountInv
<1>9. ASSUME chan[c].messages # 0 PROVE Cardinality(a) - b >= 1
  <2>1. Arriving(c) = {}
    BY <1>1 DEF Arriving, At
  <2>2. a \cup Arriving(c) = a
    BY <2>1
  <2>3. ~Receiving(c)
    BY <1>1 DEF Receiving, Subtracting, PushPcs
  <2>4. chan[c].messages + b + 0 <= Cardinality(a)
    BY <1>8, <2>2, <2>3 DEF Counts
  <2>5. Cardinality(a) \in Nat /\ chan[c].messages \in Nat
    BY <1>0, <1>8, CountBounds DEF Basic, DataType
  <2> QED
    BY <1>9, <2>4, <2>5
<1> QED
  BY <1>5, <1>7, <1>8, <1>9 DEF Counts

(* SleepSafe (prepare_for_sleep, Sender::send, ReceiverCtl::dec): while    *)
(* the poller blocks on an empty pipe, nothing is behind its marker or a   *)
(* producer is on its way to the awakener, and when the senders rest every *)
(* channel is empty, but for messages that came while the receiver         *)
(* registered.                                                             *)
THEOREM SleepIsSafe == Spec => []SleepSafe
<1>1. ASSUME SInv PROVE SleepSafe
  <2>1. SUFFICES ASSUME Poller("block"), ~awake PROVE SleepSafe
    BY DEF SleepSafe
  <2>2. head = "sleep" \/ \E t \in Senders : At(t, "wakeup") \/ (At(t, "link") /\ NeedsWakeup(t))
    <3>1. head = "sleep" \/ \E s \in Senders : Waking(s)
      BY <2>1, <1>1 DEF SInv, SleepInv, Marked
    <3>2. ASSUME NEW s \in Senders, At(s, "link") PROVE Item(s) # "end"
      <4>1. Basic /\ s \in Threads /\ thread[s].pc \in PushPcs
        BY <1>1, <3>2 DEF SInv, QInv, Threads, At, PushPcs
      <4> QED
        BY <4>1, PushFacts, ItemFacts DEF Item
    <3> QED
      BY <3>1, <3>2 DEF Waking, NeedsWakeup
  <2>3. (\A s \in Senders : At(s, "idle")) =>
            \A c \in Channels : chan[c].messages = 0 \/ chan[c].unannounced
    BY <1>1, <2>1, SleepQuiet
  <2> QED
    BY <2>2, <2>3 DEF SleepSafe
<1> QED
  BY <1>1, SleepHolds, PTL
==============================================================================
