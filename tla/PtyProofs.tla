------------------------------ MODULE PtyProofs ------------------------------
(***************************************************************************)
(* For every buffer size, message length and number of messages: the PTY   *)
(* thread never waits in poll without being registered for what it still   *)
(* has to do, loses no output of a program that runs, and delivers input   *)
(* complete, in order and once.  FlattenSeq of the community modules, in   *)
(* which that is stated, is a recursive function: that there is one has to *)
(* be shown before anything can be said of it, and the inductions look for *)
(* the least counterexample.                                               *)
(***************************************************************************)
EXTENDS PtyMachine, SequenceTheorems, WellFoundedInduction, TLAPS

(* A nonempty set of naturals has a least element. *)
LEMMA Least ==
    ASSUME NEW T, T \subseteq Nat, T # {}
    PROVE  \E x \in T : \A y \in T : x <= y
<1>1. PICK x \in T : \A y \in T : ~(<<y, x>> \in OpToRel(<, Nat))
  BY NatLessThanWellFounded, WFMin
<1>2. \A y \in T : x <= y
  <2> SUFFICES ASSUME NEW y \in T PROVE x <= y
    OBVIOUS
  <2>1. ~(y < x)
    BY <1>1 DEF OpToRel
  <2> QED BY <2>1
<1> QED
  BY <1>2

-----------------------------------------------------------------------------
(* FlattenSeq: what the recursive definition of the library computes. *)

(* f holds the flattened prefixes of s, up to the n-th. *)
Flattens(f, s, n) == f = [i \in 1 .. n |-> IF i = 1 THEN s[i] ELSE f[i - 1] \o s[i]]

(* FlattenSeq picks the last of the flattened prefixes. *)
LEMMA FlattenSeqDef ==
    ASSUME NEW s
    PROVE  FlattenSeq(s) = IF Len(s) = 0 THEN s ELSE (CHOOSE f : Flattens(f, s, Len(s)))[Len(s)]
BY DEF FlattenSeq, Flattens

(* The prefixes can be continued, *)
LEMMA FlattensExtends ==
    ASSUME NEW s, NEW n \in Nat, NEW f, Flattens(f, s, n)
    PROVE  \E g : Flattens(g, s, n + 1)
<1> DEFINE step(i) == IF i = 1 THEN s[i] ELSE f[i - 1] \o s[i]
           g == [i \in 1 .. n + 1 |-> step(i)]
<1>1. \A i \in 1 .. n : f[i] = step(i)
  BY DEF Flattens
<1>2. \A i \in 1 .. n + 1 : i # 1 => i - 1 \in 1 .. n /\ i - 1 \in 1 .. n + 1
  OBVIOUS
<1>3. \A i \in 1 .. n + 1 : g[i] = step(i)
  OBVIOUS
<1> DEFINE next(i) == IF i = 1 THEN s[i] ELSE g[i - 1] \o s[i]
<1>4. \A i \in 1 .. n + 1 : next(i) = step(i)
  <2>1. ASSUME NEW i \in 1 .. n + 1, i # 1 PROVE g[i - 1] = f[i - 1]
    <3>1. i - 1 \in 1 .. n /\ i - 1 \in 1 .. n + 1
      BY <2>1, <1>2
    <3> HIDE DEF g, step
    <3> QED
      BY <3>1, <1>1, <1>3
  <2> HIDE DEF g
  <2> QED
    BY <2>1
<1>5. g = [i \in 1 .. n + 1 |-> next(i)]
  <2> HIDE DEF next, step
  <2> QED
    BY <1>4
<1> HIDE DEF g
<1> QED
  BY <1>5 DEF Flattens

(* so there are some for every length, *)
LEMMA FlattensExists ==
    ASSUME NEW s, NEW n \in Nat
    PROVE  \E f : Flattens(f, s, n)
<1> DEFINE T == {k \in Nat : ~\E f : Flattens(f, s, k)}
<1> SUFFICES ASSUME T # {} PROVE FALSE
  OBVIOUS
<1>1. PICK k \in T : \A y \in T : k <= y
  BY Least
<1>2. CASE k = 0
  <2> DEFINE f == [i \in 1 .. 0 |-> s]
  <2>1. f = [i \in 1 .. 0 |-> IF i = 1 THEN s[i] ELSE f[i - 1] \o s[i]]
    OBVIOUS
  <2> HIDE DEF f
  <2>2. Flattens(f, s, 0)
    BY <2>1 DEF Flattens
  <2> QED
    BY <1>2, <2>2
<1>3. CASE k # 0
  <2>1. k - 1 \in Nat /\ k - 1 \notin T /\ (k - 1) + 1 = k
    BY <1>1, <1>3
  <2>2. PICK f : Flattens(f, s, k - 1)
    BY <2>1
  <2>3. \E g : Flattens(g, s, (k - 1) + 1)
    BY <2>1, <2>2, FlattensExtends
  <2> QED
    BY <1>1, <2>1, <2>3
<1> QED
  BY <1>2, <1>3

(* and they are the same in sequences that begin alike. *)
LEMMA FlattensAgree ==
    ASSUME NEW s, NEW t, NEW m \in Nat, NEW n \in Nat, m <= n,
           \A i \in 1 .. m : s[i] = t[i],
           NEW f, Flattens(f, s, m), NEW g, Flattens(g, t, n)
    PROVE  \A i \in 1 .. m : f[i] = g[i]
<1> DEFINE T == {i \in 1 .. m : f[i] # g[i]}
<1> SUFFICES ASSUME T # {} PROVE FALSE
  OBVIOUS
<1>1. PICK k \in T : \A y \in T : k <= y
  <2>1. T \subseteq Nat
    OBVIOUS
  <2> QED
    BY <2>1, Least
<1>2. k \in 1 .. m /\ k \in 1 .. n
  OBVIOUS
<1>3. f[k] = IF k = 1 THEN s[k] ELSE f[k - 1] \o s[k]
  BY <1>2 DEF Flattens
<1>4. g[k] = IF k = 1 THEN t[k] ELSE g[k - 1] \o t[k]
  BY <1>2 DEF Flattens
<1>5. k # 1 => f[k - 1] = g[k - 1]
  <2> SUFFICES ASSUME k # 1 PROVE k - 1 \in 1 .. m /\ k - 1 \notin T
    OBVIOUS
  <2> QED
    BY <1>1, <1>2
<1>6. f[k] = g[k]
  BY <1>2, <1>3, <1>4, <1>5
<1> QED
  BY <1>1, <1>6

(* Flattening is the last of the flattened prefixes, whichever way they    *)
(* are given.                                                              *)
LEMMA FlattenIs ==
    ASSUME NEW s, Len(s) \in Nat \ {0}, NEW n \in Nat, Len(s) <= n,
           NEW t, \A i \in 1 .. Len(s) : s[i] = t[i], NEW g, Flattens(g, t, n)
    PROVE  FlattenSeq(s) = g[Len(s)]
<1>1. Len(s) \in Nat /\ Len(s) # 0 /\ Len(s) \in 1 .. Len(s)
  OBVIOUS
<1>2. Flattens(CHOOSE f : Flattens(f, s, Len(s)), s, Len(s))
  BY <1>1, FlattensExists
<1>3. FlattenSeq(s) = (CHOOSE f : Flattens(f, s, Len(s)))[Len(s)]
  BY <1>1, FlattenSeqDef
<1>4. PICK f : Flattens(f, s, Len(s)) /\ FlattenSeq(s) = f[Len(s)]
  BY <1>2, <1>3
<1>5. \A i \in 1 .. Len(s) : f[i] = g[i]
  <2> DEFINE m == Len(s)
  <2>1. m \in Nat /\ m <= n /\ Flattens(f, s, m) /\ \A i \in 1 .. m : s[i] = t[i]
    BY <1>1, <1>4
  <2> HIDE DEF m
  <2>2. \A i \in 1 .. m : f[i] = g[i]
    BY ONLY <2>1, n \in Nat, Flattens(g, t, n), FlattensAgree
  <2> QED
    BY <2>2 DEF m
<1> QED
  BY <1>1, <1>4, <1>5

LEMMA FlattenEmpty == FlattenSeq(<<>>) = <<>>
BY FlattenSeqDef

(* Flattening runs from left to right. *)
LEMMA FlattenAppend ==
    ASSUME NEW S, NEW s \in Seq(Seq(S)), NEW x \in Seq(S)
    PROVE  FlattenSeq(Append(s, x)) = FlattenSeq(s) \o x
<1> DEFINE t == Append(s, x)
           n == Len(s) + 1
<1>1. /\ t \in Seq(Seq(S)) /\ t # <<>> /\ Len(t) = n /\ n \in Nat /\ t[n] = x
      /\ \A i \in 1 .. Len(s) : s[i] = t[i]
      /\ Len(s) \in Nat
  <2> DEFINE X == Seq(S)
  <2>1. s \in Seq(X) /\ x \in X
    OBVIOUS
  <2> HIDE DEF X
  <2>2. /\ Append(s, x) \in Seq(X) /\ Len(Append(s, x)) = Len(s) + 1 /\ Append(s, x)[Len(s) + 1] = x
        /\ \A i \in 1 .. Len(s) : Append(s, x)[i] = s[i]
        /\ Len(s) \in Nat
    BY ONLY <2>1
  <2>3. Append(s, x) # <<>>
    BY ONLY <2>1
  <2> QED
    BY <2>2, <2>3 DEF X
<1>2. PICK g : Flattens(g, t, n)
  BY <1>1, FlattensExists
<1> HIDE DEF t
<1>3. FlattenSeq(t) = g[n]
  <2>1. Len(t) \in Nat \ {0} /\ Len(t) = n /\ n <= n
    BY ONLY <1>1
  <2>2. \A i \in 1 .. Len(t) : t[i] = t[i]
    OBVIOUS
  <2> HIDE DEF n
  <2>3. n \in Nat
    BY <1>1
  <2> QED
    BY ONLY <2>1, <2>2, <2>3, <1>2, FlattenIs
<1>4. g[n] = IF n = 1 THEN x ELSE g[Len(s)] \o x
  <2>1. n \in 1 .. n /\ n - 1 = Len(s)
    BY <1>1
  <2>2. g[n] = IF n = 1 THEN t[n] ELSE g[n - 1] \o t[n]
    BY <1>2, <2>1 DEF Flattens
  <2> QED
    BY <1>1, <2>1, <2>2
<1>5. CASE s = <<>>
  <2>1. g[n] = x
    BY <1>4, <1>5
  <2>2. <<>> \o x = x
    BY ConcatEmptySeq
  <2> QED
    BY <1>3, <1>5, <2>1, <2>2, FlattenEmpty DEF t
<1>6. CASE s # <<>>
  <2>1. n # 1 /\ Len(s) <= n
    BY <1>6
  <2>2. FlattenSeq(s) = g[Len(s)]
    <3>1. Len(s) \in Nat \ {0} /\ n \in Nat /\ Len(s) <= n /\ \A i \in 1 .. Len(s) : s[i] = t[i]
      BY <1>1, <2>1
    <3> HIDE DEF n
    <3> QED
      BY ONLY <3>1, <1>2, FlattenIs
  <2> QED
    BY <1>3, <1>4, <2>1, <2>2 DEF t
<1> QED
  BY <1>5, <1>6

(* A sequence is empty or an appended one. *)
LEMMA FrontAndLast ==
    ASSUME NEW S, NEW s \in Seq(S), s # <<>>
    PROVE  \E front \in Seq(S), last \in S : s = Append(front, last) /\ Len(s) = Len(front) + 1
<1>1. s = <<>> \/ \E front \in Seq(S), last \in S : s = Append(front, last)
  BY SequenceEmptyOrAppend
<1> QED
  BY <1>1

(* The members of the flattened sequence are members of its parts. *)
LEMMA FlattenType ==
    ASSUME NEW S, NEW s \in Seq(Seq(S))
    PROVE  FlattenSeq(s) \in Seq(S)
<1> DEFINE T == {n \in Nat : \E t \in Seq(Seq(S)) : Len(t) = n /\ FlattenSeq(t) \notin Seq(S)}
<1> SUFFICES ASSUME T # {} PROVE FALSE
  <2>1. Len(s) \in Nat
    OBVIOUS
  <2> QED
    BY <2>1
<1>1. PICK k \in T : \A y \in T : k <= y
  BY Least
<1>2. PICK t \in Seq(Seq(S)) : Len(t) = k /\ FlattenSeq(t) \notin Seq(S)
  OBVIOUS
<1>3. CASE t = <<>>
  BY <1>2, <1>3, FlattenEmpty
<1>4. CASE t # <<>>
  <2>1. PICK front \in Seq(Seq(S)), last \in Seq(S) :
            t = Append(front, last) /\ Len(t) = Len(front) + 1
    BY ONLY <1>4, t \in Seq(Seq(S)), FrontAndLast
  <2>2. Len(front) \in Nat /\ Len(front) < k
    BY <1>2, <2>1
  <2>3. FlattenSeq(front) \in Seq(S)
    BY <1>1, <2>2
  <2>4. FlattenSeq(t) = FlattenSeq(front) \o last
    BY <2>1, FlattenAppend
  <2>5. FlattenSeq(front) \o last \in Seq(S)
    BY ONLY <2>3, last \in Seq(S), ConcatProperties
  <2> QED
    BY <1>2, <2>4, <2>5
<1> QED
  BY <1>3, <1>4

(* One more sequence at the end. *)
LEMMA ConcatAppend ==
    ASSUME NEW X, NEW s \in Seq(X), NEW front \in Seq(X), NEW last \in X
    PROVE  s \o Append(front, last) = Append(s \o front, last)
<1> DEFINE l == <<last>>
<1>1. l \in Seq(X) /\ Append(front, last) = front \o l
  BY AppendIsConcat
<1>2. s \o front \in Seq(X)
  BY ConcatProperties
<1>3. Append(s \o front, last) = (s \o front) \o l
  <2> DEFINE sf == s \o front
  <2>1. sf \in Seq(X)
    BY <1>2
  <2> HIDE DEF sf
  <2>2. Append(sf, last) = sf \o <<last>>
    BY ONLY <2>1, last \in X, AppendIsConcat
  <2> QED
    BY <2>2 DEF sf
<1> HIDE DEF l
<1>4. (s \o front) \o l = s \o (front \o l)
  BY ONLY <1>1, ConcatAssociative
<1> QED
  BY ONLY <1>1, <1>3, <1>4

(* One step of the induction on the second sequence for FlattenConcat. *)
LEMMA FlattenConcatStep ==
    ASSUME NEW S, NEW s \in Seq(Seq(S)), NEW front \in Seq(Seq(S)), NEW last \in Seq(S),
           FlattenSeq(s \o front) = FlattenSeq(s) \o FlattenSeq(front)
    PROVE  FlattenSeq(s \o Append(front, last)) = FlattenSeq(s) \o FlattenSeq(Append(front, last))
<1> DEFINE X == Seq(S)
           a == FlattenSeq(s)
           b == FlattenSeq(front)
<1>1. s \in Seq(X) /\ front \in Seq(X) /\ last \in X
  OBVIOUS
<1>2. a \in X /\ b \in X
  BY FlattenType
<1>3. FlattenSeq(Append(front, last)) = b \o last
  BY FlattenAppend
<1> HIDE DEF X
<1>4. s \o Append(front, last) = Append(s \o front, last) /\ s \o front \in Seq(X)
  BY ONLY <1>1, ConcatAppend, ConcatProperties, SMTT(20)
<1>5. FlattenSeq(Append(s \o front, last)) = FlattenSeq(s \o front) \o last
  BY <1>4, FlattenAppend DEF X
<1> HIDE DEF a, b
<1>6. (a \o b) \o last = a \o (b \o last)
  <2>1. a \in Seq(S) /\ b \in Seq(S)
    BY <1>2 DEF X
  <2> QED
    BY ONLY <2>1, ConcatAssociative, SMTT(20)
<1> QED
  BY <1>3, <1>4, <1>5, <1>6 DEF a, b

(* Flattening distributes over concatenation. *)
LEMMA FlattenConcat ==
    ASSUME NEW S, NEW s \in Seq(Seq(S)), NEW t \in Seq(Seq(S))
    PROVE  FlattenSeq(s \o t) = FlattenSeq(s) \o FlattenSeq(t)
<1> DEFINE Bad(u) == FlattenSeq(s \o u) # FlattenSeq(s) \o FlattenSeq(u)
           T == {n \in Nat : \E u \in Seq(Seq(S)) : Len(u) = n /\ Bad(u)}
<1> SUFFICES ASSUME T # {} PROVE FALSE
  <2>1. Len(t) \in Nat
    OBVIOUS
  <2> QED
    BY <2>1
<1>1. PICK k \in T : \A y \in T : k <= y
  BY Least
<1>2. PICK u \in Seq(Seq(S)) : Len(u) = k /\ Bad(u)
  OBVIOUS
<1>3. FlattenSeq(s) \in Seq(S)
  BY FlattenType
<1>4. CASE u = <<>>
  <2>1. s \o u = s
    BY ONLY <1>4, s \in Seq(Seq(S)), ConcatEmptySeq
  <2>2. FlattenSeq(s) \o <<>> = FlattenSeq(s)
    BY ONLY <1>3, ConcatEmptySeq
  <2> QED
    BY <1>2, <1>4, <2>1, <2>2, FlattenEmpty
<1>5. CASE u # <<>>
  <2>1. PICK front \in Seq(Seq(S)), last \in Seq(S) :
            u = Append(front, last) /\ Len(u) = Len(front) + 1
    BY ONLY <1>5, u \in Seq(Seq(S)), FrontAndLast
  <2>2. Len(front) \in Nat /\ Len(front) < k
    BY ONLY <1>2, <2>1, front \in Seq(Seq(S)), k \in Nat
  <2>3. FlattenSeq(s \o front) = FlattenSeq(s) \o FlattenSeq(front)
    <3>1. Len(front) \notin T
      BY <1>1, <2>2
    <3> HIDE DEF Bad
    <3>2. ~Bad(front)
      BY <2>2, <3>1
    <3> QED
      BY <3>2 DEF Bad
  <2> QED
    BY <1>2, <2>1, <2>3, FlattenConcatStep
<1> QED
  BY <1>4, <1>5

-----------------------------------------------------------------------------
(* The invariant. *)

(* The records whose fields are assigned one by one. *)
Shapes ==
    /\ state = [write_list |-> state.write_list, writing |-> state.writing]
    /\ read = [unprocessed |-> read.unprocessed, processed |-> read.processed]

(* While the thread runs, the registration of the channel or the event it  *)
(* was used up for is there; polling, the thread has handled every event.  *)
Registered ==
    /\ pc # "stopped" => poll.channel \/ <<"channel">> \in events
    /\ pc = "poll" => events = {} /\ poll.pty /\ (needs_write => poll.writable)

(* Printed bytes are in the kernel, in the read buffer or parsed; some are *)
(* dropped once the program has gone.                                      *)
Accounted ==
    /\ parsed + read.unprocessed + unread <= program.printed
    /\ OutputKept

IInv == TypeOK /\ Shapes /\ Registered /\ Accounted

-----------------------------------------------------------------------------
(* The types. *)

Events == {<<"channel">>, <<"child">>} \cup {<<"pty", r, w, h>> : r, w, h \in BOOLEAN}

(* A message is a sequence of input bytes. *)
LEMMA MsgType == Msg \subseteq Seq(1 .. MaxInputs)
<1>1. Shutdown \in Seq(1 .. MaxInputs)
  BY EmptySeq DEF Shutdown
<1>2. ASSUME NEW i \in 1 .. MaxInputs PROVE Input(i) \in Seq(1 .. MaxInputs)
  BY MachineAssumption DEF Input
<1> QED
  BY <1>1, <1>2 DEF Msg

(* What is received is a sequence of messages. *)
LEMMA ReceivedType ==
    ASSUME TypeOK
    PROVE  Received \in Seq(Msg)
<1>1. peeked \in Seq(Msg) /\ channel \in Seq(Msg)
  BY DEF TypeOK
<1> QED
  BY ONLY <1>1, ConcatProperties DEF Received

(* Where the first shutdown message is, 0 if there is none. *)
FirstShutdown(s) == SelectInSeq(s, LAMBDA m : m = Shutdown)

(* The place of the first shutdown message in a queue, 0 if there is none. *)
LEMMA FirstShutdownFacts ==
    ASSUME NEW s \in Seq(Msg)
    PROVE  /\ FirstShutdown(s) \in 0 .. Len(s)
           /\ FirstShutdown(s) # 0 => s[FirstShutdown(s)] = Shutdown
<1> DEFINE I == {i \in 1 .. Len(s) : s[i] = Shutdown}
<1>1. FirstShutdown(s) = IF I # {} THEN Min(I) ELSE 0
  BY DEF FirstShutdown, SelectInSeq
<1>2. I \subseteq Nat /\ \A i \in I : i \in 1 .. Len(s) /\ s[i] = Shutdown
  OBVIOUS
<1> HIDE DEF I
<1>3. Len(s) \in Nat
  OBVIOUS
<1>4. CASE I = {}
  BY <1>1, <1>3, <1>4
<1>5. CASE I # {}
  <2>1. Min(I) \in I
    BY <1>2, <1>5, Least DEF Min
  <2>2. Min(I) \in 1 .. Len(s) /\ s[Min(I)] = Shutdown
    BY <1>2, <2>1
  <2> QED
    BY <1>1, <1>3, <1>5, <2>2
<1> QED
  BY <1>4, <1>5

(* What drain_recv_channel leaves. *)
LEMMA DrainFacts ==
    ASSUME TypeOK, Shapes, drain_recv_channel
    PROVE  /\ state' = [write_list |-> state'.write_list, writing |-> state'.writing]
           /\ state'.writing = state.writing
           /\ state'.write_list \in Seq(Msg)
           /\ peeked' = <<>>
           /\ channel' \in Seq(Msg)
<1> DEFINE stop == FirstShutdown(Received)
           taken == IF stop = 0 THEN Received ELSE SubSeq(Received, 1, stop - 1)
<1>1. Received \in Seq(Msg)
  BY ReceivedType
<1>2. stop \in 0 .. Len(Received)
  BY <1>1, FirstShutdownFacts
<1>3. /\ state' = [state EXCEPT !.write_list = @ \o taken]
      /\ peeked' = <<>>
      /\ channel' = IF stop = 0 THEN <<>> ELSE SubSeq(Received, stop + 1, Len(Received))
  BY DEF drain_recv_channel, FirstShutdown
<1> HIDE DEF stop
<1>4. taken \in Seq(Msg)
  BY <1>1, <1>2
<1>5. channel' \in Seq(Msg)
  BY <1>1, <1>2, <1>3
<1> HIDE DEF taken
<1>6. /\ state'.writing = state.writing /\ state'.write_list = state.write_list \o taken
      /\ state' = [write_list |-> state'.write_list, writing |-> state'.writing]
  BY <1>3 DEF Shapes
<1>7. state.write_list \in Seq(Msg)
  BY DEF TypeOK
<1>8. state'.write_list \in Seq(Msg)
  BY ONLY <1>4, <1>6, <1>7, ConcatProperties
<1> QED
  BY <1>3, <1>5, <1>6, <1>8

-----------------------------------------------------------------------------
(* The invariant in parts, each about variables of its own. *)

OutputType ==
    /\ unread \in 0 .. MaxOutput
    /\ read.unprocessed \in 0 .. READ_BUFFER_SIZE /\ read.processed \in 0 .. MAX_LOCKED_READ
    /\ read = [unprocessed |-> read.unprocessed, processed |-> read.processed]
    /\ parsed \in 0 .. MaxOutput

ProgramType ==
    program \in [printed : 0 .. MaxOutput, inbox : 0 .. TtySize,
                 delivered : Seq(1 .. MaxInputs), running : BOOLEAN]

InputType ==
    /\ channel \in Seq(Msg) /\ peeked \in Seq(Msg) /\ Len(peeked) <= 1
    /\ sent \in 0 .. MaxInputs

StateType ==
    /\ state.write_list \in Seq(Msg) /\ state.writing \in Seq(1 .. MaxInputs)
    /\ state = [write_list |-> state.write_list, writing |-> state.writing]

PollType ==
    /\ poll \in [channel : BOOLEAN, pty : BOOLEAN, writable : BOOLEAN]
    /\ events \subseteq Events
    /\ pc \in {"poll", "drain", "events", "lease", "read", "parse", "write", "stopped"}

LockType ==
    /\ mutex \in [next : {"none", "pty", "ui"}, data : {"none", "pty", "ui"}]
    /\ ui \in {"idle", "wants_next", "wants_data", "holds"}

(* The invariant by the variables its parts are about, before and after a step. *)
LEMMA Parts ==
    IInv <=> /\ OutputType /\ ProgramType /\ InputType /\ StateType /\ PollType /\ LockType
             /\ Registered /\ Accounted
BY DEF IInv, TypeOK, Shapes, Events, OutputType, ProgramType, InputType, StateType, PollType, LockType

LEMMA PartsAfter ==
    IInv' <=> /\ OutputType' /\ ProgramType' /\ InputType' /\ StateType' /\ PollType' /\ LockType'
              /\ Registered' /\ Accounted'
BY DEF IInv, TypeOK, Shapes, Events, OutputType, ProgramType, InputType, StateType, PollType, LockType

(* What a step leaves alone keeps its type. *)
LEMMA Frame ==
    /\ OutputType /\ UNCHANGED <<unread, read, parsed>> => OutputType'
    /\ ProgramType /\ UNCHANGED program => ProgramType'
    /\ InputType /\ UNCHANGED <<channel, peeked, sent>> => InputType'
    /\ StateType /\ UNCHANGED state => StateType'
    /\ PollType /\ UNCHANGED <<poll, events, pc>> => PollType'
    /\ LockType /\ UNCHANGED <<mutex, ui>> => LockType'
    /\ Registered /\ UNCHANGED <<poll, events, pc, state>> => Registered'
    /\ Accounted /\ UNCHANGED <<unread, read, parsed>> /\ program'.printed = program.printed
        /\ (program'.running => program.running) => Accounted'
<1>1. OutputType /\ UNCHANGED <<unread, read, parsed>> => OutputType'
  BY DEF OutputType
<1>2. ProgramType /\ UNCHANGED program => ProgramType'
  BY DEF ProgramType
<1>3. InputType /\ UNCHANGED <<channel, peeked, sent>> => InputType'
  BY DEF InputType
<1>4. StateType /\ UNCHANGED state => StateType'
  BY DEF StateType
<1>5. PollType /\ UNCHANGED <<poll, events, pc>> => PollType'
  BY DEF PollType
<1>6. LockType /\ UNCHANGED <<mutex, ui>> => LockType'
  BY DEF LockType
<1>7. Registered /\ UNCHANGED <<poll, events, pc, state>> => Registered'
  BY DEF Registered, needs_write
<1>8. Accounted /\ UNCHANGED <<unread, read, parsed>> /\ program'.printed = program.printed
        /\ (program'.running => program.running) => Accounted'
  BY DEF Accounted, OutputKept
<1> QED
  BY <1>1, <1>2, <1>3, <1>4, <1>5, <1>6, <1>7, <1>8

-----------------------------------------------------------------------------
(* The program, the kernel and the UI thread. *)

LEMMA ProgramStep ==
    ASSUME IInv, Program
    PROVE  IInv'
<1> USE Parts, PartsAfter, Frame, MachineAssumption
<1>1. CASE Prints
  <2>1. UNCHANGED <<channel, peeked, sent, state, poll, events, pc, read, parsed, mutex, ui>>
    BY <1>1 DEF Prints
  <2>2. /\ unread' = unread + 1 /\ program'.printed = program.printed + 1
        /\ program'.running = program.running
    BY <1>1 DEF Prints, ProgramType
  <2>3. program.printed + 1 \in 0 .. MaxOutput
    BY <1>1 DEF Prints, ProgramType
  <2>4. ProgramType'
    BY <1>1, <2>3 DEF Prints, ProgramType
  <2>5. /\ unread \in Nat /\ read.unprocessed \in Nat /\ parsed \in Nat
        /\ program.printed \in Nat
    BY DEF OutputType, ProgramType
  <2>6. Accounted'
    BY <2>1, <2>2, <2>5 DEF Accounted, OutputKept
  <2>7. unread + 1 \in 0 .. MaxOutput
    BY <2>3, <2>5 DEF Accounted
  <2>8. OutputType'
    BY <2>1, <2>2, <2>7 DEF OutputType
  <2> QED
    BY <2>1, <2>4, <2>6, <2>8
<1>2. CASE ReadsInput
  <2>1. UNCHANGED <<unread, channel, peeked, sent, state, poll, events, pc, read, parsed, mutex, ui>>
    BY <1>2 DEF ReadsInput
  <2>2. program'.printed = program.printed /\ program'.running = program.running
    BY <1>2 DEF ReadsInput, ProgramType
  <2>3. program.inbox - 1 \in 0 .. TtySize
    BY <1>2 DEF ReadsInput, ProgramType
  <2>4. ProgramType'
    BY <1>2, <2>3 DEF ReadsInput, ProgramType
  <2> QED
    BY <2>1, <2>2, <2>4
<1>3. CASE Exits
  <2>1. UNCHANGED <<unread, channel, peeked, sent, state, poll, events, pc, read, parsed, mutex, ui>>
    BY <1>3 DEF Exits
  <2>2. /\ program'.printed = program.printed
        /\ program'.running = FALSE /\ ProgramType'
    BY <1>3 DEF Exits, ProgramType
  <2> QED
    BY <2>1, <2>2
<1> QED
  BY <1>1, <1>2, <1>3 DEF Program

(* The UI thread sends messages and takes and gives back the terminal. *)
LEMMA UiStep ==
    ASSUME IInv, Ui
    PROVE  IInv'
<1> USE Parts, PartsAfter, Frame
<1>1. CASE SendsInput
  <2>1. UNCHANGED <<program, unread, state, poll, events, pc, read, parsed, mutex, ui>>
    BY <1>1 DEF SendsInput
  <2>2. sent' = sent + 1 /\ sent' \in 1 .. MaxInputs
    BY <1>1, MachineAssumption DEF SendsInput, InputType
  <2>3. Input(sent') \in Msg
    BY <2>2 DEF Msg
  <2>4. InputType'
    BY <1>1, <2>2, <2>3 DEF SendsInput, InputType
  <2> QED
    BY <2>1, <2>4
<1>2. CASE SendsShutdown
  <2>1. UNCHANGED <<program, unread, state, poll, events, pc, read, parsed, mutex, ui>>
    BY <1>2 DEF SendsShutdown
  <2>2. Shutdown \in Msg
    BY DEF Msg
  <2>3. InputType'
    BY <1>2, <2>2 DEF SendsShutdown, InputType
  <2> QED
    BY <2>1, <2>3
<1>3. CASE UiCallsLock \/ UiTakesNext \/ UiTakesData \/ UiUnlocks
  <2>1. UNCHANGED UiVars
    BY <1>3 DEF UiCallsLock, UiTakesNext, UiTakesData, UiUnlocks
  <2>2. LockType'
    BY <1>3 DEF UiCallsLock, UiTakesNext, UiTakesData, UiUnlocks, LockType
  <2> QED
    BY <2>1, <2>2 DEF UiVars
<1> QED
  BY <1>1, <1>2, <1>3 DEF Ui

-----------------------------------------------------------------------------
(* The event loop. *)

LEMMA PollStep ==
    ASSUME IInv, Poll
    PROVE  IInv'
<1> USE Parts, PartsAfter, Frame
<1>1. UNCHANGED <<program, unread, channel, peeked, sent, state, read, parsed, mutex, ui>>
  BY DEF Poll
<1>2. Ready \subseteq Events
  <2> DEFINE r == Readable
             w == Writable
             h == ~program.running
  <2>1. r \in BOOLEAN
    BY DEF Readable, OutputType
  <2>2. w \in BOOLEAN
    BY DEF Writable
  <2>3. h \in BOOLEAN
    OBVIOUS
  <2>4. \A x \in Ready : x \in {<<"channel">>, <<"child">>, <<"pty", r, w, h>>}
    BY Zenon DEF Ready
  <2> HIDE DEF r, w, h
  <2>5. <<"pty", r, w, h>> \in Events
    BY ONLY <2>1, <2>2, <2>3 DEF Events
  <2>6. <<"channel">> \in Events /\ <<"child">> \in Events
    BY ONLY TRUE DEF Events
  <2> QED
    BY <2>4, <2>5, <2>6, Zenon
<1>3. poll' \in [channel : BOOLEAN, pty : BOOLEAN, writable : BOOLEAN]
  BY DEF Poll, UsedUp, PollType
<1>4. poll'.channel = (poll.channel /\ <<"channel">> \notin Ready)
  BY DEF Poll, UsedUp, PollType
<1>5. events' = Ready /\ pc = "poll" /\ pc' = "drain"
  BY DEF Poll
<1>6. PollType'
  BY <1>2, <1>3, <1>5 DEF PollType
<1>7. Registered'
  BY <1>4, <1>5 DEF Registered, PollType
<1> QED
  BY <1>1, <1>6, <1>7

(* A poll that times out keeps a message in hand. *)
LEMMA PollTimesOutStep ==
    ASSUME IInv, PollTimesOut
    PROVE  IInv'
<1> USE Parts, PartsAfter, Frame
<1>1. UNCHANGED <<program, unread, sent, state, poll, events, read, parsed, mutex, ui>>
  BY DEF PollTimesOut
<1>2. InputType'
  <2>1. CASE peeked = <<>> /\ channel # <<>>
    <3>1. Head(channel) \in Msg /\ Tail(channel) \in Seq(Msg)
      BY <2>1 DEF InputType
    <3>2. peeked' = <<Head(channel)>> /\ channel' = Tail(channel)
      BY <2>1 DEF PollTimesOut
    <3> QED
      BY <1>1, <3>1, <3>2 DEF InputType
  <2>2. CASE ~(peeked = <<>> /\ channel # <<>>)
    BY <1>1, <2>2 DEF PollTimesOut, InputType
  <2> QED
    BY <2>1, <2>2
<1>3. pc = "poll" /\ pc' \in {"poll", "drain"}
  BY DEF PollTimesOut
<1>4. PollType'
  BY <1>1, <1>3 DEF PollType
<1>5. Registered'
  BY <1>1, <1>3 DEF Registered, needs_write
<1> QED
  BY <1>1, <1>2, <1>4, <1>5

(* The channel is drained at the top of the loop or for its event. *)
LEMMA DrainStep ==
    ASSUME IInv, Drain
    PROVE  IInv'
<1> USE Parts, PartsAfter, Frame
<1>1. drain_recv_channel /\ TypeOK /\ Shapes
  BY DEF Drain, IInv
<1>2. UNCHANGED <<program, unread, sent, poll, events, read, parsed, mutex, ui>>
  BY DEF Drain
<1>3. StateType' /\ InputType'
  BY <1>1, <1>2, DrainFacts DEF StateType, InputType
<1>4. pc = "drain" /\ pc' \in {"stopped", "events"}
  BY DEF Drain
<1>5. PollType' /\ Registered'
  BY <1>2, <1>4 DEF PollType, Registered
<1> QED
  BY <1>2, <1>3, <1>5

(* channel_event registers the channel again, unless it is closed. *)
LEMMA ChannelEventStep ==
    ASSUME IInv, channel_event
    PROVE  IInv'
<1> USE Parts, PartsAfter, Frame
<1>1. drain_recv_channel /\ TypeOK /\ Shapes
  BY DEF channel_event, IInv
<1>2. UNCHANGED <<program, unread, sent, read, parsed, mutex, ui>>
  BY DEF channel_event
<1>3. StateType' /\ InputType'
  BY <1>1, <1>2, DrainFacts DEF StateType, InputType
<1>4. Stops \in BOOLEAN
  BY DEF Stops, Contains
<1> DEFINE stops == Stops
<1>5. /\ poll' = [poll EXCEPT !.channel = ~stops]
      /\ events' \subseteq events
      /\ pc' = IF stops THEN "stopped" ELSE "events"
  BY DEF channel_event
<1>6. stops \in BOOLEAN
  BY <1>4
<1> HIDE DEF stops
<1>7. PollType' /\ poll'.channel = ~stops
  BY <1>5, <1>6 DEF PollType
<1>8. Registered'
  BY <1>5, <1>6, <1>7 DEF Registered
<1> QED
  BY <1>2, <1>3, <1>7, <1>8

(* An event of the PTY is not one of the channel. *)
LEMMA PtyEventsApart == \A e \in events : e[1] = "pty" => e # <<"channel">>
OBVIOUS

(* The child has exited, the PTY has an event, or the round ends. *)
LEMMA EventStep ==
    ASSUME IInv, ChildExited \/ PtyEvent \/ Reregister
    PROVE  IInv'
<1> USE Parts, PartsAfter, Frame
<1>1. CASE ChildExited
  <2>1. UNCHANGED <<program, unread, channel, peeked, sent, state, poll, events, read, parsed, mutex, ui>>
    BY <1>1 DEF ChildExited
  <2>2. pc' = "stopped"
    BY <1>1 DEF ChildExited
  <2>3. PollType' /\ Registered'
    BY <2>1, <2>2 DEF PollType, Registered
  <2> QED
    BY <2>1, <2>3
<1>2. CASE PtyEvent
  <2>1. UNCHANGED <<program, unread, channel, peeked, sent, state, poll, read, parsed, mutex, ui>>
    BY <1>2 DEF PtyEvent
  <2>2. PICK e \in events : /\ e[1] = "pty"
                            /\ pc' \in {"events", "lease", "write"}
                            /\ events' = events \/ events' = events \ {e}
    BY <1>2 DEF PtyEvent
  <2>3. pc = "events" /\ (<<"channel">> \in events => <<"channel">> \in events')
    BY <1>2, <2>2, PtyEventsApart DEF PtyEvent
  <2>4. PollType' /\ Registered'
    BY <2>1, <2>2, <2>3 DEF PollType, Registered
  <2> QED
    BY <2>1, <2>4
<1>3. CASE Reregister
  <2>1. UNCHANGED <<program, unread, channel, peeked, sent, state, events, read, parsed, mutex, ui>>
    BY <1>3 DEF Reregister
  <2>2. /\ pc = "events" /\ events = {} /\ pc' = "poll"
        /\ poll' = [poll EXCEPT !.pty = TRUE, !.writable = needs_write]
    BY <1>3 DEF Reregister
  <2>3. needs_write \in BOOLEAN /\ needs_write' = needs_write
    BY <2>1 DEF needs_write
  <2>4. PollType' /\ poll'.pty /\ poll'.channel = poll.channel /\ (needs_write => poll'.writable)
    BY <2>1, <2>2, <2>3 DEF PollType
  <2>5. Registered'
    BY <2>1, <2>2, <2>3, <2>4 DEF Registered
  <2> QED
    BY <2>1, <2>4, <2>5
<1> QED
  BY <1>1, <1>2, <1>3

-----------------------------------------------------------------------------
(* pty_read and pty_write. *)

(* Handling an event of the PTY leaves the event of the channel. *)
LEMMA ReadControl ==
    ASSUME PollType, Registered, UNCHANGED <<poll, state>>, pc \in {"lease", "read", "parse", "write"},
           events' = events \/ events' = events \ PtyEvents,
           pc' \in {"events", "lease", "read", "parse", "write"}
    PROVE  PollType' /\ Registered'
<1>1. events' \subseteq events /\ (<<"channel">> \in events => <<"channel">> \in events')
  BY PtyEventsApart DEF PtyEvents
<1> QED
  BY <1>1 DEF PollType, Registered

(* The steps of pty_read, from the lease to the parsed bytes. *)
LEMMA PtyReadStep ==
    ASSUME IInv, PtyRead
    PROVE  IInv'
<1> USE Parts, PartsAfter, Frame, MachineAssumption
<1>1. CASE Lease
  <2>1. UNCHANGED <<program, unread, channel, peeked, sent, state, poll, events, read, parsed, ui>>
    BY <1>1 DEF Lease
  <2>2. PollType' /\ Registered'
    BY <1>1, ReadControl DEF Lease
  <2>3. LockType'
    BY <1>1 DEF Lease, LockType
  <2> QED
    BY <2>1, <2>2, <2>3
<1>2. CASE ReadWouldBlock
  <2>1. UNCHANGED <<program, unread, channel, peeked, sent, state, poll, parsed, ui>>
    BY <1>2 DEF ReadWouldBlock
  <2>2. PollType' /\ Registered'
    BY <1>2, ReadControl DEF ReadWouldBlock, ReadReturns
  <2>3. LockType'
    BY <1>2 DEF ReadWouldBlock, ReadReturns, LockType
  <2>4. read'.unprocessed = read.unprocessed /\ OutputType'
    BY <1>2, <2>1 DEF ReadWouldBlock, ReadReturns, OutputType
  <2>5. Accounted'
    BY <2>1, <2>4 DEF Accounted, OutputKept
  <2> QED
    BY <2>1, <2>2, <2>3, <2>4, <2>5
<1>3. CASE ReadFails
  <2>1. UNCHANGED <<program, unread, channel, peeked, sent, state, poll, parsed, ui>>
    BY <1>3 DEF ReadFails
  <2>2. PollType' /\ Registered'
    BY <1>3, ReadControl DEF ReadFails
  <2>3. LockType'
    BY <1>3 DEF ReadFails, LockType
  <2>4. read'.unprocessed = 0 /\ OutputType'
    BY <1>3, <2>1 DEF ReadFails, OutputType
  <2>5. Accounted'
    BY <1>3, <2>1, <2>4 DEF ReadFails, Accounted, OutputKept, OutputType, ProgramType
  <2> QED
    BY <2>1, <2>2, <2>3, <2>4, <2>5
<1>4. ASSUME NEW n \in 1 .. READ_BUFFER_SIZE, Reads(n) PROVE IInv'
  <2>1. UNCHANGED <<program, channel, peeked, sent, state, poll, events, parsed, mutex, ui>>
    BY <1>4 DEF Reads
  <2>2. PollType' /\ Registered'
    BY <1>4, ReadControl DEF Reads
  <2>3. unread' = unread - n /\ n <= unread /\ n <= READ_BUFFER_SIZE - read.unprocessed
    BY <1>4 DEF Reads
  <2>4. read'.unprocessed = read.unprocessed + n /\ read'.processed = read.processed
        /\ read' = [unprocessed |-> read'.unprocessed, processed |-> read'.processed]
    BY <1>4 DEF Reads, OutputType
  <2>5. OutputType'
    BY <2>1, <2>3, <2>4 DEF OutputType
  <2>6. /\ n \in Nat /\ unread \in Nat /\ parsed \in Nat /\ program.printed \in Nat
        /\ read.unprocessed \in Nat
    BY DEF OutputType, ProgramType
  <2>7. Accounted'
    BY ONLY <2>1, <2>3, <2>4, <2>6, Accounted DEF Accounted, OutputKept
  <2> QED
    BY <2>1, <2>2, <2>5, <2>7
<1>5. CASE ContinueReading
  <2>1. UNCHANGED <<program, unread, channel, peeked, sent, state, poll, events, read, parsed, mutex, ui>>
    BY <1>5 DEF ContinueReading
  <2>2. PollType' /\ Registered'
    BY <1>5, ReadControl DEF ContinueReading
  <2> QED
    BY <2>1, <2>2
<1>6. CASE Parse
  <2>1. UNCHANGED <<program, unread, channel, peeked, sent, state, poll, ui>>
    BY <1>6 DEF Parse
  <2>2. PollType' /\ Registered'
    BY <1>6, ReadControl DEF Parse, ReadReturns
  <2>3. LockType'
    BY <1>6 DEF Parse, ReadReturns, LockType
  <2>4. parsed' = parsed + read.unprocessed /\ read'.unprocessed = 0
    BY <1>6 DEF Parse, ReadReturns
  <2>5. Accounted' /\ parsed' \in 0 .. MaxOutput
    <3>1. /\ unread \in Nat /\ parsed \in Nat /\ read.unprocessed \in Nat
          /\ program.printed \in 0 .. MaxOutput
      BY DEF OutputType, ProgramType
    <3> QED
      BY ONLY <2>1, <2>4, <3>1, Accounted, MachineAssumption DEF Accounted, OutputKept
  <2>6. /\ read' = [unprocessed |-> 0, processed |-> read'.processed]
        /\ read'.processed \in 0 .. MAX_LOCKED_READ
    BY <1>6 DEF Parse, ReadReturns, OutputType
  <2>7. OutputType'
    BY <2>1, <2>4, <2>5, <2>6 DEF OutputType
  <2> QED
    BY <2>1, <2>2, <2>3, <2>5, <2>7
<1> QED
  BY <1>1, <1>2, <1>3, <1>4, <1>5, <1>6 DEF PtyRead

(* The part of a message that is written and the part that is not are      *)
(* sequences of bytes.                                                     *)
LEMMA SubSeqType ==
    ASSUME NEW S, NEW w \in Seq(S), NEW n \in Nat, n <= Len(w)
    PROVE  SubSeq(w, 1, n) \in Seq(S) /\ SubSeq(w, n + 1, Len(w)) \in Seq(S)
<1>1. Len(w) \in Nat /\ \A i \in 1 .. Len(w) : w[i] \in S
  OBVIOUS
<1>2. SubSeq(w, 1, n) \in Seq(S)
  <2>1. \A i \in 1 .. n : w[i] \in S
    BY <1>1
  <2> QED
    BY ONLY <2>1, n \in Nat, SubSeqProperties
<1>3. SubSeq(w, n + 1, Len(w)) \in Seq(S)
  <2>1. \A i \in n + 1 .. Len(w) : w[i] \in S
    BY <1>1
  <2>2. n + 1 \in Int /\ Len(w) \in Int
    BY <1>1
  <2> QED
    BY ONLY <2>1, <2>2, SubSeqProperties
<1> QED
  BY <1>2, <1>3

(* The steps of pty_write, which ends with nothing to write or a registration. *)
LEMMA PtyWriteStep ==
    ASSUME IInv, PtyWrite
    PROVE  IInv'
<1> USE Parts, PartsAfter, Frame, MachineAssumption
<1>1. CASE BeginNext
  <2>1. UNCHANGED <<program, unread, channel, peeked, sent, poll, events, pc, read, parsed, mutex, ui>>
    BY <1>1 DEF BeginNext
  <2>2. state'.write_list = Tail(state.write_list) /\ state'.writing = Head(state.write_list)
        /\ state' = [write_list |-> state'.write_list, writing |-> state'.writing]
    BY <1>1 DEF BeginNext
  <2>3. Tail(state.write_list) \in Seq(Msg) /\ Head(state.write_list) \in Msg
    BY <1>1 DEF BeginNext, StateType
  <2>4. StateType'
    BY <2>2, <2>3, MsgType DEF StateType
  <2>5. Registered'
    BY <1>1, <2>1 DEF BeginNext, Registered
  <2> QED
    BY <2>1, <2>4, <2>5
<1>2. ASSUME NEW n \in 1 .. InputLen, Writes(n) PROVE IInv'
  <2>1. UNCHANGED <<unread, channel, peeked, sent, poll, events, pc, read, parsed, mutex, ui>>
    BY <1>2 DEF Writes
  <2>2. state'.write_list = state.write_list
        /\ state'.writing = SubSeq(state.writing, n + 1, Len(state.writing))
        /\ state' = [write_list |-> state'.write_list, writing |-> state'.writing]
    BY <1>2 DEF Writes, StateType
  <2>3. /\ state.writing \in Seq(1 .. MaxInputs) /\ Len(state.writing) \in Nat
        /\ n <= Len(state.writing) /\ program.inbox + n <= TtySize
    BY <1>2 DEF Writes, StateType
  <2>4. /\ SubSeq(state.writing, 1, n) \in Seq(1 .. MaxInputs)
        /\ SubSeq(state.writing, n + 1, Len(state.writing)) \in Seq(1 .. MaxInputs)
    BY ONLY <2>3, n \in 1 .. InputLen, MachineAssumption, SubSeqType, SMTT(20)
  <2>5. StateType'
    BY <2>2, <2>4 DEF StateType
  <2>6. program'.printed = program.printed /\ program'.running = program.running
    BY <1>2 DEF Writes, ProgramType
  <2>7. program.inbox + n \in 0 .. TtySize
    BY <2>3 DEF ProgramType
  <2> DEFINE Bytes == Seq(1 .. MaxInputs)
             written == SubSeq(state.writing, 1, n)
  <2>8. /\ program \in [printed : 0 .. MaxOutput, inbox : 0 .. TtySize,
                       delivered : Bytes, running : BOOLEAN]
        /\ program' = [program EXCEPT !.delivered = @ \o written, !.inbox = @ + n]
    BY <1>2 DEF Writes, ProgramType
  <2>9. program.delivered \o written \in Bytes
    BY <2>4 DEF ProgramType
  <2> HIDE DEF Bytes, written
  <2>10. program' \in [printed : 0 .. MaxOutput, inbox : 0 .. TtySize,
                     delivered : Bytes, running : BOOLEAN]
    BY <2>8, <2>9, <2>7
  <2>11. ProgramType'
    BY <2>10 DEF Bytes, ProgramType
  <2>12. Registered'
    BY <1>2, <2>1 DEF Writes, Registered
  <2> QED
    BY <2>1, <2>5, <2>6, <2>11, <2>12
<1>3. CASE WriteReturns
  <2>1. UNCHANGED <<program, unread, channel, peeked, sent, state, poll, read, parsed, mutex, ui>>
    BY <1>3 DEF WriteReturns
  <2>2. PollType' /\ Registered'
    BY <1>3, ReadControl DEF WriteReturns
  <2> QED
    BY <2>1, <2>2
<1> QED
  BY <1>1, <1>2, <1>3 DEF PtyWrite

-----------------------------------------------------------------------------
(* The theorems about the registrations and the output. *)

LEMMA InitStep == Init => IInv
<1> SUFFICES ASSUME Init PROVE IInv
  OBVIOUS
<1>1. ProgramType /\ OutputType /\ LockType
  BY MachineAssumption DEF Init, ProgramType, OutputType, LockType
<1>2. StateType /\ InputType /\ PollType
  BY MachineAssumption DEF Init, StateType, InputType, PollType
<1>3. Registered /\ Accounted
  BY DEF Init, Registered, needs_write, Accounted, OutputKept
<1> QED
  BY <1>1, <1>2, <1>3, Parts

(* Every step keeps the invariant. *)
LEMMA Step == IInv /\ [Next]_vars => IInv'
<1> SUFFICES ASSUME IInv, [Next]_vars PROVE IInv'
  OBVIOUS
<1>1. CASE Program
  BY <1>1, ProgramStep
<1>2. CASE Ui
  BY <1>2, UiStep
<1>3. CASE PtyThread
  BY <1>3, PollStep, PollTimesOutStep, DrainStep, ChannelEventStep, EventStep, PtyReadStep,
     PtyWriteStep DEF PtyThread
<1>4. CASE UNCHANGED vars
  BY <1>4, Parts, PartsAfter, Frame DEF vars
<1> QED
  BY <1>1, <1>2, <1>3, <1>4 DEF Next

(* The invariant holds throughout. *)
LEMMA Invariant == Spec => []IInv
BY InitStep, Step, PTL DEF Spec

(* The PTY thread never waits in poll while something it has to do could   *)
(* not wake it: the channel, the PTY and, with input to write, the chance  *)
(* to write are registered (pty_write, channel_event, the register at the  *)
(* end of a round in performer/mod.rs).                                    *)
THEOREM NeverSleepsOnWork == Spec => []RegisteredForWork
<1>1. IInv => RegisteredForWork
  BY DEF IInv, Registered, RegisteredForWork
<1> QED
  BY <1>1, Invariant, PTL

(* pty_read loses no byte of a program that runs: it is in the kernel, in  *)
(* the buffer or parsed, however often the lock was busy.                  *)
THEOREM OutputIsKept == Spec => []OutputKept
<1>1. IInv => OutputKept
  BY DEF IInv, Accounted
<1> QED
  BY <1>1, Invariant, PTL

-----------------------------------------------------------------------------
(* Input in order. *)

(* Input bytes, and what lies between a sender and the program. *)
Byte == 1 .. MaxInputs
Sent(n) == [i \in 1 .. n |-> Input(i)]
Ahead == program.delivered \o state.writing

(* Messages are byte strings, so a queue of them has a content. *)
LEMMA MessagesAreBytes ==
    ASSUME NEW s \in Seq(Msg)
    PROVE  s \in Seq(Seq(Byte)) /\ FlattenSeq(s) \in Seq(Byte)
<1>1. s \in Seq(Seq(Byte))
  BY ONLY MsgType, s \in Seq(Msg), SeqMonotonic DEF Byte
<1> QED
  BY <1>1, FlattenType

(* Types of all the places in which input waits. *)
LEMMA QueueTypes ==
    ASSUME IInv
    PROVE  /\ program.delivered \in Seq(Byte) /\ state.writing \in Seq(Byte)
           /\ Ahead \in Seq(Byte)
           /\ state.write_list \in Seq(Msg) /\ FlattenSeq(state.write_list) \in Seq(Byte)
           /\ peeked \in Seq(Msg) /\ channel \in Seq(Msg)
           /\ Received \in Seq(Msg) /\ FlattenSeq(Received) \in Seq(Byte)
<1>1. program.delivered \in Seq(Byte) /\ state.writing \in Seq(Byte)
  BY Parts DEF ProgramType, StateType, Byte
<1>2. state.write_list \in Seq(Msg) /\ peeked \in Seq(Msg) /\ channel \in Seq(Msg)
  BY Parts DEF StateType, InputType
<1>3. Received \in Seq(Msg)
  BY ReceivedType DEF IInv
<1>4. Ahead \in Seq(Byte)
  BY ONLY <1>1, ConcatProperties DEF Ahead
<1> QED
  BY <1>1, <1>2, <1>3, <1>4, MessagesAreBytes

(* A sequence and its first element. *)
LEMMA HeadAndTail ==
    ASSUME NEW S, NEW s \in Seq(S), s # <<>>
    PROVE  <<Head(s)>> \o Tail(s) = s
OBVIOUS

(* A queue without its shutdown message carries the same bytes. *)
LEMMA WithoutShutdown ==
    ASSUME NEW s \in Seq(Msg), NEW k \in 1 .. Len(s), s[k] = Shutdown
    PROVE  FlattenSeq(s) = FlattenSeq(SubSeq(s, 1, k - 1)) \o FlattenSeq(SubSeq(s, k + 1, Len(s)))
<1> DEFINE front == SubSeq(s, 1, k - 1)
           back == SubSeq(s, k + 1, Len(s))
<1>1. front \in Seq(Msg) /\ back \in Seq(Msg)
  OBVIOUS
<1>2. s = Append(front, Shutdown) \o back
  <2>1. /\ k \in 1 - 1 .. Len(s) /\ Len(s) \in k .. Len(s) /\ 1 \in 1 .. Len(s) + 1
        /\ 1 \in 1 .. Len(s) /\ k \in 1 .. Len(s)
    OBVIOUS
  <2>2. SubSeq(s, 1, k) \o SubSeq(s, k + 1, Len(s)) = SubSeq(s, 1, Len(s))
    BY ONLY <2>1, s \in Seq(Msg), ConcatAdjacentSubSeq
  <2>3. SubSeq(s, 1, Len(s)) = s
    BY ONLY s \in Seq(Msg), SubSeqFull
  <2>4. SubSeq(s, 1, k) = SubSeq(s, 1, k - 1) \o <<s[k]>>
    BY ONLY <2>1, s \in Seq(Msg), SubSeqRecursiveSecond
  <2>5. Append(front, s[k]) = front \o <<s[k]>>
    <3>1. s[k] \in Msg
      OBVIOUS
    <3> HIDE DEF front
    <3> QED
      BY ONLY <1>1, <3>1, AppendIsConcat
  <2> QED
    BY <2>2, <2>3, <2>4, <2>5
<1>3. front \in Seq(Seq(Byte)) /\ back \in Seq(Seq(Byte)) /\ FlattenSeq(front) \in Seq(Byte)
  BY <1>1, MessagesAreBytes
<1> HIDE DEF front, back
<1>4. <<>> \in Seq(Byte)
  BY ONLY EmptySeq
<1>5. Append(front, <<>>) \in Seq(Seq(Byte))
  BY ONLY <1>3, <1>4, AppendProperties
<1>6. FlattenSeq(Append(front, <<>>) \o back) = FlattenSeq(Append(front, <<>>)) \o FlattenSeq(back)
  BY ONLY <1>3, <1>5, FlattenConcat
<1>7. FlattenSeq(Append(front, <<>>)) = FlattenSeq(front) \o <<>>
  BY ONLY <1>3, <1>4, FlattenAppend
<1>8. FlattenSeq(front) \o <<>> = FlattenSeq(front)
  BY ONLY <1>3, ConcatEmptySeq
<1> QED
  BY <1>2, <1>6, <1>7, <1>8 DEF front, back, Shutdown

(* What drain_recv_channel takes and leaves together is what was there. *)
LEMMA DrainKeepsBytes ==
    ASSUME IInv, drain_recv_channel
    PROVE  \E taken, rest :
               /\ taken \in Seq(Msg) /\ rest \in Seq(Msg)
               /\ state'.write_list = state.write_list \o taken
               /\ peeked' \o channel' = rest
               /\ FlattenSeq(Received) = FlattenSeq(taken) \o FlattenSeq(rest)
<1> DEFINE stop == FirstShutdown(Received)
           taken == IF stop = 0 THEN Received ELSE SubSeq(Received, 1, stop - 1)
           rest == IF stop = 0 THEN <<>> ELSE SubSeq(Received, stop + 1, Len(Received))
<1>1. Received \in Seq(Msg) /\ FlattenSeq(Received) \in Seq(Byte)
  BY QueueTypes
<1>2. stop \in 0 .. Len(Received) /\ (stop # 0 => Received[stop] = Shutdown)
  BY <1>1, FirstShutdownFacts
<1>3. /\ state' = [state EXCEPT !.write_list = @ \o taken]
      /\ peeked' = <<>>
      /\ channel' = rest
  BY DEF drain_recv_channel, FirstShutdown
<1> HIDE DEF stop
<1>4. taken \in Seq(Msg) /\ rest \in Seq(Msg)
  BY <1>1, <1>2
<1>5. FlattenSeq(Received) = FlattenSeq(taken) \o FlattenSeq(rest)
  <2>1. CASE stop = 0
    <3>1. FlattenSeq(Received) \o <<>> = FlattenSeq(Received)
      BY ONLY <1>1, ConcatEmptySeq
    <3> QED
      BY <2>1, <3>1, FlattenEmpty
  <2>2. CASE stop # 0
    <3>1. stop \in 1 .. Len(Received)
      BY <1>1, <1>2, <2>2
    <3> QED
      BY <1>1, <1>2, <2>2, <3>1, WithoutShutdown
  <2> QED
    BY <2>1, <2>2
<1> HIDE DEF taken, rest
<1>6. state'.write_list = state.write_list \o taken
  BY <1>3, Parts DEF StateType
<1>7. peeked' \o channel' = rest
  BY ONLY <1>3, <1>4, ConcatEmptySeq
<1> QED
  BY <1>4, <1>5, <1>6, <1>7

(* Draining moves messages from the channel to the write list, in order. *)
LEMMA DrainInOrder ==
    ASSUME IInv, InputInOrder, drain_recv_channel, UNCHANGED <<program, sent>>
    PROVE  InputInOrder'
<1>1. PICK taken, rest :
          /\ taken \in Seq(Msg) /\ rest \in Seq(Msg)
          /\ state'.write_list = state.write_list \o taken
          /\ peeked' \o channel' = rest
          /\ FlattenSeq(Received) = FlattenSeq(taken) \o FlattenSeq(rest)
  BY DrainKeepsBytes
<1>2. state'.writing = state.writing
  BY DrainFacts DEF IInv
<1> DEFINE a == Ahead
           b == FlattenSeq(state.write_list)
           c == FlattenSeq(taken)
           d == FlattenSeq(rest)
<1>3. a \in Seq(Byte) /\ b \in Seq(Byte) /\ c \in Seq(Byte) /\ d \in Seq(Byte)
  BY <1>1, QueueTypes, MessagesAreBytes
<1>4. FlattenSeq(state'.write_list) = b \o c
  <2>1. state.write_list \in Seq(Seq(Byte)) /\ taken \in Seq(Seq(Byte))
    BY <1>1, QueueTypes, MessagesAreBytes
  <2>2. FlattenSeq(state.write_list \o taken) = FlattenSeq(state.write_list) \o FlattenSeq(taken)
    BY ONLY <2>1, FlattenConcat
  <2> QED
    BY <1>1, <2>2
<1>5. InputInOrder <=> (a \o b) \o (c \o d) = FlattenSeq(Sent(sent))
  BY <1>1 DEF InputInOrder, Ahead, Received, Sent
<1>6. InputInOrder' <=> (a \o (b \o c)) \o d = FlattenSeq(Sent(sent))
  BY <1>1, <1>2, <1>4 DEF InputInOrder, Ahead, Sent
<1> HIDE DEF a, b, c, d
<1>7. (a \o (b \o c)) \o d = (a \o b) \o (c \o d)
  <2>1. (a \o b) \o c = a \o (b \o c)
    <3>1. a \in Seq(Byte) /\ b \in Seq(Byte) /\ c \in Seq(Byte)
      BY <1>3
    <3> QED
      BY ONLY <3>1, ConcatAssociative
  <2> DEFINE ab == a \o b
  <2>2. ab \in Seq(Byte)
    BY ONLY <1>3, ConcatProperties
  <2> HIDE DEF ab
  <2>3. (ab \o c) \o d = ab \o (c \o d)
    <3>1. c \in Seq(Byte) /\ d \in Seq(Byte)
      BY <1>3
    <3> QED
      BY ONLY <3>1, <2>2, ConcatAssociative
  <2> QED
    BY <2>1, <2>3 DEF ab
<1> QED
  BY <1>5, <1>6, <1>7

(* A message at the end of the channel. *)
LEMMA SendInOrder ==
    ASSUME IInv, NEW m, m \in Msg, channel' = Append(channel, m), UNCHANGED <<program, state, peeked>>
    PROVE  (program'.delivered \o state'.writing) \o FlattenSeq(state'.write_list)
               \o FlattenSeq(peeked' \o channel')
           = ((program.delivered \o state.writing) \o FlattenSeq(state.write_list)
               \o FlattenSeq(peeked \o channel)) \o m
<1>1. peeked \o Append(channel, m) = Append(Received, m)
  BY ONLY QueueTypes, IInv, m \in Msg, ConcatAppend DEF Received
<1>2. Received \in Seq(Seq(Byte)) /\ m \in Seq(Byte)
  BY QueueTypes, MessagesAreBytes, MsgType DEF Byte
<1>3. FlattenSeq(Append(Received, m)) = FlattenSeq(Received) \o m
  BY ONLY <1>2, FlattenAppend
<1> DEFINE a == Ahead \o FlattenSeq(state.write_list)
           b == FlattenSeq(Received)
<1>4. a \in Seq(Byte) /\ b \in Seq(Byte)
  BY QueueTypes, ConcatProperties
<1> HIDE DEF a, b
<1>5. (a \o b) \o m = a \o (b \o m)
  <2>1. m \in Seq(Byte)
    BY <1>2
  <2> QED
    BY ONLY <2>1, <1>4, ConcatAssociative
<1> QED
  BY <1>1, <1>3, <1>5 DEF a, b, Ahead, Received

(* A new message is the last one. *)
LEMMA UiInOrder ==
    ASSUME IInv, InputInOrder, Ui
    PROVE  InputInOrder'
<1> DEFINE queued == (program.delivered \o state.writing) \o FlattenSeq(state.write_list)
                         \o FlattenSeq(peeked \o channel)
<1>1. CASE SendsInput
  <2>1. sent' = sent + 1 /\ sent \in Nat /\ sent' \in 1 .. MaxInputs
        /\ channel' = Append(channel, Input(sent')) /\ UNCHANGED <<program, state, peeked>>
    BY <1>1, MachineAssumption, Parts DEF SendsInput, InputType
  <2>2. Input(sent') \in Msg /\ Input(sent') \in Seq(Byte)
    BY <2>1, MsgType DEF Msg, Byte
  <2>3. (program'.delivered \o state'.writing) \o FlattenSeq(state'.write_list)
            \o FlattenSeq(peeked' \o channel') = queued \o Input(sent')
    BY <2>1, <2>2, SendInOrder
  <2>4. Sent(sent') = Append(Sent(sent), Input(sent')) /\ Sent(sent) \in Seq(Seq(Byte))
    <3>1. \A i \in 1 .. sent' : Input(i) \in Msg
      BY <2>1, MachineAssumption DEF Msg
    <3>2. Sent(sent) \in Seq(Msg) /\ Sent(sent') \in Seq(Msg)
      BY <2>1, <3>1 DEF Sent
    <3>3. Sent(sent) \in Seq(Seq(Byte))
      BY <3>2, MessagesAreBytes
    <3>4. Append(Sent(sent), Input(sent')) \in Seq(Msg)
      BY ONLY <2>2, <3>2, AppendProperties
    <3>5. /\ Len(Sent(sent)) = sent /\ Len(Sent(sent')) = sent + 1
          /\ Len(Append(Sent(sent), Input(sent'))) = sent + 1
      BY <2>1, <3>2 DEF Sent
    <3>6. \A i \in 1 .. sent + 1 : Sent(sent')[i] = Append(Sent(sent), Input(sent'))[i]
      <4> SUFFICES ASSUME NEW i \in 1 .. sent + 1
                   PROVE  Sent(sent')[i] = Append(Sent(sent), Input(sent'))[i]
        OBVIOUS
      <4>1. Sent(sent')[i] = Input(i)
        BY <2>1 DEF Sent
      <4>2. CASE i = sent + 1
        BY <2>1, <3>2, <3>5, <4>1, <4>2
      <4>3. CASE i \in 1 .. sent
        <5>1. Append(Sent(sent), Input(sent'))[i] = Sent(sent)[i]
          BY <2>2, <3>2, <3>5, <4>3
        <5> QED
          BY <2>1, <4>1, <4>3, <5>1 DEF Sent
      <4>4. i = sent + 1 \/ i \in 1 .. sent
        BY <2>1
      <4> QED
        BY <4>2, <4>3, <4>4
    <3> QED
      BY ONLY <3>2, <3>3, <3>4, <3>5, <3>6, SeqEqual
  <2>5. FlattenSeq(Append(Sent(sent), Input(sent'))) = FlattenSeq(Sent(sent)) \o Input(sent')
    BY ONLY <2>2, <2>4, FlattenAppend
  <2> QED
    BY <2>3, <2>4, <2>5 DEF InputInOrder, Sent
<1>2. CASE SendsShutdown
  <2>1. channel' = Append(channel, Shutdown) /\ UNCHANGED <<program, state, peeked, sent>>
    BY <1>2 DEF SendsShutdown
  <2>2. Shutdown \in Msg
    BY DEF Msg
  <2>3. (program'.delivered \o state'.writing) \o FlattenSeq(state'.write_list)
            \o FlattenSeq(peeked' \o channel') = queued \o Shutdown
    BY <2>1, <2>2, SendInOrder
  <2>4. queued \in Seq(Byte)
    BY QueueTypes, ConcatProperties DEF Ahead, Received
  <2> HIDE DEF queued
  <2>5. queued \o <<>> = queued
    BY ONLY <2>4, ConcatEmptySeq
  <2> QED
    BY <2>1, <2>3, <2>5 DEF InputInOrder, Shutdown, queued
<1>3. CASE UiCallsLock \/ UiTakesNext \/ UiTakesData \/ UiUnlocks
  BY <1>3 DEF UiCallsLock, UiTakesNext, UiTakesData, UiUnlocks, UiVars, InputInOrder
<1> QED
  BY <1>1, <1>2, <1>3 DEF Ui

(* The program takes what was delivered to it first. *)
LEMMA ProgramInOrder ==
    ASSUME IInv, InputInOrder, Program
    PROVE  InputInOrder'
<1>1. program'.delivered = program.delivered
  BY Parts DEF Program, Prints, ReadsInput, Exits, ProgramType
<1> QED
  BY <1>1 DEF Program, Prints, ReadsInput, Exits, InputInOrder

(* The message in hand stays in front of the channel. *)
LEMMA PollTimesOutInOrder ==
    ASSUME IInv, InputInOrder, PollTimesOut
    PROVE  InputInOrder'
<1>1. peeked' \o channel' = peeked \o channel
  <2>1. CASE peeked = <<>> /\ channel # <<>>
    <3>1. peeked' = <<Head(channel)>> /\ channel' = Tail(channel)
      BY <2>1 DEF PollTimesOut
    <3>2. channel \in Seq(Msg)
      BY QueueTypes
    <3>3. <<Head(channel)>> \o Tail(channel) = channel /\ <<>> \o channel = channel
      BY ONLY <2>1, <3>2, HeadAndTail, ConcatEmptySeq
    <3> QED
      BY <2>1, <3>1, <3>3
  <2>2. CASE ~(peeked = <<>> /\ channel # <<>>)
    BY <2>2 DEF PollTimesOut
  <2> QED
    BY <2>1, <2>2
<1> QED
  BY <1>1 DEF PollTimesOut, InputInOrder

(* Partial writes take bytes from the front. *)
LEMMA WriteInOrder ==
    ASSUME IInv, InputInOrder, PtyWrite
    PROVE  InputInOrder'
<1>1. CASE BeginNext
  <2>1. /\ state.writing = <<>> /\ state.write_list # <<>>
        /\ state'.write_list = Tail(state.write_list) /\ state'.writing = Head(state.write_list)
        /\ UNCHANGED <<program, channel, peeked, sent>>
    BY <1>1 DEF BeginNext
  <2> DEFINE l == state.write_list
             h == Head(l)
             t == Tail(l)
             d == program.delivered
             f == FlattenSeq(t)
  <2>2. l \in Seq(Msg) /\ l # <<>> /\ d \in Seq(Byte)
    BY <2>1, QueueTypes
  <2> HIDE DEF l, d
  <2>3. h \in Msg /\ t \in Seq(Msg)
    BY <2>2
  <2>4. h \in Seq(Byte) /\ t \in Seq(Seq(Byte)) /\ f \in Seq(Byte)
    BY <2>3, MessagesAreBytes, MsgType DEF Byte
  <2>5. <<h>> \o t = l
    BY ONLY <2>2, HeadAndTail
  <2> HIDE DEF h, t
  <2>6. <<h>> \in Seq(Seq(Byte)) /\ FlattenSeq(<<h>>) = h
    <3>1. <<>> \in Seq(Seq(Byte))
      BY ONLY EmptySeq
    <3>2. FlattenSeq(Append(<<>>, h)) = FlattenSeq(<<>>) \o h
      BY ONLY <2>4, <3>1, FlattenAppend
    <3>3. Append(<<>>, h) = <<h>> /\ <<>> \o h = h
      BY ONLY <2>4, ConcatEmptySeq
    <3>4. <<h>> \in Seq(Seq(Byte))
      BY <2>4
    <3> QED
      BY <3>2, <3>3, <3>4, FlattenEmpty
  <2>7. FlattenSeq(l) = h \o f
    <3>1. FlattenSeq(<<h>> \o t) = FlattenSeq(<<h>>) \o FlattenSeq(t)
      BY ONLY <2>4, <2>6, FlattenConcat
    <3> QED
      BY <2>5, <2>6, <3>1
  <2> HIDE DEF f
  <2>8. d \o <<>> = d /\ (d \o h) \o f = d \o (h \o f)
    BY ONLY <2>2, <2>4, ConcatEmptySeq, ConcatAssociative, SMTT(20)
  <2>9. InputInOrder <=> (d \o (h \o f)) \o FlattenSeq(peeked \o channel) = FlattenSeq(Sent(sent))
    BY <2>1, <2>7, <2>8 DEF InputInOrder, Sent, d, l
  <2>10. InputInOrder' <=> ((d \o h) \o f) \o FlattenSeq(peeked \o channel) = FlattenSeq(Sent(sent))
    BY <2>1 DEF InputInOrder, Sent, d, l, h, f, t
  <2> QED
    BY <2>8, <2>9, <2>10
<1>2. ASSUME NEW n \in 1 .. InputLen, Writes(n) PROVE InputInOrder'
  <2> DEFINE w == state.writing
             w1 == SubSeq(w, 1, n)
             w2 == SubSeq(w, n + 1, Len(w))
             d == program.delivered
  <2>1. /\ state'.write_list = state.write_list /\ state'.writing = w2
        /\ program'.delivered = d \o w1
        /\ UNCHANGED <<channel, peeked, sent>>
    BY <1>2, Parts DEF Writes, StateType, ProgramType
  <2>2. w \in Seq(Byte) /\ d \in Seq(Byte) /\ n \in Nat /\ n <= Len(w)
    BY <1>2, QueueTypes DEF Writes
  <2> HIDE DEF w, d
  <2>3. w1 \in Seq(Byte) /\ w2 \in Seq(Byte)
    BY ONLY <2>2, SubSeqType
  <2>4. w1 \o w2 = w
    <3>1. n \in 0 .. Len(w) /\ Len(w) \in n .. Len(w) /\ 1 \in 1 .. Len(w) + 1 /\ n \in 1 - 1 .. Len(w)
      BY <2>2
    <3>2. SubSeq(w, 1, Len(w)) = w
      BY ONLY <2>2, SubSeqFull
    <3> QED
      BY ONLY <2>2, <3>1, <3>2, ConcatAdjacentSubSeq
  <2> HIDE DEF w1, w2
  <2>5. (d \o w1) \o w2 = d \o (w1 \o w2)
    <3>1. d \in Seq(Byte)
      BY <2>2
    <3> QED
      BY ONLY <2>3, <3>1, ConcatAssociative, SMTT(20)
  <2> QED
    BY <2>1, <2>4, <2>5 DEF InputInOrder, d, w
<1>3. CASE WriteReturns
  BY <1>3 DEF WriteReturns, InputInOrder
<1> QED
  BY <1>1, <1>2, <1>3 DEF PtyWrite

(* No step of the PTY thread changes the order of the input. *)
LEMMA ThreadInOrder ==
    ASSUME IInv, InputInOrder, PtyThread
    PROVE  InputInOrder'
<1>1. CASE Poll \/ ChildExited \/ PtyEvent \/ Reregister
  BY <1>1 DEF Poll, ChildExited, PtyEvent, Reregister, InputInOrder
<1>2. CASE PollTimesOut
  BY <1>2, PollTimesOutInOrder
<1>3. CASE Drain
  BY <1>3, DrainInOrder DEF Drain
<1>4. CASE channel_event
  BY <1>4, DrainInOrder DEF channel_event
<1>5. CASE PtyRead
  BY <1>5 DEF PtyRead, Lease, ReadWouldBlock, ReadFails, Reads, ContinueReading, Parse, InputInOrder
<1>6. CASE PtyWrite
  BY <1>6, WriteInOrder
<1> QED
  BY <1>1, <1>2, <1>3, <1>4, <1>5, <1>6 DEF PtyThread

(* Input reaches the program complete, in order and once: delivered, being *)
(* written, in the write list, in the peeked slot and in the channel it is *)
(* what was sent (Machine::drain_recv_channel, pty_write, PeekableReceiver).*)
THEOREM InputStaysInOrder == Spec => []InputInOrder
<1>1. Init => InputInOrder
  <2> SUFFICES ASSUME Init PROVE InputInOrder
    OBVIOUS
  <2>1. [i \in 1 .. 0 |-> Input(i)] = <<>>
    OBVIOUS
  <2>2. <<>> \o <<>> = <<>>
    BY ConcatEmptySeq, EmptySeq
  <2> QED
    BY <2>1, <2>2, FlattenEmpty DEF Init, InputInOrder
<1>2. IInv /\ InputInOrder /\ [Next]_vars => InputInOrder'
  <2> SUFFICES ASSUME IInv, InputInOrder, [Next]_vars PROVE InputInOrder'
    OBVIOUS
  <2>1. CASE UNCHANGED vars
    BY <2>1 DEF vars, InputInOrder
  <2> QED
    BY <2>1, ProgramInOrder, UiInOrder, ThreadInOrder DEF Next
<1> QED
  BY <1>1, <1>2, Invariant, PTL DEF Spec
=============================================================================
