----------------------------- MODULE SyncProofs -----------------------------
(***************************************************************************)
(* For every output, every way the reads cut it, every escape length and   *)
(* buffer limit: synchronized updates lose nothing, hold back no more than *)
(* the limit and only under a timeout, never tear a frame, pty_read's test *)
(* tells the renderer exactly when the parser got something, and no frame  *)
(* that has ended is held back.                                            *)
(***************************************************************************)
EXTENDS SyncSpec, SequenceTheorems, WellFoundedInduction, TLAPS

ProcessorType == [applied : Seq(Byte), buffer : Seq(Byte), timeout : BOOLEAN]

(* What HeldBytesBounded says, of any processor. *)
Bounded(p) ==
    /\ p.buffer # <<>> => p.timeout
    /\ Len(p.buffer) < SYNC_BUFFER_SIZE

-----------------------------------------------------------------------------
(* Sets of naturals have a least element, which Min finds. *)
LEMMA MinIsLeast ==
    ASSUME NEW T, T \subseteq Nat, T # {}
    PROVE  Min(T) \in T /\ \A y \in T : Min(T) <= y
<1>1. PICK x \in T : \A y \in T : ~(<<y, x>> \in OpToRel(<, Nat))
  BY NatLessThanWellFounded, WFMin
<1>2. \A y \in T : x <= y
  <2> SUFFICES ASSUME NEW y \in T PROVE x <= y
    OBVIOUS
  <2>1. ~(y < x)
    BY <1>1 DEF OpToRel
  <2> QED BY <2>1
<1> QED
  BY <1>2 DEF Min

(* An escape at an offset shows byte by byte. *)
LEMMA EscapeBytes ==
    ASSUME NEW b \in Seq(Byte), NEW esc \in Seq(Byte), Len(esc) = SYNC_ESCAPE_LEN,
           NEW o \in Nat, o + SYNC_ESCAPE_LEN <= Len(b), EscapeAt(b, o, esc)
    PROVE  \A i \in 1 .. SYNC_ESCAPE_LEN : b[o + i] = esc[i]
<1>1. SYNC_ESCAPE_LEN \in Nat
  BY EscapesAssumption DEF SYNC_ESCAPE_LEN
<1> DEFINE n == SYNC_ESCAPE_LEN
<1> HIDE DEF n
<1>2. \A i \in 1 .. n : SubSeq(b, o + 1, o + n)[i] = b[o + i]
  BY <1>1 DEF n
<1> QED
  BY <1>2 DEF EscapeAt, n

(* A BSU does not begin inside an ESU. *)
LEMMA EscapesApart ==
    ASSUME NEW b \in Seq(Byte), NEW e \in Nat, NEW o \in Nat, e < o,
           e + SYNC_ESCAPE_LEN <= Len(b), o + SYNC_ESCAPE_LEN <= Len(b),
           EscapeAt(b, e, ESU_CSI), EscapeAt(b, o, BSU_CSI)
    PROVE  e + SYNC_ESCAPE_LEN <= o
<1> DEFINE n == SYNC_ESCAPE_LEN
<1>1. /\ n \in Nat /\ n > 1 /\ Len(ESU_CSI) = n /\ Len(BSU_CSI) = n
      /\ ESU_CSI \in Seq(Byte) /\ BSU_CSI \in Seq(Byte)
  BY EscapesAssumption DEF SYNC_ESCAPE_LEN
<1>2. \A i \in 1 .. n : b[e + i] = ESU_CSI[i]
  BY <1>1, EscapeBytes
<1>3. \A i \in 1 .. n : b[o + i] = BSU_CSI[i]
  BY <1>1, EscapeBytes
<1> HIDE DEF n
<1>4. SUFFICES ASSUME o < e + n PROVE FALSE
  BY <1>1 DEF n
<1> DEFINE i == o - e + 1
<1>5. i \in 2 .. n /\ e + i = o + 1 /\ 1 \in 1 .. n
  BY <1>1, <1>4
<1>6. b[o + 1] = BSU_CSI[1]
  BY <1>3, <1>5
<1>7. b[e + i] = ESU_CSI[i]
  BY <1>1, <1>2, <1>5
<1>8. ESU_CSI[i] # BSU_CSI[1]
  BY <1>1, <1>5, EscapesAssumption
<1> QED
  BY <1>5, <1>6, <1>7, <1>8

-----------------------------------------------------------------------------
(* What the methods do. *)

(* The parser consumes all it is given and leaves the buffer alone. *)
LEMMA ParseStep ==
    ASSUME NEW p \in ProcessorType, NEW bytes \in Seq(Byte)
    PROVE  /\ parse(p, bytes) \in ProcessorType
           /\ parse(p, bytes).applied = p.applied \o bytes
           /\ parse(p, bytes).buffer = p.buffer
           /\ p.timeout => parse(p, bytes).timeout
<1> DEFINE begins == \E e \in Len(p.applied) + 1 .. Len(p.applied \o bytes) :
                        e >= SYNC_ESCAPE_LEN
                            /\ EscapeAt(p.applied \o bytes, e - SYNC_ESCAPE_LEN, BSU_CSI)
<1>1. parse(p, bytes)
        = [p EXCEPT !.applied = p.applied \o bytes, !.timeout = p.timeout \/ begins]
  BY DEF parse
<1>2. p.applied \o bytes \in Seq(Byte)
  BY DEF ProcessorType
<1>3. (p.timeout \/ begins) \in BOOLEAN
  OBVIOUS
<1> HIDE DEF begins
<1> QED
  BY <1>1, <1>2, <1>3 DEF ProcessorType

(* The end of an update releases everything. *)
LEMMA StopStep ==
    ASSUME NEW p \in ProcessorType
    PROVE  /\ stop_sync(p) \in ProcessorType
           /\ stop_sync(p).applied = p.applied \o p.buffer
           /\ stop_sync(p).buffer = <<>>
<1>1. p.buffer \in Seq(Byte)
  BY DEF ProcessorType
<1>2. /\ parse(p, p.buffer) \in ProcessorType
      /\ parse(p, p.buffer).applied = p.applied \o p.buffer
  BY <1>1, ParseStep
<1>3. stop_sync(p) = [parse(p, p.buffer) EXCEPT !.buffer = <<>>, !.timeout = FALSE]
  BY DEF stop_sync
<1>4. <<>> \in Seq(Byte)
  OBVIOUS
<1> QED
  BY <1>2, <1>3, <1>4 DEF ProcessorType

(* The beginning of the next update releases what precedes it. *)
LEMMA StopAtStep ==
    ASSUME NEW p \in ProcessorType, NEW o \in Nat, o <= Len(p.buffer)
    PROVE  LET r == stop_sync_at(p, o)
           IN  /\ r \in ProcessorType
               /\ r.applied \o r.buffer = p.applied \o p.buffer
               /\ r.applied = p.applied \o SubSeq(p.buffer, 1, o)
               /\ r.buffer = SubSeq(p.buffer, o + 1, Len(p.buffer))
               /\ p.timeout => r.timeout
<1> DEFINE r == stop_sync_at(p, o)
           front == SubSeq(p.buffer, 1, o)
           back == SubSeq(p.buffer, o + 1, Len(p.buffer))
<1>1. p.buffer \in Seq(Byte) /\ p.applied \in Seq(Byte)
  BY DEF ProcessorType
<1>2. front \in Seq(Byte) /\ back \in Seq(Byte)
  BY <1>1
<1>3. front \o back = p.buffer
  <2>1. /\ 1 \in 1 .. Len(p.buffer) + 1 /\ o \in 1 - 1 .. Len(p.buffer)
        /\ Len(p.buffer) \in o .. Len(p.buffer)
    BY <1>1
  <2>2. front \o back = SubSeq(p.buffer, 1, Len(p.buffer))
    BY ONLY <1>1, <2>1, ConcatAdjacentSubSeq
  <2>3. SubSeq(p.buffer, 1, Len(p.buffer)) = p.buffer
    BY ONLY <1>1, SubSeqFull
  <2> QED BY <2>2, <2>3
<1> HIDE DEF front, back
<1>4. /\ parse(p, front) \in ProcessorType
      /\ parse(p, front).applied = p.applied \o front
      /\ p.timeout => parse(p, front).timeout
  BY <1>2, ParseStep
<1>5. r = [parse(p, front) EXCEPT !.buffer = back]
  BY DEF stop_sync_at, front, back
<1>6. /\ r \in ProcessorType /\ r.applied = p.applied \o front /\ r.buffer = back
      /\ p.timeout => r.timeout
  BY <1>2, <1>4, <1>5 DEF ProcessorType
<1>7. (p.applied \o front) \o back = p.applied \o (front \o back)
  <2> DEFINE a == p.applied
  <2>1. a \in Seq(Byte)
    BY <1>1
  <2> HIDE DEF a
  <2>2. (a \o front) \o back = a \o (front \o back)
    BY ONLY <1>2, <2>1, ConcatAssociative
  <2> QED BY <2>2 DEF a
<1> QED
  BY <1>3, <1>6, <1>7 DEF front, back

-----------------------------------------------------------------------------
(* The three ways a piece of output is handled. *)

(* Everything reaches the parser. *)
Released(p, bytes, r) ==
    /\ r.applied = (p.applied \o p.buffer) \o bytes
    /\ r.buffer = <<>>

(* Everything is held back. *)
Held(p, bytes, r) ==
    /\ r.applied = p.applied
    /\ r.buffer = p.buffer \o bytes
    /\ r.timeout

(* A frame is completed and the next one begins, in the new bytes. *)
Cut(p, bytes, r) ==
    /\ r.applied \o r.buffer = p.applied \o (p.buffer \o bytes)
    /\ Len(r.applied) > Len(p.applied) + Len(p.buffer)
    /\ Len(r.buffer) <= Len(p.buffer) + Len(bytes)
    /\ r.timeout
    /\ EscapeAt(r.buffer, 0, BSU_CSI)

(* The search finds the last ESU and the first BSU behind it, and the ESU  *)
(* ends in the new bytes.                                                  *)
LEMMA SearchStep ==
    ASSUME NEW p \in ProcessorType, NEW bytes \in Seq(Byte), p.timeout, bytes # <<>>
    PROVE  LET q == [p EXCEPT !.buffer = p.buffer \o bytes]
               r == advance_sync_csi(q, Len(bytes))
           IN  /\ r \in ProcessorType
               /\ Released(p, bytes, r) \/ Held(p, bytes, r) \/ Cut(p, bytes, r)
<1> DEFINE all == p.buffer \o bytes
           q == [p EXCEPT !.buffer = all]
           k == Len(bytes)
           n == SYNC_ESCAPE_LEN
           r == advance_sync_csi(q, k)
           first == start_offset(q, k)
           last == end_offset(q) - 1
           esus == {o \in first .. last : EscapeAt(q.buffer, o, ESU_CSI)}
           bsus == {o \in first .. last : EscapeAt(q.buffer, o, BSU_CSI)}
           later == {o \in bsus : \A e \in esus : e < o}
<1>1. p.buffer \in Seq(Byte) /\ p.applied \in Seq(Byte) /\ k \in Nat /\ k >= 1
  <2>1. Len(bytes) # 0
    BY EmptySeq
  <2> QED BY <2>1 DEF ProcessorType
<1>2. /\ all \in Seq(Byte) /\ Len(all) = Len(p.buffer) + k
  BY <1>1
<1> HIDE DEF all
<1>3. /\ q \in ProcessorType /\ q.buffer = all /\ q.applied = p.applied
      /\ q.timeout = p.timeout
  BY <1>2 DEF ProcessorType
<1> HIDE DEF q
<1>4. n \in Nat /\ n > 1
  BY EscapesAssumption DEF SYNC_ESCAPE_LEN
<1>5. /\ first \in Nat /\ last \in Int
      /\ first >= Len(p.buffer) - (n - 1)
      /\ \A o \in first .. last : o \in Nat /\ o + n <= Len(all)
  BY <1>1, <1>2, <1>3, <1>4 DEF start_offset, end_offset, SaturatingSub
<1>6. r = IF esus = {} THEN [q EXCEPT !.timeout = q.timeout \/ bsus # {}]
          ELSE IF later = {} THEN stop_sync(q) ELSE stop_sync_at(q, Min(later))
  BY DEF advance_sync_csi
<1> HIDE DEF r, first, last
<1>7. CASE esus = {}
  <2>1. r = [q EXCEPT !.timeout = q.timeout \/ bsus # {}]
    BY <1>6, <1>7
  <2>2. (q.timeout \/ bsus # {}) = TRUE
    BY <1>3
  <2>3. r \in ProcessorType /\ r.applied = q.applied /\ r.buffer = q.buffer /\ r.timeout
    BY <1>3, <2>1, <2>2 DEF ProcessorType
  <2> QED BY <1>3, <2>3 DEF Held, r, q, k, all
<1>8. CASE esus # {} /\ later = {}
  <2>1. r = stop_sync(q)
    BY <1>6, <1>8
  <2>2. r \in ProcessorType /\ r.applied = q.applied \o q.buffer /\ r.buffer = <<>>
    BY <1>3, <2>1, StopStep
  <2>3. p.applied \o (p.buffer \o bytes) = (p.applied \o p.buffer) \o bytes
    <3> DEFINE a == p.applied
               b == p.buffer
    <3>1. a \in Seq(Byte) /\ b \in Seq(Byte) /\ bytes \in Seq(Byte)
      BY <1>1
    <3> HIDE DEF a, b
    <3>2. (a \o b) \o bytes = a \o (b \o bytes)
      BY ONLY <3>1, ConcatAssociative
    <3> QED BY <3>2 DEF a, b
  <2>4. Released(p, bytes, r)
    BY <1>3, <2>2, <2>3 DEF Released, all
  <2> QED BY <2>2, <2>4 DEF r, q, k, all
<1>9. CASE esus # {} /\ later # {}
  <2> DEFINE o == Min(later)
  <2>1. r = stop_sync_at(q, o)
    BY <1>6, <1>9
  <2>2. later \subseteq Nat
    BY <1>5
  <2>3. o \in later
    BY <1>9, <2>2, MinIsLeast
  <2> HIDE DEF o
  <2>4. PICK e \in esus : TRUE
    BY <1>9
  <2>5. /\ e \in Nat /\ e + n <= Len(all) /\ EscapeAt(all, e, ESU_CSI) /\ e >= first
        /\ o \in Nat /\ o + n <= Len(all) /\ EscapeAt(all, o, BSU_CSI) /\ e < o
    BY <1>3, <1>5, <2>3, <2>4
  <2>6. e + n <= o
    BY <1>2, <2>5, EscapesApart
  <2>7. o > Len(p.buffer) /\ o <= Len(all)
    BY <1>1, <1>2, <1>4, <1>5, <2>5, <2>6
  <2>8. /\ r \in ProcessorType
        /\ r.applied \o r.buffer = p.applied \o all
        /\ r.applied = p.applied \o SubSeq(all, 1, o)
        /\ r.buffer = SubSeq(all, o + 1, Len(all))
        /\ r.timeout
    BY <1>3, <2>1, <2>5, <2>7, StopAtStep
  <2>9. Len(r.applied) = Len(p.applied) + o
    <3>1. SubSeq(all, 1, o) \in Seq(Byte) /\ Len(SubSeq(all, 1, o)) = o
      BY <1>2, <2>5, <2>7
    <3> QED BY <1>1, <2>8, <3>1
  <2>10. Len(r.buffer) = Len(all) - o
    <3>1. Len(all) \in Nat /\ o \in Nat /\ o <= Len(all)
      BY <1>2, <2>5, <2>7
    <3>2. Len(SubSeq(all, o + 1, Len(all))) = Len(all) - o
      BY <1>2, <3>1
    <3> QED BY <2>8, <3>2
  <2>11. EscapeAt(r.buffer, 0, BSU_CSI)
    <3>1. SubSeq(SubSeq(all, o + 1, Len(all)), 1, n) = SubSeq(all, o + 1, o + n)
      BY <1>2, <1>4, <2>5, <2>7
    <3>2. SubSeq(all, o + 1, o + n) = BSU_CSI
      BY <2>5 DEF EscapeAt
    <3>3. 0 + 1 = 1 /\ 0 + n = n
      BY <1>4
    <3> QED BY <2>8, <3>1, <3>2, <3>3 DEF EscapeAt
  <2>12. Cut(p, bytes, r)
    <3>1. Len(p.applied) \in Nat /\ Len(p.buffer) \in Nat /\ o \in Nat
      BY <1>1, <2>5
    <3>2. Len(r.applied) > Len(p.applied) + Len(p.buffer)
      <4> DEFINE x == Len(p.applied)
                 y == Len(p.buffer)
      <4>1. x \in Nat /\ y \in Nat /\ o > y /\ Len(r.applied) = x + o
        BY <2>7, <2>9, <3>1
      <4> HIDE DEF x, y
      <4>2. x + o > x + y
        BY <3>1, <4>1
      <4> QED BY <4>1, <4>2 DEF x, y
    <3>3. Len(r.buffer) <= Len(p.buffer) + Len(bytes)
      BY <1>1, <1>2, <2>10, <3>1
    <3>4. r.applied \o r.buffer = p.applied \o (p.buffer \o bytes)
      BY <2>8 DEF all
    <3> QED BY <2>8, <2>11, <3>2, <3>3, <3>4 DEF Cut
  <2> QED BY <2>8, <2>12 DEF r, q, k, all
<1> QED
  BY <1>7, <1>8, <1>9

(* advance: nothing is lost, and the output is released, held or cut. *)
LEMMA AdvanceStep ==
    ASSUME NEW p \in ProcessorType, Bounded(p), NEW bytes \in Seq(Byte), bytes # <<>>
    PROVE  LET r == advance(p, bytes)
           IN  /\ r \in ProcessorType
               /\ r.applied \o r.buffer = (p.applied \o p.buffer) \o bytes
               /\ Bounded(r)
               /\ \/ Released(p, bytes, r)
                  \/ p.timeout /\ Held(p, bytes, r)
                  \/ p.timeout /\ Cut(p, bytes, r)
<1> DEFINE r == advance(p, bytes)
           a == p.applied
           b == p.buffer
<1>1. /\ a \in Seq(Byte) /\ b \in Seq(Byte) /\ bytes \in Seq(Byte)
      /\ a \o b \in Seq(Byte) /\ (a \o b) \o bytes \in Seq(Byte)
  BY DEF ProcessorType
<1>2. (a \o b) \o bytes = a \o (b \o bytes)
  <2> HIDE DEF a, b
  <2> QED BY ONLY <1>1, ConcatAssociative
<1>3. SYNC_BUFFER_SIZE \in Nat /\ SYNC_BUFFER_SIZE > 0
  BY SyncBufferAssumption
<1>4. ASSUME NEW s, s \in ProcessorType, Released(p, bytes, s)
      PROVE  s.applied \o s.buffer = (a \o b) \o bytes /\ Bounded(s)
  <2> DEFINE t == (a \o b) \o bytes
  <2>1. t \in Seq(Byte)
    BY <1>1
  <2> HIDE DEF t
  <2>2. t \o <<>> = t
    BY ONLY <2>1, ConcatEmptySeq
  <2>3. s.applied = t /\ s.buffer = <<>>
    BY <1>4 DEF Released, t
  <2>4. Len(<<>>) = 0
    OBVIOUS
  <2> QED BY <1>3, <2>2, <2>3, <2>4 DEF Bounded, t
<1>5. CASE ~p.timeout
  <2>1. r = parse(p, bytes)
    BY <1>5 DEF advance
  <2>2. b = <<>>
    BY <1>5 DEF Bounded
  <2>3. a \o b = a
    <3> HIDE DEF a, b
    <3>1. a \o <<>> = a
      BY ONLY <1>1, ConcatEmptySeq
    <3> QED BY <2>2, <3>1
  <2>4. r \in ProcessorType /\ r.applied = a \o bytes /\ r.buffer = <<>>
    BY <2>1, <2>2, ParseStep
  <2>5. Released(p, bytes, r)
    BY <2>3, <2>4 DEF Released
  <2> QED BY <1>4, <2>4, <2>5
<1>6. CASE p.timeout /\ Len(b) + Len(bytes) >= SYNC_BUFFER_SIZE - 1
  <2> DEFINE s == stop_sync(p)
  <2>1. r = parse(s, bytes)
    BY <1>6 DEF advance, advance_sync
  <2>2. s \in ProcessorType /\ s.applied = a \o b /\ s.buffer = <<>>
    BY StopStep
  <2> HIDE DEF s
  <2>3. r \in ProcessorType /\ r.applied = (a \o b) \o bytes /\ r.buffer = <<>>
    BY <2>1, <2>2, ParseStep
  <2>4. Released(p, bytes, r)
    BY <2>3 DEF Released
  <2> QED BY <1>4, <2>3, <2>4
<1>7. CASE p.timeout /\ Len(b) + Len(bytes) < SYNC_BUFFER_SIZE - 1
  <2>0. ~(Len(b) + Len(bytes) >= SYNC_BUFFER_SIZE - 1)
    BY <1>1, <1>3, <1>7
  <2>1. r = advance_sync_csi([p EXCEPT !.buffer = p.buffer \o bytes], Len(bytes))
    BY <1>7, <2>0 DEF advance, advance_sync
  <2> HIDE DEF r
  <2>2. /\ r \in ProcessorType
        /\ Released(p, bytes, r) \/ Held(p, bytes, r) \/ Cut(p, bytes, r)
    BY <1>7, <2>1, SearchStep
  <2>3. Len(b \o bytes) = Len(b) + Len(bytes) /\ Len(b) \in Nat /\ Len(bytes) \in Nat
    BY <1>1
  <2>4. CASE Released(p, bytes, r)
    BY <1>4, <2>2, <2>4 DEF r
  <2>5. CASE Held(p, bytes, r)
    <3>1. r.applied \o r.buffer = (a \o b) \o bytes
      BY <1>2, <2>5 DEF Held
    <3>2. Bounded(r)
      BY <1>3, <1>7, <2>3, <2>5 DEF Held, Bounded
    <3> QED BY <1>7, <2>2, <2>5, <3>1, <3>2 DEF r
  <2>6. CASE Cut(p, bytes, r)
    <3>1. r.applied \o r.buffer = (a \o b) \o bytes
      BY <1>2, <2>6 DEF Cut
    <3>2. Len(r.buffer) \in Nat
      BY <2>2 DEF ProcessorType
    <3>3. Bounded(r)
      BY <1>3, <1>7, <2>3, <2>6, <3>2 DEF Cut, Bounded
    <3> QED BY <1>7, <2>2, <2>6, <3>1, <3>3 DEF r
  <2> QED BY <2>2, <2>4, <2>5, <2>6
<1>8. \/ Len(b) + Len(bytes) >= SYNC_BUFFER_SIZE - 1
      \/ Len(b) + Len(bytes) < SYNC_BUFFER_SIZE - 1
  BY <1>1, <1>3
<1> QED
  BY <1>5, <1>6, <1>7, <1>8

-----------------------------------------------------------------------------
(* The specification. *)

(* The inductive invariant.  The counters of the current pty_read need     *)
(* more than NotifiedIffApplied says: between two calls nothing is new.    *)
IInv ==
    /\ TypeOK
    /\ NothingLost
    /\ HeldBytesBounded
    /\ NotifiedIffApplied
    /\ shown <= Len(processor.applied)
    /\ processed = 0 => shown = Len(processor.applied)

(* The invariant in the terms of the lemmas. *)
LEMMA IInvFacts ==
    ASSUME IInv
    PROVE  /\ processor \in ProcessorType /\ Bounded(processor)
           /\ output \in Seq(Byte) /\ Len(output) \in Nat
           /\ position \in Nat /\ position <= Len(output)
           /\ processed \in Nat /\ processed <= position
           /\ shown \in Nat /\ shown <= Len(processor.applied)
           /\ processed = 0 => shown = Len(processor.applied)
           /\ Len(processor.applied) \in Nat /\ Len(processor.buffer) \in Nat
           /\ processor.applied \o processor.buffer = SubSeq(output, 1, position)
           /\ Len(processor.applied) + Len(processor.buffer) = position
           /\ (Len(processor.buffer) < processed /\ processed > 0)
                <=> Len(processor.applied) > shown
<1>1. /\ processor \in ProcessorType /\ Bounded(processor)
      /\ output \in Seq(Byte) /\ Len(output) \in Nat
      /\ position \in Nat /\ position <= Len(output)
      /\ processed \in Nat /\ processed <= position
      /\ shown \in Nat /\ shown <= Len(processor.applied)
      /\ processed = 0 => shown = Len(processor.applied)
      /\ processor.applied \o processor.buffer = SubSeq(output, 1, position)
      /\ (Len(processor.buffer) < processed /\ processed > 0)
           <=> Len(processor.applied) > shown
  BY DEF IInv, TypeOK, NothingLost, HeldBytesBounded, NotifiedIffApplied, notifies,
         sync_bytes_count, ProcessorType, Bounded
<1>2. processor.applied \in Seq(Byte) /\ processor.buffer \in Seq(Byte)
  BY <1>1 DEF ProcessorType
<1>3. Len(processor.applied) + Len(processor.buffer) = position
  <2>1. Len(SubSeq(output, 1, position)) = position
    BY <1>1
  <2>2. Len(processor.applied \o processor.buffer)
          = Len(processor.applied) + Len(processor.buffer)
    BY <1>2
  <2> QED BY <1>1, <2>1, <2>2
<1>4. Len(processor.applied) \in Nat /\ Len(processor.buffer) \in Nat
  BY <1>2
<1> QED
  BY ONLY <1>1, <1>3, <1>4

(* The processor starts empty. *)
LEMMA InitCorrect == Init => IInv
<1> SUFFICES ASSUME Init PROVE IInv
  OBVIOUS
<1>1. /\ output \in Seq(Byte) /\ Len(output) \in Nat
      /\ position = 0 /\ processed = 0 /\ shown = 0
  BY SyncSpecAssumption DEF Init
<1>2. <<>> \in Seq(Byte) /\ Len(<<>>) = 0
  OBVIOUS
<1>3. /\ processor \in ProcessorType /\ processor.applied = <<>>
      /\ processor.buffer = <<>>
  BY <1>2 DEF Init, new_processor, ProcessorType
<1>4. TypeOK
  BY <1>1, <1>3 DEF TypeOK, ProcessorType
<1>5. NothingLost
  <2>1. SubSeq(output, 1, 0) = <<>>
    BY SubSeqEmpty
  <2>2. <<>> \o <<>> = <<>>
    BY <1>2, ConcatEmptySeq
  <2> QED BY <1>1, <1>3, <2>1, <2>2 DEF NothingLost
<1>6. HeldBytesBounded
  BY <1>2, <1>3, SyncBufferAssumption DEF HeldBytesBounded
<1>7. NotifiedIffApplied
  BY <1>1, <1>2, <1>3 DEF NotifiedIffApplied, notifies, sync_bytes_count
<1> QED
  BY <1>1, <1>2, <1>3, <1>4, <1>5, <1>6, <1>7 DEF IInv

(* What a read hands to the processor. *)
Piece(n) == SubSeq(output, position + 1, position + n)

(* A piece is not empty and continues what was read before. *)
LEMMA PieceFacts ==
    ASSUME IInv, NEW n \in 1 .. MaxRead, position + n <= Len(output)
    PROVE  /\ n \in Nat /\ n >= 1
           /\ Piece(n) \in Seq(Byte) /\ Len(Piece(n)) = n /\ Piece(n) # <<>>
           /\ SubSeq(output, 1, position) \o Piece(n) = SubSeq(output, 1, position + n)
<1>1. n \in Nat /\ n >= 1
  BY SyncSpecAssumption
<1>2. /\ output \in Seq(Byte) /\ Len(output) \in Nat /\ position \in Nat
      /\ position <= Len(output)
  BY IInvFacts
<1>3. Piece(n) \in Seq(Byte) /\ Len(Piece(n)) = n
  BY <1>1, <1>2 DEF Piece
<1>4. Piece(n) # <<>>
  BY <1>1, <1>3
<1>5. SubSeq(output, 1, position) \o Piece(n) = SubSeq(output, 1, position + n)
  <2> DEFINE m == position + n
  <2>1. /\ 1 \in 1 .. Len(output) + 1 /\ position \in 1 - 1 .. Len(output)
        /\ m \in position .. Len(output)
    BY <1>1, <1>2
  <2> HIDE DEF m
  <2>2. SubSeq(output, 1, position) \o SubSeq(output, position + 1, m) = SubSeq(output, 1, m)
    BY ONLY <1>2, <2>1, ConcatAdjacentSubSeq
  <2> QED BY <2>2 DEF m, Piece
<1> QED
  BY <1>1, <1>3, <1>4, <1>5

(* A read keeps the invariant. *)
LEMMA ReadCorrect ==
    ASSUME IInv, NEW n \in 1 .. MaxRead, Read(n)
    PROVE  /\ IInv'
           /\ processor.timeout /\ processor'.applied # processor.applied
                => processor'.buffer = <<>> \/ EscapeAt(processor'.buffer, 0, BSU_CSI)
<1> DEFINE p == processor
           r == processor'
           bytes == Piece(n)
<1>1. /\ position + n <= Len(output) /\ r = advance(p, bytes)
      /\ position' = position + n /\ processed' = processed + n
      /\ output' = output /\ shown' = shown
  BY DEF Read, Piece
<1>2. /\ n \in Nat /\ n >= 1 /\ bytes \in Seq(Byte) /\ Len(bytes) = n /\ bytes # <<>>
      /\ SubSeq(output, 1, position) \o bytes = SubSeq(output, 1, position + n)
  BY <1>1, PieceFacts
<1>3. /\ p \in ProcessorType /\ Bounded(p)
      /\ p.applied \o p.buffer = SubSeq(output, 1, position)
  BY IInvFacts
<1> HIDE DEF p, r, bytes
<1>4. /\ r \in ProcessorType
      /\ r.applied \o r.buffer = (p.applied \o p.buffer) \o bytes
      /\ Bounded(r)
      /\ \/ Released(p, bytes, r)
         \/ p.timeout /\ Held(p, bytes, r)
         \/ p.timeout /\ Cut(p, bytes, r)
  BY <1>1, <1>2, <1>3, AdvanceStep
<1>5. r.applied \o r.buffer = SubSeq(output', 1, position')
  BY <1>1, <1>2, <1>3, <1>4
<1>6. /\ r.applied \in Seq(Byte) /\ r.buffer \in Seq(Byte)
      /\ Len(r.applied) \in Nat /\ Len(r.buffer) \in Nat
      /\ p.applied \in Seq(Byte) /\ p.buffer \in Seq(Byte)
      /\ Len(p.applied) \in Nat /\ Len(p.buffer) \in Nat
  BY <1>3, <1>4 DEF ProcessorType
<1>7. /\ output \in Seq(Byte) /\ Len(output) \in Nat /\ position \in Nat
      /\ processed \in Nat /\ processed <= position
      /\ shown \in Nat /\ shown <= Len(p.applied)
      /\ processed = 0 => shown = Len(p.applied)
      /\ Len(p.applied) + Len(p.buffer) = position
      /\ (Len(p.buffer) < processed /\ processed > 0) <=> Len(p.applied) > shown
  BY IInvFacts DEF p
<1>8. Len(r.applied) + Len(r.buffer) = position + n
  <2>1. Len(r.applied \o r.buffer) = Len(r.applied) + Len(r.buffer)
    BY <1>6
  <2>2. Len(SubSeq(output', 1, position')) = position + n
    BY <1>1, <1>2, <1>7
  <2> QED BY <1>5, <2>1, <2>2
<1>9. /\ shown <= Len(r.applied)
      /\ (Len(r.buffer) < processed + n) <=> Len(r.applied) > shown
  <2> DEFINE ra == Len(r.applied)
             rb == Len(r.buffer)
             pa == Len(p.applied)
             pb == Len(p.buffer)
  <2>1. CASE Released(p, bytes, r)
    <3>0. r.buffer = <<>> /\ Len(<<>>) = 0
      BY <2>1 DEF Released
    <3>1. rb = 0
      BY <3>0
    <3> HIDE DEF ra, rb, pa, pb
    <3>2. /\ ra \in Nat /\ pa \in Nat /\ pb \in Nat /\ processed \in Nat
          /\ shown \in Nat /\ n \in Nat /\ n >= 1 /\ shown <= pa
          /\ ra + rb = pa + pb + n
      BY <1>2, <1>6, <1>7, <1>8 DEF pa, pb, ra, rb
    <3>3. shown <= ra /\ ((rb < processed + n) <=> ra > shown)
      BY ONLY <3>1, <3>2
    <3> QED BY <3>3 DEF ra, rb
  <2>2. CASE Held(p, bytes, r)
    <3>0. Len(p.buffer \o bytes) = Len(p.buffer) + Len(bytes)
      <4> DEFINE b == p.buffer
      <4>1. b \in Seq(Byte) /\ bytes \in Seq(Byte)
        BY <1>2, <1>6
      <4> HIDE DEF b
      <4>2. Len(b \o bytes) = Len(b) + Len(bytes)
        BY ONLY <4>1, ConcatProperties
      <4> QED BY <4>2 DEF b
    <3>1. rb = pb + n /\ ra = pa
      BY <1>2, <2>2, <3>0 DEF Held
    <3> HIDE DEF ra, rb, pa, pb
    <3>2. /\ pa \in Nat /\ pb \in Nat /\ processed \in Nat /\ shown \in Nat /\ n \in Nat
          /\ shown <= pa /\ (processed = 0 => shown = pa)
          /\ (pb < processed /\ processed > 0) <=> pa > shown
      BY <1>2, <1>6, <1>7 DEF pa, pb
    <3>3. shown <= ra /\ ((rb < processed + n) <=> ra > shown)
      BY ONLY <3>1, <3>2
    <3> QED BY <3>3 DEF ra, rb
  <2>3. CASE Cut(p, bytes, r)
    <3>1. ra > pa + pb
      BY <2>3 DEF Cut
    <3> HIDE DEF ra, rb, pa, pb
    <3>2. /\ ra \in Nat /\ rb \in Nat /\ pa \in Nat /\ pb \in Nat /\ processed \in Nat
          /\ shown \in Nat /\ n \in Nat /\ shown <= pa /\ ra + rb = pa + pb + n
      BY <1>2, <1>6, <1>7, <1>8 DEF pa, pb, ra, rb
    <3>3. ra > shown /\ rb < n /\ rb < processed + n
      BY ONLY <3>1, <3>2
    <3>4. shown <= ra /\ ((rb < processed + n) <=> ra > shown)
      BY ONLY <3>2, <3>3
    <3> QED BY <3>4 DEF ra, rb
  <2> QED BY <1>4, <2>1, <2>2, <2>3
<1>10. TypeOK'
  BY <1>1, <1>2, <1>4, <1>6, <1>7, <1>8, <1>9 DEF TypeOK, ProcessorType, r
<1>11. NothingLost'
  BY <1>5 DEF NothingLost, r
<1>12. HeldBytesBounded'
  BY <1>4 DEF HeldBytesBounded, Bounded, r
<1>13. NotifiedIffApplied'
  <2>1. processed' > 0 /\ shown' = shown /\ processed' = processed + n
    BY <1>1, <1>2, <1>7
  <2>2. (Len(r.buffer) < processed' /\ processed' > 0) <=> Len(r.applied) > shown'
    BY <1>9, <2>1
  <2> QED BY <2>2 DEF NotifiedIffApplied, notifies, sync_bytes_count, r
<1>14. shown' <= Len(r.applied) /\ processed' # 0
  BY <1>1, <1>2, <1>7, <1>9
<1>15. IInv'
  BY <1>10, <1>11, <1>12, <1>13, <1>14 DEF IInv, r
<1>16. p.timeout /\ r.applied # p.applied
          => r.buffer = <<>> \/ EscapeAt(r.buffer, 0, BSU_CSI)
  BY <1>4 DEF Released, Held, Cut
<1> QED
  BY <1>15, <1>16 DEF p, r

(* The end of a pty_read keeps the invariant. *)
LEMMA EndReadCorrect ==
    ASSUME IInv, EndRead
    PROVE  IInv' /\ processor' = processor
<1>1. /\ processor' = processor /\ output' = output /\ position' = position
      /\ processed' = 0 /\ shown' = Len(processor.applied)
  BY DEF EndRead
<1>2. TypeOK'
  BY <1>1, IInvFacts DEF TypeOK, ProcessorType
<1>3. NothingLost' /\ HeldBytesBounded'
  BY <1>1 DEF IInv, NothingLost, HeldBytesBounded
<1>4. NotifiedIffApplied'
  BY <1>1, IInvFacts DEF NotifiedIffApplied, notifies, sync_bytes_count
<1> QED
  BY <1>1, <1>2, <1>3, <1>4, IInvFacts DEF IInv

(* The timeout of an update keeps the invariant. *)
LEMMA StopSyncCorrect ==
    ASSUME IInv, StopSync
    PROVE  IInv' /\ processor'.buffer = <<>>
<1> DEFINE r == processor'
<1>1. /\ r = stop_sync(processor) /\ output' = output /\ position' = position
      /\ processed' = 0 /\ shown' = Len(r.applied)
  BY DEF StopSync
<1>2. /\ r \in ProcessorType /\ r.applied = processor.applied \o processor.buffer
      /\ r.buffer = <<>>
  BY <1>1, IInvFacts, StopStep
<1> HIDE DEF r
<1>3. /\ processor.applied \in Seq(Byte) /\ processor.buffer \in Seq(Byte)
      /\ r.applied \in Seq(Byte)
  BY <1>2, IInvFacts DEF ProcessorType
<1>4. r.applied = SubSeq(output, 1, position)
  BY <1>2, IInvFacts
<1>5. Len(r.applied) = position
  BY <1>4, IInvFacts
<1>6. TypeOK'
  BY <1>1, <1>2, <1>5, IInvFacts DEF TypeOK, ProcessorType, r
<1>7. NothingLost'
  <2> DEFINE a == r.applied
  <2>1. a \in Seq(Byte)
    BY <1>3
  <2> HIDE DEF a
  <2>2. a \o <<>> = a
    BY ONLY <2>1, ConcatEmptySeq
  <2> QED BY <1>1, <1>2, <1>4, <2>2 DEF NothingLost, r, a
<1>8. HeldBytesBounded'
  <2>1. Len(<<>>) = 0
    OBVIOUS
  <2> QED BY <1>2, <2>1, SyncBufferAssumption DEF HeldBytesBounded, r
<1>9. NotifiedIffApplied'
  BY <1>1, <1>5, IInvFacts DEF NotifiedIffApplied, notifies, sync_bytes_count, r
<1>10. shown' = Len(r.applied) /\ shown' <= Len(r.applied)
  BY <1>1, <1>5, IInvFacts
<1> QED
  BY <1>2, <1>6, <1>7, <1>8, <1>9, <1>10 DEF IInv, r

(* What FramesNotTorn says of a step. *)
WholeFrames ==
    processor.timeout /\ processor'.applied # processor.applied
        => processor'.buffer = <<>> \/ EscapeAt(processor'.buffer, 0, BSU_CSI)

(* Every step keeps the invariant and tears no frame. *)
LEMMA NextCorrect == IInv /\ [Next]_vars => IInv' /\ WholeFrames
<1> SUFFICES ASSUME IInv, [Next]_vars PROVE IInv' /\ WholeFrames
  OBVIOUS
<1>1. CASE \E n \in 1 .. MaxRead : Read(n)
  BY <1>1, ReadCorrect DEF WholeFrames
<1>2. CASE EndRead
  BY <1>2, EndReadCorrect DEF WholeFrames
<1>3. CASE StopSync
  BY <1>3, StopSyncCorrect DEF WholeFrames
<1>4. CASE UNCHANGED vars
  BY <1>4 DEF vars, WholeFrames, IInv, TypeOK, NothingLost, HeldBytesBounded,
              NotifiedIffApplied
<1> QED
  BY <1>1, <1>2, <1>3, <1>4 DEF Next

(* The inductive invariant holds of every behaviour. *)
LEMMA InvariantHolds == Spec => []IInv
<1>1. IInv /\ [Next]_vars => IInv'
  BY NextCorrect
<1> QED
  BY InitCorrect, <1>1, PTL DEF Spec

(* Every variable of the processor and of pty_read keeps its type. *)
THEOREM TypeCorrect == Spec => []TypeOK
<1>1. IInv => TypeOK
  BY DEF IInv
<1> QED
  BY <1>1, InvariantHolds, PTL

(* Holding output back loses, duplicates and reorders nothing. *)
THEOREM NothingLostCorrect == Spec => []NothingLost
<1>1. IInv => NothingLost
  BY DEF IInv
<1> QED
  BY <1>1, InvariantHolds, PTL

(* Output is held back only under a timeout, and within the limit. *)
THEOREM BoundedCorrect == Spec => []HeldBytesBounded
<1>1. IInv => HeldBytesBounded
  BY DEF IInv
<1> QED
  BY <1>1, InvariantHolds, PTL

(* pty_read tells the renderer exactly when the parser got something. *)
THEOREM NotificationCorrect == Spec => []NotifiedIffApplied
<1>1. IInv => NotifiedIffApplied
  BY DEF IInv
<1> QED
  BY <1>1, InvariantHolds, PTL

(* An open update gives the parser whole frames only. *)
THEOREM FramesCorrect == Spec => FramesNotTorn
<1>1. IInv /\ [Next]_vars => [WholeFrames]_vars
  BY NextCorrect
<1>2. Spec => [][WholeFrames]_vars
  BY <1>1, InvariantHolds, PTL DEF Spec
<1> QED
  BY <1>2 DEF FramesNotTorn, WholeFrames

-----------------------------------------------------------------------------
(* No ESU stays behind in the buffer. *)

(* No end of update can be found in b. *)
NoEsu(b) == \A o \in 0 .. Len(b) - SYNC_ESCAPE_LEN : ~EscapeAt(b, o, ESU_CSI)

(* Bytes that read like an escape are one. *)
LEMMA EscapeFromBytes ==
    ASSUME NEW b \in Seq(Byte), NEW esc \in Seq(Byte), Len(esc) = SYNC_ESCAPE_LEN,
           NEW o \in Nat, o + SYNC_ESCAPE_LEN <= Len(b),
           \A i \in 1 .. SYNC_ESCAPE_LEN : b[o + i] = esc[i]
    PROVE  EscapeAt(b, o, esc)
<1> DEFINE n == SYNC_ESCAPE_LEN
           s == SubSeq(b, o + 1, o + n)
<1>1. n \in Nat
  BY EscapesAssumption DEF SYNC_ESCAPE_LEN
<1>2. n = Len(esc) /\ o + n <= Len(b) /\ \A i \in 1 .. n : b[o + i] = esc[i]
  OBVIOUS
<1> HIDE DEF n
<1>3. s \in Seq(Byte) /\ Len(s) = n /\ \A i \in 1 .. n : s[i] = b[o + i]
  BY <1>1, <1>2
<1> HIDE DEF s
<1>4. \A i \in 1 .. n : s[i] = esc[i]
  BY <1>2, <1>3
<1>5. s = esc
  BY <1>2, <1>3, <1>4
<1> QED
  BY <1>5 DEF EscapeAt, s, n

(* An escape is found again where the same bytes are. *)
LEMMA EscapeMoves ==
    ASSUME NEW b \in Seq(Byte), NEW c \in Seq(Byte), NEW o \in Nat, NEW d \in Nat,
           o + SYNC_ESCAPE_LEN <= Len(b), d + SYNC_ESCAPE_LEN <= Len(c),
           \A i \in 1 .. SYNC_ESCAPE_LEN : b[o + i] = c[d + i],
           EscapeAt(b, o, ESU_CSI)
    PROVE  EscapeAt(c, d, ESU_CSI)
<1>1. ESU_CSI \in Seq(Byte) /\ Len(ESU_CSI) = SYNC_ESCAPE_LEN
  BY EscapesAssumption DEF SYNC_ESCAPE_LEN
<1>2. \A i \in 1 .. SYNC_ESCAPE_LEN : b[o + i] = ESU_CSI[i]
  BY <1>1, EscapeBytes
<1>3. \A i \in 1 .. SYNC_ESCAPE_LEN : c[d + i] = ESU_CSI[i]
  BY <1>2
<1> QED
  BY <1>1, <1>3, EscapeFromBytes

(* An empty buffer holds no escape. *)
LEMMA EmptyHasNone == NoEsu(<<>>)
<1>1. SYNC_ESCAPE_LEN \in Nat /\ SYNC_ESCAPE_LEN > 1 /\ Len(<<>>) = 0
  BY EscapesAssumption DEF SYNC_ESCAPE_LEN
<1> QED
  BY <1>1 DEF NoEsu

(* The search looks at every place where the new bytes can complete an     *)
(* ESU, and what it holds back begins behind the last one.                 *)
LEMMA SearchLeavesNone ==
    ASSUME NEW p \in ProcessorType, NoEsu(p.buffer), NEW bytes \in Seq(Byte), bytes # <<>>,
           NEW r, r = advance_sync_csi([p EXCEPT !.buffer = p.buffer \o bytes], Len(bytes))
    PROVE  NoEsu(r.buffer)
<1> DEFINE old == p.buffer
           all == p.buffer \o bytes
           q == [p EXCEPT !.buffer = all]
           k == Len(bytes)
           n == SYNC_ESCAPE_LEN
           first == start_offset(q, k)
           last == end_offset(q) - 1
           esus == {o \in first .. last : EscapeAt(q.buffer, o, ESU_CSI)}
           bsus == {o \in first .. last : EscapeAt(q.buffer, o, BSU_CSI)}
           later == {o \in bsus : \A e \in esus : e < o}
<1>1. old \in Seq(Byte) /\ Len(old) \in Nat /\ k \in Nat /\ k >= 1
  <2>1. Len(bytes) # 0
    BY EmptySeq
  <2> QED
    BY <2>1 DEF ProcessorType
<1>2. /\ all \in Seq(Byte) /\ Len(all) = Len(old) + k
      /\ \A i \in 1 .. Len(old) : all[i] = old[i]
  <2>1. old \in Seq(Byte) /\ bytes \in Seq(Byte)
    BY <1>1
  <2> HIDE DEF old
  <2>2. (old \o bytes) \in Seq(Byte) /\ Len(old \o bytes) = Len(old) + k
    BY ONLY <2>1, ConcatProperties
  <2>3. \A i \in 1 .. Len(old) : (old \o bytes)[i] = old[i]
    BY <2>1
  <2> QED
    BY <2>2, <2>3 DEF old
<1>3. NoEsu(old)
  OBVIOUS
<1> HIDE DEF old, all
<1>4. q \in ProcessorType /\ q.buffer = all
  BY <1>2 DEF ProcessorType
<1>5. r = IF esus = {} THEN [q EXCEPT !.timeout = q.timeout \/ bsus # {}]
          ELSE IF later = {} THEN stop_sync(q) ELSE stop_sync_at(q, Min(later))
  BY DEF advance_sync_csi, all
<1> HIDE DEF q
<1>6. n \in Nat /\ n > 1 /\ Len(all) \in Nat
  BY <1>1, <1>2, EscapesAssumption DEF SYNC_ESCAPE_LEN
<1>7. /\ first \in Nat /\ last \in Int
      /\ \A o \in first .. last : o \in Nat /\ o + n <= Len(all)
      /\ \A o \in Nat : o + n <= Len(all) => o <= last
      /\ \A o \in Nat : o < first => o + n <= Len(old)
  <2> DEFINE m == Len(all)
             l == Len(old)
  <2>1. /\ m \in Nat /\ l \in Nat /\ k \in Nat /\ n \in Nat /\ n > 1 /\ m = l + k
    BY <1>1, <1>2, <1>6
  <2>2. first = IF m - k < n - 1 THEN 0 ELSE (m - k) - (n - 1)
    BY <1>4 DEF start_offset, SaturatingSub
  <2>3. last = (IF m < n - 1 THEN 0 ELSE m - (n - 1)) - 1
    BY <1>4 DEF end_offset, SaturatingSub
  <2> HIDE DEF m, l, k, n, first, last
  <2>4. /\ first \in Nat /\ last \in Int
        /\ \A o \in first .. last : o \in Nat /\ o + n <= m
        /\ \A o \in Nat : o + n <= m => o <= last
        /\ \A o \in Nat : o < first => o + n <= l
    BY ONLY <2>1, <2>2, <2>3
  <2> QED
    BY <2>4 DEF m, l
<1> HIDE DEF first, last, k, n
<1>8. ASSUME NEW o \in Nat, o + n <= Len(all), EscapeAt(all, o, ESU_CSI) PROVE o \in esus
  <2>1. o >= first
    <3> SUFFICES ASSUME o < first PROVE FALSE
      BY <1>7
    <3>1. o + n <= Len(old)
      BY <1>7
    <3>2. \A i \in 1 .. n : all[o + i] = old[o + i]
      BY <1>1, <1>2, <1>6, <3>1
    <3>3. EscapeAt(old, o, ESU_CSI)
      BY <1>1, <1>2, <1>8, <3>1, <3>2, EscapeMoves DEF n
    <3>4. o \in 0 .. Len(old) - n
      BY <1>1, <1>6, <3>1
    <3> QED
      BY <1>3, <3>3, <3>4 DEF NoEsu, n
  <2> QED
    BY <1>4, <1>7, <1>8, <2>1
<1>9. CASE esus = {}
  <2>1. r.buffer = all
    BY <1>4, <1>5, <1>9 DEF ProcessorType
  <2>2. ASSUME NEW o \in 0 .. Len(all) - n PROVE ~EscapeAt(all, o, ESU_CSI)
    <3>1. o \in Nat /\ o + n <= Len(all)
      BY <1>6
    <3> QED
      BY <1>8, <1>9, <3>1
  <2> QED
    BY <2>1, <2>2 DEF NoEsu, n
<1>10. CASE esus # {} /\ later = {}
  <2>1. r.buffer = <<>>
    BY <1>4, <1>5, <1>10, StopStep
  <2> QED
    BY <2>1, EmptyHasNone
<1>11. CASE esus # {} /\ later # {}
  <2> DEFINE b == Min(later)
             rest == SubSeq(all, b + 1, Len(all))
  <2>1. later \subseteq Nat
    BY <1>7
  <2>2. b \in later
    BY <1>11, <2>1, MinIsLeast
  <2>3. r = stop_sync_at(q, b)
    BY <1>5, <1>11
  <2> HIDE DEF b
  <2>4. b \in Nat /\ b <= Len(all) /\ \A e \in esus : e < b
    BY <1>6, <1>7, <2>2
  <2>5. r.buffer = rest
    <3> DEFINE h == parse(q, SubSeq(q.buffer, 1, b))
    <3>1. SubSeq(all, 1, b) \in Seq(Byte)
      BY <1>2, <1>6, <2>4
    <3>2. h \in ProcessorType
      BY <1>4, <3>1, ParseStep
    <3>3. r = [h EXCEPT !.buffer = SubSeq(q.buffer, b + 1, Len(q.buffer))]
      BY <2>3 DEF stop_sync_at
    <3> HIDE DEF h
    <3> QED
      BY <1>4, <3>2, <3>3 DEF ProcessorType
  <2>6. /\ rest \in Seq(Byte) /\ Len(rest) = Len(all) - b
        /\ \A i \in 1 .. Len(all) - b : rest[i] = all[b + i]
    <3>1. all \in Seq(Byte) /\ Len(all) \in Nat /\ b \in Nat /\ b <= Len(all)
      BY <1>2, <1>6, <2>4
    <3>2. rest = SubSeq(all, b + 1, Len(all))
      OBVIOUS
    <3> QED
      BY ONLY <3>1, <3>2, SMTT(30)
  <2> HIDE DEF rest
  <2>7. ASSUME NEW o \in 0 .. Len(rest) - n, EscapeAt(rest, o, ESU_CSI) PROVE FALSE
    <3>1. o \in Nat /\ o + n <= Len(rest) /\ b + o \in Nat /\ (b + o) + n <= Len(all)
      BY <1>6, <2>4, <2>6
    <3>2. ASSUME NEW i \in 1 .. n PROVE rest[o + i] = all[(b + o) + i]
      <4> DEFINE m == Len(all)
                 l == Len(rest)
      <4>1. m \in Nat /\ l = m - b /\ o + n <= l
        BY <1>6, <2>6, <3>1
      <4> HIDE DEF m, l
      <4>2. o + i \in 1 .. m - b /\ b + (o + i) = (b + o) + i
        <5>1. o \in Nat /\ b \in Nat /\ n \in Nat
          BY <1>6, <2>4, <3>1
        <5> QED
          BY ONLY i \in 1 .. n, <4>1, <5>1
      <4>3. o + i \in 1 .. Len(all) - b /\ b + (o + i) = (b + o) + i
        BY <4>2 DEF m
      <4> QED
        BY <2>6, <4>3
    <3>3. EscapeAt(all, b + o, ESU_CSI)
      BY <1>2, <2>6, <2>7, <3>1, <3>2, EscapeMoves DEF n
    <3>4. b + o \in esus
      BY <1>8, <3>1, <3>3
    <3>5. b + o < b
      BY <2>4, <3>4
    <3> QED
      BY <2>4, <3>1, <3>5
  <2> QED
    BY <2>5, <2>7 DEF NoEsu, n
<1> QED
  BY <1>9, <1>10, <1>11

(* The processor never holds back an ESU. *)
LEMMA AdvanceLeavesNone ==
    ASSUME NEW p \in ProcessorType, Bounded(p), NoEsu(p.buffer), NEW bytes \in Seq(Byte), bytes # <<>>
    PROVE  NoEsu(advance(p, bytes).buffer)
<1>1. CASE ~p.timeout
  <2>1. advance(p, bytes).buffer = <<>>
    BY <1>1, ParseStep DEF advance, Bounded
  <2> QED
    BY <2>1, EmptyHasNone
<1>2. CASE p.timeout /\ Len(p.buffer) + Len(bytes) >= SYNC_BUFFER_SIZE - 1
  <2> DEFINE s == stop_sync(p)
  <2>1. advance(p, bytes) = parse(s, bytes)
    BY <1>2 DEF advance, advance_sync
  <2>2. s \in ProcessorType /\ s.buffer = <<>>
    BY StopStep
  <2> HIDE DEF s
  <2>3. advance(p, bytes).buffer = <<>>
    BY <2>1, <2>2, ParseStep
  <2> QED
    BY <2>3, EmptyHasNone
<1>3. CASE p.timeout /\ ~(Len(p.buffer) + Len(bytes) >= SYNC_BUFFER_SIZE - 1)
  <2>1. advance(p, bytes) = advance_sync_csi([p EXCEPT !.buffer = p.buffer \o bytes], Len(bytes))
    BY <1>3 DEF advance, advance_sync
  <2> QED
    BY <2>1, SearchLeavesNone
<1> QED
  BY <1>1, <1>2, <1>3

(* An update whose ESU has been read is not held back, however the reads   *)
(* cut the escape: the search starts early enough to find it.              *)
THEOREM HeldFrameCorrect == Spec => []HeldFrameIsOpen
<1>1. Init => HeldFrameIsOpen
  BY EmptyHasNone DEF Init, new_processor, HeldFrameIsOpen, NoEsu
<1>2. IInv /\ HeldFrameIsOpen /\ [Next]_vars => HeldFrameIsOpen'
  <2> SUFFICES ASSUME IInv, NoEsu(processor.buffer), [Next]_vars PROVE NoEsu(processor'.buffer)
    BY DEF HeldFrameIsOpen, NoEsu
  <2>1. ASSUME NEW n \in 1 .. MaxRead, Read(n) PROVE NoEsu(processor'.buffer)
    <3>1. /\ position + n <= Len(output) /\ processor' = advance(processor, Piece(n))
      BY <2>1 DEF Read, Piece
    <3>2. Piece(n) \in Seq(Byte) /\ Piece(n) # <<>>
      BY <3>1, PieceFacts
    <3>3. processor \in ProcessorType /\ Bounded(processor)
      BY IInvFacts
    <3> QED
      BY <3>1, <3>2, <3>3, AdvanceLeavesNone
  <2>2. CASE StopSync
    BY <2>2, StopSyncCorrect, EmptyHasNone
  <2>3. CASE EndRead
    BY <2>3 DEF EndRead
  <2>4. CASE UNCHANGED vars
    BY <2>4 DEF vars
  <2> QED
    BY <2>1, <2>2, <2>3, <2>4 DEF Next
<1> QED
  BY <1>1, <1>2, InvariantHolds, PTL DEF Spec
=============================================================================
