------------------------------ MODULE GridProofs ------------------------------
(***************************************************************************)
(* For every screen height, history limit and cache size, and every        *)
(* sequence of writes, scrolls, erasures and resizes:                      *)
(*   - the counters of a terminal grid agree with those of its row         *)
(*     storage, the ring stays in bounds, the history within its limit and *)
(*     both cursors on the screen (GridStaysSound);                        *)
(*   - what a scrolled-back reader sees stays put while text is emitted    *)
(*     below (ViewStaysPut);                                               *)
(*   - the grid implements a plain screen with a bounded history           *)
(*     (GridImplementsText).                                               *)
(* The storage is read as a function from lines to texts (Content).  Every *)
(* loop of the code is a fold whose turns are followed one by one, and     *)
(* every move of the ring's origin is followed by positions on the ring    *)
(* (RowPos).                                                               *)
(***************************************************************************)
EXTENDS GridSpec, SequenceTheorems, FiniteSetTheorems, WellFoundedInduction, TLAPS

StoreType == [inner : Seq(RowType), zero : Nat, visible_lines : Nat, len : Nat]

(* A storage whose ring is in bounds and that holds a whole screen. *)
Sound(st) ==
    /\ st \in StoreType
    /\ 1 <= st.visible_lines
    /\ st.visible_lines <= st.len
    /\ st.len <= Len(st.inner)
    /\ st.zero < Len(st.inner)

(* The storages that differ from st in the content of their rows only. *)
Like(st) ==
    {t \in StoreType : /\ Len(t.inner) = Len(st.inner)
                       /\ t.zero = st.zero
                       /\ t.visible_lines = st.visible_lines
                       /\ t.len = st.len}

(* The lines of the screen. *)
OnScreen(st) == 0 .. st.visible_lines - 1

-----------------------------------------------------------------------------
(* Loops over lines. *)

(* A nonempty set of numbers has a least element. *)
LEMMA Least ==
    ASSUME NEW T \in SUBSET Nat, T # {}
    PROVE  \E x \in T : \A y \in T : x <= y
  <1> DEFINE R == OpToRel(<, Nat)
  <1>1. IsWellFoundedOn(R, Nat)
    BY NatLessThanWellFounded
  <1>2. \A x, y \in Nat : y < x => <<y, x>> \in R
    BY DEF OpToRel
  <1> HIDE DEF R
  <1>3. T \subseteq Nat
    OBVIOUS
  <1>4. \E x \in T : \A y \in T : ~(<<y, x>> \in R)
    BY ONLY T # {}, <1>1, <1>3, WFMin
  <1>5. PICK x \in T : \A y \in T : ~(<<y, x>> \in R)
    BY <1>4
  <1>6. ASSUME NEW y \in T PROVE x <= y
    <2>1. x \in Nat /\ y \in Nat /\ ~(<<y, x>> \in R)
      BY <1>5
    <2>2. ~(y < x)
      BY <2>1, <1>2
    <2> QED
      BY <2>1, <2>2
  <1> QED
    BY <1>6

(* A nonempty set of turns has a last one, the turn a fold takes first. *)
LEMMA LastTurn ==
    ASSUME NEW n \in Nat, NEW s \in SUBSET (1 .. n), s # {}
    PROVE  Max(s) \in s /\ \A y \in s : y <= Max(s)
  <1> DEFINE Up == {u \in Nat : \A y \in s : y <= u}
  <1>1. n \in Up
    OBVIOUS
  <1>2. PICK u \in Up : \A w \in Up : u <= w
    <2>1. Up \in SUBSET Nat /\ Up # {}
      BY <1>1
    <2> HIDE DEF Up
    <2> QED
      BY <2>1, Least
  <1>3. u \in Nat /\ \A y \in s : y <= u
    OBVIOUS
  <1>4. u \in s
    <2>1. SUFFICES ASSUME u \notin s PROVE FALSE
      OBVIOUS
    <2>2. PICK y \in s : TRUE
      OBVIOUS
    <2>3. u - 1 \in Nat
      BY <1>3, <2>2
    <2>4. \A w \in s : w <= u - 1
      BY <1>3, <2>1
    <2>5. u - 1 \in Up
      BY <2>3, <2>4
    <2> QED
      BY <1>2, <1>3, <2>5
  <1>5. \A y \in s : u >= y
    BY <1>3
  <1> HIDE DEF Up
  <1> QED
    BY <1>4, <1>5 DEF Max

(* The function a fold over n turns is the value of, for a turn h. *)
Folding(T, h, base, n, g) ==
    /\ g \in [SUBSET (1 .. n) -> T]
    /\ g[{}] = base
    /\ \A s \in SUBSET (1 .. n) : s # {} => g[s] = h[<<g[s \ {Max(s)}], Max(s)>>]

(* The function for no turn at all, *)
LEMMA FoldingNone ==
    ASSUME NEW T, NEW h, NEW base \in T
    PROVE  \E g : Folding(T, h, base, 0, g)
  <1> DEFINE g == [s \in {{}} |-> base]
  <1>1. 1 .. 0 = {}
    OBVIOUS
  <1>2. SUBSET (1 .. 0) = {{}}
    BY <1>1
  <1>3. Folding(T, h, base, 0, g)
    BY <1>2 DEF Folding
  <1> QED
    BY <1>3

(* for one turn more, *)
LEMMA FoldingMore ==
    ASSUME NEW T, NEW n \in Nat, NEW h \in [T \X (1 .. n) -> T], NEW base \in T,
           NEW k \in Nat, k < n, NEW g, Folding(T, h, base, k, g)
    PROVE  \E f : Folding(T, h, base, k + 1, f)
  <1> DEFINE f == [s \in SUBSET (1 .. k + 1) |->
                        IF k + 1 \in s THEN h[<<g[s \ {k + 1}], k + 1>>] ELSE g[s]]
  <1>1. /\ g \in [SUBSET (1 .. k) -> T]
        /\ g[{}] = base
        /\ \A s \in SUBSET (1 .. k) : s # {} => g[s] = h[<<g[s \ {Max(s)}], Max(s)>>]
    BY DEF Folding
  <1>2. \A s \in SUBSET (1 .. k + 1) : k + 1 \in s => s \ {k + 1} \in SUBSET (1 .. k)
    OBVIOUS
  <1>3. \A s \in SUBSET (1 .. k + 1) : k + 1 \notin s => s \in SUBSET (1 .. k)
    OBVIOUS
  <1>4. f \in [SUBSET (1 .. k + 1) -> T]
    <2>1. ASSUME NEW s \in SUBSET (1 .. k + 1)
          PROVE  (IF k + 1 \in s THEN h[<<g[s \ {k + 1}], k + 1>>] ELSE g[s]) \in T
      <3>1. CASE k + 1 \in s
        <4>1. g[s \ {k + 1}] \in T /\ k + 1 \in 1 .. n
          BY <1>1, <1>2, <3>1
        <4> QED
          BY <3>1, <4>1
      <3>2. CASE k + 1 \notin s
        BY <1>1, <1>3, <3>2
      <3> QED
        BY <3>1, <3>2
    <2> QED
      BY <2>1
  <1>5. f[{}] = base
    BY <1>1
  <1>6. ASSUME NEW s \in SUBSET (1 .. k + 1), s # {}
        PROVE  f[s] = h[<<f[s \ {Max(s)}], Max(s)>>]
    <2>1. PICK m \in s : m = Max(s) /\ \A y \in s : y <= m
      <3>1. k + 1 \in Nat
        OBVIOUS
      <3> QED
        BY <1>6, <3>1, LastTurn
    <2>2. CASE k + 1 \in s
      <3>1. m = k + 1
        BY <2>1, <2>2
      <3>2. s \ {k + 1} \in SUBSET (1 .. k) /\ s \ {k + 1} \in SUBSET (1 .. k + 1)
        BY <1>2, <2>2
      <3>3. f[s \ {k + 1}] = g[s \ {k + 1}]
        BY <3>2
      <3>4. f[s] = h[<<g[s \ {k + 1}], k + 1>>]
        BY <2>2
      <3> HIDE DEF f
      <3> QED
        BY <2>1, <3>1, <3>3, <3>4
    <2>3. CASE k + 1 \notin s
      <3>1. s \in SUBSET (1 .. k)
        BY <1>3, <2>3
      <3>2. f[s] = g[s]
        BY <2>3
      <3>3. f[s \ {m}] = g[s \ {m}]
        BY <2>3
      <3>4. g[s] = h[<<g[s \ {m}], m>>]
        BY <1>1, <1>6, <2>1, <3>1
      <3> HIDE DEF f
      <3> QED
        BY <2>1, <3>2, <3>3, <3>4
    <2> QED
      BY <2>2, <2>3
  <1> HIDE DEF f
  <1>7. Folding(T, h, base, k + 1, f)
    BY <1>4, <1>5, <1>6 DEF Folding
  <1> QED
    BY <1>7

(* and so for any number of them. *)
LEMMA FoldingExists ==
    ASSUME NEW T, NEW n \in Nat, NEW h \in [T \X (1 .. n) -> T], NEW base \in T
    PROVE  \E g : Folding(T, h, base, n, g)
  <1> DEFINE Bad == {k \in Nat : k <= n /\ ~ \E g : Folding(T, h, base, k, g)}
  <1>1. SUFFICES ASSUME ~ \E g : Folding(T, h, base, n, g) PROVE FALSE
    OBVIOUS
  <1>2. PICK k \in Bad : \A y \in Bad : k <= y
    <2>1. Bad \in SUBSET Nat
      OBVIOUS
    <2>2. n \in Bad
      BY <1>1
    <2> HIDE DEF Bad
    <2> QED
      BY <2>1, <2>2, Least
  <1>3. k \in Nat /\ k <= n /\ ~ \E g : Folding(T, h, base, k, g)
    OBVIOUS
  <1>4. CASE k = 0
    BY <1>3, <1>4, FoldingNone
  <1>5. CASE k # 0
    <2>1. PICK j \in Nat : k = j + 1
      <3>1. k - 1 \in Nat /\ k = k - 1 + 1
        BY <1>3, <1>5
      <3> QED
        BY <3>1
    <2>2. j < n /\ j <= n /\ ~(k <= j)
      BY <1>3, <2>1
    <2>3. PICK g : Folding(T, h, base, j, g)
      BY <1>2, <2>2
    <2> HIDE DEF Bad
    <2> QED
      BY <1>3, <2>1, <2>2, <2>3, FoldingMore
  <1> QED
    BY <1>4, <1>5

(* What holds before the first turn and outlives a turn always holds. *)
LEMMA Stages ==
    ASSUME NEW n \in Nat, NEW Q \in SUBSET (0 .. n), 0 \in Q,
           \A k \in 1 .. n : k - 1 \in Q => k \in Q
    PROVE  \A k \in 0 .. n : k \in Q
  <1> DEFINE Bad == {k \in 0 .. n : k \notin Q}
  <1>1. SUFFICES ASSUME Bad # {} PROVE FALSE
    OBVIOUS
  <1>2. PICK k \in Bad : \A y \in Bad : k <= y
    <2>1. Bad \in SUBSET Nat
      OBVIOUS
    <2> HIDE DEF Bad
    <2> QED
      BY <1>1, <2>1, Least
  <1>3. k \in 0 .. n /\ k \notin Q
    OBVIOUS
  <1>4. k # 0
    BY <1>3
  <1>5. k \in 1 .. n /\ k - 1 \in 0 .. n /\ ~(k <= k - 1)
    BY <1>3, <1>4
  <1>6. k - 1 \in Q
    BY <1>2, <1>5
  <1> QED
    BY <1>3, <1>5, <1>6

(* The first k turns, of which the k-th is the last. *)
LEMMA FirstTurns ==
    ASSUME NEW n \in Nat, NEW k \in 1 .. n
    PROVE  /\ 1 .. k \in SUBSET (1 .. n) /\ 1 .. k # {} /\ Max(1 .. k) = k
           /\ (1 .. k) \ {k} = 1 .. k - 1
  <1>1. 1 .. k \in SUBSET (1 .. n) /\ 1 .. k # {}
    OBVIOUS
  <1>2. Max(1 .. k) \in 1 .. k /\ \A y \in 1 .. k : y <= Max(1 .. k)
    BY <1>1, LastTurn
  <1>3. k \in 1 .. k
    OBVIOUS
  <1>4. Max(1 .. k) = k
    BY <1>2, <1>3
  <1>5. (1 .. k) \ {k} = 1 .. k - 1
    OBVIOUS
  <1> QED
    BY <1>1, <1>4, <1>5

-----------------------------------------------------------------------------
(* One row. *)

(* The lines of the screen are lines of the storage. *)
LEMMA ScreenLines ==
    ASSUME NEW st, Sound(st)
    PROVE  OnScreen(st) \subseteq Lines(st) /\ Lines(st) \subseteq Int
  <1>1. st.visible_lines \in Nat /\ st.len \in Nat /\ st.visible_lines <= st.len
    BY DEF Sound, StoreType
  <1> QED
    BY <1>1 DEF OnScreen, Lines

(* Where a line is: one subtraction brings its offset back into the ring. *)
LEMMA IndexIs ==
    ASSUME NEW st, Sound(st), NEW line \in Lines(st)
    PROVE  \E p \in 0 .. Len(st.inner) - 1 :
                /\ p = st.visible_lines - 1 - line
                /\ compute_index(st, line) = IF st.zero + p >= Len(st.inner)
                                             THEN st.zero + p - Len(st.inner) ELSE st.zero + p
  <1>1. /\ st.zero \in Nat /\ st.visible_lines \in Nat /\ st.len \in Nat
        /\ Len(st.inner) \in Nat
        /\ st.visible_lines <= st.len /\ st.len <= Len(st.inner) /\ st.zero < Len(st.inner)
    BY DEF Sound, StoreType
  <1>2. line \in Int /\ st.visible_lines - st.len <= line /\ line <= st.visible_lines - 1
    BY <1>1 DEF Lines
  <1>3. PICK p \in Nat : p = -(line - st.visible_lines) - 1 /\ p < Len(st.inner)
    <2>1. PICK v, k, n : v = st.visible_lines /\ k = st.len /\ n = Len(st.inner)
      OBVIOUS
    <2>2. v \in Nat /\ k \in Nat /\ n \in Nat /\ k <= n /\ line \in Int /\ v - k <= line /\ line <= v - 1
      BY <1>1, <1>2, <2>1
    <2>3. -(line - v) - 1 \in Nat /\ -(line - v) - 1 < n
      BY ONLY <2>2
    <2> QED
      BY <2>1, <2>3
  <1>4. compute_index(st, line) = Wrap(st, st.zero + p)
    BY <1>3 DEF compute_index
  <1>5. Wrap(st, st.zero + p) = IF st.zero + p >= Len(st.inner)
                                THEN st.zero + p - Len(st.inner) ELSE st.zero + p
    BY <1>1, <1>3 DEF Wrap, Capacity
  <1>6. p \in 0 .. Len(st.inner) - 1 /\ p = st.visible_lines - 1 - line
    BY <1>1, <1>2, <1>3
  <1> QED
    BY <1>4, <1>5, <1>6

LEMMA IndexInBounds ==
    ASSUME NEW st, Sound(st), NEW line \in Lines(st)
    PROVE  compute_index(st, line) + 1 \in 1 .. Len(st.inner) /\ compute_index(st, line) \in Nat
  <1>1. st.zero \in Nat /\ Len(st.inner) \in Nat /\ st.zero < Len(st.inner)
    BY DEF Sound, StoreType
  <1>2. PICK c, z, n : c = compute_index(st, line) /\ z = st.zero /\ n = Len(st.inner)
    OBVIOUS
  <1>3. PICK p \in 0 .. n - 1 : c = IF z + p >= n THEN z + p - n ELSE z + p
    BY <1>2, IndexIs
  <1>4. c + 1 \in 1 .. n /\ c \in Nat
    <2>1. z \in Nat /\ n \in Nat /\ z < n /\ p \in Int /\ 0 <= p /\ p < n
      BY <1>1, <1>2
    <2>2. (c = z + p - n /\ z + p >= n) \/ (c = z + p /\ z + p < n)
      BY <1>3, <2>1
    <2> QED
      BY ONLY <2>1, <2>2
  <1> QED
    BY <1>2, <1>4

(* Different lines are in different places. *)
LEMMA IndexInjective ==
    ASSUME NEW st, Sound(st), NEW a \in Lines(st), NEW b \in Lines(st),
           compute_index(st, a) = compute_index(st, b)
    PROVE  a = b
  <1>1. /\ st.zero \in Nat /\ Len(st.inner) \in Nat /\ st.zero < Len(st.inner)
        /\ st.visible_lines \in Nat /\ a \in Int /\ b \in Int
    BY ScreenLines DEF Sound, StoreType
  <1>2. PICK c, z, n, v : /\ c = compute_index(st, a) /\ z = st.zero /\ n = Len(st.inner)
                          /\ v = st.visible_lines
    OBVIOUS
  <1>3. PICK p \in 0 .. n - 1 : p = v - 1 - a /\ c = IF z + p >= n THEN z + p - n ELSE z + p
    BY <1>2, IndexIs
  <1>4. PICK q \in 0 .. n - 1 : q = v - 1 - b /\ c = IF z + q >= n THEN z + q - n ELSE z + q
    BY <1>2, IndexIs
  <1>5. z \in Nat /\ n \in Nat /\ z < n
    BY <1>1, <1>2
  <1>6. p = q
    <2>1. z + p = c \/ z + p = c + n
      BY <1>3, <1>5
    <2>2. z + q = c \/ z + q = c + n
      BY <1>4, <1>5
    <2>3. c \in Int /\ p \in Int /\ q \in Int /\ 0 <= p /\ p < n /\ 0 <= q /\ q < n
      BY <1>3, <1>5
    <2> QED
      BY ONLY <1>5, <2>1, <2>2, <2>3
  <1> QED
    BY <1>1, <1>2, <1>3, <1>4, <1>6

(* A storage like a sound one is sound, and has the same screen. *)
LEMMA LikeSound ==
    ASSUME NEW st, Sound(st), NEW t \in Like(st)
    PROVE  Sound(t) /\ OnScreen(t) = OnScreen(st) /\ Lines(t) = Lines(st)
  BY DEF Sound, Like, OnScreen, Lines

(* Several changes of rows are one. *)
LEMMA LikeTrans ==
    ASSUME NEW st, NEW t \in Like(st), NEW u \in Like(t)
    PROVE  u \in Like(st)
  BY DEF Like

(* None is none. *)
LEMMA LikeSelf ==
    ASSUME NEW st, Sound(st)
    PROVE  st \in Like(st)
  BY DEF Like, Sound

(* Overwriting rows changes nothing else. *)
LEMMA InnerLike ==
    ASSUME NEW st, Sound(st), NEW q \in Seq(RowType), Len(q) = Len(st.inner)
    PROVE  [st EXCEPT !.inner = q] \in Like(st)
  <1>1. st \in StoreType
    BY DEF Sound
  <1>2. [st EXCEPT !.inner = q] = [inner |-> q, zero |-> st.zero,
                                   visible_lines |-> st.visible_lines, len |-> st.len]
    BY <1>1 DEF StoreType
  <1> QED
    BY <1>1, <1>2 DEF Like, StoreType

(* IndexMut<Line>. *)
LEMMA SetRowLike ==
    ASSUME NEW st, Sound(st), NEW line \in OnScreen(st), NEW row \in RowType
    PROVE  SetRow(st, line, row) \in Like(st)
  <1>1. st.inner \in Seq(RowType)
    BY DEF Sound, StoreType
  <1>2. PICK i \in 1 .. Len(st.inner) : i = compute_index(st, line) + 1
    BY ScreenLines, IndexInBounds
  <1>3. PICK q : q = [st.inner EXCEPT ![i] = row]
    OBVIOUS
  <1>4. q \in Seq(RowType) /\ Len(q) = Len(st.inner)
    BY <1>1, <1>3
  <1>5. SetRow(st, line, row) = [st EXCEPT !.inner = q]
    <2>1. SetRow(st, line, row) = [st EXCEPT !.inner[i] = row]
      BY <1>2 DEF SetRow
    <2> QED
      BY <1>3, <2>1
  <1> QED
    BY <1>4, <1>5, InnerLike

(* Index<Line>. *)
LEMMA RowAtType ==
    ASSUME NEW st, Sound(st), NEW line \in Lines(st)
    PROVE  RowAt(st, line) \in RowType
  <1>1. st.inner \in Seq(RowType)
    BY DEF Sound, StoreType
  <1>2. PICK i \in 1 .. Len(st.inner) : i = compute_index(st, line) + 1
    BY ScreenLines, IndexInBounds
  <1>3. RowAt(st, line) = st.inner[i]
    BY <1>2 DEF RowAt
  <1> QED
    BY <1>1, <1>3

(* Storage::swap. *)
LEMMA SwapLike ==
    ASSUME NEW st, Sound(st), NEW a \in OnScreen(st), NEW b \in OnScreen(st)
    PROVE  swap(st, a, b) \in Like(st)
  <1>1. st.inner \in Seq(RowType)
    BY DEF Sound, StoreType
  <1>2. PICK i \in 1 .. Len(st.inner) : i = compute_index(st, a) + 1
    BY ScreenLines, IndexInBounds
  <1>3. PICK j \in 1 .. Len(st.inner) : j = compute_index(st, b) + 1
    BY ScreenLines, IndexInBounds
  <1>4. PICK q : q = [st.inner EXCEPT ![i] = st.inner[j], ![j] = st.inner[i]]
    OBVIOUS
  <1>5. q \in Seq(RowType) /\ Len(q) = Len(st.inner)
    BY <1>1, <1>4
  <1>6. swap(st, a, b) = [st EXCEPT !.inner = q]
    <2>1. swap(st, a, b) = [st EXCEPT !.inner[i] = st.inner[j], !.inner[j] = st.inner[i]]
      BY <1>2, <1>3 DEF swap
    <2>2. st \in StoreType
      BY DEF Sound
    <2> QED
      BY <1>4, <2>1, <2>2 DEF StoreType
  <1> QED
    BY <1>5, <1>6, InnerLike

(* What Row::new returns is a row. *)
LEMMA BlankRowType ==
    BlankRow \in RowType
  BY DEF BlankRow, RowType

-----------------------------------------------------------------------------
(* The text of every line. *)

(* What the lines of a storage show: a function, the storage forgotten. *)
Content(st) == [l \in Lines(st) |-> RowAt(st, l).text]

AnyText == TextValues \cup {Blank}

(* Overwriting one line, and exchanging two. *)
Put(c, line, text) == [l \in DOMAIN c |-> IF l = line THEN text ELSE c[l]]
Exchanged(c, a, b) == [l \in DOMAIN c |-> IF l = a THEN c[b] ELSE IF l = b THEN c[a] ELSE c[l]]

LEMMA ContentType ==
    ASSUME NEW st, Sound(st)
    PROVE  Content(st) \in [Lines(st) -> AnyText]
  <1>1. \A l \in Lines(st) : RowAt(st, l).text \in AnyText
    BY RowAtType DEF RowType, AnyText
  <1> QED
    BY <1>1 DEF Content

(* Where a line is does not depend on what the rows hold. *)
LEMMA LikeIndex ==
    ASSUME NEW st, NEW t \in Like(st), NEW line
    PROVE  compute_index(t, line) = compute_index(st, line)
  BY DEF Like, compute_index, Wrap, Capacity

(* SetRow changes one line. *)
LEMMA SetRowContent ==
    ASSUME NEW st, Sound(st), NEW line \in OnScreen(st), NEW row \in RowType
    PROVE  Content(SetRow(st, line, row)) = Put(Content(st), line, row.text)
  <1>1. PICK t : t = SetRow(st, line, row)
    OBVIOUS
  <1>2. t \in Like(st) /\ Lines(t) = Lines(st) /\ line \in Lines(st)
    BY <1>1, SetRowLike, LikeSound, ScreenLines
  <1>3. st.inner \in Seq(RowType) /\ st \in StoreType
    BY DEF Sound, StoreType
  <1>4. PICK i \in 1 .. Len(st.inner) : i = compute_index(st, line) + 1
    BY <1>2, IndexInBounds
  <1>5. t.inner = [st.inner EXCEPT ![i] = row]
    BY <1>1, <1>3, <1>4 DEF SetRow, StoreType
  <1>6. ASSUME NEW m \in Lines(st)
        PROVE  RowAt(t, m) = IF m = line THEN row ELSE RowAt(st, m)
    <2>1. PICK j \in 1 .. Len(st.inner) : j = compute_index(st, m) + 1
      BY IndexInBounds
    <2>2. RowAt(t, m) = t.inner[j] /\ RowAt(st, m) = st.inner[j]
      BY <1>2, <2>1, LikeIndex DEF RowAt
    <2>3. CASE m = line
      <3>1. j = i
        BY <1>4, <2>1, <2>3
      <3> QED
        BY <1>3, <1>5, <2>2, <2>3, <3>1
    <2>4. CASE m # line
      <3>1. j # i
        <4>1. SUFFICES ASSUME j = i PROVE FALSE
          OBVIOUS
        <4>2. compute_index(st, m) \in Int /\ compute_index(st, line) \in Int
          BY <1>2, IndexInBounds
        <4>3. compute_index(st, m) = compute_index(st, line)
          BY <1>4, <2>1, <4>1, <4>2
        <4> QED
          BY <1>2, <2>4, <4>3, IndexInjective
      <3> QED
        BY <1>3, <1>5, <2>2, <2>4, <3>1
    <2> QED
      BY <2>3, <2>4
  <1>7. ASSUME NEW m \in Lines(st)
        PROVE  RowAt(t, m).text = IF m = line THEN row.text ELSE RowAt(st, m).text
    BY <1>6
  <1> QED
    BY <1>1, <1>2, <1>7 DEF Content, Put

(* swap exchanges two lines. *)
LEMMA SwapContent ==
    ASSUME NEW st, Sound(st), NEW a \in OnScreen(st), NEW b \in OnScreen(st)
    PROVE  Content(swap(st, a, b)) = Exchanged(Content(st), a, b)
  <1>1. PICK t : t = swap(st, a, b)
    OBVIOUS
  <1>2. t \in Like(st) /\ Lines(t) = Lines(st) /\ a \in Lines(st) /\ b \in Lines(st)
    BY <1>1, SwapLike, LikeSound, ScreenLines
  <1>3. st.inner \in Seq(RowType) /\ st \in StoreType
    BY DEF Sound, StoreType
  <1>4. PICK i \in 1 .. Len(st.inner) : i = compute_index(st, a) + 1
    BY <1>2, IndexInBounds
  <1>5. PICK k \in 1 .. Len(st.inner) : k = compute_index(st, b) + 1
    BY <1>2, IndexInBounds
  <1>6. t.inner = [st.inner EXCEPT ![i] = st.inner[k], ![k] = st.inner[i]]
    BY <1>1, <1>3, <1>4, <1>5 DEF swap, StoreType
  <1>7. \A x, y \in Lines(st) : compute_index(st, x) + 1 = compute_index(st, y) + 1 => x = y
    <2> TAKE x \in Lines(st), y \in Lines(st)
    <2>1. compute_index(st, x) \in Int /\ compute_index(st, y) \in Int
      BY IndexInBounds
    <2> QED
      BY <2>1, IndexInjective
  <1>8. ASSUME NEW m \in Lines(st)
        PROVE  RowAt(t, m) = IF m = a THEN RowAt(st, b)
                             ELSE IF m = b THEN RowAt(st, a) ELSE RowAt(st, m)
    <2>1. PICK j \in 1 .. Len(st.inner) : j = compute_index(st, m) + 1
      BY IndexInBounds
    <2>2. /\ RowAt(t, m) = t.inner[j] /\ RowAt(st, m) = st.inner[j]
          /\ RowAt(st, a) = st.inner[i] /\ RowAt(st, b) = st.inner[k]
      BY <1>2, <1>4, <1>5, <2>1, LikeIndex DEF RowAt
    <2>3. (m = a <=> j = i) /\ (m = b <=> j = k)
      BY <1>2, <1>4, <1>5, <1>7, <2>1
    <2>4. t.inner[j] = IF j = k THEN st.inner[i] ELSE IF j = i THEN st.inner[k] ELSE st.inner[j]
      BY <1>3, <1>6
    <2> QED
      BY <2>2, <2>3, <2>4
  <1>9. ASSUME NEW m \in Lines(st)
        PROVE  RowAt(t, m).text = IF m = a THEN RowAt(st, b).text
                                  ELSE IF m = b THEN RowAt(st, a).text ELSE RowAt(st, m).text
    BY <1>8
  <1> QED
    BY <1>1, <1>2, <1>9 DEF Content, Exchanged

-----------------------------------------------------------------------------
(* The loops over lines that swap, reset and mark rows. *)

(* Lines of the screen, in some order. *)
Visible(st, ls, n) ==
    /\ n \in Nat
    /\ ls \in Seq(Int)
    /\ Len(ls) = n
    /\ \A i \in 1 .. n : ls[i] \in OnScreen(st)

(* SwapEach as a function of the set of turns taken. *)
SwapTurns(st, ls, d, n, f) ==
    f = [s \in SUBSET (1 .. n) |-> IF s = {} THEN st
            ELSE swap(f[s \ {Max(s)}], ls[Max(s)], ls[Max(s)] + d)]

LEMMA SwapEachDef ==
    ASSUME NEW st, NEW n \in Nat, NEW ls \in Seq(Int), Len(ls) = n, NEW d
    PROVE  SwapEach(st, ls, d)
              = (CHOOSE f : SwapTurns(st, ls, d, n, f))[1 .. n]
  <1>1. DOMAIN ls = 1 .. n
    OBVIOUS
  <1>2. SwapEach(st, ls, d)
            = (CHOOSE f : f = [s \in SUBSET DOMAIN ls |-> IF s = {} THEN st
                  ELSE swap(f[s \ {Max(s)}], ls[Max(s)], ls[Max(s)] + d)])[DOMAIN ls]
    BY DEF SwapEach, FoldLeft, MapThenFoldSet
  <1> QED
    BY <1>1, <1>2 DEF SwapTurns

(* The storages between the swaps. *)
SwapTrace(st, ls, d, n, t) ==
    /\ t \in [0 .. n -> Like(st)]
    /\ t[0] = st /\ t[n] = SwapEach(st, ls, d)
    /\ \A k \in 1 .. n : t[k] = swap(t[k - 1], ls[k], ls[k] + d)

(* Swapping lines of the screen with others of the screen. *)
LEMMA SwapEachTrace ==
    ASSUME NEW st, Sound(st), NEW n, NEW ls, Visible(st, ls, n), NEW d \in Int,
           \A i \in 1 .. n : ls[i] + d \in OnScreen(st)
    PROVE  \E t : SwapTrace(st, ls, d, n, t)
  <1>1. n \in Nat /\ ls \in Seq(Int) /\ Len(ls) = n /\ \A i \in 1 .. n : ls[i] \in OnScreen(st)
    BY DEF Visible
  <1> DEFINE T == Like(st)
             h == [x \in T \X (1 .. n) |-> swap(x[1], ls[x[2]], ls[x[2]] + d)]
  <1>2. \A t \in T, i \in 1 .. n : swap(t, ls[i], ls[i] + d) \in T
    <2> TAKE t \in T, i \in 1 .. n
    <2>1. Sound(t) /\ ls[i] \in OnScreen(t) /\ ls[i] + d \in OnScreen(t)
      BY <1>1, LikeSound
    <2>2. swap(t, ls[i], ls[i] + d) \in Like(t)
      BY <2>1, SwapLike
    <2> QED
      BY <2>2, LikeTrans
  <1>3. st \in T
    BY LikeSelf
  <1> HIDE DEF T
  <1>4. \A t \in T, i \in 1 .. n : h[<<t, i>>] = swap(t, ls[i], ls[i] + d)
    OBVIOUS
  <1>5. h \in [T \X (1 .. n) -> T]
    BY <1>2
  <1> HIDE DEF h
  <1>6. PICK g : Folding(T, h, st, n, g)
    BY <1>1, <1>3, <1>5, FoldingExists
  <1>7. SwapTurns(st, ls, d, n, g)
    <2>1. g \in [SUBSET (1 .. n) -> T] /\ g[{}] = st
      BY <1>6 DEF Folding
    <2>2. ASSUME NEW s \in SUBSET (1 .. n), s # {}
          PROVE  g[s] = swap(g[s \ {Max(s)}], ls[Max(s)], ls[Max(s)] + d)
      <3>1. g[s] = h[<<g[s \ {Max(s)}], Max(s)>>]
        BY <1>6, <2>2 DEF Folding
      <3>2. Max(s) \in 1 .. n
        BY <1>1, <2>2, LastTurn
      <3>3. g[s \ {Max(s)}] \in T
        BY <2>1
      <3> QED
        BY <1>4, <3>1, <3>2, <3>3
    <2> QED
      BY <2>1, <2>2 DEF SwapTurns
  <1>8. PICK f : f = CHOOSE e : SwapTurns(st, ls, d, n, e)
    OBVIOUS
  <1>9. f = [s \in SUBSET (1 .. n) |-> IF s = {} THEN st
                ELSE swap(f[s \ {Max(s)}], ls[Max(s)], ls[Max(s)] + d)]
    <2>1. SwapTurns(st, ls, d, n, f)
      BY <1>7, <1>8
    <2> QED
      BY <2>1 DEF SwapTurns
  <1> DEFINE t == [k \in 0 .. n |-> f[1 .. k]]
  <1>10. t[0] = st
    <2>1. 1 .. 0 = {} /\ 0 \in 0 .. n
      BY <1>1
    <2>2. f[{}] = st
      BY <1>9
    <2> QED
      BY <2>1, <2>2
  <1>11. \A k \in 1 .. n : t[k] = swap(t[k - 1], ls[k], ls[k] + d)
    <2> TAKE k \in 1 .. n
    <2>1. /\ 1 .. k \in SUBSET (1 .. n) /\ 1 .. k # {} /\ Max(1 .. k) = k
          /\ (1 .. k) \ {k} = 1 .. k - 1
      BY <1>1, FirstTurns
    <2>2. k \in 0 .. n /\ k - 1 \in 0 .. n
      BY <1>1
    <2>3. f[1 .. k] = swap(f[1 .. k - 1], ls[k], ls[k] + d)
      BY <1>9, <2>1
    <2> QED
      BY <2>2, <2>3
  <1> DEFINE Q == {k \in 0 .. n : t[k] \in T}
  <1> HIDE DEF t
  <1>12. \A k \in 0 .. n : k \in Q
    <2>1. 0 \in Q
      BY <1>1, <1>3, <1>10
    <2>2. \A k \in 1 .. n : k - 1 \in Q => k \in Q
      <3> TAKE k \in 1 .. n
      <3>1. k \in 0 .. n
        BY <1>1
      <3>2. t[k - 1] \in T => t[k] \in T
        BY <1>2, <1>11
      <3> QED
        BY <3>1, <3>2
    <2>3. Q \in SUBSET (0 .. n)
      OBVIOUS
    <2> HIDE DEF Q
    <2> QED
      BY <1>1, <2>1, <2>2, <2>3, Stages
  <1>13. t \in [0 .. n -> T]
    <2>1. \A k \in 0 .. n : t[k] \in T
      BY <1>12
    <2> QED
      BY <2>1 DEF t
  <1>14. t[n] = SwapEach(st, ls, d)
    <2>1. SwapEach(st, ls, d) = f[1 .. n]
      BY <1>1, <1>8, SwapEachDef
    <2> QED
      BY <1>1, <2>1 DEF t
  <1> QED
    BY <1>10, <1>11, <1>13, <1>14 DEF T, SwapTrace

LEMMA SwapEachLike ==
    ASSUME NEW st, Sound(st), NEW n, NEW ls, Visible(st, ls, n), NEW d \in Int,
           \A i \in 1 .. n : ls[i] + d \in OnScreen(st)
    PROVE  SwapEach(st, ls, d) \in Like(st)
  <1>1. PICK t : SwapTrace(st, ls, d, n, t)
    BY SwapEachTrace
  <1>2. n \in Nat
    BY DEF Visible
  <1> QED
    BY <1>1, <1>2 DEF SwapTrace

(* ResetEach as a function of the set of turns taken. *)
ResetTurns(st, ls, n, f) ==
    f = [s \in SUBSET (1 .. n) |-> IF s = {} THEN st
            ELSE SetRow(f[s \ {Max(s)}], ls[Max(s)], BlankRow)]

LEMMA ResetEachDef ==
    ASSUME NEW st, NEW n \in Nat, NEW ls \in Seq(Int), Len(ls) = n
    PROVE  ResetEach(st, ls)
              = (CHOOSE f : ResetTurns(st, ls, n, f))[1 .. n]
  <1>1. DOMAIN ls = 1 .. n
    OBVIOUS
  <1>2. ResetEach(st, ls)
            = (CHOOSE f : f = [s \in SUBSET DOMAIN ls |-> IF s = {} THEN st
                  ELSE SetRow(f[s \ {Max(s)}], ls[Max(s)], BlankRow)])[DOMAIN ls]
    BY DEF ResetEach, FoldLeft, MapThenFoldSet
  <1> QED
    BY <1>1, <1>2 DEF ResetTurns

(* Clearing lines of the screen. *)
LEMMA ResetEachTrace ==
    ASSUME NEW st, Sound(st), NEW n, NEW ls, Visible(st, ls, n)
    PROVE  \E t \in [0 .. n -> Like(st)] :
                /\ t[0] = st /\ t[n] = ResetEach(st, ls)
                /\ \A k \in 1 .. n : t[k] = SetRow(t[k - 1], ls[k], BlankRow)
  <1>1. n \in Nat /\ ls \in Seq(Int) /\ Len(ls) = n /\ \A i \in 1 .. n : ls[i] \in OnScreen(st)
    BY DEF Visible
  <1> DEFINE T == Like(st)
             h == [x \in T \X (1 .. n) |-> SetRow(x[1], ls[x[2]], BlankRow)]
  <1>2. \A t \in T, i \in 1 .. n : SetRow(t, ls[i], BlankRow) \in T
    <2> TAKE t \in T, i \in 1 .. n
    <2>1. Sound(t) /\ ls[i] \in OnScreen(t)
      BY <1>1, LikeSound
    <2>2. SetRow(t, ls[i], BlankRow) \in Like(t)
      BY <2>1, SetRowLike, BlankRowType
    <2> QED
      BY <2>2, LikeTrans
  <1>3. st \in T
    BY LikeSelf
  <1> HIDE DEF T
  <1>4. \A t \in T, i \in 1 .. n : h[<<t, i>>] = SetRow(t, ls[i], BlankRow)
    OBVIOUS
  <1>5. h \in [T \X (1 .. n) -> T]
    BY <1>2
  <1> HIDE DEF h
  <1>6. PICK g : Folding(T, h, st, n, g)
    BY <1>1, <1>3, <1>5, FoldingExists
  <1>7. ResetTurns(st, ls, n, g)
    <2>1. g \in [SUBSET (1 .. n) -> T] /\ g[{}] = st
      BY <1>6 DEF Folding
    <2>2. ASSUME NEW s \in SUBSET (1 .. n), s # {}
          PROVE  g[s] = SetRow(g[s \ {Max(s)}], ls[Max(s)], BlankRow)
      <3>1. g[s] = h[<<g[s \ {Max(s)}], Max(s)>>]
        BY <1>6, <2>2 DEF Folding
      <3>2. Max(s) \in 1 .. n
        BY <1>1, <2>2, LastTurn
      <3>3. g[s \ {Max(s)}] \in T
        BY <2>1
      <3> QED
        BY <1>4, <3>1, <3>2, <3>3
    <2> QED
      BY <2>1, <2>2 DEF ResetTurns
  <1>8. PICK f : f = CHOOSE e : ResetTurns(st, ls, n, e)
    OBVIOUS
  <1>9. f = [s \in SUBSET (1 .. n) |-> IF s = {} THEN st
                ELSE SetRow(f[s \ {Max(s)}], ls[Max(s)], BlankRow)]
    <2>1. ResetTurns(st, ls, n, f)
      BY <1>7, <1>8
    <2> QED
      BY <2>1 DEF ResetTurns
  <1> DEFINE t == [k \in 0 .. n |-> f[1 .. k]]
  <1>10. t[0] = st
    <2>1. 1 .. 0 = {} /\ 0 \in 0 .. n
      BY <1>1
    <2>2. f[{}] = st
      BY <1>9
    <2> QED
      BY <2>1, <2>2
  <1>11. \A k \in 1 .. n : t[k] = SetRow(t[k - 1], ls[k], BlankRow)
    <2> TAKE k \in 1 .. n
    <2>1. /\ 1 .. k \in SUBSET (1 .. n) /\ 1 .. k # {} /\ Max(1 .. k) = k
          /\ (1 .. k) \ {k} = 1 .. k - 1
      BY <1>1, FirstTurns
    <2>2. k \in 0 .. n /\ k - 1 \in 0 .. n
      BY <1>1
    <2>3. f[1 .. k] = SetRow(f[1 .. k - 1], ls[k], BlankRow)
      BY <1>9, <2>1
    <2> QED
      BY <2>2, <2>3
  <1> DEFINE Q == {k \in 0 .. n : t[k] \in T}
  <1> HIDE DEF t
  <1>12. \A k \in 0 .. n : k \in Q
    <2>1. 0 \in Q
      BY <1>1, <1>3, <1>10
    <2>2. \A k \in 1 .. n : k - 1 \in Q => k \in Q
      <3> TAKE k \in 1 .. n
      <3>1. k \in 0 .. n
        BY <1>1
      <3>2. t[k - 1] \in T => t[k] \in T
        BY <1>2, <1>11
      <3> QED
        BY <3>1, <3>2
    <2>3. Q \in SUBSET (0 .. n)
      OBVIOUS
    <2> HIDE DEF Q
    <2> QED
      BY <1>1, <2>1, <2>2, <2>3, Stages
  <1>13. t \in [0 .. n -> T]
    <2>1. \A k \in 0 .. n : t[k] \in T
      BY <1>12
    <2> QED
      BY <2>1 DEF t
  <1>14. t[n] = ResetEach(st, ls)
    <2>1. ResetEach(st, ls) = f[1 .. n]
      BY <1>1, <1>8, ResetEachDef
    <2> QED
      BY <1>1, <2>1 DEF t
  <1> QED
    BY <1>10, <1>11, <1>13, <1>14 DEF T

LEMMA ResetEachLike ==
    ASSUME NEW st, Sound(st), NEW n, NEW ls, Visible(st, ls, n)
    PROVE  ResetEach(st, ls) \in Like(st)
  <1>1. PICK t \in [0 .. n -> Like(st)] : t[n] = ResetEach(st, ls)
    BY ResetEachTrace
  <1>2. n \in Nat
    BY DEF Visible
  <1> QED
    BY <1>1, <1>2

(* One turn of DirtyEach. *)
Marked(st, line) == SetRow(st, line, [RowAt(st, line) EXCEPT !.dirty = TRUE])

LEMMA MarkedLike ==
    ASSUME NEW st, Sound(st), NEW line \in OnScreen(st)
    PROVE  Marked(st, line) \in Like(st)
  <1>1. PICK row \in RowType : row = RowAt(st, line)
    BY ScreenLines, RowAtType
  <1>2. [row EXCEPT !.dirty = TRUE] \in RowType
    BY DEF RowType
  <1>3. Marked(st, line) = SetRow(st, line, [row EXCEPT !.dirty = TRUE])
    BY <1>1 DEF Marked
  <1> QED
    BY <1>2, <1>3, SetRowLike

(* DirtyEach as a function of the set of turns taken. *)
DirtyTurns(st, ls, n, f) ==
    f = [s \in SUBSET (1 .. n) |-> IF s = {} THEN st
            ELSE Marked(f[s \ {Max(s)}], ls[Max(s)])]

LEMMA DirtyEachDef ==
    ASSUME NEW st, NEW n \in Nat, NEW ls \in Seq(Int), Len(ls) = n
    PROVE  DirtyEach(st, ls)
              = (CHOOSE f : DirtyTurns(st, ls, n, f))[1 .. n]
  <1>1. DOMAIN ls = 1 .. n
    OBVIOUS
  <1>2. DirtyEach(st, ls)
            = (CHOOSE f : f = [s \in SUBSET DOMAIN ls |-> IF s = {} THEN st
                  ELSE Marked(f[s \ {Max(s)}], ls[Max(s)])])[DOMAIN ls]
    BY DEF Marked, DirtyEach, FoldLeft, MapThenFoldSet
  <1> QED
    BY <1>1, <1>2 DEF DirtyTurns

(* Marking lines of the screen for the renderer. *)
LEMMA DirtyEachTrace ==
    ASSUME NEW st, Sound(st), NEW n, NEW ls, Visible(st, ls, n)
    PROVE  \E t \in [0 .. n -> Like(st)] :
                /\ t[0] = st /\ t[n] = DirtyEach(st, ls)
                /\ \A k \in 1 .. n : t[k] = Marked(t[k - 1], ls[k])
  <1>1. n \in Nat /\ ls \in Seq(Int) /\ Len(ls) = n /\ \A i \in 1 .. n : ls[i] \in OnScreen(st)
    BY DEF Visible
  <1> DEFINE T == Like(st)
             h == [x \in T \X (1 .. n) |-> Marked(x[1], ls[x[2]])]
  <1>2. \A t \in T, i \in 1 .. n : Marked(t, ls[i]) \in T
    <2> TAKE t \in T, i \in 1 .. n
    <2>1. Sound(t) /\ ls[i] \in OnScreen(t)
      BY <1>1, LikeSound
    <2>2. Marked(t, ls[i]) \in Like(t)
      BY <2>1, MarkedLike
    <2> QED
      BY <2>2, LikeTrans
  <1>3. st \in T
    BY LikeSelf
  <1> HIDE DEF T
  <1>4. \A t \in T, i \in 1 .. n : h[<<t, i>>] = Marked(t, ls[i])
    OBVIOUS
  <1>5. h \in [T \X (1 .. n) -> T]
    BY <1>2
  <1> HIDE DEF h
  <1>6. PICK g : Folding(T, h, st, n, g)
    BY <1>1, <1>3, <1>5, FoldingExists
  <1>7. DirtyTurns(st, ls, n, g)
    <2>1. g \in [SUBSET (1 .. n) -> T] /\ g[{}] = st
      BY <1>6 DEF Folding
    <2>2. ASSUME NEW s \in SUBSET (1 .. n), s # {}
          PROVE  g[s] = Marked(g[s \ {Max(s)}], ls[Max(s)])
      <3>1. g[s] = h[<<g[s \ {Max(s)}], Max(s)>>]
        BY <1>6, <2>2 DEF Folding
      <3>2. Max(s) \in 1 .. n
        BY <1>1, <2>2, LastTurn
      <3>3. g[s \ {Max(s)}] \in T
        BY <2>1
      <3> QED
        BY <1>4, <3>1, <3>2, <3>3
    <2> QED
      BY <2>1, <2>2 DEF DirtyTurns
  <1>8. PICK f : f = CHOOSE e : DirtyTurns(st, ls, n, e)
    OBVIOUS
  <1>9. f = [s \in SUBSET (1 .. n) |-> IF s = {} THEN st
                ELSE Marked(f[s \ {Max(s)}], ls[Max(s)])]
    <2>1. DirtyTurns(st, ls, n, f)
      BY <1>7, <1>8
    <2> QED
      BY <2>1 DEF DirtyTurns
  <1> DEFINE t == [k \in 0 .. n |-> f[1 .. k]]
  <1>10. t[0] = st
    <2>1. 1 .. 0 = {} /\ 0 \in 0 .. n
      BY <1>1
    <2>2. f[{}] = st
      BY <1>9
    <2> QED
      BY <2>1, <2>2
  <1>11. \A k \in 1 .. n : t[k] = Marked(t[k - 1], ls[k])
    <2> TAKE k \in 1 .. n
    <2>1. /\ 1 .. k \in SUBSET (1 .. n) /\ 1 .. k # {} /\ Max(1 .. k) = k
          /\ (1 .. k) \ {k} = 1 .. k - 1
      BY <1>1, FirstTurns
    <2>2. k \in 0 .. n /\ k - 1 \in 0 .. n
      BY <1>1
    <2>3. f[1 .. k] = Marked(f[1 .. k - 1], ls[k])
      BY <1>9, <2>1
    <2> QED
      BY <2>2, <2>3
  <1> DEFINE Q == {k \in 0 .. n : t[k] \in T}
  <1> HIDE DEF t
  <1>12. \A k \in 0 .. n : k \in Q
    <2>1. 0 \in Q
      BY <1>1, <1>3, <1>10
    <2>2. \A k \in 1 .. n : k - 1 \in Q => k \in Q
      <3> TAKE k \in 1 .. n
      <3>1. k \in 0 .. n
        BY <1>1
      <3>2. t[k - 1] \in T => t[k] \in T
        BY <1>2, <1>11
      <3> QED
        BY <3>1, <3>2
    <2>3. Q \in SUBSET (0 .. n)
      OBVIOUS
    <2> HIDE DEF Q
    <2> QED
      BY <1>1, <2>1, <2>2, <2>3, Stages
  <1>13. t \in [0 .. n -> T]
    <2>1. \A k \in 0 .. n : t[k] \in T
      BY <1>12
    <2> QED
      BY <2>1 DEF t
  <1>14. t[n] = DirtyEach(st, ls)
    <2>1. DirtyEach(st, ls) = f[1 .. n]
      BY <1>1, <1>8, DirtyEachDef
    <2> QED
      BY <1>1, <2>1 DEF t
  <1> QED
    BY <1>10, <1>11, <1>13, <1>14 DEF T

LEMMA DirtyEachLike ==
    ASSUME NEW st, Sound(st), NEW n, NEW ls, Visible(st, ls, n)
    PROVE  DirtyEach(st, ls) \in Like(st)
  <1>1. PICK t \in [0 .. n -> Like(st)] : t[n] = DirtyEach(st, ls)
    BY DirtyEachTrace
  <1>2. n \in Nat
    BY DEF Visible
  <1> QED
    BY <1>1, <1>2

-----------------------------------------------------------------------------
(* What the loops do to the text. *)

(* Clearing a set of lines, in whatever order. *)
LEMMA ResetEachContent ==
    ASSUME NEW st, Sound(st), NEW n, NEW ls, Visible(st, ls, n)
    PROVE  Content(ResetEach(st, ls))
              = [l \in Lines(st) |-> IF \E i \in 1 .. n : ls[i] = l THEN Blank ELSE Content(st)[l]]
  <1>1. n \in Nat /\ \A i \in 1 .. n : ls[i] \in OnScreen(st)
    BY DEF Visible
  <1>2. PICK t \in [0 .. n -> Like(st)] :
            /\ t[0] = st /\ t[n] = ResetEach(st, ls)
            /\ \A k \in 1 .. n : t[k] = SetRow(t[k - 1], ls[k], BlankRow)
    BY ResetEachTrace
  <1> DEFINE C(k) == [l \in Lines(st) |->
                        IF \E i \in 1 .. k : ls[i] = l THEN Blank ELSE Content(st)[l]]
             Q == {k \in 0 .. n : Content(t[k]) = C(k)}
  <1>3. 0 \in Q
    <2>1. Content(st) = [l \in Lines(st) |-> Content(st)[l]]
      BY DEF Content
    <2>2. 0 \in 0 .. n /\ 1 .. 0 = {}
      BY <1>1
    <2>3. C(0) = [l \in Lines(st) |-> Content(st)[l]]
      BY <2>2
    <2> QED
      BY <1>2, <2>1, <2>2, <2>3
  <1>4. ASSUME NEW k \in 1 .. n, k - 1 \in Q
        PROVE  k \in Q
    <2>1. k - 1 \in 0 .. n /\ k \in 0 .. n /\ k \in Nat
      BY <1>1
    <2>2. PICK s \in Like(st) : s = t[k - 1]
      BY <1>2, <2>1
    <2>3. Sound(s) /\ ls[k] \in OnScreen(s) /\ Lines(s) = Lines(st)
      BY <1>1, <2>2, LikeSound
    <2>4. Content(t[k]) = Put(Content(s), ls[k], BlankRow.text)
      BY <1>2, <2>2, <2>3, SetRowContent, BlankRowType
    <2>5. Content(s) = C(k - 1)
      BY <1>4, <2>2
    <2>6. BlankRow.text = Blank
      BY DEF BlankRow
    <2>7. \A l : (\E i \in 1 .. k : ls[i] = l) <=> l = ls[k] \/ \E i \in 1 .. k - 1 : ls[i] = l
      <3>1. \A i \in 1 .. k : i = k \/ i \in 1 .. k - 1
        BY <2>1
      <3>2. k \in 1 .. k /\ \A i \in 1 .. k - 1 : i \in 1 .. k
        BY <2>1
      <3> QED
        BY <3>1, <3>2
    <2>8. Put(C(k - 1), ls[k], Blank) = C(k)
      <3>1. Put(C(k - 1), ls[k], Blank)
                = [l \in Lines(st) |-> IF l = ls[k] THEN Blank ELSE C(k - 1)[l]]
        BY DEF Put
      <3>2. \A l \in Lines(st) : (IF l = ls[k] THEN Blank ELSE C(k - 1)[l])
                = IF \E i \in 1 .. k : ls[i] = l THEN Blank ELSE Content(st)[l]
        BY <2>7
      <3> QED
        BY <3>1, <3>2
    <2> HIDE DEF C
    <2> QED
      BY <2>1, <2>4, <2>5, <2>6, <2>8
  <1>5. Q \in SUBSET (0 .. n)
    OBVIOUS
  <1> HIDE DEF Q
  <1>6. n \in Q
    <2>1. \A k \in 0 .. n : k \in Q
      BY <1>1, <1>3, <1>4, <1>5, Stages
    <2> QED
      BY <1>1, <2>1
  <1> QED
    BY <1>2, <1>6 DEF Q

(* Marking changes no text. *)
LEMMA MarkedContent ==
    ASSUME NEW st, Sound(st), NEW line \in OnScreen(st)
    PROVE  Content(Marked(st, line)) = Content(st)
  <1>1. line \in Lines(st)
    BY ScreenLines
  <1>2. PICK row \in RowType : row = RowAt(st, line)
    BY <1>1, RowAtType
  <1>3. PICK fresh : fresh = [row EXCEPT !.dirty = TRUE]
    OBVIOUS
  <1>4. fresh \in RowType /\ fresh.text = row.text
    BY <1>3 DEF RowType
  <1>5. Content(Marked(st, line)) = Put(Content(st), line, row.text)
    <2>1. Marked(st, line) = SetRow(st, line, fresh)
      BY <1>2, <1>3 DEF Marked
    <2> QED
      BY <1>4, <2>1, SetRowContent
  <1>6. \A l \in Lines(st) : (IF l = line THEN row.text ELSE Content(st)[l]) = RowAt(st, l).text
    BY <1>2 DEF Content
  <1>7. Put(Content(st), line, row.text)
            = [l \in Lines(st) |-> IF l = line THEN row.text ELSE Content(st)[l]]
    BY DEF Put, Content
  <1> QED
    BY <1>5, <1>6, <1>7 DEF Content

LEMMA DirtyEachContent ==
    ASSUME NEW st, Sound(st), NEW n, NEW ls, Visible(st, ls, n)
    PROVE  Content(DirtyEach(st, ls)) = Content(st)
  <1>1. n \in Nat /\ \A i \in 1 .. n : ls[i] \in OnScreen(st)
    BY DEF Visible
  <1>2. PICK t \in [0 .. n -> Like(st)] :
            /\ t[0] = st /\ t[n] = DirtyEach(st, ls)
            /\ \A k \in 1 .. n : t[k] = Marked(t[k - 1], ls[k])
    BY DirtyEachTrace
  <1> DEFINE Q == {k \in 0 .. n : Content(t[k]) = Content(st)}
  <1>3. 0 \in Q
    BY <1>1, <1>2
  <1>4. ASSUME NEW k \in 1 .. n, k - 1 \in Q
        PROVE  k \in Q
    <2>1. k - 1 \in 0 .. n /\ k \in 0 .. n
      BY <1>1
    <2>2. PICK s \in Like(st) : s = t[k - 1]
      BY <1>2, <2>1
    <2>3. Sound(s) /\ ls[k] \in OnScreen(s)
      BY <1>1, <2>2, LikeSound
    <2>4. Content(t[k]) = Content(s)
      BY <1>2, <2>2, <2>3, MarkedContent
    <2> QED
      BY <1>4, <2>1, <2>2, <2>4
  <1>5. Q \in SUBSET (0 .. n)
    OBVIOUS
  <1> HIDE DEF Q
  <1>6. n \in Q
    <2>1. \A k \in 0 .. n : k \in Q
      BY <1>1, <1>3, <1>4, <1>5, Stages
    <2> QED
      BY <1>1, <2>1
  <1> QED
    BY <1>2, <1>6 DEF Q

(* A run of swaps, as exchanges of the text. *)
TextTrace(st, ls, d, n, c) ==
    /\ c \in [0 .. n -> [Lines(st) -> AnyText]]
    /\ c[0] = Content(st) /\ c[n] = Content(SwapEach(st, ls, d))
    /\ \A k \in 1 .. n : c[k] = Exchanged(c[k - 1], ls[k], ls[k] + d)

LEMMA SwapEachContent ==
    ASSUME NEW st, Sound(st), NEW n, NEW ls, Visible(st, ls, n), NEW d \in Int,
           \A i \in 1 .. n : ls[i] + d \in OnScreen(st)
    PROVE  \E c : TextTrace(st, ls, d, n, c)
  <1>1. n \in Nat /\ \A i \in 1 .. n : ls[i] \in OnScreen(st)
    BY DEF Visible
  <1>2. PICK t : /\ t \in [0 .. n -> Like(st)]
                 /\ t[0] = st /\ t[n] = SwapEach(st, ls, d)
                 /\ \A k \in 1 .. n : t[k] = swap(t[k - 1], ls[k], ls[k] + d)
    <2>1. \E t : SwapTrace(st, ls, d, n, t)
      BY SwapEachTrace
    <2> QED
      BY <2>1 DEF SwapTrace
  <1> DEFINE c == [k \in 0 .. n |-> Content(t[k])]
  <1>3. \A k \in 0 .. n : Content(t[k]) \in [Lines(st) -> AnyText]
    <2> TAKE k \in 0 .. n
    <2>1. t[k] \in Like(st)
      BY <1>2
    <2> QED
      BY <2>1, LikeSound, ContentType
  <1>4. c \in [0 .. n -> [Lines(st) -> AnyText]]
    BY <1>3
  <1>5. c[0] = Content(st) /\ c[n] = Content(SwapEach(st, ls, d))
    BY <1>1, <1>2
  <1>6. ASSUME NEW k \in 1 .. n
        PROVE  c[k] = Exchanged(c[k - 1], ls[k], ls[k] + d)
    <2>1. k - 1 \in 0 .. n /\ k \in 0 .. n
      BY <1>1
    <2>2. PICK s \in Like(st) : s = t[k - 1]
      BY <1>2, <2>1
    <2>3. Sound(s) /\ ls[k] \in OnScreen(s) /\ ls[k] + d \in OnScreen(s)
      BY <1>1, <2>2, LikeSound
    <2>4. Content(swap(s, ls[k], ls[k] + d)) = Exchanged(Content(s), ls[k], ls[k] + d)
      BY <2>3, SwapContent
    <2> QED
      BY <1>2, <2>1, <2>2, <2>4
  <1> HIDE DEF c
  <1> QED
    BY <1>4, <1>5, <1>6 DEF TextTrace

-----------------------------------------------------------------------------
(* What a run of exchanges with lines w further makes of the text. *)

(* Upwards from a, after k of them: k lines have come from w below, what   *)
(* they replaced is between, the rest is as it was.                        *)
Up(L, c0, c, a, w, k) ==
    /\ \A m \in L : a <= m /\ m < a + k => c[m] = c0[m + w]
    /\ \A m \in L : m < a \/ m >= a + k + w => c[m] = c0[m]
    /\ \A m \in L : a + k <= m /\ m < a + k + w => \E j \in a .. a + w - 1 : c[m] = c0[j]

(* Downwards from b - 1, after k of them: k lines have come from w above,  *)
(* the w lines above these are not described.                              *)
Down(L, c0, c, b, w, k) ==
    /\ \A m \in L : b - k <= m /\ m < b => c[m] = c0[m - w]
    /\ \A m \in L : m >= b \/ m < b - k - w => c[m] = c0[m]

(* The order of the two lines does not matter. *)
LEMMA ExchangedSym ==
    ASSUME NEW c, NEW x, NEW y
    PROVE  Exchanged(c, y, x) = Exchanged(c, x, y)
  <1>1. \A l \in DOMAIN c : (IF l = y THEN c[x] ELSE IF l = x THEN c[y] ELSE c[l])
                      = (IF l = x THEN c[y] ELSE IF l = y THEN c[x] ELSE c[l])
    OBVIOUS
  <1> QED
    BY <1>1 DEF Exchanged

LEMMA UpStep ==
    ASSUME NEW L \in SUBSET Int, NEW V, NEW c0 \in [L -> V], NEW c \in [L -> V],
           NEW a \in Int, NEW w \in Nat, NEW k \in Nat, Up(L, c0, c, a, w, k),
           a + k \in L, a + k + w \in L
    PROVE  Up(L, c0, Exchanged(c, a + k, a + k + w), a, w, k + 1)
  <1>1. PICK x, y, e : x = a + k /\ y = a + k + w /\ e = Exchanged(c, x, y)
    OBVIOUS
  <1>2. /\ x \in L /\ y \in L /\ x \in Int /\ y \in Int
        /\ \A m \in L : e[m] = IF m = x THEN c[y] ELSE IF m = y THEN c[x] ELSE c[m]
    <2>1. /\ x \in L /\ y \in L /\ x \in Int /\ y \in Int
      BY <1>1
    <2>2. DOMAIN c = L
      OBVIOUS
    <2> QED
      BY ONLY <1>1, <2>1, <2>2 DEF Exchanged
  <1>3. /\ \A m \in L : a <= m /\ m < a + k => c[m] = c0[m + w]
        /\ \A m \in L : m < a \/ m >= a + k + w => c[m] = c0[m]
        /\ \A m \in L : a + k <= m /\ m < a + k + w => \E j \in a .. a + w - 1 : c[m] = c0[j]
    BY DEF Up
  <1>4. ASSUME NEW m \in L, a <= m, m < a + (k + 1)
        PROVE  e[m] = c0[m + w]
    <2>1. m \in Int
      OBVIOUS
    <2>2. CASE m = x
      <3>1. e[m] = c[y] /\ c[y] = c0[y]
        BY <1>1, <1>2, <1>3, <2>2
      <3>2. y = m + w
        BY <1>1, <2>2
      <3> QED
        BY <3>1, <3>2
    <2>3. CASE m # x
      <3>1. m < a + k /\ m # y
        BY <1>1, <1>4, <2>1, <2>3
      <3> QED
        BY <1>2, <1>3, <1>4, <2>3, <3>1
    <2> QED
      BY <2>2, <2>3
  <1>5. ASSUME NEW m \in L, m < a \/ m >= a + (k + 1) + w
        PROVE  e[m] = c0[m]
    <2>1. m # x /\ m # y /\ (m < a \/ m >= a + k + w)
      BY <1>1, <1>5
    <2> QED
      BY <1>2, <1>3, <2>1
  <1>6. ASSUME NEW m \in L, a + (k + 1) <= m, m < a + (k + 1) + w
        PROVE  \E j \in a .. a + w - 1 : e[m] = c0[j]
    <2>1. m # x
      BY <1>1, <1>6
    <2>2. CASE m = y
      <3>1. e[m] = c[x]
        BY <1>2, <2>1, <2>2
      <3>2. a + k <= x /\ x < a + k + w
        BY <1>1, <1>6, <2>2
      <3> QED
        BY <1>2, <1>3, <3>1, <3>2
    <2>3. CASE m # y
      <3>1. a + k <= m /\ m < a + k + w
        BY <1>1, <1>6, <2>3
      <3>2. e[m] = c[m]
        BY <1>2, <2>1, <2>3
      <3> QED
        BY <1>3, <3>1, <3>2
    <2> QED
      BY <2>2, <2>3
  <1>7. Up(L, c0, e, a, w, k + 1)
    BY <1>4, <1>5, <1>6 DEF Up
  <1> QED
    BY <1>1, <1>7

LEMMA DownStep ==
    ASSUME NEW L \in SUBSET Int, NEW V, NEW c0 \in [L -> V], NEW c \in [L -> V],
           NEW b \in Int, NEW w \in Nat, NEW k \in Nat, Down(L, c0, c, b, w, k),
           b - k - 1 \in L, b - k - 1 - w \in L
    PROVE  Down(L, c0, Exchanged(c, b - k - 1, b - k - 1 - w), b, w, k + 1)
  <1>1. PICK x, y, e : x = b - k - 1 /\ y = b - k - 1 - w /\ e = Exchanged(c, x, y)
    OBVIOUS
  <1>2. /\ x \in L /\ y \in L /\ x \in Int /\ y \in Int
        /\ \A m \in L : e[m] = IF m = x THEN c[y] ELSE IF m = y THEN c[x] ELSE c[m]
    <2>1. /\ x \in L /\ y \in L /\ x \in Int /\ y \in Int
      BY <1>1
    <2>2. DOMAIN c = L
      OBVIOUS
    <2> QED
      BY ONLY <1>1, <2>1, <2>2 DEF Exchanged
  <1>3. /\ \A m \in L : b - k <= m /\ m < b => c[m] = c0[m - w]
        /\ \A m \in L : m >= b \/ m < b - k - w => c[m] = c0[m]
    BY DEF Down
  <1>4. ASSUME NEW m \in L, b - (k + 1) <= m, m < b
        PROVE  e[m] = c0[m - w]
    <2>1. m \in Int
      OBVIOUS
    <2>2. CASE m = x
      <3>1. y < b - k - w /\ y = m - w
        BY <1>1, <2>2
      <3>2. e[m] = c[y] /\ c[y] = c0[y]
        BY <1>2, <1>3, <2>2, <3>1
      <3> QED
        BY <3>1, <3>2
    <2>3. CASE m # x
      <3>1. b - k <= m /\ m # y
        BY <1>1, <1>4, <2>1, <2>3
      <3> QED
        BY <1>2, <1>3, <1>4, <2>3, <3>1
    <2> QED
      BY <2>2, <2>3
  <1>5. ASSUME NEW m \in L, m >= b \/ m < b - (k + 1) - w
        PROVE  e[m] = c0[m]
    <2>1. m # x /\ m # y /\ (m >= b \/ m < b - k - w)
      BY <1>1, <1>5
    <2> QED
      BY <1>2, <1>3, <2>1
  <1>6. Down(L, c0, e, b, w, k + 1)
    BY <1>4, <1>5 DEF Down
  <1> QED
    BY <1>1, <1>6

(* All n exchanges upwards. *)
LEMMA UpAll ==
    ASSUME NEW L \in SUBSET Int, NEW V, NEW n \in Nat, NEW c \in [0 .. n -> [L -> V]],
           NEW a \in Int, NEW w \in Nat,
           \A k \in 1 .. n : /\ a + k - 1 \in L /\ a + k - 1 + w \in L
                             /\ \/ c[k] = Exchanged(c[k - 1], a + k - 1, a + k - 1 + w)
                                \/ c[k] = Exchanged(c[k - 1], a + k - 1 + w, a + k - 1)
    PROVE  Up(L, c[0], c[n], a, w, n)
  <1> DEFINE Q == {k \in 0 .. n : Up(L, c[0], c[k], a, w, k)}
  <1>1. c[0] \in [L -> V]
    OBVIOUS
  <1>2. Up(L, c[0], c[0], a, w, 0)
    <2>1. \A m \in L : a <= m /\ m < a + w => m \in a .. a + w - 1
      OBVIOUS
    <2> QED
      BY <2>1 DEF Up
  <1>3. 0 \in Q
    BY <1>2
  <1>4. ASSUME NEW k \in 1 .. n, k - 1 \in Q
        PROVE  k \in Q
    <2>1. PICK i \in Nat : i = k - 1
      OBVIOUS
    <2>2. /\ i \in 0 .. n /\ k = i + 1 /\ a + k - 1 = a + i /\ a + k - 1 + w = a + i + w
      BY <2>1
    <2>3. Up(L, c[0], c[i], a, w, i)
      BY <1>4, <2>1
    <2>4. PICK d, x, y : d = c[i] /\ x = a + i /\ y = a + i + w
      OBVIOUS
    <2>5. d \in [L -> V] /\ x \in L /\ y \in L
      BY <2>2, <2>4
    <2>6. c[k] = Exchanged(d, x, y)
      <3>1. c[k] = Exchanged(d, x, y) \/ c[k] = Exchanged(d, y, x)
        BY <2>1, <2>2, <2>4
      <3>2. Exchanged(d, y, x) = Exchanged(d, x, y)
        BY ONLY ExchangedSym
      <3> QED
        BY ONLY <3>1, <3>2
    <2>7. Up(L, c[0], Exchanged(d, x, y), a, w, i + 1)
      BY <1>1, <2>3, <2>4, <2>5, UpStep
    <2> QED
      BY <2>2, <2>6, <2>7
  <1>5. Q \in SUBSET (0 .. n)
    OBVIOUS
  <1> HIDE DEF Q
  <1>6. n \in Q
    <2>1. \A k \in 0 .. n : k \in Q
      BY <1>3, <1>4, <1>5, Stages
    <2> QED
      BY <2>1
  <1> QED
    BY <1>6 DEF Q

(* All n exchanges downwards. *)
LEMMA DownAll ==
    ASSUME NEW L \in SUBSET Int, NEW V, NEW n \in Nat, NEW c \in [0 .. n -> [L -> V]],
           NEW b \in Int, NEW w \in Nat,
           \A k \in 1 .. n : /\ b - k \in L /\ b - k - w \in L
                             /\ c[k] = Exchanged(c[k - 1], b - k, b - k - w)
    PROVE  Down(L, c[0], c[n], b, w, n)
  <1> DEFINE Q == {k \in 0 .. n : Down(L, c[0], c[k], b, w, k)}
  <1>1. c[0] \in [L -> V]
    OBVIOUS
  <1>2. Down(L, c[0], c[0], b, w, 0)
    BY DEF Down
  <1>3. 0 \in Q
    BY <1>2
  <1>4. ASSUME NEW k \in 1 .. n, k - 1 \in Q
        PROVE  k \in Q
    <2>1. PICK i \in Nat : i = k - 1
      OBVIOUS
    <2>2. /\ i \in 0 .. n /\ k = i + 1 /\ b - k = b - i - 1 /\ b - k - w = b - i - 1 - w
      BY <2>1
    <2>3. Down(L, c[0], c[i], b, w, i)
      BY <1>4, <2>1
    <2>4. PICK d, x, y : d = c[i] /\ x = b - i - 1 /\ y = b - i - 1 - w
      OBVIOUS
    <2>5. d \in [L -> V] /\ x \in L /\ y \in L
      BY <2>2, <2>4
    <2>6. c[k] = Exchanged(d, x, y)
      BY <2>1, <2>2, <2>4
    <2>7. Down(L, c[0], Exchanged(d, x, y), b, w, i + 1)
      BY <1>1, <2>3, <2>4, <2>5, DownStep
    <2> QED
      BY <2>2, <2>6, <2>7
  <1>5. Q \in SUBSET (0 .. n)
    OBVIOUS
  <1> HIDE DEF Q
  <1>6. n \in Q
    <2>1. \A k \in 0 .. n : k \in Q
      BY <1>3, <1>4, <1>5, Stages
    <2> QED
      BY <2>1
  <1> QED
    BY <1>6 DEF Q

-----------------------------------------------------------------------------
(* Moving, growing and shrinking the ring. *)

(* A storage with the bounds of a ring, whatever its screen. *)
Ring(st) ==
    /\ st \in StoreType
    /\ 1 <= st.len
    /\ st.len <= Len(st.inner)
    /\ st.zero < Len(st.inner)

LEMMA SoundIsRing ==
    ASSUME NEW st
    PROVE  Sound(st) <=> Ring(st) /\ 1 <= st.visible_lines /\ st.visible_lines <= st.len
  <1>1. st \in StoreType => st.visible_lines \in Nat /\ st.len \in Nat
    BY DEF StoreType
  <1> QED
    BY <1>1 DEF Sound, Ring

(* The fields of a ring are those of a record. *)
LEMMA RingFields ==
    ASSUME NEW st, Ring(st)
    PROVE  /\ st = [inner |-> st.inner, zero |-> st.zero,
                    visible_lines |-> st.visible_lines, len |-> st.len]
           /\ st.inner \in Seq(RowType) /\ st.zero \in Nat /\ st.visible_lines \in Nat
           /\ st.len \in Nat /\ Len(st.inner) \in Nat
           /\ 1 <= st.len /\ st.len <= Len(st.inner) /\ st.zero < Len(st.inner)
  BY DEF Ring, StoreType

(* A remainder is below the divisor. *)
LEMMA ModRange ==
    ASSUME NEW a \in Int, NEW n \in Nat, n > 0
    PROVE  a % n \in Nat /\ a % n < n
  OBVIOUS

(* rotate and rotate_down move the origin only. *)
LEMMA OriginRing ==
    ASSUME NEW st, Ring(st), NEW z \in Nat, z < Len(st.inner), NEW t, t = [st EXCEPT !.zero = z]
    PROVE  /\ Ring(t) /\ t.visible_lines = st.visible_lines /\ t.len = st.len
           /\ Len(t.inner) = Len(st.inner)
  <1>1. t = [inner |-> st.inner, zero |-> z,
             visible_lines |-> st.visible_lines, len |-> st.len]
    BY DEF Ring, StoreType
  <1> QED
    BY <1>1, RingFields DEF Ring, StoreType

LEMMA RotateRing ==
    ASSUME NEW st, Ring(st), NEW count \in Int
    PROVE  /\ Ring(rotate(st, count))
           /\ rotate(st, count).visible_lines = st.visible_lines
           /\ rotate(st, count).len = st.len
           /\ Ring(rotate_down(st, count))
           /\ rotate_down(st, count).visible_lines = st.visible_lines
           /\ rotate_down(st, count).len = st.len
  <1>1. st.zero \in Nat /\ Len(st.inner) \in Nat /\ Len(st.inner) > 0
    BY RingFields
  <1>2. PICK n \in Nat : n = Len(st.inner) /\ n > 0
    BY <1>1
  <1>3. PICK y, z : y = (st.zero + count + n) % n /\ z = (st.zero + count) % n
    OBVIOUS
  <1>4. y \in Nat /\ y < n /\ z \in Nat /\ z < n
    <2>1. st.zero + count + n \in Int /\ st.zero + count \in Int
      BY <1>1
    <2> QED
      BY <1>2, <1>3, <2>1, ModRange
  <1>5. rotate(st, count) = [st EXCEPT !.zero = y]
    BY <1>2, <1>3 DEF rotate, Capacity
  <1>6. rotate_down(st, count) = [st EXCEPT !.zero = z]
    BY <1>2, <1>3 DEF rotate_down, Capacity
  <1> QED
    BY <1>2, <1>4, <1>5, <1>6, OriginRing

(* rezero keeps the number of rows. *)
LEMMA RezeroRing ==
    ASSUME NEW st, Ring(st)
    PROVE  /\ Ring(rezero(st))
           /\ rezero(st).zero = 0
           /\ rezero(st).visible_lines = st.visible_lines
           /\ rezero(st).len = st.len
           /\ Len(rezero(st).inner) = Len(st.inner)
  <1> DEFINE n == Len(st.inner)
             z == st.zero
             front == SubSeq(st.inner, z + 1, n)
             back == SubSeq(st.inner, 1, z)
  <1>1. st.inner \in Seq(RowType) /\ z \in Nat /\ n \in Nat /\ z < n
    BY RingFields
  <1>2. front \in Seq(RowType) /\ Len(front) = n - z
    BY <1>1
  <1>3. back \in Seq(RowType) /\ Len(back) = z
    BY <1>1
  <1>4. PICK both : both = front \o back
    OBVIOUS
  <1>5. rezero(st) = [st EXCEPT !.inner = both, !.zero = 0]
    BY <1>4 DEF rezero, Capacity
  <1> HIDE DEF front, back
  <1>6. both \in Seq(RowType) /\ Len(both) = n
    <2>1. both \in Seq(RowType) /\ Len(both) = Len(front) + Len(back)
      BY ONLY <1>2, <1>3, <1>4, ConcatProperties
    <2> QED
      BY <1>1, <1>2, <1>3, <2>1
  <1>7. rezero(st) = [inner |-> both, zero |-> 0,
                      visible_lines |-> st.visible_lines, len |-> st.len]
    BY <1>5 DEF Ring, StoreType
  <1> QED
    BY <1>1, <1>6, <1>7, RingFields DEF Ring, StoreType

(* shrink_lines drops rows from the count, and frees them when many. *)
LEMMA ShrinkRing ==
    ASSUME NEW st, Ring(st), NEW n \in Nat, 1 <= st.len - n
    PROVE  /\ Ring(shrink_lines(st, n))
           /\ shrink_lines(st, n).visible_lines = st.visible_lines
           /\ shrink_lines(st, n).len = st.len - n
  <1>1. PICK s : s = [st EXCEPT !.len = st.len - n]
    OBVIOUS
  <1>2. s = [inner |-> st.inner, zero |-> st.zero,
             visible_lines |-> st.visible_lines, len |-> st.len - n]
    BY <1>1 DEF Ring, StoreType
  <1>3. Ring(s) /\ s.visible_lines = st.visible_lines /\ s.len = st.len - n
    BY <1>2, RingFields DEF Ring, StoreType
  <1>4. shrink_lines(st, n) = s \/ shrink_lines(st, n) = truncate(s)
    BY <1>1 DEF shrink_lines
  <1>5. Ring(truncate(s)) /\ truncate(s).visible_lines = s.visible_lines /\ truncate(s).len = s.len
    <2>1. PICK r : r = rezero(s)
      OBVIOUS
    <2>2. Ring(r) /\ r.zero = 0 /\ r.visible_lines = s.visible_lines /\ r.len = s.len
      BY <1>3, <2>1, RezeroRing
    <2>3. PICK q : q = SubSeq(r.inner, 1, r.len)
      OBVIOUS
    <2>4. q \in Seq(RowType) /\ Len(q) = r.len
      BY <2>2, <2>3, RingFields
    <2>5. truncate(s) = [r EXCEPT !.inner = q]
      BY <2>1, <2>3 DEF truncate
    <2>6. truncate(s) = [inner |-> q, zero |-> r.zero,
                         visible_lines |-> r.visible_lines, len |-> r.len]
      BY <2>2, <2>5 DEF Ring, StoreType
    <2> QED
      BY <2>2, <2>4, <2>6, RingFields DEF Ring, StoreType
  <1> QED
    BY <1>3, <1>4, <1>5

(* initialize allocates at least the rows that are missing. *)
LEMMA InitializeRing ==
    ASSUME NEW st, Ring(st), NEW n \in Nat
    PROVE  /\ Ring(initialize(st, n))
           /\ initialize(st, n).visible_lines = st.visible_lines
           /\ initialize(st, n).len = st.len + n
  <1>1. MAX_CACHE_SIZE \in Nat
    BY GridConstantsAssumption
  <1>2. PICK k : k = GrowthOf(n)
    OBVIOUS
  <1>3. k \in Nat /\ n <= k
    BY <1>1, <1>2 DEF GrowthOf
  <1>4. PICK r : r = rezero(st)
    OBVIOUS
  <1>5. /\ Ring(r) /\ r.zero = 0 /\ r.visible_lines = st.visible_lines
        /\ r.len = st.len /\ Len(r.inner) = Len(st.inner)
    BY <1>4, RezeroRing
  <1>6. PICK fresh : fresh = [i \in 1 .. k |-> BlankRow]
    OBVIOUS
  <1>7. fresh \in Seq(RowType) /\ Len(fresh) = k
    BY <1>3, <1>6, BlankRowType
  <1>8. PICK q : q = r.inner \o fresh
    OBVIOUS
  <1>9. q \in Seq(RowType) /\ Len(q) = Len(st.inner) + k
    <2>1. r.inner \in Seq(RowType)
      BY <1>5, RingFields
    <2>2. q \in Seq(RowType) /\ Len(q) = Len(r.inner) + Len(fresh)
      BY ONLY <1>7, <1>8, <2>1, ConcatProperties
    <2> QED
      BY <1>5, <1>7, <2>2
  <1>10. PICK s : s = IF st.len + n > Len(st.inner) THEN [r EXCEPT !.inner = q] ELSE st
    OBVIOUS
  <1>11. initialize(st, n) = [s EXCEPT !.len = st.len + n]
    BY <1>2, <1>4, <1>6, <1>8, <1>10 DEF initialize, Capacity
  <1>12. /\ s.inner \in Seq(RowType) /\ s.zero \in Nat /\ s.visible_lines = st.visible_lines
         /\ s.zero < Len(s.inner) /\ st.len + n <= Len(s.inner)
         /\ s = [inner |-> s.inner, zero |-> s.zero,
                 visible_lines |-> s.visible_lines, len |-> s.len]
    <2>1. CASE st.len + n > Len(st.inner)
      <3>1. s = [inner |-> q, zero |-> r.zero, visible_lines |-> r.visible_lines, len |-> r.len]
        BY <1>5, <1>10, <2>1 DEF Ring, StoreType
      <3>2. /\ Len(st.inner) \in Nat /\ st.len \in Nat /\ st.len <= Len(st.inner)
            /\ 1 <= st.len
        BY RingFields
      <3>3. 0 < Len(st.inner) + k /\ st.len + n <= Len(st.inner) + k
        BY <1>3, <3>2
      <3> QED
        BY <1>5, <1>9, <3>1, <3>3
    <2>2. CASE ~(st.len + n > Len(st.inner))
      <3>1. s = st
        BY <1>10, <2>2
      <3>2. Len(st.inner) \in Nat /\ st.len \in Nat
        BY RingFields
      <3>3. st.len + n <= Len(st.inner)
        BY <2>2, <3>2
      <3> QED
        BY <3>1, <3>3, RingFields
    <2> QED
      BY <2>1, <2>2
  <1>13. initialize(st, n) = [inner |-> s.inner, zero |-> s.zero,
                              visible_lines |-> s.visible_lines, len |-> st.len + n]
    BY <1>11, <1>12
  <1>14. st.len + n \in Nat /\ 1 <= st.len + n /\ st.visible_lines \in Nat
    BY RingFields
  <1> QED
    BY <1>12, <1>13, <1>14 DEF Ring, StoreType

(* Changing the number of visible lines. *)
LEMMA VisibleRing ==
    ASSUME NEW st, Ring(st), NEW v \in Nat, NEW t, t = [st EXCEPT !.visible_lines = v]
    PROVE  Ring(t) /\ t.visible_lines = v /\ t.len = st.len
  <1>1. t = [inner |-> st.inner, zero |-> st.zero, visible_lines |-> v, len |-> st.len]
    BY DEF Ring, StoreType
  <1> QED
    BY <1>1, RingFields DEF Ring, StoreType

-----------------------------------------------------------------------------
(* Where the rows are afterwards. *)

(* The row at a distance from the bottom of the screen. *)
RowPos(st, p) == st.inner[Wrap(st, st.zero + p) + 1]

LEMMA RowAtPos ==
    ASSUME NEW st, st.zero \in Int, st.visible_lines \in Int, NEW line \in Int,
           NEW p, p = st.visible_lines - 1 - line
    PROVE  RowAt(st, line) = RowPos(st, p)
  <1>1. st.zero + (-(line - st.visible_lines) - 1) = st.zero + p
    OBVIOUS
  <1> QED
    BY <1>1 DEF RowAt, compute_index, RowPos

(* rezero keeps the order of the ring. *)
LEMMA RezeroPos ==
    ASSUME NEW st, Ring(st), NEW p \in 0 .. Len(st.inner) - 1
    PROVE  RowPos(rezero(st), p) = RowPos(st, p)
  <1>1. st.inner \in Seq(RowType) /\ st.zero \in Nat /\ Len(st.inner) \in Nat /\ st.zero < Len(st.inner)
    BY RingFields
  <1>2. PICK s, n, z : s = st.inner /\ n = Len(s) /\ z = st.zero
    OBVIOUS
  <1>3. s \in Seq(RowType) /\ n = Len(s) /\ n \in Nat /\ z \in Nat /\ z < n /\ p \in 0 .. n - 1
    BY <1>1, <1>2
  <1>4. PICK front, back, both : /\ front = SubSeq(s, z + 1, n) /\ back = SubSeq(s, 1, z)
                                 /\ both = front \o back
    OBVIOUS
  <1>5. /\ front \in Seq(RowType) /\ Len(front) = n - z
        /\ \A i \in 1 .. n - z : front[i] = s[z + i]
    <2>1. /\ front \in Seq(RowType) /\ Len(front) = n - (z + 1) + 1
          /\ \A i \in 1 .. n - (z + 1) + 1 : front[i] = s[z + 1 + i - 1]
      BY ONLY <1>3, <1>4, SubSeqProperties
    <2> QED
      BY <1>3, <2>1
  <1>6. /\ back \in Seq(RowType) /\ Len(back) = z /\ \A i \in 1 .. z : back[i] = s[i]
    BY <1>3, <1>4
  <1>7. /\ Len(both) = Len(front) + Len(back)
        /\ \A i \in 1 .. Len(front) + Len(back) :
              both[i] = IF i <= Len(front) THEN front[i] ELSE back[i - Len(front)]
    <2>1. both = front \o back /\ front \in Seq(RowType) /\ back \in Seq(RowType)
      BY <1>4, <1>5, <1>6
    <2> QED
      BY ONLY <2>1, ConcatProperties
  <1>8. PICK r : r = rezero(st)
    OBVIOUS
  <1>9. r.inner = both /\ r.zero = 0
    BY <1>1, <1>2, <1>4, <1>8 DEF rezero, Capacity, Ring, StoreType
  <1>10. RowPos(r, p) = both[p + 1]
    <2>1. Len(both) = n
      BY <1>3, <1>5, <1>6, <1>7
    <2> QED
      BY <1>3, <1>9, <2>1 DEF RowPos, Wrap, Capacity
  <1>11. RowPos(st, p) = s[(IF z + p >= n THEN z + p - n ELSE z + p) + 1]
    BY <1>2, <1>3 DEF RowPos, Wrap, Capacity
  <1>12. CASE z + p >= n
    <2>1. /\ p + 1 \in 1 .. Len(front) + Len(back) /\ ~(p + 1 <= Len(front))
          /\ p + 1 - Len(front) \in 1 .. z
          /\ p + 1 - Len(front) = z + p - n + 1
      BY <1>3, <1>5, <1>6, <1>12
    <2>2. both[p + 1] = back[p + 1 - Len(front)]
      BY <1>7, <2>1
    <2>3. both[p + 1] = s[z + p - n + 1]
      BY <1>6, <2>1, <2>2
    <2> QED
      BY <1>8, <1>10, <1>11, <1>12, <2>3
  <1>13. CASE ~(z + p >= n)
    <2>1. /\ p + 1 \in 1 .. Len(front) + Len(back) /\ p + 1 <= Len(front)
          /\ p + 1 \in 1 .. n - z /\ z + (p + 1) = z + p + 1
      BY <1>3, <1>5, <1>6, <1>13
    <2>2. both[p + 1] = front[p + 1]
      BY <1>7, <2>1
    <2>3. both[p + 1] = s[z + p + 1]
      BY <1>5, <2>1, <2>2
    <2> QED
      BY <1>8, <1>10, <1>11, <1>13, <2>3
  <1> QED
    BY <1>12, <1>13

(* A row of a ring that starts at the front is at its distance. *)
LEMMA FrontPos ==
    ASSUME NEW st, st.zero = 0, NEW p \in Nat, p < Len(st.inner), Len(st.inner) \in Nat
    PROVE  RowPos(st, p) = st.inner[p + 1]
  BY DEF RowPos, Wrap, Capacity

(* Only the allocation and the origin say where a row is. *)
LEMMA SamePos ==
    ASSUME NEW st, NEW t, t.inner = st.inner, t.zero = st.zero, NEW p
    PROVE  RowPos(t, p) = RowPos(st, p)
  BY DEF RowPos, Wrap, Capacity

(* shrink_lines keeps the rows that remain. *)
LEMMA ShrinkPos ==
    ASSUME NEW st, Ring(st), NEW n \in Nat, 1 <= st.len - n, NEW p \in 0 .. st.len - n - 1
    PROVE  RowPos(shrink_lines(st, n), p) = RowPos(st, p)
  <1>0. st.len \in Nat /\ Len(st.inner) \in Nat /\ st.len <= Len(st.inner)
    BY RingFields
  <1>1. PICK s : s = [st EXCEPT !.len = st.len - n]
    OBVIOUS
  <1>2. s = [inner |-> st.inner, zero |-> st.zero,
             visible_lines |-> st.visible_lines, len |-> st.len - n]
    BY <1>1 DEF Ring, StoreType
  <1>3. Ring(s) /\ s.len = st.len - n /\ s.inner = st.inner /\ s.zero = st.zero
    BY <1>2, RingFields DEF Ring, StoreType
  <1>4. RowPos(s, p) = RowPos(st, p)
    BY <1>3, SamePos
  <1>5. shrink_lines(st, n) = s \/ shrink_lines(st, n) = truncate(s)
    BY <1>1 DEF shrink_lines
  <1>6. RowPos(truncate(s), p) = RowPos(s, p)
    <2>1. PICK r : r = rezero(s)
      OBVIOUS
    <2>2. Ring(r) /\ r.zero = 0 /\ r.len = s.len /\ Len(r.inner) = Len(s.inner)
      BY <1>3, <2>1, RezeroRing
    <2>3. RowPos(r, p) = RowPos(s, p)
      BY <1>0, <1>3, <2>1, RezeroPos
    <2>4. /\ r.inner \in Seq(RowType) /\ r.len \in Nat /\ r.len <= Len(r.inner)
          /\ Len(r.inner) \in Nat
      BY <2>2, RingFields
    <2>5. PICK q : q = SubSeq(r.inner, 1, r.len)
      OBVIOUS
    <2>6. Len(q) = r.len /\ \A i \in 1 .. r.len : q[i] = r.inner[i]
      BY <2>4, <2>5
    <2>7. PICK u : u = truncate(s)
      OBVIOUS
    <2>8. u.inner = q /\ u.zero = 0
      BY <2>1, <2>2, <2>5, <2>7 DEF truncate, Ring, StoreType
    <2>9. p \in Nat /\ p < r.len /\ p + 1 \in 1 .. r.len
      BY <1>0, <1>3, <2>2
    <2>10. RowPos(u, p) = q[p + 1]
      BY <2>4, <2>6, <2>8, <2>9, FrontPos
    <2>11. RowPos(r, p) = r.inner[p + 1]
      BY <2>2, <2>4, <2>9, FrontPos
    <2> QED
      BY <2>3, <2>6, <2>7, <2>9, <2>10, <2>11
  <1> QED
    BY <1>4, <1>5, <1>6

(* initialize keeps the rows there were. *)
LEMMA InitializePos ==
    ASSUME NEW st, Ring(st), NEW n \in Nat, NEW p \in 0 .. st.len - 1
    PROVE  RowPos(initialize(st, n), p) = RowPos(st, p)
  <1>0. /\ st.len \in Nat /\ Len(st.inner) \in Nat /\ st.len <= Len(st.inner)
        /\ p \in Nat /\ p < Len(st.inner) /\ p \in 0 .. Len(st.inner) - 1
    BY RingFields
  <1>1. PICK k : k = GrowthOf(n)
    OBVIOUS
  <1>2. k \in Nat
    BY <1>1, GridConstantsAssumption DEF GrowthOf
  <1>3. PICK r : r = rezero(st)
    OBVIOUS
  <1>4. /\ Ring(r) /\ r.zero = 0 /\ Len(r.inner) = Len(st.inner)
    BY <1>3, RezeroRing
  <1>5. PICK fresh : fresh = [i \in 1 .. k |-> BlankRow]
    OBVIOUS
  <1>6. fresh \in Seq(RowType) /\ Len(fresh) = k
    BY <1>2, <1>5, BlankRowType
  <1>7. PICK q : q = r.inner \o fresh
    OBVIOUS
  <1>8. r.inner \in Seq(RowType)
    BY <1>4, RingFields
  <1>9. /\ Len(q) = Len(r.inner) + Len(fresh)
        /\ \A i \in 1 .. Len(r.inner) + Len(fresh) :
              q[i] = IF i <= Len(r.inner) THEN r.inner[i] ELSE fresh[i - Len(r.inner)]
    BY ONLY <1>6, <1>7, <1>8, ConcatProperties
  <1>10. PICK s : s = IF st.len + n > Len(st.inner) THEN [r EXCEPT !.inner = q] ELSE st
    OBVIOUS
  <1>11. PICK i : i = initialize(st, n)
    OBVIOUS
  <1>12. i = [s EXCEPT !.len = st.len + n]
    BY <1>1, <1>3, <1>5, <1>7, <1>10, <1>11 DEF initialize, Capacity
  <1>13. CASE st.len + n > Len(st.inner)
    <2>1. s = [inner |-> q, zero |-> r.zero, visible_lines |-> r.visible_lines, len |-> r.len]
      BY <1>4, <1>10, <1>13 DEF Ring, StoreType
    <2>2. i.inner = q /\ i.zero = 0
      BY <1>4, <1>12, <2>1
    <2>3. p < Len(q) /\ Len(q) \in Nat /\ p + 1 \in 1 .. Len(r.inner) + Len(fresh) /\ p + 1 <= Len(r.inner)
      BY <1>0, <1>2, <1>4, <1>6, <1>9
    <2>4. RowPos(i, p) = q[p + 1]
      BY <1>0, <2>2, <2>3, FrontPos
    <2>5. RowPos(r, p) = r.inner[p + 1]
      BY <1>0, <1>4, FrontPos
    <2>6. q[p + 1] = r.inner[p + 1]
      BY <1>9, <2>3
    <2>7. RowPos(r, p) = RowPos(st, p)
      BY <1>0, <1>3, RezeroPos
    <2> QED
      BY <1>11, <2>4, <2>5, <2>6, <2>7
  <1>14. CASE ~(st.len + n > Len(st.inner))
    <2>1. i.inner = st.inner /\ i.zero = st.zero
      BY <1>10, <1>12, <1>14 DEF Ring, StoreType
    <2> QED
      BY <1>11, <2>1, SamePos
  <1> QED
    BY <1>13, <1>14

(* A remainder where one subtraction is enough. *)
LEMMA ModOnce ==
    ASSUME NEW a \in Nat, NEW n \in Nat, n > 0, a < 2 * n
    PROVE  a % n = IF a >= n THEN a - n ELSE a
  <1>1. CASE a < n
    BY <1>1
  <1>2. CASE a >= n
    BY <1>2
  <1> QED
    BY <1>1, <1>2

(* The remainder of a number between two and three times the divisor. *)
LEMMA ModTwice ==
    ASSUME NEW a \in Nat, NEW n \in Nat, n > 0, 2 * n <= a, a < 3 * n
    PROVE  a % n = a - 2 * n
  OBVIOUS

(* Moving the origin of a ring by c shows every row at c less. *)
LEMMA OriginPos ==
    ASSUME NEW n \in Nat, NEW z \in Nat, z < n, NEW c \in Int, NEW p \in 0 .. n - 1,
           p + c \in 0 .. n - 1, NEW m,
           m = IF z + c >= n THEN z + c - n ELSE IF z + c >= 0 THEN z + c ELSE z + c + n
    PROVE  (IF m + p >= n THEN m + p - n ELSE m + p)
              = (IF z + (p + c) >= n THEN z + (p + c) - n ELSE z + (p + c))
  OBVIOUS

LEMMA RotatePos ==
    ASSUME NEW st, Ring(st), NEW c \in Int, c <= Len(st.inner), -c <= Len(st.inner),
           NEW p \in 0 .. Len(st.inner) - 1, p + c \in 0 .. Len(st.inner) - 1
    PROVE  /\ RowPos(rotate(st, c), p) = RowPos(st, p + c)
           /\ c >= 0 => RowPos(rotate_down(st, c), p) = RowPos(st, p + c)
  <1>1. PICK n, z : n = Len(st.inner) /\ z = st.zero
    OBVIOUS
  <1>2. /\ n \in Nat /\ z \in Nat /\ z < n /\ n > 0 /\ c \in Int /\ c <= n /\ -c <= n
        /\ p \in 0 .. n - 1 /\ p + c \in 0 .. n - 1
    BY <1>1, RingFields
  <1>3. PICK m : m = IF z + c >= n THEN z + c - n ELSE IF z + c >= 0 THEN z + c ELSE z + c + n
    OBVIOUS
  <1>4. PICK a, y : a = z + c + n /\ y = a % n
    OBVIOUS
  <1>5. a \in Nat /\ a < 3 * n
    BY ONLY <1>2, <1>4
  <1>6. y = m
    <2>1. CASE a < 2 * n
      <3>1. y = IF a >= n THEN a - n ELSE a
        BY ONLY <1>2, <1>4, <1>5, <2>1, ModOnce
      <3> QED
        BY ONLY <1>2, <1>3, <1>4, <3>1, <2>1
    <2>2. CASE ~(a < 2 * n)
      <3>1. y = a - 2 * n
        BY ONLY <1>2, <1>4, <1>5, <2>2, ModTwice
      <3> QED
        BY ONLY <1>2, <1>3, <1>4, <3>1, <2>2
    <2> QED
      BY <2>1, <2>2
  <1>7. (IF m + p >= n THEN m + p - n ELSE m + p)
              = (IF z + (p + c) >= n THEN z + (p + c) - n ELSE z + (p + c))
    BY ONLY <1>2, <1>3, OriginPos
  <1>8. RowPos(st, p + c) = st.inner[(IF z + (p + c) >= n THEN z + (p + c) - n ELSE z + (p + c)) + 1]
    <2>1. PICK q : q = p + c
      OBVIOUS
    <2>2. q \in Int
      BY ONLY <1>2, <2>1
    <2>3. RowPos(st, q) = st.inner[(IF z + q >= n THEN z + q - n ELSE z + q) + 1]
      <3>1. Wrap(st, z + q) = IF z + q >= n THEN z + q - n ELSE z + q
        BY ONLY <1>1, <1>2, <2>2 DEF Wrap, Capacity
      <3> QED
        BY <1>1, <3>1 DEF RowPos
    <2> QED
      BY <2>1, <2>3
  <1>9. ASSUME NEW t, t = [st EXCEPT !.zero = m]
        PROVE  RowPos(t, p) = RowPos(st, p + c)
    <2>1. t.inner = st.inner /\ t.zero = m
      BY <1>9 DEF Ring, StoreType
    <2>2. RowPos(t, p) = st.inner[(IF m + p >= n THEN m + p - n ELSE m + p) + 1]
      <3>1. PICK w : w = m + p
        OBVIOUS
      <3>2. Wrap(t, t.zero + p) = IF w >= n THEN w - n ELSE w
        BY ONLY <1>1, <2>1, <3>1 DEF Wrap, Capacity
      <3>3. PICK x, v : /\ x = Wrap(t, t.zero + p)
                        /\ v = IF m + p >= n THEN m + p - n ELSE m + p
        OBVIOUS
      <3>4. x = v
        <4>1. m \in Int /\ p \in Int /\ n \in Int /\ w \in Int
          BY ONLY <1>2, <1>3, <3>1
        <4>2. x = IF w >= n THEN w - n ELSE w
          BY ONLY <3>2, <3>3
        <4> QED
          BY ONLY <3>1, <3>3, <4>1, <4>2
      <3>5. RowPos(t, p) = st.inner[x + 1]
        BY ONLY <2>1, <3>3 DEF RowPos
      <3> QED
        BY ONLY <3>3, <3>4, <3>5
    <2> QED
      BY <1>7, <1>8, <2>2
  <1>10. rotate(st, c) = [st EXCEPT !.zero = m]
    BY <1>1, <1>4, <1>6 DEF rotate, Capacity
  <1>11. ASSUME c >= 0
         PROVE  rotate_down(st, c) = [st EXCEPT !.zero = m]
    <2>1. PICK b, x : b = z + c /\ x = b % n
      OBVIOUS
    <2>2. CASE b < 2 * n
      <3>1. b \in Nat
        BY <1>2, <1>11, <2>1
      <3>2. x = IF b >= n THEN b - n ELSE b
        BY <1>2, <2>1, <2>2, <3>1, ModOnce
      <3>3. x = m
        BY <1>2, <1>3, <2>1, <3>1, <3>2
      <3> QED
        BY <1>1, <2>1, <3>3 DEF rotate_down, Capacity
    <2>3. b < 2 * n
      BY ONLY <1>2, <2>1
    <2> QED
      BY <2>2, <2>3
  <1> QED
    BY <1>9, <1>10, <1>11

-----------------------------------------------------------------------------
(* Spans of lines. *)

LEMMA UptoLines ==
    ASSUME NEW a \in Int, NEW b \in Int
    PROVE  /\ Upto(a, b) \in Seq(Int)
           /\ \A i \in 1 .. Len(Upto(a, b)) : Upto(a, b)[i] \in a .. b - 1
  <1>1. PICK n \in Nat : n = IF a <= b THEN b - a ELSE 0
    <2>1. (IF a <= b THEN b - a ELSE 0) \in Nat
      OBVIOUS
    <2> QED
      BY <2>1
  <1>2. 1 .. b - a = 1 .. n
    BY <1>1
  <1>3. PICK u : u = [i \in 1 .. n |-> a + i - 1]
    OBVIOUS
  <1>4. Upto(a, b) = u
    BY <1>2, <1>3 DEF Upto
  <1>5. u \in Seq(Int) /\ Len(u) = n
    BY <1>3
  <1>6. ASSUME NEW i \in 1 .. n PROVE u[i] \in a .. b - 1
    <2>1. u[i] = a + i - 1 /\ n = b - a
      BY <1>1, <1>3
    <2> QED
      BY <2>1
  <1> QED
    BY <1>4, <1>5, <1>6

LEMMA DownfromLines ==
    ASSUME NEW a \in Int, NEW b \in Int
    PROVE  /\ Downfrom(a, b) \in Seq(Int)
           /\ \A i \in 1 .. Len(Downfrom(a, b)) : Downfrom(a, b)[i] \in a .. b - 1
  <1>1. PICK u : u = Upto(a, b)
    OBVIOUS
  <1>2. u \in Seq(Int) /\ \A i \in 1 .. Len(u) : u[i] \in a .. b - 1
    BY <1>1, UptoLines
  <1>3. PICK n \in Nat : n = Len(u)
    BY <1>2
  <1>4. PICK w : w = [i \in 1 .. n |-> u[n - i + 1]]
    OBVIOUS
  <1>5. Downfrom(a, b) = w
    BY <1>1, <1>3, <1>4 DEF Downfrom, Reverse
  <1>6. ASSUME NEW i \in 1 .. n PROVE w[i] \in a .. b - 1 /\ w[i] \in Int
    <2>1. n - i + 1 \in 1 .. n /\ w[i] = u[n - i + 1]
      BY <1>4
    <2> QED
      BY <1>2, <1>3, <2>1
  <1>7. w \in Seq(Int) /\ Len(w) = n
    BY <1>4, <1>6
  <1> QED
    BY <1>5, <1>6, <1>7

(* Spans within the screen are lines of it, *)
LEMMA SpanVisible ==
    ASSUME NEW st, Sound(st), NEW a \in Nat, NEW b \in Int, b <= st.visible_lines
    PROVE  /\ \E n : Visible(st, Upto(a, b), n)
           /\ \E n : Visible(st, Downfrom(a, b), n)
  <1>1. st.visible_lines \in Nat
    BY DEF Sound, StoreType
  <1>2. a .. b - 1 \subseteq OnScreen(st)
    BY <1>1 DEF OnScreen
  <1>3. PICK u, w : u = Upto(a, b) /\ w = Downfrom(a, b)
    OBVIOUS
  <1>4. /\ u \in Seq(Int) /\ \A i \in 1 .. Len(u) : u[i] \in a .. b - 1
        /\ w \in Seq(Int) /\ \A i \in 1 .. Len(w) : w[i] \in a .. b - 1
    BY ONLY a \in Int, b \in Int, <1>3, UptoLines, DownfromLines
  <1>5. Visible(st, u, Len(u)) /\ Visible(st, w, Len(w))
    BY <1>2, <1>4 DEF Visible
  <1> QED
    BY <1>3, <1>5

(* so they can be cleared and marked, *)
LEMMA ClearSpan ==
    ASSUME NEW st, Sound(st), NEW a \in Nat, NEW b \in Int, b <= st.visible_lines
    PROVE  /\ ResetEach(st, Upto(a, b)) \in Like(st)
           /\ ResetEach(st, Downfrom(a, b)) \in Like(st)
           /\ DirtyEach(st, Upto(a, b)) \in Like(st)
  <1>1. PICK n : Visible(st, Upto(a, b), n)
    BY SpanVisible
  <1>2. PICK m : Visible(st, Downfrom(a, b), m)
    BY SpanVisible
  <1> QED
    BY <1>1, <1>2, ResetEachLike, DirtyEachLike

(* and swapped with a span as long that is also within the screen. *)
LEMMA SwapSpan ==
    ASSUME NEW st, Sound(st), NEW a \in Nat, NEW b \in Int, b <= st.visible_lines,
           NEW d \in Int, 0 <= a + d, b + d <= st.visible_lines
    PROVE  /\ SwapEach(st, Upto(a, b), d) \in Like(st)
           /\ SwapEach(st, Downfrom(a, b), d) \in Like(st)
  <1>1. PICK u, w : u = Upto(a, b) /\ w = Downfrom(a, b)
    OBVIOUS
  <1>2. PICK n : Visible(st, u, n)
    BY <1>1, SpanVisible
  <1>3. PICK m : Visible(st, w, m)
    BY <1>1, SpanVisible
  <1>4. /\ n = Len(u) /\ m = Len(w) /\ u \in Seq(Int) /\ w \in Seq(Int)
    BY <1>2, <1>3 DEF Visible
  <1>5. st.visible_lines \in Nat
    BY DEF Sound, StoreType
  <1>6. \A l \in a .. b - 1 : l + d \in OnScreen(st)
    BY <1>5 DEF OnScreen
  <1>7. \A i \in 1 .. n : u[i] + d \in OnScreen(st)
    <2>1. \A i \in 1 .. Len(u) : u[i] \in a .. b - 1
      BY ONLY a \in Int, b \in Int, <1>1, UptoLines
    <2> QED
      BY <1>4, <1>6, <2>1
  <1>8. \A i \in 1 .. m : w[i] + d \in OnScreen(st)
    <2>1. \A i \in 1 .. Len(w) : w[i] \in a .. b - 1
      BY ONLY a \in Int, b \in Int, <1>1, DownfromLines
    <2> QED
      BY <1>4, <1>6, <2>1
  <1>9. SwapEach(st, u, d) \in Like(st)
    BY <1>2, <1>7, SwapEachLike
  <1>10. SwapEach(st, w, d) \in Like(st)
    BY <1>3, <1>8, SwapEachLike
  <1> QED
    BY <1>1, <1>9, <1>10

-----------------------------------------------------------------------------
(* What clearing, marking and swapping a span does to the text. *)

(* The lines of a span in their order. *)
LEMMA SpanElements ==
    ASSUME NEW a \in Int, NEW b \in Int, a <= b
    PROVE  /\ Upto(a, b) \in Seq(Int) /\ Len(Upto(a, b)) = b - a
           /\ \A i \in 1 .. b - a : Upto(a, b)[i] = a + i - 1
           /\ Downfrom(a, b) \in Seq(Int) /\ Len(Downfrom(a, b)) = b - a
           /\ \A i \in 1 .. b - a : Downfrom(a, b)[i] = b - i
  <1>1. PICK n \in Nat : n = b - a
    OBVIOUS
  <1>2. PICK u : u = [i \in 1 .. n |-> a + i - 1]
    OBVIOUS
  <1>3. Upto(a, b) = u /\ u \in Seq(Int) /\ Len(u) = n
    BY <1>1, <1>2 DEF Upto
  <1>4. PICK w : w = [i \in 1 .. n |-> u[n - i + 1]]
    OBVIOUS
  <1>5. Downfrom(a, b) = w
    BY <1>3, <1>4 DEF Downfrom, Reverse
  <1>6. ASSUME NEW i \in 1 .. n PROVE w[i] = b - i
    <2>1. n - i + 1 \in 1 .. n /\ w[i] = u[n - i + 1]
      BY <1>4
    <2> QED
      BY <1>1, <1>2, <2>1
  <1>7. w \in Seq(Int) /\ Len(w) = n
    BY <1>4, <1>6
  <1> QED
    BY <1>1, <1>2, <1>3, <1>5, <1>6, <1>7

(* The text with a span cleared. *)
Cleared(c, a, b) == [l \in DOMAIN c |-> IF a <= l /\ l < b THEN Blank ELSE c[l]]

LEMMA ClearContent ==
    ASSUME NEW st, Sound(st), NEW a \in Nat, NEW b \in Int, a <= b, b <= st.visible_lines
    PROVE  /\ Content(ResetEach(st, Upto(a, b))) = Cleared(Content(st), a, b)
           /\ Content(ResetEach(st, Downfrom(a, b))) = Cleared(Content(st), a, b)
  <1>1. PICK n \in Nat : n = b - a
    OBVIOUS
  <1>2. PICK c : c = Content(st)
    OBVIOUS
  <1>3. DOMAIN c = Lines(st) /\ Lines(st) \subseteq Int
    BY <1>2, ContentType, ScreenLines
  <1>4. ASSUME NEW ls, ls = Upto(a, b) \/ ls = Downfrom(a, b)
        PROVE  Content(ResetEach(st, ls)) = Cleared(c, a, b)
    <2>1. PICK m : Visible(st, ls, m)
      BY <1>4, SpanVisible
    <2>2. Content(ResetEach(st, ls))
            = [l \in Lines(st) |-> IF \E i \in 1 .. m : ls[i] = l THEN Blank ELSE c[l]]
      BY <1>2, <2>1, ResetEachContent
    <2>3. m = n
      <3>1. a \in Int /\ b \in Int /\ a <= b
        OBVIOUS
      <3>2. Len(ls) = b - a
        BY ONLY <1>4, <3>1, SpanElements
      <3> QED
        BY <1>1, <2>1, <3>2 DEF Visible
    <2>4. ASSUME NEW l \in Int
          PROVE  (\E i \in 1 .. n : ls[i] = l) <=> a <= l /\ l < b
      <3>1. CASE ls = Upto(a, b)
        <4>1. a \in Int /\ b \in Int /\ a <= b
          OBVIOUS
        <4>2. \A i \in 1 .. b - a : ls[i] = a + i - 1
          BY ONLY <3>1, <4>1, SpanElements
        <4>3. ASSUME a <= l, l < b PROVE \E i \in 1 .. n : ls[i] = l
          <5>1. l - a + 1 \in 1 .. n /\ a + (l - a + 1) - 1 = l
            BY <1>1, <4>3
          <5> QED
            BY <1>1, <4>2, <5>1
        <4> QED
          BY <1>1, <4>2, <4>3
      <3>2. CASE ls = Downfrom(a, b)
        <4>1. a \in Int /\ b \in Int /\ a <= b
          OBVIOUS
        <4>2. \A i \in 1 .. b - a : ls[i] = b - i
          BY ONLY <3>2, <4>1, SpanElements
        <4>3. ASSUME a <= l, l < b PROVE \E i \in 1 .. n : ls[i] = l
          <5>1. b - l \in 1 .. n /\ b - (b - l) = l
            BY <1>1, <4>3
          <5> QED
            BY <1>1, <4>2, <5>1
        <4> QED
          BY <1>1, <4>2, <4>3
      <3> QED
        BY <1>4, <3>1, <3>2
    <2>5. \A l \in Lines(st) : (IF \E i \in 1 .. m : ls[i] = l THEN Blank ELSE c[l])
                                 = IF a <= l /\ l < b THEN Blank ELSE c[l]
      BY <1>3, <2>3, <2>4
    <2> QED
      BY <1>3, <2>2, <2>5 DEF Cleared
  <1> QED
    BY <1>2, <1>4

LEMMA MarkContent ==
    ASSUME NEW st, Sound(st), NEW a \in Nat, NEW b \in Int, b <= st.visible_lines
    PROVE  Content(DirtyEach(st, Upto(a, b))) = Content(st)
  <1>1. PICK m : Visible(st, Upto(a, b), m)
    BY SpanVisible
  <1> QED
    BY <1>1, DirtyEachContent

(* Swapping a span, the lines in ascending order, with lines w below it *)
(* or w above it.                                                       *)
LEMMA SwapUptoContent ==
    ASSUME NEW st, Sound(st), NEW a \in Nat, NEW b \in Int, a <= b,
           NEW w \in Nat, b + w <= st.visible_lines
    PROVE  Up(Lines(st), Content(st), Content(SwapEach(st, Upto(a, b), w)), a, w, b - a)
  <1>1. PICK n \in Nat : n = b - a
    OBVIOUS
  <1>2. PICK ls : ls = Upto(a, b)
    OBVIOUS
  <1>3. /\ a \in Int /\ b \in Int /\ a <= b /\ st.visible_lines \in Nat
        /\ b <= st.visible_lines
    BY DEF Sound, StoreType
  <1>4. Len(ls) = n /\ \A i \in 1 .. n : ls[i] = a + i - 1
    BY ONLY <1>1, <1>2, <1>3, SpanElements
  <1>5. PICK m : Visible(st, ls, m)
    BY <1>2, <1>3, SpanVisible
  <1>6. m = n
    BY <1>4, <1>5 DEF Visible
  <1>7. \A i \in 1 .. n : ls[i] \in OnScreen(st) /\ ls[i] + w \in OnScreen(st)
    BY <1>1, <1>3, <1>4 DEF OnScreen
  <1>8. PICK c \in [0 .. n -> [Lines(st) -> AnyText]] :
            /\ c[0] = Content(st) /\ c[n] = Content(SwapEach(st, ls, w))
            /\ \A k \in 1 .. n : c[k] = Exchanged(c[k - 1], ls[k], ls[k] + w)
    <2>1. Sound(st) /\ Visible(st, ls, n) /\ w \in Int
      BY <1>3, <1>5, <1>6
    <2>2. \A i \in 1 .. n : ls[i] + w \in OnScreen(st)
      BY <1>7
    <2>3. \E c : TextTrace(st, ls, w, n, c)
      BY ONLY <2>1, <2>2, SwapEachContent
    <2> QED
      BY ONLY <2>3 DEF TextTrace
  <1>9. PICK L, V : L = Lines(st) /\ V = AnyText
    OBVIOUS
  <1>10. /\ L \in SUBSET Int /\ c \in [0 .. n -> [L -> V]]
         /\ \A k \in 1 .. n : /\ a + k - 1 \in L /\ a + k - 1 + w \in L
                              /\ c[k] = Exchanged(c[k - 1], a + k - 1, a + k - 1 + w)
    BY <1>4, <1>7, <1>8, <1>9, ScreenLines
  <1>11. Up(L, c[0], c[n], a, w, n)
    BY ONLY <1>3, <1>10, UpAll, n \in Nat, w \in Nat
  <1> QED
    BY <1>1, <1>2, <1>8, <1>9, <1>11

LEMMA SwapUptoContentAbove ==
    ASSUME NEW st, Sound(st), NEW a \in Nat, NEW b \in Int, a <= b, b <= st.visible_lines,
           NEW w \in Nat, w <= a, NEW d, d = -w
    PROVE  Up(Lines(st), Content(st), Content(SwapEach(st, Upto(a, b), d)), a - w, w, b - a)
  <1>1. PICK n \in Nat : n = b - a
    OBVIOUS
  <1>2. PICK ls : ls = Upto(a, b)
    OBVIOUS
  <1>3. /\ a \in Int /\ b \in Int /\ a <= b /\ st.visible_lines \in Nat
        /\ b <= st.visible_lines /\ d \in Int
    BY DEF Sound, StoreType
  <1>4. Len(ls) = n /\ \A i \in 1 .. n : ls[i] = a + i - 1
    BY ONLY <1>1, <1>2, <1>3, SpanElements
  <1>5. PICK m : Visible(st, ls, m)
    BY <1>2, <1>3, SpanVisible
  <1>6. m = n
    BY <1>4, <1>5 DEF Visible
  <1>7. \A i \in 1 .. n : ls[i] \in OnScreen(st) /\ ls[i] + d \in OnScreen(st)
    BY <1>1, <1>3, <1>4 DEF OnScreen
  <1>8. PICK c \in [0 .. n -> [Lines(st) -> AnyText]] :
            /\ c[0] = Content(st) /\ c[n] = Content(SwapEach(st, ls, d))
            /\ \A k \in 1 .. n : c[k] = Exchanged(c[k - 1], ls[k], ls[k] + d)
    <2>1. Sound(st) /\ Visible(st, ls, n) /\ d \in Int
      BY <1>3, <1>5, <1>6
    <2>2. \A i \in 1 .. n : ls[i] + d \in OnScreen(st)
      BY <1>7
    <2>3. \E c : TextTrace(st, ls, d, n, c)
      BY ONLY <2>1, <2>2, SwapEachContent
    <2> QED
      BY ONLY <2>3 DEF TextTrace
  <1>9. PICK L, V, f : L = Lines(st) /\ V = AnyText /\ f = a - w
    OBVIOUS
  <1>10. /\ L \in SUBSET Int /\ c \in [0 .. n -> [L -> V]] /\ f \in Int
         /\ \A k \in 1 .. n : /\ f + k - 1 \in L /\ f + k - 1 + w \in L
                              /\ c[k] = Exchanged(c[k - 1], f + k - 1 + w, f + k - 1)
    <2>1. L \in SUBSET Int /\ c \in [0 .. n -> [L -> V]] /\ f \in Int /\ OnScreen(st) \subseteq L
      BY <1>8, <1>9, ScreenLines
    <2>2. ASSUME NEW k \in 1 .. n
          PROVE  /\ f + k - 1 \in L /\ f + k - 1 + w \in L
                 /\ c[k] = Exchanged(c[k - 1], f + k - 1 + w, f + k - 1)
      <3>1. ls[k] = f + k - 1 + w /\ ls[k] + d = f + k - 1
        BY <1>4, <1>9
      <3> QED
        BY <1>7, <1>8, <2>1, <3>1
    <2> QED
      BY <2>1, <2>2
  <1>11. Up(L, c[0], c[n], f, w, n)
    BY ONLY <1>3, <1>10, UpAll, n \in Nat, w \in Nat
  <1> QED
    BY <1>1, <1>2, <1>8, <1>9, <1>11

(* Swapping a span, the lines in descending order, with lines w above it. *)
LEMMA SwapDownfromContent ==
    ASSUME NEW st, Sound(st), NEW a \in Nat, NEW b \in Int, a <= b, b <= st.visible_lines,
           NEW w \in Nat, w <= a, NEW d, d = -w
    PROVE  Down(Lines(st), Content(st), Content(SwapEach(st, Downfrom(a, b), d)), b, w, b - a)
  <1>1. PICK n \in Nat : n = b - a
    OBVIOUS
  <1>2. PICK ls : ls = Downfrom(a, b)
    OBVIOUS
  <1>3. /\ a \in Int /\ b \in Int /\ a <= b /\ st.visible_lines \in Nat
        /\ b <= st.visible_lines /\ d \in Int
    BY DEF Sound, StoreType
  <1>4. Len(ls) = n /\ \A i \in 1 .. n : ls[i] = b - i
    BY ONLY <1>1, <1>2, <1>3, SpanElements
  <1>5. PICK m : Visible(st, ls, m)
    BY <1>2, <1>3, SpanVisible
  <1>6. m = n
    BY <1>4, <1>5 DEF Visible
  <1>7. \A i \in 1 .. n : ls[i] \in OnScreen(st) /\ ls[i] + d \in OnScreen(st)
    BY <1>1, <1>3, <1>4 DEF OnScreen
  <1>8. PICK c \in [0 .. n -> [Lines(st) -> AnyText]] :
            /\ c[0] = Content(st) /\ c[n] = Content(SwapEach(st, ls, d))
            /\ \A k \in 1 .. n : c[k] = Exchanged(c[k - 1], ls[k], ls[k] + d)
    <2>1. Sound(st) /\ Visible(st, ls, n) /\ d \in Int
      BY <1>3, <1>5, <1>6
    <2>2. \A i \in 1 .. n : ls[i] + d \in OnScreen(st)
      BY <1>7
    <2>3. \E c : TextTrace(st, ls, d, n, c)
      BY ONLY <2>1, <2>2, SwapEachContent
    <2> QED
      BY ONLY <2>3 DEF TextTrace
  <1>9. PICK L, V : L = Lines(st) /\ V = AnyText
    OBVIOUS
  <1>10. /\ L \in SUBSET Int /\ c \in [0 .. n -> [L -> V]]
         /\ \A k \in 1 .. n : /\ b - k \in L /\ b - k - w \in L
                              /\ c[k] = Exchanged(c[k - 1], b - k, b - k - w)
    <2>1. L \in SUBSET Int /\ c \in [0 .. n -> [L -> V]] /\ OnScreen(st) \subseteq L
      BY <1>8, <1>9, ScreenLines
    <2>2. ASSUME NEW k \in 1 .. n
          PROVE  /\ b - k \in L /\ b - k - w \in L
                 /\ c[k] = Exchanged(c[k - 1], b - k, b - k - w)
      <3>1. ls[k] = b - k /\ ls[k] + d = b - k - w
        BY <1>3, <1>4
      <3> QED
        BY <1>7, <1>8, <2>1, <3>1
    <2> QED
      BY <2>1, <2>2
  <1>11. Down(L, c[0], c[n], b, w, n)
    BY ONLY <1>3, <1>10, DownAll, n \in Nat, w \in Nat
  <1> QED
    BY <1>1, <1>2, <1>8, <1>9, <1>11

-----------------------------------------------------------------------------
(* The grid. *)

GridType ==
    [raw : StoreType, lines : 1 .. MaxLines, display_offset : Nat,
     max_scroll_limit : ScrollLimits, cursor : Nat, saved : Nat]

(* A storage that is a screen of the given height and a history that the   *)
(* limit allows.                                                           *)
Fits(st, lines, limit) ==
    /\ Sound(st)
    /\ st.visible_lines = lines
    /\ st.len - lines <= limit

(* The inductive invariant, on any grid: GridSound, and the shape of the   *)
(* record.                                                                 *)
GridOK(g) ==
    /\ g \in GridType
    /\ Fits(g.raw, g.lines, g.max_scroll_limit)
    /\ g.display_offset <= g.max_scroll_limit
    /\ g.cursor < g.lines /\ g.saved < g.lines

(* Two grids of the same height, limit and cursors. *)
SameFrame(g, h) ==
    /\ h.lines = g.lines /\ h.max_scroll_limit = g.max_scroll_limit
    /\ h.cursor = g.cursor /\ h.saved = g.saved

LEMMA GridFields ==
    ASSUME NEW g, GridOK(g)
    PROVE  /\ g = [raw |-> g.raw, lines |-> g.lines, display_offset |-> g.display_offset,
                   max_scroll_limit |-> g.max_scroll_limit, cursor |-> g.cursor,
                   saved |-> g.saved]
           /\ g.lines \in 1 .. MaxLines /\ g.lines \in Nat /\ 1 <= g.lines
           /\ g.display_offset \in Nat /\ g.max_scroll_limit \in Nat
           /\ g.max_scroll_limit \in ScrollLimits
           /\ g.cursor \in Nat /\ g.saved \in Nat
           /\ g.cursor < g.lines /\ g.saved < g.lines
           /\ g.display_offset <= g.max_scroll_limit
  <1>1. /\ g \in GridType /\ g.display_offset <= g.max_scroll_limit
        /\ g.cursor < g.lines /\ g.saved < g.lines
    BY DEF GridOK
  <1>2. /\ g = [raw |-> g.raw, lines |-> g.lines, display_offset |-> g.display_offset,
                max_scroll_limit |-> g.max_scroll_limit, cursor |-> g.cursor,
                saved |-> g.saved]
        /\ g.lines \in 1 .. MaxLines /\ g.display_offset \in Nat
        /\ g.max_scroll_limit \in ScrollLimits /\ g.cursor \in Nat /\ g.saved \in Nat
    BY <1>1 DEF GridType
  <1>3. MaxLines \in Nat /\ ScrollLimits \subseteq Nat
    BY GridConstantsAssumption
  <1> QED
    BY <1>1, <1>2, <1>3

LEMMA FitsFields ==
    ASSUME NEW st, NEW lines, NEW limit, Fits(st, lines, limit)
    PROVE  /\ Sound(st) /\ Ring(st)
           /\ st.visible_lines \in Nat /\ st.visible_lines = lines
           /\ st.len \in Nat /\ lines <= st.len /\ st.len - lines <= limit
           /\ st.len - lines \in Nat
  <1>1. st.visible_lines \in Nat /\ st.len \in Nat
    BY DEF Fits, Sound, StoreType
  <1> QED
    BY <1>1, SoundIsRing DEF Fits, Sound

LEMMA FitsLike ==
    ASSUME NEW st, NEW lines, NEW limit, Fits(st, lines, limit), NEW t \in Like(st)
    PROVE  Fits(t, lines, limit)
  BY LikeSound DEF Fits, Like

LEMMA FitsRing ==
    ASSUME NEW st, NEW lines \in Nat, 1 <= lines, NEW limit \in Nat,
           Ring(st), st.visible_lines = lines, lines <= st.len, st.len - lines <= limit
    PROVE  Fits(st, lines, limit)
  BY SoundIsRing DEF Fits

(* A grid whose rows and view have moved. *)
Moved(g, r, off) == [g EXCEPT !.display_offset = off, !.raw = r]

(* The fields of a grid after a method that moves rows and the view. *)
LEMMA GridWith ==
    ASSUME NEW g, GridOK(g), NEW r, Fits(r, g.lines, g.max_scroll_limit),
           NEW off \in Nat, off <= g.max_scroll_limit,
           NEW h, h = Moved(g, r, off)
    PROVE  GridOK(h) /\ SameFrame(g, h) /\ h.raw = r /\ h.display_offset = off
  <1>1. h = [raw |-> r, lines |-> g.lines, display_offset |-> off,
             max_scroll_limit |-> g.max_scroll_limit, cursor |-> g.cursor,
             saved |-> g.saved]
    BY DEF Moved, GridOK, GridType
  <1>2. r \in StoreType
    BY DEF Fits, Sound
  <1>3. h \in GridType
    BY <1>1, <1>2, GridFields DEF GridType
  <1> QED
    BY <1>1, <1>3, GridFields DEF GridOK, SameFrame

LEMMA GridWithRaw ==
    ASSUME NEW g, GridOK(g), NEW r, Fits(r, g.lines, g.max_scroll_limit),
           NEW h, h = [g EXCEPT !.raw = r]
    PROVE  GridOK(h) /\ SameFrame(g, h) /\ h.raw = r /\ h.display_offset = g.display_offset
  <1>1. h = [raw |-> r, lines |-> g.lines, display_offset |-> g.display_offset,
             max_scroll_limit |-> g.max_scroll_limit, cursor |-> g.cursor,
             saved |-> g.saved]
    BY DEF GridOK, GridType
  <1>2. r \in StoreType
    BY DEF Fits, Sound
  <1>3. h \in GridType
    BY <1>1, <1>2, GridFields DEF GridType
  <1> QED
    BY <1>1, <1>3, GridFields DEF GridOK, SameFrame

(* AtMost is a minimum. *)
LEMMA AtMostFacts ==
    ASSUME NEW x \in Int, NEW bound \in Int
    PROVE  AtMost(x, bound) \in Int /\ AtMost(x, bound) <= x /\ AtMost(x, bound) <= bound
           /\ (AtMost(x, bound) = x \/ AtMost(x, bound) = bound)
  BY DEF AtMost

-----------------------------------------------------------------------------
(* Scrolling. *)

(* History grows by no more than its limit leaves (grid/mod.rs:181: the    *)
(* subtraction does not underflow).                                        *)
LEMMA IncreaseFits ==
    ASSUME NEW g, GridOK(g), NEW count \in Nat
    PROVE  Fits(increase_scroll_limit(g, count).raw, g.lines, g.max_scroll_limit)
  <1>1. Fits(g.raw, g.lines, g.max_scroll_limit)
    BY DEF GridOK
  <1>2. /\ Ring(g.raw) /\ g.raw.visible_lines = g.lines /\ g.raw.len \in Nat
        /\ g.lines <= g.raw.len /\ g.raw.len - g.lines <= g.max_scroll_limit
    BY <1>1, FitsFields
  <1>3. g.lines \in Nat /\ 1 <= g.lines /\ g.max_scroll_limit \in Nat
    BY GridFields
  <1>4. PICK n : n = AtMost(count, g.max_scroll_limit - HistorySize(g))
    OBVIOUS
  <1>5. n \in Nat /\ g.raw.len + n - g.lines <= g.max_scroll_limit
    <2>1. HistorySize(g) = g.raw.len - g.lines
      BY DEF HistorySize
    <2>2. n = IF count < g.max_scroll_limit - (g.raw.len - g.lines)
              THEN count ELSE g.max_scroll_limit - (g.raw.len - g.lines)
      BY <1>4, <2>1 DEF AtMost
    <2> QED
      BY <1>2, <1>3, <2>2
  <1>6. CASE n = 0
    <2>1. increase_scroll_limit(g, count) = g
      BY <1>4, <1>6 DEF increase_scroll_limit
    <2> QED
      BY <1>1, <2>1
  <1>7. CASE n # 0
    <2>1. PICK r : r = initialize(g.raw, n)
      OBVIOUS
    <2>2. increase_scroll_limit(g, count) = [g EXCEPT !.raw = r]
      BY <1>4, <1>7, <2>1 DEF increase_scroll_limit
    <2>3. increase_scroll_limit(g, count).raw = r
      BY <2>2 DEF GridOK, GridType
    <2>4. Ring(r) /\ r.visible_lines = g.lines /\ r.len = g.raw.len + n
      BY <1>2, <1>5, <2>1, InitializeRing
    <2>5. g.lines <= r.len /\ r.len - g.lines <= g.max_scroll_limit
      BY <1>2, <1>3, <1>5, <2>4
    <2> QED
      BY <1>3, <2>3, <2>4, <2>5, FitsRing
  <1> QED
    BY <1>6, <1>7

(* The view moves with the text, up to the limit. *)
LEMMA ScrolledOffsetFacts ==
    ASSUME NEW g, GridOK(g), NEW n \in Nat
    PROVE  ScrolledOffset(g, n) \in Nat /\ ScrolledOffset(g, n) <= g.max_scroll_limit
  <1>1. g.display_offset \in Nat /\ g.max_scroll_limit \in Nat
    BY GridFields
  <1> QED
    BY <1>1 DEF ScrolledOffset, AtMost

(* Rotating moves the origin only. *)
LEMMA RotateFits ==
    ASSUME NEW st, NEW lines \in Nat, 1 <= lines, NEW limit \in Nat,
           Fits(st, lines, limit), NEW count \in Int
    PROVE  Fits(rotate(st, count), lines, limit) /\ Fits(rotate_down(st, count), lines, limit)
  <1>1. /\ Ring(st) /\ st.visible_lines = lines
        /\ lines <= st.len /\ st.len - lines <= limit
    BY FitsFields
  <1>2. PICK r, q : r = rotate(st, count) /\ q = rotate_down(st, count)
    OBVIOUS
  <1>3. /\ Ring(r) /\ r.visible_lines = lines /\ r.len = st.len
        /\ Ring(q) /\ q.visible_lines = lines /\ q.len = st.len
    BY <1>1, <1>2, RotateRing
  <1> QED
    BY <1>1, <1>2, <1>3, FitsRing

LEMMA RotateIntoHistoryFits ==
    ASSUME NEW g, GridOK(g), NEW end \in Nat, NEW n \in Nat, n <= end, end <= g.lines
    PROVE  Fits(RotateIntoHistory(g, end, n), g.lines, g.max_scroll_limit)
  <1>1. g.lines \in Nat /\ 1 <= g.lines /\ g.max_scroll_limit \in Nat
    BY GridFields
  <1>2. PICK r : r = increase_scroll_limit(g, n).raw
    OBVIOUS
  <1>3. Fits(r, g.lines, g.max_scroll_limit)
    BY <1>2, IncreaseFits
  <1>4. PICK d \in Int : d = -n
    OBVIOUS
  <1>5. PICK q : q = rotate(r, d)
    OBVIOUS
  <1>6. Fits(q, g.lines, g.max_scroll_limit)
    BY <1>1, <1>3, <1>5, RotateFits
  <1>7. Sound(q) /\ q.visible_lines = g.lines
    BY <1>6 DEF Fits
  <1>8. 0 <= end + d /\ g.lines + d <= g.lines
    BY <1>1, <1>4
  <1>9. SwapEach(q, Downfrom(end, g.lines), d) \in Like(q)
    BY <1>1, <1>7, <1>8, SwapSpan
  <1>10. RotateIntoHistory(g, end, n) = SwapEach(q, Downfrom(end, g.lines), d)
    BY <1>2, <1>4, <1>5 DEF RotateIntoHistory
  <1> QED
    BY <1>6, <1>9, <1>10, FitsLike

LEMMA RotateRegionFits ==
    ASSUME NEW g, GridOK(g), NEW start \in Nat, NEW end \in Nat, NEW n \in Nat,
           end <= g.lines
    PROVE  Fits(RotateRegion(g, start, end, n), g.lines, g.max_scroll_limit)
  <1>1. g.lines \in Nat
    BY GridFields
  <1>2. Fits(g.raw, g.lines, g.max_scroll_limit)
    BY DEF GridOK
  <1>3. Sound(g.raw) /\ g.raw.visible_lines = g.lines
    BY <1>2 DEF Fits
  <1>4. PICK b \in Int : b = end - n
    OBVIOUS
  <1>5. b <= g.lines /\ 0 <= start + n /\ b + n <= g.lines /\ n \in Int
    BY <1>1, <1>4
  <1>6. SwapEach(g.raw, Upto(start, b), n) \in Like(g.raw)
    BY <1>3, <1>5, SwapSpan
  <1>7. RotateRegion(g, start, end, n) = SwapEach(g.raw, Upto(start, b), n)
    BY <1>4 DEF RotateRegion
  <1> QED
    BY <1>2, <1>6, <1>7, FitsLike

(* Clearing or marking a span of the screen. *)
LEMMA SpanFits ==
    ASSUME NEW st, NEW lines \in Nat, NEW limit, Fits(st, lines, limit),
           NEW a \in Nat, NEW b \in Int, b <= lines
    PROVE  /\ Fits(ResetEach(st, Upto(a, b)), lines, limit)
           /\ Fits(ResetEach(st, Downfrom(a, b)), lines, limit)
           /\ Fits(DirtyEach(st, Upto(a, b)), lines, limit)
  <1>1. Sound(st) /\ b <= st.visible_lines
    BY DEF Fits
  <1> QED
    BY <1>1, ClearSpan, FitsLike

LEMMA SwapFits ==
    ASSUME NEW st, NEW lines \in Nat, NEW limit, Fits(st, lines, limit),
           NEW a \in Nat, NEW b \in Int, b <= lines,
           NEW d \in Int, 0 <= a + d, b + d <= lines
    PROVE  /\ Fits(SwapEach(st, Upto(a, b), d), lines, limit)
           /\ Fits(SwapEach(st, Downfrom(a, b), d), lines, limit)
  <1>1. Sound(st) /\ b <= st.visible_lines /\ b + d <= st.visible_lines
    BY DEF Fits
  <1> QED
    BY <1>1, SwapSpan, FitsLike

(* scroll_up keeps the grid sound, its height and its cursors. *)
LEMMA ScrollUpOK ==
    ASSUME NEW g, GridOK(g), NEW start \in Nat, NEW end \in Nat, NEW n \in Nat,
           end <= g.lines, start = 0 => n <= end
    PROVE  GridOK(scroll_up(g, start, end, n)) /\ SameFrame(g, scroll_up(g, start, end, n))
  <1>1. g.lines \in Nat
    BY GridFields
  <1>2. Fits(g.raw, g.lines, g.max_scroll_limit)
    BY DEF GridOK
  <1>3. CASE end - start <= n /\ start # 0
    <2>1. PICK r : r = ResetEach(g.raw, Upto(start, end))
      OBVIOUS
    <2>2. Fits(r, g.lines, g.max_scroll_limit)
      BY <1>1, <1>2, <2>1, SpanFits
    <2>3. scroll_up(g, start, end, n) = [g EXCEPT !.raw = r]
      BY <1>3, <2>1 DEF scroll_up
    <2> QED
      BY <2>2, <2>3, GridWithRaw
  <1>4. CASE ~(end - start <= n /\ start # 0)
    <2>1. PICK m : m = IF start = 0 THEN RotateIntoHistory(g, end, n)
                       ELSE RotateRegion(g, start, end, n)
      OBVIOUS
    <2>2. Fits(m, g.lines, g.max_scroll_limit)
      <3>1. CASE start = 0
        BY <2>1, <3>1, RotateIntoHistoryFits
      <3>2. CASE start # 0
        BY <2>1, <3>2, RotateRegionFits
      <3> QED
        BY <3>1, <3>2
    <2>3. PICK a, c : a = end - n /\ c = ResetEach(m, Upto(a, end))
      OBVIOUS
    <2>4. a \in Nat
      BY <1>4, <2>3
    <2>5. Fits(c, g.lines, g.max_scroll_limit)
      BY <1>1, <2>2, <2>3, <2>4, SpanFits
    <2>6. PICK r, off : r = DirtyEach(c, Upto(start, end)) /\ off = ScrolledOffset(g, n)
      OBVIOUS
    <2>7. Fits(r, g.lines, g.max_scroll_limit)
      BY <1>1, <2>5, <2>6, SpanFits
    <2>8. off \in Nat /\ off <= g.max_scroll_limit
      BY <2>6, ScrolledOffsetFacts
    <2>9. scroll_up(g, start, end, n) = Moved(g, r, off)
      BY <1>4, <2>1, <2>3, <2>6 DEF scroll_up, Moved
    <2> QED
      BY <2>7, <2>8, <2>9, GridWith
  <1> QED
    BY <1>3, <1>4

(* So does scroll_down, *)
LEMMA ScrollDownOK ==
    ASSUME NEW g, GridOK(g), NEW start \in Nat, NEW end \in Nat, NEW n \in Nat,
           end <= g.lines, start < end, n <= end - start
    PROVE  GridOK(scroll_down(g, start, end, n)) /\ SameFrame(g, scroll_down(g, start, end, n))
  <1>1. g.lines \in Nat /\ 1 <= g.lines /\ g.max_scroll_limit \in Nat
    BY GridFields
  <1>2. Fits(g.raw, g.lines, g.max_scroll_limit)
    BY DEF GridOK
  <1>3. CASE end - start <= n
    <2>1. PICK r : r = ResetEach(g.raw, Upto(start, end))
      OBVIOUS
    <2>2. Fits(r, g.lines, g.max_scroll_limit)
      BY <1>1, <1>2, <2>1, SpanFits
    <2>3. scroll_down(g, start, end, n) = [g EXCEPT !.raw = r]
      BY <1>3, <2>1 DEF scroll_down
    <2> QED
      BY <2>2, <2>3, GridWithRaw
  <1>4. CASE ~(end - start <= n)
    <2>1. PICK d \in Int : d = -n
      OBVIOUS
    <2>2. PICK b1, b2, b3, b4 :
              /\ b1 = SwapEach(g.raw, Upto(end, g.lines), d)
              /\ b2 = rotate_down(b1, n)
              /\ b3 = ResetEach(b2, Upto(0, n))
              /\ b4 = SwapEach(b3, Upto(0, start), n)
      OBVIOUS
    <2>3. Fits(b4, g.lines, g.max_scroll_limit)
      <3>1. 0 <= end + d /\ g.lines + d <= g.lines
        BY <1>1, <2>1
      <3>2. Fits(b1, g.lines, g.max_scroll_limit)
        BY <1>1, <1>2, <2>2, <3>1, SwapFits
      <3>3. Fits(b2, g.lines, g.max_scroll_limit)
        BY <1>1, <2>2, <3>2, RotateFits
      <3>4. n <= g.lines /\ start <= g.lines /\ 0 <= 0 + n /\ start + n <= g.lines
        BY <1>1
      <3>5. Fits(b3, g.lines, g.max_scroll_limit)
        BY <1>1, <2>2, <3>3, <3>4, SpanFits
      <3> QED
        BY <1>1, <2>2, <3>4, <3>5, SwapFits
    <2>4. PICK s : s = start + n
      OBVIOUS
    <2>5. PICK h1, h2 : /\ h1 = SwapEach(g.raw, Downfrom(s, end), d)
                        /\ h2 = ResetEach(h1, Downfrom(start, s))
      OBVIOUS
    <2>6. Fits(h2, g.lines, g.max_scroll_limit)
      <3>1. s \in Nat /\ 0 <= s + d /\ end + d <= g.lines /\ s <= g.lines
        BY <1>1, <2>1, <2>4
      <3>2. Fits(h1, g.lines, g.max_scroll_limit)
        BY <1>1, <1>2, <2>5, <3>1, SwapFits
      <3> QED
        BY <1>1, <2>5, <3>1, <3>2, SpanFits
    <2>7. PICK m : m = IF g.max_scroll_limit = 0 THEN b4 ELSE h2
      OBVIOUS
    <2>8. Fits(m, g.lines, g.max_scroll_limit)
      BY <2>3, <2>6, <2>7
    <2>9. PICK r : r = DirtyEach(m, Upto(start, end))
      OBVIOUS
    <2>10. Fits(r, g.lines, g.max_scroll_limit)
      BY <1>1, <2>8, <2>9, SpanFits
    <2>11. scroll_down(g, start, end, n) = [g EXCEPT !.raw = r]
      BY <1>4, <2>1, <2>2, <2>4, <2>5, <2>7, <2>9 DEF scroll_down
    <2> QED
      BY <2>10, <2>11, GridWithRaw
  <1> QED
    BY <1>3, <1>4

-----------------------------------------------------------------------------
(* Scrolling, as it shows. *)

(* A row that has kept its place on the ring, or moved on it. *)
LEMMA FromPos ==
    ASSUME NEW st, Sound(st), NEW t, Sound(t), NEW l \in Lines(t), NEW m \in Lines(st),
           NEW p, p = t.visible_lines - 1 - l, NEW q, q = st.visible_lines - 1 - m,
           RowPos(t, p) = RowPos(st, q)
    PROVE  Content(t)[l] = Content(st)[m]
  <1>1. /\ st.zero \in Int /\ st.visible_lines \in Int /\ t.zero \in Int /\ t.visible_lines \in Int
    BY DEF Sound, StoreType
  <1>2. l \in Int /\ m \in Int
    BY ScreenLines
  <1>3. RowAt(t, l) = RowPos(t, p)
    BY <1>1, <1>2, RowAtPos
  <1>4. RowAt(st, m) = RowPos(st, q)
    BY <1>1, <1>2, RowAtPos
  <1> QED
    BY <1>3, <1>4 DEF Content

(* The first and the last line. *)
LEMMA LinesAre ==
    ASSUME NEW st, NEW lines, NEW limit, Fits(st, lines, limit), NEW l
    PROVE  l \in Lines(st) <=> l \in Int /\ lines - st.len <= l /\ l < lines
  <1>1. st.visible_lines \in Nat /\ st.visible_lines = lines /\ st.len \in Nat
    BY FitsFields
  <1> QED
    BY <1>1 DEF Lines

(* More room for history moves no line. *)
LEMMA IncreaseContent ==
    ASSUME NEW g, GridOK(g), NEW count \in Nat, NEW r, r = increase_scroll_limit(g, count).raw,
           NEW k, k = AtMost(count, g.max_scroll_limit - HistorySize(g))
    PROVE  /\ k \in Nat /\ r.len = g.raw.len + k
           /\ \A l \in Lines(g.raw) : l \in Lines(r) /\ Content(r)[l] = Content(g.raw)[l]
  <1>1. Fits(g.raw, g.lines, g.max_scroll_limit) /\ Fits(r, g.lines, g.max_scroll_limit)
    BY IncreaseFits DEF GridOK
  <1>2. /\ Ring(g.raw) /\ Sound(g.raw) /\ g.raw.visible_lines = g.lines /\ g.raw.len \in Nat
        /\ g.lines <= g.raw.len /\ g.raw.len - g.lines <= g.max_scroll_limit
    BY <1>1, FitsFields
  <1>3. Sound(r) /\ r.visible_lines = g.lines
    BY <1>1, FitsFields
  <1>4. g.lines \in Nat /\ 1 <= g.lines /\ g.max_scroll_limit \in Nat
    BY GridFields
  <1>5. k \in Nat
    <2>1. HistorySize(g) = g.raw.len - g.lines
      BY DEF HistorySize
    <2>2. k = IF count < g.max_scroll_limit - (g.raw.len - g.lines)
              THEN count ELSE g.max_scroll_limit - (g.raw.len - g.lines)
      BY <2>1 DEF AtMost
    <2> QED
      BY <1>2, <1>4, <2>2
  <1>6. CASE k = 0
    <2>1. r = g.raw
      BY <1>6 DEF increase_scroll_limit
    <2> QED
      BY <1>2, <1>6, <2>1
  <1>7. CASE k # 0
    <2>1. r = initialize(g.raw, k)
      BY <1>7 DEF increase_scroll_limit, GridOK, GridType
    <2>2. r.len = g.raw.len + k
      BY <1>2, <1>5, <2>1, InitializeRing
    <2>3. ASSUME NEW l \in Lines(g.raw)
          PROVE  l \in Lines(r) /\ Content(r)[l] = Content(g.raw)[l]
      <3>1. l \in Int /\ g.lines - g.raw.len <= l /\ l < g.lines
        BY <1>1, LinesAre
      <3>2. l \in Lines(r)
        <4>1. g.lines - r.len <= l
          BY <1>2, <1>4, <1>5, <2>2, <3>1
        <4> QED
          BY <1>1, <3>1, <4>1, LinesAre
      <3>3. PICK p : p = g.lines - 1 - l
        OBVIOUS
      <3>4. p \in 0 .. g.raw.len - 1
        BY <1>2, <1>4, <3>1, <3>3
      <3>5. RowPos(r, p) = RowPos(g.raw, p)
        BY <1>2, <1>5, <2>1, <3>4, InitializePos
      <3> QED
        BY <1>2, <1>3, <3>2, <3>3, <3>5, FromPos
    <2> QED
      BY <1>5, <2>2, <2>3
  <1> QED
    BY <1>6, <1>7

(* A rotation moves the lines by its count, as far as there are lines. *)
LEMMA RotateContent ==
    ASSUME NEW st, Sound(st), NEW c \in Int, c <= st.len, -c <= st.len,
           NEW t, t = rotate(st, c) \/ (c >= 0 /\ t = rotate_down(st, c)),
           NEW l \in Lines(st), NEW m \in Lines(st), m = l - c
    PROVE  Content(t)[l] = Content(st)[m]
  <1>1. Ring(st) /\ 1 <= st.visible_lines /\ st.visible_lines <= st.len
    BY SoundIsRing
  <1>2. /\ st.visible_lines \in Nat /\ st.len \in Nat /\ Len(st.inner) \in Nat
        /\ st.len <= Len(st.inner)
    BY <1>1, RingFields
  <1>3. Ring(t) /\ t.visible_lines = st.visible_lines /\ t.len = st.len
    BY <1>1, RotateRing
  <1>4. Sound(t)
    BY <1>1, <1>3, SoundIsRing
  <1>5. Lines(t) = Lines(st) /\ l \in Int /\ m \in Int
    BY <1>3, ScreenLines DEF Lines
  <1>6. PICK p, q : p = st.visible_lines - 1 - l /\ q = st.visible_lines - 1 - m
    OBVIOUS
  <1>7. /\ p \in 0 .. st.len - 1 /\ q \in 0 .. st.len - 1 /\ q = p + c
    <2>1. /\ st.visible_lines - st.len <= l /\ l <= st.visible_lines - 1
          /\ st.visible_lines - st.len <= m /\ m <= st.visible_lines - 1 /\ m = l - c
      BY <1>2 DEF Lines
    <2>2. PICK v \in Int, n \in Int : v = st.visible_lines /\ n = st.len
      BY <1>2
    <2>3. p = v - 1 - l /\ q = v - 1 - m
      BY <1>6, <2>2
    <2>4. v - n <= l /\ l <= v - 1 /\ v - n <= m /\ m <= v - 1 /\ m = l - c
      BY <2>1, <2>2
    <2>5. p \in 0 .. n - 1 /\ q \in 0 .. n - 1 /\ q = p + c
      BY ONLY <1>5, <2>3, <2>4, c \in Int, v \in Int, n \in Int
    <2> QED
      BY <2>2, <2>5
  <1>8. RowPos(t, p) = RowPos(st, q)
    <2>1. p \in 0 .. Len(st.inner) - 1 /\ p + c \in 0 .. Len(st.inner) - 1
      BY <1>2, <1>7
    <2>2. c <= Len(st.inner) /\ -c <= Len(st.inner)
      BY <1>2
    <2>3. /\ RowPos(rotate(st, c), p) = RowPos(st, p + c)
          /\ c >= 0 => RowPos(rotate_down(st, c), p) = RowPos(st, p + c)
      BY <1>1, <2>1, <2>2, RotatePos
    <2> QED
      BY <1>7, <2>3
  <1> QED
    BY <1>3, <1>4, <1>5, <1>6, <1>8, FromPos

(* Lines above end leave upwards by n; blank lines come in above end. *)
UpFromTop(c, d, end, n) ==
    \A l \in DOMAIN d :
        /\ l < end - n => l + n \in DOMAIN c /\ d[l] = c[l + n]
        /\ end - n <= l /\ l < end => d[l] = Blank
        /\ l >= end => l \in DOMAIN c /\ d[l] = c[l]

(* Lines from start up to end move up by n within the region, *)
UpInRegion(c, d, start, end, n) ==
    /\ DOMAIN d = DOMAIN c
    /\ \A l \in DOMAIN d :
        /\ l < start \/ l >= end => d[l] = c[l]
        /\ start <= l /\ l < end - n => d[l] = c[l + n]
        /\ end - n <= l /\ l < end => d[l] = Blank

(* or down. *)
DownInRegion(c, d, start, end, n) ==
    /\ DOMAIN d = DOMAIN c
    /\ \A l \in DOMAIN d :
        /\ l < start \/ l >= end => d[l] = c[l]
        /\ start <= l /\ l < start + n => d[l] = Blank
        /\ start + n <= l /\ l < end => d[l] = c[l - n]

LEMMA RotateIntoHistoryContent ==
    ASSUME NEW g, GridOK(g), NEW end \in Nat, NEW n \in Nat, n <= end, end <= g.lines,
           NEW k, k = AtMost(n, g.max_scroll_limit - HistorySize(g)),
           NEW t, t = RotateIntoHistory(g, end, n)
    PROVE  /\ k \in Nat /\ k <= n /\ t.len = g.raw.len + k
           /\ \A l \in Lines(t) :
                 /\ l < end - n => l + n \in Lines(g.raw) /\ Content(t)[l] = Content(g.raw)[l + n]
                 /\ l >= end => l \in Lines(g.raw) /\ Content(t)[l] = Content(g.raw)[l]
  <1>1. g.lines \in Nat /\ 1 <= g.lines /\ g.max_scroll_limit \in Nat
    BY GridFields
  <1>2. PICK r : r = increase_scroll_limit(g, n).raw
    OBVIOUS
  <1>3. Fits(r, g.lines, g.max_scroll_limit) /\ Fits(g.raw, g.lines, g.max_scroll_limit)
    BY <1>2, IncreaseFits DEF GridOK
  <1>4. /\ k \in Nat /\ r.len = g.raw.len + k
        /\ \A l \in Lines(g.raw) : l \in Lines(r) /\ Content(r)[l] = Content(g.raw)[l]
    BY ONLY GridOK(g), n \in Nat, k = AtMost(n, g.max_scroll_limit - HistorySize(g)),
            <1>2, IncreaseContent
  <1>5. PICK d \in Int : d = -n
    OBVIOUS
  <1>6. PICK q : q = rotate(r, d)
    OBVIOUS
  <1>7. Fits(q, g.lines, g.max_scroll_limit)
    BY <1>1, <1>3, <1>6, RotateFits
  <1>8. /\ Sound(q) /\ q.visible_lines = g.lines /\ Sound(r) /\ Ring(r)
        /\ r.len \in Nat /\ g.lines <= r.len /\ g.raw.len \in Nat /\ g.lines <= g.raw.len
    BY <1>3, <1>7, FitsFields
  <1>9. q.len = r.len
    BY <1>6, <1>8, RotateRing
  <1>10. t = SwapEach(q, Downfrom(end, g.lines), d)
    BY <1>2, <1>5, <1>6 DEF RotateIntoHistory
  <1>11. t \in Like(q)
    <2>1. 0 <= end + d /\ g.lines + d <= g.lines
      BY <1>1, <1>5
    <2> QED
      BY <1>1, <1>8, <1>10, <2>1, SwapSpan
  <1>12. t.len = g.raw.len + k /\ Lines(t) = Lines(q) /\ Fits(t, g.lines, g.max_scroll_limit)
    BY <1>4, <1>7, <1>8, <1>9, <1>11, LikeSound, FitsLike DEF Like
  <1>13. Down(Lines(q), Content(q), Content(t), g.lines, n, g.lines - end)
    <2>1. end <= g.lines /\ g.lines <= q.visible_lines /\ g.lines \in Int
      BY <1>1, <1>8
    <2> QED
      BY <1>5, <1>8, <1>10, <2>1, SwapDownfromContent
  <1>14. /\ \A m \in Lines(q) : end <= m /\ m < g.lines => Content(t)[m] = Content(q)[m - n]
         /\ \A m \in Lines(q) : m < end - n => Content(t)[m] = Content(q)[m]
    <2>1. g.lines - (g.lines - end) = end
      BY <1>1
    <2> QED
      BY <1>13, <2>1 DEF Down
  <1>15. ASSUME NEW l \in Lines(q), l + n < g.lines
         PROVE  /\ l + n \in Lines(g.raw) /\ Content(q)[l] = Content(g.raw)[l + n]
    <2>1. l \in Int /\ g.lines - q.len <= l /\ l < g.lines
      BY <1>7, LinesAre
    <2>2. PICK m : m = l + n
      OBVIOUS
    <2>3. k <= n
      BY <1>1, AtMostFacts, <1>8, FitsFields DEF HistorySize
    <2>4. m \in Int /\ g.lines - g.raw.len <= m /\ m < g.lines
      BY ONLY <1>1, <1>4, <1>8, <1>9, <1>15, <2>1, <2>2, <2>3, n \in Nat
    <2>5. m \in Lines(g.raw)
      BY <1>3, <2>4, LinesAre
    <2>6. m \in Lines(r) /\ Content(r)[m] = Content(g.raw)[m]
      BY <1>4, <2>5
    <2>7. l \in Lines(r)
      BY <1>3, <1>9, <2>1, LinesAre
    <2>8. d <= r.len /\ -d <= r.len /\ m = l - d
      BY <1>1, <1>5, <1>8, <2>1, <2>2
    <2>9. Content(q)[l] = Content(r)[m]
      <3>1. Sound(r) /\ d \in Int /\ l \in Lines(r) /\ m \in Lines(r)
        BY <1>8, <2>6, <2>7
      <3>2. q = rotate(r, d) \/ (d >= 0 /\ q = rotate_down(r, d))
        BY <1>6
      <3> QED
        BY ONLY <2>8, <3>1, <3>2, RotateContent
    <2> QED
      BY <2>2, <2>5, <2>6, <2>9
  <1>16. k <= n
    <2>1. PICK room : room = g.max_scroll_limit - HistorySize(g)
      OBVIOUS
    <2>2. room \in Int
      BY <1>1, <1>8, <2>1 DEF HistorySize
    <2> QED
      BY ONLY <2>1, <2>2, n \in Nat, k = AtMost(n, g.max_scroll_limit - HistorySize(g)) DEF AtMost
  <1>17. ASSUME NEW l \in Lines(t), l < end - n
         PROVE  l + n \in Lines(g.raw) /\ Content(t)[l] = Content(g.raw)[l + n]
    <2>1. l \in Int /\ l + n < g.lines
      BY <1>1, <1>12, <1>17, LinesAre
    <2> QED
      BY <1>12, <1>14, <1>15, <1>17, <2>1
  <1>18. ASSUME NEW l \in Lines(t), l >= end
         PROVE  l \in Lines(g.raw) /\ Content(t)[l] = Content(g.raw)[l]
    <2>1. l \in Int /\ l < g.lines
      BY <1>12, LinesAre
    <2>2. PICK m : m = l - n
      OBVIOUS
    <2>3. m \in Int /\ 0 <= m /\ m < g.lines /\ m + n = l
      BY ONLY <1>1, <1>18, <2>1, <2>2, n \in Nat, end \in Nat, n <= end, end <= g.lines
    <2>4. m \in Lines(q)
      <3>1. g.lines - q.len <= m
        BY <1>1, <1>8, <1>9, <2>3
      <3> QED
        BY <1>7, <2>3, <3>1, LinesAre
    <2>5. Content(t)[l] = Content(q)[m]
      BY <1>12, <1>14, <1>18, <2>1, <2>2
    <2> QED
      BY <1>15, <2>1, <2>3, <2>4, <2>5
  <1> QED
    BY <1>4, <1>12, <1>16, <1>17, <1>18

LEMMA RotateRegionContent ==
    ASSUME NEW g, GridOK(g), NEW start \in Nat, NEW end \in Nat, NEW n \in Nat,
           end <= g.lines, start + n <= end,
           NEW t, t = RotateRegion(g, start, end, n)
    PROVE  /\ t \in Like(g.raw)
           /\ \A l \in Lines(g.raw) :
                 /\ l < start \/ l >= end => Content(t)[l] = Content(g.raw)[l]
                 /\ start <= l /\ l < end - n => Content(t)[l] = Content(g.raw)[l + n]
  <1>1. g.lines \in Nat
    BY GridFields
  <1>2. Fits(g.raw, g.lines, g.max_scroll_limit)
    BY DEF GridOK
  <1>3. Sound(g.raw) /\ g.raw.visible_lines = g.lines
    BY <1>2 DEF Fits
  <1>4. PICK b \in Int : b = end - n
    OBVIOUS
  <1>5. /\ b <= g.lines /\ 0 <= start + n /\ b + n <= g.lines /\ n \in Int /\ start <= b
        /\ b - start = end - n - start
    BY <1>1, <1>4
  <1>6. t = SwapEach(g.raw, Upto(start, b), n)
    BY <1>4 DEF RotateRegion
  <1>7. t \in Like(g.raw)
    BY <1>3, <1>5, <1>6, SwapSpan
  <1>8. Up(Lines(g.raw), Content(g.raw), Content(t), start, n, b - start)
    BY <1>3, <1>5, <1>6, SwapUptoContent
  <1>9. start + (b - start) = end - n /\ start + (b - start) + n = end
    BY <1>4
  <1> QED
    BY <1>7, <1>8, <1>9 DEF Up

(* scroll_up: the lines of the region move up, those that leave the screen *)
(* at the top become history, blank lines come in at the bottom.           *)
LEMMA ScrollUpContent ==
    ASSUME NEW g, GridOK(g), NEW start \in Nat, NEW end \in Nat, NEW n \in Nat,
           start < end, end <= g.lines, start = 0 => n <= end,
           NEW h, h = scroll_up(g, start, end, n)
    PROVE  /\ start = 0 =>
                 /\ h.raw.len = g.raw.len + AtMost(n, g.max_scroll_limit - HistorySize(g))
                 /\ UpFromTop(Content(g.raw), Content(h.raw), end, n)
           /\ start # 0 =>
                 /\ h.raw.len = g.raw.len
                 /\ UpInRegion(Content(g.raw), Content(h.raw), start, end, AtMost(n, end - start))
           /\ end - start <= n /\ start # 0 => h.display_offset = g.display_offset
           /\ ~(end - start <= n /\ start # 0) => h.display_offset = ScrolledOffset(g, n)
  <1>1. g.lines \in Nat
    BY GridFields
  <1>2. Fits(g.raw, g.lines, g.max_scroll_limit)
    BY DEF GridOK
  <1>3. DOMAIN Content(g.raw) = Lines(g.raw) /\ Sound(g.raw) /\ g.raw.visible_lines = g.lines
    BY <1>2, FitsFields DEF Content
  <1>4. CASE end - start <= n /\ start # 0
    <2>1. PICK r : r = ResetEach(g.raw, Upto(start, end))
      OBVIOUS
    <2>2. Fits(r, g.lines, g.max_scroll_limit)
      BY <1>1, <1>2, <2>1, SpanFits
    <2>3. h = [g EXCEPT !.raw = r]
      BY <1>4, <2>1 DEF scroll_up
    <2>4. h.raw = r /\ h.display_offset = g.display_offset
      BY <2>2, <2>3, GridWithRaw
    <2>5. r \in Like(g.raw)
      BY <1>3, <2>1, ClearSpan
    <2>6. Content(r) = Cleared(Content(g.raw), start, end)
      <3>1. start <= end /\ end <= g.raw.visible_lines /\ end \in Int
        BY <1>3
      <3> QED
        BY <1>3, <2>1, <3>1, ClearContent
    <2>7. r.len = g.raw.len /\ Lines(r) = Lines(g.raw)
      BY <1>3, <2>5, LikeSound DEF Like
    <2>8. PICK k : k = AtMost(n, end - start)
      OBVIOUS
    <2>9. end - k = start
      BY <1>4, <2>8 DEF AtMost
    <2>10. \A l \in Lines(g.raw) : l \in Int
      BY <1>3, ScreenLines
    <2>11. UpInRegion(Content(g.raw), Content(r), start, end, k)
      BY <1>3, <2>6, <2>9, <2>10 DEF UpInRegion, Cleared
    <2> QED
      BY <1>4, <2>4, <2>7, <2>8, <2>11
  <1>5. CASE ~(end - start <= n /\ start # 0)
    <2>1. PICK m : m = IF start = 0 THEN RotateIntoHistory(g, end, n)
                       ELSE RotateRegion(g, start, end, n)
      OBVIOUS
    <2>2. Fits(m, g.lines, g.max_scroll_limit)
      <3>1. CASE start = 0
        BY <2>1, <3>1, RotateIntoHistoryFits
      <3>2. CASE start # 0
        BY <2>1, <3>2, RotateRegionFits
      <3> QED
        BY <3>1, <3>2
    <2>3. PICK a, c : a = end - n /\ c = ResetEach(m, Upto(a, end))
      OBVIOUS
    <2>4. a \in Nat /\ a <= end
      BY <1>5, <2>3
    <2>5. Fits(c, g.lines, g.max_scroll_limit)
      BY <1>1, <2>2, <2>3, <2>4, SpanFits
    <2>6. PICK r, off : r = DirtyEach(c, Upto(start, end)) /\ off = ScrolledOffset(g, n)
      OBVIOUS
    <2>7. Fits(r, g.lines, g.max_scroll_limit)
      BY <1>1, <2>5, <2>6, SpanFits
    <2>8. off \in Nat /\ off <= g.max_scroll_limit
      BY <2>6, ScrolledOffsetFacts
    <2>9. h = Moved(g, r, off)
      BY <1>5, <2>1, <2>3, <2>6 DEF scroll_up, Moved
    <2>10. h.raw = r /\ h.display_offset = off
      BY <2>7, <2>8, <2>9, GridWith
    <2>11. /\ Sound(m) /\ m.visible_lines = g.lines /\ Sound(c) /\ c.visible_lines = g.lines
      BY <2>2, <2>5, FitsFields
    <2>12. c \in Like(m) /\ r \in Like(c)
      <3>1. end \in Int /\ end <= m.visible_lines /\ end <= c.visible_lines
        BY <2>11
      <3> QED
        BY <2>3, <2>4, <2>6, <2>11, <3>1, ClearSpan
    <2>13. r.len = m.len /\ Lines(r) = Lines(m)
      BY <2>11, <2>12, LikeSound DEF Like
    <2>14. Content(r) = Cleared(Content(m), a, end)
      <3>1. end \in Int /\ end <= m.visible_lines /\ end <= c.visible_lines
        BY <2>11
      <3>2. Content(r) = Content(c)
        BY <2>6, <2>11, <3>1, MarkContent
      <3>3. Content(c) = Cleared(Content(m), a, end)
        BY <2>3, <2>4, <2>11, <3>1, ClearContent
      <3> QED
        BY <3>2, <3>3
    <2>15. /\ DOMAIN Content(r) = Lines(m) /\ DOMAIN Content(m) = Lines(m)
           /\ \A l \in Lines(m) : l \in Int
      BY <2>11, <2>13, ScreenLines DEF Content
    <2>16. \A l \in Lines(m) : /\ a <= l /\ l < end => Content(r)[l] = Blank
                               /\ l < a \/ l >= end => Content(r)[l] = Content(m)[l]
      BY <2>4, <2>14, <2>15 DEF Cleared
    <2>17. CASE start = 0
      <3>1. PICK k : k = AtMost(n, g.max_scroll_limit - HistorySize(g))
        OBVIOUS
      <3>2. m = RotateIntoHistory(g, end, n)
        BY <2>1, <2>17
      <3>3. /\ m.len = g.raw.len + k
            /\ \A l \in Lines(m) :
                 /\ l < end - n => l + n \in Lines(g.raw) /\ Content(m)[l] = Content(g.raw)[l + n]
                 /\ l >= end => l \in Lines(g.raw) /\ Content(m)[l] = Content(g.raw)[l]
        BY <2>17, <3>1, <3>2, RotateIntoHistoryContent
      <3>4. UpFromTop(Content(g.raw), Content(r), end, n)
        BY <1>3, <2>3, <2>15, <2>16, <3>3 DEF UpFromTop
      <3> QED
        BY <2>6, <2>10, <2>13, <2>17, <3>1, <3>3, <3>4
    <2>18. CASE start # 0
      <3>1. m = RotateRegion(g, start, end, n)
        BY <2>1, <2>18
      <3>2. start + n <= end
        BY <1>5, <2>18
      <3>3. /\ m \in Like(g.raw)
            /\ \A l \in Lines(g.raw) :
                 /\ l < start \/ l >= end => Content(m)[l] = Content(g.raw)[l]
                 /\ start <= l /\ l < end - n => Content(m)[l] = Content(g.raw)[l + n]
        BY <3>1, <3>2, RotateRegionContent
      <3>4. m.len = g.raw.len /\ Lines(m) = Lines(g.raw)
        BY <1>3, <3>3, LikeSound DEF Like
      <3>5. AtMost(n, end - start) = n
        BY <1>5, <2>18 DEF AtMost
      <3>6. start <= a
        BY <2>3, <3>2
      <3>7. UpInRegion(Content(g.raw), Content(r), start, end, n)
        BY <1>3, <2>3, <2>4, <2>15, <2>16, <3>3, <3>4, <3>6 DEF UpInRegion
      <3> QED
        BY <1>5, <2>6, <2>10, <2>13, <2>18, <3>4, <3>5, <3>7
    <2> QED
      BY <2>17, <2>18
  <1> QED
    BY <1>4, <1>5

(* scroll_down, in a grid with history: the rows are swapped one by one. *)
LEMMA DownWithHistory ==
    ASSUME NEW st, Sound(st), NEW start \in Nat, NEW end \in Nat, NEW n \in Nat,
           end <= st.visible_lines, start + n <= end, NEW d, d = -n, NEW s, s = start + n,
           NEW r, r = ResetEach(SwapEach(st, Downfrom(s, end), d), Downfrom(start, s))
    PROVE  r \in Like(st) /\ DownInRegion(Content(st), Content(r), start, end, n)
  <1>1. st.visible_lines \in Nat
    BY DEF Sound, StoreType
  <1>2. PICK t : t = SwapEach(st, Downfrom(s, end), d)
    OBVIOUS
  <1>3. /\ s \in Nat /\ end \in Int /\ s <= end /\ n <= s /\ s - n = start /\ d \in Int
        /\ 0 <= s + d /\ end + d <= st.visible_lines /\ s <= st.visible_lines /\ start <= s
    BY <1>1
  <1>4. t \in Like(st)
    BY <1>2, <1>3, SwapSpan
  <1>5. Sound(t) /\ t.visible_lines = st.visible_lines /\ Lines(t) = Lines(st)
    BY <1>4, LikeSound DEF Like
  <1>6. r \in Like(t)
    BY <1>2, <1>3, <1>5, ClearSpan
  <1>7. r \in Like(st) /\ Lines(r) = Lines(st)
    BY <1>4, <1>5, <1>6, LikeTrans, LikeSound
  <1>8. Down(Lines(st), Content(st), Content(t), end, n, end - s)
    BY <1>2, <1>3, SwapDownfromContent
  <1>9. end - (end - s) = s /\ end - (end - s) - n = start
    BY <1>3
  <1>10. /\ \A m \in Lines(st) : s <= m /\ m < end => Content(t)[m] = Content(st)[m - n]
         /\ \A m \in Lines(st) : m >= end \/ m < start => Content(t)[m] = Content(st)[m]
    BY <1>8, <1>9 DEF Down
  <1>11. Content(r) = Cleared(Content(t), start, s)
    BY <1>2, <1>3, <1>5, ClearContent
  <1>12. \A l \in Lines(st) : l \in Int
    BY ScreenLines
  <1>13. /\ DOMAIN Content(st) = Lines(st) /\ DOMAIN Content(t) = Lines(st)
         /\ DOMAIN Content(r) = Lines(st)
    BY <1>5, <1>7 DEF Content
  <1>14. \A l \in Lines(st) : Content(r)[l] = IF start <= l /\ l < s THEN Blank ELSE Content(t)[l]
    BY <1>11, <1>13 DEF Cleared
  <1> QED
    BY <1>3, <1>7, <1>10, <1>12, <1>13, <1>14 DEF DownInRegion

(* scroll_down, in a grid without: the lines below the region go up, the   *)
(* buffer is rotated, the top is cleared and the lines above the region    *)
(* come back.                                                              *)
LEMMA DownWithoutHistory ==
    ASSUME NEW st, Sound(st), st.len = st.visible_lines,
           NEW start \in Nat, NEW end \in Nat, NEW n \in Nat,
           end <= st.visible_lines, start + n <= end, NEW d, d = -n,
           NEW b1, b1 = SwapEach(st, Upto(end, st.visible_lines), d),
           NEW b2, b2 = rotate_down(b1, n),
           NEW b3, b3 = ResetEach(b2, Upto(0, n)),
           NEW b4, b4 = SwapEach(b3, Upto(0, start), n)
    PROVE  b4.len = st.len /\ DownInRegion(Content(st), Content(b4), start, end, n)
  <1>1. PICK v \in Nat : v = st.visible_lines
    BY DEF Sound, StoreType
  <1>2. PICK L : L = Lines(st)
    OBVIOUS
  <1>3. /\ \A l : l \in L <=> l \in Int /\ 0 <= l /\ l < v
        /\ L \subseteq Int
    BY <1>1, <1>2 DEF Lines
  <1>4. /\ end \in Int /\ v \in Int /\ end <= v /\ d \in Int /\ 0 <= end + d /\ v + d <= v
        /\ n <= end /\ n <= v /\ 0 <= n /\ n \in Int /\ 0 \in Nat /\ start <= v
        /\ 0 <= 0 + n /\ start + n <= v /\ 0 <= start /\ start \in Int
    BY <1>1
  <1>5. b1 \in Like(st)
    BY <1>1, <1>4, SwapSpan
  <1>6. Sound(b1) /\ b1.visible_lines = v /\ b1.len = v /\ Lines(b1) = L
    BY <1>1, <1>2, <1>5, LikeSound DEF Like
  <1>7. Sound(b2) /\ b2.visible_lines = v /\ b2.len = v /\ Lines(b2) = L
    <2>1. Ring(b1) /\ 1 <= v
      BY <1>6, SoundIsRing
    <2>2. Ring(b2) /\ b2.visible_lines = v /\ b2.len = v
      BY <1>4, <1>6, <2>1, RotateRing
    <2> QED
      BY <1>1, <1>6, <2>1, <2>2, SoundIsRing DEF Lines
  <1>8. b3 \in Like(b2)
    BY <1>4, <1>7, ClearSpan
  <1>9. Sound(b3) /\ b3.visible_lines = v /\ b3.len = v /\ Lines(b3) = L
    BY <1>7, <1>8, LikeSound DEF Like
  <1>10. b4 \in Like(b3)
    BY <1>4, <1>9, SwapSpan
  <1>11. b4.len = v /\ Lines(b4) = L
    BY <1>9, <1>10, LikeSound DEF Like
  <1>12. PICK c0, c1, c2, c3, c4 :
            /\ c0 = Content(st) /\ c1 = Content(b1) /\ c2 = Content(b2)
            /\ c3 = Content(b3) /\ c4 = Content(b4)
    OBVIOUS
  <1>13. \A m \in L : /\ end - n <= m /\ m < v - n => c1[m] = c0[m + n]
                      /\ m < end - n => c1[m] = c0[m]
    <2>1. Up(L, c0, c1, end - n, n, v - end)
      <3>1. Content(b1) = Content(SwapEach(st, Upto(end, v), d)) /\ v <= st.visible_lines
        BY <1>1, <1>4
      <3>2. Up(Lines(st), Content(st), Content(b1), end - n, n, v - end)
        BY <1>4, <3>1, SwapUptoContentAbove
      <3> QED
        BY <1>2, <1>12, <3>2
    <2>2. end - n + (v - end) = v - n
      BY <1>4
    <2> QED
      BY <2>1, <2>2 DEF Up
  <1>14. ASSUME NEW m \in L, n <= m
         PROVE  c2[m] = IF m < end THEN c0[m - n] ELSE c0[m]
    <2>1. PICK k : k = m - n
      OBVIOUS
    <2>2. m \in Int /\ k \in Int /\ 0 <= k /\ k < v /\ k + n = m /\ m < v
      BY <1>3, <1>4, <1>14, <2>1
    <2>3. k \in L
      BY <1>3, <2>2
    <2>4. c2[m] = c1[k]
      <3>1. n <= b1.len /\ -n <= b1.len
        BY <1>4, <1>6
      <3>2. b2 = rotate(b1, n) \/ (n >= 0 /\ b2 = rotate_down(b1, n))
        BY <1>4
      <3>3. Sound(b1) /\ n \in Int /\ m \in Lines(b1) /\ k \in Lines(b1)
        BY <1>4, <1>6, <2>3
      <3>4. Content(b2)[m] = Content(b1)[k]
        BY ONLY <2>1, <3>1, <3>2, <3>3, RotateContent
      <3> QED
        BY <1>12, <3>4
    <2>5. CASE m < end
      <3>1. k < end - n
        BY <1>4, <2>2, <2>5
      <3> QED
        BY <1>13, <2>1, <2>3, <2>4, <2>5, <3>1
    <2>6. CASE ~(m < end)
      <3>1. end - n <= k /\ k < v - n
        BY <1>4, <2>2, <2>6
      <3> QED
        BY <1>13, <2>2, <2>3, <2>4, <2>6, <3>1
    <2> QED
      BY <2>5, <2>6
  <1>15. /\ DOMAIN c0 = L /\ DOMAIN c2 = L /\ DOMAIN c4 = L
    BY <1>2, <1>7, <1>11, <1>12 DEF Content
  <1>16. \A m \in L : c3[m] = IF m < n THEN Blank ELSE c2[m]
    <2>1. PICK z : z = 0
      OBVIOUS
    <2>2. c3 = Cleared(c2, z, n)
      BY <1>4, <1>7, <1>12, <2>1, ClearContent
    <2> QED
      BY <1>3, <1>15, <2>1, <2>2 DEF Cleared
  <1>17. /\ \A m \in L : m < start => c4[m] = c3[m + n]
         /\ \A m \in L : m >= start + n => c4[m] = c3[m]
         /\ \A m \in L : start <= m /\ m < start + n => \E j \in 0 .. n - 1 : c4[m] = c3[j]
    <2>1. PICK z : z = 0
      OBVIOUS
    <2>2. Up(L, c3, c4, z, n, start - z)
      BY <1>4, <1>9, <1>12, <2>1, SwapUptoContent
    <2>3. z + (start - z) = start /\ z + n - 1 = n - 1
      BY <1>4, <2>1
    <2> QED
      BY <1>3, <2>1, <2>2, <2>3 DEF Up
  <1>18. ASSUME NEW m \in L
         PROVE  /\ m < start \/ m >= end => c4[m] = c0[m]
                /\ start <= m /\ m < start + n => c4[m] = Blank
                /\ start + n <= m /\ m < end => c4[m] = c0[m - n]
    <2>1. m \in Int /\ 0 <= m /\ m < v
      BY <1>3
    <2>2. CASE m < start
      <3>1. PICK k : k = m + n
        OBVIOUS
      <3>2. k \in Int /\ 0 <= k /\ k < v /\ n <= k /\ k < end /\ k - n = m
        BY <1>4, <2>1, <2>2, <3>1
      <3>3. k \in L
        BY <1>3, <3>2
      <3>4. c4[m] = c3[k] /\ c3[k] = c2[k] /\ c2[k] = c0[m]
        BY <1>4, <1>14, <1>16, <1>17, <2>2, <3>1, <3>2, <3>3
      <3> QED
        BY <1>4, <2>1, <2>2, <3>4
    <2>3. CASE start <= m /\ m < start + n
      <3>1. PICK j \in 0 .. n - 1 : c4[m] = c3[j]
        BY <1>17, <2>3
      <3>2. j \in L /\ j < n
        BY <1>3, <1>4
      <3>3. c3[j] = Blank
        BY <1>16, <3>2
      <3> QED
        BY <1>4, <2>1, <2>3, <3>1, <3>3
    <2>4. CASE m >= start + n
      <3>1. c4[m] = c3[m]
        BY <1>17, <2>4
      <3>2. n <= m /\ ~(m < n) /\ ~(m < start)
        BY <1>4, <2>1, <2>4
      <3>3. c3[m] = c2[m] /\ c2[m] = IF m < end THEN c0[m - n] ELSE c0[m]
        BY <1>14, <1>16, <3>2
      <3> QED
        BY <1>4, <2>1, <2>4, <3>1, <3>2, <3>3
    <2> QED
      BY <1>4, <2>1, <2>2, <2>3, <2>4
  <1>19. DownInRegion(c0, c4, start, end, n)
    BY <1>15, <1>18 DEF DownInRegion
  <1> QED
    BY <1>1, <1>11, <1>12, <1>19

(* scroll_down: the lines of the region move down, the lowest ones are     *)
(* lost, blank lines come in at the top.                                   *)
LEMMA ScrollDownContent ==
    ASSUME NEW g, GridOK(g), NEW start \in Nat, NEW end \in Nat, NEW n \in Nat,
           end <= g.lines, start < end, n <= end - start,
           NEW h, h = scroll_down(g, start, end, n)
    PROVE  /\ h.raw.len = g.raw.len
           /\ DownInRegion(Content(g.raw), Content(h.raw), start, end, n)
  <1>1. g.lines \in Nat /\ 1 <= g.lines /\ g.max_scroll_limit \in Nat
    BY GridFields
  <1>2. Fits(g.raw, g.lines, g.max_scroll_limit)
    BY DEF GridOK
  <1>3. /\ DOMAIN Content(g.raw) = Lines(g.raw) /\ Sound(g.raw) /\ g.raw.visible_lines = g.lines
        /\ g.raw.len \in Nat /\ g.lines <= g.raw.len /\ g.raw.len - g.lines <= g.max_scroll_limit
    BY <1>2, FitsFields DEF Content
  <1>4. CASE end - start <= n
    <2>1. PICK r : r = ResetEach(g.raw, Upto(start, end))
      OBVIOUS
    <2>2. Fits(r, g.lines, g.max_scroll_limit)
      BY <1>1, <1>2, <2>1, SpanFits
    <2>3. h = [g EXCEPT !.raw = r]
      BY <1>4, <2>1 DEF scroll_down
    <2>4. h.raw = r
      BY <2>2, <2>3, GridWithRaw
    <2>5. r \in Like(g.raw)
      BY <1>3, <2>1, ClearSpan
    <2>6. Content(r) = Cleared(Content(g.raw), start, end)
      <3>1. start <= end /\ end <= g.raw.visible_lines /\ end \in Int
        BY <1>3
      <3> QED
        BY <1>3, <2>1, <3>1, ClearContent
    <2>7. r.len = g.raw.len /\ Lines(r) = Lines(g.raw)
      BY <1>3, <2>5, LikeSound DEF Like
    <2>8. start + n = end
      BY <1>4
    <2>9. \A l \in Lines(g.raw) : l \in Int
      BY <1>3, ScreenLines
    <2>10. DownInRegion(Content(g.raw), Content(r), start, end, n)
      BY <1>3, <2>6, <2>8, <2>9 DEF DownInRegion, Cleared
    <2> QED
      BY <2>4, <2>7, <2>10
  <1>5. CASE ~(end - start <= n)
    <2>1. PICK d \in Int : d = -n
      OBVIOUS
    <2>2. PICK b1, b2, b3, b4 :
              /\ b1 = SwapEach(g.raw, Upto(end, g.lines), d)
              /\ b2 = rotate_down(b1, n)
              /\ b3 = ResetEach(b2, Upto(0, n))
              /\ b4 = SwapEach(b3, Upto(0, start), n)
      OBVIOUS
    <2>3. PICK s : s = start + n
      OBVIOUS
    <2>4. PICK h2 : h2 = ResetEach(SwapEach(g.raw, Downfrom(s, end), d), Downfrom(start, s))
      OBVIOUS
    <2>5. PICK m : m = IF g.max_scroll_limit = 0 THEN b4 ELSE h2
      OBVIOUS
    <2>6. start + n <= end
      BY <1>5
    <2>7. Fits(m, g.lines, g.max_scroll_limit)
      <3>1. Fits(b4, g.lines, g.max_scroll_limit)
        <4>1. 0 <= end + d /\ g.lines + d <= g.lines
          BY <1>1, <2>1
        <4>2. Fits(b1, g.lines, g.max_scroll_limit)
          BY <1>1, <1>2, <2>2, <4>1, SwapFits
        <4>3. Fits(b2, g.lines, g.max_scroll_limit)
          BY <1>1, <2>2, <4>2, RotateFits
        <4>4. n <= g.lines /\ start <= g.lines /\ 0 <= 0 + n /\ start + n <= g.lines
          BY <1>1
        <4>5. Fits(b3, g.lines, g.max_scroll_limit)
          BY <1>1, <2>2, <4>3, <4>4, SpanFits
        <4> QED
          BY <1>1, <2>2, <4>4, <4>5, SwapFits
      <3>2. Fits(h2, g.lines, g.max_scroll_limit)
        <4>1. h2 \in Like(g.raw)
          BY <1>3, <2>1, <2>3, <2>4, <2>6, DownWithHistory
        <4> QED
          BY <1>2, <4>1, FitsLike
      <3> QED
        BY <2>5, <3>1, <3>2
    <2>8. m.len = g.raw.len /\ DownInRegion(Content(g.raw), Content(m), start, end, n)
      <3>1. CASE g.max_scroll_limit = 0
        <4>1. g.raw.len = g.raw.visible_lines
          BY <1>1, <1>3, <3>1
        <4>2. b4.len = g.raw.len /\ DownInRegion(Content(g.raw), Content(b4), start, end, n)
          <5>1. b1 = SwapEach(g.raw, Upto(end, g.raw.visible_lines), d)
            BY <1>3, <2>2
          <5>2. end <= g.raw.visible_lines /\ Sound(g.raw) /\ d = -n
            BY <1>3, <2>1
          <5> QED
            BY ONLY <2>2, <2>6, <4>1, <5>1, <5>2, start \in Nat, end \in Nat, n \in Nat,
                    DownWithoutHistory
        <4> QED
          BY <2>5, <3>1, <4>2
      <3>2. CASE g.max_scroll_limit # 0
        <4>1. h2 \in Like(g.raw) /\ DownInRegion(Content(g.raw), Content(h2), start, end, n)
          BY <1>3, <2>1, <2>3, <2>4, <2>6, DownWithHistory
        <4> QED
          BY <2>5, <3>2, <4>1 DEF Like
      <3> QED
        BY <3>1, <3>2
    <2>9. PICK r : r = DirtyEach(m, Upto(start, end))
      OBVIOUS
    <2>10. Fits(r, g.lines, g.max_scroll_limit)
      BY <1>1, <2>7, <2>9, SpanFits
    <2>11. h = [g EXCEPT !.raw = r]
      BY <1>5, <2>1, <2>2, <2>3, <2>4, <2>5, <2>9 DEF scroll_down
    <2>12. h.raw = r
      BY <2>10, <2>11, GridWithRaw
    <2>13. Sound(m) /\ m.visible_lines = g.lines
      BY <2>7, FitsFields
    <2>14. end \in Int /\ end <= m.visible_lines
      BY <2>13
    <2>15. r.len = m.len
      BY <2>9, <2>13, <2>14, ClearSpan DEF Like
    <2>16. Content(r) = Content(m)
      BY <2>9, <2>13, <2>14, MarkContent
    <2> QED
      BY <2>8, <2>12, <2>15, <2>16
  <1> QED
    BY <1>4, <1>5

-----------------------------------------------------------------------------
(* The other methods. *)

(* A grid put together from sound parts. *)
LEMMA GridMade ==
    ASSUME NEW lines \in 1 .. MaxLines, NEW limit \in ScrollLimits,
           NEW r, Fits(r, lines, limit),
           NEW off \in Nat, off <= limit,
           NEW c \in Nat, c < lines, NEW s \in Nat, s < lines,
           NEW h, h = [raw |-> r, lines |-> lines, display_offset |-> off,
                       max_scroll_limit |-> limit, cursor |-> c, saved |-> s]
    PROVE  GridOK(h)
  <1>1. r \in StoreType
    BY DEF Fits, Sound
  <1>2. h \in GridType
    BY <1>1 DEF GridType
  <1> QED
    BY <1>2 DEF GridOK

(* Moving the view. *)
LEMMA GridWithOffset ==
    ASSUME NEW g, GridOK(g), NEW off \in Nat, off <= g.max_scroll_limit,
           NEW h, h = [g EXCEPT !.display_offset = off]
    PROVE  GridOK(h)
  <1>1. h = [raw |-> g.raw, lines |-> g.lines, display_offset |-> off,
             max_scroll_limit |-> g.max_scroll_limit, cursor |-> g.cursor,
             saved |-> g.saved]
    BY DEF GridOK, GridType
  <1>2. Fits(g.raw, g.lines, g.max_scroll_limit)
    BY DEF GridOK
  <1> QED
    BY <1>1, <1>2, GridFields, GridMade

(* The history is what the storage holds besides the screen. *)
LEMMA HistoryFacts ==
    ASSUME NEW g, GridOK(g)
    PROVE  /\ HistorySize(g) = g.raw.len - g.lines
           /\ HistorySize(g) \in Nat /\ HistorySize(g) <= g.max_scroll_limit
           /\ g.raw.len \in Nat /\ g.lines <= g.raw.len
           /\ Ring(g.raw) /\ g.raw.visible_lines = g.lines
  <1>1. Fits(g.raw, g.lines, g.max_scroll_limit)
    BY DEF GridOK
  <1> QED
    BY <1>1, FitsFields DEF HistorySize

(* scroll_display *)
LEMMA ScrollDisplayOK ==
    ASSUME NEW g, GridOK(g), NEW delta \in Int
    PROVE  GridOK(scroll_display(g, delta))
  <1>1. PICK back : back = IF g.display_offset + delta < 0 THEN 0 ELSE g.display_offset + delta
    OBVIOUS
  <1>2. PICK hist : hist = HistorySize(g)
    OBVIOUS
  <1>3. PICK off : off = AtMost(back, hist)
    OBVIOUS
  <1>4. off \in Nat /\ off <= g.max_scroll_limit
    <2>1. hist \in Nat /\ hist <= g.max_scroll_limit /\ g.max_scroll_limit \in Nat
      BY <1>2, HistoryFacts, GridFields
    <2>2. back \in Nat
      BY <1>1, GridFields
    <2> QED
      BY <1>3, <2>1, <2>2 DEF AtMost
  <1>5. PICK h : h = [g EXCEPT !.display_offset = off]
    OBVIOUS
  <1>6. scroll_display(g, delta) = h
    BY <1>1, <1>2, <1>3, <1>5 DEF scroll_display
  <1>7. GridOK(h)
    BY <1>4, <1>5, GridWithOffset
  <1> QED
    BY <1>6, <1>7

(* Dropping history. *)
LEMMA ShrinkFits ==
    ASSUME NEW g, GridOK(g), NEW n \in Nat, n <= HistorySize(g)
    PROVE  Fits(shrink_lines(g.raw, n), g.lines, g.max_scroll_limit)
  <1>1. /\ Ring(g.raw) /\ g.raw.visible_lines = g.lines /\ g.raw.len \in Nat
        /\ g.raw.len - g.lines \in Nat /\ g.raw.len - g.lines <= g.max_scroll_limit
        /\ n <= g.raw.len - g.lines
    BY HistoryFacts
  <1>2. g.lines \in Nat /\ 1 <= g.lines /\ g.max_scroll_limit \in Nat
    BY GridFields
  <1>3. PICK r : r = shrink_lines(g.raw, n)
    OBVIOUS
  <1>4. 1 <= g.raw.len - n
    BY <1>1, <1>2
  <1>5. Ring(r) /\ r.visible_lines = g.lines /\ r.len = g.raw.len - n
    BY <1>1, <1>3, <1>4, ShrinkRing
  <1>6. g.lines <= r.len /\ r.len - g.lines <= g.max_scroll_limit
    BY <1>1, <1>2, <1>5
  <1> QED
    BY <1>2, <1>3, <1>5, <1>6, FitsRing

LEMMA DecreaseOK ==
    ASSUME NEW g, GridOK(g), NEW count \in Nat
    PROVE  GridOK(decrease_scroll_limit(g, count))
  <1>1. PICK n : n = AtMost(count, HistorySize(g))
    OBVIOUS
  <1>2. n \in Nat /\ n <= HistorySize(g)
    BY <1>1, HistoryFacts DEF AtMost
  <1>3. PICK r : r = shrink_lines(g.raw, n)
    OBVIOUS
  <1>4. PICK h : h = [g EXCEPT !.raw = r]
    OBVIOUS
  <1>5. GridOK(h) /\ SameFrame(g, h) /\ h.display_offset = g.display_offset
    <2>1. Fits(r, g.lines, g.max_scroll_limit)
      BY <1>2, <1>3, ShrinkFits
    <2> QED
      BY <1>4, <2>1, GridWithRaw
  <1>6. PICK off : off = AtMost(g.display_offset, HistorySize(h))
    OBVIOUS
  <1>7. off \in Nat /\ off <= h.max_scroll_limit
    <2>1. HistorySize(h) \in Nat /\ HistorySize(h) <= h.max_scroll_limit /\ h.max_scroll_limit \in Nat
      BY <1>5, HistoryFacts, GridFields
    <2>2. g.display_offset \in Nat
      BY GridFields
    <2> QED
      BY <1>6, <2>1, <2>2 DEF AtMost
  <1>8. PICK k : k = [h EXCEPT !.display_offset = off]
    OBVIOUS
  <1>9. GridOK(k)
    BY <1>5, <1>7, <1>8, GridWithOffset
  <1>10. decrease_scroll_limit(g, count) = IF n # 0 THEN k ELSE g
    BY <1>1, <1>3, <1>4, <1>6, <1>8 DEF decrease_scroll_limit
  <1> QED
    BY <1>9, <1>10

(* clear_history *)
LEMMA ClearHistoryOK ==
    ASSUME NEW g, GridOK(g)
    PROVE  GridOK(clear_history(g)) /\ SameFrame(g, clear_history(g))
  <1>1. PICK r, off : r = shrink_lines(g.raw, HistorySize(g)) /\ off = 0
    OBVIOUS
  <1>2. PICK h : h = Moved(g, r, off)
    OBVIOUS
  <1>3. clear_history(g) = [g EXCEPT !.raw = r, !.display_offset = off]
    BY <1>1 DEF clear_history
  <1>4. clear_history(g) = h
    BY <1>2, <1>3 DEF Moved, GridOK, GridType
  <1>5. HistorySize(g) \in Nat /\ HistorySize(g) <= HistorySize(g)
    BY HistoryFacts
  <1>6. Fits(r, g.lines, g.max_scroll_limit)
    BY <1>1, <1>5, ShrinkFits
  <1>7. off \in Nat /\ off <= g.max_scroll_limit
    BY <1>1, GridFields
  <1>8. GridOK(h) /\ SameFrame(g, h)
    BY <1>2, <1>6, <1>7, GridWith
  <1> QED
    BY <1>4, <1>8

(* Grid::reset *)
LEMMA ResetOK ==
    ASSUME NEW g, GridOK(g)
    PROVE  GridOK(reset(g))
  <1>1. PICK c : c = clear_history(g)
    OBVIOUS
  <1>2. GridOK(c) /\ SameFrame(g, c)
    BY <1>1, ClearHistoryOK
  <1>3. PICK r : r = ResetEach(c.raw, Upto(0, g.lines))
    OBVIOUS
  <1>4. Fits(r, c.lines, c.max_scroll_limit)
    <2>1. Fits(c.raw, c.lines, c.max_scroll_limit) /\ c.lines \in Nat /\ c.lines = g.lines
      BY <1>2, GridFields DEF GridOK, SameFrame
    <2> QED
      BY <1>3, <2>1, SpanFits
  <1>5. PICK z : z = 0
    OBVIOUS
  <1>6. reset(g) = [c EXCEPT !.raw = r, !.cursor = z, !.saved = z]
    BY <1>1, <1>3, <1>5 DEF reset
  <1>7. PICK h : h = [raw |-> r, lines |-> c.lines, display_offset |-> c.display_offset,
                      max_scroll_limit |-> c.max_scroll_limit, cursor |-> z, saved |-> z]
    OBVIOUS
  <1>8. reset(g) = h
    BY <1>2, <1>6, <1>7 DEF GridOK, GridType
  <1>9. /\ c.lines \in 1 .. MaxLines /\ c.max_scroll_limit \in ScrollLimits
        /\ c.display_offset \in Nat /\ c.display_offset <= c.max_scroll_limit
        /\ z \in Nat /\ z < c.lines
    BY <1>2, <1>5, GridFields
  <1>10. GridOK(h)
    BY <1>4, <1>7, <1>9, GridMade
  <1> QED
    BY <1>8, <1>10

(* reset_region and a cell write. *)
LEMMA ResetRegionOK ==
    ASSUME NEW g, GridOK(g), NEW start \in Nat, NEW end \in Nat, end <= g.lines
    PROVE  GridOK(reset_region(g, start, end))
  <1>1. PICK r : r = ResetEach(g.raw, Upto(start, end))
    OBVIOUS
  <1>2. Fits(r, g.lines, g.max_scroll_limit)
    <2>1. Fits(g.raw, g.lines, g.max_scroll_limit) /\ g.lines \in Nat
      BY GridFields DEF GridOK
    <2> QED
      BY <1>1, <2>1, SpanFits
  <1>3. PICK h : h = [g EXCEPT !.raw = r]
    OBVIOUS
  <1>4. reset_region(g, start, end) = h
    BY <1>1, <1>3 DEF reset_region
  <1>5. GridOK(h)
    BY <1>2, <1>3, GridWithRaw
  <1> QED
    BY <1>4, <1>5

LEMMA WriteOK ==
    ASSUME NEW g, GridOK(g), NEW line \in Nat, line < g.lines, NEW text \in TextValues
    PROVE  GridOK(write(g, line, text))
  <1>1. PICK row : row = [text |-> text, dirty |-> TRUE]
    OBVIOUS
  <1>2. row \in RowType
    BY <1>1 DEF RowType
  <1>3. PICK r : r = SetRow(g.raw, line, row)
    OBVIOUS
  <1>4. Fits(r, g.lines, g.max_scroll_limit)
    <2>1. Fits(g.raw, g.lines, g.max_scroll_limit) /\ g.lines \in Nat
      BY GridFields DEF GridOK
    <2>2. Sound(g.raw) /\ line \in OnScreen(g.raw)
      BY <2>1 DEF Fits, OnScreen
    <2>3. r \in Like(g.raw)
      BY <1>2, <1>3, <2>2, SetRowLike
    <2> QED
      BY <2>1, <2>3, FitsLike
  <1>5. PICK h : h = [g EXCEPT !.raw = r]
    OBVIOUS
  <1>6. write(g, line, text) = h
    BY <1>1, <1>3, <1>5 DEF write
  <1>7. GridOK(h)
    BY <1>4, <1>5, GridWithRaw
  <1> QED
    BY <1>6, <1>7

(* clear_viewport scrolls no more lines than the screen has. *)
LEMMA UsedLinesBound ==
    ASSUME NEW g, GridOK(g)
    PROVE  UsedLines(g) \in 0 .. g.lines
  <1>1. g.lines \in Nat /\ 1 <= g.lines
    BY GridFields
  <1>2. PICK n \in Nat : n = g.lines
    BY <1>1
  <1>3. PICK rs : rs = ScreenRows(g)
    OBVIOUS
  <1>4. Len(rs) = n
    BY <1>2, <1>3 DEF ScreenRows
  <1>5. PICK I : I = {i \in 1 .. Len(rs) : rs[i].text # Blank}
    OBVIOUS
  <1>6. PICK last : last = IF I # {} THEN Max(I) ELSE 0
    OBVIOUS
  <1>7. last \in 0 .. n
    <2>1. CASE I # {}
      <3>1. I \in SUBSET (1 .. n)
        BY <1>4, <1>5
      <3>2. Max(I) \in I
        BY <2>1, <3>1, LastTurn
      <3>3. PICK m \in 1 .. n : m = Max(I)
        BY <3>1, <3>2
      <3>4. last = m
        BY <1>6, <2>1, <3>3
      <3> QED
        BY <3>4
    <2>2. CASE I = {}
      BY <1>6, <2>2
    <2> QED
      BY <2>1, <2>2
  <1>8. SelectLastInSeq(ScreenRows(g), LAMBDA r : r.text # Blank) = last
    BY <1>3, <1>5, <1>6 DEF SelectLastInSeq
  <1>9. UsedLines(g) = IF last = 0 /\ HistorySize(g) = 0 THEN 1 ELSE last
    BY <1>8 DEF UsedLines
  <1> QED
    BY <1>1, <1>2, <1>7, <1>9

LEMMA ClearViewportOK ==
    ASSUME NEW g, GridOK(g)
    PROVE  GridOK(clear_viewport(g))
  <1>1. PICK used : used = UsedLines(g)
    OBVIOUS
  <1>2. g.lines \in Nat /\ used \in 0 .. g.lines
    BY <1>1, GridFields, UsedLinesBound
  <1>3. PICK z, s : z = 0 /\ s = scroll_up(g, z, g.lines, used)
    OBVIOUS
  <1>4. used \in Nat /\ used <= g.lines /\ g.lines <= g.lines /\ z \in Nat
    BY <1>2, <1>3
  <1>5. GridOK(s) /\ SameFrame(g, s)
    BY <1>2, <1>3, <1>4, ScrollUpOK
  <1>6. PICK b \in Int : b = g.lines - used /\ b <= g.lines
    <2>1. g.lines - used \in Int /\ g.lines - used <= g.lines
      BY <1>2, <1>4
    <2> QED
      BY <2>1
  <1>7. PICK r : r = ResetEach(s.raw, Upto(z, b))
    OBVIOUS
  <1>8. Fits(r, s.lines, s.max_scroll_limit)
    <2>1. Fits(s.raw, s.lines, s.max_scroll_limit) /\ s.lines \in Nat /\ s.lines = g.lines
      BY <1>5, GridFields DEF GridOK, SameFrame
    <2> QED
      BY <1>4, <1>6, <1>7, <2>1, SpanFits
  <1>9. PICK h : h = [s EXCEPT !.raw = r]
    OBVIOUS
  <1>10. clear_viewport(g) = h
    BY <1>1, <1>3, <1>6, <1>7, <1>9 DEF clear_viewport
  <1>11. GridOK(h)
    BY <1>5, <1>8, <1>9, GridWithRaw
  <1> QED
    BY <1>10, <1>11

-----------------------------------------------------------------------------
(* The other methods, as they show. *)

(* What is left after dropping history is as it was. *)
LEMMA ShrinkContent ==
    ASSUME NEW g, GridOK(g), NEW n \in Nat, n <= HistorySize(g),
           NEW r, r = shrink_lines(g.raw, n)
    PROVE  /\ r.len = g.raw.len - n
           /\ \A l \in Lines(r) : l \in Lines(g.raw) /\ Content(r)[l] = Content(g.raw)[l]
  <1>1. /\ Ring(g.raw) /\ g.raw.visible_lines = g.lines /\ g.raw.len \in Nat
        /\ g.lines <= g.raw.len /\ n <= g.raw.len - g.lines
    BY HistoryFacts
  <1>2. g.lines \in Nat /\ 1 <= g.lines
    BY GridFields
  <1>3. 1 <= g.raw.len - n
    BY <1>1, <1>2
  <1>4. r.len = g.raw.len - n
    BY <1>1, <1>3, ShrinkRing
  <1>5. Fits(r, g.lines, g.max_scroll_limit) /\ Fits(g.raw, g.lines, g.max_scroll_limit)
    BY ShrinkFits DEF GridOK
  <1>6. Sound(r) /\ Sound(g.raw) /\ r.visible_lines = g.lines
    BY <1>5, FitsFields
  <1>7. ASSUME NEW l \in Lines(r)
        PROVE  l \in Lines(g.raw) /\ Content(r)[l] = Content(g.raw)[l]
    <2>1. l \in Int /\ g.lines - r.len <= l /\ l < g.lines
      BY <1>5, LinesAre
    <2>2. g.lines - g.raw.len <= l
      BY <1>1, <1>2, <1>4, <2>1
    <2>3. l \in Lines(g.raw)
      BY <1>5, <2>1, <2>2, LinesAre
    <2>4. PICK p : p = g.lines - 1 - l
      OBVIOUS
    <2>5. p \in 0 .. g.raw.len - n - 1
      BY <1>1, <1>2, <1>4, <2>1, <2>4
    <2>6. RowPos(r, p) = RowPos(g.raw, p)
      BY <1>1, <1>3, <2>5, ShrinkPos
    <2> QED
      BY <1>1, <1>6, <2>3, <2>4, <2>6, FromPos
  <1>8. \A l \in Lines(r) : l \in Lines(g.raw) /\ Content(r)[l] = Content(g.raw)[l]
    BY ONLY <1>7
  <1> QED
    BY ONLY <1>4, <1>8

LEMMA ClearHistoryContent ==
    ASSUME NEW g, GridOK(g), NEW h, h = clear_history(g)
    PROVE  /\ GridOK(h) /\ SameFrame(g, h) /\ h.raw.len = g.lines
           /\ \A l \in Lines(h.raw) : l \in Lines(g.raw) /\ Content(h.raw)[l] = Content(g.raw)[l]
  <1>1. PICK n : n = HistorySize(g)
    OBVIOUS
  <1>2. /\ n \in Nat /\ n <= HistorySize(g) /\ n = g.raw.len - g.lines
        /\ g.raw.len \in Nat /\ g.lines \in Nat
    BY <1>1, HistoryFacts, GridFields
  <1>3. PICK r : r = shrink_lines(g.raw, n)
    OBVIOUS
  <1>4. h.raw = r
    BY <1>1, <1>3 DEF clear_history, GridOK, GridType
  <1>5. /\ r.len = g.raw.len - n
        /\ \A l \in Lines(r) : l \in Lines(g.raw) /\ Content(r)[l] = Content(g.raw)[l]
    <2>1. r.len = g.raw.len - n
      BY ONLY GridOK(g), <1>2, <1>3, ShrinkContent
    <2>2. \A l \in Lines(r) : l \in Lines(g.raw) /\ Content(r)[l] = Content(g.raw)[l]
      BY ONLY GridOK(g), <1>2, <1>3, ShrinkContent
    <2> QED
      BY ONLY <2>1, <2>2
  <1>6. r.len = g.lines
    BY <1>2, <1>5
  <1> QED
    BY <1>4, <1>5, <1>6, ClearHistoryOK

(* Every line is blank and there is no history. *)
LEMMA ResetContent ==
    ASSUME NEW g, GridOK(g), NEW h, h = reset(g)
    PROVE  /\ h.raw.len = g.lines /\ h.lines = g.lines /\ h.cursor = 0
           /\ h.max_scroll_limit = g.max_scroll_limit
           /\ \A l \in Lines(h.raw) : Content(h.raw)[l] = Blank
  <1>1. PICK c : c = clear_history(g)
    OBVIOUS
  <1>2. GridOK(c) /\ SameFrame(g, c) /\ c.raw.len = g.lines
    BY <1>1, ClearHistoryContent
  <1>3. PICK z, r : z = 0 /\ r = ResetEach(c.raw, Upto(z, g.lines))
    OBVIOUS
  <1>4. /\ Fits(c.raw, c.lines, c.max_scroll_limit) /\ c.lines \in Nat /\ c.lines = g.lines
        /\ c.max_scroll_limit = g.max_scroll_limit
    BY <1>2, GridFields DEF GridOK, SameFrame
  <1>5. Sound(c.raw) /\ c.raw.visible_lines = g.lines
    BY <1>4, FitsFields
  <1>6. h = [c EXCEPT !.raw = r, !.cursor = z, !.saved = z]
    BY <1>1, <1>3 DEF reset
  <1>7. /\ h.raw = r /\ h.lines = c.lines /\ h.cursor = z /\ h.max_scroll_limit = c.max_scroll_limit
    BY <1>2, <1>6 DEF GridOK, GridType
  <1>8. g.lines \in Int /\ z \in Nat /\ z <= g.lines /\ g.lines <= c.raw.visible_lines
    BY <1>3, <1>4, <1>5
  <1>9. r \in Like(c.raw)
    BY <1>3, <1>5, <1>8, ClearSpan
  <1>10. r.len = c.raw.len /\ Lines(r) = Lines(c.raw)
    BY <1>5, <1>9, LikeSound DEF Like
  <1>11. Content(r) = Cleared(Content(c.raw), z, g.lines)
    BY <1>3, <1>5, <1>8, ClearContent
  <1>12. ASSUME NEW l \in Lines(c.raw)
         PROVE  z <= l /\ l < g.lines
    <2>1. l \in Int /\ c.lines - c.raw.len <= l /\ l < c.lines
      BY <1>4, LinesAre
    <2> QED
      BY <1>2, <1>3, <1>4, <2>1
  <1>13. DOMAIN Content(c.raw) = Lines(c.raw)
    BY DEF Content
  <1>14. \A l \in Lines(c.raw) : Content(r)[l] = Blank
    BY <1>11, <1>12, <1>13 DEF Cleared
  <1> QED
    BY <1>2, <1>3, <1>4, <1>7, <1>10, <1>14

LEMMA ResetRegionContent ==
    ASSUME NEW g, GridOK(g), NEW start \in Nat, NEW end \in Nat, start < end, end <= g.lines,
           NEW h, h = reset_region(g, start, end)
    PROVE  /\ SameFrame(g, h) /\ h.raw.len = g.raw.len
           /\ Content(h.raw) = Cleared(Content(g.raw), start, end)
  <1>1. PICK r : r = ResetEach(g.raw, Upto(start, end))
    OBVIOUS
  <1>2. Fits(g.raw, g.lines, g.max_scroll_limit) /\ g.lines \in Nat
    BY GridFields DEF GridOK
  <1>3. Sound(g.raw) /\ g.raw.visible_lines = g.lines
    BY <1>2, FitsFields
  <1>4. start <= end /\ end \in Int /\ end <= g.raw.visible_lines
    BY <1>3
  <1>5. r \in Like(g.raw) /\ Content(r) = Cleared(Content(g.raw), start, end)
    BY <1>1, <1>3, <1>4, ClearSpan, ClearContent
  <1>6. h = [g EXCEPT !.raw = r]
    BY <1>1 DEF reset_region
  <1>7. Fits(r, g.lines, g.max_scroll_limit)
    BY <1>2, <1>5, FitsLike
  <1>8. SameFrame(g, h) /\ h.raw = r
    BY <1>6, <1>7, GridWithRaw
  <1> QED
    BY <1>5, <1>8 DEF Like

LEMMA WriteContent ==
    ASSUME NEW g, GridOK(g), NEW line \in Nat, line < g.lines, NEW text \in TextValues,
           NEW h, h = write(g, line, text)
    PROVE  /\ SameFrame(g, h) /\ h.raw.len = g.raw.len
           /\ Content(h.raw) = Put(Content(g.raw), line, text)
  <1>1. PICK row : row = [text |-> text, dirty |-> TRUE]
    OBVIOUS
  <1>2. row \in RowType /\ row.text = text
    BY <1>1 DEF RowType
  <1>3. PICK r : r = SetRow(g.raw, line, row)
    OBVIOUS
  <1>4. Fits(g.raw, g.lines, g.max_scroll_limit) /\ g.lines \in Nat
    BY GridFields DEF GridOK
  <1>5. Sound(g.raw) /\ line \in OnScreen(g.raw)
    BY <1>4 DEF Fits, OnScreen
  <1>6. r \in Like(g.raw) /\ Content(r) = Put(Content(g.raw), line, text)
    BY <1>2, <1>3, <1>5, SetRowLike, SetRowContent
  <1>7. Fits(r, g.lines, g.max_scroll_limit)
    BY <1>4, <1>6, FitsLike
  <1>8. h = [g EXCEPT !.raw = r]
    BY <1>1, <1>3 DEF write
  <1>9. SameFrame(g, h) /\ h.raw = r
    BY <1>7, <1>8, GridWithRaw
  <1> QED
    BY <1>6, <1>9 DEF Like

(* clear_viewport: the used lines go to history, the screen is blank. *)
LEMMA ClearViewportContent ==
    ASSUME NEW g, GridOK(g), NEW used, used = UsedLines(g), NEW h, h = clear_viewport(g)
    PROVE  /\ SameFrame(g, h)
           /\ h.raw.len = g.raw.len + AtMost(used, g.max_scroll_limit - HistorySize(g))
           /\ \A l \in Lines(h.raw) :
                 /\ l < 0 => l + used \in Lines(g.raw) /\ Content(h.raw)[l] = Content(g.raw)[l + used]
                 /\ l >= 0 => Content(h.raw)[l] = Blank
  <1>1. g.lines \in Nat /\ 1 <= g.lines /\ used \in 0 .. g.lines
    BY GridFields, UsedLinesBound
  <1>2. PICK z, s : z = 0 /\ s = scroll_up(g, z, g.lines, used)
    OBVIOUS
  <1>3. /\ used \in Nat /\ used <= g.lines /\ g.lines <= g.lines /\ z \in Nat
        /\ z < g.lines
    BY <1>1, <1>2
  <1>4. GridOK(s) /\ SameFrame(g, s)
    BY <1>1, <1>2, <1>3, ScrollUpOK
  <1>5. /\ s.raw.len = g.raw.len + AtMost(used, g.max_scroll_limit - HistorySize(g))
        /\ UpFromTop(Content(g.raw), Content(s.raw), g.lines, used)
    BY <1>1, <1>2, <1>3, ScrollUpContent
  <1>6. PICK b \in Int : b = g.lines - used /\ b <= g.lines /\ 0 <= b
    <2>1. g.lines - used \in Int /\ g.lines - used <= g.lines /\ 0 <= g.lines - used
      BY <1>1, <1>3
    <2> QED
      BY <2>1
  <1>7. PICK r : r = ResetEach(s.raw, Upto(z, b))
    OBVIOUS
  <1>8. /\ Fits(s.raw, s.lines, s.max_scroll_limit) /\ s.lines \in Nat /\ s.lines = g.lines
    BY <1>4, GridFields DEF GridOK, SameFrame
  <1>9. Sound(s.raw) /\ s.raw.visible_lines = g.lines
    BY <1>8, FitsFields
  <1>10. z <= b /\ b <= s.raw.visible_lines
    BY <1>2, <1>6, <1>9
  <1>11. r \in Like(s.raw) /\ Content(r) = Cleared(Content(s.raw), z, b)
    BY <1>3, <1>7, <1>9, <1>10, ClearSpan, ClearContent
  <1>12. r.len = s.raw.len /\ Lines(r) = Lines(s.raw) /\ Fits(r, s.lines, s.max_scroll_limit)
    BY <1>8, <1>9, <1>11, LikeSound, FitsLike DEF Like
  <1>13. h = [s EXCEPT !.raw = r]
    BY <1>2, <1>6, <1>7 DEF clear_viewport
  <1>14. SameFrame(s, h) /\ h.raw = r
    BY <1>4, <1>12, <1>13, GridWithRaw
  <1>15. DOMAIN Content(s.raw) = Lines(s.raw) /\ DOMAIN Content(g.raw) = Lines(g.raw)
    BY DEF Content
  <1>16. ASSUME NEW l \in Lines(r)
         PROVE  /\ l < 0 => l + used \in Lines(g.raw) /\ Content(r)[l] = Content(g.raw)[l + used]
                /\ l >= 0 => Content(r)[l] = Blank
    <2>1. l \in Int /\ l < g.lines
      BY <1>8, <1>12, LinesAre
    <2>2. Content(r)[l] = IF z <= l /\ l < b THEN Blank ELSE Content(s.raw)[l]
      BY <1>11, <1>12, <1>15 DEF Cleared
    <2>3. /\ l < g.lines - used => l + used \in Lines(g.raw)
                                   /\ Content(s.raw)[l] = Content(g.raw)[l + used]
          /\ g.lines - used <= l /\ l < g.lines => Content(s.raw)[l] = Blank
      BY <1>5, <1>12, <1>15 DEF UpFromTop
    <2> QED
      BY <1>1, <1>2, <1>6, <2>1, <2>2, <2>3
  <1> QED
    BY <1>4, <1>5, <1>12, <1>14, <1>16 DEF SameFrame

-----------------------------------------------------------------------------
(* Resizing. *)

(* A taller screen: lines of history come in at the top, blank lines at    *)
(* the bottom for what history cannot give, and the rest of the history    *)
(* that was pulled in is forgotten.                                        *)
LEMMA GrowLinesOK ==
    ASSUME NEW g, GridOK(g), NEW target \in 1 .. MaxLines, g.lines < target
    PROVE  GridOK(grow_lines(g, target))
  <1>1. /\ target \in Nat /\ g.lines \in Nat /\ 1 <= g.lines
        /\ g.max_scroll_limit \in Nat /\ g.max_scroll_limit \in ScrollLimits
        /\ g.cursor \in Nat /\ g.saved \in Nat /\ g.cursor < g.lines /\ g.saved < g.lines
        /\ g.display_offset \in Nat /\ g.display_offset <= g.max_scroll_limit
    BY GridFields
  <1>2. /\ HistorySize(g) = g.raw.len - g.lines
        /\ HistorySize(g) \in Nat /\ HistorySize(g) <= g.max_scroll_limit
        /\ g.raw.len \in Nat /\ g.lines <= g.raw.len
        /\ Ring(g.raw) /\ g.raw.visible_lines = g.lines
    BY HistoryFacts
  <1>3. PICK added \in Nat : added = target - g.lines
    <2>1. target - g.lines \in Nat
      BY <1>1
    <2> QED
      BY <2>1
  <1>4. PICK hist : hist = AtMost(HistorySize(g), added)
    OBVIOUS
  <1>5. hist \in Nat /\ hist <= added
    BY <1>2, <1>3, <1>4 DEF AtMost
  <1>6. PICK r : r = grow_visible_lines(g.raw, target)
    OBVIOUS
  <1>7. Fits(r, target, g.max_scroll_limit)
    <2>1. PICK i : i = initialize(g.raw, added)
      OBVIOUS
    <2>2. Ring(i) /\ i.len = g.raw.len + added
      BY <1>2, <1>3, <2>1, InitializeRing
    <2>3. r = [i EXCEPT !.visible_lines = target]
      BY <1>2, <1>3, <1>6, <2>1 DEF grow_visible_lines
    <2>4. Ring(r) /\ r.visible_lines = target /\ r.len = g.raw.len + added
      BY <1>1, <2>2, <2>3, VisibleRing
    <2>5. target <= r.len /\ r.len - target <= g.max_scroll_limit /\ 1 <= target
      BY <1>1, <1>2, <1>3, <2>4
    <2> QED
      BY <1>1, <2>4, <2>5, FitsRing
  <1>8. PICK taller : taller = [g EXCEPT !.raw = r, !.lines = target]
    OBVIOUS
  <1>9. taller = [raw |-> r, lines |-> target,
                  display_offset |-> g.display_offset,
                  max_scroll_limit |-> g.max_scroll_limit,
                  cursor |-> g.cursor, saved |-> g.saved]
    BY <1>8 DEF GridOK, GridType
  <1>10. g.cursor < target /\ g.saved < target
    BY <1>1
  <1>11. GridOK(taller)
    BY <1>1, <1>7, <1>9, <1>10, GridMade
  <1>12. PICK missing, z : missing = added - hist /\ z = 0
    OBVIOUS
  <1>13. PICK filled : filled = IF hist # added THEN scroll_up(taller, z, target, missing)
                                ELSE taller
    OBVIOUS
  <1>14. /\ GridOK(filled) /\ filled.lines = target
         /\ filled.max_scroll_limit = g.max_scroll_limit
    <2>1. missing \in Nat /\ missing <= target /\ z \in Nat
      BY <1>1, <1>3, <1>5, <1>12
    <2>2. taller.lines = target /\ taller.max_scroll_limit = g.max_scroll_limit /\ target <= target
      BY <1>1, <1>9
    <2>3. PICK s : s = scroll_up(taller, z, target, missing)
      OBVIOUS
    <2>4. GridOK(s) /\ SameFrame(taller, s)
      BY <1>1, <1>11, <2>1, <2>2, <2>3, ScrollUpOK
    <2> QED
      BY <1>11, <1>13, <2>2, <2>3, <2>4 DEF SameFrame
  <1>15. PICK back, c, s : /\ back = IF filled.display_offset < added THEN 0
                                     ELSE filled.display_offset - added
                           /\ c = g.cursor + hist /\ s = g.saved + hist
    OBVIOUS
  <1>16. /\ back \in Nat /\ back <= g.max_scroll_limit
         /\ c \in Nat /\ c < target /\ s \in Nat /\ s < target
    <2>1. filled.display_offset \in Nat /\ filled.display_offset <= g.max_scroll_limit
      BY <1>14, GridFields
    <2> QED
      BY <1>1, <1>3, <1>5, <1>15, <2>1
  <1>17. PICK h : h = [filled EXCEPT !.cursor = c, !.saved = s, !.display_offset = back]
    OBVIOUS
  <1>18. h = [raw |-> filled.raw, lines |-> filled.lines, display_offset |-> back,
              max_scroll_limit |-> filled.max_scroll_limit, cursor |-> c, saved |-> s]
    BY <1>14, <1>17 DEF GridOK, GridType
  <1>19. GridOK(h)
    <2>1. Fits(filled.raw, filled.lines, filled.max_scroll_limit)
      BY <1>14 DEF GridOK
    <2>2. Fits(filled.raw, target, g.max_scroll_limit)
      BY <1>14, <2>1
    <2>3. h = [raw |-> filled.raw, lines |-> target, display_offset |-> back,
               max_scroll_limit |-> g.max_scroll_limit, cursor |-> c, saved |-> s]
      BY <1>14, <1>18
    <2> QED
      BY <1>1, <1>16, <2>2, <2>3, GridMade
  <1>20. grow_lines(g, target) = decrease_scroll_limit(h, added)
    <2>1. filled = IF hist # added
                   THEN scroll_up([g EXCEPT !.raw = grow_visible_lines(g.raw, target),
                                            !.lines = target], 0, target, added - hist)
                   ELSE [g EXCEPT !.raw = grow_visible_lines(g.raw, target), !.lines = target]
      BY <1>6, <1>8, <1>12, <1>13
    <2> QED
      BY <1>3, <1>4, <1>15, <1>17, <2>1 DEF grow_lines
  <1> QED
    BY <1>3, <1>19, <1>20, DecreaseOK

(* A shorter screen: the lines above the cursor that no longer fit become  *)
(* history, those below the new screen are cut off.                        *)
LEMMA ShrinkLinesOK ==
    ASSUME NEW g, GridOK(g), NEW target \in 1 .. MaxLines, target < g.lines
    PROVE  GridOK(shrink_grid_lines(g, target))
  <1>1. /\ target \in Nat /\ 1 <= target /\ g.lines \in Nat /\ 1 <= g.lines
        /\ g.max_scroll_limit \in Nat /\ g.max_scroll_limit \in ScrollLimits
        /\ g.cursor \in Nat /\ g.saved \in Nat /\ g.cursor < g.lines /\ g.saved < g.lines
        /\ g.display_offset \in Nat /\ g.display_offset <= g.max_scroll_limit
    BY GridFields
  <1>2. PICK required \in Nat : /\ required = IF g.cursor + 1 > target
                                              THEN g.cursor + 1 - target ELSE 0
                                /\ required <= g.lines
    <2>1. PICK q : q = IF g.cursor + 1 > target THEN g.cursor + 1 - target ELSE 0
      OBVIOUS
    <2>2. q \in Nat /\ q <= g.lines
      BY <1>1, <2>1
    <2> QED
      BY <2>1, <2>2
  <1>3. PICK z, up, low : /\ z = 0 /\ up = scroll_up(g, z, g.lines, required)
                          /\ low = AtMost(g.cursor, target - 1)
    OBVIOUS
  <1>4. GridOK(up) /\ SameFrame(g, up)
    <2>1. z \in Nat /\ g.lines <= g.lines
      BY <1>1, <1>3
    <2> QED
      BY <1>1, <1>2, <1>3, <2>1, ScrollUpOK
  <1>5. PICK s : s = IF required > 0 THEN [up EXCEPT !.cursor = low] ELSE g
    OBVIOUS
  <1>6. low \in Nat /\ low < target
    BY <1>1, <1>3 DEF AtMost
  <1>7. /\ s = [raw |-> s.raw, lines |-> g.lines, display_offset |-> s.display_offset,
                max_scroll_limit |-> g.max_scroll_limit, cursor |-> s.cursor,
                saved |-> g.saved]
        /\ Fits(s.raw, g.lines, g.max_scroll_limit)
        /\ s.display_offset \in Nat /\ s.display_offset <= g.max_scroll_limit
        /\ s.cursor \in Nat /\ s.cursor < target
    <2>1. CASE required > 0
      <3>1. s = [up EXCEPT !.cursor = low]
        BY <1>5, <2>1
      <3>2. /\ up.lines = g.lines /\ up.max_scroll_limit = g.max_scroll_limit
            /\ up.saved = g.saved
        BY <1>4 DEF SameFrame
      <3>3. s = [raw |-> up.raw, lines |-> g.lines, display_offset |-> up.display_offset,
                 max_scroll_limit |-> g.max_scroll_limit, cursor |-> low, saved |-> g.saved]
        BY <1>4, <3>1, <3>2 DEF GridOK, GridType
      <3>4. /\ Fits(up.raw, g.lines, g.max_scroll_limit)
            /\ up.display_offset \in Nat /\ up.display_offset <= g.max_scroll_limit
        <4>1. /\ Fits(up.raw, up.lines, up.max_scroll_limit)
              /\ up.display_offset \in Nat /\ up.display_offset <= up.max_scroll_limit
          BY <1>4, GridFields DEF GridOK
        <4> QED
          BY <3>2, <4>1
      <3> QED
        BY <1>6, <3>3, <3>4
    <2>2. CASE ~(required > 0)
      <3>1. s = g
        BY <1>5, <2>2
      <3>2. g.cursor < target
        BY <1>1, <1>2, <2>2
      <3>3. Fits(g.raw, g.lines, g.max_scroll_limit)
        BY DEF GridOK
      <3> QED
        BY <1>1, <3>1, <3>2, <3>3, GridFields
    <2> QED
      BY <2>1, <2>2
  <1>8. PICK gone \in Nat : gone = g.lines - target
    <2>1. g.lines - target \in Nat
      BY <1>1
    <2> QED
      BY <2>1
  <1>9. PICK t : t = rotate(s.raw, gone)
    OBVIOUS
  <1>10. Fits(t, g.lines, g.max_scroll_limit)
    BY <1>1, <1>7, <1>8, <1>9, RotateFits
  <1>11. PICK r : r = shrink_visible_lines(t, target)
    OBVIOUS
  <1>12. Fits(r, target, g.max_scroll_limit)
    <2>1. /\ Ring(t) /\ t.visible_lines = g.lines /\ t.len \in Nat
          /\ g.lines <= t.len /\ t.len - g.lines <= g.max_scroll_limit
      BY <1>10, FitsFields
    <2>2. PICK i : i = shrink_lines(t, gone)
      OBVIOUS
    <2>3. 1 <= t.len - gone
      BY <1>1, <1>8, <2>1
    <2>4. Ring(i) /\ i.len = t.len - gone
      BY <1>8, <2>1, <2>2, <2>3, ShrinkRing
    <2>5. r = [i EXCEPT !.visible_lines = target]
      BY <1>8, <1>11, <2>1, <2>2 DEF shrink_visible_lines
    <2>6. Ring(r) /\ r.visible_lines = target /\ r.len = t.len - gone
      BY <1>1, <2>4, <2>5, VisibleRing
    <2>7. target <= r.len /\ r.len - target <= g.max_scroll_limit
      BY <1>1, <1>8, <2>1, <2>6
    <2> QED
      BY <1>1, <2>6, <2>7, FitsRing
  <1>13. PICK v : v = AtMost(g.saved, target - 1)
    OBVIOUS
  <1>14. v \in Nat /\ v < target
    BY <1>1, <1>13 DEF AtMost
  <1>15. PICK h : h = [s EXCEPT !.saved = v, !.raw = r, !.lines = target]
    OBVIOUS
  <1>16. h = [raw |-> r, lines |-> target, display_offset |-> s.display_offset,
              max_scroll_limit |-> g.max_scroll_limit, cursor |-> s.cursor, saved |-> v]
    <2>1. g.lines \in 1 .. MaxLines /\ s.cursor < g.lines
      BY <1>1, <1>7, GridFields
    <2>2. GridOK(s)
      BY <1>1, <1>7, <2>1, GridMade
    <2>3. h = [raw |-> r, lines |-> target, display_offset |-> s.display_offset,
               max_scroll_limit |-> s.max_scroll_limit, cursor |-> s.cursor, saved |-> v]
      BY <1>15, <2>2 DEF GridOK, GridType
    <2>4. s.max_scroll_limit = g.max_scroll_limit
      BY <1>7
    <2> QED
      BY <2>3, <2>4
  <1>17. GridOK(h)
    BY <1>1, <1>7, <1>12, <1>14, <1>16, GridMade
  <1>18. shrink_grid_lines(g, target) = h
    BY <1>2, <1>3, <1>5, <1>8, <1>9, <1>11, <1>13, <1>15 DEF shrink_grid_lines
  <1> QED
    BY <1>17, <1>18

LEMMA ResizeOK ==
    ASSUME NEW g, GridOK(g), NEW target \in 1 .. MaxLines
    PROVE  GridOK(resize(g, target))
  <1>1. g.lines \in Nat /\ target \in Nat
    BY GridFields
  <1>2. CASE g.lines < target
    <2>1. ~(g.lines > target)
      BY <1>1, <1>2
    <2>2. resize(g, target) = grow_lines(g, target)
      BY <1>2, <2>1 DEF resize
    <2> QED
      BY <1>2, <2>2, GrowLinesOK
  <1>3. CASE target < g.lines
    <2>1. g.lines > target /\ ~(g.lines < target)
      BY <1>1, <1>3
    <2>2. resize(g, target) = shrink_grid_lines(g, target)
      BY <2>1 DEF resize
    <2> QED
      BY <1>3, <2>2, ShrinkLinesOK
  <1>4. CASE g.lines = target
    <2>1. ~(g.lines < target) /\ ~(g.lines > target)
      BY <1>1, <1>4
    <2>2. resize(g, target) = g
      BY <2>1 DEF resize
    <2> QED
      BY <2>2
  <1> QED
    BY <1>1, <1>2, <1>3, <1>4

-----------------------------------------------------------------------------
(* Resizing, as it shows. *)

(* A taller screen, before lines are added at the bottom: every line is    *)
(* further down.                                                           *)
Taller(g, target) == [g EXCEPT !.raw = grow_visible_lines(g.raw, target), !.lines = target]

LEMMA TallerContent ==
    ASSUME NEW g, GridOK(g), NEW target \in 1 .. MaxLines, g.lines < target,
           NEW added, added = target - g.lines,
           NEW h, h = Taller(g, target)
    PROVE  /\ GridOK(h) /\ h.lines = target /\ h.max_scroll_limit = g.max_scroll_limit
           /\ h.raw.len = g.raw.len + added
           /\ \A l \in Lines(h.raw) : l - added \in Lines(g.raw) =>
                   Content(h.raw)[l] = Content(g.raw)[l - added]
  <1>1. /\ target \in Nat /\ 1 <= target /\ g.lines \in Nat /\ 1 <= g.lines
        /\ g.max_scroll_limit \in Nat /\ g.max_scroll_limit \in ScrollLimits
        /\ g.cursor \in Nat /\ g.saved \in Nat /\ g.cursor < g.lines /\ g.saved < g.lines
        /\ g.display_offset \in Nat /\ g.display_offset <= g.max_scroll_limit
    BY GridFields
  <1>2. /\ HistorySize(g) = g.raw.len - g.lines /\ HistorySize(g) <= g.max_scroll_limit
        /\ g.raw.len \in Nat /\ g.lines <= g.raw.len
        /\ Ring(g.raw) /\ g.raw.visible_lines = g.lines
    BY HistoryFacts
  <1>3. added \in Nat
    BY <1>1
  <1>4. PICK i, r : i = initialize(g.raw, added) /\ r = grow_visible_lines(g.raw, target)
    OBVIOUS
  <1>5. Ring(i) /\ i.len = g.raw.len + added
    BY <1>2, <1>3, <1>4, InitializeRing
  <1>6. r = [i EXCEPT !.visible_lines = target]
    BY <1>2, <1>4 DEF grow_visible_lines
  <1>7. Ring(r) /\ r.visible_lines = target /\ r.len = g.raw.len + added
    BY <1>1, <1>5, <1>6, VisibleRing
  <1>8. r.inner = i.inner /\ r.zero = i.zero
    BY <1>5, <1>6 DEF Ring, StoreType
  <1>9. Fits(r, target, g.max_scroll_limit)
    <2>1. target <= r.len /\ r.len - target <= g.max_scroll_limit
      BY <1>1, <1>2, <1>7
    <2> QED
      BY <1>1, <1>7, <2>1, FitsRing
  <1>10. h = [raw |-> r, lines |-> target, display_offset |-> g.display_offset,
              max_scroll_limit |-> g.max_scroll_limit, cursor |-> g.cursor, saved |-> g.saved]
    BY <1>4 DEF Taller, GridOK, GridType
  <1>11. g.cursor < target /\ g.saved < target
    BY <1>1
  <1>12. GridOK(h)
    BY ONLY <1>1, <1>9, <1>10, <1>11, GridMade, target \in 1 .. MaxLines
  <1>13. Fits(g.raw, g.lines, g.max_scroll_limit) /\ Sound(g.raw) /\ Sound(r)
    BY <1>9, FitsFields DEF GridOK
  <1>14. ASSUME NEW l \in Lines(r), l - added \in Lines(g.raw)
         PROVE  Content(r)[l] = Content(g.raw)[l - added]
    <2>1. PICK m : m = l - added
      OBVIOUS
    <2>2. /\ l \in Int /\ target - r.len <= l /\ l < target
          /\ m \in Int /\ g.lines - g.raw.len <= m /\ m < g.lines /\ m \in Lines(g.raw)
      BY <1>9, <1>13, <1>14, <2>1, LinesAre
    <2>3. PICK p : p = target - 1 - l
      OBVIOUS
    <2>4. p = g.lines - 1 - m /\ p \in 0 .. g.raw.len - 1
      BY <1>1, <1>2, <2>1, <2>2, <2>3
    <2>5. RowPos(r, p) = RowPos(g.raw, p)
      <3>1. RowPos(r, p) = RowPos(i, p)
        BY <1>8, SamePos
      <3>2. RowPos(i, p) = RowPos(g.raw, p)
        BY <1>2, <1>3, <1>4, <2>4, InitializePos
      <3> QED
        BY <3>1, <3>2
    <2>6. p = r.visible_lines - 1 - l /\ p = g.raw.visible_lines - 1 - m
      BY <1>2, <1>7, <2>3, <2>4
    <2>7. Content(r)[l] = Content(g.raw)[m]
      BY ONLY <1>13, <1>14, <2>2, <2>5, <2>6, FromPos
    <2> QED
      BY <2>1, <2>7
  <1>15. h.raw = r /\ h.lines = target /\ h.max_scroll_limit = g.max_scroll_limit
    BY <1>10
  <1> QED
    BY <1>7, <1>12, <1>14, <1>15

(* The n oldest lines are forgotten, nothing else. *)
Forgets(g, h, n) ==
    /\ SameFrame(g, h) /\ n \in Nat /\ h.raw.len = g.raw.len - n
    /\ \A l \in Lines(h.raw) : l \in Lines(g.raw) /\ Content(h.raw)[l] = Content(g.raw)[l]

LEMMA DecreaseContent ==
    ASSUME NEW g, GridOK(g), NEW count \in Nat, NEW h, h = decrease_scroll_limit(g, count),
           NEW n, n = AtMost(count, HistorySize(g))
    PROVE  Forgets(g, h, n)
  <1>1. n \in Nat /\ n <= HistorySize(g)
    BY HistoryFacts DEF AtMost
  <1>2. PICK r : r = shrink_lines(g.raw, n)
    OBVIOUS
  <1>3. PICK k : k = [g EXCEPT !.raw = r]
    OBVIOUS
  <1>4. GridOK(k) /\ SameFrame(g, k) /\ k.raw = r
    <2>1. Fits(r, g.lines, g.max_scroll_limit)
      BY <1>1, <1>2, ShrinkFits
    <2> QED
      BY <1>3, <2>1, GridWithRaw
  <1>5. PICK off : off = AtMost(g.display_offset, HistorySize(k))
    OBVIOUS
  <1>6. CASE n = 0
    <2>1. h = g
      BY <1>6 DEF decrease_scroll_limit
    <2>2. g.raw.len \in Nat
      BY HistoryFacts
    <2>3. g.raw.len = g.raw.len - n
      BY <1>6, <2>2
    <2> QED
      BY <1>1, <2>1, <2>3 DEF SameFrame, Forgets
  <1>7. CASE n # 0
    <2>1. h = [k EXCEPT !.display_offset = off]
      BY <1>2, <1>3, <1>5, <1>7 DEF decrease_scroll_limit
    <2>2. SameFrame(k, h) /\ h.raw = r
      BY <1>4, <2>1 DEF GridOK, GridType, SameFrame
    <2>3. /\ r.len = g.raw.len - n
          /\ \A l \in Lines(r) : l \in Lines(g.raw) /\ Content(r)[l] = Content(g.raw)[l]
      BY <1>1, <1>2, ShrinkContent
    <2> QED
      BY <1>1, <1>4, <2>2, <2>3 DEF SameFrame, Forgets
  <1> QED
    BY <1>6, <1>7

(* grow_lines: what history has comes in at the top, then blank lines at   *)
(* the bottom.                                                             *)
LEMMA GrowLinesContent ==
    ASSUME NEW g, GridOK(g), NEW target \in 1 .. MaxLines, g.lines < target,
           NEW added, added = target - g.lines,
           NEW pulled, pulled = AtMost(HistorySize(g), added),
           NEW h, h = grow_lines(g, target)
    PROVE  /\ GridOK(h) /\ h.lines = target /\ h.max_scroll_limit = g.max_scroll_limit
           /\ h.cursor = g.cursor + pulled
           /\ HistorySize(h) = HistorySize(g) - pulled
           /\ \A l \in Lines(h.raw) :
                 /\ l < target - (added - pulled) =>
                        l - pulled \in Lines(g.raw) /\ Content(h.raw)[l] = Content(g.raw)[l - pulled]
                 /\ l >= target - (added - pulled) => Content(h.raw)[l] = Blank
  <1>1. /\ target \in Nat /\ g.lines \in Nat /\ 1 <= g.lines /\ g.max_scroll_limit \in Nat
        /\ g.cursor \in Nat
    BY GridFields
  <1>2. PICK hist \in Nat : /\ hist = HistorySize(g) /\ hist = g.raw.len - g.lines
                            /\ g.raw.len \in Nat /\ hist <= g.max_scroll_limit
    BY HistoryFacts
  <1>3. added \in Nat /\ added > 0
    BY <1>1
  <1>4. pulled \in Nat /\ pulled <= added /\ pulled <= hist /\ (pulled = added \/ pulled = hist)
    BY <1>2, <1>3 DEF AtMost
  <1>5. PICK taller : taller = Taller(g, target)
    OBVIOUS
  <1>6. /\ GridOK(taller) /\ taller.lines = target
        /\ taller.max_scroll_limit = g.max_scroll_limit
        /\ taller.raw.len = g.raw.len + added
        /\ \A l \in Lines(taller.raw) : l - added \in Lines(g.raw) =>
                   Content(taller.raw)[l] = Content(g.raw)[l - added]
    BY <1>5, TallerContent
  <1>7. PICK missing, z : missing = added - pulled /\ z = 0
    OBVIOUS
  <1>8. missing \in Nat /\ missing <= target /\ z \in Nat /\ z < target /\ target <= target
    BY <1>1, <1>3, <1>4, <1>7
  <1>9. PICK filled : filled = IF pulled # added THEN scroll_up(taller, z, target, missing)
                               ELSE taller
    OBVIOUS
  <1>10. HistorySize(taller) = hist
    BY <1>1, <1>2, <1>6 DEF HistorySize
  <1>11. PICK grown : grown = AtMost(missing, g.max_scroll_limit - hist)
    OBVIOUS
  <1>12. grown \in Nat /\ grown <= missing
    BY <1>1, <1>2, <1>8, <1>11 DEF AtMost
  <1>13. /\ GridOK(filled) /\ filled.lines = target
         /\ filled.max_scroll_limit = g.max_scroll_limit
         /\ filled.raw.len = g.raw.len + added + grown
         /\ \A l \in Lines(filled.raw) :
               /\ l < target - missing => l + missing \in Lines(taller.raw)
                                /\ Content(filled.raw)[l] = Content(taller.raw)[l + missing]
               /\ l >= target - missing => Content(filled.raw)[l] = Blank
    <2>1. CASE pulled # added
      <3>1. filled = scroll_up(taller, z, target, missing)
        BY <1>9, <2>1
      <3>2. /\ GridOK(filled) /\ SameFrame(taller, filled)
        BY <1>6, <1>8, <3>1, ScrollUpOK
      <3>3. /\ filled.raw.len = taller.raw.len
                   + AtMost(missing, taller.max_scroll_limit - HistorySize(taller))
            /\ UpFromTop(Content(taller.raw), Content(filled.raw), target, missing)
        BY <1>6, <1>7, <1>8, <3>1, ScrollUpContent
      <3>4. DOMAIN Content(taller.raw) = Lines(taller.raw) /\ DOMAIN Content(filled.raw) = Lines(filled.raw)
        BY DEF Content
      <3>5. filled.lines = target /\ filled.max_scroll_limit = g.max_scroll_limit
        BY <1>6, <3>2 DEF SameFrame
      <3>6. filled.raw.len = g.raw.len + added + grown
        BY <1>6, <1>10, <1>11, <3>3
      <3>7. \A l \in Lines(filled.raw) : l < target
        <4>1. Fits(filled.raw, target, g.max_scroll_limit)
          BY <3>2, <3>5 DEF GridOK
        <4> QED
          BY <4>1, LinesAre
      <3> QED
        BY <3>2, <3>3, <3>4, <3>5, <3>6, <3>7 DEF UpFromTop
    <2>2. CASE pulled = added
      <3>1. filled = taller /\ missing = 0
        BY <1>3, <1>7, <1>9, <2>2
      <3>2. grown = 0
        BY <1>12, <3>1
      <3>3. \A l \in Lines(filled.raw) : l \in Int /\ l < target
        <4>1. Fits(filled.raw, target, g.max_scroll_limit)
          BY <1>6, <3>1 DEF GridOK
        <4> QED
          BY <4>1, LinesAre
      <3>4. filled.raw.len = g.raw.len + added + grown
        BY <1>2, <1>3, <1>6, <3>1, <3>2
      <3>5. \A l \in Lines(filled.raw) : l + missing = l /\ l < target - missing
        BY <1>1, <3>1, <3>3
      <3>6. ASSUME NEW l \in Lines(filled.raw), l >= target - missing
            PROVE  FALSE
        <4>1. l \in Int /\ target - missing \in Int
          BY <1>8, <3>3
        <4> QED
          BY <3>5, <3>6, <4>1
      <3> QED
        BY <1>6, <3>1, <3>4, <3>5, <3>6
    <2> QED
      BY <2>1, <2>2
  <1>14. PICK back, c, s : /\ back = IF filled.display_offset < added THEN 0
                                     ELSE filled.display_offset - added
                           /\ c = g.cursor + pulled /\ s = g.saved + pulled
    OBVIOUS
  <1>15. PICK k : k = [filled EXCEPT !.cursor = c, !.saved = s, !.display_offset = back]
    OBVIOUS
  <1>16. h = decrease_scroll_limit(k, added)
    <2>1. filled = IF pulled # added
                   THEN scroll_up([g EXCEPT !.raw = grow_visible_lines(g.raw, target),
                                            !.lines = target], 0, target, added - pulled)
                   ELSE [g EXCEPT !.raw = grow_visible_lines(g.raw, target), !.lines = target]
      BY <1>5, <1>7, <1>9 DEF Taller
    <2> QED
      BY <1>14, <1>15, <2>1 DEF grow_lines
  <1>17. k = [raw |-> filled.raw, lines |-> target, display_offset |-> back,
              max_scroll_limit |-> g.max_scroll_limit, cursor |-> c, saved |-> s]
    <2>1. k = [raw |-> filled.raw, lines |-> filled.lines, display_offset |-> back,
               max_scroll_limit |-> filled.max_scroll_limit, cursor |-> c, saved |-> s]
      BY <1>13, <1>15 DEF GridOK, GridType
    <2> QED
      BY <1>13, <2>1
  <1>18. GridOK(k)
    <2>1. filled.display_offset \in Nat /\ filled.display_offset <= g.max_scroll_limit
      BY <1>13, GridFields
    <2>2. g.saved \in Nat /\ g.cursor < g.lines /\ g.saved < g.lines
      BY GridFields
    <2>3. /\ back \in Nat /\ back <= g.max_scroll_limit
          /\ c \in Nat /\ c < target /\ s \in Nat /\ s < target
      BY <1>1, <1>3, <1>4, <1>14, <2>1, <2>2
    <2>4. Fits(filled.raw, target, g.max_scroll_limit)
      BY <1>13 DEF GridOK
    <2>5. g.max_scroll_limit \in ScrollLimits
      BY GridFields
    <2> QED
      BY <1>17, <2>3, <2>4, <2>5, GridMade
  <1>19. PICK n : n = AtMost(added, HistorySize(k))
    OBVIOUS
  <1>20. /\ SameFrame(k, h) /\ n \in Nat /\ h.raw.len = k.raw.len - n
         /\ \A l \in Lines(h.raw) : l \in Lines(k.raw) /\ Content(h.raw)[l] = Content(k.raw)[l]
    <2>1. Forgets(k, h, n)
      BY ONLY <1>3, <1>16, <1>18, <1>19, DecreaseContent
    <2> QED
      BY <2>1 DEF Forgets
  <1>21. /\ h.lines = target /\ h.max_scroll_limit = g.max_scroll_limit
         /\ h.cursor = g.cursor + pulled
    BY <1>14, <1>17, <1>20 DEF SameFrame
  <1>22. GridOK(h)
    BY GrowLinesOK
  <1>23. HistorySize(h) = hist - pulled
    <2>1. HistorySize(k) = hist + grown
      <3>1. HistorySize(k) = g.raw.len + added + grown - target
        <4>1. k.raw = filled.raw /\ k.lines = target
          BY <1>17
        <4>2. filled.raw.len = g.raw.len + added + grown
          BY <1>13
        <4>3. HistorySize(k) = filled.raw.len - target
          BY <4>1 DEF HistorySize
        <4> QED
          BY ONLY <1>1, <1>2, <1>3, <1>12, <4>2, <4>3
      <3> QED
        BY <1>1, <1>2, <1>3, <1>12, <3>1
    <2>2. HistorySize(h) = g.raw.len + added + grown - n - target
      <3>1. k.raw.len = g.raw.len + added + grown
        <4>1. k.raw = filled.raw
          BY <1>17
        <4>2. filled.raw.len = g.raw.len + added + grown
          BY <1>13
        <4> QED
          BY ONLY <4>1, <4>2
      <3>2. h.raw.len = k.raw.len - n
        BY <1>20
      <3>3. HistorySize(h) = h.raw.len - target
        BY <1>21 DEF HistorySize
      <3> QED
        BY ONLY <1>1, <1>2, <1>3, <1>12, <1>20, <3>1, <3>2, <3>3
    <2>3. HistorySize(h) = hist + grown - n
      BY <1>1, <1>2, <1>3, <1>12, <1>20, <2>2
    <2>4. n = IF added < hist + grown THEN added ELSE hist + grown
      BY <1>19, <2>1 DEF AtMost
    <2> QED
      BY ONLY <1>3, <1>4, <1>7, <1>12, <1>20, <2>3, <2>4, hist \in Nat
  <1>24. ASSUME NEW l \in Lines(h.raw)
         PROVE  /\ l < target - missing =>
                      l - pulled \in Lines(g.raw) /\ Content(h.raw)[l] = Content(g.raw)[l - pulled]
                /\ l >= target - missing => Content(h.raw)[l] = Blank
    <2>1. l \in Lines(filled.raw) /\ Content(h.raw)[l] = Content(filled.raw)[l]
      BY <1>17, <1>20
    <2>2. CASE l >= target - missing
      <3>1. ~(l < target - missing)
        <4>1. l \in Int
          <5>1. Fits(filled.raw, target, g.max_scroll_limit)
            BY <1>13 DEF GridOK
          <5> QED
            BY <2>1, <5>1, LinesAre
        <4> QED
          BY <1>8, <2>2, <4>1
      <3> QED
        BY <1>13, <2>1, <2>2, <3>1
    <2>3. CASE l < target - missing
      <3>1. PICK m, o : m = l + missing /\ o = l - pulled
        OBVIOUS
      <3>2. m \in Lines(taller.raw) /\ Content(h.raw)[l] = Content(taller.raw)[m]
        BY <1>13, <2>1, <2>3, <3>1
      <3>3. l \in Int /\ target - h.raw.len <= l
        <4>1. Fits(h.raw, target, g.max_scroll_limit)
          BY <1>21, <1>22 DEF GridOK
        <4> QED
          BY <4>1, LinesAre
      <3>4. m - added = o /\ o \in Int
        BY <1>3, <1>4, <1>7, <3>1, <3>3
      <3>5. h.raw.len = hist - pulled + target
        <4>1. h.raw.len - target = hist - pulled /\ h.raw.len \in Nat
          BY <1>2, <1>21, <1>22, <1>23, HistoryFacts DEF HistorySize
        <4> QED
          BY <1>1, <1>2, <1>4, <4>1
      <3>6. g.lines - g.raw.len <= o /\ o < g.lines
        <4>1. g.lines = target - added /\ g.raw.len = hist + g.lines
          BY <1>1, <1>2
        <4> QED
          BY ONLY <1>1, <1>3, <1>4, <1>7, <2>3, <3>1, <3>3, <3>5, <4>1, hist \in Nat
      <3>7. o \in Lines(g.raw)
        <4>1. Fits(g.raw, g.lines, g.max_scroll_limit)
          BY DEF GridOK
        <4> QED
          BY <3>4, <3>6, <4>1, LinesAre
      <3>8. Content(taller.raw)[m] = Content(g.raw)[o]
        BY <1>6, <3>2, <3>4, <3>7
      <3>9. ~(l >= target - missing)
        BY <1>8, <2>3, <3>3
      <3> QED
        BY <3>1, <3>2, <3>7, <3>8, <3>9
    <2>4. l < target - missing \/ l >= target - missing
      <3>1. Fits(h.raw, target, g.max_scroll_limit)
        BY <1>21, <1>22 DEF GridOK
      <3>2. l \in Int
        BY <3>1, LinesAre
      <3> QED
        BY <1>8, <3>2
    <2> QED
      BY <2>2, <2>3, <2>4
  <1> QED
    BY <1>2, <1>7, <1>21, <1>22, <1>23, <1>24

(* shrink_grid_lines: the lines above the cursor that no longer fit become *)
(* history, those below the new screen are lost.                           *)
LEMMA ShrinkLinesContent ==
    ASSUME NEW g, GridOK(g), NEW target \in 1 .. MaxLines, target < g.lines,
           NEW over, over = IF g.cursor + 1 > target THEN g.cursor + 1 - target ELSE 0,
           NEW h, h = shrink_grid_lines(g, target)
    PROVE  /\ over \in Nat /\ over + target <= g.lines
           /\ h.lines = target /\ h.max_scroll_limit = g.max_scroll_limit
           /\ h.cursor = g.cursor - over
           /\ HistorySize(h) = HistorySize(g) + AtMost(over, g.max_scroll_limit - HistorySize(g))
           /\ \A l \in Lines(h.raw) :
                 l + over \in Lines(g.raw) /\ Content(h.raw)[l] = Content(g.raw)[l + over]
  <1>1. /\ target \in Nat /\ 1 <= target /\ g.lines \in Nat /\ 1 <= g.lines
        /\ g.max_scroll_limit \in Nat /\ g.cursor \in Nat /\ g.cursor < g.lines
    BY GridFields
  <1>2. over \in Nat /\ over <= g.lines /\ over + target <= g.lines
    BY ONLY <1>1, over = IF g.cursor + 1 > target THEN g.cursor + 1 - target ELSE 0, target < g.lines
  <1>3. PICK hist \in Nat : /\ hist = HistorySize(g) /\ hist = g.raw.len - g.lines
                            /\ g.raw.len \in Nat /\ hist <= g.max_scroll_limit
    BY HistoryFacts
  <1>4. PICK grown : grown = AtMost(over, g.max_scroll_limit - hist)
    OBVIOUS
  <1>5. grown \in Nat /\ grown <= over /\ (over = 0 => grown = 0)
    BY <1>1, <1>2, <1>3, <1>4 DEF AtMost
  <1>6. PICK z, up, low : /\ z = 0 /\ up = scroll_up(g, z, g.lines, over)
                          /\ low = AtMost(g.cursor, target - 1)
    OBVIOUS
  <1>7. GridOK(up) /\ SameFrame(g, up)
    <2>1. z \in Nat /\ g.lines <= g.lines
      BY <1>1, <1>6
    <2> QED
      BY <1>1, <1>2, <1>6, <2>1, ScrollUpOK
  <1>8. PICK s : s = IF over > 0 THEN [up EXCEPT !.cursor = low] ELSE g
    OBVIOUS
  <1>9. /\ s.raw.len = g.raw.len + grown
        /\ \A l \in Lines(s.raw) : l < g.lines - over =>
                l + over \in Lines(g.raw) /\ Content(s.raw)[l] = Content(g.raw)[l + over]
        /\ s.cursor = g.cursor - over /\ s.lines = g.lines
        /\ s.max_scroll_limit = g.max_scroll_limit
        /\ Fits(s.raw, g.lines, g.max_scroll_limit)
    <2>1. CASE over > 0
      <3>1. s = [up EXCEPT !.cursor = low]
        BY <1>8, <2>1
      <3>2. /\ s.raw = up.raw /\ s.lines = up.lines /\ s.max_scroll_limit = up.max_scroll_limit
            /\ s.cursor = low
        BY <1>7, <3>1 DEF GridOK, GridType
      <3>3. /\ z = 0 /\ z \in Nat /\ z < g.lines /\ g.lines <= g.lines /\ over <= g.lines
        BY <1>1, <1>2, <1>6
      <3>4. /\ up.raw.len = g.raw.len + AtMost(over, g.max_scroll_limit - HistorySize(g))
            /\ UpFromTop(Content(g.raw), Content(up.raw), g.lines, over)
        BY <1>1, <1>2, <1>6, <3>3, ScrollUpContent
      <3>5. DOMAIN Content(g.raw) = Lines(g.raw) /\ DOMAIN Content(up.raw) = Lines(up.raw)
        BY DEF Content
      <3>6. low = g.cursor - over
        BY <1>1, <1>6, <2>1 DEF AtMost
      <3>7. up.lines = g.lines /\ up.max_scroll_limit = g.max_scroll_limit
        BY <1>7 DEF SameFrame
      <3>8. Fits(up.raw, g.lines, g.max_scroll_limit)
        BY <1>7, <3>7 DEF GridOK
      <3>9. \A l \in Lines(up.raw) : l < g.lines - over =>
                l + over \in Lines(g.raw) /\ Content(up.raw)[l] = Content(g.raw)[l + over]
        BY <3>4, <3>5 DEF UpFromTop
      <3>10. up.raw.len = g.raw.len + grown
        BY <1>3, <1>4, <3>4
      <3> QED
        BY <3>2, <3>6, <3>7, <3>8, <3>9, <3>10
    <2>2. CASE ~(over > 0)
      <3>1. s = g /\ over = 0 /\ grown = 0
        BY <1>2, <1>5, <1>8, <2>2
      <3>2. Fits(g.raw, g.lines, g.max_scroll_limit)
        BY DEF GridOK
      <3>3. \A l \in Lines(g.raw) : l + over = l
        BY <3>1, <3>2, LinesAre
      <3>4. g.raw.len = g.raw.len + grown /\ g.cursor = g.cursor - over
        BY <1>1, <1>3, <3>1
      <3> QED
        BY <3>1, <3>2, <3>3, <3>4
    <2> QED
      BY <2>1, <2>2
  <1>10. PICK gone \in Nat : gone = g.lines - target
    <2>1. g.lines - target \in Nat
      BY <1>1
    <2> QED
      BY <2>1
  <1>11. PICK t : t = rotate(s.raw, gone)
    OBVIOUS
  <1>12. Fits(t, g.lines, g.max_scroll_limit)
    BY <1>1, <1>9, <1>10, <1>11, RotateFits
  <1>13. PICK r, i : r = shrink_visible_lines(t, target) /\ i = shrink_lines(t, gone)
    OBVIOUS
  <1>14. /\ Ring(t) /\ t.visible_lines = g.lines /\ t.len \in Nat
         /\ g.lines <= t.len /\ t.len - g.lines <= g.max_scroll_limit
         /\ Sound(s.raw) /\ Sound(t) /\ s.raw.visible_lines = g.lines /\ Ring(s.raw)
    BY <1>9, <1>12, FitsFields
  <1>15. t.len = s.raw.len
    <2>1. PICK q : q = s.raw
      OBVIOUS
    <2>2. Ring(q) /\ t = rotate(q, gone) /\ gone \in Int
      BY <1>10, <1>11, <1>14, <2>1
    <2> QED
      BY <2>1, <2>2 DEF rotate, Ring, StoreType
  <1>16. 1 <= t.len - gone
    BY <1>1, <1>10, <1>14
  <1>17. Ring(i) /\ i.len = t.len - gone
    BY <1>10, <1>13, <1>14, <1>16, ShrinkRing
  <1>18. r = [i EXCEPT !.visible_lines = target]
    BY <1>10, <1>13, <1>14 DEF shrink_visible_lines
  <1>19. Ring(r) /\ r.visible_lines = target /\ r.len = t.len - gone
    BY <1>1, <1>17, <1>18, VisibleRing
  <1>20. r.inner = i.inner /\ r.zero = i.zero
    BY <1>17, <1>18 DEF Ring, StoreType
  <1>21. Fits(r, target, g.max_scroll_limit)
    <2>1. target <= r.len /\ r.len - target <= g.max_scroll_limit
      BY <1>1, <1>10, <1>14, <1>19
    <2> QED
      BY <1>1, <1>19, <2>1, FitsRing
  <1>22. ASSUME NEW l \in Lines(r)
         PROVE  l \in Lines(s.raw) /\ Content(r)[l] = Content(s.raw)[l] /\ l < g.lines - over
    <2>1. l \in Int /\ target - r.len <= l /\ l < target
      BY <1>21, LinesAre
    <2>2. PICK m : m = l + gone
      OBVIOUS
    <2>3. /\ m \in Int /\ g.lines - t.len <= m /\ m < g.lines
          /\ g.lines - t.len <= l /\ l < g.lines /\ l < g.lines - over /\ l = m - gone
      BY ONLY <1>1, <1>2, <1>10, <1>14, <1>19, <2>1, <2>2, gone \in Nat
    <2>4. m \in Lines(t) /\ l \in Lines(t)
      BY <1>12, <2>1, <2>3, LinesAre
    <2>5. m \in Lines(s.raw) /\ l \in Lines(s.raw)
      BY <1>9, <1>15, <2>1, <2>3, LinesAre
    <2>6. PICK p : p = target - 1 - l
      OBVIOUS
    <2>7. p \in 0 .. t.len - gone - 1 /\ p = t.visible_lines - 1 - m /\ p = r.visible_lines - 1 - l
      BY ONLY <1>1, <1>10, <1>14, <1>19, <2>1, <2>2, <2>6, gone \in Nat
    <2>8. RowPos(r, p) = RowPos(t, p)
      <3>1. RowPos(r, p) = RowPos(i, p)
        BY <1>20, SamePos
      <3>2. RowPos(i, p) = RowPos(t, p)
        BY <1>10, <1>13, <1>14, <1>16, <2>7, ShrinkPos
      <3> QED
        BY <3>1, <3>2
    <2>9. Sound(r)
      BY <1>21, FitsFields
    <2>10. Content(r)[l] = Content(t)[m]
      BY ONLY <1>14, <1>22, <2>4, <2>7, <2>8, <2>9, FromPos
    <2>11. Content(t)[m] = Content(s.raw)[l]
      <3>1. t = rotate(s.raw, gone) \/ (gone >= 0 /\ t = rotate_down(s.raw, gone))
        BY <1>11
      <3>2. gone \in Int /\ gone <= s.raw.len /\ -gone <= s.raw.len
        BY <1>1, <1>10, <1>14, <1>15
      <3> QED
        BY ONLY <1>14, <2>3, <2>5, <3>1, <3>2, RotateContent
    <2> QED
      BY <2>3, <2>5, <2>10, <2>11
  <1>23. PICK v : v = AtMost(g.saved, target - 1)
    OBVIOUS
  <1>24. h = [s EXCEPT !.saved = v, !.raw = r, !.lines = target]
    BY <1>6, <1>8, <1>10, <1>11, <1>13, <1>23 DEF shrink_grid_lines
  <1>25. s \in GridType
    <2>1. CASE over > 0
      BY <1>7, <1>6, <1>8, <1>1, <2>1 DEF GridOK, GridType, AtMost
    <2>2. CASE ~(over > 0)
      BY <1>8, <2>2 DEF GridOK
    <2> QED
      BY <2>1, <2>2
  <1>26. /\ h.raw = r /\ h.lines = target /\ h.cursor = s.cursor
         /\ h.max_scroll_limit = s.max_scroll_limit
    BY <1>24, <1>25 DEF GridType
  <1>27. HistorySize(h) = hist + grown
    <2>1. HistorySize(h) = r.len - target
      BY <1>26 DEF HistorySize
    <2>2. PICK a, b : a = g.raw.len /\ b = t.len
      OBVIOUS
    <2>3. /\ a \in Nat /\ b = a + grown /\ r.len = b - gone /\ a = g.lines + hist
      BY <1>1, <1>3, <1>9, <1>15, <1>19, <2>2
    <2> QED
      BY ONLY <1>1, <1>5, <1>10, <2>1, <2>3, hist \in Nat, gone \in Nat
  <1>28. \A l \in Lines(r) :
                 l + over \in Lines(g.raw) /\ Content(r)[l] = Content(g.raw)[l + over]
    BY <1>9, <1>22
  <1> QED
    BY <1>2, <1>3, <1>4, <1>9, <1>26, <1>27, <1>28

-----------------------------------------------------------------------------
(* The specification. *)

GridIInv == GridOK(grid)

LEMMA GridInit ==
    Init => GridIInv
  <1>1. SUFFICES ASSUME Init PROVE GridOK(grid)
    BY DEF GridIInv
  <1>2. PICK lines \in 1 .. MaxLines, limit \in ScrollLimits : grid = new(lines, limit)
    BY <1>1 DEF Init
  <1>3. lines \in Nat /\ 1 <= lines /\ limit \in Nat /\ 0 \in Nat
    BY GridConstantsAssumption
  <1>4. PICK q, z : q = [i \in 1 .. lines |-> BlankRow] /\ z = 0
    OBVIOUS
  <1>5. q \in Seq(RowType) /\ Len(q) = lines
    BY <1>3, <1>4, BlankRowType
  <1>6. PICK r : r = [inner |-> q, zero |-> z, visible_lines |-> lines, len |-> lines]
    OBVIOUS
  <1>7. Ring(r) /\ r.visible_lines = lines /\ r.len = lines
    BY <1>3, <1>4, <1>5, <1>6 DEF Ring, StoreType
  <1>8. Fits(r, lines, limit)
    <2>1. lines <= r.len /\ r.len - lines <= limit
      BY <1>3, <1>7
    <2> QED
      BY <1>3, <1>7, <2>1, FitsRing
  <1>9. grid = [raw |-> r, lines |-> lines, display_offset |-> z,
                max_scroll_limit |-> limit, cursor |-> z, saved |-> z]
    BY <1>2, <1>4, <1>6 DEF new, with_capacity
  <1>10. z \in Nat /\ z <= limit /\ z < lines
    BY <1>3, <1>4
  <1> QED
    BY <1>8, <1>9, <1>10, GridMade

(* Saving the cursor and moving it. *)
LEMMA GotoOK ==
    ASSUME NEW g, GridOK(g), NEW row \in Nat, row < g.lines,
           NEW saved \in {g.saved, g.cursor},
           NEW h, h = [g EXCEPT !.cursor = row, !.saved = saved]
    PROVE  GridOK(h)
  <1>1. h = [raw |-> g.raw, lines |-> g.lines, display_offset |-> g.display_offset,
             max_scroll_limit |-> g.max_scroll_limit, cursor |-> row, saved |-> saved]
    BY DEF GridOK, GridType
  <1>2. saved \in Nat /\ saved < g.lines
    BY GridFields
  <1>3. Fits(g.raw, g.lines, g.max_scroll_limit)
    BY DEF GridOK
  <1>4. /\ g.lines \in 1 .. MaxLines /\ g.max_scroll_limit \in ScrollLimits
        /\ g.display_offset \in Nat /\ g.display_offset <= g.max_scroll_limit
    BY GridFields
  <1> QED
    BY ONLY row \in Nat, row < g.lines, <1>1, <1>2, <1>3, <1>4, GridMade

LEMMA GridNext ==
    GridIInv /\ [Next]_vars => GridIInv'
  <1>1. SUFFICES ASSUME GridOK(grid), [Next]_vars PROVE GridOK(grid')
    BY DEF GridIInv, GridOK
  <1>2. CASE UNCHANGED vars
    BY <1>1, <1>2 DEF vars
  <1>3. grid.lines \in Nat /\ MaxLines \in Nat
    BY <1>1, GridFields, GridConstantsAssumption
  <1>4. ASSUME NEW l \in 0 .. MaxLines - 1, NEW t \in TextValues, Write(l, t)
        PROVE  GridOK(grid')
    <2>1. l \in Nat /\ l < grid.lines /\ grid' = write(grid, l, t)
      BY <1>3, <1>4 DEF Write
    <2> QED
      BY <1>1, <2>1, WriteOK
  <1>5. ASSUME NEW r \in 0 .. MaxLines - 1, Goto(r)
        PROVE  GridOK(grid')
    <2>1. r \in Nat /\ r < grid.lines
      BY <1>3, <1>5 DEF Goto
    <2>2. PICK saved \in {grid.saved, grid.cursor} :
                grid' = [grid EXCEPT !.cursor = r, !.saved = saved]
      BY <1>5 DEF Goto
    <2> QED
      BY <1>1, <2>1, <2>2, GotoOK
  <1>6. ASSUME NEW s \in 0 .. MaxLines - 1, NEW e \in 1 .. MaxLines, NEW n \in 1 .. MaxLines,
               ScrollUp(s, e, n)
        PROVE  GridOK(grid')
    <2>1. /\ s \in Nat /\ e \in Nat /\ n \in Nat /\ e <= grid.lines
          /\ (s = 0 => n <= e) /\ grid' = scroll_up(grid, s, e, n)
      BY <1>3, <1>6 DEF ScrollUp
    <2> QED
      BY <1>1, <2>1, ScrollUpOK
  <1>7. ASSUME NEW s \in 0 .. MaxLines - 1, NEW e \in 1 .. MaxLines, NEW n \in 1 .. MaxLines,
               ScrollDown(s, e, n)
        PROVE  GridOK(grid')
    <2>1. /\ s \in Nat /\ e \in Nat /\ n \in Nat /\ e <= grid.lines
          /\ s < e /\ n <= e - s /\ grid' = scroll_down(grid, s, e, n)
      BY <1>3, <1>7 DEF ScrollDown
    <2> QED
      BY <1>1, <2>1, ScrollDownOK
  <1>8. ASSUME NEW d \in -MaxLines .. MaxLines, ScrollDisplay(d)
        PROVE  GridOK(grid')
    <2>1. d \in Int /\ grid' = scroll_display(grid, d)
      BY <1>3, <1>8 DEF ScrollDisplay
    <2> QED
      BY <1>1, <2>1, ScrollDisplayOK
  <1>9. ASSUME NEW s \in 0 .. MaxLines - 1, NEW e \in 1 .. MaxLines, ResetRegion(s, e)
        PROVE  GridOK(grid')
    <2>1. s \in Nat /\ e \in Nat /\ e <= grid.lines /\ grid' = reset_region(grid, s, e)
      BY <1>3, <1>9 DEF ResetRegion
    <2> QED
      BY <1>1, <2>1, ResetRegionOK
  <1>10. ASSUME ClearViewport PROVE GridOK(grid')
    BY <1>1, <1>10, ClearViewportOK DEF ClearViewport
  <1>11. ASSUME ClearHistory PROVE GridOK(grid')
    BY <1>1, <1>11, ClearHistoryOK DEF ClearHistory
  <1>12. ASSUME Reset PROVE GridOK(grid')
    BY <1>1, <1>12, ResetOK DEF Reset
  <1>13. ASSUME NEW l \in 1 .. MaxLines, Resize(l) PROVE GridOK(grid')
    BY <1>1, <1>13, ResizeOK DEF Resize
  <1>14. CASE Next
    BY <1>4, <1>5, <1>6, <1>7, <1>8, <1>9, <1>10, <1>11, <1>12, <1>13, <1>14 DEF Next
  <1> QED
    BY <1>1, <1>2, <1>14

LEMMA GridIInvIsSound ==
    GridIInv => GridSound
  <1>1. SUFFICES ASSUME GridOK(grid) PROVE GridSound
    BY DEF GridIInv
  <1>2. /\ grid.raw \in StoreType
        /\ grid.raw.visible_lines = grid.lines /\ grid.lines <= grid.raw.len
        /\ grid.raw.len <= Len(grid.raw.inner) /\ grid.raw.zero < Len(grid.raw.inner)
        /\ HistorySize(grid) <= grid.max_scroll_limit
    BY <1>1, HistoryFacts DEF Ring
  <1>3. TypeOK
    BY <1>1, <1>2, GridFields DEF TypeOK, StoreType
  <1>4. {grid.cursor, grid.saved} \subseteq 0 .. grid.lines - 1
    BY <1>1, GridFields
  <1> QED
    BY <1>1, <1>2, <1>3, <1>4, GridFields DEF GridSound, Capacity

(* Whatever is written, scrolled, erased and resized, the counters of the  *)
(* grid agree with those of its storage, the ring is in bounds, history is *)
(* within its limit and both cursors are on the screen (grid/mod.rs:181,   *)
(* grid/resize.rs, grid/storage.rs).                                       *)
THEOREM GridStaysSound == Spec => []GridSound
  <1>1. Init => GridIInv
    BY GridInit
  <1>2. GridIInv /\ [Next]_vars => GridIInv'
    BY GridNext
  <1>3. GridIInv => GridSound
    BY GridIInvIsSound
  <1> QED
    BY <1>1, <1>2, <1>3, PTL DEF Spec

-----------------------------------------------------------------------------
(* What a scrolled-back reader sees. *)

(* Output that scrolls lines into history carries the view along with it.  *)
LEMMA ViewCarried ==
    ASSUME NEW g, GridOK(g), NEW s \in Nat, NEW e \in Nat, NEW n \in Nat,
           s = 0, s < e, e <= g.lines, n <= e,
           NEW h, h = scroll_up(g, s, e, n), GridOK(h),
           g.display_offset # 0, g.display_offset <= HistorySize(g),
           g.display_offset + n <= g.max_scroll_limit,
           g.lines - g.display_offset <= e
    PROVE  ViewTexts(h) = ViewTexts(g)
  <1>1. /\ g.lines \in Nat /\ g.display_offset \in Nat /\ g.max_scroll_limit \in Nat
        /\ Sound(g.raw) /\ Fits(g.raw, g.lines, g.max_scroll_limit)
    BY GridFields, FitsFields DEF GridOK
  <1>2. SameFrame(g, h) /\ Fits(h.raw, h.lines, h.max_scroll_limit)
    BY ScrollUpOK DEF GridOK
  <1>3. h.lines = g.lines
    BY <1>2 DEF SameFrame
  <1>4. /\ h.raw.len = g.raw.len + AtMost(n, g.max_scroll_limit - HistorySize(g))
        /\ UpFromTop(Content(g.raw), Content(h.raw), e, n)
        /\ h.display_offset = ScrolledOffset(g, n)
    BY ScrollUpContent
  <1>5. h.display_offset = g.display_offset + n
    BY <1>1, <1>4 DEF ScrolledOffset, AtMost
  <1>6. /\ HistorySize(g) = g.raw.len - g.lines /\ g.raw.len \in Nat
        /\ HistorySize(g) \in Nat /\ HistorySize(g) <= g.max_scroll_limit
    BY HistoryFacts
  <1>7. PICK off, len, up : /\ off = g.display_offset /\ len = g.raw.len
                            /\ up = h.raw.len
    OBVIOUS
  <1>8. off + n <= up - g.lines /\ up \in Nat
    BY <1>1, <1>4, <1>6, <1>7 DEF AtMost
  <1>9. ASSUME NEW l \in 0 .. g.lines - 1
        PROVE  RowAt(h.raw, l - h.display_offset).text = RowAt(g.raw, l - g.display_offset).text
    <2>1. PICK m, k : m = l - h.display_offset /\ k = l - g.display_offset
      OBVIOUS
    <2>2. /\ m \in Int /\ k \in Int /\ k = m + n /\ m < e - n
          /\ g.lines - up <= m /\ m < g.lines
          /\ g.lines - len <= k /\ k < g.lines
      BY <1>1, <1>5, <1>6, <1>7, <1>8, <2>1
    <2>3. m \in Lines(h.raw) /\ k \in Lines(g.raw)
      BY <1>1, <1>2, <1>3, <1>7, <2>2, LinesAre
    <2>4. DOMAIN Content(h.raw) = Lines(h.raw)
      BY DEF Content
    <2>5. Content(h.raw)[m] = Content(g.raw)[k]
      BY <1>4, <2>2, <2>3, <2>4 DEF UpFromTop
    <2> QED
      BY <2>1, <2>3, <2>5 DEF Content
  <1> QED
    BY <1>3, <1>9 DEF ViewTexts

(* "If the displayed region isn't at the bottom of the screen, it stays    *)
(* stationary while more text is emitted" (grid/mod.rs:54): whatever        *)
(* happened before, output that scrolls lines into history leaves what a   *)
(* scrolled-back reader sees as it was, while those lines are kept.        *)
THEOREM ViewStaysPut == Spec => ViewStationary
  <1>1. Init => GridIInv
    BY GridInit
  <1>2. GridIInv /\ [Next]_vars => GridIInv'
    BY GridNext
  <1>3. /\ GridIInv /\ [Next]_vars
        => [ScrollsUnderView(grid, call') => ViewTexts(grid') = ViewTexts(grid)]_vars
    <2>1. SUFFICES ASSUME GridOK(grid), Next, ScrollsUnderView(grid, call')
                   PROVE  ViewTexts(grid') = ViewTexts(grid)
      BY DEF GridIInv
    <2>2. GridOK(grid')
      BY <2>1, GridNext DEF GridIInv
    <2>3. PICK s \in 0 .. MaxLines - 1, e \in 1 .. MaxLines, n \in 1 .. MaxLines : ScrollUp(s, e, n)
      <3>1. call'.op = "scroll_up"
        BY <2>1 DEF ScrollsUnderView
      <3>2. ~ (\E l \in 0 .. MaxLines - 1, t \in TextValues : Write(l, t))
        BY <3>1 DEF Write
      <3>3. ~ (\E r \in 0 .. MaxLines - 1 : Goto(r))
        <4>1. SUFFICES ASSUME NEW r \in 0 .. MaxLines - 1, Goto(r) PROVE FALSE
          OBVIOUS
        <4>2. call' = [op |-> "goto"]
          BY ONLY <4>1 DEF Goto
        <4> QED
          BY <3>1, <4>2
      <3>4. /\ ~ (\E s \in 0 .. MaxLines - 1, e, n \in 1 .. MaxLines : ScrollDown(s, e, n))
            /\ ~ (\E d \in -MaxLines .. MaxLines : ScrollDisplay(d))
            /\ ~ (\E s \in 0 .. MaxLines - 1, e \in 1 .. MaxLines : ResetRegion(s, e))
        BY <3>1 DEF ScrollDown, ScrollDisplay, ResetRegion
      <3>5. ~ (ClearViewport \/ ClearHistory \/ Reset \/ \E l \in 1 .. MaxLines : Resize(l))
        BY <3>1 DEF ClearViewport, ClearHistory, Reset, Resize
      <3> QED
        BY ONLY Next, <3>2, <3>4, <3>5, <3>3 DEF Next
    <2>4. MaxLines \in Nat
      BY GridConstantsAssumption
    <2>5. /\ s \in Nat /\ e \in Nat /\ n \in Nat /\ s < e /\ e <= grid.lines /\ (s = 0 => n <= e)
          /\ grid' = scroll_up(grid, s, e, n)
          /\ call' = [op |-> "scroll_up", start |-> s, end |-> e, n |-> n]
      BY <2>3, <2>4 DEF ScrollUp
    <2>6. /\ s = 0 /\ grid.display_offset # 0
          /\ grid.display_offset <= HistorySize(grid)
          /\ grid.display_offset + n <= grid.max_scroll_limit
          /\ grid.lines - grid.display_offset <= e
      BY <2>1, <2>5 DEF ScrollsUnderView
    <2> QED
      BY <2>1, <2>2, <2>5, <2>6, ViewCarried
  <1> QED
    BY <1>1, <1>2, <1>3, PTL DEF Spec, ViewStationary

-----------------------------------------------------------------------------
(* Screen and history as sequences of texts. *)

Shown(g) == Texts(ScreenRows(g))
Kept(g) == Texts(HistoryRows(g))

LEMMA ShownIs ==
    ASSUME NEW g, GridOK(g)
    PROVE  /\ Shown(g) \in Seq(AnyText) /\ Len(Shown(g)) = g.lines
           /\ \A i \in 1 .. g.lines : Shown(g)[i] = Content(g.raw)[i - 1]
  <1>1. g.lines \in Nat /\ Fits(g.raw, g.lines, g.max_scroll_limit)
    BY GridFields DEF GridOK
  <1>2. Sound(g.raw) /\ g.raw.len \in Nat /\ g.lines <= g.raw.len
    BY <1>1, FitsFields
  <1>3. ASSUME NEW i \in 1 .. g.lines
        PROVE  /\ i - 1 \in Lines(g.raw)
               /\ ScreenRows(g)[i].text = Content(g.raw)[i - 1]
               /\ Content(g.raw)[i - 1] \in AnyText
    <2>1. PICK l : l = i - 1
      OBVIOUS
    <2>2. l \in Int /\ g.lines - g.raw.len <= l /\ l < g.lines
      BY <1>1, <1>2, <2>1
    <2>3. l \in Lines(g.raw)
      BY <1>1, <2>2, LinesAre
    <2>4. ScreenRows(g)[i].text = Content(g.raw)[l]
      BY <2>1, <2>3 DEF ScreenRows, Content
    <2> QED
      BY <1>2, <2>1, <2>3, <2>4, ContentType
  <1>4. PICK n \in Nat : n = g.lines
    BY <1>1
  <1>5. PICK s : s = Shown(g)
    OBVIOUS
  <1>6. Len(ScreenRows(g)) = n
    BY <1>4 DEF ScreenRows
  <1>7. s = [i \in 1 .. n |-> ScreenRows(g)[i].text]
    BY <1>5, <1>6 DEF Shown, Texts
  <1>8. s = [i \in 1 .. n |-> Content(g.raw)[i - 1]]
    BY <1>3, <1>4, <1>7
  <1>9. s \in Seq(AnyText)
    <2>1. \A i \in 1 .. n : Content(g.raw)[i - 1] \in AnyText
      BY <1>3, <1>4
    <2> QED
      BY <1>8, <2>1
  <1>10. Len(s) = n
    BY <1>8
  <1> QED
    BY <1>4, <1>5, <1>8, <1>9, <1>10

LEMMA KeptIs ==
    ASSUME NEW g, GridOK(g), NEW hist, hist = HistorySize(g)
    PROVE  /\ Kept(g) \in Seq(AnyText) /\ Len(Kept(g)) = hist
           /\ \A i \in 1 .. hist : Kept(g)[i] = Content(g.raw)[i - 1 - hist]
  <1>1. g.lines \in Nat /\ 1 <= g.lines /\ Fits(g.raw, g.lines, g.max_scroll_limit)
    BY GridFields DEF GridOK
  <1>2. Sound(g.raw) /\ g.raw.len \in Nat /\ g.lines <= g.raw.len
    BY <1>1, FitsFields
  <1>3. hist \in Nat /\ hist = g.raw.len - g.lines
    BY HistoryFacts
  <1>4. ASSUME NEW i \in 1 .. hist
        PROVE  /\ HistoryRows(g)[i].text = Content(g.raw)[i - 1 - hist]
               /\ Content(g.raw)[i - 1 - hist] \in AnyText
    <2>1. PICK l : l = i - 1 - hist
      OBVIOUS
    <2>2. l \in Int /\ g.lines - g.raw.len <= l /\ l < g.lines
      BY <1>1, <1>2, <1>3, <2>1
    <2>3. l \in Lines(g.raw)
      BY <1>1, <2>2, LinesAre
    <2>4. HistoryRows(g)[i].text = Content(g.raw)[l]
      BY <2>1, <2>3 DEF HistoryRows, Content
    <2> QED
      BY <1>2, <2>1, <2>3, <2>4, ContentType
  <1>5. PICK s : s = Kept(g)
    OBVIOUS
  <1>6. Len(HistoryRows(g)) = hist
    BY <1>3 DEF HistoryRows
  <1>7. s = [i \in 1 .. hist |-> HistoryRows(g)[i].text]
    BY <1>5, <1>6 DEF Kept, Texts
  <1>8. s = [i \in 1 .. hist |-> Content(g.raw)[i - 1 - hist]]
    BY <1>4, <1>7
  <1>9. s \in Seq(AnyText)
    BY <1>3, <1>4, <1>8
  <1>10. Len(s) = hist
    BY <1>3, <1>8
  <1> QED
    BY <1>5, <1>8, <1>9, <1>10

(* A sequence that reads as the screen does is the screen; *)
LEMMA ShownAs ==
    ASSUME NEW g, GridOK(g), NEW r \in Seq(AnyText), Len(r) = g.lines,
           \A i \in 1 .. g.lines : r[i] = Content(g.raw)[i - 1]
    PROVE  Shown(g) = r
  BY ShownIs, SeqEqual

(* and so for the history. *)
LEMMA KeptAs ==
    ASSUME NEW g, GridOK(g), NEW hist, hist = HistorySize(g),
           NEW r \in Seq(AnyText), Len(r) = hist,
           \A i \in 1 .. hist : r[i] = Content(g.raw)[i - 1 - hist]
    PROVE  Kept(g) = r
  BY KeptIs, SeqEqual

LEMMA BlanksAre ==
    ASSUME NEW n \in Nat
    PROVE  /\ Text!Blanks(n) \in Seq(AnyText) /\ Len(Text!Blanks(n)) = n
           /\ \A i \in 1 .. n : Text!Blanks(n)[i] = Blank
  <1>1. Blank \in AnyText
    BY DEF AnyText
  <1> QED
    BY <1>1 DEF Text!Blanks

LEMMA PartIs ==
    ASSUME NEW s \in Seq(AnyText), NEW m \in Nat, NEW n \in Nat, 1 <= m, n <= Len(s), m <= n + 1,
           NEW r, r = SubSeq(s, m, n)
    PROVE  /\ r \in Seq(AnyText) /\ Len(r) = n + 1 - m
           /\ \A i \in 1 .. Len(r) : r[i] = s[m + i - 1]
  <1>1. \A i \in m .. n : s[i] \in AnyText
    OBVIOUS
  <1>2. m \in Int /\ n \in Int
    OBVIOUS
  <1>3. /\ SubSeq(s, m, n) \in Seq(AnyText)
        /\ Len(SubSeq(s, m, n)) = IF m <= n THEN n - m + 1 ELSE 0
        /\ \A i \in 1 .. n - m + 1 : SubSeq(s, m, n)[i] = s[m + i - 1]
    BY ONLY <1>1, <1>2, SubSeqProperties
  <1>4. Len(r) = n + 1 - m
    BY <1>3
  <1> QED
    BY <1>3, <1>4

LEMMA JoinIs ==
    ASSUME NEW a \in Seq(AnyText), NEW b \in Seq(AnyText), NEW r, r = a \o b
    PROVE  /\ r \in Seq(AnyText) /\ Len(r) = Len(a) + Len(b)
           /\ \A i \in 1 .. Len(r) : r[i] = IF i <= Len(a) THEN a[i] ELSE b[i - Len(a)]
  <1>1. /\ a \o b \in Seq(AnyText) /\ Len(a \o b) = Len(a) + Len(b)
        /\ \A i \in 1 .. Len(a) + Len(b) :
              (a \o b)[i] = IF i <= Len(a) THEN a[i] ELSE b[i - Len(a)]
    BY ONLY a \in Seq(AnyText), b \in Seq(AnyText), ConcatProperties
  <1> QED
    BY <1>1

LEMMA Join3Is ==
    ASSUME NEW a \in Seq(AnyText), NEW b \in Seq(AnyText), NEW c \in Seq(AnyText),
           NEW r, r = a \o b \o c,
           NEW m \in Nat, m = Len(a), NEW n \in Nat, n = Len(a) + Len(b)
    PROVE  /\ r \in Seq(AnyText) /\ Len(r) = n + Len(c)
           /\ \A i \in 1 .. Len(r) :
                 /\ i <= m => r[i] = a[i]
                 /\ m < i /\ i <= n => r[i] = b[i - m]
                 /\ n < i => r[i] = c[i - n]
  <1>1. PICK d : d = a \o b
    OBVIOUS
  <1>2. /\ d \in Seq(AnyText) /\ Len(d) = n
        /\ \A i \in 1 .. Len(d) : d[i] = IF i <= Len(a) THEN a[i] ELSE b[i - Len(a)]
    BY <1>1, JoinIs
  <1>3. /\ r \in Seq(AnyText) /\ Len(r) = n + Len(c)
        /\ \A i \in 1 .. Len(r) : r[i] = IF i <= n THEN d[i] ELSE c[i - n]
    BY <1>1, <1>2, JoinIs
  <1>4. Len(b) \in Nat /\ Len(c) \in Nat
    OBVIOUS
  <1> QED
    BY <1>2, <1>3, <1>4

LEMMA NewestIs ==
    ASSUME NEW s \in Seq(AnyText), NEW n \in Nat, NEW r, r = Text!Newest(s, n)
    PROVE  /\ r \in Seq(AnyText) /\ Len(r) = AtMost(Len(s), n)
           /\ \A i \in 1 .. Len(r) : r[i] = s[Len(s) - Len(r) + i]
  <1>1. Len(s) \in Nat
    OBVIOUS
  <1>2. CASE Len(s) <= n
    <2>1. r = s
      BY <1>2 DEF Text!Newest
    <2>2. AtMost(Len(s), n) = Len(s)
      BY <1>1, <1>2 DEF AtMost
    <2> QED
      BY <1>1, <2>1, <2>2
  <1>3. CASE ~(Len(s) <= n)
    <2>1. PICK k, m : k = Len(s) /\ m = k - n + 1
      OBVIOUS
    <2>2. k \in Nat /\ m \in Nat /\ 1 <= m /\ k <= Len(s) /\ m <= k + 1
      BY <1>1, <1>3, <2>1
    <2>3. r = SubSeq(s, m, k)
      BY <1>3, <2>1 DEF Text!Newest
    <2>4. r \in Seq(AnyText) /\ Len(r) = k + 1 - m /\ \A i \in 1 .. Len(r) : r[i] = s[m + i - 1]
      BY <2>2, <2>3, PartIs
    <2>5. Len(r) = n /\ AtMost(Len(s), n) = n
      BY <1>1, <1>3, <2>1, <2>4 DEF AtMost
    <2>6. ASSUME NEW i \in 1 .. n PROVE m + i - 1 = k - n + i
      BY <2>1, <2>2
    <2> QED
      BY <2>1, <2>4, <2>5, <2>6
  <1> QED
    BY <1>2, <1>3

LEMMA GridLines ==
    ASSUME NEW g, GridOK(g), NEW hist, hist = HistorySize(g), NEW l \in Int
    PROVE  l \in Lines(g.raw) <=> 0 - hist <= l /\ l < g.lines
  <1>1. Fits(g.raw, g.lines, g.max_scroll_limit) /\ g.lines \in Nat
    BY GridFields DEF GridOK
  <1>2. hist = g.raw.len - g.lines /\ g.raw.len \in Nat
    BY HistoryFacts
  <1>3. g.lines - g.raw.len = 0 - hist
    BY <1>1, <1>2
  <1> QED
    BY <1>1, <1>3, LinesAre

(* The top lines of a screen that move above it become the newest history. *)
LEMMA RetireIs ==
    ASSUME NEW g, GridOK(g), NEW h, GridOK(h), NEW n \in Nat, n <= g.lines,
           HistorySize(h) = HistorySize(g) + AtMost(n, g.max_scroll_limit - HistorySize(g)),
           \A l \in Lines(h.raw) : l < 0 => Content(h.raw)[l] = Content(g.raw)[l + n]
    PROVE  Kept(h) = Text!Newest(Kept(g) \o SubSeq(Shown(g), 1, n), g.max_scroll_limit)
  <1>1. /\ g.lines \in Nat /\ h.lines \in Nat /\ g.max_scroll_limit \in Nat
        /\ 1 <= h.lines
    BY GridFields
  <1>2. PICK hist \in Nat, len \in Nat :
            /\ hist = HistorySize(g) /\ len = HistorySize(h)
            /\ hist <= g.max_scroll_limit
    BY HistoryFacts
  <1>3. PICK a, s, b, j, r : /\ a = Kept(g) /\ s = Shown(g) /\ b = SubSeq(s, 1, n)
                             /\ j = a \o b /\ r = Text!Newest(j, g.max_scroll_limit)
    OBVIOUS
  <1>4. /\ a \in Seq(AnyText) /\ Len(a) = hist
        /\ \A i \in 1 .. hist : a[i] = Content(g.raw)[i - 1 - hist]
    BY <1>2, <1>3, KeptIs
  <1>5. /\ s \in Seq(AnyText) /\ Len(s) = g.lines
        /\ \A i \in 1 .. g.lines : s[i] = Content(g.raw)[i - 1]
    BY <1>3, ShownIs
  <1>6. b \in Seq(AnyText) /\ Len(b) = n /\ \A i \in 1 .. n : b[i] = s[i]
    <2>1. PICK one : one = 1
      OBVIOUS
    <2>2. one \in Nat /\ 1 <= one /\ n <= Len(s) /\ one <= n + 1 /\ b = SubSeq(s, one, n)
      BY <1>3, <1>5, <2>1
    <2>3. /\ b \in Seq(AnyText) /\ Len(b) = n + 1 - one
          /\ \A i \in 1 .. Len(b) : b[i] = s[one + i - 1]
      BY <1>5, <2>2, PartIs
    <2> QED
      BY <2>1, <2>3
  <1>7. /\ j \in Seq(AnyText) /\ Len(j) = hist + n
        /\ \A i \in 1 .. hist + n : j[i] = IF i <= hist THEN a[i] ELSE b[i - hist]
    <2>1. a \in Seq(AnyText) /\ b \in Seq(AnyText) /\ j = a \o b
      BY <1>3, <1>4, <1>6
    <2>2. /\ j \in Seq(AnyText) /\ Len(j) = Len(a) + Len(b)
          /\ \A i \in 1 .. Len(j) : j[i] = IF i <= Len(a) THEN a[i] ELSE b[i - Len(a)]
      BY ONLY <2>1, JoinIs
    <2> QED
      BY <1>4, <1>6, <2>2
  <1>8. /\ r \in Seq(AnyText) /\ Len(r) = AtMost(hist + n, g.max_scroll_limit)
        /\ \A i \in 1 .. Len(r) : r[i] = j[hist + n - Len(r) + i]
    <2>1. PICK limit \in Nat : limit = g.max_scroll_limit
      BY <1>1
    <2>2. j \in Seq(AnyText) /\ r = Text!Newest(j, limit)
      BY <1>3, <1>7, <2>1
    <2>3. r \in Seq(AnyText) /\ Len(r) = AtMost(Len(j), limit)
      BY ONLY <2>2, limit \in Nat, NewestIs
    <2>4. \A i \in 1 .. Len(r) : r[i] = j[Len(j) - Len(r) + i]
      BY ONLY <2>2, limit \in Nat, NewestIs
    <2> QED
      BY <1>7, <2>1, <2>3, <2>4
  <1>9. Len(r) = len /\ len <= hist + n
    BY <1>1, <1>2, <1>8 DEF AtMost
  <1>10. ASSUME NEW i \in 1 .. hist + n
         PROVE  j[i] = Content(g.raw)[i - 1 - hist]
    <2>1. CASE i <= hist
      BY <1>4, <1>7, <2>1
    <2>2. CASE ~(i <= hist)
      <3>1. PICK k : k = i - hist
        OBVIOUS
      <3>2. k \in 1 .. n /\ k - 1 = i - 1 - hist
        BY <1>2, <2>2, <3>1
      <3>3. j[i] = b[k]
        BY <1>7, <2>2, <3>1
      <3>4. b[k] = s[k] /\ k \in 1 .. g.lines
        BY <1>1, <1>6, <3>2
      <3> QED
        BY <1>5, <3>2, <3>3, <3>4
    <2> QED
      BY <2>1, <2>2
  <1>11. ASSUME NEW i \in 1 .. len
         PROVE  r[i] = Content(h.raw)[i - 1 - len]
    <2>1. PICK k, l : k = hist + n - len + i /\ l = i - 1 - len
      OBVIOUS
    <2>2. k \in 1 .. hist + n /\ l \in Int /\ l < 0 /\ 0 - len <= l /\ k - 1 - hist = l + n
      BY ONLY hist \in Nat, n \in Nat, len \in Nat, i \in 1 .. len, <1>9, <2>1
    <2>3. l \in Lines(h.raw)
      BY <1>1, <1>2, <2>2, GridLines
    <2>4. r[i] = j[k]
      BY <1>8, <1>9, <2>1
    <2>5. j[k] = Content(g.raw)[l + n]
      BY <1>10, <2>2
    <2> QED
      BY <2>1, <2>2, <2>3, <2>4, <2>5
  <1>12. Kept(h) = r
    BY <1>2, <1>8, <1>9, <1>11, KeptAs
  <1> QED
    BY <1>3, <1>12

(* History whose lines still show the same is the same. *)
LEMMA KeptSame ==
    ASSUME NEW g, GridOK(g), NEW h, GridOK(h), HistorySize(h) = HistorySize(g),
           \A l \in Lines(h.raw) : l < 0 => Content(h.raw)[l] = Content(g.raw)[l]
    PROVE  Kept(h) = Kept(g)
  <1>1. PICK hist \in Nat : hist = HistorySize(g)
    BY HistoryFacts
  <1>2. PICK r : r = Kept(g)
    OBVIOUS
  <1>3. /\ r \in Seq(AnyText) /\ Len(r) = hist
        /\ \A i \in 1 .. hist : r[i] = Content(g.raw)[i - 1 - hist]
    BY <1>1, <1>2, KeptIs
  <1>4. h.lines \in Nat
    BY GridFields
  <1>5. ASSUME NEW i \in 1 .. hist
        PROVE  r[i] = Content(h.raw)[i - 1 - hist]
    <2>1. PICK l : l = i - 1 - hist
      OBVIOUS
    <2>2. l \in Int /\ l < 0 /\ 0 - hist <= l
      BY <1>1, <2>1
    <2>3. l \in Lines(h.raw)
      BY <1>1, <1>4, <2>2, GridLines
    <2> QED
      BY <1>3, <2>1, <2>2, <2>3
  <1> QED
    BY <1>1, <1>2, <1>3, <1>5, KeptAs

(* A screen whose lines [start, end) have moved up by n, *)
LinesUp(g, h, start, end, n) ==
    \A l \in 0 .. g.lines - 1 :
        /\ l < start \/ l >= end => Content(h.raw)[l] = Content(g.raw)[l]
        /\ start <= l /\ l < end - n => Content(h.raw)[l] = Content(g.raw)[l + n]
        /\ end - n <= l /\ l < end => Content(h.raw)[l] = Blank

ScreenUp(s, start, end, n) ==
    SubSeq(s, 1, start) \o SubSeq(s, start + n + 1, end) \o Text!Blanks(n)
        \o SubSeq(s, end + 1, Len(s))

LEMMA RegionUpText ==
    ASSUME NEW g, GridOK(g), NEW h, GridOK(h), h.lines = g.lines,
           NEW start \in Nat, NEW end \in Nat, NEW n \in Nat,
           start < end, end <= g.lines, n <= end - start,
           LinesUp(g, h, start, end, n)
    PROVE  Shown(h) = ScreenUp(Shown(g), start, end, n)
  <1>1. \A l \in 0 .. g.lines - 1 :
              /\ l < start \/ l >= end => Content(h.raw)[l] = Content(g.raw)[l]
              /\ start <= l /\ l < end - n => Content(h.raw)[l] = Content(g.raw)[l + n]
              /\ end - n <= l /\ l < end => Content(h.raw)[l] = Blank
    BY DEF LinesUp
  <1>2. PICK lines \in Nat : lines = g.lines /\ end <= lines
    BY GridFields
  <1>3. PICK s, a, b, c, d, t, r :
            /\ s = Shown(g) /\ a = SubSeq(s, 1, start) /\ b = SubSeq(s, start + n + 1, end)
            /\ c = Text!Blanks(n) /\ d = SubSeq(s, end + 1, Len(s))
            /\ t = a \o b \o c /\ r = t \o d
    OBVIOUS
  <1>4. /\ s \in Seq(AnyText) /\ Len(s) = lines
        /\ \A i \in 1 .. lines : s[i] = Content(g.raw)[i - 1]
    BY <1>2, <1>3, ShownIs
  <1>5. PICK one, low, high : one = 1 /\ low = start + n + 1 /\ high = end + 1
    OBVIOUS
  <1>6. /\ start \in Nat /\ end \in Nat /\ n \in Nat /\ lines \in Nat
         /\ start < end /\ n <= end - start
    OBVIOUS
  <1>7. a \in Seq(AnyText) /\ Len(a) = start /\ \A i \in 1 .. start : a[i] = s[i]
    <2>1. /\ one \in Nat /\ 1 <= one /\ start <= Len(s) /\ one <= start + 1
          /\ a = SubSeq(s, one, start)
      <3>1. Len(s) = lines
        BY <1>4
      <3>2. one \in Nat /\ 1 <= one /\ start <= Len(s) /\ one <= start + 1
        BY ONLY <1>2, <1>5, <1>6, <3>1
      <3>3. a = SubSeq(s, one, start)
        BY ONLY <1>3, <1>5, <3>1
      <3> QED
        BY ONLY <3>2, <3>3
    <2>2. /\ a \in Seq(AnyText) /\ Len(a) = start + 1 - one
          /\ \A i \in 1 .. Len(a) : a[i] = s[one + i - 1]
      BY <1>4, <2>1, PartIs
    <2> QED
      BY <1>5, <2>2
  <1>8. /\ b \in Seq(AnyText) /\ Len(b) = end - start - n
        /\ \A i \in 1 .. end - start - n : b[i] = s[start + n + i]
    <2>1. /\ low \in Nat /\ 1 <= low /\ end <= Len(s) /\ low <= end + 1
          /\ b = SubSeq(s, low, end)
      <3>1. Len(s) = lines
        BY <1>4
      <3>2. low \in Nat /\ 1 <= low /\ end <= Len(s) /\ low <= end + 1
        BY ONLY <1>2, <1>5, <1>6, <3>1
      <3>3. b = SubSeq(s, low, end)
        BY ONLY <1>3, <1>5, <3>1
      <3> QED
        BY ONLY <3>2, <3>3
    <2>2. /\ b \in Seq(AnyText) /\ Len(b) = end + 1 - low
          /\ \A i \in 1 .. Len(b) : b[i] = s[low + i - 1]
      BY <1>4, <2>1, PartIs
    <2>3. Len(b) = end - start - n
      <3>1. Len(b) = end + 1 - low
        BY <2>2
      <3> QED
        BY ONLY <1>2, <1>5, <1>6, <3>1, lines \in Nat
    <2>4. ASSUME NEW i \in 1 .. end - start - n PROVE low + i - 1 = start + n + i
      BY <1>5
    <2> QED
      BY <2>2, <2>3, <2>4
  <1>9. c \in Seq(AnyText) /\ Len(c) = n /\ \A i \in 1 .. n : c[i] = Blank
    BY <1>3, BlanksAre
  <1>10. /\ d \in Seq(AnyText) /\ Len(d) = lines - end
        /\ \A i \in 1 .. lines - end : d[i] = s[end + i]
    <2>1. /\ high \in Nat /\ 1 <= high /\ lines <= Len(s) /\ high <= lines + 1
          /\ d = SubSeq(s, high, lines)
      <3>1. Len(s) = lines
        BY <1>4
      <3>2. high \in Nat /\ 1 <= high /\ lines <= Len(s) /\ high <= lines + 1
        BY ONLY <1>2, <1>5, <1>6, <3>1
      <3>3. d = SubSeq(s, high, lines)
        BY ONLY <1>3, <1>5, <3>1
      <3> QED
        BY ONLY <3>2, <3>3
    <2>2. /\ d \in Seq(AnyText) /\ Len(d) = lines + 1 - high
          /\ \A i \in 1 .. Len(d) : d[i] = s[high + i - 1]
      BY <1>4, <2>1, PartIs
    <2>3. Len(d) = lines - end
      <3>1. Len(d) = lines + 1 - high
        BY <2>2
      <3> QED
        BY ONLY <1>2, <1>5, <1>6, <3>1, lines \in Nat
    <2>4. ASSUME NEW i \in 1 .. lines - end PROVE high + i - 1 = end + i
      BY <1>5
    <2> QED
      BY <2>2, <2>3, <2>4
  <1>11. PICK m \in Nat : m = end - n
    BY <1>2
  <1>12. /\ t \in Seq(AnyText) /\ Len(t) = end
         /\ \A i \in 1 .. end :
               /\ i <= start => t[i] = a[i]
               /\ start < i /\ i <= m => t[i] = b[i - start]
               /\ m < i => t[i] = c[i - m]
    <2>1. m = Len(a) + Len(b) /\ start = Len(a) /\ end = m + Len(c)
      BY <1>7, <1>8, <1>9, <1>11
    <2>2. /\ t \in Seq(AnyText) /\ Len(t) = m + Len(c)
          /\ \A i \in 1 .. Len(t) :
                /\ i <= start => t[i] = a[i]
                /\ start < i /\ i <= m => t[i] = b[i - start]
                /\ m < i => t[i] = c[i - m]
      <3>1. /\ a \in Seq(AnyText) /\ b \in Seq(AnyText) /\ c \in Seq(AnyText)
            /\ t = a \o b \o c
        BY <1>3, <1>7, <1>8, <1>9
      <3> QED
        BY ONLY <2>1, <3>1, start \in Nat, m \in Nat, Join3Is
    <2> QED
      BY <2>1, <2>2
  <1>13. /\ r \in Seq(AnyText) /\ Len(r) = lines
         /\ \A i \in 1 .. lines : r[i] = IF i <= end THEN t[i] ELSE d[i - end]
    <2>1. /\ r \in Seq(AnyText) /\ Len(r) = Len(t) + Len(d)
          /\ \A i \in 1 .. Len(r) : r[i] = IF i <= Len(t) THEN t[i] ELSE d[i - Len(t)]
      <3>1. t \in Seq(AnyText) /\ d \in Seq(AnyText) /\ r = t \o d
        BY <1>3, <1>10, <1>12
      <3> QED
        BY ONLY <3>1, JoinIs
    <2> QED
      BY <1>2, <1>10, <1>12, <2>1
  <1>14. ASSUME NEW i \in 1 .. lines
         PROVE  r[i] = Content(h.raw)[i - 1]
    <2>1. PICK l : l = i - 1
      OBVIOUS
    <2>2. l \in 0 .. g.lines - 1
      BY ONLY <1>2, <1>6, <2>1, i \in 1 .. lines
    <2>3. CASE i <= start
      <3>1. i \in 1 .. end /\ i \in 1 .. start /\ l < start
        BY ONLY <1>6, <2>1, <2>3, i \in 1 .. lines
      <3>2. r[i] = t[i]
        BY <1>13, <3>1
      <3>3. r[i] = s[i]
        BY <1>7, <1>12, <2>3, <3>1, <3>2
      <3>4. s[i] = Content(g.raw)[l]
        BY <1>4, <2>1
      <3> QED
        BY <1>1, <2>1, <2>2, <3>1, <3>3, <3>4
    <2>4. CASE start < i /\ i <= m
      <3>1. PICK k, j : k = i - start /\ j = i + n
        OBVIOUS
      <3>2. k \in 1 .. end - start - n /\ j = start + n + k /\ j \in 1 .. lines /\ i <= end
            /\ j - 1 = l + n /\ start <= l /\ l < end - n
        BY ONLY <1>2, <1>11, <1>6, <2>1, <2>4, <3>1, i \in 1 .. lines, m \in Nat
      <3>3. r[i] = b[k]
        <4>1. i \in 1 .. end
          BY <3>2
        <4>2. r[i] = t[i]
          BY <1>13, <3>2
        <4> QED
          BY <1>12, <2>4, <3>1, <4>1, <4>2
      <3>4. r[i] = s[j]
        BY <1>8, <3>2, <3>3
      <3>5. r[i] = Content(g.raw)[l + n]
        BY <1>4, <3>2, <3>4
      <3> QED
        BY <1>1, <2>1, <2>2, <3>2, <3>5
    <2>5. CASE m < i /\ i <= end
      <3>1. PICK k : k = i - m
        OBVIOUS
      <3>2. k \in 1 .. n /\ end - n <= l /\ l < end
        BY ONLY <1>2, <1>11, <1>6, <2>1, <2>5, <3>1, i \in 1 .. lines, m \in Nat
      <3>3. r[i] = c[k]
        <4>1. i \in 1 .. end
          BY <2>5
        <4>2. r[i] = t[i]
          BY <1>13, <2>5
        <4> QED
          BY <1>12, <2>5, <3>1, <4>1, <4>2
      <3> QED
        BY <1>1, <1>9, <2>1, <2>2, <3>2, <3>3
    <2>6. CASE end < i
      <3>1. PICK k : k = i - end
        OBVIOUS
      <3>2. k \in 1 .. lines - end /\ i = end + k /\ l >= end
        BY ONLY <1>2, <1>6, <2>1, <2>6, <3>1, i \in 1 .. lines
      <3>3. r[i] = d[k]
        BY <1>13, <2>6, <3>1
      <3>4. r[i] = s[i]
        BY <1>10, <3>2, <3>3
      <3> QED
        BY <1>1, <1>4, <2>1, <2>2, <3>2, <3>4
    <2> QED
      BY <1>11, <2>3, <2>4, <2>5, <2>6
  <1>15. Shown(h) = r
    BY <1>2, <1>13, <1>14, ShownAs
  <1> QED
    BY <1>3, <1>15 DEF ScreenUp

(* or moved down by n. *)
LinesDown(g, h, start, end, n) ==
    \A l \in 0 .. g.lines - 1 :
        /\ l < start \/ l >= end => Content(h.raw)[l] = Content(g.raw)[l]
        /\ start <= l /\ l < start + n => Content(h.raw)[l] = Blank
        /\ start + n <= l /\ l < end => Content(h.raw)[l] = Content(g.raw)[l - n]

ScreenDown(s, start, end, n) ==
    SubSeq(s, 1, start) \o Text!Blanks(n) \o SubSeq(s, start + 1, end - n)
        \o SubSeq(s, end + 1, Len(s))

LEMMA RegionDownText ==
    ASSUME NEW g, GridOK(g), NEW h, GridOK(h), h.lines = g.lines,
           NEW start \in Nat, NEW end \in Nat, NEW n \in Nat,
           start < end, end <= g.lines, n <= end - start,
           LinesDown(g, h, start, end, n)
    PROVE  Shown(h) = ScreenDown(Shown(g), start, end, n)
  <1>1. \A l \in 0 .. g.lines - 1 :
              /\ l < start \/ l >= end => Content(h.raw)[l] = Content(g.raw)[l]
              /\ start <= l /\ l < start + n => Content(h.raw)[l] = Blank
              /\ start + n <= l /\ l < end => Content(h.raw)[l] = Content(g.raw)[l - n]
    BY DEF LinesDown
  <1>2. PICK lines \in Nat : lines = g.lines /\ end <= lines
    BY GridFields
  <1>3. PICK s, a, b, c, d, t, r :
            /\ s = Shown(g) /\ a = SubSeq(s, 1, start) /\ b = Text!Blanks(n)
            /\ c = SubSeq(s, start + 1, end - n) /\ d = SubSeq(s, end + 1, Len(s))
            /\ t = a \o b \o c /\ r = t \o d
    OBVIOUS
  <1>4. /\ s \in Seq(AnyText) /\ Len(s) = lines
        /\ \A i \in 1 .. lines : s[i] = Content(g.raw)[i - 1]
    BY <1>2, <1>3, ShownIs
  <1>5. PICK one, low, mid, high : one = 1 /\ low = start + 1 /\ mid = end - n /\ high = end + 1
    OBVIOUS
  <1>6. /\ start \in Nat /\ end \in Nat /\ n \in Nat /\ lines \in Nat
         /\ start < end /\ n <= end - start
    OBVIOUS
  <1>7. a \in Seq(AnyText) /\ Len(a) = start /\ \A i \in 1 .. start : a[i] = s[i]
    <2>1. /\ one \in Nat /\ 1 <= one /\ start <= Len(s) /\ one <= start + 1
          /\ a = SubSeq(s, one, start)
      <3>1. Len(s) = lines
        BY <1>4
      <3>2. one \in Nat /\ 1 <= one /\ start <= Len(s) /\ one <= start + 1
        BY ONLY <1>2, <1>5, <1>6, <3>1
      <3>3. a = SubSeq(s, one, start)
        BY ONLY <1>3, <1>5, <3>1
      <3> QED
        BY ONLY <3>2, <3>3
    <2>2. /\ a \in Seq(AnyText) /\ Len(a) = start + 1 - one
          /\ \A i \in 1 .. Len(a) : a[i] = s[one + i - 1]
      BY <1>4, <2>1, PartIs
    <2> QED
      BY <1>5, <2>2
  <1>8. b \in Seq(AnyText) /\ Len(b) = n /\ \A i \in 1 .. n : b[i] = Blank
    BY <1>3, BlanksAre
  <1>9. /\ c \in Seq(AnyText) /\ Len(c) = end - start - n
        /\ \A i \in 1 .. end - start - n : c[i] = s[start + i]
    <2>1. /\ low \in Nat /\ mid \in Nat /\ 1 <= low /\ mid <= Len(s) /\ low <= mid + 1
          /\ c = SubSeq(s, low, mid)
      <3>1. Len(s) = lines
        BY <1>4
      <3>2. low \in Nat /\ mid \in Nat /\ 1 <= low /\ mid <= Len(s) /\ low <= mid + 1
        BY ONLY <1>2, <1>5, <1>6, <3>1
      <3>3. c = SubSeq(s, low, mid)
        BY ONLY <1>3, <1>5, <3>1
      <3> QED
        BY ONLY <3>2, <3>3
    <2>2. /\ c \in Seq(AnyText) /\ Len(c) = mid + 1 - low
          /\ \A i \in 1 .. Len(c) : c[i] = s[low + i - 1]
      BY <1>4, <2>1, PartIs
    <2>3. Len(c) = end - start - n
      <3>1. Len(c) = mid + 1 - low
        BY <2>2
      <3> QED
        BY ONLY <1>2, <1>5, <1>6, <3>1, lines \in Nat
    <2>4. ASSUME NEW i \in 1 .. end - start - n PROVE low + i - 1 = start + i
      BY <1>5
    <2> QED
      BY <2>2, <2>3, <2>4
  <1>10. /\ d \in Seq(AnyText) /\ Len(d) = lines - end
        /\ \A i \in 1 .. lines - end : d[i] = s[end + i]
    <2>1. /\ high \in Nat /\ 1 <= high /\ lines <= Len(s) /\ high <= lines + 1
          /\ d = SubSeq(s, high, lines)
      <3>1. Len(s) = lines
        BY <1>4
      <3>2. high \in Nat /\ 1 <= high /\ lines <= Len(s) /\ high <= lines + 1
        BY ONLY <1>2, <1>5, <1>6, <3>1
      <3>3. d = SubSeq(s, high, lines)
        BY ONLY <1>3, <1>5, <3>1
      <3> QED
        BY ONLY <3>2, <3>3
    <2>2. /\ d \in Seq(AnyText) /\ Len(d) = lines + 1 - high
          /\ \A i \in 1 .. Len(d) : d[i] = s[high + i - 1]
      BY <1>4, <2>1, PartIs
    <2>3. Len(d) = lines - end
      <3>1. Len(d) = lines + 1 - high
        BY <2>2
      <3> QED
        BY ONLY <1>2, <1>5, <1>6, <3>1, lines \in Nat
    <2>4. ASSUME NEW i \in 1 .. lines - end PROVE high + i - 1 = end + i
      BY <1>5
    <2> QED
      BY <2>2, <2>3, <2>4
  <1>11. PICK m \in Nat : m = start + n
    OBVIOUS
  <1>12. /\ t \in Seq(AnyText) /\ Len(t) = end
         /\ \A i \in 1 .. end :
               /\ i <= start => t[i] = a[i]
               /\ start < i /\ i <= m => t[i] = b[i - start]
               /\ m < i => t[i] = c[i - m]
    <2>1. m = Len(a) + Len(b) /\ start = Len(a) /\ end = m + Len(c)
      BY <1>7, <1>8, <1>9, <1>11
    <2>2. /\ t \in Seq(AnyText) /\ Len(t) = m + Len(c)
          /\ \A i \in 1 .. Len(t) :
                /\ i <= start => t[i] = a[i]
                /\ start < i /\ i <= m => t[i] = b[i - start]
                /\ m < i => t[i] = c[i - m]
      <3>1. /\ a \in Seq(AnyText) /\ b \in Seq(AnyText) /\ c \in Seq(AnyText)
            /\ t = a \o b \o c
        BY <1>3, <1>7, <1>8, <1>9
      <3> QED
        BY ONLY <2>1, <3>1, start \in Nat, m \in Nat, Join3Is
    <2> QED
      BY <2>1, <2>2
  <1>13. /\ r \in Seq(AnyText) /\ Len(r) = lines
         /\ \A i \in 1 .. lines : r[i] = IF i <= end THEN t[i] ELSE d[i - end]
    <2>1. /\ r \in Seq(AnyText) /\ Len(r) = Len(t) + Len(d)
          /\ \A i \in 1 .. Len(r) : r[i] = IF i <= Len(t) THEN t[i] ELSE d[i - Len(t)]
      <3>1. t \in Seq(AnyText) /\ d \in Seq(AnyText) /\ r = t \o d
        BY <1>3, <1>10, <1>12
      <3> QED
        BY ONLY <3>1, JoinIs
    <2> QED
      BY <1>2, <1>10, <1>12, <2>1
  <1>14. ASSUME NEW i \in 1 .. lines
         PROVE  r[i] = Content(h.raw)[i - 1]
    <2>1. PICK l : l = i - 1
      OBVIOUS
    <2>2. l \in 0 .. g.lines - 1
      BY ONLY <1>2, <1>6, <2>1, i \in 1 .. lines
    <2>3. CASE i <= start
      <3>1. i \in 1 .. end /\ i \in 1 .. start /\ l < start
        BY ONLY <1>6, <2>1, <2>3, i \in 1 .. lines
      <3>2. r[i] = t[i]
        BY <1>13, <3>1
      <3>3. r[i] = s[i]
        BY <1>7, <1>12, <2>3, <3>1, <3>2
      <3>4. s[i] = Content(g.raw)[l]
        BY <1>4, <2>1
      <3> QED
        BY <1>1, <2>1, <2>2, <3>1, <3>3, <3>4
    <2>4. CASE start < i /\ i <= m
      <3>1. PICK k : k = i - start
        OBVIOUS
      <3>2. k \in 1 .. n /\ start <= l /\ l < start + n /\ i <= end
        BY ONLY <1>2, <1>11, <1>6, <2>1, <2>4, <3>1, i \in 1 .. lines, m \in Nat
      <3>3. r[i] = b[k]
        <4>1. i \in 1 .. end
          BY <3>2
        <4>2. r[i] = t[i]
          BY <1>13, <3>2
        <4> QED
          BY <1>12, <2>4, <3>1, <4>1, <4>2
      <3> QED
        BY <1>1, <1>8, <2>1, <2>2, <3>2, <3>3
    <2>5. CASE m < i /\ i <= end
      <3>1. PICK k, j : k = i - m /\ j = i - n
        OBVIOUS
      <3>2. k \in 1 .. end - start - n /\ j = start + k /\ j \in 1 .. lines
            /\ j - 1 = l - n /\ start + n <= l /\ l < end
        BY ONLY <1>2, <1>11, <1>6, <2>1, <2>5, <3>1, i \in 1 .. lines, m \in Nat
      <3>3. r[i] = c[k]
        <4>1. i \in 1 .. end
          BY <2>5
        <4>2. r[i] = t[i]
          BY <1>13, <2>5
        <4> QED
          BY <1>12, <2>5, <3>1, <4>1, <4>2
      <3>4. r[i] = s[j]
        BY <1>9, <3>2, <3>3
      <3>5. r[i] = Content(g.raw)[l - n]
        BY <1>4, <3>2, <3>4
      <3> QED
        BY <1>1, <2>1, <2>2, <3>2, <3>5
    <2>6. CASE end < i
      <3>1. PICK k : k = i - end
        OBVIOUS
      <3>2. k \in 1 .. lines - end /\ i = end + k /\ l >= end
        BY ONLY <1>2, <1>6, <2>1, <2>6, <3>1, i \in 1 .. lines
      <3>3. r[i] = d[k]
        BY <1>13, <2>6, <3>1
      <3>4. r[i] = s[i]
        BY <1>10, <3>2, <3>3
      <3> QED
        BY <1>1, <1>4, <2>1, <2>2, <3>2, <3>4
    <2> QED
      BY <1>11, <2>3, <2>4, <2>5, <2>6
  <1>15. Shown(h) = r
    BY <1>2, <1>13, <1>14, ShownAs
  <1> QED
    BY <1>3, <1>15 DEF ScreenDown

(* The two halves of a line number: on the screen, or in history. *)
LEMMA ScreenLine ==
    ASSUME NEW g, GridOK(g), NEW l \in 0 .. g.lines - 1
    PROVE  l \in Lines(g.raw)
  <1>1. PICK hist \in Nat : hist = HistorySize(g)
    BY HistoryFacts
  <1>2. g.lines \in Nat
    BY GridFields
  <1>3. l \in Int /\ 0 - hist <= l /\ l < g.lines
    BY <1>1, <1>2
  <1> QED
    BY <1>1, <1>3, GridLines

LEMMA SizeSame ==
    ASSUME NEW g, GridOK(g), NEW h, GridOK(h), h.lines = g.lines, NEW k \in Nat,
           h.raw.len = g.raw.len + k
    PROVE  HistorySize(h) = HistorySize(g) + k
  <1>1. g.raw.len \in Nat /\ g.lines \in Nat
    BY GridFields, HistoryFacts
  <1> QED
    BY <1>1 DEF HistorySize

(* What scroll_up does to the two sequences. *)
LEMMA ScrollUpText ==
    ASSUME NEW g, GridOK(g), NEW start \in Nat, NEW end \in Nat, NEW n \in Nat,
           start < end, end <= g.lines, start = 0 => n <= end,
           NEW h, h = scroll_up(g, start, end, n), GridOK(h),
           NEW k, k = AtMost(n, end - start)
    PROVE  /\ Shown(h) = ScreenUp(Shown(g), start, end, k)
           /\ start = 0 =>
                Kept(h) = Text!Newest(Kept(g) \o SubSeq(Shown(g), 1, k), g.max_scroll_limit)
           /\ start # 0 => Kept(h) = Kept(g)
  <1>1. /\ g.lines \in Nat /\ g.max_scroll_limit \in Nat
    BY GridFields
  <1>2. k \in Nat /\ k <= end - start /\ k <= g.lines
    BY <1>1 DEF AtMost
  <1>3. h.lines = g.lines
    BY ScrollUpOK DEF SameFrame
  <1>4. DOMAIN Content(h.raw) = Lines(h.raw)
    BY DEF Content
  <1>5. CASE start = 0
    <2>1. n = k
      BY <1>5 DEF AtMost
    <2>2. /\ h.raw.len = g.raw.len + AtMost(n, g.max_scroll_limit - HistorySize(g))
          /\ UpFromTop(Content(g.raw), Content(h.raw), end, n)
      BY <1>5, ScrollUpContent
    <2>3. ASSUME NEW l \in 0 .. g.lines - 1
          PROVE  /\ l < start \/ l >= end => Content(h.raw)[l] = Content(g.raw)[l]
                 /\ start <= l /\ l < end - k => Content(h.raw)[l] = Content(g.raw)[l + k]
                 /\ end - k <= l /\ l < end => Content(h.raw)[l] = Blank
      <3>1. l \in DOMAIN Content(h.raw)
        BY <1>3, <1>4, ScreenLine
      <3>2. ~(l < start)
        BY <1>5
      <3> QED
        BY <2>1, <2>2, <3>1, <3>2 DEF UpFromTop
    <2>4. Shown(h) = ScreenUp(Shown(g), start, end, k)
      <3>1. LinesUp(g, h, start, end, k)
        BY <2>3 DEF LinesUp
      <3> QED
        BY <1>2, <1>3, <3>1, RegionUpText
    <2>5. PICK more : more = AtMost(k, g.max_scroll_limit - HistorySize(g))
      OBVIOUS
    <2>6. more \in Nat
      <3>1. HistorySize(g) \in Nat /\ HistorySize(g) <= g.max_scroll_limit
        BY HistoryFacts
      <3> QED
        BY <1>1, <1>2, <2>5, <3>1 DEF AtMost
    <2>7. HistorySize(h) = HistorySize(g) + more
      BY <1>3, <2>1, <2>2, <2>5, <2>6, SizeSame
    <2>8. ASSUME NEW l \in Lines(h.raw), l < 0
          PROVE  Content(h.raw)[l] = Content(g.raw)[l + k]
      <3>1. l \in Int
        BY <1>3, LinesAre DEF GridOK
      <3>2. l < end - k
        BY ONLY <1>2, <1>5, <2>8, <3>1, start \in Nat, end \in Nat
      <3> QED
        BY <1>4, <2>1, <2>2, <3>2 DEF UpFromTop
    <2>9. Kept(h) = Text!Newest(Kept(g) \o SubSeq(Shown(g), 1, k), g.max_scroll_limit)
      BY <1>2, <2>5, <2>7, <2>8, RetireIs
    <2> QED
      BY <1>5, <2>4, <2>9
  <1>6. CASE start # 0
    <2>1. /\ h.raw.len = g.raw.len
          /\ UpInRegion(Content(g.raw), Content(h.raw), start, end, k)
      BY <1>6, ScrollUpContent
    <2>2. ASSUME NEW l \in 0 .. g.lines - 1
          PROVE  /\ l < start \/ l >= end => Content(h.raw)[l] = Content(g.raw)[l]
                 /\ start <= l /\ l < end - k => Content(h.raw)[l] = Content(g.raw)[l + k]
                 /\ end - k <= l /\ l < end => Content(h.raw)[l] = Blank
      <3>1. l \in DOMAIN Content(h.raw)
        BY <1>3, <1>4, ScreenLine
      <3> QED
        BY <2>1, <3>1 DEF UpInRegion
    <2>3. Shown(h) = ScreenUp(Shown(g), start, end, k)
      <3>1. LinesUp(g, h, start, end, k)
        BY <2>2 DEF LinesUp
      <3> QED
        BY <1>2, <1>3, <3>1, RegionUpText
    <2>4. HistorySize(h) = HistorySize(g)
      BY <1>3, <2>1 DEF HistorySize
    <2>5. ASSUME NEW l \in Lines(h.raw), l < 0
          PROVE  Content(h.raw)[l] = Content(g.raw)[l]
      <3>1. l \in Int
        BY <1>3, LinesAre DEF GridOK
      <3>2. l < start
        BY <2>5, <3>1
      <3> QED
        BY <1>4, <2>1, <3>2 DEF UpInRegion
    <2>6. Kept(h) = Kept(g)
      BY <2>4, <2>5, KeptSame
    <2> QED
      BY <1>6, <2>3, <2>6
  <1> QED
    BY <1>5, <1>6

LEMMA ScrollDownText ==
    ASSUME NEW g, GridOK(g), NEW start \in Nat, NEW end \in Nat, NEW n \in Nat,
           start < end, end <= g.lines, n <= end - start,
           NEW h, h = scroll_down(g, start, end, n), GridOK(h)
    PROVE  /\ Shown(h) = ScreenDown(Shown(g), start, end, n)
           /\ Kept(h) = Kept(g)
  <1>1. g.lines \in Nat
    BY GridFields
  <1>2. h.lines = g.lines
    BY ScrollDownOK DEF SameFrame
  <1>3. DOMAIN Content(h.raw) = Lines(h.raw)
    BY DEF Content
  <1>4. /\ h.raw.len = g.raw.len
        /\ DownInRegion(Content(g.raw), Content(h.raw), start, end, n)
    BY ScrollDownContent
  <1>5. ASSUME NEW l \in 0 .. g.lines - 1
        PROVE  /\ l < start \/ l >= end => Content(h.raw)[l] = Content(g.raw)[l]
               /\ start <= l /\ l < start + n => Content(h.raw)[l] = Blank
               /\ start + n <= l /\ l < end => Content(h.raw)[l] = Content(g.raw)[l - n]
    <2>1. l \in DOMAIN Content(h.raw)
      BY <1>2, <1>3, ScreenLine
    <2> QED
      BY <1>4, <2>1 DEF DownInRegion
  <1>6. Shown(h) = ScreenDown(Shown(g), start, end, n)
    <2>1. LinesDown(g, h, start, end, n)
      BY <1>5 DEF LinesDown
    <2> QED
      BY <1>2, <2>1, RegionDownText
  <1>7. HistorySize(h) = HistorySize(g)
    BY <1>2, <1>4 DEF HistorySize
  <1>8. ASSUME NEW l \in Lines(h.raw), l < 0
        PROVE  Content(h.raw)[l] = Content(g.raw)[l]
    <2>1. l \in Int
      BY <1>2, LinesAre DEF GridOK
    <2>2. l < start
      BY <1>8, <2>1
    <2> QED
      BY <1>3, <1>4, <2>2 DEF DownInRegion
  <1> QED
    BY <1>6, <1>7, <1>8, KeptSame

LEMMA WriteText ==
    ASSUME NEW g, GridOK(g), NEW line \in Nat, line < g.lines, NEW text \in TextValues,
           NEW h, h = write(g, line, text), GridOK(h), NEW j, j = line + 1
    PROVE  Shown(h) = [Shown(g) EXCEPT ![j] = text] /\ Kept(h) = Kept(g)
  <1>1. PICK lines \in Nat : lines = g.lines
    BY GridFields
  <1>2. /\ h.lines = lines /\ h.raw.len = g.raw.len
        /\ Content(h.raw) = Put(Content(g.raw), line, text)
    BY <1>1, WriteContent DEF SameFrame
  <1>3. ASSUME NEW l \in Lines(h.raw)
        PROVE  Content(h.raw)[l] = IF l = line THEN text ELSE Content(g.raw)[l]
    <2>1. DOMAIN Content(h.raw) = Lines(h.raw)
      BY DEF Content
    <2> QED
      BY <1>2, <2>1 DEF Put
  <1>4. PICK s, r : s = Shown(g) /\ r = [s EXCEPT ![j] = text]
    OBVIOUS
  <1>5. /\ s \in Seq(AnyText) /\ Len(s) = lines
        /\ \A i \in 1 .. lines : s[i] = Content(g.raw)[i - 1]
    BY <1>1, <1>4, ShownIs
  <1>6. j \in 1 .. Len(s) /\ text \in AnyText
    BY <1>1, <1>5 DEF AnyText
  <1>7. /\ r \in Seq(AnyText) /\ Len(r) = Len(s)
        /\ \A i \in 1 .. Len(s) : r[i] = IF i = j THEN text ELSE s[i]
    BY <1>4, <1>5, <1>6
  <1>8. ASSUME NEW i \in 1 .. lines
        PROVE  r[i] = Content(h.raw)[i - 1]
    <2>1. PICK l : l = i - 1
      OBVIOUS
    <2>2. l \in 0 .. h.lines - 1 /\ (i = j <=> l = line)
      BY <1>1, <1>2, <2>1
    <2>3. l \in Lines(h.raw)
      BY <2>2, ScreenLine
    <2> QED
      BY <1>3, <1>5, <1>7, <2>1, <2>2, <2>3
  <1>9. Shown(h) = r
    BY <1>2, <1>5, <1>7, <1>8, ShownAs
  <1>10. HistorySize(h) = HistorySize(g)
    BY <1>1, <1>2 DEF HistorySize
  <1>11. ASSUME NEW l \in Lines(h.raw), l < 0
         PROVE  Content(h.raw)[l] = Content(g.raw)[l]
    <2>1. l # line
      BY <1>11
    <2> QED
      BY <1>3, <2>1
  <1>12. Kept(h) = Kept(g)
    BY <1>10, <1>11, KeptSame
  <1> QED
    BY <1>4, <1>9, <1>12

LEMMA EraseText ==
    ASSUME NEW g, GridOK(g), NEW start \in Nat, NEW end \in Nat, start < end, end <= g.lines,
           NEW h, h = reset_region(g, start, end), GridOK(h)
    PROVE  /\ Shown(h) = [i \in DOMAIN Shown(g) |->
                            IF i - 1 \in start .. end - 1 THEN Blank ELSE Shown(g)[i]]
           /\ Kept(h) = Kept(g)
  <1>1. PICK lines \in Nat : lines = g.lines
    BY GridFields
  <1>2. /\ h.lines = lines /\ h.raw.len = g.raw.len
        /\ Content(h.raw) = Cleared(Content(g.raw), start, end)
    BY <1>1, ResetRegionContent DEF SameFrame
  <1>3. ASSUME NEW l \in Lines(h.raw)
        PROVE  Content(h.raw)[l] = IF start <= l /\ l < end THEN Blank ELSE Content(g.raw)[l]
    <2>1. DOMAIN Content(h.raw) = Lines(h.raw)
      BY DEF Content
    <2> QED
      BY <1>2, <2>1 DEF Cleared
  <1>4. PICK s : s = Shown(g)
    OBVIOUS
  <1>5. /\ s \in Seq(AnyText) /\ Len(s) = lines
        /\ \A i \in 1 .. lines : s[i] = Content(g.raw)[i - 1]
    BY <1>1, <1>4, ShownIs
  <1>6. DOMAIN s = 1 .. lines
    BY <1>5
  <1>7. PICK r : r = [i \in 1 .. lines |-> IF i - 1 \in start .. end - 1 THEN Blank ELSE s[i]]
    OBVIOUS
  <1>8. r \in Seq(AnyText) /\ Len(r) = lines
    <2>1. ASSUME NEW i \in 1 .. lines
          PROVE  (IF i - 1 \in start .. end - 1 THEN Blank ELSE s[i]) \in AnyText
      BY <1>5 DEF AnyText
    <2>2. r \in Seq(AnyText)
      BY <1>7, <2>1
    <2> QED
      BY <1>7, <2>2
  <1>9. ASSUME NEW i \in 1 .. lines
        PROVE  r[i] = Content(h.raw)[i - 1]
    <2>1. PICK l : l = i - 1
      OBVIOUS
    <2>2. l \in 0 .. h.lines - 1 /\ (i - 1 \in start .. end - 1 <=> start <= l /\ l < end)
      BY <1>1, <1>2, <2>1
    <2>3. l \in Lines(h.raw)
      BY <2>2, ScreenLine
    <2> QED
      BY <1>3, <1>5, <1>7, <2>1, <2>2, <2>3
  <1>10. Shown(h) = r
    BY <1>2, <1>8, <1>9, ShownAs
  <1>11. HistorySize(h) = HistorySize(g)
    BY <1>1, <1>2 DEF HistorySize
  <1>12. ASSUME NEW l \in Lines(h.raw), l < 0
         PROVE  Content(h.raw)[l] = Content(g.raw)[l]
    <2>1. l \in Int
      BY <1>2, LinesAre DEF GridOK
    <2>2. ~(start <= l)
      BY <1>12, <2>1
    <2> QED
      BY <1>3, <2>2
  <1>13. Kept(h) = Kept(g)
    BY <1>11, <1>12, KeptSame
  <1> QED
    BY <1>4, <1>6, <1>7, <1>10, <1>13

(* A screen of blank lines, and no history. *)
LEMMA ShownBlank ==
    ASSUME NEW h, GridOK(h), NEW n \in Nat, n = h.lines,
           \A l \in Lines(h.raw) : l >= 0 => Content(h.raw)[l] = Blank
    PROVE  Shown(h) = Text!Blanks(n)
  <1>1. PICK r : r = Text!Blanks(n)
    OBVIOUS
  <1>2. r \in Seq(AnyText) /\ Len(r) = n /\ \A i \in 1 .. n : r[i] = Blank
    BY <1>1, BlanksAre
  <1>3. ASSUME NEW i \in 1 .. n
        PROVE  r[i] = Content(h.raw)[i - 1]
    <2>1. PICK l : l = i - 1
      OBVIOUS
    <2>2. l \in 0 .. h.lines - 1 /\ l >= 0
      BY <2>1
    <2> QED
      BY <1>2, <2>1, <2>2, ScreenLine
  <1> QED
    BY <1>1, <1>2, <1>3, ShownAs

LEMMA KeptNone ==
    ASSUME NEW h, GridOK(h), HistorySize(h) = 0
    PROVE  Kept(h) = <<>>
  <1>1. Kept(h) \in Seq(AnyText) /\ Len(Kept(h)) = 0
    BY KeptIs
  <1> QED
    BY <1>1

LEMMA ClearHistoryText ==
    ASSUME NEW g, GridOK(g), NEW h, h = clear_history(g)
    PROVE  Shown(h) = Shown(g) /\ Kept(h) = <<>>
  <1>1. /\ GridOK(h) /\ SameFrame(g, h) /\ h.raw.len = g.lines
        /\ \A l \in Lines(h.raw) : l \in Lines(g.raw) /\ Content(h.raw)[l] = Content(g.raw)[l]
    BY ClearHistoryContent
  <1>2. PICK lines \in Nat : lines = g.lines
    BY GridFields
  <1>3. h.lines = lines
    BY <1>1, <1>2 DEF SameFrame
  <1>4. HistorySize(h) = 0
    BY <1>1, <1>2, <1>3 DEF HistorySize
  <1>5. PICK s : s = Shown(g)
    OBVIOUS
  <1>6. /\ s \in Seq(AnyText) /\ Len(s) = lines
        /\ \A i \in 1 .. lines : s[i] = Content(g.raw)[i - 1]
    BY <1>2, <1>5, ShownIs
  <1>7. ASSUME NEW i \in 1 .. lines
        PROVE  s[i] = Content(h.raw)[i - 1]
    <2>1. PICK l : l = i - 1
      OBVIOUS
    <2>2. l \in 0 .. h.lines - 1
      BY <1>3, <2>1
    <2>3. l \in Lines(h.raw)
      BY <1>1, <2>2, ScreenLine
    <2> QED
      BY <1>1, <1>6, <2>1, <2>3
  <1>8. Shown(h) = s
    BY <1>1, <1>3, <1>6, <1>7, ShownAs
  <1> QED
    BY <1>1, <1>4, <1>5, <1>8, KeptNone

LEMMA ResetText ==
    ASSUME NEW g, GridOK(g), NEW h, h = reset(g), GridOK(h), NEW n, n = g.lines
    PROVE  Shown(h) = Text!Blanks(n) /\ Kept(h) = <<>>
  <1>1. /\ h.raw.len = g.lines /\ h.lines = g.lines
        /\ \A l \in Lines(h.raw) : Content(h.raw)[l] = Blank
    BY ResetContent
  <1>2. n \in Nat
    BY GridFields
  <1>3. HistorySize(h) = 0
    BY <1>1, <1>2 DEF HistorySize
  <1> QED
    BY <1>1, <1>2, <1>3, ShownBlank, KeptNone

LEMMA ClearViewportText ==
    ASSUME NEW g, GridOK(g), NEW used, used = UsedLines(g),
           NEW h, h = clear_viewport(g), GridOK(h), NEW n, n = g.lines
    PROVE  /\ Shown(h) = Text!Blanks(n)
           /\ Kept(h) = Text!Newest(Kept(g) \o SubSeq(Shown(g), 1, used), g.max_scroll_limit)
  <1>1. /\ SameFrame(g, h)
        /\ h.raw.len = g.raw.len + AtMost(used, g.max_scroll_limit - HistorySize(g))
        /\ \A l \in Lines(h.raw) :
              /\ l < 0 => l + used \in Lines(g.raw) /\ Content(h.raw)[l] = Content(g.raw)[l + used]
              /\ l >= 0 => Content(h.raw)[l] = Blank
    BY ClearViewportContent
  <1>2. n \in Nat /\ g.max_scroll_limit \in Nat /\ h.lines = n
    BY <1>1, GridFields DEF SameFrame
  <1>3. used \in Nat /\ used <= g.lines
    BY <1>2, UsedLinesBound
  <1>4. PICK more : more = AtMost(used, g.max_scroll_limit - HistorySize(g))
    OBVIOUS
  <1>5. more \in Nat
    <2>1. HistorySize(g) \in Nat /\ HistorySize(g) <= g.max_scroll_limit
      BY HistoryFacts
    <2> QED
      BY <1>2, <1>3, <1>4, <2>1 DEF AtMost
  <1>6. HistorySize(h) = HistorySize(g) + more
    BY <1>1, <1>2, <1>4, <1>5, SizeSame
  <1>7. Kept(h) = Text!Newest(Kept(g) \o SubSeq(Shown(g), 1, used), g.max_scroll_limit)
    BY <1>1, <1>3, <1>4, <1>6, RetireIs
  <1>8. Shown(h) = Text!Blanks(n)
    BY <1>1, <1>2, ShownBlank
  <1> QED
    BY <1>7, <1>8

(* The last line with content, on the grid and in its texts. *)
LEMMA UsedIs ==
    ASSUME NEW g, GridOK(g), NEW last, last = SelectLastInSeq(Shown(g), LAMBDA t : t # Blank)
    PROVE  UsedLines(g) = IF last = 0 /\ HistorySize(g) = 0 THEN 1 ELSE last
  <1>1. PICK n \in Nat : n = g.lines
    BY GridFields
  <1>2. PICK rs, s : rs = ScreenRows(g) /\ s = Shown(g)
    OBVIOUS
  <1>3. Len(rs) = n
    BY <1>1, <1>2 DEF ScreenRows
  <1>4. Len(s) = n /\ \A i \in 1 .. n : s[i] = rs[i].text
    BY <1>2, <1>3 DEF Shown, Texts
  <1>5. {i \in 1 .. Len(rs) : rs[i].text # Blank} = {i \in 1 .. Len(s) : s[i] # Blank}
    BY <1>3, <1>4
  <1>6. PICK I : I = {i \in 1 .. Len(s) : s[i] # Blank}
    OBVIOUS
  <1>7. last = IF I # {} THEN Max(I) ELSE 0
    BY <1>2, <1>6 DEF SelectLastInSeq
  <1>8. SelectLastInSeq(ScreenRows(g), LAMBDA r : r.text # Blank) = IF I # {} THEN Max(I) ELSE 0
    BY <1>2, <1>5, <1>6 DEF SelectLastInSeq
  <1> QED
    BY <1>7, <1>8 DEF UsedLines

(* What growing and shrinking do to the two sequences. *)
Grown(g, h, added, pulled, hist) ==
    /\ Shown(h) = Text!Newest(Kept(g), pulled) \o Shown(g) \o Text!Blanks(added - pulled)
    /\ Kept(h) = SubSeq(Kept(g), 1, hist - pulled)
    /\ h.cursor = g.cursor + pulled /\ h.max_scroll_limit = g.max_scroll_limit

Cut(g, h, target, over) ==
    /\ Shown(h) = SubSeq(Shown(g), over + 1, over + target)
    /\ Kept(h) = Text!Newest(Kept(g) \o SubSeq(Shown(g), 1, over), g.max_scroll_limit)
    /\ h.cursor = g.cursor - over /\ h.max_scroll_limit = g.max_scroll_limit

LEMMA GrowText ==
    ASSUME NEW g, GridOK(g), NEW target \in 1 .. MaxLines, g.lines < target,
           NEW h, h = grow_lines(g, target),
           NEW added, added = target - g.lines,
           NEW pulled, pulled = AtMost(added, HistorySize(g)),
           NEW hist, hist = HistorySize(g)
    PROVE  Grown(g, h, added, pulled, hist)
  <1>1. PICK lines \in Nat : lines = g.lines
    BY GridFields
  <1>2. hist \in Nat /\ target \in Nat /\ 1 <= target /\ lines < target /\ added = target - lines
    BY <1>1, HistoryFacts, GridConstantsAssumption
  <1>3. /\ added \in Nat /\ pulled \in Nat /\ pulled <= added /\ pulled <= hist
        /\ pulled = AtMost(HistorySize(g), added)
    BY <1>1, <1>2 DEF AtMost
  <1>4. /\ GridOK(h) /\ h.lines = target /\ h.max_scroll_limit = g.max_scroll_limit
        /\ h.cursor = g.cursor + pulled
        /\ HistorySize(h) = HistorySize(g) - pulled
        /\ \A l \in Lines(h.raw) :
              /\ l < target - (added - pulled) =>
                     l - pulled \in Lines(g.raw) /\ Content(h.raw)[l] = Content(g.raw)[l - pulled]
              /\ l >= target - (added - pulled) => Content(h.raw)[l] = Blank
    BY <1>3, GrowLinesContent
  <1>5. PICK m, rest : m = lines + pulled /\ rest = added - pulled
    OBVIOUS
  <1>6. m \in Nat /\ rest \in Nat /\ m + rest = target /\ target - (added - pulled) = m
    BY <1>1, <1>2, <1>3, <1>5
  <1>7. ASSUME NEW l \in Lines(h.raw)
        PROVE  /\ l < m => Content(h.raw)[l] = Content(g.raw)[l - pulled]
               /\ l >= m => Content(h.raw)[l] = Blank
    BY <1>4, <1>6
  <1>8. PICK k, s, a, b, r, u :
            /\ k = Kept(g) /\ s = Shown(g) /\ a = Text!Newest(k, pulled) /\ b = Text!Blanks(rest)
            /\ r = a \o s \o b /\ u = SubSeq(k, 1, hist - pulled)
    OBVIOUS
  <1>9. /\ k \in Seq(AnyText) /\ Len(k) = hist
        /\ \A i \in 1 .. hist : k[i] = Content(g.raw)[i - 1 - hist]
    BY <1>8, KeptIs
  <1>10. /\ s \in Seq(AnyText) /\ Len(s) = lines
         /\ \A i \in 1 .. lines : s[i] = Content(g.raw)[i - 1]
    BY <1>1, <1>8, ShownIs
  <1>11. /\ a \in Seq(AnyText) /\ Len(a) = pulled
         /\ \A i \in 1 .. pulled : a[i] = k[hist - pulled + i]
    <2>1. k \in Seq(AnyText) /\ pulled \in Nat /\ a = Text!Newest(k, pulled)
      BY <1>3, <1>8, <1>9
    <2>2. a \in Seq(AnyText) /\ Len(a) = AtMost(Len(k), pulled)
      BY ONLY <2>1, NewestIs
    <2>3. \A i \in 1 .. Len(a) : a[i] = k[Len(k) - Len(a) + i]
      BY ONLY <2>1, NewestIs
    <2>4. AtMost(Len(k), pulled) = pulled
      BY <1>2, <1>3, <1>9 DEF AtMost
    <2> QED
      BY <1>9, <2>2, <2>3, <2>4
  <1>12. b \in Seq(AnyText) /\ Len(b) = rest /\ \A i \in 1 .. rest : b[i] = Blank
    BY <1>6, <1>8, BlanksAre
  <1>13. /\ r \in Seq(AnyText) /\ Len(r) = target
         /\ \A i \in 1 .. target :
               /\ i <= pulled => r[i] = a[i]
               /\ pulled < i /\ i <= m => r[i] = s[i - pulled]
               /\ m < i => r[i] = b[i - m]
    <2>1. m = Len(a) + Len(s) /\ pulled = Len(a) /\ target = m + Len(b)
      <3>1. Len(a) = pulled /\ Len(s) = lines /\ Len(b) = rest
        BY <1>10, <1>11, <1>12
      <3>2. pulled \in Nat
        BY <1>3
      <3> QED
        BY ONLY <1>1, <1>5, <1>6, <3>1, <3>2, lines \in Nat
    <2>2. /\ r \in Seq(AnyText) /\ Len(r) = m + Len(b)
          /\ \A i \in 1 .. Len(r) :
                /\ i <= pulled => r[i] = a[i]
                /\ pulled < i /\ i <= m => r[i] = s[i - pulled]
                /\ m < i => r[i] = b[i - m]
      <3>1. /\ a \in Seq(AnyText) /\ s \in Seq(AnyText) /\ b \in Seq(AnyText)
            /\ r = a \o s \o b /\ pulled \in Nat /\ m \in Nat
        BY <1>3, <1>6, <1>8, <1>10, <1>11, <1>12
      <3> QED
        BY ONLY <2>1, <3>1, Join3Is
    <2> QED
      BY <2>1, <2>2
  <1>14. ASSUME NEW i \in 1 .. target
         PROVE  r[i] = Content(h.raw)[i - 1]
    <2>1. PICK l : l = i - 1
      OBVIOUS
    <2>2. l \in 0 .. h.lines - 1 /\ l \in Int
      BY <1>2, <1>4, <2>1
    <2>3. l \in Lines(h.raw)
      BY <1>4, <2>2, ScreenLine
    <2>4. CASE i <= pulled
      <3>1. PICK j : j = hist - pulled + i
        OBVIOUS
      <3>2. j \in 1 .. hist /\ j - 1 - hist = l - pulled /\ i \in 1 .. pulled /\ l < m
        BY ONLY <1>1, <1>2, <1>3, <1>5, <2>1, <2>4, <3>1, i \in 1 .. target
      <3>3. r[i] = k[j]
        BY <1>11, <1>13, <2>4, <3>1, <3>2
      <3>4. r[i] = Content(g.raw)[l - pulled]
        BY <1>9, <3>2, <3>3
      <3> QED
        BY <1>7, <2>1, <2>3, <3>2, <3>4
    <2>5. CASE pulled < i /\ i <= m
      <3>1. PICK j : j = i - pulled
        OBVIOUS
      <3>2. j \in 1 .. lines /\ j - 1 = l - pulled /\ l < m
        BY ONLY <1>1, <1>2, <1>3, <1>5, <2>1, <2>5, <3>1, i \in 1 .. target
      <3>3. r[i] = s[j]
        BY <1>13, <2>5, <3>1
      <3>4. r[i] = Content(g.raw)[l - pulled]
        BY <1>10, <3>2, <3>3
      <3> QED
        BY <1>7, <2>1, <2>3, <3>2, <3>4
    <2>6. CASE m < i
      <3>1. PICK j : j = i - m
        OBVIOUS
      <3>2. j \in 1 .. rest /\ l >= m
        BY ONLY <1>2, <1>6, <2>1, <2>6, <3>1, i \in 1 .. target
      <3>3. r[i] = b[j]
        BY <1>13, <2>6, <3>1
      <3> QED
        BY <1>7, <1>12, <2>1, <2>3, <3>2, <3>3
    <2> QED
      BY <1>6, <2>4, <2>5, <2>6, <1>3
  <1>15. Shown(h) = r
    BY <1>4, <1>13, <1>14, ShownAs
  <1>16. PICK left, one : left = hist - pulled /\ one = 1
    OBVIOUS
  <1>17. left \in Nat /\ left <= hist
    BY <1>2, <1>3, <1>16
  <1>18. u \in Seq(AnyText) /\ Len(u) = left /\ \A i \in 1 .. left : u[i] = k[i]
    <2>1. /\ one \in Nat /\ 1 <= one /\ left <= Len(k) /\ one <= left + 1
          /\ u = SubSeq(k, one, left)
      BY <1>8, <1>9, <1>16, <1>17
    <2>2. /\ u \in Seq(AnyText) /\ Len(u) = left + 1 - one
          /\ \A i \in 1 .. Len(u) : u[i] = k[one + i - 1]
      <3>1. k \in Seq(AnyText) /\ left \in Nat
        BY <1>9, <1>17
      <3> QED
        BY ONLY <2>1, <3>1, PartIs
    <2> QED
      BY <1>16, <1>17, <2>2
  <1>19. HistorySize(h) = left
    BY <1>4, <1>16
  <1>20. ASSUME NEW i \in 1 .. left
         PROVE  u[i] = Content(h.raw)[i - 1 - left]
    <2>1. PICK l : l = i - 1 - left
      OBVIOUS
    <2>2. /\ l \in Int /\ l < 0 /\ 0 - left <= l /\ i - 1 - hist = l - pulled /\ i \in 1 .. hist
          /\ l < target /\ l < m
      <3>1. hist \in Nat /\ pulled \in Nat /\ pulled <= hist /\ left \in Nat
        BY <1>2, <1>3, <1>17
      <3>2. lines \in Nat /\ target \in Nat /\ lines < target
        BY <1>2
      <3>3. l \in Int /\ l < 0 /\ 0 - left <= l
        BY ONLY <2>1, <3>1, i \in 1 .. left
      <3>4. i - 1 - hist = l - pulled /\ i \in 1 .. hist
        BY ONLY <1>16, <2>1, <3>1, i \in 1 .. left
      <3>5. l < target /\ l < m
        BY ONLY <1>5, <3>1, <3>2, <3>3
      <3> QED
        BY ONLY <3>3, <3>4, <3>5
    <2>3. l \in Lines(h.raw)
      BY <1>4, <1>19, <2>2, GridLines
    <2>4. u[i] = Content(g.raw)[l - pulled]
      BY <1>9, <1>18, <2>2
    <2> QED
      BY <1>7, <2>1, <2>2, <2>3, <2>4
  <1>21. Kept(h) = u
    BY <1>4, <1>18, <1>19, <1>20, KeptAs
  <1> QED
    BY <1>4, <1>5, <1>8, <1>15, <1>21 DEF Grown

LEMMA ShrinkText ==
    ASSUME NEW g, GridOK(g), NEW target \in 1 .. MaxLines, target < g.lines,
           NEW h, h = shrink_grid_lines(g, target), GridOK(h),
           NEW over, over = IF g.cursor + 1 > target THEN g.cursor + 1 - target ELSE 0
    PROVE  Cut(g, h, target, over)
  <1>1. PICK lines \in Nat : lines = g.lines
    BY GridFields
  <1>2. /\ over \in Nat /\ over + target <= g.lines
        /\ h.lines = target /\ h.max_scroll_limit = g.max_scroll_limit
        /\ h.cursor = g.cursor - over
        /\ HistorySize(h) = HistorySize(g) + AtMost(over, g.max_scroll_limit - HistorySize(g))
        /\ \A l \in Lines(h.raw) :
              l + over \in Lines(g.raw) /\ Content(h.raw)[l] = Content(g.raw)[l + over]
    BY ShrinkLinesContent
  <1>3. target \in Nat /\ 1 <= target
    BY GridConstantsAssumption
  <1>4. over \in Nat /\ over <= g.lines
    BY <1>1, <1>2, <1>3
  <1>5. Kept(h) = Text!Newest(Kept(g) \o SubSeq(Shown(g), 1, over), g.max_scroll_limit)
    BY <1>2, <1>4, RetireIs
  <1>6. PICK s, r, low, high : /\ s = Shown(g) /\ low = over + 1 /\ high = over + target
                               /\ r = SubSeq(s, low, high)
    OBVIOUS
  <1>7. /\ s \in Seq(AnyText) /\ Len(s) = lines
        /\ \A i \in 1 .. lines : s[i] = Content(g.raw)[i - 1]
    BY <1>1, <1>6, ShownIs
  <1>8. low \in Nat /\ high \in Nat /\ 1 <= low /\ high <= Len(s) /\ low <= high + 1
    <2>1. Len(s) = lines /\ over \in Nat /\ over + target <= lines /\ target \in Nat /\ 1 <= target
      BY <1>1, <1>2, <1>3, <1>7
    <2>2. low = over + 1 /\ high = over + target
      BY <1>6
    <2> QED
      BY ONLY <2>1, <2>2, lines \in Nat
  <1>9. /\ r \in Seq(AnyText) /\ Len(r) = high + 1 - low
        /\ \A i \in 1 .. Len(r) : r[i] = s[low + i - 1]
    <2>1. s \in Seq(AnyText) /\ r = SubSeq(s, low, high)
      BY <1>6, <1>7
    <2> QED
      BY ONLY <1>8, <2>1, PartIs
  <1>10. Len(r) = target
    <2>1. low = over + 1 /\ high = over + target /\ Len(r) = high + 1 - low
      BY <1>6, <1>9
    <2>2. over \in Nat /\ target \in Nat
      BY <1>2, <1>3
    <2> QED
      BY ONLY <2>1, <2>2
  <1>11. ASSUME NEW i \in 1 .. target
         PROVE  r[i] = Content(h.raw)[i - 1]
    <2>1. PICK l, j : l = i - 1 /\ j = low + i - 1
      OBVIOUS
    <2>2. l \in 0 .. h.lines - 1 /\ j \in 1 .. lines /\ j - 1 = l + over
      <3>1. over \in Nat /\ over + target <= lines /\ target \in Nat /\ h.lines = target
        BY <1>1, <1>2, <1>3
      <3>2. low = over + 1
        BY <1>6
      <3> QED
        BY ONLY <2>1, <3>1, <3>2, lines \in Nat, i \in 1 .. target
    <2>3. l \in Lines(h.raw)
      BY <2>2, ScreenLine
    <2>4. r[i] = Content(g.raw)[l + over]
      BY <1>7, <1>9, <1>10, <2>1, <2>2
    <2> QED
      BY <1>2, <2>1, <2>3, <2>4
  <1>12. Shown(h) = r
    BY <1>2, <1>9, <1>10, <1>11, ShownAs
  <1> QED
    BY <1>2, <1>5, <1>6, <1>12 DEF Cut

-----------------------------------------------------------------------------
(* The grid implements the screen with history. *)

LEMMA TextInit ==
    Init => Text!Init
  <1>1. SUFFICES ASSUME Init PROVE Text!Init
    OBVIOUS
  <1>2. GridOK(grid)
    BY <1>1, GridInit DEF GridIInv
  <1>3. PICK lines \in 1 .. MaxLines, limit \in ScrollLimits : grid = new(lines, limit)
    BY <1>1 DEF Init
  <1>4. lines \in Nat /\ 1 <= lines
    BY GridConstantsAssumption
  <1>5. PICK g, q, z, r : /\ g = grid /\ q = [i \in 1 .. lines |-> BlankRow] /\ z = 0
                          /\ r = [inner |-> q, zero |-> z, visible_lines |-> lines, len |-> lines]
    OBVIOUS
  <1>6. g = [raw |-> r, lines |-> lines, display_offset |-> z,
             max_scroll_limit |-> limit, cursor |-> z, saved |-> z]
    BY <1>3, <1>5 DEF new, with_capacity
  <1>7. g.raw = r /\ g.lines = lines /\ g.cursor = 0 /\ r.len = lines /\ Len(q) = lines
    BY <1>4, <1>5, <1>6
  <1>8. HistorySize(g) = 0
    BY <1>4, <1>7 DEF HistorySize
  <1>9. Kept(g) = <<>>
    BY <1>2, <1>5, <1>8, KeptNone
  <1>10. ASSUME NEW l \in Lines(g.raw) PROVE Content(g.raw)[l] = Blank
    <2>1. Sound(g.raw)
      BY <1>2, <1>5, FitsFields DEF GridOK
    <2>2. compute_index(g.raw, l) + 1 \in 1 .. Len(g.raw.inner)
      BY <2>1, IndexInBounds
    <2>3. g.raw.inner = q
      BY <1>5, <1>7
    <2>4. RowAt(g.raw, l) = BlankRow
      BY <1>5, <1>7, <2>2, <2>3 DEF RowAt
    <2> QED
      BY <2>4 DEF Content, BlankRow
  <1>11. Shown(g) = Text!Blanks(lines) /\ Len(Shown(g)) = lines
    BY <1>2, <1>4, <1>5, <1>7, <1>10, ShownBlank, ShownIs
  <1> QED
    BY <1>5, <1>7, <1>9, <1>11 DEF Text!Init, Shown, Kept

(* The texts before and after a step. *)
LEMMA TextVariables ==
    /\ Texts(ScreenRows(grid)) = Shown(grid) /\ Texts(ScreenRows(grid))' = Shown(grid')
    /\ Texts(HistoryRows(grid)) = Kept(grid) /\ Texts(HistoryRows(grid))' = Kept(grid')
  BY DEF Shown, Kept

LEMMA TextWrite ==
    ASSUME GridOK(grid), GridOK(grid'), NEW l \in Nat, NEW t \in TextValues, Write(l, t)
    PROVE  Text!Write
  <1>1. /\ l < grid.lines /\ grid' = write(grid, l, t)
        /\ call' = [op |-> "write", line |-> l, text |-> t]
    BY DEF Write
  <1>2. PICK g, h, j : g = grid /\ h = grid' /\ j = l + 1
    OBVIOUS
  <1>3. Shown(h) = [Shown(g) EXCEPT ![j] = t] /\ Kept(h) = Kept(g)
    BY <1>1, <1>2, WriteText
  <1>4. h.max_scroll_limit = g.max_scroll_limit /\ h.cursor = g.cursor
    BY <1>1, <1>2, WriteContent DEF SameFrame
  <1>5. call'.op = "write" /\ call'.line + 1 = j /\ call'.text = t
    BY <1>1, <1>2
  <1> QED
    BY <1>2, <1>3, <1>4, <1>5, TextVariables DEF Text!Write

LEMMA TextMoveCursor ==
    ASSUME GridOK(grid), NEW r, Goto(r)
    PROVE  Text!MoveCursor
  <1>1. call' = [op |-> "goto"]
    BY DEF Goto
  <1>2. PICK saved \in {grid.saved, grid.cursor} :
            grid' = [grid EXCEPT !.cursor = r, !.saved = saved]
    BY DEF Goto
  <1>3. /\ grid'.raw = grid.raw /\ grid'.lines = grid.lines
        /\ grid'.max_scroll_limit = grid.max_scroll_limit
    BY <1>2 DEF GridOK, GridType
  <1>4. PICK g, h : g = grid /\ h = grid'
    OBVIOUS
  <1>5. h.raw = g.raw /\ h.lines = g.lines /\ h.max_scroll_limit = g.max_scroll_limit
    BY <1>3, <1>4
  <1>6. Shown(h) = Shown(g) /\ Kept(h) = Kept(g)
    BY <1>5 DEF Shown, Kept, ScreenRows, HistoryRows, HistorySize
  <1>7. call'.op = "goto"
    BY <1>1
  <1> QED
    BY <1>4, <1>5, <1>6, <1>7, TextVariables DEF Text!MoveCursor

LEMMA TextView ==
    ASSUME GridOK(grid), NEW d \in Int, ScrollDisplay(d)
    PROVE  Text!View
  <1>1. grid' = scroll_display(grid, d) /\ call' = [op |-> "view"]
    BY DEF ScrollDisplay
  <1>2. PICK g, h, off : /\ g = grid /\ h = grid'
                         /\ h = [g EXCEPT !.display_offset = off]
    BY <1>1 DEF scroll_display
  <1>3. /\ h.raw = g.raw /\ h.lines = g.lines
        /\ h.max_scroll_limit = g.max_scroll_limit /\ h.cursor = g.cursor
    BY <1>2 DEF GridOK, GridType
  <1>4. Shown(h) = Shown(g) /\ Kept(h) = Kept(g)
    BY <1>3 DEF Shown, Kept, ScreenRows, HistoryRows, HistorySize
  <1>5. call'.op = "view"
    BY <1>1
  <1> QED
    BY <1>2, <1>3, <1>4, <1>5, TextVariables DEF Text!View

LEMMA TextScrollUp ==
    ASSUME GridOK(grid), GridOK(grid'), NEW s \in Nat, NEW e \in Nat, NEW n \in Nat,
           ScrollUp(s, e, n)
    PROVE  Text!ScrollUp
  <1>1. /\ s < e /\ e <= grid.lines /\ (s = 0 => n <= e) /\ grid' = scroll_up(grid, s, e, n)
        /\ call' = [op |-> "scroll_up", start |-> s, end |-> e, n |-> n]
    BY DEF ScrollUp
  <1>2. PICK g, h, k : g = grid /\ h = grid' /\ k = AtMost(n, e - s)
    OBVIOUS
  <1>3. /\ Shown(h) = ScreenUp(Shown(g), s, e, k)
        /\ s = 0 => Kept(h) = Text!Newest(Kept(g) \o SubSeq(Shown(g), 1, k), g.max_scroll_limit)
        /\ s # 0 => Kept(h) = Kept(g)
    BY <1>1, <1>2, ScrollUpText
  <1>4. h.max_scroll_limit = g.max_scroll_limit /\ h.cursor = g.cursor
    BY <1>1, <1>2, ScrollUpOK DEF SameFrame
  <1>5. call'.op = "scroll_up" /\ call'.start = s /\ call'.end = e /\ call'.n = n
    BY <1>1
  <1>6. k = IF call'.n < call'.end - call'.start THEN call'.n ELSE call'.end - call'.start
    BY <1>2, <1>5 DEF AtMost
  <1> QED
    BY <1>2, <1>3, <1>4, <1>5, <1>6, TextVariables DEF Text!ScrollUp, Text!Retire, ScreenUp

LEMMA TextScrollDown ==
    ASSUME GridOK(grid), GridOK(grid'), NEW s \in Nat, NEW e \in Nat, NEW n \in Nat,
           ScrollDown(s, e, n)
    PROVE  Text!ScrollDown
  <1>1. /\ s < e /\ e <= grid.lines /\ n <= e - s /\ grid' = scroll_down(grid, s, e, n)
        /\ call' = [op |-> "scroll_down", start |-> s, end |-> e, n |-> n]
    BY DEF ScrollDown
  <1>2. PICK g, h : g = grid /\ h = grid'
    OBVIOUS
  <1>3. Shown(h) = ScreenDown(Shown(g), s, e, n) /\ Kept(h) = Kept(g)
    BY <1>1, <1>2, ScrollDownText
  <1>4. h.max_scroll_limit = g.max_scroll_limit /\ h.cursor = g.cursor
    BY <1>1, <1>2, ScrollDownOK DEF SameFrame
  <1>5. call'.op = "scroll_down" /\ call'.start = s /\ call'.end = e /\ call'.n = n
    BY <1>1
  <1>6. n = IF call'.n < call'.end - call'.start THEN call'.n ELSE call'.end - call'.start
    BY <1>1, <1>5
  <1> QED
    BY <1>2, <1>3, <1>4, <1>5, <1>6, TextVariables DEF Text!ScrollDown, ScreenDown

LEMMA TextErase ==
    ASSUME GridOK(grid), GridOK(grid'), NEW s \in Nat, NEW e \in Nat, ResetRegion(s, e)
    PROVE  Text!Erase
  <1>1. /\ s < e /\ e <= grid.lines /\ grid' = reset_region(grid, s, e)
        /\ call' = [op |-> "erase", start |-> s, end |-> e]
    BY DEF ResetRegion
  <1>2. PICK g, h : g = grid /\ h = grid'
    OBVIOUS
  <1>3. /\ Shown(h) = [i \in DOMAIN Shown(g) |->
                            IF i - 1 \in s .. e - 1 THEN Blank ELSE Shown(g)[i]]
        /\ Kept(h) = Kept(g)
    BY <1>1, <1>2, EraseText
  <1>4. h.max_scroll_limit = g.max_scroll_limit /\ h.cursor = g.cursor
    BY <1>1, <1>2, ResetRegionContent DEF SameFrame
  <1>5. call'.op = "erase" /\ call'.start = s /\ call'.end = e
    BY <1>1
  <1> QED
    BY <1>2, <1>3, <1>4, <1>5, TextVariables DEF Text!Erase

LEMMA TextClearViewport ==
    ASSUME GridOK(grid), GridOK(grid'), ClearViewport
    PROVE  Text!ClearViewport
  <1>1. grid' = clear_viewport(grid) /\ call' = [op |-> "clear_viewport"]
    BY DEF ClearViewport
  <1>2. PICK g, h, used, n, last :
            /\ g = grid /\ h = grid' /\ used = UsedLines(g) /\ n = g.lines
            /\ last = SelectLastInSeq(Shown(g), LAMBDA t : t # Blank)
    OBVIOUS
  <1>3. /\ Shown(h) = Text!Blanks(n)
        /\ Kept(h) = Text!Newest(Kept(g) \o SubSeq(Shown(g), 1, used), g.max_scroll_limit)
    BY <1>1, <1>2, ClearViewportText
  <1>4. h.max_scroll_limit = g.max_scroll_limit /\ h.cursor = g.cursor
    BY <1>1, <1>2, ClearViewportContent DEF SameFrame
  <1>5. call'.op = "clear_viewport"
    BY <1>1
  <1>6. Len(Shown(g)) = n
    BY <1>2, ShownIs
  <1>7. used = IF last = 0 /\ HistorySize(g) = 0 THEN 1 ELSE last
    BY <1>2, UsedIs
  <1>8. used = last \/ (last = 0 /\ Kept(g) = <<>> /\ used = 1)
    BY <1>2, <1>7, KeptNone
  <1>9. \/ Text!Retire(last)
        \/ last = 0 /\ Texts(HistoryRows(grid)) = <<>> /\ Text!Retire(1)
    BY <1>2, <1>3, <1>8, TextVariables DEF Text!Retire
  <1>10. Text!SelectLastInSeq(Texts(ScreenRows(grid)), LAMBDA t : t # Blank) = last
    <2>1. PICK s, I : s = Shown(g) /\ I = {i \in 1 .. Len(s) : s[i] # Blank}
      OBVIOUS
    <2>2. Text!Max(I) = Max(I)
      BY DEF Text!Max, Max
    <2>3. last = IF I # {} THEN Max(I) ELSE 0
      BY <1>2, <2>1 DEF SelectLastInSeq
    <2>4. Texts(ScreenRows(grid)) = s
      BY <1>2, <2>1, TextVariables
    <2>5. Text!SelectLastInSeq(Texts(ScreenRows(grid)), LAMBDA t : t # Blank)
            = IF I # {} THEN Text!Max(I) ELSE 0
      BY <2>1, <2>4 DEF Text!SelectLastInSeq
    <2> QED
      BY <2>2, <2>3, <2>5
  <1>11. /\ Texts(ScreenRows(grid))' = Text!Blanks(Len(Texts(ScreenRows(grid))))
         /\ grid'.max_scroll_limit = grid.max_scroll_limit /\ grid'.cursor = grid.cursor
    BY <1>2, <1>3, <1>4, <1>6, TextVariables
  <1> QED
    BY <1>5, <1>9, <1>10, <1>11 DEF Text!ClearViewport

LEMMA TextClearHistory ==
    ASSUME GridOK(grid), ClearHistory
    PROVE  Text!ClearHistory
  <1>1. grid' = clear_history(grid) /\ call' = [op |-> "clear_history"]
    BY DEF ClearHistory
  <1>2. PICK g, h : g = grid /\ h = grid'
    OBVIOUS
  <1>3. Shown(h) = Shown(g) /\ Kept(h) = <<>>
    BY <1>1, <1>2, ClearHistoryText
  <1>4. h.max_scroll_limit = g.max_scroll_limit /\ h.cursor = g.cursor
    BY <1>1, <1>2, ClearHistoryContent DEF SameFrame
  <1>5. call'.op = "clear_history"
    BY <1>1
  <1> QED
    BY <1>2, <1>3, <1>4, <1>5, TextVariables DEF Text!ClearHistory

LEMMA TextReset ==
    ASSUME GridOK(grid), GridOK(grid'), Reset
    PROVE  Text!Reset
  <1>1. grid' = reset(grid) /\ call' = [op |-> "reset"]
    BY DEF Reset
  <1>2. PICK g, h, n : g = grid /\ h = grid' /\ n = g.lines
    OBVIOUS
  <1>3. Shown(h) = Text!Blanks(n) /\ Kept(h) = <<>>
    BY <1>1, <1>2, ResetText
  <1>4. h.max_scroll_limit = g.max_scroll_limit /\ h.cursor = 0
    BY <1>1, <1>2, ResetContent
  <1>5. call'.op = "reset"
    BY <1>1
  <1>6. Len(Shown(g)) = n
    BY <1>2, ShownIs
  <1> QED
    BY <1>2, <1>3, <1>4, <1>5, <1>6, TextVariables DEF Text!Reset

LEMMA TextResize ==
    ASSUME GridOK(grid), GridOK(grid'), NEW target \in 1 .. MaxLines, Resize(target)
    PROVE  Text!Grow \/ Text!Shrink
  <1>1. grid' = resize(grid, target) /\ call' = [op |-> "resize", lines |-> target]
    BY DEF Resize
  <1>2. PICK g, h, lines, hist :
            g = grid /\ h = grid' /\ lines = g.lines /\ hist = HistorySize(g)
    OBVIOUS
  <1>3. lines \in Nat /\ hist \in Nat
    BY <1>2, GridFields, HistoryFacts
  <1>4. Len(Shown(g)) = lines /\ Len(Kept(g)) = hist
    BY <1>2, ShownIs, KeptIs
  <1>5. call'.op = "resize" /\ call'.lines = target
    BY <1>1
  <1>6. target \in Nat /\ 1 <= target
    BY GridConstantsAssumption
  <1>7. CASE lines < target
    <2>1. h = grow_lines(g, target)
      BY <1>1, <1>2, <1>6, <1>7, <1>3 DEF resize
    <2>2. PICK added, pulled : added = target - lines /\ pulled = AtMost(added, hist)
      OBVIOUS
    <2>3. Grown(g, h, added, pulled, hist)
      BY <1>2, <1>7, <2>1, <2>2, GrowText
    <2>4. /\ added = call'.lines - Len(Texts(ScreenRows(grid))) /\ added >= 0
          /\ pulled = IF added < Len(Texts(HistoryRows(grid))) THEN added
                      ELSE Len(Texts(HistoryRows(grid)))
      BY <1>2, <1>4, <1>5, <1>6, <1>7, <1>3, <2>2, TextVariables DEF AtMost
    <2> QED
      BY <1>2, <1>4, <1>5, <2>3, <2>4, TextVariables DEF Text!Grow, Grown
  <1>8. CASE target < lines
    <2>1. h = shrink_grid_lines(g, target)
      BY <1>1, <1>2, <1>6, <1>8, <1>3 DEF resize
    <2>2. PICK over : over = IF g.cursor + 1 > target THEN g.cursor + 1 - target ELSE 0
      OBVIOUS
    <2>3. Cut(g, h, target, over)
      BY <1>2, <1>8, <2>1, <2>2, ShrinkText
    <2>4. over = IF grid.cursor + 1 > call'.lines THEN grid.cursor + 1 - call'.lines ELSE 0
      BY <1>2, <1>5, <2>2
    <2> QED
      BY <1>2, <1>4, <1>5, <1>8, <2>3, <2>4, TextVariables
         DEF Text!Shrink, Text!Retire, Cut
  <1>9. CASE lines = target
    <2>1. h = g
      BY <1>1, <1>2, <1>6, <1>9, <1>3 DEF resize
    <2>2. PICK k, s : k = Kept(g) /\ s = Shown(g)
      OBVIOUS
    <2>3. k \in Seq(AnyText) /\ Len(k) = hist /\ s \in Seq(AnyText) /\ Len(s) = lines
      BY <1>2, <2>2, ShownIs, KeptIs
    <2>4. PICK added, pulled : added = 0 /\ pulled = 0
      OBVIOUS
    <2>5. /\ added = call'.lines - Len(Texts(ScreenRows(grid))) /\ added >= 0
          /\ pulled = IF added < Len(Texts(HistoryRows(grid))) THEN added
                      ELSE Len(Texts(HistoryRows(grid)))
      BY <1>2, <1>4, <1>5, <1>6, <1>9, <1>3, <2>4, TextVariables
    <2>6. PICK none, b, rest, left : /\ none = Text!Newest(k, pulled) /\ b = Text!Blanks(rest)
                                     /\ rest = added - pulled /\ left = hist - pulled
      OBVIOUS
    <2>7. rest = 0 /\ left = hist
      BY <1>3, <2>4, <2>6
    <2>8. none \in Seq(AnyText) /\ Len(none) = 0
      <3>1. pulled \in Nat
        BY <2>4
      <3>2. none \in Seq(AnyText) /\ Len(none) = AtMost(Len(k), pulled)
        BY ONLY <2>3, <2>6, <3>1, NewestIs
      <3> QED
        BY <1>3, <2>3, <2>4, <3>2 DEF AtMost
    <2>9. b \in Seq(AnyText) /\ Len(b) = 0
      <3>1. rest \in Nat
        BY <2>7
      <3> QED
        BY ONLY <2>6, <2>7, <3>1, BlanksAre
    <2>10. none \o s \o b = s
      <3>1. none = <<>> /\ b = <<>>
        BY <2>8, <2>9
      <3> QED
        BY ONLY <2>3, <3>1, ConcatEmptySeq
    <2>11. SubSeq(k, 1, left) = k
      BY <1>3, <2>3, <2>7
    <2>12. /\ Shown(h) = Text!Newest(Kept(g), pulled) \o Shown(g) \o Text!Blanks(added - pulled)
           /\ Kept(h) = SubSeq(Kept(g), 1, hist - pulled)
      BY <2>1, <2>2, <2>6, <2>10, <2>11
    <2>13. h.cursor = g.cursor + pulled /\ h.max_scroll_limit = g.max_scroll_limit
      BY <1>2, <1>3, <2>1, <2>4, GridFields
    <2> QED
      BY <1>2, <1>4, <1>5, <2>5, <2>12, <2>13, TextVariables DEF Text!Grow
  <1> QED
    BY <1>6, <1>7, <1>8, <1>9, <1>3

LEMMA TextNext ==
    GridIInv /\ [Next]_vars => [Text!Next]_Text!vars
  <1>1. SUFFICES ASSUME GridOK(grid), [Next]_vars PROVE [Text!Next]_Text!vars
    BY DEF GridIInv
  <1>2. GridOK(grid')
    BY <1>1, GridNext DEF GridIInv
  <1>3. CASE UNCHANGED vars
    BY <1>3 DEF vars, Text!vars
  <1>4. 0 .. MaxLines - 1 \subseteq Nat /\ 1 .. MaxLines \subseteq Nat /\ -MaxLines .. MaxLines \subseteq Int
    BY GridConstantsAssumption
  <1>5. ASSUME NEW l \in 0 .. MaxLines - 1, NEW t \in TextValues, Write(l, t)
        PROVE  Text!Write
    BY <1>1, <1>2, <1>4, <1>5, TextWrite
  <1>6. ASSUME NEW r \in 0 .. MaxLines - 1, Goto(r)
        PROVE  Text!MoveCursor
    BY <1>1, <1>6, TextMoveCursor
  <1>7. ASSUME NEW s \in 0 .. MaxLines - 1, NEW e \in 1 .. MaxLines, NEW n \in 1 .. MaxLines,
               ScrollUp(s, e, n)
        PROVE  Text!ScrollUp
    BY <1>1, <1>2, <1>4, <1>7, TextScrollUp
  <1>8. ASSUME NEW s \in 0 .. MaxLines - 1, NEW e \in 1 .. MaxLines, NEW n \in 1 .. MaxLines,
               ScrollDown(s, e, n)
        PROVE  Text!ScrollDown
    BY <1>1, <1>2, <1>4, <1>8, TextScrollDown
  <1>9. ASSUME NEW d \in -MaxLines .. MaxLines, ScrollDisplay(d)
        PROVE  Text!View
    BY <1>1, <1>4, <1>9, TextView
  <1>10. ASSUME NEW s \in 0 .. MaxLines - 1, NEW e \in 1 .. MaxLines, ResetRegion(s, e)
         PROVE  Text!Erase
    BY <1>1, <1>2, <1>4, <1>10, TextErase
  <1>11. ASSUME ClearViewport PROVE Text!ClearViewport
    BY <1>1, <1>2, <1>11, TextClearViewport
  <1>12. ASSUME ClearHistory PROVE Text!ClearHistory
    BY <1>1, <1>12, TextClearHistory
  <1>13. ASSUME Reset PROVE Text!Reset
    BY <1>1, <1>2, <1>13, TextReset
  <1>14. ASSUME NEW l \in 1 .. MaxLines, Resize(l)
         PROVE  Text!Grow \/ Text!Shrink
    BY <1>1, <1>2, <1>14, TextResize
  <1>15. CASE Next
    <2>1. Text!Next
      BY <1>5, <1>6, <1>7, <1>8, <1>9, <1>10, <1>11, <1>12, <1>13, <1>14, <1>15 DEF Next, Text!Next
    <2> QED
      BY <2>1
  <1> QED
    BY <1>1, <1>3, <1>15

(* The ring, its cached and recycled rows, its rotations and its swaps     *)
(* implement a plain screen with a bounded history, for every screen       *)
(* height, history limit and cache size: no cached row ever shows up, no   *)
(* line is lost, duplicated or reordered, and the cursor keeps its text    *)
(* across resizes (grid/mod.rs, grid/resize.rs, grid/storage.rs).          *)
THEOREM GridImplementsText == Spec => TextBufferSpec
  <1>1. Init => GridIInv /\ Text!Init
    BY GridInit, TextInit
  <1>2. GridIInv /\ [Next]_vars => GridIInv' /\ [Text!Next]_Text!vars
    BY GridNext, TextNext
  <1> QED
    BY <1>1, <1>2, PTL DEF Spec, TextBufferSpec, Text!Spec
=============================================================================
