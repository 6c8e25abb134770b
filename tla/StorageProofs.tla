---------------------------- MODULE StorageProofs ----------------------------
(***************************************************************************)
(* For every number of rows, every cache size and every sequence of calls, *)
(* the ring buffer of module Storage stays in bounds, keeps at most        *)
(* MAX_CACHE_SIZE rows allocated in excess, never lets two lines share a   *)
(* row, and implements the plain list of rows of module RowBuffer.         *)
(***************************************************************************)
EXTENDS StorageSpec, SequenceTheorems, TLAPS

(* The inductive invariant.  CacheBounded is part of it only because it is *)
(* wanted; the bounds need no strengthening beyond the types.              *)
IInv == TypeOK /\ RingInBounds /\ CacheBounded

(* The part of it that concerns the ring alone, on any storage. *)
Ring(st) ==
    /\ st \in StorageType
    /\ st.zero < Capacity(st)
    /\ 1 <= st.len
    /\ st.len <= Capacity(st)

-----------------------------------------------------------------------------
(* Arithmetic and records. *)

(* The remainder of a number less than twice the divisor. *)
LEMMA ModOnce ==
    ASSUME NEW a \in Nat, NEW n \in Nat, n > 0, a < 2 * n
    PROVE  a % n = IF a >= n THEN a - n ELSE a
<1>1. CASE a < n
  BY <1>1
<1>2. CASE a >= n
  BY <1>2
<1> QED
  BY <1>1, <1>2

(* The remainder of a number between two and three times the divisor. *)
LEMMA ModTwice ==
    ASSUME NEW a \in Nat, NEW n \in Nat, n > 0, 2 * n <= a, a < 3 * n
    PROVE  a % n = a - 2 * n
OBVIOUS

(* Wrapping commutes with moving the origin of a ring of n slots by c. *)
LEMMA WrapShift ==
    ASSUME NEW n \in Nat, NEW z \in Nat, z < n, NEW c \in Int, NEW p \in Int,
           1 <= p, p <= n, 1 <= p - c, p - c <= n, NEW m \in Int,
           m = IF z + c >= n THEN z + c - n ELSE IF z + c >= 0 THEN z + c ELSE z + c + n
    PROVE  (IF m + (p - c) - 1 >= n THEN m + (p - c) - 1 - n ELSE m + (p - c) - 1)
              = (IF z + p - 1 >= n THEN z + p - 1 - n ELSE z + p - 1)
OBVIOUS

-----------------------------------------------------------------------------
(* What the private helpers do. *)

(* rezero moves the bottommost line to the front and keeps the ring order. *)
LEMMA RezeroRing ==
    ASSUME NEW st \in StorageType, st.zero < Capacity(st)
    PROVE  /\ rezero(st) \in StorageType
           /\ Capacity(rezero(st)) = Capacity(st)
           /\ rezero(st).zero = 0
           /\ rezero(st).len = st.len
           /\ rezero(st).visible_lines = st.visible_lines
           /\ \A i \in 1 .. Capacity(st) :
                 rezero(st).inner[i] = st.inner[Wrap(st, st.zero + i - 1) + 1]
<1> DEFINE n == Len(st.inner)
           z == st.zero
           front == SubSeq(st.inner, z + 1, n)
           back == SubSeq(st.inner, 1, z)
<1>1. st.inner \in Seq(Rows) /\ z \in Nat /\ n \in Nat /\ z < n
  BY DEF StorageType, Capacity
<1>2. front \in Seq(Rows) /\ Len(front) = n - z
      /\ \A i \in 1 .. n - z : front[i] = st.inner[z + i]
  BY <1>1
<1>3. back \in Seq(Rows) /\ Len(back) = z
      /\ \A i \in 1 .. z : back[i] = st.inner[i]
  BY <1>1
<1> DEFINE both == front \o back
<1> HIDE DEF front, back
<1>4. both \in Seq(Rows) /\ Len(both) = n
      /\ \A i \in 1 .. n : both[i] = IF i <= n - z THEN front[i] ELSE back[i - (n - z)]
  <2>1. front \in Seq(Rows) /\ back \in Seq(Rows)
    BY <1>2, <1>3
  <2>2. /\ both \in Seq(Rows)
        /\ Len(both) = Len(front) + Len(back)
        /\ \A i \in 1 .. Len(front) + Len(back) :
              both[i] = IF i <= Len(front) THEN front[i] ELSE back[i - Len(front)]
    BY ONLY <2>1, ConcatProperties
  <2>3. Len(front) = n - z /\ Len(front) + Len(back) = n
    BY <1>1, <1>2, <1>3
  <2> QED BY <2>2, <2>3
<1> HIDE DEF both
<1>5. /\ rezero(st) \in StorageType
      /\ rezero(st).inner = both
      /\ rezero(st).zero = 0
      /\ rezero(st).len = st.len
      /\ rezero(st).visible_lines = st.visible_lines
  BY <1>4 DEF rezero, both, front, back, StorageType, Capacity
<1>6. ASSUME NEW i \in 1 .. n
      PROVE  both[i] = st.inner[Wrap(st, z + i - 1) + 1]
  <2>1. CASE i <= n - z
    <3>1. both[i] = st.inner[z + i]
      BY <1>2, <1>4, <2>1, <1>1
    <3>2. Wrap(st, z + i - 1) + 1 = z + i
      BY <2>1, <1>1 DEF Wrap, Capacity
    <3> QED BY <3>1, <3>2
  <2>2. CASE i > n - z
    <3>1. both[i] = st.inner[i - (n - z)]
      <4>1. i - (n - z) \in 1 .. z /\ ~(i <= n - z)
        BY <2>2, <1>1
      <4> QED BY <1>3, <1>4, <4>1
    <3>2. Wrap(st, z + i - 1) + 1 = i - (n - z)
      BY <2>2, <1>1 DEF Wrap, Capacity
    <3> QED BY <3>1, <3>2
  <2> QED BY <2>1, <2>2, <1>1
<1> QED
  BY <1>4, <1>5, <1>6 DEF Capacity

(* The list a storage stands for, element by element. *)
LEMMA ViewElements ==
    ASSUME NEW st, Ring(st)
    PROVE  /\ View(st) \in Seq(Rows)
           /\ Len(View(st)) = st.len
           /\ \A p \in 1 .. st.len :
                 View(st)[p] = st.inner[Wrap(st, st.zero + p - 1) + 1]
<1>1. /\ st.inner \in Seq(Rows) /\ st.zero \in Nat /\ st.len \in Nat
      /\ Len(st.inner) \in Nat /\ st.zero < Len(st.inner) /\ st.len <= Len(st.inner)
  BY DEF Ring, StorageType, Capacity
<1>2. ASSUME NEW p \in 1 .. st.len
      PROVE  st.inner[Wrap(st, st.zero + p - 1) + 1] \in Rows
  <2>1. Wrap(st, st.zero + p - 1) + 1 \in 1 .. Len(st.inner)
    BY <1>1 DEF Wrap, Capacity
  <2> QED BY <1>1, <2>1
<1>3. View(st) \in [1 .. st.len -> Rows]
  BY <1>2 DEF View
<1>4. View(st) \in Seq(Rows) /\ Len(View(st)) = st.len
  BY <1>1, <1>3
<1> QED
  BY <1>4 DEF View

(* truncate keeps the active rows, in order, and frees the others. *)
LEMMA TruncateRing ==
    ASSUME NEW st, Ring(st)
    PROVE  /\ truncate(st) \in StorageType
           /\ Capacity(truncate(st)) = st.len
           /\ truncate(st).zero = 0
           /\ truncate(st).len = st.len
           /\ truncate(st).visible_lines = st.visible_lines
           /\ \A i \in 1 .. st.len :
                 truncate(st).inner[i] = st.inner[Wrap(st, st.zero + i - 1) + 1]
<1> DEFINE z == rezero(st)
<1>1. /\ z \in StorageType /\ Capacity(z) = Capacity(st) /\ z.zero = 0
      /\ z.len = st.len /\ z.visible_lines = st.visible_lines
      /\ \A i \in 1 .. Capacity(st) :
            z.inner[i] = st.inner[Wrap(st, st.zero + i - 1) + 1]
  BY RezeroRing DEF Ring
<1> HIDE DEF z
<1>2. st.len \in Nat /\ st.len <= Len(z.inner) /\ z.inner \in Seq(Rows)
      /\ Len(z.inner) = Capacity(st) /\ Capacity(st) \in Nat
  BY <1>1 DEF Ring, StorageType, Capacity
<1>3. SubSeq(z.inner, 1, st.len) \in Seq(Rows)
      /\ Len(SubSeq(z.inner, 1, st.len)) = st.len
      /\ \A i \in 1 .. st.len : SubSeq(z.inner, 1, st.len)[i] = z.inner[i]
  BY <1>2
<1>4. truncate(st) = [z EXCEPT !.inner = SubSeq(z.inner, 1, st.len)]
  BY <1>1 DEF truncate, z
<1>5. /\ truncate(st) \in StorageType
      /\ truncate(st).inner = SubSeq(z.inner, 1, st.len)
      /\ truncate(st).zero = 0 /\ truncate(st).len = st.len
      /\ truncate(st).visible_lines = st.visible_lines
  BY <1>1, <1>3, <1>4 DEF StorageType
<1> QED
  BY <1>1, <1>2, <1>3, <1>5 DEF Capacity

-----------------------------------------------------------------------------
(* What the methods do to the ring, to the cache and to the list. *)

(* initialize adds rows at the old end of the list only. *)
LEMMA InitializeStep ==
    ASSUME NEW st, Ring(st), Capacity(st) <= st.len + MAX_CACHE_SIZE,
           NEW k \in Nat, k >= 1
    PROVE  LET r == initialize(st, k)
           IN  /\ Ring(r)
               /\ Capacity(r) <= r.len + MAX_CACHE_SIZE
               /\ r.len = st.len + k /\ r.visible_lines = st.visible_lines
               /\ \A p \in 1 .. st.len : View(r)[p] = View(st)[p]
<1> DEFINE r == initialize(st, k)
           z == rezero(st)
           G == GrowthOf(k)
           new == [i \in 1 .. G |-> NewRow]
<1>0. /\ st \in StorageType /\ st.len \in Nat /\ Capacity(st) \in Nat
      /\ st.inner \in Seq(Rows) /\ st.zero \in Nat /\ st.zero < Capacity(st)
      /\ MAX_CACHE_SIZE \in Nat /\ Capacity(st) = Len(st.inner)
      /\ st.len <= Capacity(st) /\ 1 <= st.len
  BY MaxCacheSizeAssumption DEF Ring, StorageType, Capacity
<1>1. CASE st.len + k <= Capacity(st)
  <2>1. /\ r \in StorageType /\ r.inner = st.inner /\ r.zero = st.zero
        /\ r.len = st.len + k /\ r.visible_lines = st.visible_lines
    <3>0. ~(st.len + k > Capacity(st))
      BY <1>0, <1>1
    <3>1. r = [st EXCEPT !.len = st.len + k]
      BY ONLY <3>0, Zenon DEF initialize, r
    <3> HIDE DEF r
    <3> QED BY <3>1, <1>0 DEF StorageType
  <2>2. Ring(r)
    BY <2>1, <1>0, <1>1 DEF Ring, Capacity
  <2>3. \A p \in 1 .. st.len : View(r)[p] = View(st)[p]
    <3> HIDE DEF r
    <3> QED BY <2>1, <1>0 DEF View, Wrap, Capacity
  <2> QED BY <2>1, <2>2, <2>3, <1>0 DEF Capacity
<1>2. CASE st.len + k > Capacity(st)
  <2>1. /\ z \in StorageType /\ Capacity(z) = Capacity(st) /\ z.zero = 0
        /\ z.visible_lines = st.visible_lines
        /\ \A i \in 1 .. Capacity(st) :
              z.inner[i] = st.inner[Wrap(st, st.zero + i - 1) + 1]
    BY <1>0, RezeroRing
  <2>2. G \in Nat /\ G >= k /\ G >= MAX_CACHE_SIZE /\ (G = k \/ G = MAX_CACHE_SIZE)
    BY <1>0 DEF GrowthOf
  <2>3. new \in [1 .. G -> Rows]
    BY RowsAssumption
  <2>4. new \in Seq(Rows) /\ Len(new) = G
    BY <2>2, <2>3
  <2>5. z.inner \in Seq(Rows) /\ Len(z.inner) = Capacity(st)
    BY <2>1 DEF StorageType, Capacity
  <2> DEFINE long == z.inner \o new
  <2>6. r = [[z EXCEPT !.inner = long] EXCEPT !.len = st.len + k]
    BY <1>0, <1>2 DEF initialize
  <2> HIDE DEF z, G, new
  <2>7. /\ long \in Seq(Rows) /\ Len(long) = Len(z.inner) + Len(new)
        /\ \A i \in 1 .. Len(z.inner) + Len(new) :
              long[i] = IF i <= Len(z.inner) THEN z.inner[i] ELSE new[i - Len(z.inner)]
    BY ONLY <2>4, <2>5, ConcatProperties
  <2> HIDE DEF long
  <2>8. /\ r \in StorageType /\ r.inner = long /\ r.zero = 0
        /\ r.len = st.len + k /\ r.visible_lines = st.visible_lines
    <3> DEFINE y == [z EXCEPT !.inner = long]
    <3>1. /\ y \in StorageType /\ y.inner = long /\ y.zero = 0
          /\ y.visible_lines = st.visible_lines
      BY <2>1, <2>7 DEF StorageType
    <3> HIDE DEF y
    <3>2. r = [y EXCEPT !.len = st.len + k]
      BY <2>6 DEF y
    <3> HIDE DEF r
    <3> QED BY <3>1, <3>2, <1>0 DEF StorageType
  <2>9. Capacity(r) = Capacity(st) + G
    BY <2>4, <2>5, <2>7, <2>8 DEF Capacity
  <2>10. Ring(r)
    BY <2>8, <2>9, <2>2, <1>0, <1>2 DEF Ring
  <2>11. Capacity(r) <= r.len + MAX_CACHE_SIZE
    BY <2>8, <2>9, <2>2, <1>0, <1>2
  <2>12. ASSUME NEW p \in 1 .. st.len
         PROVE  View(r)[p] = View(st)[p]
    <3>1. View(r)[p] = long[Wrap(r, p - 1) + 1]
      <4> HIDE DEF r
      <4> QED BY <2>8, <1>0 DEF View
    <3>2. Wrap(r, p - 1) + 1 = p
      BY <2>9, <2>2, <1>0 DEF Wrap
    <3>3. long[p] = z.inner[p]
      <4>1. p \in 1 .. Len(z.inner) + Len(new) /\ p <= Len(z.inner)
        BY <2>4, <2>5, <1>0, <2>2
      <4> QED BY <4>1, <2>7
    <3>4. p \in 1 .. Capacity(st)
      BY <1>0
    <3> QED BY <3>1, <3>2, <3>3, <3>4, <2>1, ViewElements
  <2> QED BY <2>8, <2>10, <2>11, <2>12
<1> QED
  BY <1>0, <1>1, <1>2

(* shrink_lines drops rows at the old end only, whether it frees or not. *)
LEMMA ShrinkStep ==
    ASSUME NEW st, Ring(st), NEW k \in Nat, k < st.len
    PROVE  LET r == shrink_lines(st, k)
           IN  /\ Ring(r)
               /\ Capacity(r) <= r.len + MAX_CACHE_SIZE
               /\ r.len = st.len - k /\ r.visible_lines = st.visible_lines
               /\ \A p \in 1 .. st.len - k : View(r)[p] = View(st)[p]
<1> DEFINE r == shrink_lines(st, k)
           s == [st EXCEPT !.len = st.len - k]
<1>0. /\ st \in StorageType /\ st.len \in Nat /\ Capacity(st) \in Nat
      /\ st.inner \in Seq(Rows) /\ st.zero \in Nat /\ st.zero < Capacity(st)
      /\ MAX_CACHE_SIZE \in Nat /\ Capacity(st) = Len(st.inner)
      /\ st.len <= Capacity(st) /\ 1 <= st.len
  BY MaxCacheSizeAssumption DEF Ring, StorageType, Capacity
<1>1. /\ s \in StorageType /\ s.inner = st.inner /\ s.zero = st.zero
      /\ s.len = st.len - k /\ s.visible_lines = st.visible_lines
  BY <1>0 DEF StorageType
<1>2. r = IF Capacity(s) > s.len + MAX_CACHE_SIZE THEN truncate(s) ELSE s
  BY DEF shrink_lines
<1> HIDE DEF s
<1>3. Ring(s)
  BY <1>0, <1>1 DEF Ring, Capacity
<1>4. \A p \in 1 .. s.len : View(s)[p] = View(st)[p]
  BY <1>0, <1>1 DEF View, Wrap, Capacity
<1>5. CASE Capacity(s) > s.len + MAX_CACHE_SIZE
  <2>1. /\ r \in StorageType /\ Capacity(r) = s.len /\ r.zero = 0 /\ r.len = s.len
        /\ r.visible_lines = st.visible_lines
        /\ \A i \in 1 .. s.len : r.inner[i] = s.inner[Wrap(s, s.zero + i - 1) + 1]
    BY <1>1, <1>2, <1>3, <1>5, TruncateRing
  <2>2. Ring(r)
    BY <2>1, <1>0, <1>1 DEF Ring
  <2>3. ASSUME NEW p \in 1 .. s.len
        PROVE  View(r)[p] = View(s)[p]
    <3>1. View(r)[p] = r.inner[Wrap(r, p - 1) + 1]
      BY <2>1, <2>2, <1>0, <1>1, ViewElements
    <3>2. Wrap(r, p - 1) + 1 = p
      BY <2>1, <1>0, <1>1 DEF Wrap
    <3> QED BY <3>1, <3>2, <2>1, <1>3, ViewElements
  <2> QED BY <2>1, <2>2, <2>3, <1>0, <1>1, <1>4
<1>6. CASE ~(Capacity(s) > s.len + MAX_CACHE_SIZE)
  BY <1>0, <1>1, <1>2, <1>3, <1>4, <1>6 DEF Capacity
<1> QED
  BY <1>5, <1>6

(* A rotation shifts the list; the rows it brings in are left open. *)
LEMMA RotateStep ==
    ASSUME NEW st, Ring(st), NEW c \in Int, c <= st.len, -c <= st.len
    PROVE  LET r == rotate(st, c)
           IN  /\ Ring(r) /\ Capacity(r) = Capacity(st)
               /\ r.len = st.len /\ r.visible_lines = st.visible_lines
               /\ c <= 0 => \A p \in 1 .. st.len + c : View(r)[p - c] = View(st)[p]
               /\ c >= 0 => \A p \in c + 1 .. st.len : View(r)[p - c] = View(st)[p]
<1> DEFINE r == rotate(st, c)
           n == Capacity(st)
           a == st.zero + c + n
<1>0. /\ st \in StorageType /\ st.len \in Nat /\ n \in Nat
      /\ st.inner \in Seq(Rows) /\ st.zero \in Nat /\ st.zero < n
      /\ n = Len(st.inner) /\ st.len <= n /\ 1 <= st.len /\ n > 0
  BY DEF Ring, StorageType, Capacity
<1>1. /\ a \in Nat /\ a < 3 * n
      /\ a % n = IF a >= 2 * n THEN a - 2 * n ELSE IF a >= n THEN a - n ELSE a
  <2>1. a \in Nat /\ a < 3 * n /\ n \in Nat /\ n > 0
    BY <1>0
  <2> HIDE DEF a, n
  <2>2. CASE a < 2 * n
    <3>1. a % n = IF a >= n THEN a - n ELSE a
      BY ONLY <2>1, <2>2, ModOnce
    <3> QED BY <3>1, <2>1, <2>2
  <2>3. CASE a >= 2 * n
    <3>1. a % n = a - 2 * n
      BY ONLY <2>1, <2>3, ModTwice
    <3> QED BY <3>1, <2>1, <2>3
  <2> QED BY <2>1, <2>2, <2>3
<1>2. a % n \in Nat /\ a % n < n
  BY <1>0, <1>1
<1>3. /\ r \in StorageType /\ r.inner = st.inner /\ r.zero = a % n
      /\ r.len = st.len /\ r.visible_lines = st.visible_lines
  BY <1>0, <1>2 DEF rotate, StorageType
<1>4. Ring(r) /\ Capacity(r) = n
  BY <1>0, <1>2, <1>3 DEF Ring, Capacity
<1> HIDE DEF r
<1>5. ASSUME NEW p \in 1 .. st.len, p - c \in 1 .. st.len
      PROVE  View(r)[p - c] = View(st)[p]
  <2>1. View(r)[p - c] = st.inner[Wrap(r, (a % n) + (p - c) - 1) + 1]
    BY <1>3, <1>5 DEF View
  <2>2. View(st)[p] = st.inner[Wrap(st, st.zero + p - 1) + 1]
    BY DEF View
  <2>3. Wrap(r, (a % n) + (p - c) - 1) = Wrap(st, st.zero + p - 1)
    <3>1. /\ p \in Int /\ 1 <= p /\ p <= st.len
          /\ 1 <= p - c /\ p - c <= st.len /\ Capacity(r) = n
      BY <1>0, <1>4, <1>5
    <3> DEFINE m == a % n
               z == st.zero
    <3>2. m \in Int /\ n \in Nat /\ z \in Nat /\ z < n /\ p <= n /\ p - c <= n
      BY <1>0, <1>2, <3>1
    <3>3. m = IF z + c >= n THEN z + c - n ELSE IF z + c >= 0 THEN z + c ELSE z + c + n
      <4>1. \/ z + c >= n /\ a >= 2 * n /\ a - 2 * n = z + c - n
            \/ z + c < n /\ z + c >= 0 /\ a < 2 * n /\ a >= n /\ a - n = z + c
            \/ z + c < 0 /\ a < n /\ a = z + c + n
        BY <1>0
      <4>2. m = IF a >= 2 * n THEN a - 2 * n ELSE IF a >= n THEN a - n ELSE a
        BY <1>1
      <4>3. a \in Nat
        BY <1>1
      <4> HIDE DEF a, m, n, z
      <4> QED BY ONLY <4>1, <4>2, <4>3, <3>2, c \in Int
    <3> HIDE DEF m, n, z
    <3>4. (IF m + (p - c) - 1 >= n THEN m + (p - c) - 1 - n ELSE m + (p - c) - 1)
              = (IF z + p - 1 >= n THEN z + p - 1 - n ELSE z + p - 1)
      BY ONLY <3>1, <3>2, <3>3, c \in Int, WrapShift
    <3>5. Wrap(r, m + (p - c) - 1)
              = IF m + (p - c) - 1 >= n THEN m + (p - c) - 1 - n ELSE m + (p - c) - 1
      BY <3>1, <3>2 DEF Wrap
    <3>6. Wrap(st, z + p - 1) = IF z + p - 1 >= n THEN z + p - 1 - n ELSE z + p - 1
      BY <3>1, <3>2 DEF Wrap, n
    <3>7. Wrap(r, m + (p - c) - 1) = Wrap(st, z + p - 1)
      BY <3>4, <3>5, <3>6
    <3> QED BY <3>7 DEF m, z
  <2> QED BY <2>1, <2>2, <2>3
<1>6. c <= 0 => \A p \in 1 .. st.len + c : View(r)[p - c] = View(st)[p]
  BY <1>0, <1>5
<1>7. c >= 0 => \A p \in c + 1 .. st.len : View(r)[p - c] = View(st)[p]
  BY <1>0, <1>5
<1> QED
  BY <1>3, <1>4, <1>6, <1>7 DEF r

(* rotate_down is rotate without the detour over negative numbers. *)
LEMMA RotateDownIsRotate ==
    ASSUME NEW st, Ring(st), NEW c \in Nat, c <= st.len
    PROVE  rotate_down(st, c) = rotate(st, c)
<1> DEFINE n == Capacity(st)
<1>0. /\ n \in Nat /\ st.zero \in Nat /\ st.zero < n /\ n > 0
      /\ c <= n /\ st.len \in Nat
  BY DEF Ring, StorageType, Capacity
<1> HIDE DEF n
<1> DEFINE b == st.zero + c
<1>b. b \in Nat /\ b < 2 * n
  BY <1>0
<1>1. b % n = (b + n) % n
  <2> HIDE DEF b
  <2>1. CASE b < n
    <3>1. b % n = b
      BY ONLY <1>0, <1>b, <2>1, ModOnce
    <3> DEFINE d == b + n
    <3>2. d \in Nat /\ d >= n /\ d < 2 * n
      BY <1>0, <1>b, <2>1
    <3> HIDE DEF d
    <3>3. d % n = d - n
      BY ONLY <1>0, <3>2, ModOnce
    <3> QED BY <3>1, <3>3, <1>0, <1>b DEF d
  <2>2. CASE b >= n
    <3>1. b % n = b - n
      BY ONLY <1>0, <1>b, <2>2, ModOnce
    <3> DEFINE d == b + n
    <3>2. d \in Nat /\ 2 * n <= d /\ d < 3 * n
      BY <1>0, <1>b, <2>2
    <3> HIDE DEF d
    <3>3. d % n = d - 2 * n
      BY ONLY <1>0, <3>2, ModTwice
    <3> QED BY <3>1, <3>3, <1>0, <1>b DEF d
  <2> QED BY <2>1, <2>2, <1>0, <1>b
<1> QED
  BY <1>1 DEF rotate, rotate_down, n

(* The slot of inner, counted from 1, of position p of the list. *)
Slot(st, p) == Wrap(st, st.zero + p - 1) + 1

(* Every position has its slot inside the allocation. *)
LEMMA SlotInRange ==
    ASSUME NEW st, Ring(st), NEW p \in 1 .. st.len
    PROVE  Slot(st, p) \in 1 .. Capacity(st)
<1>1. /\ st.len \in Nat /\ Capacity(st) \in Nat /\ st.zero \in Nat
      /\ st.zero < Capacity(st) /\ st.len <= Capacity(st)
  BY DEF Ring, StorageType, Capacity
<1> QED
  BY <1>1 DEF Slot, Wrap

(* compute_index is inside the allocation and tells lines apart. *)
LEMMA IndexSound ==
    ASSUME NEW st, Ring(st), NEW line \in Int, ValidLine(st, line)
    PROVE  /\ st.visible_lines - line \in 1 .. st.len
           /\ compute_index(st, line) + 1 \in 1 .. Capacity(st)
           /\ compute_index(st, line) + 1 = Slot(st, st.visible_lines - line)
           /\ \A p \in 1 .. st.len :
                 Slot(st, p) = compute_index(st, line) + 1 => p = st.visible_lines - line
<1> DEFINE n == Capacity(st)
           q == st.visible_lines - line
<1>0. /\ st.len \in Nat /\ n \in Nat /\ st.zero \in Nat /\ st.zero < n
      /\ st.len <= n /\ st.visible_lines \in Nat
  BY DEF Ring, StorageType, Capacity
<1>1. q \in 1 .. st.len
  BY <1>0 DEF ValidLine
<1>2. compute_index(st, line) = Wrap(st, st.zero + q - 1)
  <2>1. st.zero + (-(line - st.visible_lines) - 1) = st.zero + q - 1
    BY <1>0
  <2> QED BY <2>1 DEF compute_index
<1>3. Wrap(st, st.zero + q - 1) + 1 \in 1 .. n
  BY <1>0, <1>1 DEF Wrap
<1>4. ASSUME NEW p \in 1 .. st.len,
             Wrap(st, st.zero + p - 1) + 1 = Wrap(st, st.zero + q - 1) + 1
      PROVE  p = q
  <2> HIDE DEF q, n
  <2> QED BY <1>0, <1>1, <1>4 DEF Wrap, n
<1> QED
  BY <1>1, <1>2, <1>3, <1>4 DEF Slot

(* swap exchanges two lines and touches no other. *)
LEMMA SwapStep ==
    ASSUME NEW st, Ring(st),
           NEW a \in Int, NEW b \in Int, ValidLine(st, a), ValidLine(st, b)
    PROVE  LET r == swap(st, a, b)
               pa == st.visible_lines - a
               pb == st.visible_lines - b
           IN  /\ Ring(r) /\ Capacity(r) = Capacity(st)
               /\ r.len = st.len /\ r.visible_lines = st.visible_lines
               /\ pa \in 1 .. st.len /\ pb \in 1 .. st.len
               /\ View(r)[pa] = View(st)[pb]
               /\ View(r)[pb] = View(st)[pa]
               /\ \A p \in (1 .. st.len) \ {pa, pb} : View(r)[p] = View(st)[p]
<1> DEFINE r == swap(st, a, b)
           pa == st.visible_lines - a
           pb == st.visible_lines - b
           ia == compute_index(st, a) + 1
           ib == compute_index(st, b) + 1
           n == Capacity(st)
<1>0. /\ st \in StorageType /\ st.len \in Nat /\ n \in Nat
      /\ st.inner \in Seq(Rows) /\ st.zero \in Nat /\ st.zero < n
      /\ n = Len(st.inner) /\ st.len <= n /\ 1 <= st.len /\ st.visible_lines \in Nat
  BY DEF Ring, StorageType, Capacity
<1>1. /\ ia \in 1 .. n /\ ia = Slot(st, pa) /\ pa \in 1 .. st.len
      /\ \A p \in 1 .. st.len : Slot(st, p) = ia => p = pa
  BY IndexSound
<1>2. /\ ib \in 1 .. n /\ ib = Slot(st, pb) /\ pb \in 1 .. st.len
      /\ \A p \in 1 .. st.len : Slot(st, p) = ib => p = pb
  BY IndexSound
<1>3. ia \in 1 .. n /\ ib \in 1 .. n /\ pa \in 1 .. st.len /\ pb \in 1 .. st.len
  BY <1>1, <1>2
<1> DEFINE new == [st.inner EXCEPT ![ia] = st.inner[ib], ![ib] = st.inner[ia]]
<1>4. r = [st EXCEPT !.inner = new]
  BY <1>0 DEF swap, StorageType
<1> HIDE DEF ia, ib, r
<1>5. /\ new \in Seq(Rows) /\ Len(new) = n
      /\ new[ia] = st.inner[ib] /\ new[ib] = st.inner[ia]
      /\ \A i \in 1 .. n : i # ia /\ i # ib => new[i] = st.inner[i]
  BY <1>0, <1>3
<1> HIDE DEF new
<1>6. /\ r \in StorageType /\ r.inner = new /\ r.zero = st.zero
      /\ r.len = st.len /\ r.visible_lines = st.visible_lines
  BY <1>0, <1>4, <1>5 DEF StorageType
<1>7. Ring(r) /\ Capacity(r) = n
  BY <1>0, <1>5, <1>6 DEF Ring, Capacity
<1>8. ASSUME NEW p \in 1 .. st.len
      PROVE  /\ View(r)[p] = new[Slot(st, p)]
             /\ View(st)[p] = st.inner[Slot(st, p)]
             /\ Slot(st, p) \in 1 .. n
  <2>1. View(r)[p] = r.inner[Wrap(r, r.zero + p - 1) + 1]
    BY <1>6 DEF View
  <2>2. Wrap(r, r.zero + p - 1) = Wrap(st, st.zero + p - 1)
    BY <1>6, <1>7 DEF Wrap
  <2>3. Slot(st, p) \in 1 .. n
    BY SlotInRange
  <2> QED BY <2>1, <2>2, <2>3, <1>6 DEF View, Slot
<1> HIDE DEF pa, pb
<1>9. View(r)[pa] = View(st)[pb] /\ View(r)[pb] = View(st)[pa]
  BY <1>1, <1>2, <1>3, <1>5, <1>8
<1>10. \A p \in (1 .. st.len) \ {pa, pb} : View(r)[p] = View(st)[p]
  BY <1>1, <1>2, <1>5, <1>8
<1> QED
  BY <1>3, <1>6, <1>7, <1>9, <1>10 DEF r, pa, pb

(* Writing a row through its line changes that line only. *)
LEMMA WriteStep ==
    ASSUME NEW st, Ring(st),
           NEW a \in Int, ValidLine(st, a), NEW row \in Rows
    PROVE  LET r == SetRow(st, a, row)
               pa == st.visible_lines - a
           IN  /\ Ring(r) /\ Capacity(r) = Capacity(st)
               /\ r.len = st.len /\ r.visible_lines = st.visible_lines
               /\ pa \in 1 .. st.len
               /\ View(r)[pa] = row
               /\ \A p \in (1 .. st.len) \ {pa} : View(r)[p] = View(st)[p]
<1> DEFINE r == SetRow(st, a, row)
           pa == st.visible_lines - a
           ia == compute_index(st, a) + 1
           n == Capacity(st)
<1>0. /\ st \in StorageType /\ st.len \in Nat /\ n \in Nat
      /\ st.inner \in Seq(Rows) /\ st.zero \in Nat /\ st.zero < n
      /\ n = Len(st.inner) /\ st.len <= n /\ 1 <= st.len /\ st.visible_lines \in Nat
  BY DEF Ring, StorageType, Capacity
<1>1. /\ ia \in 1 .. n /\ ia = Slot(st, pa) /\ pa \in 1 .. st.len
      /\ \A p \in 1 .. st.len : Slot(st, p) = ia => p = pa
  BY IndexSound
<1>3. ia \in 1 .. n /\ pa \in 1 .. st.len
  BY <1>1
<1> DEFINE new == [st.inner EXCEPT ![ia] = row]
<1>4. r = [st EXCEPT !.inner = new]
  BY <1>0 DEF SetRow, StorageType
<1> HIDE DEF ia, r
<1>5. /\ new \in Seq(Rows) /\ Len(new) = n /\ new[ia] = row
      /\ \A i \in 1 .. n : i # ia => new[i] = st.inner[i]
  BY <1>0, <1>3
<1> HIDE DEF new
<1>6. /\ r \in StorageType /\ r.inner = new /\ r.zero = st.zero
      /\ r.len = st.len /\ r.visible_lines = st.visible_lines
  BY <1>0, <1>4, <1>5 DEF StorageType
<1>7. Ring(r) /\ Capacity(r) = n
  BY <1>0, <1>5, <1>6 DEF Ring, Capacity
<1>8. ASSUME NEW p \in 1 .. st.len
      PROVE  /\ View(r)[p] = new[Slot(st, p)]
             /\ View(st)[p] = st.inner[Slot(st, p)]
             /\ Slot(st, p) \in 1 .. n
  <2>1. View(r)[p] = r.inner[Wrap(r, r.zero + p - 1) + 1]
    BY <1>6 DEF View
  <2>2. Wrap(r, r.zero + p - 1) = Wrap(st, st.zero + p - 1)
    BY <1>6, <1>7 DEF Wrap
  <2>3. Slot(st, p) \in 1 .. n
    BY SlotInRange
  <2> QED BY <2>1, <2>2, <2>3, <1>6 DEF View, Slot
<1> HIDE DEF pa
<1>9. View(r)[pa] = row
  BY <1>1, <1>3, <1>5, <1>8
<1>10. \A p \in (1 .. st.len) \ {pa} : View(r)[p] = View(st)[p]
  BY <1>1, <1>5, <1>8
<1> QED
  BY <1>3, <1>6, <1>7, <1>9, <1>10 DEF r, pa

-----------------------------------------------------------------------------
(* The invariant, call by call, and the simulation of RowBuffer. *)

(* The invariant is the ring bounds, the cache bound and the screen bound. *)
LEMMA IInvRing ==
    IInv <=> /\ Ring(storage) /\ Capacity(storage) <= storage.len + MAX_CACHE_SIZE
             /\ 1 <= storage.visible_lines /\ storage.visible_lines <= storage.len
BY DEF IInv, TypeOK, RingInBounds, CacheBounded, Ring, StorageType, Capacity

(* The facts about the storage that every step starts from. *)
LEMMA IInvFacts ==
    ASSUME IInv
    PROVE  /\ Ring(storage) /\ Capacity(storage) <= storage.len + MAX_CACHE_SIZE
           /\ 1 <= storage.visible_lines /\ storage.visible_lines <= storage.len
           /\ storage.len \in Nat /\ storage.visible_lines \in Nat
           /\ Capacity(storage) \in Nat
           /\ Len(View(storage)) = storage.len
BY IInvRing, ViewElements DEF Ring, StorageType, Capacity

(* with_capacity starts both levels. *)
LEMMA InitCorrect == Init => IInv /\ RowList!Init
<1> SUFFICES ASSUME NEW n \in 1 .. MaxLines, storage = with_capacity(n)
             PROVE  IInv /\ RowList!Init
  BY DEF Init
<1>1. n \in Nat /\ n >= 1 /\ MAX_CACHE_SIZE \in Nat
  BY MaxLinesAssumption, MaxCacheSizeAssumption
<1> DEFINE blank == [i \in 1 .. n |-> NewRow]
<1>2. blank \in [1 .. n -> Rows]
  BY RowsAssumption
<1>3. blank \in Seq(Rows) /\ Len(blank) = n
  BY <1>1, <1>2
<1> HIDE DEF blank
<1>4. /\ storage.inner = blank /\ storage.zero = 0 /\ storage.visible_lines = n
      /\ storage.len = n /\ storage \in StorageType
  BY <1>1, <1>3 DEF with_capacity, StorageType, blank
<1>5. IInv
  BY <1>1, <1>3, <1>4 DEF IInv, TypeOK, RingInBounds, CacheBounded, Capacity
<1> QED
  BY <1>4, <1>5, IInvFacts DEF RowList!Init

(* Growing the history extends the list at its old end. *)
LEMMA InitializeCorrect ==
    ASSUME IInv, NEW k \in 1 .. MaxLines, Initialize(k)
    PROVE  IInv' /\ RowList!Next
<1>0. k \in Nat /\ k >= 1
  BY MaxLinesAssumption
<1>1. /\ Ring(storage') /\ Capacity(storage') <= storage'.len + MAX_CACHE_SIZE
      /\ storage'.len = storage.len + k
      /\ storage'.visible_lines = storage.visible_lines
      /\ \A p \in 1 .. storage.len : View(storage')[p] = View(storage)[p]
  BY <1>0, IInvFacts, InitializeStep DEF Initialize
<1>2. IInv'
  BY <1>0, <1>1, IInvFacts DEF IInv, TypeOK, RingInBounds, CacheBounded, Ring
<1>3. Len(View(storage')) = storage'.len
  BY <1>1, ViewElements
<1>4. RowList!Resize
  BY <1>0, <1>1, <1>3, IInvFacts DEF RowList!Resize, Initialize
<1> QED
  BY <1>2, <1>4 DEF RowList!Next

(* Giving up history cuts the list at its old end. *)
LEMMA ShrinkLinesCorrect ==
    ASSUME IInv, NEW k \in 0 .. MaxLines, ShrinkLines(k)
    PROVE  IInv' /\ RowList!Next
<1>0. k \in Nat /\ k < storage.len /\ k <= storage.len - storage.visible_lines
  BY MaxLinesAssumption, IInvFacts DEF ShrinkLines, history_size
<1>1. /\ Ring(storage') /\ Capacity(storage') <= storage'.len + MAX_CACHE_SIZE
      /\ storage'.len = storage.len - k
      /\ storage'.visible_lines = storage.visible_lines
      /\ \A p \in 1 .. storage.len - k : View(storage')[p] = View(storage)[p]
  BY <1>0, IInvFacts, ShrinkStep DEF ShrinkLines
<1>2. IInv'
  BY <1>0, <1>1, IInvFacts DEF IInv, TypeOK, RingInBounds, CacheBounded, Ring
<1>3. Len(View(storage')) = storage'.len
  BY <1>1, ViewElements
<1>4. RowList!Resize
  BY <1>0, <1>1, <1>3, IInvFacts DEF RowList!Resize, ShrinkLines
<1> QED
  BY <1>2, <1>4 DEF RowList!Next

(* Rotating, in either direction, shifts the list. *)
LEMMA RotateCorrect ==
    ASSUME IInv, NEW c \in -MaxLines .. MaxLines, Rotate(c)
    PROVE  IInv' /\ RowList!Next
<1>0. c \in Int /\ c <= storage.len /\ -c <= storage.len
  BY MaxLinesAssumption, IInvFacts DEF Rotate
<1>1. /\ Ring(storage') /\ Capacity(storage') = Capacity(storage)
      /\ storage'.len = storage.len
      /\ storage'.visible_lines = storage.visible_lines
      /\ c <= 0 => \A p \in 1 .. storage.len + c : View(storage')[p - c] = View(storage)[p]
      /\ c >= 0 => \A p \in c + 1 .. storage.len : View(storage')[p - c] = View(storage)[p]
  BY <1>0, IInvFacts, RotateStep DEF Rotate
<1>2. IInv'
  BY <1>0, <1>1, IInvFacts DEF IInv, TypeOK, RingInBounds, CacheBounded, Ring
<1>3. Len(View(storage')) = storage'.len
  BY <1>1, ViewElements
<1>4. RowList!Rotate
  BY <1>0, <1>1, <1>3, IInvFacts DEF RowList!Rotate, RowList!Shifted, Rotate
<1> QED
  BY <1>2, <1>4 DEF RowList!Next

(* Neither the ring nor the list depends on how much of it is on screen. *)
LEMMA ScreenIndependent ==
    ASSUME NEW st \in StorageType, NEW v \in Nat
    PROVE  LET r == [st EXCEPT !.visible_lines = v]
           IN  /\ r \in StorageType /\ Ring(r) = Ring(st) /\ Capacity(r) = Capacity(st)
               /\ r.len = st.len /\ r.visible_lines = v
               /\ View(r) = View(st)
<1> DEFINE r == [st EXCEPT !.visible_lines = v]
<1>1. /\ r \in StorageType /\ r.inner = st.inner /\ r.zero = st.zero /\ r.len = st.len
      /\ r.visible_lines = v
  BY DEF StorageType
<1> HIDE DEF r
<1>2. Capacity(r) = Capacity(st) /\ \A i : Wrap(r, i) = Wrap(st, i)
  BY <1>1 DEF Capacity, Wrap
<1>3. Ring(r) = Ring(st)
  BY <1>1, <1>2 DEF Ring
<1>4. View(r) = View(st)
  BY <1>1, <1>2 DEF View
<1> QED
  BY <1>1, <1>2, <1>3, <1>4 DEF r

(* A taller screen extends the list. *)
LEMMA GrowVisibleCorrect ==
    ASSUME IInv, NEW k \in 1 .. MaxLines, GrowVisibleLines(k)
    PROVE  IInv' /\ RowList!Next
<1> DEFINE grown == initialize(storage, k)
           v == storage.visible_lines + k
<1>0. k \in Nat /\ k >= 1 /\ v \in Nat
  BY MaxLinesAssumption, IInvFacts
<1>1. /\ Ring(grown) /\ Capacity(grown) <= grown.len + MAX_CACHE_SIZE
      /\ grown.len = storage.len + k
      /\ \A p \in 1 .. storage.len : View(grown)[p] = View(storage)[p]
  BY <1>0, IInvFacts, InitializeStep
<1>2. storage' = [grown EXCEPT !.visible_lines = v]
  <2>1. v - storage.visible_lines = k
    BY <1>0, IInvFacts
  <2> QED BY <2>1 DEF GrowVisibleLines, grow_visible_lines
<1> HIDE DEF grown, v
<1>3. grown \in StorageType
  BY <1>1 DEF Ring
<1>4. /\ storage' \in StorageType /\ Ring(storage')
      /\ Capacity(storage') = Capacity(grown)
      /\ storage'.len = grown.len /\ storage'.visible_lines = v
      /\ View(storage') = View(grown)
  BY <1>0, <1>1, <1>2, <1>3, ScreenIndependent
<1>5. v = storage.visible_lines + k
  BY DEF v
<1>6. IInv'
  BY <1>0, <1>1, <1>4, <1>5, IInvFacts DEF IInv, TypeOK, RingInBounds, CacheBounded, Ring
<1>7. Len(View(storage')) = storage'.len
  BY <1>4, ViewElements
<1>8. call'.op = "resize_screen" /\ call'.n = k
  BY DEF GrowVisibleLines
<1>9. RowList!Resize
  BY <1>0, <1>1, <1>4, <1>5, <1>7, <1>8, IInvFacts DEF RowList!Resize
<1> QED
  BY <1>6, <1>9 DEF RowList!Next

(* A shorter screen cuts the list. *)
LEMMA ShrinkVisibleCorrect ==
    ASSUME IInv, NEW k \in 1 .. MaxLines, ShrinkVisibleLines(k)
    PROVE  IInv' /\ RowList!Next
<1> DEFINE cut == shrink_lines(storage, k)
           v == storage.visible_lines - k
<1>0. /\ k \in Nat /\ k >= 1 /\ k < storage.visible_lines /\ k < storage.len
      /\ v \in Nat /\ v >= 1
  BY MaxLinesAssumption, IInvFacts DEF ShrinkVisibleLines
<1>1. /\ Ring(cut) /\ Capacity(cut) <= cut.len + MAX_CACHE_SIZE
      /\ cut.len = storage.len - k
      /\ \A p \in 1 .. storage.len - k : View(cut)[p] = View(storage)[p]
  BY <1>0, IInvFacts, ShrinkStep
<1>2. storage' = [cut EXCEPT !.visible_lines = v]
  <2>1. storage.visible_lines - v = k
    BY <1>0, IInvFacts
  <2> QED BY <2>1 DEF ShrinkVisibleLines, shrink_visible_lines
<1>5. v = storage.visible_lines - k
  BY DEF v
<1> HIDE DEF cut, v
<1>3. cut \in StorageType
  BY <1>1 DEF Ring
<1>4. /\ storage' \in StorageType /\ Ring(storage')
      /\ Capacity(storage') = Capacity(cut)
      /\ storage'.len = cut.len /\ storage'.visible_lines = v
      /\ View(storage') = View(cut)
  BY <1>0, <1>1, <1>2, <1>3, ScreenIndependent
<1>6. IInv'
  BY <1>0, <1>1, <1>4, <1>5, IInvFacts DEF IInv, TypeOK, RingInBounds, CacheBounded, Ring
<1>7. Len(View(storage')) = storage'.len
  BY <1>4, ViewElements
<1>8. call'.op = "resize_screen" /\ call'.n = -k
  BY DEF ShrinkVisibleLines
<1>9. RowList!Resize
  BY <1>0, <1>1, <1>4, <1>5, <1>7, <1>8, IInvFacts DEF RowList!Resize
<1> QED
  BY <1>6, <1>9 DEF RowList!Next

(* rotate_down shifts the list as rotate does. *)
LEMMA RotateDownCorrect ==
    ASSUME IInv, NEW c \in 1 .. MaxLines, RotateDown(c)
    PROVE  IInv' /\ RowList!Next
<1>0. c \in Nat /\ c \in Int /\ c >= 1 /\ c <= storage.len /\ -c <= storage.len
  BY MaxLinesAssumption, IInvFacts DEF RotateDown
<1>1. storage' = rotate(storage, c)
  BY <1>0, IInvFacts, RotateDownIsRotate DEF RotateDown
<1>2. /\ Ring(storage') /\ Capacity(storage') = Capacity(storage)
      /\ storage'.len = storage.len
      /\ storage'.visible_lines = storage.visible_lines
      /\ c >= 0 => \A p \in c + 1 .. storage.len : View(storage')[p - c] = View(storage)[p]
  BY <1>0, <1>1, IInvFacts, RotateStep
<1>3. IInv'
  BY <1>0, <1>2, IInvFacts DEF IInv, TypeOK, RingInBounds, CacheBounded, Ring
<1>4. Len(View(storage')) = storage'.len
  BY <1>2, ViewElements
<1>5. RowList!Rotate
  BY <1>0, <1>2, <1>4, IInvFacts DEF RowList!Rotate, RowList!Shifted, RotateDown
<1> QED
  BY <1>3, <1>5 DEF RowList!Next

(* swap exchanges two rows of the list. *)
LEMMA SwapCorrect ==
    ASSUME IInv, NEW a \in -MaxLines .. MaxLines, NEW b \in -MaxLines .. MaxLines, Swap(a, b)
    PROVE  IInv' /\ RowList!Next
<1> DEFINE pa == Position(a)
           pb == Position(b)
<1>0. a \in Int /\ b \in Int /\ ValidLine(storage, a) /\ ValidLine(storage, b)
  BY MaxLinesAssumption DEF Swap
<1>1. /\ Ring(storage') /\ Capacity(storage') = Capacity(storage)
      /\ storage'.len = storage.len
      /\ storage'.visible_lines = storage.visible_lines
      /\ pa \in 1 .. storage.len /\ pb \in 1 .. storage.len
      /\ View(storage')[pa] = View(storage)[pb]
      /\ View(storage')[pb] = View(storage)[pa]
      /\ \A p \in (1 .. storage.len) \ {pa, pb} : View(storage')[p] = View(storage)[p]
  BY <1>0, IInvFacts, SwapStep DEF Swap, Position
<1>2. IInv'
  BY <1>1, IInvFacts DEF IInv, TypeOK, RingInBounds, CacheBounded, Ring
<1>3. Len(View(storage')) = storage'.len
  BY <1>1, ViewElements
<1> HIDE DEF pa, pb
<1>4. call'.op = "swap" /\ call'.n[1] = pa /\ call'.n[2] = pb
  BY DEF Swap, pa, pb
<1>5. \A p \in (1 .. storage.len) \ {pa, pb} : p + 0 = p
  BY IInvFacts
<1>6. RowList!Exchange
  BY <1>1, <1>3, <1>4, <1>5, IInvFacts DEF RowList!Exchange, RowList!Shifted
<1> QED
  BY <1>2, <1>6 DEF RowList!Next

(* A write overwrites one row of the list. *)
LEMMA WriteCorrect ==
    ASSUME IInv, NEW a \in -MaxLines .. MaxLines, NEW row \in Rows, Write(a, row)
    PROVE  IInv' /\ RowList!Next
<1> DEFINE pa == Position(a)
<1>0. a \in Int /\ ValidLine(storage, a)
  BY MaxLinesAssumption DEF Write
<1>1. /\ Ring(storage') /\ Capacity(storage') = Capacity(storage)
      /\ storage'.len = storage.len
      /\ storage'.visible_lines = storage.visible_lines
      /\ pa \in 1 .. storage.len
      /\ View(storage')[pa] = row
      /\ \A p \in (1 .. storage.len) \ {pa} : View(storage')[p] = View(storage)[p]
  BY <1>0, IInvFacts, WriteStep DEF Write, Position
<1>2. IInv'
  BY <1>1, IInvFacts DEF IInv, TypeOK, RingInBounds, CacheBounded, Ring
<1>3. Len(View(storage')) = storage'.len
  BY <1>1, ViewElements
<1> HIDE DEF pa
<1>4. call'.op = "write" /\ call'.n = pa /\ call'.row = row
  BY DEF Write, pa
<1>5. \A p \in (1 .. storage.len) \ {pa} : p + 0 = p
  BY IInvFacts
<1>6. RowList!Overwrite
  BY <1>1, <1>3, <1>4, <1>5, IInvFacts DEF RowList!Overwrite, RowList!Shifted
<1> QED
  BY <1>2, <1>6 DEF RowList!Next

(* replace_inner installs a new list. *)
LEMMA ReplaceCorrect ==
    ASSUME IInv, NEW vec \in RowLists, ReplaceInner(vec)
    PROVE  IInv' /\ RowList!Next
<1>0. vec \in Seq(Rows) /\ Len(vec) \in Nat /\ Len(vec) >= storage.visible_lines
  BY MaxLinesAssumption DEF RowLists, ReplaceInner
<1>1. /\ storage' \in StorageType /\ storage'.inner = vec /\ storage'.zero = 0
      /\ storage'.len = Len(vec) /\ storage'.visible_lines = storage.visible_lines
  BY <1>0, IInvFacts DEF ReplaceInner, replace_inner, StorageType, Ring
<1>2. Ring(storage') /\ Capacity(storage') = Len(vec)
  BY <1>0, <1>1, IInvFacts DEF Ring, Capacity
<1>3. IInv'
  BY <1>0, <1>1, <1>2, IInvFacts, MaxCacheSizeAssumption
     DEF IInv, TypeOK, RingInBounds, CacheBounded, Ring
<1>4. View(storage') = vec
  <2>1. ASSUME NEW p \in 1 .. Len(vec)
        PROVE  storage'.inner[Wrap(storage', storage'.zero + p - 1) + 1] = vec[p]
    <3>1. Wrap(storage', storage'.zero + p - 1) + 1 = p
      BY <1>0, <1>1, <1>2 DEF Wrap
    <3> QED BY <1>1, <3>1
  <2>2. View(storage') = [p \in 1 .. Len(vec) |-> vec[p]]
    BY <1>1, <2>1 DEF View
  <2> QED BY <1>0, <2>2
<1>5. RowList!Replace
  BY <1>1, <1>4 DEF RowList!Replace, ReplaceInner
<1> QED
  BY <1>3, <1>5 DEF RowList!Next

(* One step per call: the invariant is kept and the list spec is simulated. *)
LEMMA NextCorrect == IInv /\ [Next]_vars => IInv' /\ [RowList!Next]_RowList!vars
<1> SUFFICES ASSUME IInv, [Next]_vars
             PROVE  IInv' /\ [RowList!Next]_RowList!vars
  OBVIOUS
<1>1. CASE \E k \in 1 .. MaxLines : Initialize(k)
  BY <1>1, InitializeCorrect
<1>2. CASE \E k \in 0 .. MaxLines : ShrinkLines(k)
  BY <1>2, ShrinkLinesCorrect
<1>3. CASE \E k \in 1 .. MaxLines : GrowVisibleLines(k)
  BY <1>3, GrowVisibleCorrect
<1>4. CASE \E k \in 1 .. MaxLines : ShrinkVisibleLines(k)
  BY <1>4, ShrinkVisibleCorrect
<1>5. CASE \E c \in -MaxLines .. MaxLines : Rotate(c)
  BY <1>5, RotateCorrect
<1>6. CASE \E c \in 1 .. MaxLines : RotateDown(c)
  BY <1>6, RotateDownCorrect
<1>7. CASE \E a, b \in -MaxLines .. MaxLines : Swap(a, b)
  BY <1>7, SwapCorrect
<1>8. CASE \E l \in -MaxLines .. MaxLines, r \in Rows : Write(l, r)
  BY <1>8, WriteCorrect
<1>9. CASE \E vec \in RowLists : ReplaceInner(vec)
  BY <1>9, ReplaceCorrect
<1>10. CASE UNCHANGED vars
  <2>1. storage' = storage /\ call' = call
    BY <1>10 DEF vars
  <2>2. IInv'
    BY <2>1 DEF IInv, TypeOK, RingInBounds, CacheBounded
  <2>3. View(storage') = View(storage)
    BY <2>1
  <2> QED BY <2>1, <2>2, <2>3 DEF RowList!vars
<1> QED
  BY <1>1, <1>2, <1>3, <1>4, <1>5, <1>6, <1>7, <1>8, <1>9, <1>10 DEF Next

-----------------------------------------------------------------------------
(* The theorems. *)

(* The inductive invariant holds of every behaviour. *)
LEMMA InvariantHolds == Spec => []IInv
<1>1. Init => IInv
  BY InitCorrect
<1>2. IInv /\ [Next]_vars => IInv'
  BY NextCorrect
<1> QED
  BY <1>1, <1>2, PTL DEF Spec

(* Every field of the storage keeps its type. *)
THEOREM TypeCorrect == Spec => []TypeOK
<1>1. IInv => TypeOK
  BY DEF IInv
<1> QED
  BY <1>1, InvariantHolds, PTL

(* compute_index never leaves the allocation: offset, screen and active    *)
(* rows stay within the capacity through any sequence of calls.            *)
THEOREM RingCorrect == Spec => []RingInBounds
<1>1. IInv => RingInBounds
  BY DEF IInv
<1> QED
  BY <1>1, InvariantHolds, PTL

(* At most MAX_CACHE_SIZE rows are allocated beyond the active ones,       *)
(* although shrink_lines frees lazily and initialize allocates in strides. *)
THEOREM CacheCorrect == Spec => []CacheBounded
<1>1. IInv => CacheBounded
  BY DEF IInv
<1> QED
  BY <1>1, InvariantHolds, PTL

(* No two lines share a row, although compute_index wraps by a single      *)
(* subtraction instead of a remainder.                                     *)
THEOREM AliasCorrect == Spec => []LinesDoNotAlias
<1>1. IInv => LinesDoNotAlias
  <2> SUFFICES ASSUME IInv, NEW a \in Lines(storage), NEW b \in Lines(storage)
               PROVE  /\ compute_index(storage, a) \in 0 .. Capacity(storage) - 1
                      /\ a # b => compute_index(storage, a) # compute_index(storage, b)
    BY DEF LinesDoNotAlias
  <2>1. a \in Int /\ b \in Int /\ ValidLine(storage, a) /\ ValidLine(storage, b)
    BY IInvFacts DEF Lines, ValidLine
  <2>2. /\ storage.visible_lines - a \in 1 .. storage.len
        /\ compute_index(storage, a) + 1 \in 1 .. Capacity(storage)
        /\ compute_index(storage, a) + 1 = Slot(storage, storage.visible_lines - a)
    BY <2>1, IInvFacts, IndexSound
  <2>3. \A p \in 1 .. storage.len :
           Slot(storage, p) = compute_index(storage, b) + 1 => p = storage.visible_lines - b
    BY <2>1, IInvFacts, IndexSound
  <2>4. compute_index(storage, a) \in Int
    BY <2>1, IInvFacts DEF compute_index, Wrap, Ring, StorageType
  <2>5. compute_index(storage, a) \in 0 .. Capacity(storage) - 1
    BY <2>2, <2>4, IInvFacts
  <2>6. compute_index(storage, a) = compute_index(storage, b) => a = b
    BY <2>1, <2>2, <2>3, IInvFacts
  <2> QED BY <2>5, <2>6
<1> QED
  BY <1>1, InvariantHolds, PTL

(* What a column resize takes out is the active rows in order. *)
THEOREM TakeAllCorrect == Spec => []TakeAllIsView
<1>1. IInv => TakeAllIsView
  <2> SUFFICES ASSUME IInv PROVE truncate(storage).inner = View(storage)
    BY DEF TakeAllIsView, take_all
  <2>1. /\ truncate(storage) \in StorageType
        /\ Len(truncate(storage).inner) = storage.len
        /\ \A i \in 1 .. storage.len : truncate(storage).inner[i]
              = storage.inner[Wrap(storage, storage.zero + i - 1) + 1]
    BY IInvFacts, TruncateRing DEF Capacity
  <2>2. truncate(storage).inner \in Seq(Rows)
    BY <2>1 DEF StorageType
  <2>3. /\ View(storage) \in Seq(Rows) /\ Len(View(storage)) = storage.len
        /\ \A p \in 1 .. storage.len : View(storage)[p]
              = storage.inner[Wrap(storage, storage.zero + p - 1) + 1]
    BY IInvFacts, ViewElements
  <2> DEFINE t == truncate(storage).inner
             w == View(storage)
  <2>4. /\ t \in Seq(Rows) /\ w \in Seq(Rows) /\ Len(t) = Len(w)
        /\ \A i \in 1 .. Len(t) : t[i] = w[i]
    BY <2>1, <2>2, <2>3
  <2> HIDE DEF t, w
  <2>5. t = w
    BY ONLY <2>4, SeqEqual
  <2> QED BY <2>5 DEF t, w
<1> QED
  BY <1>1, InvariantHolds, PTL

(* The ring buffer implements the plain list of rows: every call does to   *)
(* the list what RowBuffer says it does.                                   *)
THEOREM ListCorrect == Spec => RowListSpec
<1>1. Init => RowList!Init
  BY InitCorrect
<1>2. IInv /\ [Next]_vars => [RowList!Next]_RowList!vars
  BY NextCorrect
<1> QED
  BY <1>1, <1>2, InvariantHolds, PTL DEF Spec, RowListSpec, RowList!Spec
=============================================================================
