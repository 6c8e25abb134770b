--------------------------- MODULE ContextProofs ---------------------------
(***************************************************************************)
(* What module ContextManager promises, proved for any number of tabs,     *)
(* panels and routes.  The heart is that the operations of a layout keep   *)
(* it a tree.  A path or the set of what hangs below a node is a recursive *)
(* notion, so the invariant does not speak of it: it only says that the    *)
(* layout has some function up, the parent of every node but the root, and *)
(* some rank that falls on the way down (Linked).  Each operation of       *)
(* Layout shows its own up and rank for the tree it builds.  That all      *)
(* nodes then hang below the root, which is what LayoutSound asks of the   *)
(* code, is proved once, by a least counterexample in the rank             *)
(* (TreeReachesAll).                                                       *)
(***************************************************************************)
EXTENDS ContextManager, SequenceTheorems, FiniteSetTheorems, FunctionTheorems,
        WellFoundedInduction, TLAPS

(* A nonempty set of naturals has a least element. *)
LEMMA Least ==
    ASSUME NEW T, T \subseteq Nat, T # {}
    PROVE  \E x \in T : \A y \in T : x <= y
<1>1. PICK x \in T : \A y \in T : ~(<<y, x>> \in OpToRel(<, Nat))
  BY NatLessThanWellFounded, WFMin
<1>2. \A y \in T : x <= y
  <2> SUFFICES ASSUME NEW y \in T PROVE x <= y
    OBVIOUS
  <2>1. ~(y < x)
    BY <1>1 DEF OpToRel
  <2> QED BY <2>1
<1> QED
  BY <1>2

-----------------------------------------------------------------------------
(* The children of a container.                                            *)

(* What replacing a child by nodes, or none, makes of the children ch. *)
Replaced(ch, child, nodes, r) ==
    /\ r \in Seq(Int) /\ IsInjective(r)
    /\ Range(r) = (Range(ch) \ {child}) \cup IF child \in Range(ch) THEN Range(nodes) ELSE {}
    /\ child \in Range(ch) => Len(r) = Len(ch) + Len(nodes) - 1
    /\ child \notin Range(ch) => Len(r) = Len(ch)

(* Sequences without a member in common keep their members apart. *)
LEMMA ConcatOnce ==
    ASSUME NEW s \in Seq(Int), NEW t \in Seq(Int), IsInjective(s), IsInjective(t),
           Range(s) \cap Range(t) = {}
    PROVE  /\ s \o t \in Seq(Int) /\ IsInjective(s \o t)
           /\ Range(s \o t) = Range(s) \cup Range(t) /\ Len(s \o t) = Len(s) + Len(t)
<1> DEFINE u == s \o t
           m == Len(s)
           n == Len(t)
<1>1. /\ m \in Nat /\ n \in Nat /\ DOMAIN s = 1 .. m /\ DOMAIN t = 1 .. n
      /\ u \in Seq(Int) /\ DOMAIN u = 1 .. m + n /\ Len(u) = m + n
      /\ \A i \in 1 .. m + n : u[i] = IF i <= m THEN s[i] ELSE t[i - m]
  BY ConcatProperties, LenProperties
<1> HIDE DEF u, m, n
<1>2. \A i \in 1 .. m : u[i] = s[i] /\ i \in 1 .. m + n
  BY <1>1
<1>3. \A i \in 1 .. n : u[m + i] = t[i] /\ m + i \in 1 .. m + n
  BY <1>1
<1>4. \A i \in 1 .. m + n : i \in 1 .. m \/ (i - m \in 1 .. n /\ i = m + (i - m))
  BY <1>1
<1>5. Range(u) = Range(s) \cup Range(t)
  <2>1. ASSUME NEW i \in 1 .. m + n PROVE u[i] \in Range(s) \cup Range(t)
    <3>1. CASE i \in 1 .. m
      BY <1>1, <1>2, <3>1 DEF Range
    <3>2. CASE i - m \in 1 .. n /\ i = m + (i - m)
      <4>1. u[i] = t[i - m]
        BY <1>3, <3>2
      <4> QED
        BY <1>1, <3>2, <4>1 DEF Range
    <3> QED
      BY <1>4, <3>1, <3>2
  <2>2. ASSUME NEW i \in 1 .. m PROVE s[i] \in Range(u)
    BY <1>1, <1>2 DEF Range
  <2>3. ASSUME NEW i \in 1 .. n PROVE t[i] \in Range(u)
    BY <1>1, <1>3 DEF Range
  <2>4. Range(u) = {u[i] : i \in 1 .. m + n}
    BY <1>1 DEF Range
  <2>5. Range(s) = {s[i] : i \in 1 .. m} /\ Range(t) = {t[i] : i \in 1 .. n}
    BY <1>1 DEF Range
  <2> QED
    BY ONLY <2>1, <2>2, <2>3, <2>4, <2>5
<1>6. IsInjective(u)
  <2> SUFFICES ASSUME NEW i \in 1 .. m + n, NEW j \in 1 .. m + n, u[i] = u[j] PROVE i = j
    BY <1>1 DEF IsInjective
  <2>1. CASE i \in 1 .. m /\ j \in 1 .. m
    BY <1>1, <1>2, <2>1 DEF IsInjective
  <2>2. CASE i \in 1 .. m /\ j - m \in 1 .. n /\ j = m + (j - m)
    <3>1. u[i] = s[i] /\ u[j] = t[j - m]
      BY <1>2, <1>3, <2>2
    <3>2. s[i] \in Range(s) /\ t[j - m] \in Range(t)
      BY <1>1, <2>2 DEF Range
    <3> QED
      BY <3>1, <3>2
  <2>3. CASE i - m \in 1 .. n /\ i = m + (i - m) /\ j \in 1 .. m
    <3>1. u[j] = s[j] /\ u[i] = t[i - m]
      BY <1>2, <1>3, <2>3
    <3>2. s[j] \in Range(s) /\ t[i - m] \in Range(t)
      BY <1>1, <2>3 DEF Range
    <3> QED
      BY <3>1, <3>2
  <2>4. CASE i - m \in 1 .. n /\ j - m \in 1 .. n
    <3>1. t[i - m] = t[j - m]
      BY <1>1, <2>4
    <3>2. i - m = j - m
      BY <1>1, <2>4, <3>1 DEF IsInjective
    <3> QED
      BY <1>1, <3>2
  <2> QED
    BY <1>4, <2>1, <2>2, <2>3, <2>4
<1> QED
  BY <1>1, <1>5, <1>6 DEF u, m, n

(* Sequences of one member. *)
LEMMA Single ==
    ASSUME NEW x \in Int
    PROVE  <<x>> \in Seq(Int) /\ IsInjective(<<x>>) /\ Range(<<x>>) = {x} /\ Len(<<x>>) = 1
BY DEF IsInjective, Range

(* The index at which a child is found. *)
LEMMA IndexFacts ==
    ASSUME NEW ch \in Seq(Int), IsInjective(ch), NEW child \in Int
    PROVE  LET idx == SelectInSeq(ch, LAMBDA n : n = child)
           IN  IF child \in Range(ch) THEN idx \in 1 .. Len(ch) /\ ch[idx] = child ELSE idx = 0
<1> DEFINE I == {i \in 1 .. Len(ch) : ch[i] = child}
           idx == SelectInSeq(ch, LAMBDA n : n = child)
<1>1. idx = IF I # {} THEN Min(I) ELSE 0
  BY DEF SelectInSeq
<1>2. DOMAIN ch = 1 .. Len(ch) /\ Len(ch) \in Nat
  OBVIOUS
<1>3. CASE child \notin Range(ch)
  <2>1. I = {}
    BY <1>2, <1>3 DEF Range
  <2> HIDE DEF I, idx
  <2> QED
    BY <1>1, <1>3, <2>1 DEF idx
<1>4. CASE child \in Range(ch)
  <2>1. PICK k \in 1 .. Len(ch) : ch[k] = child
    BY <1>2, <1>4 DEF Range
  <2>2. I = {k}
    BY <1>2, <2>1 DEF IsInjective
  <2>3. Min({k}) = k
    BY <1>2 DEF Min
  <2> HIDE DEF I, idx
  <2>4. idx = k
    BY <1>1, <2>2, <2>3
  <2> QED
    BY <1>4, <2>1, <2>4 DEF idx
<1> QED
  BY <1>3, <1>4

(* What is left of and what is right of an index. *)
LEMMA AroundIndex ==
    ASSUME NEW ch \in Seq(Int), IsInjective(ch), NEW k \in 1 .. Len(ch)
    PROVE  LET left == SubSeq(ch, 1, k - 1)
               right == SubSeq(ch, k + 1, Len(ch))
           IN  /\ left \in Seq(Int) /\ IsInjective(left) /\ Len(left) = k - 1
               /\ right \in Seq(Int) /\ IsInjective(right) /\ Len(right) = Len(ch) - k
               /\ Range(left) \cap Range(right) = {}
               /\ Range(left) \cup Range(right) = Range(ch) \ {ch[k]}
<1> DEFINE left == SubSeq(ch, 1, k - 1)
           right == SubSeq(ch, k + 1, Len(ch))
           n == Len(ch)
<1>1. n \in Nat /\ DOMAIN ch = 1 .. n /\ k \in 1 .. n /\ \A i \in 1 .. n : ch[i] \in Int
  OBVIOUS
<1> HIDE DEF n
<1>2. left \in Seq(Int) /\ Len(left) = k - 1 /\ \A i \in 1 .. k - 1 : left[i] = ch[i]
  <2>1. 1 \in Int /\ k - 1 \in Int /\ \A i \in 1 .. k - 1 : ch[i] \in Int
    BY <1>1
  <2>2. /\ left \in Seq(Int) /\ Len(left) = IF 1 <= k - 1 THEN k - 1 - 1 + 1 ELSE 0
        /\ \A i \in 1 .. k - 1 - 1 + 1 : left[i] = ch[1 + i - 1]
    BY ONLY <2>1, SubSeqProperties
  <2> HIDE DEF left
  <2> QED
    BY <1>1, <2>2
<1>3. right \in Seq(Int) /\ Len(right) = n - k /\ \A i \in 1 .. n - k : right[i] = ch[k + i]
  <2>1. k + 1 \in Int /\ n \in Int /\ \A i \in k + 1 .. n : ch[i] \in Int
    BY <1>1
  <2>2. PICK r : r = SubSeq(ch, k + 1, n)
    OBVIOUS
  <2>3. /\ r \in Seq(Int) /\ Len(r) = IF k + 1 <= n THEN n - (k + 1) + 1 ELSE 0
        /\ \A i \in 1 .. n - (k + 1) + 1 : r[i] = ch[k + 1 + i - 1]
    BY ONLY <2>1, <2>2, SubSeqProperties
  <2>4. Len(r) = n - k /\ \A i \in 1 .. n - k : r[i] = ch[k + i]
    <3>1. \A i \in 1 .. n - k : i \in 1 .. n - (k + 1) + 1 /\ k + 1 + i - 1 = k + i
      BY <1>1
    <3> QED
      BY <1>1, <2>3, <3>1
  <2> QED
    BY <2>2, <2>3, <2>4 DEF n
<1> HIDE DEF left, right
<1>4. \A i, j \in 1 .. n : ch[i] = ch[j] => i = j
  BY <1>1 DEF IsInjective
<1>5. DOMAIN left = 1 .. k - 1 /\ DOMAIN right = 1 .. n - k
  BY <1>1, <1>2, <1>3
<1>6. IsInjective(left) /\ IsInjective(right)
  <2>1. ASSUME NEW i \in 1 .. k - 1, NEW j \in 1 .. k - 1, left[i] = left[j] PROVE i = j
    BY <1>1, <1>2, <1>4, <2>1
  <2>2. ASSUME NEW i \in 1 .. n - k, NEW j \in 1 .. n - k, right[i] = right[j] PROVE i = j
    <3>1. k + i \in 1 .. n /\ k + j \in 1 .. n /\ ch[k + i] = ch[k + j]
      BY <1>1, <1>3, <2>2
    <3> QED
      BY <1>1, <1>4, <3>1
  <2> QED
    BY <1>5, <2>1, <2>2 DEF IsInjective
<1>7. Range(left) = {ch[i] : i \in 1 .. k - 1}
  BY <1>2, <1>5 DEF Range
<1>8. Range(right) = {ch[i] : i \in k + 1 .. n}
  <2>1. \A i \in 1 .. n - k : k + i \in k + 1 .. n
    BY <1>1
  <2>2. \A i \in k + 1 .. n : i - k \in 1 .. n - k /\ k + (i - k) = i
    BY <1>1
  <2>3. ASSUME NEW x \in Range(right) PROVE x \in {ch[i] : i \in k + 1 .. n}
    BY <1>3, <1>5, <2>1 DEF Range
  <2>4. ASSUME NEW i \in k + 1 .. n PROVE ch[i] \in Range(right)
    <3>1. right[i - k] = ch[i]
      BY <1>3, <2>2
    <3> QED
      BY <1>5, <2>2, <3>1 DEF Range
  <2> QED
    BY <2>3, <2>4
<1>9. Range(ch) = {ch[i] : i \in 1 .. n}
  BY <1>1 DEF Range
<1>10. \A i \in 1 .. n : i \in 1 .. k - 1 \/ i = k \/ i \in k + 1 .. n
  BY <1>1
<1>11. Range(left) \cap Range(right) = {}
  BY <1>1, <1>4, <1>7, <1>8
<1>12. Range(left) \cup Range(right) = Range(ch) \ {ch[k]}
  <2>1. \A i \in 1 .. k - 1 : i \in 1 .. n /\ i # k
    BY <1>1
  <2>2. \A i \in k + 1 .. n : i \in 1 .. n /\ i # k
    BY <1>1
  <2> QED
    BY <1>1, <1>4, <1>7, <1>8, <1>9, <1>10, <2>1, <2>2
<1> QED
  BY <1>2, <1>3, <1>6, <1>11, <1>12 DEF left, right, n

(* The children that are left and the ones that replace one of them. *)
LEMMA ReplaceFacts ==
    ASSUME NEW ch \in Seq(Int), IsInjective(ch), NEW child \in Int, NEW nodes \in Seq(Int),
           IsInjective(nodes), Range(nodes) \cap Range(ch) = {}
    PROVE  Replaced(ch, child, nodes, ReplaceChild(ch, child, nodes))
<1>1. PICK idx : idx = SelectInSeq(ch, LAMBDA n : n = child)
  OBVIOUS
<1>2. IF child \in Range(ch) THEN idx \in 1 .. Len(ch) /\ ch[idx] = child ELSE idx = 0
  BY <1>1, IndexFacts
<1>3. ReplaceChild(ch, child, nodes)
        = IF idx = 0 THEN ch
          ELSE SubSeq(ch, 1, idx - 1) \o nodes \o SubSeq(ch, idx + 1, Len(ch))
  BY <1>1 DEF ReplaceChild
<1>4. CASE child \notin Range(ch)
  BY <1>2, <1>3, <1>4 DEF Replaced
<1>5. CASE child \in Range(ch)
  <2>1. PICK left, right : left = SubSeq(ch, 1, idx - 1) /\ right = SubSeq(ch, idx + 1, Len(ch))
    OBVIOUS
  <2>2. /\ left \in Seq(Int) /\ IsInjective(left) /\ Len(left) = idx - 1
        /\ right \in Seq(Int) /\ IsInjective(right) /\ Len(right) = Len(ch) - idx
        /\ Range(left) \cap Range(right) = {}
        /\ Range(left) \cup Range(right) = Range(ch) \ {child}
    BY <1>2, <1>5, <2>1, AroundIndex
  <2>3. PICK r : r = left \o nodes
    OBVIOUS
  <2>4. /\ r \in Seq(Int) /\ IsInjective(r)
        /\ Range(r) = Range(left) \cup Range(nodes) /\ Len(r) = Len(left) + Len(nodes)
    <3>1. Range(left) \cap Range(nodes) = {}
      BY <2>2
    <3> QED
      BY ONLY <2>2, <2>3, <3>1, nodes \in Seq(Int), IsInjective(nodes), ConcatOnce
  <2>5. PICK s : s = r \o right
    OBVIOUS
  <2>6. /\ s \in Seq(Int) /\ IsInjective(s)
        /\ Range(s) = Range(r) \cup Range(right) /\ Len(s) = Len(r) + Len(right)
    <3>1. Range(r) \cap Range(right) = {}
      BY <2>2, <2>4
    <3> QED
      BY ONLY <2>2, <2>4, <2>5, <3>1, ConcatOnce
  <2>7. ReplaceChild(ch, child, nodes) = s
    <3>1. idx # 0
      BY <1>2, <1>5
    <3> QED
      BY <1>3, <2>1, <2>3, <2>5, <3>1
  <2>8. Len(s) = Len(ch) + Len(nodes) - 1
    <3>1. Len(ch) \in Nat /\ Len(nodes) \in Nat /\ idx \in 1 .. Len(ch)
      BY <1>2, <1>5
    <3> QED
      BY <2>2, <2>4, <2>6, <3>1
  <2>9. Range(s) = (Range(ch) \ {child}) \cup Range(nodes)
    BY <2>2, <2>4, <2>6
  <2> QED
    BY <1>5, <2>6, <2>7, <2>8, <2>9 DEF Replaced
<1> QED
  BY <1>4, <1>5

-----------------------------------------------------------------------------
(* Containers that give their place away.                                  *)

(* The containers that give their place away. *)
Thin(g) == {c \in Containers(g) \ {root_node} : Len(g.kids[c]) <= 1}

(* Folding over a set of at most one container. *)
Folding(g, S, f) ==
    f = [s \in SUBSET S |-> IF s = {} THEN g
                            ELSE LET c == CHOOSE x \in s : TRUE IN WithoutContainer(f[s \ {c}], c)]

(* The folding is a recursive function over the subsets of the containers  *)
(* that go.                                                                *)
LEMMA CollapseDef ==
    ASSUME NEW g
    PROVE  collapse_single_child_containers(g) = (CHOOSE f : Folding(g, Thin(g), f))[Thin(g)]
BY DEF collapse_single_child_containers, FoldSet, MapThenFoldSet, Folding, Thin

(* Without such a container nothing changes.                               *)
LEMMA CollapseNone ==
    ASSUME NEW g, Thin(g) = {}
    PROVE  collapse_single_child_containers(g) = g
<1> DEFINE f == [s \in SUBSET {} |-> g]
           h == CHOOSE f1 : Folding(g, {}, f1)
<1>1. SUBSET {} = {{}}
  OBVIOUS
<1>2. Folding(g, {}, f)
  BY DEF Folding
<1>3. Folding(g, {}, h)
  BY <1>2
<1>4. h[{}] = g
  <2> HIDE DEF h
  <2> QED
    BY <1>3 DEF Folding
<1> QED
  BY <1>4, CollapseDef

(* A single such container gives its place to its children: a removal      *)
(* leaves at most one, and a fold over one element needs no order.         *)
LEMMA CollapseOne ==
    ASSUME NEW g, NEW c, Thin(g) = {c}
    PROVE  collapse_single_child_containers(g) = WithoutContainer(g, c)
<1> DEFINE f == [s \in SUBSET {c} |-> IF s = {} THEN g ELSE WithoutContainer(g, c)]
           h == CHOOSE f1 : Folding(g, {c}, f1)
<1>1. \A s \in SUBSET {c} : s # {} => s = {c} /\ (CHOOSE x \in s : TRUE) = c /\ s \ {c} = {}
  OBVIOUS
<1>2. Folding(g, {c}, f)
  <2>1. \A s \in SUBSET {c} : f[s] = IF s = {} THEN g
               ELSE LET d == CHOOSE x \in s : TRUE IN WithoutContainer(f[s \ {d}], d)
    <3> TAKE s \in SUBSET {c}
    <3>1. CASE s = {}
      BY <3>1
    <3>2. CASE s # {}
      <4>1. f[s] = WithoutContainer(g, c) /\ f[{}] = g
        BY <3>2
      <4> HIDE DEF f
      <4> QED
        BY <1>1, <3>2, <4>1
    <3> QED
      BY <3>1, <3>2
  <2>2. f = [s \in SUBSET {c} |-> f[s]]
    OBVIOUS
  <2> HIDE DEF f
  <2> QED
    BY <2>1, <2>2 DEF Folding
<1>3. Folding(g, {c}, h)
  BY <1>2
<1>4. h[{c}] = WithoutContainer(g, c)
  <2> HIDE DEF h
  <2>1. h[{}] = g
    BY <1>3 DEF Folding
  <2>2. h[{c}] = WithoutContainer(h[{c} \ {c}], c)
    BY <1>1, <1>3 DEF Folding
  <2> QED
    BY <2>1, <2>2
<1> QED
  BY <1>4, CollapseDef

-----------------------------------------------------------------------------
(* Trees.                                                                  *)

(* The containers and the panels. *)
Nodes(g) == Containers(g) \cup g.inner

(* up gives the parent of every node but the root, and rank falls on the   *)
(* way down.                                                               *)
Linked(g, up, rank) ==
    /\ root_node \in Containers(g) /\ g.inner \cap Containers(g) = {}
    /\ up \in [Nodes(g) \ {root_node} -> Containers(g)]
    /\ rank \in [Nodes(g) -> Nat]
    /\ \A n \in Nodes(g) \ {root_node} : rank[n] < rank[up[n]]
    /\ \A n \in Nodes(g) : rank[n] <= rank[root_node]
    /\ \A c \in Containers(g) :
            /\ g.kids[c] \in Seq(Int) /\ IsInjective(g.kids[c])
            /\ Range(g.kids[c]) = {n \in Nodes(g) \ {root_node} : up[n] = c}

(* The children of a node are the nodes that have it as parent. *)
LEMMA KidsByParent ==
    ASSUME NEW g, NEW up, NEW rank, Linked(g, up, rank), NEW n \in Nodes(g)
    PROVE  Range(Kids(g, n)) = {m \in Nodes(g) \ {root_node} : up[m] = n}
<1>1. CASE n \in Containers(g)
  BY <1>1 DEF Linked, Kids
<1>2. CASE n \notin Containers(g)
  <2>1. Range(Kids(g, n)) = {}
    BY <1>2 DEF Kids, Range
  <2>2. \A m \in Nodes(g) \ {root_node} : up[m] # n
    BY <1>2 DEF Linked
  <2> QED
    BY <2>1, <2>2
<1> QED
  BY <1>1, <1>2

(* Parent chooses the only container that a node hangs from.               *)
LEMMA ParentIsUp ==
    ASSUME NEW g, NEW up, NEW rank, Linked(g, up, rank), NEW n \in Nodes(g) \ {root_node}
    PROVE  Parent(g, n) = up[n] /\ up[n] \in Containers(g)
<1>1. \A c \in Containers(g) : n \in Range(g.kids[c]) <=> c = up[n]
  BY DEF Linked
<1>2. up[n] \in Containers(g)
  BY DEF Linked
<1> QED
  BY <1>1, <1>2 DEF Parent

(* What a recursive definition of the nodes below a node has to satisfy,   *)
(* and what satisfies it.                                                  *)
Below(g, b) ==
    b = [n \in Nodes(g) |-> {n} \cup UNION {b[k] : k \in Range(Kids(g, n))}]

ClosedSet(g, X) == \A n \in X : Range(Kids(g, n)) \subseteq X

(* The sets of what hangs below the nodes can be built from the leaves up, *)
(* along the rank.                                                         *)
LEMMA BelowExists ==
    ASSUME NEW g, NEW up, NEW rank, Linked(g, up, rank)
    PROVE  Below(g, Subtree(g))
<1> DEFINE reach == [n \in Nodes(g) |->
              {m \in Nodes(g) : \A X \in SUBSET Nodes(g) : ClosedSet(g, X) /\ n \in X => m \in X}]
<1>1. \A n \in Nodes(g) : Range(Kids(g, n)) \subseteq Nodes(g)
  BY KidsByParent
<1>2. \A n \in Nodes(g) : reach[n] = {n} \cup UNION {reach[k] : k \in Range(Kids(g, n))}
  <2> TAKE n \in Nodes(g)
  <2> DEFINE Y == {n} \cup UNION {reach[k] : k \in Range(Kids(g, n))}
  <2>1. n \in reach[n]
    OBVIOUS
  <2>2. ASSUME NEW k \in Range(Kids(g, n)), NEW m \in reach[k] PROVE m \in reach[n]
    <3>1. k \in Nodes(g)
      BY <1>1
    <3>2. m \in Nodes(g)
      BY <2>2, <3>1
    <3>3. ASSUME NEW X \in SUBSET Nodes(g), ClosedSet(g, X), n \in X PROVE m \in X
      <4>1. k \in X
        BY <3>3 DEF ClosedSet
      <4> QED
        BY <2>2, <3>1, <3>3, <4>1
    <3> QED
      BY <3>2, <3>3
  <2>3. Y \in SUBSET Nodes(g)
    BY <1>1
  <2>4. ClosedSet(g, Y)
    <3> SUFFICES ASSUME NEW m \in Y, NEW l \in Range(Kids(g, m)) PROVE l \in Y
      BY DEF ClosedSet
    <3>1. CASE m = n
      <4>1. l \in Nodes(g)
        BY <1>1, <3>1
      <4>2. l \in reach[l]
        BY <4>1
      <4> QED
        BY <3>1, <4>2
    <3>2. CASE m # n
      <4>1. PICK k \in Range(Kids(g, n)) : m \in reach[k]
        BY <3>2
      <4>2. k \in Nodes(g) /\ m \in Nodes(g)
        BY <1>1, <4>1
      <4>3. l \in Nodes(g)
        BY <1>1, <4>2
      <4>4. ASSUME NEW X \in SUBSET Nodes(g), ClosedSet(g, X), k \in X PROVE l \in X
        <5>1. m \in X
          BY <4>1, <4>2, <4>4
        <5> QED
          BY <4>4, <5>1 DEF ClosedSet
      <4>5. l \in reach[k]
        BY <4>2, <4>3, <4>4
      <4> QED
        BY <4>5
    <3> QED
      BY <3>1, <3>2
  <2>5. reach[n] \subseteq Y
    <3> SUFFICES ASSUME NEW m \in reach[n] PROVE m \in Y
      OBVIOUS
    <3>1. \A X \in SUBSET Nodes(g) : ClosedSet(g, X) /\ n \in X => m \in X
      OBVIOUS
    <3>2. n \in Y
      OBVIOUS
    <3> HIDE DEF Y
    <3> QED
      BY <2>3, <2>4, <3>1, <3>2
  <2>6. Y \subseteq reach[n]
    <3> HIDE DEF reach
    <3> QED
      BY <2>1, <2>2
  <2> HIDE DEF reach
  <2> QED
    BY <2>5, <2>6
<1>3. Below(g, reach)
  <2>1. reach = [n \in Nodes(g) |-> reach[n]]
    OBVIOUS
  <2> HIDE DEF reach
  <2> QED
    BY <1>2, <2>1 DEF Below
<1>4. Subtree(g) = CHOOSE b : Below(g, b)
  BY DEF Subtree, Below, Nodes
<1> HIDE DEF reach
<1> QED
  BY <1>3, <1>4

(* What is below a node: the node, and what is below a child of it. *)
LEMMA BelowStep ==
    ASSUME NEW g, NEW up, NEW rank, Linked(g, up, rank), NEW n \in Nodes(g)
    PROVE  /\ n \in Subtree(g)[n]
           /\ \A m : m \in Subtree(g)[n] => m = n \/ \E k \in Nodes(g) \ {root_node} :
                                                  up[k] = n /\ m \in Subtree(g)[k]
           /\ \A k \in Nodes(g) \ {root_node} : up[k] = n => Subtree(g)[k] \subseteq Subtree(g)[n]
<1> DEFINE b == Subtree(g)
<1>1. b[n] = {n} \cup UNION {b[k] : k \in Range(Kids(g, n))}
  <2>1. Below(g, b)
    BY BelowExists
  <2> HIDE DEF b
  <2> QED
    BY <2>1 DEF Below
<1>2. Range(Kids(g, n)) = {m \in Nodes(g) \ {root_node} : up[m] = n}
  BY KidsByParent
<1> QED
  BY <1>1, <1>2

(* It is made of nodes and holds the children of its nodes. *)
LEMMA BelowClosed ==
    ASSUME NEW g, NEW up, NEW rank, Linked(g, up, rank), NEW n \in Nodes(g)
    PROVE  /\ Subtree(g)[n] \subseteq Nodes(g)
           /\ \A k \in Nodes(g) \ {root_node} : up[k] \in Subtree(g)[n] => k \in Subtree(g)[n]
<1> DEFINE b == Subtree(g)
           Good(m) == /\ b[m] \subseteq Nodes(g)
                      /\ \A k \in Nodes(g) \ {root_node} : up[k] \in b[m] => k \in b[m]
           T == {r \in Nat : \E m \in Nodes(g) : ~Good(m) /\ rank[m] = r}
<1>1. \A m \in Nodes(g) : rank[m] \in Nat
  BY DEF Linked
<1> SUFFICES ASSUME T # {} PROVE FALSE
  <2> HIDE DEF Good
  <2>1. Good(n)
    BY <1>1
  <2> QED
    BY <2>1 DEF Good
<1>2. PICK r \in T : \A y \in T : r <= y
  <2> HIDE DEF Good
  <2> QED
    BY Least
<1>3. PICK m \in Nodes(g) : ~Good(m) /\ rank[m] = r
  BY <1>2
<1>4. \A k \in Nodes(g) \ {root_node} : up[k] = m => Good(k)
  <2> TAKE k \in Nodes(g) \ {root_node}
  <2> HAVE up[k] = m
  <2>1. rank[k] < rank[m] /\ rank[k] \in Nat /\ rank[m] \in Nat
    BY <1>1 DEF Linked
  <2>2. rank[k] \notin T
    <3> HIDE DEF T
    <3> QED
      BY <1>2, <1>3, <2>1
  <2> HIDE DEF Good
  <2> QED
    BY <2>1, <2>2
<1>5. /\ m \in b[m]
      /\ \A l : l \in b[m] => l = m \/ \E k \in Nodes(g) \ {root_node} : up[k] = m /\ l \in b[k]
      /\ \A k \in Nodes(g) \ {root_node} : up[k] = m => b[k] \subseteq b[m]
  BY BelowStep
<1>6. \A k \in Nodes(g) \ {root_node} : k \in b[k]
  BY BelowStep
<1> HIDE DEF b, T
<1>7. b[m] \subseteq Nodes(g)
  BY <1>4, <1>5
<1>8. ASSUME NEW k \in Nodes(g) \ {root_node}, up[k] \in b[m] PROVE k \in b[m]
  <2>1. CASE up[k] = m
    BY <1>5, <1>6, <2>1
  <2>2. CASE up[k] # m
    <3>1. PICK l \in Nodes(g) \ {root_node} : up[l] = m /\ up[k] \in b[l]
      BY <1>5, <1>8, <2>2
    <3> QED
      BY <1>4, <1>5, <1>8, <3>1
  <2> QED
    BY <2>1, <2>2
<1> QED
  BY <1>3, <1>7, <1>8

(* The tree reaches all nodes. *)
LEMMA TreeReachesAll ==
    ASSUME NEW g, NEW up, NEW rank, Linked(g, up, rank)
    PROVE  TreeNodes(g) = Nodes(g)
<1> DEFINE b == Subtree(g)[root_node]
           deep(n) == rank[root_node] - rank[n]
           T == {d \in Nat : \E n \in Nodes(g) \ b : deep(n) = d}
<1>1. root_node \in Nodes(g)
  BY DEF Linked, Nodes
<1>2. /\ b \subseteq Nodes(g) /\ root_node \in b
      /\ \A k \in Nodes(g) \ {root_node} : up[k] \in b => k \in b
  BY <1>1, BelowClosed, BelowStep
<1>3. \A n \in Nodes(g) : deep(n) \in Nat
  <2> TAKE n \in Nodes(g)
  <2>1. rank[n] \in Nat /\ rank[root_node] \in Nat /\ rank[n] <= rank[root_node]
    BY <1>1 DEF Linked
  <2> QED
    BY <2>1
<1> SUFFICES ASSUME T # {} PROVE FALSE
  <2> HIDE DEF deep, b
  <2> QED
    BY <1>2, <1>3 DEF TreeNodes, b
<1> HIDE DEF b
<1>4. PICK d \in T : \A y \in T : d <= y
  <2> HIDE DEF deep
  <2> QED
    BY Least
<1>5. PICK n \in Nodes(g) \ b : deep(n) = d
  BY <1>4
<1>6. /\ n \in Nodes(g) \ {root_node} /\ up[n] \in Nodes(g)
      /\ rank[n] < rank[up[n]] /\ rank[n] \in Nat /\ rank[up[n]] \in Nat /\ rank[root_node] \in Nat
  BY <1>1, <1>2, <1>5 DEF Linked, Nodes
<1>7. deep(up[n]) < d
  BY <1>5, <1>6
<1>8. up[n] \in b
  <2>1. d \in Nat /\ deep(up[n]) \in Nat
    BY <1>3, <1>4, <1>6
  <2>2. deep(up[n]) \notin T
    <3> HIDE DEF deep, T
    <3> QED
      BY <1>4, <1>7, <2>1
  <2> HIDE DEF deep
  <2> QED
    BY <1>6, <2>1, <2>2
<1> QED
  BY <1>2, <1>5, <1>6, <1>8

(* Nothing is below a panel. *)
LEMMA LeafBelow ==
    ASSUME NEW g, NEW up, NEW rank, Linked(g, up, rank), NEW p \in g.inner
    PROVE  Subtree(g)[p] = {p}
<1>1. p \in Nodes(g) /\ p \notin Containers(g)
  BY DEF Linked, Nodes
<1>2. \A k \in Nodes(g) \ {root_node} : up[k] # p
  BY <1>1 DEF Linked
<1> QED
  BY <1>1, <1>2, BelowStep

-----------------------------------------------------------------------------
(* The invariant of a layout. *)

(* Layouts by their types. *)
KidMaps == UNION {[D -> Seq(Int)] : D \in SUBSET Int}

Layouts ==
    [inner : SUBSET Int, kids : KidMaps, columns : SUBSET Int, current : Int, root : Int,
     fits : BOOLEAN, hidden : SUBSET Int, saved : [nodes : SUBSET Int, fits : BOOLEAN],
     misplaced : SUBSET {"focus", "size"}]

(* The nodes hang together, and every container has a choice. *)
TreeInv(g) ==
    /\ \E up, rank : Linked(g, up, rank)
    /\ \A c \in Containers(g) \ {root_node} : Len(g.kids[c]) >= 2
    /\ Len(g.kids[root_node]) = 1
    /\ g.current \in g.inner /\ g.root \in g.inner /\ g.columns \subseteq Containers(g)

(* What is hidden can be brought back. *)
ZoomInv(g) ==
    /\ g.hidden \subseteq Nodes(g)
    /\ IF IsZoomed(g) THEN g.saved.nodes = Nodes(g) /\ \E p : VisiblePanels(g) = {p}
       ELSE g.hidden = {}
    /\ g.current \in VisiblePanels(g) \/ "focus" \in g.misplaced
    /\ g.fits \/ "size" \in g.misplaced

(* The inductive invariant of one tab. *)
LayoutInv(g) == g \in Layouts /\ TreeInv(g) /\ ZoomInv(g)

(* The panels and containers of a layout come from the routes below n. *)
Within(g, n) == g.inner \subseteq 1 .. n - 1 /\ Containers(g) \subseteq 1 - n .. 0

(* What a layout's children are. *)
LEMMA KidMapFacts ==
    /\ \A k \in KidMaps : DOMAIN k \subseteq Int /\ \A c \in DOMAIN k : k[c] \in Seq(Int)
    /\ \A D \in SUBSET Int : \A k \in [D -> Seq(Int)] : k \in KidMaps
<1>1. ASSUME NEW k \in KidMaps PROVE DOMAIN k \subseteq Int /\ \A c \in DOMAIN k : k[c] \in Seq(Int)
  <2>1. PICK D \in SUBSET Int : k \in [D -> Seq(Int)]
    BY DEF KidMaps
  <2> QED
    BY <2>1
<1>2. ASSUME NEW D \in SUBSET Int, NEW k \in [D -> Seq(Int)] PROVE k \in KidMaps
  BY DEF KidMaps
<1> QED
  BY <1>1, <1>2

(* The parts of a layout have their types.                                 *)
LEMMA LayoutType ==
    ASSUME NEW g \in Layouts
    PROVE  /\ g.inner \subseteq Int /\ g.kids \in KidMaps /\ g.columns \subseteq Int
           /\ g.current \in Int /\ g.root \in Int /\ g.fits \in BOOLEAN /\ g.hidden \subseteq Int
           /\ g.saved \in [nodes : SUBSET Int, fits : BOOLEAN] /\ g.misplaced \subseteq {"focus", "size"}
           /\ Containers(g) \subseteq Int /\ Nodes(g) \subseteq Int
<1>1. /\ g.inner \subseteq Int /\ g.kids \in KidMaps /\ g.columns \subseteq Int
      /\ g.current \in Int /\ g.root \in Int /\ g.fits \in BOOLEAN /\ g.hidden \subseteq Int
      /\ g.saved \in [nodes : SUBSET Int, fits : BOOLEAN] /\ g.misplaced \subseteq {"focus", "size"}
  BY DEF Layouts
<1>2. Containers(g) \subseteq Int
  BY <1>1, KidMapFacts DEF Containers
<1> QED
  BY <1>1, <1>2 DEF Nodes

(* Trees depend on panels and children alone. *)
LEMMA SameTree ==
    ASSUME NEW g, NEW h, g.inner = h.inner, g.kids = h.kids
    PROVE  /\ Nodes(h) = Nodes(g) /\ Containers(h) = Containers(g)
           /\ \A up, rank : Linked(g, up, rank) => Linked(h, up, rank)
BY DEF Nodes, Containers, Linked

(* The tree that the code collects from the root has all nodes.            *)
LEMMA SoundTree ==
    ASSUME NEW g, TreeInv(g)
    PROVE  TreeNodes(g) = Nodes(g)
BY TreeReachesAll DEF TreeInv

(* A layout that is a tree is what LayoutSound asks for. *)
LEMMA TreeIsSound ==
    ASSUME NEW g \in Layouts, TreeInv(g)
    PROVE  LayoutSound(g)
<1>1. PICK up, rank : Linked(g, up, rank)
  BY DEF TreeInv
<1>2. TreeNodes(g) = Nodes(g)
  BY SoundTree
<1>3. ASSUME NEW n \in Nodes(g) \ {root_node}
      PROVE  \E c \in Containers(g) : \E i \in DOMAIN g.kids[c] :
                /\ g.kids[c][i] = n
                /\ \A d \in Containers(g) : \A j \in DOMAIN g.kids[d] :
                        g.kids[d][j] = n => c = d /\ i = j
  <2> DEFINE c == up[n]
  <2>1. c \in Containers(g) /\ n \in Range(g.kids[c]) /\ IsInjective(g.kids[c])
    BY <1>1 DEF Linked
  <2>2. PICK i \in DOMAIN g.kids[c] : g.kids[c][i] = n
    BY <2>1 DEF Range
  <2>3. ASSUME NEW d \in Containers(g), NEW j \in DOMAIN g.kids[d], g.kids[d][j] = n
        PROVE  c = d /\ i = j
    <3>1. n \in Range(g.kids[d])
      BY <2>3 DEF Range
    <3>2. c = d
      BY <1>1, <3>1 DEF Linked
    <3> QED
      BY <2>1, <2>2, <2>3, <3>2 DEF IsInjective
  <2> HIDE DEF c
  <2> QED
    BY <2>1, <2>2, <2>3
<1> QED
  BY <1>2, <1>3 DEF LayoutSound, TreeInv, Nodes

(* A layout whose zoom keeps the invariant is what ZoomSound asks for.     *)
LEMMA ZoomIsSound ==
    ASSUME NEW g, LayoutInv(g)
    PROVE  ZoomSound(g)
<1>1. TreeNodes(g) = Nodes(g) /\ ZoomInv(g)
  BY SoundTree DEF LayoutInv
<1> QED
  BY <1>1, FS_Singleton DEF ZoomSound, ZoomInv

-----------------------------------------------------------------------------
(* What the operations on a layout keep. *)

(* A tab starts with one panel below its root container.                   *)
LEMMA NewLayoutInv ==
    ASSUME NEW r \in Nat \ {0}
    PROVE  LayoutInv(NewLayout(r)) /\ Within(NewLayout(r), r + 1)
<1> DEFINE g == NewLayout(r)
           up == [n \in {r} |-> root_node]
           rank == [n \in {root_node, r} |-> IF n = r THEN 0 ELSE 1]
<1>1. /\ g.inner = {r} /\ g.columns = {} /\ g.current = r /\ g.root = r /\ g.fits = TRUE
      /\ g.hidden = {} /\ g.saved = NotZoomed /\ g.misplaced = {}
      /\ g.kids = [n \in {root_node} |-> <<r>>]
  BY DEF NewLayout
<1>2. /\ Containers(g) = {0} /\ Nodes(g) = {0, r} /\ r # 0 /\ g.kids[0] = <<r>> /\ r \in Int
  BY <1>1 DEF Containers, Nodes, root_node
<1>3. /\ <<r>> \in Seq(Int) /\ IsInjective(<<r>>) /\ Range(<<r>>) = {r} /\ Len(<<r>>) = 1
  BY Single
<1>4. g \in Layouts
  <2>1. g.kids \in [{0} -> Seq(Int)] /\ {0} \in SUBSET Int
    BY <1>1, <1>3 DEF root_node
  <2>2. g.kids \in KidMaps
    BY <2>1, KidMapFacts
  <2> HIDE DEF g
  <2> QED
    BY <1>1, <2>2 DEF Layouts, g, NewLayout, NotZoomed
<1> HIDE DEF g
<1>5. Linked(g, up, rank)
  BY <1>1, <1>2, <1>3 DEF Linked, root_node
<1>6. TreeInv(g)
  BY <1>1, <1>2, <1>3, <1>5 DEF TreeInv, root_node
<1>7. ZoomInv(g)
  BY <1>1, <1>2 DEF ZoomInv, IsZoomed, VisiblePanels, NotZoomed
<1>8. Within(g, r + 1)
  BY <1>1, <1>2 DEF Within
<1> QED
  BY <1>4, <1>6, <1>7, <1>8 DEF LayoutInv, g

(* Operations that leave the tree alone. *)
LEMMA TreeKept ==
    ASSUME NEW g, NEW h, TreeInv(g), h.inner = g.inner, h.kids = g.kids,
           h.columns = g.columns, h.current \in g.inner, h.root = g.root
    PROVE  TreeInv(h) /\ Nodes(h) = Nodes(g) /\ \A n : Within(g, n) => Within(h, n)
<1>1. Nodes(h) = Nodes(g) /\ Containers(h) = Containers(g)
  BY SameTree
<1>2. \E up, rank : Linked(h, up, rank)
  BY SameTree DEF TreeInv
<1> QED
  BY <1>1, <1>2 DEF TreeInv, Within

(* Ending a zoom shows all panels. *)
LEMMA UnzoomedInv ==
    ASSUME NEW g, LayoutInv(g)
    PROVE  /\ LayoutInv(Unzoomed(g)) /\ \A n : Within(g, n) => Within(Unzoomed(g), n)
           /\ Unzoomed(g).inner = g.inner /\ Unzoomed(g).kids = g.kids
           /\ Unzoomed(g).current = g.current /\ Unzoomed(g).root = g.root
           /\ Unzoomed(g).hidden = {} /\ ~IsZoomed(Unzoomed(g))
<1>0. g \in Layouts /\ TreeInv(g) /\ ZoomInv(g)
  BY DEF LayoutInv
<1>1. CASE ~IsZoomed(g)
  <2>1. Unzoomed(g) = g
    BY <1>1 DEF Unzoomed
  <2>2. g.hidden = {}
    BY <1>0, <1>1 DEF ZoomInv
  <2> QED
    BY <1>1, <2>1, <2>2
<1>2. CASE IsZoomed(g)
  <2> DEFINE h == Unzoomed(g)
  <2>1. h = [g EXCEPT !.hidden = g.hidden \ g.saved.nodes, !.fits = g.saved.fits, !.saved = NotZoomed,
                      !.misplaced = (g.misplaced \ {"focus"}) \cup IF g.saved.fits THEN {} ELSE {"size"}]
    BY <1>2 DEF Unzoomed
  <2>2. g.hidden \ g.saved.nodes = {}
    BY <1>0, <1>2 DEF ZoomInv
  <2>3. g.saved.fits \in BOOLEAN
    BY <1>0 DEF Layouts
  <2> HIDE DEF h
  <2>4. /\ h.inner = g.inner /\ h.kids = g.kids /\ h.columns = g.columns /\ h.current = g.current
        /\ h.root = g.root /\ h.hidden = {} /\ h.fits = g.saved.fits /\ h.saved = NotZoomed
        /\ h.misplaced = (g.misplaced \ {"focus"}) \cup IF g.saved.fits THEN {} ELSE {"size"}
    BY <1>0, <2>1, <2>2 DEF Layouts
  <2>5. h \in Layouts
    BY <1>0, <2>1, <2>2, <2>3 DEF Layouts, NotZoomed
  <2>6. TreeInv(h) /\ \A n : Within(g, n) => Within(h, n)
    BY <1>0, <2>4, TreeKept DEF TreeInv
  <2>7. ZoomInv(h)
    BY <1>0, <2>4 DEF ZoomInv, IsZoomed, VisiblePanels, NotZoomed, TreeInv
  <2> QED
    BY <2>4, <2>5, <2>6, <2>7 DEF LayoutInv, h, IsZoomed, NotZoomed
<1> QED
  BY <1>1, <1>2

(* A zoom hides everything but the current panel and what it hangs from. *)
LEMMA ZoomedInv ==
    ASSUME NEW g, LayoutInv(g), ~IsZoomed(g)
    PROVE  /\ LayoutInv(Zoomed(g)) /\ \A n : Within(g, n) => Within(Zoomed(g), n)
           /\ Zoomed(g).inner = g.inner /\ Zoomed(g).current = g.current
<1>0. g \in Layouts /\ TreeInv(g) /\ ZoomInv(g)
  BY DEF LayoutInv
<1>1. CASE Zoomed(g) = g
  BY <1>1
<1>2. CASE Zoomed(g) # g
  <2> DEFINE h == Zoomed(g)
             others == TreeNodes(g) \ (PathTo(g, g.current) \cup {root_node})
             all == [nodes |-> TreeNodes(g), fits |-> g.fits]
  <2>1. h = [g EXCEPT !.hidden = others, !.saved = all]
    BY <1>2 DEF Zoomed
  <2>2. TreeNodes(g) = Nodes(g) /\ Nodes(g) \subseteq Int /\ g.fits \in BOOLEAN
    BY <1>0, SoundTree, LayoutType
  <2>3. others \subseteq Nodes(g) /\ g.inner \ others = {g.current}
    <3>1. PICK up, rank : Linked(g, up, rank)
      BY <1>0 DEF TreeInv
    <3>2. g.inner \subseteq Nodes(g) /\ root_node \notin g.inner /\ g.current \in g.inner
      BY <1>0, <3>1 DEF TreeInv, Linked, Nodes
    <3>3. \A p \in g.inner : p \in PathTo(g, g.current) <=> p = g.current
      BY <2>2, <3>1, <3>2, LeafBelow DEF PathTo
    <3> QED
      BY <2>2, <3>2, <3>3
  <2>4. all.nodes = Nodes(g) /\ all \in [nodes : SUBSET Int, fits : BOOLEAN]
    BY <2>2
  <2> HIDE DEF h, others, all
  <2>5. /\ h.inner = g.inner /\ h.kids = g.kids /\ h.columns = g.columns /\ h.current = g.current
        /\ h.root = g.root /\ h.hidden = others /\ h.fits = g.fits /\ h.saved = all
        /\ h.misplaced = g.misplaced
    BY <1>0, <2>1 DEF Layouts
  <2>6. h \in Layouts
    BY <1>0, <2>1, <2>2, <2>3, <2>4 DEF Layouts
  <2>7. TreeInv(h) /\ Nodes(h) = Nodes(g) /\ \A n : Within(g, n) => Within(h, n)
    BY <1>0, <2>5, TreeKept DEF TreeInv
  <2>8. ZoomInv(h)
    <3>1. VisiblePanels(h) = {g.current}
      BY <2>3, <2>5 DEF VisiblePanels
    <3>2. IsZoomed(h)
      BY <1>0, <2>4, <2>5 DEF IsZoomed, TreeInv, Nodes
    <3> QED
      BY <1>0, <2>3, <2>4, <2>5, <2>7, <3>1, <3>2 DEF ZoomInv
  <2> QED
    BY <2>5, <2>6, <2>7, <2>8 DEF LayoutInv, h
<1> QED
  BY <1>1, <1>2

(* The focus goes to a panel; a hidden one leaves it misplaced. *)
LEMMA FocusedInv ==
    ASSUME NEW g, LayoutInv(g), NEW r \in g.inner
    PROVE  /\ LayoutInv(Focused(g, r)) /\ \A n : Within(g, n) => Within(Focused(g, r), n)
           /\ Focused(g, r).inner = g.inner /\ Focused(g, r).current = r
<1> DEFINE h == Focused(g, r)
           marks == IF r \in VisiblePanels(g) THEN g.misplaced \ {"focus"} ELSE g.misplaced \cup {"focus"}
<1>0. g \in Layouts /\ TreeInv(g) /\ ZoomInv(g)
  BY DEF LayoutInv
<1>1. h = [g EXCEPT !.current = r, !.misplaced = marks]
  BY DEF Focused
<1>2. marks \subseteq {"focus", "size"} /\ r \in Int
  BY <1>0, LayoutType
<1>3. (r \in VisiblePanels(g) \/ "focus" \in marks) /\ ("size" \in g.misplaced => "size" \in marks)
  OBVIOUS
<1> HIDE DEF h, marks
<1>4. /\ h.inner = g.inner /\ h.kids = g.kids /\ h.columns = g.columns /\ h.current = r
      /\ h.root = g.root /\ h.hidden = g.hidden /\ h.fits = g.fits /\ h.saved = g.saved
      /\ h.misplaced = marks
  BY <1>0, <1>1 DEF Layouts
<1>5. h \in Layouts
  BY <1>0, <1>1, <1>2 DEF Layouts
<1>6. TreeInv(h) /\ Nodes(h) = Nodes(g) /\ \A n : Within(g, n) => Within(h, n)
  BY <1>0, <1>4, TreeKept
<1>7. ZoomInv(h)
  BY <1>0, <1>3, <1>4, <1>6 DEF ZoomInv, IsZoomed, VisiblePanels
<1> QED
  BY <1>4, <1>5, <1>6, <1>7 DEF LayoutInv, h

(* The focus goes to a visible panel. *)
LEMMA CurrentInv ==
    ASSUME NEW g, LayoutInv(g), NEW r \in VisiblePanels(g)
    PROVE  /\ LayoutInv([g EXCEPT !.current = r]) /\ \A n : Within(g, n) => Within([g EXCEPT !.current = r], n)
           /\ [g EXCEPT !.current = r].inner = g.inner /\ [g EXCEPT !.current = r].current = r
<1> DEFINE h == [g EXCEPT !.current = r]
<1>0. g \in Layouts /\ TreeInv(g) /\ ZoomInv(g) /\ r \in g.inner
  BY DEF LayoutInv, VisiblePanels
<1>1. h = [g EXCEPT !.current = r] /\ r \in Int
  BY <1>0, LayoutType
<1> HIDE DEF h
<1>4. /\ h.inner = g.inner /\ h.kids = g.kids /\ h.columns = g.columns /\ h.current = r
      /\ h.root = g.root /\ h.hidden = g.hidden /\ h.fits = g.fits /\ h.saved = g.saved
      /\ h.misplaced = g.misplaced
  BY <1>0, <1>1 DEF Layouts
<1>5. h \in Layouts
  BY <1>0, <1>1 DEF Layouts
<1>6. TreeInv(h) /\ Nodes(h) = Nodes(g) /\ \A n : Within(g, n) => Within(h, n)
  BY <1>0, <1>4, TreeKept
<1>7. ZoomInv(h)
  BY <1>0, <1>4, <1>6 DEF ZoomInv, IsZoomed, VisiblePanels
<1> QED
  BY <1>4, <1>5, <1>6, <1>7 DEF LayoutInv, h

(* A resize fits the tree to the window, the snapshot of a zoom not. *)
LEMMA ResizedInv ==
    ASSUME NEW g, LayoutInv(g)
    PROVE  /\ LayoutInv(Resized(Outgrown(g))) /\ \A n : Within(g, n) => Within(Resized(Outgrown(g)), n)
           /\ Resized(Outgrown(g)).inner = g.inner /\ Resized(Outgrown(g)).current = g.current
<1> DEFINE o == Outgrown(g)
           h == Resized(o)
<1>0. g \in Layouts /\ TreeInv(g) /\ ZoomInv(g)
  BY DEF LayoutInv
<1>1. /\ o \in Layouts
      /\ o.inner = g.inner /\ o.kids = g.kids /\ o.columns = g.columns /\ o.current = g.current
      /\ o.root = g.root /\ o.hidden = g.hidden /\ o.saved.nodes = g.saved.nodes
      /\ o.misplaced = g.misplaced
  BY <1>0 DEF Layouts, Outgrown
<1>2. h = [o EXCEPT !.fits = TRUE, !.misplaced = o.misplaced \ {"size"}]
  BY DEF Resized
<1> HIDE DEF h, o
<1>4. /\ h.inner = g.inner /\ h.kids = g.kids /\ h.columns = g.columns /\ h.current = g.current
      /\ h.root = g.root /\ h.hidden = g.hidden /\ h.fits = TRUE /\ h.saved = o.saved
      /\ h.misplaced = g.misplaced \ {"size"}
  BY <1>1, <1>2 DEF Layouts
<1>5. h \in Layouts
  BY <1>1, <1>2 DEF Layouts
<1>6. TreeInv(h) /\ Nodes(h) = Nodes(g) /\ \A n : Within(g, n) => Within(h, n)
  BY <1>0, <1>4, TreeKept DEF TreeInv
<1>7. ZoomInv(h)
  BY <1>0, <1>1, <1>4, <1>6 DEF ZoomInv, IsZoomed, VisiblePanels
<1> QED
  BY <1>4, <1>5, <1>6, <1>7 DEF LayoutInv, h, o

-----------------------------------------------------------------------------
(* Splitting.                                                              *)

(* Sequences of two members. *)
LEMMA Pair ==
    ASSUME NEW x \in Int, NEW y \in Int, x # y
    PROVE  /\ <<x, y>> \in Seq(Int) /\ IsInjective(<<x, y>>)
           /\ Range(<<x, y>>) = {x, y} /\ Len(<<x, y>>) = 2
<1>1. DOMAIN <<x, y>> = {1, 2} /\ <<x, y>>[1] = x /\ <<x, y>>[2] = y
  OBVIOUS
<1>2. <<x, y>> \in Seq(Int) /\ Len(<<x, y>>) = 2
  OBVIOUS
<1> QED
  BY <1>1, <1>2 DEF IsInjective, Range

(* The tree after a split: the current panel and the new one hang from a   *)
(* new container, which hangs from where the current panel hung.           *)
LEMMA SplitTree ==
    ASSUME NEW g \in Layouts, TreeInv(g), NEW r \in Nat \ {0}, Within(g, r), NEW h,
           h.inner = g.inner \cup {r},
           h.kids = [n \in Containers(g) \cup {-r} |->
                        IF n = -r THEN <<g.current, r>>
                        ELSE IF n = Parent(g, g.current) THEN ReplaceChild(g.kids[n], g.current, <<-r>>)
                        ELSE g.kids[n]]
    PROVE  /\ \E up, rank : Linked(h, up, rank)
           /\ Containers(h) = Containers(g) \cup {-r}
           /\ \A c \in Containers(h) : h.kids[c] \in Seq(Int)
           /\ \A c \in Containers(h) \ {root_node} : Len(h.kids[c]) >= 2
           /\ Len(h.kids[root_node]) = 1
<1> DEFINE p == g.current
           q == Parent(g, p)
           C == Containers(g)
           N == Nodes(g)
<1>1. PICK up, rank : Linked(g, up, rank)
  BY DEF TreeInv
<1>2. /\ root_node \in C /\ g.inner \cap C = {} /\ p \in g.inner /\ N = C \cup g.inner
      /\ p \in N \ {root_node}
  BY <1>1 DEF Linked, TreeInv, Nodes
<1>3. q = up[p] /\ q \in C
  BY <1>1, <1>2, ParentIsUp
<1>4. r \notin N /\ -r \notin N /\ -r # root_node /\ r # -r /\ r \in Int /\ -r \in Int
      /\ p \in Int /\ p # r /\ N \subseteq Int
  BY <1>2, LayoutType DEF Within, root_node
<1>5. /\ up \in [N \ {root_node} -> C] /\ rank \in [N -> Nat]
      /\ \A n \in N \ {root_node} : rank[n] < rank[up[n]]
      /\ \A n \in N : rank[n] <= rank[root_node]
      /\ \A c \in C : /\ g.kids[c] \in Seq(Int) /\ IsInjective(g.kids[c])
                      /\ Range(g.kids[c]) = {n \in N \ {root_node} : up[n] = c}
  BY <1>1 DEF Linked
<1>6. Containers(h) = C \cup {-r} /\ Nodes(h) = N \cup {-r, r}
  BY <1>2 DEF Containers, Nodes
<1>7. /\ h.kids[-r] = <<p, r>>
      /\ \A c \in C \ {q} : h.kids[c] = g.kids[c]
      /\ h.kids[q] = ReplaceChild(g.kids[q], p, <<-r>>)
  BY <1>2, <1>3, <1>4
<1>8. /\ <<p, r>> \in Seq(Int) /\ IsInjective(<<p, r>>) /\ Range(<<p, r>>) = {p, r} /\ Len(<<p, r>>) = 2
  BY <1>4, Pair
<1>9. /\ h.kids[q] \in Seq(Int) /\ IsInjective(h.kids[q])
      /\ Range(h.kids[q]) = (Range(g.kids[q]) \ {p}) \cup {-r} /\ Len(h.kids[q]) = Len(g.kids[q])
  <2>1. p \in Range(g.kids[q]) /\ -r \notin Range(g.kids[q])
    BY <1>2, <1>3, <1>4, <1>5
  <2>2. /\ <<-r>> \in Seq(Int) /\ IsInjective(<<-r>>) /\ Range(<<-r>>) = {-r} /\ Len(<<-r>>) = 1
    BY <1>4, Single
  <2>3. PICK new : new = <<-r>>
    OBVIOUS
  <2>4. Range(new) \cap Range(g.kids[q]) = {}
    BY <2>1, <2>2, <2>3
  <2>5. Replaced(g.kids[q], p, new, ReplaceChild(g.kids[q], p, new))
    BY <1>3, <1>4, <1>5, <2>2, <2>3, <2>4, ReplaceFacts
  <2>6. Len(g.kids[q]) \in Nat
    BY <1>3, <1>5
  <2> DEFINE R == ReplaceChild(g.kids[q], p, new)
             ch == g.kids[q]
  <2>7. h.kids[q] = R
    BY <1>7, <2>3
  <2> HIDE DEF R, ch
  <2>8. /\ Replaced(ch, p, new, R) /\ p \in Range(ch) /\ Range(new) = {-r}
        /\ Len(new) = 1 /\ Len(ch) \in Nat
    BY <2>1, <2>2, <2>3, <2>5, <2>6 DEF R, ch
  <2>9. /\ R \in Seq(Int) /\ IsInjective(R) /\ Range(R) = (Range(ch) \ {p}) \cup {-r}
        /\ Len(R) = Len(ch)
    BY ONLY <2>8 DEF Replaced
  <2> QED
    BY <2>7, <2>9 DEF ch
<1> DEFINE up2 == [n \in (N \cup {-r, r}) \ {root_node} |->
                      IF n = p \/ n = r THEN -r ELSE IF n = -r THEN q ELSE up[n]]
           rank2 == [n \in N \cup {-r, r} |->
                      IF n = r THEN 2 * rank[p] ELSE IF n = -r THEN 2 * rank[p] + 1 ELSE 2 * rank[n]]
<1>10. /\ up2[p] = -r /\ up2[r] = -r /\ up2[-r] = q
       /\ \A n \in N \ {root_node, p} : up2[n] = up[n]
       /\ up2 \in [(N \cup {-r, r}) \ {root_node} -> C \cup {-r}]
  <2>1. r # root_node
    BY <1>4 DEF root_node
  <2>2. \A n \in (N \cup {-r, r}) \ {root_node} : n = p \/ n = r \/ n = -r \/ n \in N \ {root_node, p}
    OBVIOUS
  <2> QED
    BY <1>2, <1>3, <1>4, <1>5, <2>1, <2>2
<1>11. /\ rank2[r] = 2 * rank[p] /\ rank2[-r] = 2 * rank[p] + 1
       /\ \A n \in N : rank2[n] = 2 * rank[n]
       /\ \A n \in N : rank[n] \in Nat
       /\ rank2 \in [N \cup {-r, r} -> Nat]
  <2>1. \A n \in N : rank[n] \in Nat
    BY <1>5
  <2> QED
    BY <1>2, <1>4, <2>1
<1> HIDE DEF up2, rank2, p, q, C, N
<1>12. \A n \in (N \cup {-r, r}) \ {root_node} : rank2[n] < rank2[up2[n]]
  <2> TAKE n \in (N \cup {-r, r}) \ {root_node}
  <2>1. CASE n = p \/ n = r
    BY <1>2, <1>10, <1>11, <2>1
  <2>2. CASE n = -r
    <3>1. rank[p] < rank[q] /\ q \in N
      BY <1>2, <1>3, <1>5
    <3> QED
      BY <1>2, <1>10, <1>11, <2>2, <3>1
  <2>3. CASE n \in N \ {root_node, p}
    <3>1. rank[n] < rank[up[n]] /\ up[n] \in N
      BY <1>2, <1>5, <2>3
    <3> QED
      BY <1>10, <1>11, <2>3, <3>1
  <2> QED
    BY <2>1, <2>2, <2>3
<1>13. \A n \in N \cup {-r, r} : rank2[n] <= rank2[root_node]
  <2> TAKE n \in N \cup {-r, r}
  <2>1. root_node \in N
    BY <1>2
  <2>2. rank[p] < rank[q] /\ q \in N /\ rank[q] <= rank[root_node]
    BY <1>2, <1>3, <1>5
  <2>3. CASE n \in {-r, r}
    BY <1>2, <1>11, <2>1, <2>2, <2>3
  <2>4. CASE n \in N
    BY <1>5, <1>11, <2>1, <2>4
  <2> QED
    BY <2>3, <2>4
<1>14. ASSUME NEW c \in C \cup {-r}
       PROVE  /\ h.kids[c] \in Seq(Int) /\ IsInjective(h.kids[c])
              /\ Range(h.kids[c]) = {n \in (N \cup {-r, r}) \ {root_node} : up2[n] = c}
  <2>1. CASE c = -r
    <3>1. \A n \in N \ {root_node, p} : up2[n] # -r
      BY <1>2, <1>4, <1>5, <1>10
    <3>2. q # -r
      BY <1>2, <1>3, <1>4
    <3>3. {n \in (N \cup {-r, r}) \ {root_node} : up2[n] = -r} = {p, r}
      BY <1>2, <1>4, <1>10, <3>1, <3>2 DEF root_node
    <3> QED
      BY <1>7, <1>8, <2>1, <3>3
  <2>2. CASE c = q
    <3>1. {n \in (N \cup {-r, r}) \ {root_node} : up2[n] = q}
            = ({n \in N \ {root_node} : up[n] = q} \ {p}) \cup {-r}
      BY <1>2, <1>3, <1>4, <1>10
    <3> QED
      BY <1>3, <1>5, <1>9, <2>2, <3>1
  <2>3. CASE c \in C \ {q}
    <3>1. {n \in (N \cup {-r, r}) \ {root_node} : up2[n] = c} = {n \in N \ {root_node} : up[n] = c}
      BY <1>2, <1>3, <1>4, <1>10, <2>3
    <3> QED
      BY <1>5, <1>7, <2>3, <3>1
  <2> QED
    BY <2>1, <2>2, <2>3
<1>15. h.inner \cap (C \cup {-r}) = {} /\ root_node \in C \cup {-r}
  BY <1>2, <1>4
<1>16. Linked(h, up2, rank2)
  <2>1. up2 \in [(N \cup {-r, r}) \ {root_node} -> C \cup {-r}] /\ rank2 \in [N \cup {-r, r} -> Nat]
    BY <1>10, <1>11
  <2> QED
    BY ONLY <1>6, <1>12, <1>13, <1>14, <1>15, <2>1 DEF Linked
<1>17. \A c \in C \cup {-r} : c # root_node => Len(h.kids[c]) >= 2
  <2>1. \A c \in C \ {root_node} : Len(g.kids[c]) >= 2
    BY DEF TreeInv, C
  <2>2. Len(h.kids[-r]) = 2 /\ (q # root_node => Len(h.kids[q]) >= 2)
    BY <1>3, <1>7, <1>8, <1>9, <2>1
  <2>3. \A c \in C \ {q, root_node} : Len(h.kids[c]) >= 2
    BY <1>7, <2>1
  <2> TAKE c \in C \cup {-r}
  <2> HAVE c # root_node
  <2>4. c = -r \/ c = q \/ c \in C \ {q, root_node}
    OBVIOUS
  <2>5. CASE c = -r
    BY <2>2, <2>5
  <2>6. CASE c = q
    BY <2>2, <2>6
  <2>7. CASE c \in C \ {q, root_node}
    BY <2>3, <2>7
  <2> QED
    BY <2>4, <2>5, <2>6, <2>7
<1>18. Len(h.kids[root_node]) = 1
  <2>1. Len(g.kids[root_node]) = 1
    BY DEF TreeInv
  <2> QED
    BY <1>2, <1>7, <1>9, <2>1
<1> QED
  BY <1>6, <1>14, <1>16, <1>17, <1>18 DEF C

(* A split adds one panel, which gets the focus, and ends a zoom.          *)
LEMMA SplitInv ==
    ASSUME NEW g, LayoutInv(g), NEW r \in Nat \ {0}, Within(g, r), NEW down \in BOOLEAN
    PROVE  /\ LayoutInv(Split(g, r, down)) /\ Within(Split(g, r, down), r + 1)
           /\ Split(g, r, down).inner = g.inner \cup {r} /\ Split(g, r, down).current = r
<1> DEFINE u == Unzoomed(g)
           h == Split(g, r, down)
           kids == [n \in Containers(u) \cup {-r} |->
                        IF n = -r THEN <<u.current, r>>
                        ELSE IF n = Parent(u, u.current) THEN ReplaceChild(u.kids[n], u.current, <<-r>>)
                        ELSE u.kids[n]]
           columns == IF down THEN u.columns \cup {-r} ELSE u.columns
<1>1. /\ u \in Layouts /\ TreeInv(u) /\ ZoomInv(u) /\ Within(u, r) /\ u.hidden = {} /\ ~IsZoomed(u)
      /\ u.inner = g.inner
  BY UnzoomedInv DEF LayoutInv
<1>2. g.current \in g.inner
  BY DEF LayoutInv, TreeInv
<1>3. h = [u EXCEPT !.inner = u.inner \cup {r}, !.kids = kids, !.columns = columns, !.current = r]
  BY <1>2 DEF Split, split_panel
<1>4. columns \subseteq Containers(u) \cup {-r} /\ columns \subseteq Int
  BY <1>1, LayoutType DEF TreeInv
<1> HIDE DEF u, h, columns
<1>5. /\ h.inner = u.inner \cup {r} /\ h.kids = kids /\ h.columns = columns /\ h.current = r
      /\ h.root = u.root /\ h.hidden = u.hidden /\ h.fits = u.fits /\ h.saved = u.saved
      /\ h.misplaced = u.misplaced
  <2> HIDE DEF kids
  <2> QED
    BY <1>1, <1>3 DEF Layouts
<1>6. /\ \E up, rank : Linked(h, up, rank)
      /\ Containers(h) = Containers(u) \cup {-r}
      /\ \A c \in Containers(h) : h.kids[c] \in Seq(Int)
      /\ \A c \in Containers(h) \ {root_node} : Len(h.kids[c]) >= 2
      /\ Len(h.kids[root_node]) = 1
  <2>1. h.inner = u.inner \cup {r}
    BY <1>5
  <2>2. h.kids = [n \in Containers(u) \cup {-r} |->
                    IF n = -r THEN <<u.current, r>>
                    ELSE IF n = Parent(u, u.current) THEN ReplaceChild(u.kids[n], u.current, <<-r>>)
                    ELSE u.kids[n]]
    BY <1>5
  <2> HIDE DEF kids
  <2> QED
    BY ONLY <1>1, <2>1, <2>2, r \in Nat \ {0}, SplitTree
<1>7. kids \in KidMaps
  <2>1. DOMAIN kids = Containers(h) /\ kids = [n \in DOMAIN kids |-> kids[n]]
    BY <1>6
  <2> HIDE DEF kids
  <2>2. kids \in [Containers(h) -> Seq(Int)]
    BY <1>5, <1>6, <2>1
  <2>3. Containers(h) \in SUBSET Int
    BY <1>1, <1>6, LayoutType
  <2> QED
    BY <2>2, <2>3, KidMapFacts
<1> HIDE DEF kids
<1>8. h \in Layouts
  <2>1. u.inner \cup {r} \subseteq Int /\ r \in Int
    BY <1>1, LayoutType
  <2> QED
    BY <1>1, <1>3, <1>4, <1>7, <2>1 DEF Layouts
<1>9. TreeInv(h)
  BY <1>1, <1>4, <1>5, <1>6 DEF TreeInv
<1>10. ZoomInv(h)
  BY <1>1, <1>5 DEF ZoomInv, IsZoomed, VisiblePanels
<1>11. Within(h, r + 1)
  BY <1>1, <1>5, <1>6 DEF Within
<1> QED
  BY <1>1, <1>5, <1>8, <1>9, <1>10, <1>11 DEF LayoutInv, h

-----------------------------------------------------------------------------
(* Removing a panel.                                                       *)

(* A sequence of one member has one member. *)
LEMMA OneMember ==
    ASSUME NEW s \in Seq(Int), Len(s) = 1
    PROVE  \E x \in Int : Range(s) = {x}
<1>1. DOMAIN s = {1} /\ s[1] \in Int
  OBVIOUS
<1> QED
  BY <1>1 DEF Range

(* The root container holds more than a panel that is not alone. *)
LEMMA ParentOfOneOfMany ==
    ASSUME NEW g, TreeInv(g), NEW up, NEW rank, Linked(g, up, rank), NEW p \in g.inner, g.inner # {p}
    PROVE  up[p] # root_node
<1> SUFFICES ASSUME up[p] = root_node PROVE FALSE
  OBVIOUS
<1>1. /\ root_node \in Containers(g) /\ g.inner \cap Containers(g) = {}
      /\ g.kids[root_node] \in Seq(Int)
      /\ Range(g.kids[root_node]) = {n \in Nodes(g) \ {root_node} : up[n] = root_node}
  BY DEF Linked
<1>2. p \in Nodes(g) \ {root_node} /\ root_node \in Nodes(g)
  BY <1>1 DEF Nodes
<1>3. \A k \in Nodes(g) \ {root_node} : up[k] = root_node => k = p
  <2>1. Len(g.kids[root_node]) = 1
    BY DEF TreeInv
  <2>2. PICK x \in Int : Range(g.kids[root_node]) = {x}
    BY <1>1, <2>1, OneMember
  <2> QED
    BY <1>1, <1>2, <2>2
<1>4. \A m \in Subtree(g)[root_node] : m \in {root_node, p}
  BY <1>2, <1>3, BelowStep, LeafBelow
<1>5. Nodes(g) \subseteq {root_node, p}
  BY <1>4, SoundTree DEF TreeNodes
<1> QED
  BY <1>1, <1>5 DEF Nodes

(* The tree without a panel: the container it hung from has a child less. *)
LEMMA WithoutTree ==
    ASSUME NEW g \in Layouts, TreeInv(g), NEW up, NEW rank, Linked(g, up, rank),
           NEW p \in g.inner, g.inner # {p},
           NEW h, h.inner = g.inner \ {p},
           h.kids = [n \in Containers(g) |-> ReplaceChild(g.kids[n], p, <<>>)]
    PROVE  /\ \E u, r : Linked(h, u, r)
           /\ Containers(h) = Containers(g)
           /\ \A c \in Containers(h) : h.kids[c] \in Seq(Int)
           /\ up[p] \in Containers(h) \ {root_node} /\ Len(h.kids[up[p]]) >= 1
           /\ \A c \in Containers(h) \ {root_node, up[p]} : Len(h.kids[c]) >= 2
           /\ Len(h.kids[root_node]) = 1
<1> DEFINE q == up[p]
           C == Containers(g)
           N == Nodes(g)
           up2 == [n \in (N \ {p}) \ {root_node} |-> up[n]]
           rank2 == [n \in N \ {p} |-> rank[n]]
<1>1. /\ root_node \in C /\ g.inner \cap C = {} /\ N = C \cup g.inner
      /\ p \in N \ {root_node} /\ p \notin C /\ p \in Int
      /\ up \in [N \ {root_node} -> C] /\ rank \in [N -> Nat]
      /\ \A n \in N \ {root_node} : rank[n] < rank[up[n]]
      /\ \A n \in N : rank[n] <= rank[root_node]
      /\ \A c \in C : /\ g.kids[c] \in Seq(Int) /\ IsInjective(g.kids[c])
                      /\ Range(g.kids[c]) = {n \in N \ {root_node} : up[n] = c}
  BY LayoutType DEF Linked, Nodes
<1>2. q \in C \ {root_node}
  <2>1. up[p] # root_node
    BY ParentOfOneOfMany
  <2> QED
    BY <1>1, <2>1
<1>3. Containers(h) = C /\ Nodes(h) = N \ {p}
  BY <1>1 DEF Containers, Nodes
<1>4. ASSUME NEW c \in C
      PROVE  /\ h.kids[c] \in Seq(Int) /\ IsInjective(h.kids[c])
             /\ Range(h.kids[c]) = Range(g.kids[c]) \ {p}
             /\ Len(h.kids[c]) = IF c = q THEN Len(g.kids[c]) - 1 ELSE Len(g.kids[c])
  <2>1. PICK none : none = <<>>
    OBVIOUS
  <2>2. /\ none \in Seq(Int) /\ IsInjective(none) /\ Range(none) = {} /\ Len(none) = 0
    BY <2>1 DEF IsInjective, Range
  <2> DEFINE R == ReplaceChild(g.kids[c], p, none)
             ch == g.kids[c]
  <2>3. h.kids[c] = R
    BY <2>1
  <2>4. Replaced(ch, p, none, R)
    BY <1>1, <2>2, ReplaceFacts
  <2>5. p \in Range(ch) <=> c = q
    BY <1>1
  <2>6. Len(ch) \in Nat
    BY <1>1
  <2> HIDE DEF R, ch, q
  <2>7. /\ R \in Seq(Int) /\ IsInjective(R) /\ Range(R) = Range(ch) \ {p}
        /\ Len(R) = IF c = q THEN Len(ch) - 1 ELSE Len(ch)
    BY ONLY <2>2, <2>4, <2>5, <2>6 DEF Replaced
  <2> QED
    BY <2>3, <2>7 DEF ch
<1>5. /\ up2 \in [(N \ {p}) \ {root_node} -> C] /\ rank2 \in [N \ {p} -> Nat]
      /\ \A n \in (N \ {p}) \ {root_node} : up2[n] = up[n] /\ up2[n] \in N \ {p}
      /\ \A n \in N \ {p} : rank2[n] = rank[n]
  BY <1>1
<1> HIDE DEF up2, rank2, C, N, q
<1>6. /\ \A n \in (N \ {p}) \ {root_node} : rank2[n] < rank2[up2[n]]
      /\ \A n \in N \ {p} : rank2[n] <= rank2[root_node]
  <2>1. ASSUME NEW n \in (N \ {p}) \ {root_node} PROVE rank2[n] < rank2[up2[n]]
    <3>1. rank2[n] = rank[n] /\ rank2[up2[n]] = rank[up[n]] /\ rank[n] < rank[up[n]]
      BY <1>1, <1>5
    <3> QED
      BY <3>1
  <2>2. ASSUME NEW n \in N \ {p} PROVE rank2[n] <= rank2[root_node]
    <3>1. root_node \in N \ {p}
      BY <1>1
    <3>2. rank2[n] = rank[n] /\ rank2[root_node] = rank[root_node] /\ rank[n] <= rank[root_node]
      BY <1>1, <1>5, <3>1
    <3> QED
      BY <3>2
  <2> QED
    BY <2>1, <2>2
<1>7. ASSUME NEW c \in C
      PROVE  Range(h.kids[c]) = {n \in (N \ {p}) \ {root_node} : up2[n] = c}
  <2>1. {n \in (N \ {p}) \ {root_node} : up2[n] = c} = {n \in N \ {root_node} : up[n] = c} \ {p}
    BY <1>5
  <2>2. Range(g.kids[c]) = {n \in N \ {root_node} : up[n] = c}
    BY <1>1
  <2> QED
    BY <1>4, <2>1, <2>2
<1>8. h.inner \cap C = {} /\ root_node \in C
  BY <1>1
<1>9. Linked(h, up2, rank2)
  <2>1. up2 \in [(N \ {p}) \ {root_node} -> C] /\ rank2 \in [N \ {p} -> Nat]
    BY <1>5
  <2> QED
    BY ONLY <1>3, <1>4, <1>6, <1>7, <1>8, <2>1 DEF Linked
<1>10. \A c \in C \ {root_node} : Len(g.kids[c]) >= 2 /\ Len(g.kids[c]) \in Nat
  BY <1>1 DEF TreeInv, C
<1>11. Len(h.kids[q]) >= 1
  BY <1>2, <1>4, <1>10
<1>12. \A c \in C \ {root_node, q} : Len(h.kids[c]) >= 2
  BY <1>4, <1>10
<1>13. Len(h.kids[root_node]) = 1
  BY <1>1, <1>2, <1>4 DEF TreeInv
<1>14. \A c \in C : h.kids[c] \in Seq(Int)
  BY <1>4
<1>15. Containers(h) = Containers(g)
  BY <1>3 DEF C
<1> QED
  BY <1>2, <1>3, <1>9, <1>11, <1>12, <1>13, <1>14, <1>15 DEF q

(* The tree without a container that had one child. *)
LEMMA CollapsedTree ==
    ASSUME NEW g, NEW up, NEW rank, Linked(g, up, rank), Containers(g) \subseteq Int,
           NEW c \in Containers(g) \ {root_node}, Len(g.kids[c]) = 1,
           NEW h, h.inner = g.inner,
           h.kids = [n \in Containers(g) \ {c} |-> ReplaceChild(g.kids[n], c, g.kids[c])]
    PROVE  /\ \E u, r : Linked(h, u, r)
           /\ Containers(h) = Containers(g) \ {c}
           /\ \A d \in Containers(h) : h.kids[d] \in Seq(Int) /\ Len(h.kids[d]) = Len(g.kids[d])
<1> DEFINE q == up[c]
           C == Containers(g)
           N == Nodes(g)
<1>1. /\ root_node \in C /\ g.inner \cap C = {} /\ N = C \cup g.inner /\ c \in N \ {root_node}
      /\ up \in [N \ {root_node} -> C] /\ rank \in [N -> Nat]
      /\ \A n \in N \ {root_node} : rank[n] < rank[up[n]]
      /\ \A n \in N : rank[n] <= rank[root_node]
      /\ \A d \in C : /\ g.kids[d] \in Seq(Int) /\ IsInjective(g.kids[d])
                      /\ Range(g.kids[d]) = {n \in N \ {root_node} : up[n] = d}
  BY DEF Linked, Nodes
<1>2. \A n \in N : rank[n] \in Nat
  BY <1>1
<1>3. PICK x : Range(g.kids[c]) = {x}
  BY <1>1, OneMember
<1>4. x \in N \ {root_node} /\ up[x] = c /\ \A n \in N \ {root_node} : up[n] = c => n = x
  BY <1>1, <1>3
<1>5. x # c /\ q # c /\ q \in C /\ q # x
  <2>1. rank[x] < rank[c] /\ rank[c] < rank[q] /\ q \in C
    BY <1>1, <1>4
  <2>2. rank[x] \in Nat /\ rank[c] \in Nat /\ rank[q] \in Nat
    BY <1>1, <1>2, <1>4, <2>1
  <2> QED
    BY <2>1, <2>2
<1>6. Containers(h) = C \ {c} /\ Nodes(h) = N \ {c}
  BY <1>1 DEF Containers, Nodes
<1>7. ASSUME NEW d \in C \ {c}
      PROVE  /\ h.kids[d] \in Seq(Int) /\ IsInjective(h.kids[d]) /\ Len(h.kids[d]) = Len(g.kids[d])
             /\ Range(h.kids[d]) = IF d = q THEN (Range(g.kids[d]) \ {c}) \cup {x} ELSE Range(g.kids[d])
  <2> DEFINE R == ReplaceChild(g.kids[d], c, g.kids[c])
             ch == g.kids[d]
             one == g.kids[c]
  <2>1. h.kids[d] = R
    OBVIOUS
  <2>2. Range(one) \cap Range(ch) = {}
    BY <1>1
  <2>3. Replaced(ch, c, one, R)
    BY <1>1, <2>2, ReplaceFacts
  <2>4. c \in Range(ch) <=> d = q
    BY <1>1
  <2>5. Len(ch) \in Nat /\ Len(one) = 1 /\ Range(one) = {x}
    BY <1>1, <1>3
  <2> HIDE DEF R, ch, one, q
  <2>6. /\ R \in Seq(Int) /\ IsInjective(R) /\ Len(R) = Len(ch)
        /\ Range(R) = IF d = q THEN (Range(ch) \ {c}) \cup {x} ELSE Range(ch)
    <3>1. CASE d = q
      BY ONLY <2>3, <2>4, <2>5, <3>1 DEF Replaced
    <3>2. CASE d # q
      BY ONLY <2>3, <2>4, <2>5, <3>2 DEF Replaced
    <3> QED
      BY <3>1, <3>2
  <2> QED
    BY <2>1, <2>6 DEF ch
<1> DEFINE up2 == [n \in (N \ {c}) \ {root_node} |-> IF n = x THEN q ELSE up[n]]
           rank2 == [n \in N \ {c} |-> rank[n]]
<1>8. /\ up2 \in [(N \ {c}) \ {root_node} -> C \ {c}] /\ rank2 \in [N \ {c} -> Nat]
      /\ up2[x] = q /\ \A n \in (N \ {c}) \ {root_node, x} : up2[n] = up[n]
      /\ \A n \in N \ {c} : rank2[n] = rank[n]
  BY <1>1, <1>2, <1>4, <1>5
<1> HIDE DEF up2, rank2, C, N, q
<1>9. /\ \A n \in (N \ {c}) \ {root_node} : rank2[n] < rank2[up2[n]]
      /\ \A n \in N \ {c} : rank2[n] <= rank2[root_node]
  <2>1. ASSUME NEW n \in (N \ {c}) \ {root_node} PROVE rank2[n] < rank2[up2[n]]
    <3>1. CASE n = x
      <4>1. rank[x] < rank[c] /\ rank[c] < rank[q] /\ x \in N \ {c} /\ q \in N \ {c}
        BY <1>1, <1>4, <1>5 DEF q
      <4>2. rank[x] \in Nat /\ rank[c] \in Nat /\ rank[q] \in Nat
        BY <1>1, <1>2, <4>1
      <4> QED
        BY <1>8, <3>1, <4>1, <4>2
    <3>2. CASE n # x
      <4>1. up[n] \in N \ {c} /\ up2[n] = up[n] /\ rank[n] < rank[up[n]]
        BY <1>1, <1>4, <1>8, <3>2
      <4> QED
        BY <1>8, <4>1
    <3> QED
      BY <3>1, <3>2
  <2>2. root_node \in N \ {c}
    BY <1>1
  <2> QED
    BY <1>1, <1>8, <2>1, <2>2
<1>10. ASSUME NEW d \in C \ {c}
       PROVE  Range(h.kids[d]) = {n \in (N \ {c}) \ {root_node} : up2[n] = d}
  <2>1. CASE d = q
    <3>1. {n \in (N \ {c}) \ {root_node} : up2[n] = q}
            = ({n \in N \ {root_node} : up[n] = q} \ {c}) \cup {x}
      BY <1>4, <1>5, <1>8
    <3> QED
      BY <1>1, <1>7, <2>1, <3>1
  <2>2. CASE d # q
    <3>1. {n \in (N \ {c}) \ {root_node} : up2[n] = d} = {n \in N \ {root_node} : up[n] = d}
      BY <1>4, <1>5, <1>8, <2>2 DEF q
    <3> QED
      BY <1>1, <1>7, <2>2, <3>1
  <2> QED
    BY <2>1, <2>2
<1>11. h.inner \cap (C \ {c}) = {} /\ root_node \in C \ {c}
  BY <1>1
<1>12. Linked(h, up2, rank2)
  <2>1. up2 \in [(N \ {c}) \ {root_node} -> C \ {c}] /\ rank2 \in [N \ {c} -> Nat]
    BY <1>8
  <2> QED
    BY ONLY <1>6, <1>7, <1>9, <1>10, <1>11, <2>1 DEF Linked
<1> QED
  BY <1>6, <1>7, <1>12 DEF C

(* The layout without a panel, its container folded away if that has one   *)
(* child left.                                                             *)
LEMMA FoldedInv ==
    ASSUME NEW g, LayoutInv(g), ~IsZoomed(g), NEW p \in g.inner, g.inner # {p},
           NEW l, l = collapse_single_child_containers(Without(g, p))
    PROVE  /\ l \in Layouts /\ \E u, r : Linked(l, u, r)
           /\ l.inner = g.inner \ {p} /\ Containers(l) \subseteq Containers(g)
           /\ \A c \in Containers(l) \ {root_node} : Len(l.kids[c]) >= 2
           /\ Len(l.kids[root_node]) = 1 /\ l.columns \subseteq Containers(l)
           /\ l.hidden = {} /\ ~IsZoomed(l) /\ (l.fits \/ "size" \in l.misplaced)
<1> DEFINE h == Without(g, p)
           kids == [n \in Containers(g) |-> ReplaceChild(g.kids[n], p, <<>>)]
<1>1. g \in Layouts /\ TreeInv(g) /\ ZoomInv(g) /\ g.hidden = {} /\ Containers(g) \subseteq Int
  BY LayoutType DEF LayoutInv, ZoomInv
<1>2. h = [g EXCEPT !.inner = g.inner \ {p}, !.kids = kids]
  BY DEF Without
<1> HIDE DEF h, kids
<1>3. /\ h.inner = g.inner \ {p} /\ h.kids = kids /\ h.columns = g.columns /\ h.current = g.current
      /\ h.root = g.root /\ h.hidden = {} /\ h.fits = g.fits /\ h.saved = g.saved
      /\ h.misplaced = g.misplaced
  BY <1>1, <1>2 DEF Layouts
<1>4. PICK up, rank : Linked(g, up, rank)
  BY <1>1 DEF TreeInv
<1>5. /\ \E u, r : Linked(h, u, r)
      /\ Containers(h) = Containers(g)
      /\ \A c \in Containers(h) : h.kids[c] \in Seq(Int)
      /\ up[p] \in Containers(h) \ {root_node} /\ Len(h.kids[up[p]]) >= 1
      /\ \A c \in Containers(h) \ {root_node, up[p]} : Len(h.kids[c]) >= 2
      /\ Len(h.kids[root_node]) = 1
  <2>1. h.kids = [n \in Containers(g) |-> ReplaceChild(g.kids[n], p, <<>>)] /\ h.inner = g.inner \ {p}
    BY <1>3 DEF kids
  <2> QED
    BY ONLY <1>1, <1>4, <2>1, p \in g.inner, g.inner # {p}, WithoutTree
<1>6. h \in Layouts
  <2>1. kids \in [Containers(g) -> Seq(Int)]
    <3>1. kids = [n \in Containers(g) |-> kids[n]]
      BY DEF kids
    <3> QED
      BY <1>3, <1>5, <3>1
  <2>2. kids \in KidMaps /\ g.inner \ {p} \subseteq Int
    BY <1>1, <2>1, KidMapFacts, LayoutType
  <2> QED
    BY <1>1, <1>2, <2>2 DEF Layouts
<1>7. g.columns \subseteq Containers(g) /\ (g.fits \/ "size" \in g.misplaced) /\ g.saved.nodes = {}
  BY <1>1 DEF TreeInv, ZoomInv, IsZoomed
<1>8. \A c \in Containers(h) : Len(h.kids[c]) \in Nat
  BY <1>5
<1>9. CASE Len(h.kids[up[p]]) >= 2
  <2>1. Thin(h) = {}
    BY <1>5, <1>8, <1>9 DEF Thin
  <2>2. l = h
    BY <2>1, CollapseNone DEF h
  <2>3. \A c \in Containers(h) \ {root_node} : Len(h.kids[c]) >= 2
    BY <1>5, <1>9
  <2> QED
    BY <1>3, <1>5, <1>6, <1>7, <2>2, <2>3 DEF IsZoomed
<1>10. CASE ~(Len(h.kids[up[p]]) >= 2)
  <2> DEFINE q == up[p]
             rest == [n \in Containers(h) \ {q} |-> ReplaceChild(h.kids[n], q, h.kids[q])]
  <2>1. q \in Containers(h) \ {root_node} /\ Len(h.kids[q]) = 1
    <3>1. q \in Containers(h) /\ Len(h.kids[q]) \in Nat /\ Len(h.kids[q]) >= 1
      BY <1>5, <1>8
    <3> HIDE DEF q
    <3>2. ~(Len(h.kids[q]) >= 2) /\ q # root_node
      BY <1>5, <1>10 DEF q
    <3> DEFINE len == Len(h.kids[q])
    <3>3. len \in Nat /\ len >= 1 /\ ~(len >= 2)
      BY <3>1, <3>2
    <3> HIDE DEF len
    <3>4. len = 1
      BY ONLY <3>3
    <3> QED
      BY <3>1, <3>2, <3>4 DEF len
  <2>2. Thin(h) = {q}
    <3>1. \A c \in Containers(h) \ {root_node, q} : ~(Len(h.kids[c]) <= 1)
      <4> TAKE c \in Containers(h) \ {root_node, q}
      <4>1. Len(h.kids[c]) >= 2 /\ Len(h.kids[c]) \in Nat
        BY <1>5, <1>8
      <4> QED
        BY <4>1
    <3>2. Len(h.kids[q]) <= 1
      BY <2>1
    <3> HIDE DEF q
    <3>3. \A c \in Containers(h) \ {root_node} : Len(h.kids[c]) <= 1 <=> c = q
      BY <3>1, <3>2
    <3> QED
      BY <2>1, <3>3 DEF Thin
  <2>3. l = WithoutContainer(h, q)
    BY <2>2, CollapseOne DEF h
  <2>4. l = [h EXCEPT !.kids = rest, !.columns = h.columns \ {q}]
    BY <2>3 DEF WithoutContainer
  <2> HIDE DEF rest, q
  <2>5. /\ l.inner = h.inner /\ l.kids = rest /\ l.columns = h.columns \ {q} /\ l.hidden = {}
        /\ l.fits = h.fits /\ l.saved = h.saved /\ l.misplaced = h.misplaced
    BY <1>3, <1>6, <2>4 DEF Layouts
  <2>6. /\ \E u, r : Linked(l, u, r)
        /\ Containers(l) = Containers(h) \ {q}
        /\ \A d \in Containers(l) : l.kids[d] \in Seq(Int) /\ Len(l.kids[d]) = Len(h.kids[d])
    <3>1. l.kids = [n \in Containers(h) \ {q} |-> ReplaceChild(h.kids[n], q, h.kids[q])] /\ l.inner = h.inner
      BY <2>5 DEF rest
    <3>2. PICK u, r : Linked(h, u, r)
      BY <1>5
    <3>3. Containers(h) \subseteq Int
      BY <1>1, <1>5
    <3>4. PICK c : c = q
      OBVIOUS
    <3>5. c \in Containers(h) \ {root_node} /\ Len(h.kids[c]) = 1
      BY <2>1, <3>4
    <3>6. l.kids = [n \in Containers(h) \ {c} |-> ReplaceChild(h.kids[n], c, h.kids[c])]
      BY <3>1, <3>4
    <3>7. l.inner = h.inner
      BY <3>1
    <3>8. \E u1, r1 : Linked(l, u1, r1)
      BY ONLY <3>2, <3>3, <3>5, <3>6, <3>7, CollapsedTree
    <3>9. Containers(l) = Containers(h) \ {c}
      BY ONLY <3>2, <3>3, <3>5, <3>6, <3>7, CollapsedTree
    <3>10. \A d \in Containers(l) : l.kids[d] \in Seq(Int) /\ Len(l.kids[d]) = Len(h.kids[d])
      BY ONLY <3>2, <3>3, <3>5, <3>6, <3>7, CollapsedTree, SMTT(30)
    <3> QED
      BY <3>4, <3>8, <3>9, <3>10
  <2>7. l \in Layouts
    <3>1. rest \in [Containers(l) -> Seq(Int)]
      <4>1. rest = [n \in Containers(l) |-> rest[n]]
        BY <2>6 DEF rest
      <4> QED
        BY <2>5, <2>6, <4>1
    <3>2. rest \in KidMaps
      BY <1>1, <1>5, <2>6, <3>1, KidMapFacts
    <3>3. h.columns \ {q} \subseteq Int
      BY <1>6 DEF Layouts
    <3> QED
      BY <1>6, <2>4, <3>2, <3>3 DEF Layouts
  <2>8. root_node \in Containers(l)
    BY <2>6 DEF Linked
  <2>9. \A c \in Containers(l) \ {root_node} : Len(l.kids[c]) >= 2
    BY <1>5, <2>6 DEF q
  <2>10. Len(l.kids[root_node]) = 1
    BY <1>5, <2>6, <2>8
  <2>11. l.columns \subseteq Containers(l)
    BY <1>3, <1>5, <1>7, <2>5, <2>6
  <2> QED
    BY <1>3, <1>5, <1>7, <2>5, <2>6, <2>7, <2>9, <2>10, <2>11 DEF IsZoomed
<1> QED
  BY <1>9, <1>10

-----------------------------------------------------------------------------
(* The order of the panels. *)

(* get_ordered_keys lists the visible panels, each once.                   *)
LEMMA KeysFacts ==
    ASSUME NEW g, IsFiniteSet(VisiblePanels(g)), NEW keys \in get_ordered_keys(g)
    PROVE  /\ Cardinality(VisiblePanels(g)) \in Nat
           /\ keys \in [1 .. Cardinality(VisiblePanels(g)) -> VisiblePanels(g)]
           /\ \A i, j \in 1 .. Cardinality(VisiblePanels(g)) : keys[i] = keys[j] => i = j
           /\ \A p \in VisiblePanels(g) : \E i \in 1 .. Cardinality(VisiblePanels(g)) : keys[i] = p
<1> DEFINE V == VisiblePanels(g)
           n == Cardinality(V)
<1>1. n \in Nat
  BY FS_CardinalityType
<1>2. keys \in SetToSeqs(V)
  BY DEF get_ordered_keys
<1>3. keys \in [1 .. n -> V] /\ \A i, j \in 1 .. n : i # j => keys[i] # keys[j]
  BY <1>2 DEF SetToSeqs
<1> HIDE DEF n
<1>4. keys \in Injection(1 .. n, V)
  BY <1>3, Fun_IsInj
<1>5. IsFiniteSet(1 .. n) /\ Cardinality(1 .. n) = n
  BY <1>1, FS_Interval
<1>6. keys \in Surjection(1 .. n, V)
  BY <1>4, <1>5, FS_Injection DEF n
<1> QED
  BY <1>1, <1>3, <1>6, Fun_SurjectionProperties DEF n

(* A neighbour is a visible panel. *)
LEMMA NeighbourVisible ==
    ASSUME NEW g, IsFiniteSet(VisiblePanels(g)), NEW keys \in get_ordered_keys(g), NEW d \in Int,
           Neighbour(g, keys, d) # 0
    PROVE  Neighbour(g, keys, d) \in VisiblePanels(g)
BY KeysFacts DEF Neighbour

(* The last of the panels. *)
LEMMA LastVisible ==
    ASSUME NEW g, IsFiniteSet(VisiblePanels(g)), VisiblePanels(g) # {}, NEW keys \in get_ordered_keys(g)
    PROVE  Last(keys) \in VisiblePanels(g)
<1> DEFINE n == Cardinality(VisiblePanels(g))
<1>1. n \in Nat /\ n # 0 /\ keys \in [1 .. n -> VisiblePanels(g)]
  BY KeysFacts, FS_EmptySet
<1> HIDE DEF n
<1>2. Len(keys) = n
  BY <1>1
<1> QED
  BY <1>1, <1>2 DEF Last

(* The heir of the focus is another panel. *)
LEMMA HeirIsAnother ==
    ASSUME NEW g, IsFiniteSet(g.inner), g.inner \subseteq Int, 0 \notin g.inner, g.hidden = {}, g.current \in g.inner,
           g.inner # {g.current}, NEW keys \in get_ordered_keys(g)
    PROVE  Heir(g, keys) \in g.inner \ {g.current}
<1> DEFINE n == Cardinality(g.inner)
<1>1. VisiblePanels(g) = g.inner
  BY DEF VisiblePanels
<1>2. /\ n \in Nat /\ keys \in [1 .. n -> g.inner]
      /\ \A i, j \in 1 .. n : keys[i] = keys[j] => i = j
      /\ \A p \in g.inner : \E i \in 1 .. n : keys[i] = p
  BY <1>1, KeysFacts
<1>3. n >= 2
  <2>1. PICK p \in g.inner : p # g.current
    OBVIOUS
  <2>2. PICK i \in 1 .. n, j \in 1 .. n : keys[i] = p /\ keys[j] = g.current
    BY <1>2
  <2>3. i # j
    BY <2>1, <2>2
  <2> HIDE DEF n
  <2> QED
    BY <1>2, <2>3
<1> HIDE DEF n
<1>4. PICK k \in 1 .. n : keys[k] = g.current
  BY <1>2
<1>5. \A d \in Int : Neighbour(g, keys, d) = IF k + d \in 1 .. n THEN keys[k + d] ELSE 0
  <2>1. (CHOOSE i \in DOMAIN keys : keys[i] = g.current) = k
    BY <1>2, <1>4
  <2> QED
    BY <1>2, <1>4, <2>1 DEF Neighbour
<1>6. CASE k + 1 \in 1 .. n
  <2>1. Neighbour(g, keys, 1) = keys[k + 1] /\ keys[k + 1] \in g.inner
    BY <1>2, <1>5, <1>6
  <2>2. keys[k + 1] # g.current /\ keys[k + 1] # 0
    BY <1>2, <1>4, <1>6, <2>1
  <2> QED
    BY <2>1, <2>2 DEF Heir
<1>7. CASE k + 1 \notin 1 .. n
  <2>1. k - 1 \in 1 .. n /\ k - 1 # k /\ k + (-1) = k - 1
    BY <1>2, <1>3, <1>7
  <2>2. Neighbour(g, keys, 1) = 0 /\ Neighbour(g, keys, -1) = keys[k - 1]
    BY <1>5, <1>7, <2>1
  <2>3. keys[k - 1] \in g.inner /\ keys[k - 1] # g.current
    BY <1>2, <1>4, <2>1
  <2> QED
    BY <2>2, <2>3 DEF Heir
<1> QED
  BY <1>6, <1>7

(* The layouts that remove_current allows when panels are left. *)
LEMMA RemoveCurrentDef ==
    ASSUME NEW g, ~(Cardinality(g.inner) <= 1 \/ g.current \notin g.inner),
           NEW u, u = Unzoomed(g),
           NEW l, l = collapse_single_child_containers(Without(u, u.current)),
           NEW grid \in remove_current(g)
    PROVE  \E keys \in get_ordered_keys(u), r \in IF u.root = u.current THEN l.inner ELSE {u.root} :
                grid = Inherited(l, u, keys, r)
<1> QED
  BY DEF remove_current

(* Removing the current panel removes it and nothing else. *)
LEMMA RemovedInv ==
    ASSUME NEW g, LayoutInv(g), NEW n \in Nat, Within(g, n), NEW grid \in remove_current(g)
    PROVE  /\ LayoutInv(grid) /\ Within(grid, n)
           /\ grid.inner = IF g.inner = {g.current} THEN g.inner ELSE g.inner \ {g.current}
<1> DEFINE u == Unzoomed(g)
           l == collapse_single_child_containers(Without(u, u.current))
<1>1. /\ LayoutInv(u) /\ u \in Layouts /\ TreeInv(u) /\ ZoomInv(u) /\ Within(u, n)
      /\ u.hidden = {} /\ ~IsZoomed(u)
      /\ u.inner = g.inner /\ u.current = g.current /\ u.current \in u.inner /\ u.root \in u.inner
  <2>1. /\ LayoutInv(u) /\ Within(u, n) /\ u.hidden = {} /\ ~IsZoomed(u)
        /\ u.inner = g.inner /\ u.current = g.current
    BY UnzoomedInv
  <2> QED
    BY <2>1 DEF LayoutInv, TreeInv
<1>2. IsFiniteSet(u.inner) /\ u.inner \subseteq Int /\ 0 \notin u.inner
  <2>1. u.inner \in SUBSET (1 .. n - 1) /\ IsFiniteSet(1 .. n - 1)
    BY <1>1, FS_Interval DEF Within
  <2> QED
    BY <2>1, FS_Subset
<1> HIDE DEF u, l
<1>3. Cardinality(g.inner) \in Nat /\ (Cardinality(g.inner) <= 1 <=> g.inner = {g.current})
  <2>1. Cardinality(g.inner) \in Nat /\ Cardinality(g.inner) # 0
    BY <1>1, <1>2, FS_CardinalityType, FS_EmptySet
  <2>2. Cardinality(g.inner) = 1 <=> \E x : g.inner = {x}
    BY <1>1, <1>2, FS_Singleton
  <2> QED
    BY <1>1, <2>1, <2>2
<1>4. CASE g.inner = {g.current}
  <2>1. grid = u
    BY <1>3, <1>4 DEF remove_current, u
  <2> QED
    BY <1>1, <1>4, <2>1
<1>5. CASE g.inner # {g.current}
  <2>1. PICK keys \in get_ordered_keys(u), r \in IF u.root = u.current THEN l.inner ELSE {u.root} :
            grid = Inherited(l, u, keys, r)
    <3>1. ~(Cardinality(g.inner) <= 1 \/ g.current \notin g.inner)
      BY <1>1, <1>3, <1>5
    <3>2. u = Unzoomed(g)
      BY DEF u
    <3>3. l = collapse_single_child_containers(Without(u, u.current))
      BY DEF l
    <3> QED
      BY ONLY <3>1, <3>2, <3>3, grid \in remove_current(g), RemoveCurrentDef
  <2>2. /\ l \in Layouts /\ \E u1, r1 : Linked(l, u1, r1)
        /\ l.inner = u.inner \ {u.current} /\ Containers(l) \subseteq Containers(u)
        /\ \A c \in Containers(l) \ {root_node} : Len(l.kids[c]) >= 2
        /\ Len(l.kids[root_node]) = 1 /\ l.columns \subseteq Containers(l)
        /\ l.hidden = {} /\ ~IsZoomed(l) /\ (l.fits \/ "size" \in l.misplaced)
    BY <1>1, <1>5, FoldedInv DEF l
  <2>3. Heir(u, keys) \in l.inner
    BY <1>1, <1>2, <1>5, <2>2, HeirIsAnother
  <2>4. r \in l.inner
    BY <1>1, <2>1, <2>2
  <2>5. Heir(u, keys) \in Int /\ r \in Int
    BY <2>2, <2>3, <2>4, LayoutType
  <2>6. /\ grid.inner = l.inner /\ grid.kids = l.kids /\ grid.columns = l.columns
        /\ grid.current = Heir(u, keys) /\ grid.root = r /\ grid.hidden = {}
        /\ grid.fits = l.fits /\ grid.saved = l.saved /\ grid.misplaced = l.misplaced
    BY <2>1, <2>2 DEF Layouts, Inherited
  <2>7. grid \in Layouts
    BY <2>1, <2>2, <2>5 DEF Layouts, Inherited
  <2>8. Nodes(grid) = Nodes(l) /\ Containers(grid) = Containers(l) /\ \E u1, r1 : Linked(grid, u1, r1)
    BY <2>2, <2>6, SameTree
  <2>9. TreeInv(grid)
    BY <2>2, <2>3, <2>4, <2>6, <2>8 DEF TreeInv
  <2>10. ZoomInv(grid)
    BY <2>2, <2>3, <2>6 DEF ZoomInv, IsZoomed, VisiblePanels
  <2>11. Within(grid, n)
    BY <1>1, <2>2, <2>6, <2>8 DEF Within
  <2> QED
    BY <1>1, <1>5, <2>2, <2>6, <2>7, <2>9, <2>10, <2>11 DEF LayoutInv
<1> QED
  BY <1>4, <1>5

-----------------------------------------------------------------------------
(* The list of tabs. *)

(* Every tab is a tree of its own, from the routes below n. *)
TabsInv(cs, n) ==
    /\ cs \in Seq(Layouts) /\ Len(cs) <= capacity
    /\ \A i \in DOMAIN cs : LayoutInv(cs[i]) /\ Within(cs[i], n)
    /\ \A i, j \in DOMAIN cs : i # j => cs[i].inner \cap cs[j].inner = {}

(* The routes of one tab are routes of the tabs. *)
LEMMA RoutesOfTabs ==
    ASSUME NEW cs, NEW r
    PROVE  r \in Routes(cs) <=> \E i \in DOMAIN cs : r \in cs[i].inner
BY DEF Routes

(* Larger routes only widen what the layouts come from. *)
LEMMA WithinMore ==
    ASSUME NEW g, NEW n \in Int, NEW m \in Int, n <= m, Within(g, n)
    PROVE  Within(g, m)
<1>1. 1 .. n - 1 \subseteq 1 .. m - 1 /\ 1 - n .. 0 \subseteq 1 - m .. 0
  OBVIOUS
<1> QED
  BY <1>1 DEF Within

(* One tab is replaced by a layout of its own panels, and new ones. *)
LEMMA ReplacedTab ==
    ASSUME NEW n \in Nat, NEW m \in Nat, n <= m, NEW cs, TabsInv(cs, n),
           NEW i \in DOMAIN cs, NEW g, LayoutInv(g), Within(g, m),
           g.inner \subseteq cs[i].inner \cup n .. m - 1,
           NEW ds, ds = [cs EXCEPT ![i] = g]
    PROVE  TabsInv(ds, m) /\ Len(ds) = Len(cs)
<1>1. /\ cs \in Seq(Layouts) /\ Len(cs) \in Nat /\ DOMAIN cs = 1 .. Len(cs) /\ Len(cs) <= capacity
      /\ g \in Layouts
  BY DEF TabsInv, LayoutInv
<1>2. /\ ds \in Seq(Layouts) /\ Len(ds) = Len(cs) /\ DOMAIN ds = DOMAIN cs
      /\ ds[i] = g /\ \A j \in DOMAIN cs \ {i} : ds[j] = cs[j]
  BY <1>1
<1>3. ASSUME NEW j \in DOMAIN cs PROVE LayoutInv(ds[j]) /\ Within(ds[j], m)
  <2>1. LayoutInv(cs[j]) /\ Within(cs[j], m)
    BY WithinMore DEF TabsInv
  <2> QED
    BY <1>2, <2>1
<1>4. ASSUME NEW j \in DOMAIN cs, j # i PROVE g.inner \cap cs[j].inner = {}
  <2>1. cs[i].inner \cap cs[j].inner = {} /\ cs[j].inner \subseteq 1 .. n - 1
    BY <1>4 DEF TabsInv, Within
  <2>2. (n .. m - 1) \cap (1 .. n - 1) = {}
    OBVIOUS
  <2> QED
    BY <2>1, <2>2
<1>5. \A j, k \in DOMAIN ds : j # k => ds[j].inner \cap ds[k].inner = {}
  BY <1>2, <1>4 DEF TabsInv
<1> QED
  BY <1>1, <1>2, <1>3, <1>5 DEF TabsInv

(* One tab is taken out of the list. *)
LEMMA RemovedTab ==
    ASSUME NEW n \in Nat, NEW cs, TabsInv(cs, n), NEW i \in DOMAIN cs,
           NEW ds, ds = RemoveAt(cs, i)
    PROVE  /\ TabsInv(ds, n) /\ Len(ds) = Len(cs) - 1
           /\ Routes(ds) = Routes(cs) \ cs[i].inner
<1> DEFINE old(j) == IF j < i THEN j ELSE j + 1
<1>1. /\ cs \in Seq(Layouts) /\ Len(cs) \in Nat /\ DOMAIN cs = 1 .. Len(cs) /\ Len(cs) <= capacity
      /\ i \in 1 .. Len(cs)
  BY DEF TabsInv
<1>2. /\ ds \in Seq(Layouts) /\ Len(ds) = Len(cs) - 1 /\ DOMAIN ds = 1 .. Len(cs) - 1
      /\ \A j \in 1 .. Len(cs) - 1 : ds[j] = cs[old(j)]
  <2> DEFINE a == SubSeq(cs, 1, i - 1)
             b == SubSeq(cs, i + 1, Len(cs))
  <2>1. a \in Seq(Layouts) /\ Len(a) = i - 1 /\ \A j \in 1 .. i - 1 : a[j] = cs[j]
    BY <1>1
  <2>2. b \in Seq(Layouts) /\ Len(b) = Len(cs) - i /\ \A j \in 1 .. Len(cs) - i : b[j] = cs[j + i]
    <3>1. \A j \in 1 .. Len(cs) - i : b[j] = cs[i + 1 + j - 1] /\ i + 1 + j - 1 = j + i
      BY <1>1
    <3> QED
      BY <1>1, <3>1
  <2>3. ds = a \o b
    BY DEF RemoveAt
  <2> HIDE DEF a, b
  <2>4. ds \in Seq(Layouts) /\ Len(ds) = Len(cs) - 1 /\ DOMAIN ds = 1 .. Len(cs) - 1
    <3>1. a \in Seq(Layouts) /\ b \in Seq(Layouts)
      BY <2>1, <2>2
    <3>3. (a \o b) \in Seq(Layouts)
      BY ONLY <3>1, ConcatProperties
    <3>4. Len(a \o b) = Len(a) + Len(b)
      BY ONLY <3>1, ConcatProperties
    <3>2. Len(a) + Len(b) = Len(cs) - 1
      BY <1>1, <2>1, <2>2
    <3> QED
      BY <2>3, <3>2, <3>3, <3>4
  <2>5. ASSUME NEW j \in 1 .. Len(cs) - 1 PROVE ds[j] = cs[old(j)]
    <3>1. CASE j < i
      BY <1>1, <2>1, <2>2, <2>3, <3>1
    <3>2. CASE j >= i
      <4>1. j - (i - 1) \in 1 .. Len(cs) - i /\ (j - (i - 1)) + i = j + 1 /\ j \in Int /\ ~(j < i)
        BY <1>1, <3>2
      <4>2. (a \o b)[j] = b[j - Len(a)]
        <5>1. /\ a \in Seq(Layouts) /\ b \in Seq(Layouts)
              /\ j \in 1 .. Len(a) + Len(b) /\ ~(j <= Len(a))
          BY <1>1, <2>1, <2>2, <3>2
        <5> QED
          BY ONLY <5>1, ConcatProperties
      <4> QED
        BY <2>1, <2>2, <2>3, <4>1, <4>2
    <3> QED
      BY <1>1, <3>1, <3>2
  <2> QED
    BY <2>4, <2>5
<1>3. /\ \A j \in DOMAIN ds : old(j) \in DOMAIN cs /\ old(j) # i
      /\ \A j, k \in DOMAIN ds : j # k => old(j) # old(k)
      /\ \A j \in DOMAIN cs \ {i} : \E k \in DOMAIN ds : old(k) = j
  <2>1. ASSUME NEW j \in DOMAIN cs \ {i} PROVE \E k \in DOMAIN ds : old(k) = j
    <3>1. CASE j < i
      BY <1>1, <1>2, <3>1
    <3>2. CASE j > i
      <4>1. j - 1 \in DOMAIN ds /\ old(j - 1) = j
        BY <1>1, <1>2, <3>2
      <4> QED
        BY <4>1
    <3> QED
      BY <1>1, <3>1, <3>2
  <2> QED
    BY <1>1, <1>2, <2>1
<1>4. \A j \in DOMAIN ds : ds[j] = cs[old(j)]
  BY <1>2
<1>5. Len(ds) <= capacity
  BY <1>1, <1>2, ContextAssumption
<1> HIDE DEF old
<1>6. \A j \in DOMAIN ds : LayoutInv(ds[j]) /\ Within(ds[j], n)
  BY <1>3, <1>4 DEF TabsInv
<1>7. \A j, k \in DOMAIN ds : j # k => ds[j].inner \cap ds[k].inner = {}
  BY <1>3, <1>4 DEF TabsInv
<1>8. Routes(ds) = Routes(cs) \ cs[i].inner
  <2>1. ASSUME NEW r \in Routes(ds) PROVE r \in Routes(cs) \ cs[i].inner
    <3>1. PICK j \in DOMAIN ds : r \in cs[old(j)].inner
      BY <1>4, <2>1, RoutesOfTabs
    <3> QED
      BY <1>3, <3>1, RoutesOfTabs DEF TabsInv
  <2>2. ASSUME NEW r \in Routes(cs), r \notin cs[i].inner PROVE r \in Routes(ds)
    <3>1. PICK j \in DOMAIN cs : r \in cs[j].inner
      BY RoutesOfTabs
    <3>2. j # i
      BY <2>2, <3>1
    <3>3. PICK k \in DOMAIN ds : old(k) = j
      BY <1>3, <3>2
    <3> QED
      BY <1>4, <3>1, <3>3, RoutesOfTabs
  <2> QED
    BY <2>1, <2>2
<1> QED
  BY <1>2, <1>5, <1>6, <1>7, <1>8 DEF TabsInv

(* The tabs left of it keep their place. *)
LEMMA KeptLeft ==
    ASSUME NEW cs \in Seq(Layouts), NEW i \in DOMAIN cs, NEW k \in 1 .. i - 1
    PROVE  RemoveAt(cs, i)[k] = cs[k]
<1> DEFINE a == SubSeq(cs, 1, i - 1)
           b == SubSeq(cs, i + 1, Len(cs))
<1>1. a \in Seq(Layouts) /\ Len(a) = i - 1 /\ a[k] = cs[k]
  OBVIOUS
<1>2. b \in Seq(Layouts)
  OBVIOUS
<1>3. RemoveAt(cs, i) = a \o b
  BY DEF RemoveAt
<1> HIDE DEF a, b
<1> QED
  BY <1>1, <1>2, <1>3

(* A tab of a new panel is appended. *)
LEMMA AppendedTab ==
    ASSUME NEW n \in Nat \ {0}, NEW cs, TabsInv(cs, n), Len(cs) < capacity,
           NEW ds, ds = Append(cs, NewLayout(n))
    PROVE  TabsInv(ds, n + 1) /\ Len(ds) = Len(cs) + 1 /\ ds[Len(cs) + 1] = NewLayout(n)
<1> DEFINE g == NewLayout(n)
<1>1. LayoutInv(g) /\ Within(g, n + 1) /\ g \in Layouts /\ g.inner = {n}
  <2>1. LayoutInv(g) /\ Within(g, n + 1)
    BY NewLayoutInv
  <2>2. g.inner = {n}
    BY DEF NewLayout
  <2> HIDE DEF g
  <2> QED
    BY <2>1, <2>2 DEF LayoutInv
<1> HIDE DEF g
<1>2. /\ cs \in Seq(Layouts) /\ Len(cs) \in Nat /\ DOMAIN cs = 1 .. Len(cs)
  BY DEF TabsInv
<1>3. ds = Append(cs, g)
  BY DEF g
<1>4. /\ ds \in Seq(Layouts) /\ Len(ds) = Len(cs) + 1 /\ DOMAIN ds = 1 .. Len(cs) + 1
      /\ ds[Len(cs) + 1] = g /\ \A j \in DOMAIN cs : ds[j] = cs[j]
  BY <1>1, <1>2, <1>3
<1>5. Len(ds) <= capacity
  BY <1>2, <1>4, ContextAssumption
<1>6. \A j \in DOMAIN ds : j \in DOMAIN cs \/ j = Len(cs) + 1
  BY <1>2, <1>4
<1>7. ASSUME NEW j \in DOMAIN cs PROVE LayoutInv(cs[j]) /\ Within(cs[j], n + 1) /\ n \notin cs[j].inner
  <2>1. LayoutInv(cs[j]) /\ Within(cs[j], n)
    BY DEF TabsInv
  <2>2. Within(cs[j], n + 1)
    BY <2>1, WithinMore
  <2>3. n \notin 1 .. n - 1
    OBVIOUS
  <2> QED
    BY <2>1, <2>2, <2>3 DEF Within
<1>8. \A j \in DOMAIN ds : LayoutInv(ds[j]) /\ Within(ds[j], n + 1)
  BY <1>1, <1>4, <1>6, <1>7
<1>9. ASSUME NEW j \in DOMAIN ds, NEW k \in DOMAIN ds, j # k PROVE ds[j].inner \cap ds[k].inner = {}
  <2>1. CASE j \in DOMAIN cs /\ k \in DOMAIN cs
    BY <1>4, <1>9, <2>1 DEF TabsInv
  <2>2. CASE j \in DOMAIN cs /\ k = Len(cs) + 1
    BY <1>1, <1>4, <1>7, <2>2
  <2>3. CASE k \in DOMAIN cs /\ j = Len(cs) + 1
    BY <1>1, <1>4, <1>7, <2>3
  <2> QED
    BY <1>6, <1>9, <2>1, <2>2, <2>3
<1> QED
  BY <1>4, <1>5, <1>8, <1>9 DEF TabsInv, g

(* Two tabs swap places. *)
LEMMA SwappedTabs ==
    ASSUME NEW n \in Nat, NEW cs, TabsInv(cs, n), NEW i \in DOMAIN cs, NEW j \in DOMAIN cs,
           NEW ds, ds = [cs EXCEPT ![i] = cs[j], ![j] = cs[i]]
    PROVE  TabsInv(ds, n) /\ Len(ds) = Len(cs)
<1> DEFINE old(k) == IF k = j THEN i ELSE IF k = i THEN j ELSE k
<1>1. cs \in Seq(Layouts) /\ Len(cs) \in Nat /\ DOMAIN cs = 1 .. Len(cs) /\ Len(cs) <= capacity
  BY DEF TabsInv
<1>2. /\ ds \in Seq(Layouts) /\ Len(ds) = Len(cs) /\ DOMAIN ds = DOMAIN cs
      /\ \A k \in DOMAIN cs : ds[k] = cs[old(k)]
  BY <1>1
<1>3. /\ \A k \in DOMAIN cs : old(k) \in DOMAIN cs
      /\ \A k, l \in DOMAIN cs : k # l => old(k) # old(l)
  OBVIOUS
<1> HIDE DEF old
<1>4. \A k \in DOMAIN ds : LayoutInv(ds[k]) /\ Within(ds[k], n)
  BY <1>2, <1>3 DEF TabsInv
<1>5. ASSUME NEW k \in DOMAIN ds, NEW l \in DOMAIN ds, k # l PROVE ds[k].inner \cap ds[l].inner = {}
  <2>1. /\ old(k) \in DOMAIN cs /\ old(l) \in DOMAIN cs /\ old(k) # old(l)
        /\ ds[k] = cs[old(k)] /\ ds[l] = cs[old(l)]
    BY <1>2, <1>3, <1>5
  <2> QED
    BY <2>1 DEF TabsInv
<1> QED
  BY <1>1, <1>2, <1>4, <1>5 DEF TabsInv

(* One tab alone. *)
LEMMA OneTab ==
    ASSUME NEW n \in Nat, NEW g, LayoutInv(g), Within(g, n), NEW ds, ds = <<g>>
    PROVE  TabsInv(ds, n) /\ Len(ds) = 1 /\ ds[1] = g /\ Routes(ds) = g.inner
<1>1. g \in Layouts
  BY DEF LayoutInv
<1>2. ds \in Seq(Layouts) /\ Len(ds) = 1 /\ DOMAIN ds = {1} /\ ds[1] = g
  BY <1>1
<1>3. Routes(ds) = g.inner
  BY <1>2 DEF Routes
<1> QED
  BY <1>2, <1>3, ContextAssumption DEF TabsInv

(* All tabs are laid out anew. *)
LEMMA ResizedTabs ==
    ASSUME NEW n \in Nat, NEW cs, TabsInv(cs, n),
           NEW ds, ds = resize_all_grids([i \in DOMAIN cs |-> Outgrown(cs[i])])
    PROVE  /\ TabsInv(ds, n) /\ Len(ds) = Len(cs) /\ DOMAIN ds = DOMAIN cs
           /\ \A i \in DOMAIN cs : ds[i].inner = cs[i].inner /\ ds[i].current = cs[i].current
<1>1. cs \in Seq(Layouts) /\ Len(cs) \in Nat /\ DOMAIN cs = 1 .. Len(cs) /\ Len(cs) <= capacity
  BY DEF TabsInv
<1>2. ds = [i \in DOMAIN cs |-> Resized(Outgrown(cs[i]))]
  BY DEF resize_all_grids
<1>3. ASSUME NEW i \in DOMAIN cs
      PROVE  /\ LayoutInv(ds[i]) /\ Within(ds[i], n) /\ ds[i] \in Layouts
             /\ ds[i].inner = cs[i].inner /\ ds[i].current = cs[i].current
  <2>1. LayoutInv(cs[i]) /\ Within(cs[i], n) /\ ds[i] = Resized(Outgrown(cs[i]))
    BY <1>2 DEF TabsInv
  <2> QED
    BY <2>1, ResizedInv DEF LayoutInv
<1>4. DOMAIN ds = DOMAIN cs
  BY <1>2
<1>5. ds \in Seq(Layouts) /\ Len(ds) = Len(cs)
  <2>1. ds = [i \in 1 .. Len(cs) |-> ds[i]]
    BY <1>1, <1>2
  <2>2. ds \in [1 .. Len(cs) -> Layouts]
    BY <1>1, <1>3, <2>1
  <2> QED
    BY <1>1, <2>2
<1>6. \A i, j \in DOMAIN ds : i # j => ds[i].inner \cap ds[j].inner = {}
  BY <1>3, <1>4 DEF TabsInv
<1> QED
  BY <1>1, <1>3, <1>4, <1>5, <1>6 DEF TabsInv

-----------------------------------------------------------------------------
(* The steps of the manager. *)

(* The inductive invariant: the tabs are trees of panels that share none.  *)
ContextInv ==
    /\ TabsInv(contexts, next_route)
    /\ next_route \in 1 .. MaxRoutes + 1 /\ current_index \in Nat /\ current_route \in Route
    /\ closing \subseteq Route /\ open \in BOOLEAN /\ shifted \in BOOLEAN

(* The tab shown is there and its panel is the route, unless the exit of a *)
(* hidden shell has shifted the tabs.                                      *)
FocusInv == ShownTabExists /\ CurrentRouteTracks

(* What the invariant says of one tab. *)
LEMMA TabFacts ==
    ASSUME NEW n \in 1 .. MaxRoutes + 1, NEW cs, TabsInv(cs, n), NEW i \in DOMAIN cs
    PROVE  /\ LayoutInv(cs[i]) /\ Within(cs[i], n)
           /\ cs[i].current \in cs[i].inner /\ cs[i].root \in cs[i].inner
           /\ cs[i].inner \subseteq Route /\ IsFiniteSet(cs[i].inner)
<1>1. LayoutInv(cs[i]) /\ Within(cs[i], n)
  BY DEF TabsInv
<1>2. cs[i].current \in cs[i].inner /\ cs[i].root \in cs[i].inner
  BY <1>1 DEF LayoutInv, TreeInv
<1>3. cs[i].inner \subseteq 1 .. n - 1 /\ 1 .. n - 1 \subseteq Route
  BY <1>1, ContextAssumption DEF Within, Route
<1>4. IsFiniteSet(cs[i].inner)
  BY <1>3, FS_Interval, FS_Subset
<1> QED
  BY <1>1, <1>2, <1>3, <1>4

(* The visible panels of a layout: some, and finitely many. *)
LEMMA VisibleFacts ==
    ASSUME NEW g, LayoutInv(g), IsFiniteSet(g.inner)
    PROVE  /\ VisiblePanels(g) \subseteq g.inner /\ IsFiniteSet(VisiblePanels(g))
           /\ VisiblePanels(g) # {}
<1>1. VisiblePanels(g) \subseteq g.inner
  BY DEF VisiblePanels
<1>2. VisiblePanels(g) # {}
  BY DEF LayoutInv, TreeInv, ZoomInv, VisiblePanels
<1> QED
  BY <1>1, <1>2, FS_Subset

(* The tab shown. *)
LEMMA CurrentTab ==
    ASSUME ContextInv, Running
    PROVE  /\ current_index + 1 \in DOMAIN contexts
           /\ Len(contexts) \in Nat \ {0} /\ DOMAIN contexts = 1 .. Len(contexts)
           /\ LayoutInv(current_grid) /\ Within(current_grid, next_route)
           /\ current_grid.current \in current_grid.inner /\ current_grid.inner \subseteq Route
           /\ IsFiniteSet(current_grid.inner)
<1>1. /\ current_index + 1 \in DOMAIN contexts
      /\ Len(contexts) \in Nat \ {0} /\ DOMAIN contexts = 1 .. Len(contexts)
  <2>1. contexts \in Seq(Layouts) /\ current_index \in Nat /\ current_index < Len(contexts)
    BY DEF ContextInv, TabsInv, Running
  <2> QED
    BY <2>1
<1> QED
  BY <1>1, TabFacts DEF ContextInv, current_grid

(* The tab shown becomes another layout of its panels, and new ones. *)
LEMMA SetGridStep ==
    ASSUME ContextInv, Running, NEW grid, SetGrid(grid), LayoutInv(grid), Within(grid, next_route'),
           next_route' \in next_route .. MaxRoutes + 1, closing' \subseteq Route,
           grid.inner \subseteq current_grid.inner \cup next_route .. next_route' - 1,
           UNCHANGED current_index, open' \in BOOLEAN
    PROVE  ContextInv' /\ FocusInv'
<1>1. /\ current_index + 1 \in DOMAIN contexts /\ contexts \in Seq(Layouts) /\ grid \in Layouts
      /\ next_route \in Nat /\ next_route' \in Nat /\ next_route <= next_route'
      /\ next_route' \in 1 .. MaxRoutes + 1
  BY CurrentTab, ContextAssumption DEF ContextInv, TabsInv, LayoutInv
<1>2. TabsInv(contexts, next_route) /\ contexts' = [contexts EXCEPT ![current_index + 1] = grid]
  BY DEF ContextInv, SetGrid
<1>3. TabsInv(contexts', next_route') /\ Len(contexts') = Len(contexts)
  <2>1. grid.inner \subseteq contexts[current_index + 1].inner \cup next_route .. next_route' - 1
    BY DEF current_grid
  <2>2. LayoutInv(grid) /\ Within(grid, next_route')
    OBVIOUS
  <2>3. /\ next_route \in Nat /\ next_route' \in Nat /\ next_route <= next_route'
        /\ TabsInv(contexts, next_route) /\ current_index + 1 \in DOMAIN contexts
    BY <1>1, <1>2
  <2> DEFINE cs == [contexts EXCEPT ![current_index + 1] = grid]
  <2>4. TabsInv(cs, next_route')
    BY <2>1, <2>2, <2>3, ReplacedTab, Zenon
  <2>5. Len(cs) = Len(contexts)
    BY <1>1
  <2> QED
    BY <1>2, <2>4, <2>5
<1>4. contexts'[current_index' + 1] = grid /\ current_index' + 1 \in DOMAIN contexts'
  BY <1>1, <1>2
<1>5. current_route' = grid.current /\ current_route' \in Route
  <2>1. contexts'[current_index' + 1].current \in Route
    BY <1>1, <1>3, <1>4, TabFacts
  <2> QED
    BY <1>4, <2>1 DEF SetGrid
<1>6. ContextInv'
  BY <1>1, <1>3, <1>5 DEF ContextInv, SetGrid
<1>7. FocusInv'
  BY <1>3, <1>4, <1>5 DEF FocusInv, ShownTabExists, CurrentTabExists, CurrentRouteTracks, current_grid, Running
<1> QED
  BY <1>6, <1>7

(* Another tab is shown, if there is one. *)
LEMMA SetCurrentStep ==
    ASSUME ContextInv, NEW cs, NEW i \in Nat, TabsInv(cs, next_route), set_current(cs, i),
           closing' \subseteq Route, open' \in BOOLEAN, UNCHANGED next_route
    PROVE  ContextInv' /\ (i < Len(cs) => FocusInv')
<1>1. TabsInv(contexts', next_route') /\ contexts' = cs /\ next_route' \in 1 .. MaxRoutes + 1
  BY DEF ContextInv, set_current
<1>2. current_index' \in Nat /\ current_route' \in Route /\ shifted' \in BOOLEAN
  <2>1. CASE i < Len(cs)
    <3>1. i + 1 \in DOMAIN cs
      BY <2>1 DEF TabsInv
    <3>2. cs[i + 1].current \in Route
      BY <1>1, <3>1, TabFacts
    <3> QED
      BY <2>1, <3>2 DEF set_current
  <2>2. CASE ~(i < Len(cs))
    BY <2>2 DEF set_current, ContextInv
  <2> QED
    BY <2>1, <2>2
<1>3. ASSUME i < Len(cs) PROVE FocusInv'
  BY <1>1, <1>3 DEF set_current, FocusInv, ShownTabExists, CurrentTabExists, CurrentRouteTracks, current_grid, Running
<1> QED
  BY <1>1, <1>2, <1>3 DEF ContextInv

(* The tabs next to the current one. *)
LEMMA NeighbourTabs ==
    ASSUME NEW n \in Nat \ {0}, NEW c \in 0 .. n - 1
    PROVE  /\ (c + 1) % n \in 0 .. n - 1 /\ (c + n - 1) % n \in 0 .. n - 1
OBVIOUS

(* Selecting and moving tabs keeps the invariant, and the route follows.   *)
LEMMA SelectInv ==
    ASSUME ContextInv,
           \/ switch_to_next \/ switch_to_prev
           \/ \E i \in 0 .. capacity : select_tab(i)
           \/ \E target \in 0 .. capacity - 1 : move_current(target)
    PROVE  ContextInv' /\ (FocusInv => FocusInv')
<1>1. /\ TabsInv(contexts, next_route) /\ current_index \in Nat /\ closing \subseteq Route
      /\ open \in BOOLEAN /\ capacity \in Nat \ {0}
  BY ContextAssumption DEF ContextInv
<1>2. ASSUME switch_to_next \/ switch_to_prev PROVE ContextInv' /\ FocusInv'
  <2>1. current_index + 1 \in 1 .. Len(contexts) /\ Len(contexts) \in Nat \ {0}
    BY <1>2, CurrentTab DEF switch_to_next, switch_to_prev
  <2>2. CASE switch_to_next
    <3> DEFINE i == IF Len(contexts) - 1 = current_index THEN 0 ELSE current_index + 1
    <3>1. i \in Nat /\ i < Len(contexts)
      BY <1>1, <2>1
    <3>2. set_current(contexts, i) /\ closing' = closing /\ open' = open /\ UNCHANGED next_route
      BY <2>2 DEF switch_to_next
    <3> HIDE DEF i
    <3> QED
      BY <1>1, <3>1, <3>2, SetCurrentStep
  <2>3. CASE switch_to_prev
    <3> DEFINE i == IF current_index = 0 THEN Len(contexts) - 1 ELSE current_index - 1
    <3>1. i \in Nat /\ i < Len(contexts)
      BY <1>1, <2>1
    <3>2. set_current(contexts, i) /\ closing' = closing /\ open' = open /\ UNCHANGED next_route
      BY <2>3 DEF switch_to_prev
    <3> HIDE DEF i
    <3> QED
      BY <1>1, <3>1, <3>2, SetCurrentStep
  <2> QED
    BY <1>2, <2>2, <2>3
<1>3. ASSUME NEW i \in 0 .. capacity, select_tab(i) PROVE ContextInv' /\ (FocusInv => FocusInv')
  <2>1. set_current(contexts, i) /\ closing' = closing /\ open' = open /\ UNCHANGED next_route
    BY <1>3 DEF select_tab
  <2>2. ContextInv' /\ (i < Len(contexts) => FocusInv')
    BY <1>1, <2>1, SetCurrentStep
  <2>3. ASSUME ~(i < Len(contexts)), FocusInv PROVE FocusInv'
    BY <2>1, <2>3 DEF set_current, FocusInv, ShownTabExists, CurrentTabExists, CurrentRouteTracks, current_grid, Running
  <2> QED
    BY <2>2, <2>3
<1>4. ASSUME NEW target \in 0 .. capacity - 1, move_current(target) PROVE ContextInv' /\ FocusInv'
  <2> DEFINE cs == [contexts EXCEPT ![current_index + 1] = contexts[target + 1],
                                    ![target + 1] = contexts[current_index + 1]]
  <2>1. /\ current_index + 1 \in DOMAIN contexts /\ DOMAIN contexts = 1 .. Len(contexts)
        /\ Len(contexts) \in Nat \ {0} /\ current_index \in 0 .. Len(contexts) - 1
    BY <1>1, <1>4, CurrentTab DEF move_current
  <2>2. target \in 0 .. Len(contexts) - 1
    BY <1>4, <2>1, NeighbourTabs DEF move_current
  <2>3. TabsInv(cs, next_route) /\ Len(cs) = Len(contexts)
    <3>1. target + 1 \in DOMAIN contexts /\ next_route \in Nat
      BY <2>1, <2>2 DEF ContextInv
    <3>2. TabsInv(contexts, next_route) /\ current_index + 1 \in DOMAIN contexts
      BY <1>1, <2>1
    <3>3. TabsInv(cs, next_route)
      BY <3>1, <3>2, SwappedTabs, Zenon
    <3>4. Len(cs) = Len(contexts)
      BY <1>1 DEF TabsInv
    <3> QED
      BY <3>3, <3>4
  <2>4. set_current(cs, target) /\ closing' = closing /\ open' = open /\ UNCHANGED next_route
    BY <1>4 DEF move_current
  <2> HIDE DEF cs
  <2>5. target \in Nat /\ target < Len(cs)
    BY <1>1, <2>1, <2>2, <2>3
  <2> QED
    BY <1>1, <2>3, <2>4, <2>5, SetCurrentStep
<1> QED
  BY <1>2, <1>3, <1>4

(* A layout of the same panels takes the place of the one shown. *)
LEMMA SameGridStep ==
    ASSUME ContextInv, Running, NEW grid, SetGrid(grid), LayoutInv(grid),
           Within(grid, next_route), grid.inner \subseteq current_grid.inner,
           UNCHANGED <<current_index, next_route, closing, open>>
    PROVE  ContextInv' /\ FocusInv'
<1>1. /\ next_route' \in next_route .. MaxRoutes + 1 /\ closing' \subseteq Route
      /\ Within(grid, next_route') /\ open' \in BOOLEAN
      /\ grid.inner \subseteq current_grid.inner \cup next_route .. next_route' - 1
  BY DEF ContextInv
<1> QED
  BY <1>1, SetGridStep

(* Another visible panel of the tab gets the focus.                        *)
LEMMA FocusInTabInv ==
    ASSUME ContextInv, Running, NEW r \in VisiblePanels(current_grid),
           SetGrid([current_grid EXCEPT !.current = r]),
           UNCHANGED <<current_index, next_route, closing, open>>
    PROVE  ContextInv' /\ FocusInv'
<1> DEFINE grid == [current_grid EXCEPT !.current = r]
<1>1. LayoutInv(current_grid) /\ Within(current_grid, next_route)
  BY CurrentTab
<1>2. LayoutInv(grid) /\ Within(grid, next_route) /\ grid.inner = current_grid.inner
  BY <1>1, CurrentInv
<1>3. SetGrid(grid)
  OBVIOUS
<1> HIDE DEF grid
<1> QED
  BY <1>2, <1>3, SameGridStep

(* The focus moves to another tab, and in it to one of its panels. *)
LEMMA FocusElsewhereInv ==
    ASSUME ContextInv, NEW i \in Nat, i + 1 \in DOMAIN contexts, NEW r \in contexts[i + 1].inner,
           set_current([contexts EXCEPT ![i + 1] = Focused(contexts[i + 1], r)], i),
           UNCHANGED <<next_route, closing, open>>
    PROVE  ContextInv' /\ FocusInv'
<1> DEFINE grid == contexts[i + 1]
           cs == [contexts EXCEPT ![i + 1] = Focused(grid, r)]
<1>1. /\ TabsInv(contexts, next_route) /\ next_route \in Nat /\ closing' \subseteq Route
      /\ open' \in BOOLEAN /\ LayoutInv(grid) /\ Within(grid, next_route)
  BY TabFacts DEF ContextInv
<1>2. /\ LayoutInv(Focused(grid, r)) /\ Within(Focused(grid, r), next_route)
      /\ Focused(grid, r).inner = grid.inner
  BY <1>1, FocusedInv
<1>3. TabsInv(cs, next_route) /\ Len(cs) = Len(contexts)
  BY <1>1, <1>2, ReplacedTab
<1>4. i < Len(cs)
  BY <1>1, <1>3 DEF TabsInv
<1>5. set_current(cs, i)
  OBVIOUS
<1> HIDE DEF cs
<1> QED
  BY <1>1, <1>3, <1>4, <1>5, SetCurrentStep

(* A step inside the tab goes to a visible panel. *)
LEMMA StepInTabInv ==
    ASSUME ContextInv, Running, NEW d \in Int, StepInTab(d), UNCHANGED <<next_route, closing, open>>
    PROVE  ContextInv' /\ FocusInv'
<1>1. /\ LayoutInv(current_grid) /\ IsFiniteSet(current_grid.inner)
  BY CurrentTab
<1>2. IsFiniteSet(VisiblePanels(current_grid))
  BY <1>1, VisibleFacts
<1>3. PICK keys \in get_ordered_keys(current_grid) :
        /\ Neighbour(current_grid, keys, d) # 0
        /\ SetGrid([current_grid EXCEPT !.current = Neighbour(current_grid, keys, d)])
        /\ UNCHANGED current_index
  BY DEF StepInTab
<1>4. Neighbour(current_grid, keys, d) \in VisiblePanels(current_grid)
  BY <1>2, <1>3, NeighbourVisible
<1>5. PICK r \in VisiblePanels(current_grid) : r = Neighbour(current_grid, keys, d)
  BY <1>4
<1>6. SetGrid([current_grid EXCEPT !.current = r]) /\ UNCHANGED <<current_index, next_route, closing, open>>
  BY <1>3, <1>5
<1> QED
  BY <1>6, FocusInTabInv

(* The next or previous panel, or the tab beside the one shown, gets the   *)
(* focus.                                                                  *)
LEMMA SplitOrTabInv ==
    ASSUME ContextInv, switch_to_next_split_or_tab \/ switch_to_prev_split_or_tab
    PROVE  ContextInv' /\ FocusInv'
<1>1. Running /\ UNCHANGED <<next_route, closing, open>>
  BY DEF switch_to_next_split_or_tab, switch_to_prev_split_or_tab
<1>2. /\ DOMAIN contexts = 1 .. Len(contexts) /\ Len(contexts) \in Nat \ {0}
      /\ current_index \in 0 .. Len(contexts) - 1 /\ TabsInv(contexts, next_route)
  BY <1>1, CurrentTab DEF ContextInv, Running
<1>3. CASE switch_to_next_split_or_tab
  <2> DEFINE i == (current_index + 1) % Len(contexts)
             grid == contexts[i + 1]
  <2>1. i \in Nat /\ i + 1 \in DOMAIN contexts
    BY <1>2, NeighbourTabs
  <2>2. \/ StepInTab(1)
        \/ set_current([contexts EXCEPT ![i + 1] = Focused(grid, grid.root)], i)
    BY <1>3 DEF switch_to_next_split_or_tab
  <2>3. grid.root \in grid.inner
    BY <2>1, TabFacts DEF ContextInv
  <2> HIDE DEF i
  <2>4. ASSUME set_current([contexts EXCEPT ![i + 1] = Focused(grid, grid.root)], i)
        PROVE  ContextInv' /\ FocusInv'
    BY <1>1, <2>1, <2>3, <2>4, FocusElsewhereInv
  <2> QED
    BY <1>1, <2>2, <2>4, StepInTabInv
<1>4. CASE switch_to_prev_split_or_tab
  <2> DEFINE i == (current_index + Len(contexts) - 1) % Len(contexts)
             grid == contexts[i + 1]
  <2>1. i \in Nat /\ i + 1 \in DOMAIN contexts
    BY <1>2, NeighbourTabs
  <2>2. \/ StepInTab(-1)
        \/ \E keys \in get_ordered_keys(grid) :
                set_current([contexts EXCEPT ![i + 1] = Focused(grid, Last(keys))], i)
    BY <1>4 DEF switch_to_prev_split_or_tab
  <2> HIDE DEF i
  <2>3. ASSUME NEW keys \in get_ordered_keys(grid),
               set_current([contexts EXCEPT ![i + 1] = Focused(grid, Last(keys))], i)
        PROVE  ContextInv' /\ FocusInv'
    <3>1. LayoutInv(grid) /\ IsFiniteSet(grid.inner)
      BY <2>1, TabFacts DEF ContextInv
    <3>2. Last(keys) \in grid.inner
      BY <2>3, <3>1, VisibleFacts, LastVisible
    <3> QED
      BY <1>1, <2>1, <2>3, <3>2, FocusElsewhereInv
  <2>4. ASSUME StepInTab(-1) PROVE ContextInv' /\ FocusInv'
    <3>1. PICK d \in Int : d = -1
      OBVIOUS
    <3>2. StepInTab(d)
      BY <2>4, <3>1
    <3> QED
      BY <1>1, <3>2, StepInTabInv
  <2> QED
    BY <2>2, <2>3, <2>4
<1> QED
  BY <1>3, <1>4

(* A panel is selected by its direction or with the mouse.                 *)
LEMMA SelectSplitInv ==
    ASSUME ContextInv, NEW r \in Route, select_split(r)
    PROVE  ContextInv' /\ FocusInv'
<1>1. /\ Running /\ SetGrid([current_grid EXCEPT !.current = r])
      /\ UNCHANGED <<current_index, next_route, closing, open>>
      /\ r \in VisiblePanels(current_grid) \/ r = current_grid.current
  BY DEF select_split
<1>3. CASE r = current_grid.current
  <2>1. LayoutInv(current_grid) /\ Within(current_grid, next_route)
    BY <1>1, CurrentTab
  <2>2. [current_grid EXCEPT !.current = r] = current_grid
    BY <1>3, <2>1 DEF LayoutInv, Layouts
  <2>3. SetGrid(current_grid)
    BY <1>1, <2>2
  <2> QED
    BY <1>1, <2>1, <2>3, SameGridStep
<1>2. CASE r \in VisiblePanels(current_grid)
  <2>1. PICK p \in VisiblePanels(current_grid) : p = r
    BY <1>2
  <2>2. SetGrid([current_grid EXCEPT !.current = p])
    BY <1>1, <2>1
  <2> QED
    BY <1>1, <2>2, FocusInTabInv
<1> QED
  BY <1>1, <1>2, <1>3

(* A zoom begins or ends in the tab shown.                                 *)
LEMMA ZoomInvStep ==
    ASSUME ContextInv, ToggleSplitZoom
    PROVE  ContextInv' /\ FocusInv'
<1>1. Running /\ UNCHANGED <<current_index, next_route, closing, open>>
  BY DEF ToggleSplitZoom
<1>2. LayoutInv(current_grid) /\ Within(current_grid, next_route)
  BY <1>1, CurrentTab
<1>3. PICK grid : /\ SetGrid(grid)
                  /\ \/ grid = Unzoomed(current_grid)
                     \/ grid = Zoomed(current_grid) /\ ~IsZoomed(current_grid)
  BY DEF ToggleSplitZoom, toggle_current_split_zoom
<1>4. LayoutInv(grid) /\ Within(grid, next_route) /\ grid.inner = current_grid.inner
  BY <1>2, <1>3, UnzoomedInv, ZoomedInv
<1> QED
  BY <1>1, <1>3, <1>4, SameGridStep

(* Moving a divider ends a zoom and leaves the focus where it is.          *)
LEMMA MoveDividerInv ==
    ASSUME ContextInv, MoveDivider
    PROVE  ContextInv' /\ (FocusInv => FocusInv')
<1> DEFINE grid == Unzoomed(current_grid)
<1>1. /\ Running /\ contexts' = [contexts EXCEPT ![current_index + 1] = grid]
      /\ UNCHANGED <<current_index, current_route, next_route, closing, open, shifted>>
  BY DEF MoveDivider
<1>2. /\ LayoutInv(current_grid) /\ Within(current_grid, next_route)
      /\ current_index + 1 \in DOMAIN contexts /\ DOMAIN contexts = 1 .. Len(contexts)
  BY <1>1, CurrentTab
<1>3. /\ LayoutInv(grid) /\ Within(grid, next_route) /\ grid.inner = current_grid.inner
  BY <1>2, UnzoomedInv
<1>4. grid.current = current_grid.current
  BY DEF Unzoomed
<1> HIDE DEF grid
<1>5. /\ TabsInv(contexts, next_route) /\ next_route \in Nat
      /\ grid.inner \subseteq contexts[current_index + 1].inner \cup next_route .. next_route - 1
  BY <1>3 DEF ContextInv, current_grid
<1>6. TabsInv(contexts', next_route) /\ Len(contexts') = Len(contexts)
  <2> DEFINE cs == [contexts EXCEPT ![current_index + 1] = grid]
  <2>1. next_route <= next_route /\ current_index + 1 \in DOMAIN contexts
    BY <1>2, <1>5
  <2>2. LayoutInv(grid) /\ Within(grid, next_route)
    BY <1>3
  <2>3. TabsInv(cs, next_route)
    BY <1>5, <2>1, <2>2, ReplacedTab, Zenon
  <2>4. Len(cs) = Len(contexts)
    BY <1>5 DEF TabsInv
  <2> QED
    BY <1>1, <2>3, <2>4
<1>7. ContextInv'
  BY <1>1, <1>6 DEF ContextInv
<1>8. contexts'[current_index + 1] = grid
  BY <1>1, <1>2
<1>9. ASSUME FocusInv PROVE FocusInv'
  BY <1>1, <1>4, <1>6, <1>8, <1>9
     DEF FocusInv, ShownTabExists, CurrentTabExists, CurrentRouteTracks, current_grid, Running
<1> QED
  BY <1>7, <1>9

(* A resize lays out all tabs, those in the background too.                *)
LEMMA ResizeWindowInv ==
    ASSUME ContextInv, ResizeWindow
    PROVE  ContextInv' /\ (FocusInv => FocusInv')
<1>1. /\ TabsInv(contexts, next_route) /\ next_route \in Nat
      /\ current_index + 1 \in DOMAIN contexts
  BY CurrentTab DEF ContextInv, ResizeWindow
<1>2. contexts' = resize_all_grids([i \in DOMAIN contexts |-> Outgrown(contexts[i])])
  BY DEF ResizeWindow
<1>3. /\ TabsInv(contexts', next_route) /\ Len(contexts') = Len(contexts)
      /\ contexts'[current_index + 1].current = contexts[current_index + 1].current
  BY <1>1, <1>2, ResizedTabs
<1>4. ContextInv'
  BY <1>3 DEF ContextInv, ResizeWindow
<1>5. ASSUME FocusInv PROVE FocusInv'
  BY <1>3, <1>5 DEF FocusInv, ShownTabExists, CurrentTabExists, CurrentRouteTracks, current_grid, Running, ResizeWindow
<1> QED
  BY <1>4, <1>5

(* A tab is opened, in front or behind.                                    *)
LEMMA AddContextInv ==
    ASSUME ContextInv, NEW redirect \in BOOLEAN, add_context(redirect)
    PROVE  ContextInv' /\ (FocusInv => FocusInv')
<1>1. /\ TabsInv(contexts, next_route) /\ next_route \in Nat \ {0} /\ Len(contexts) < capacity
      /\ next_route \in Route /\ next_route' = next_route + 1
      /\ contexts' = Append(contexts, NewLayout(next_route))
      /\ current_index + 1 \in DOMAIN contexts /\ contexts \in Seq(Layouts)
  BY CurrentTab DEF ContextInv, TabsInv, add_context
<1>2. /\ TabsInv(contexts', next_route') /\ Len(contexts') = Len(contexts) + 1
      /\ contexts'[Len(contexts) + 1] = NewLayout(next_route)
  BY <1>1, AppendedTab
<1>3. ContextInv'
  <2>1. next_route' \in 1 .. MaxRoutes + 1 /\ Len(contexts) \in Nat
    BY <1>1, ContextAssumption DEF Route
  <2> QED
    BY <1>1, <1>2, <2>1 DEF ContextInv, add_context
<1>4. ASSUME FocusInv PROVE FocusInv'
  <2>1. contexts'[current_index + 1] = contexts[current_index + 1]
    BY <1>1
  <2>2. NewLayout(next_route).current = next_route
    BY DEF NewLayout
  <2>3. Len(contexts) \in Nat /\ current_index \in Nat /\ open' = open
    BY <1>1 DEF ContextInv, add_context
  <2> QED
    BY <1>2, <1>4, <2>1, <2>2, <2>3
       DEF FocusInv, ShownTabExists, CurrentTabExists, CurrentRouteTracks, current_grid, Running, add_context
<1> QED
  BY <1>3, <1>4

(* A split opens a panel with a route that no tab has.                     *)
LEMMA SplitStepInv ==
    ASSUME ContextInv, NEW down \in BOOLEAN, split(down)
    PROVE  ContextInv' /\ FocusInv'
<1> DEFINE grid == Split(current_grid, next_route, down)
<1>1. /\ Running /\ next_route \in Route /\ next_route' = next_route + 1 /\ SetGrid(grid)
      /\ UNCHANGED <<current_index, closing, open>>
  BY DEF split
<1>2. LayoutInv(current_grid) /\ Within(current_grid, next_route) /\ next_route \in Nat \ {0}
  BY <1>1, CurrentTab, ContextAssumption DEF Route
<1>3. LayoutInv(grid) /\ Within(grid, next_route') /\ grid.inner = current_grid.inner \cup {next_route}
  BY <1>1, <1>2, SplitInv
<1>4. /\ next_route' \in next_route .. MaxRoutes + 1 /\ closing' \subseteq Route /\ open' \in BOOLEAN
      /\ next_route \in next_route .. next_route' - 1
  BY <1>1, <1>2, ContextAssumption DEF Route, ContextInv
<1>5. grid.inner \subseteq current_grid.inner \cup next_route .. next_route' - 1
  BY <1>3, <1>4
<1> HIDE DEF grid
<1> QED
  BY <1>1, <1>3, <1>4, <1>5, SetGridStep

-----------------------------------------------------------------------------
(* Closing. *)

(* The current panel of the tab shown is removed, if it is not its last. *)
LEMMA RemoveGridInv ==
    ASSUME ContextInv, Running, remove_current_grid, UNCHANGED next_route,
           closing' \subseteq Route, open' \in BOOLEAN
    PROVE  ContextInv' /\ FocusInv'
<1>1. PICK grid \in remove_current(current_grid) : SetGrid(grid) /\ UNCHANGED current_index
  BY DEF remove_current_grid
<1>2. LayoutInv(current_grid) /\ Within(current_grid, next_route) /\ next_route \in Nat
  BY CurrentTab DEF ContextInv
<1>3. LayoutInv(grid) /\ Within(grid, next_route) /\ grid.inner \subseteq current_grid.inner
  BY <1>1, <1>2, RemovedInv
<1>4. /\ next_route' \in next_route .. MaxRoutes + 1 /\ Within(grid, next_route')
      /\ grid.inner \subseteq current_grid.inner \cup next_route .. next_route' - 1
  BY <1>3 DEF ContextInv
<1> QED
  BY <1>1, <1>3, <1>4, SetGridStep

(* Routes of the tabs are routes. *)
LEMMA RoutesAreRoutes ==
    ASSUME ContextInv
    PROVE  Routes(contexts) \subseteq Route
BY TabFacts DEF ContextInv, Routes

(* Closing by hand: a panel, the tab shown, or all others.                 *)
LEMMA CloseByHandInv ==
    ASSUME ContextInv, CloseSplit \/ close_current_context \/ close_unfocused_tabs
    PROVE  ContextInv' /\ FocusInv'
<1>1. Running /\ UNCHANGED <<next_route, open>>
  BY DEF CloseSplit, close_current_context, close_unfocused_tabs
<1>2. /\ current_index + 1 \in DOMAIN contexts /\ DOMAIN contexts = 1 .. Len(contexts)
      /\ Len(contexts) \in Nat \ {0} /\ current_index \in Nat
      /\ current_grid.inner \subseteq Route /\ current_grid.current \in Route
      /\ LayoutInv(current_grid) /\ Within(current_grid, next_route)
      /\ TabsInv(contexts, next_route) /\ next_route \in Nat /\ closing \subseteq Route
      /\ open' \in BOOLEAN /\ UNCHANGED next_route
  BY <1>1, CurrentTab DEF ContextInv
<1>3. CASE CloseSplit
  <2>1. remove_current_grid /\ closing' \subseteq Route
    BY <1>2, <1>3 DEF CloseSplit
  <2> QED
    BY <1>1, <1>2, <2>1, RemoveGridInv
<1>4. CASE close_current_context
  <2> DEFINE left == RemoveAt(contexts, current_index + 1)
             i == IF current_index > 1 THEN current_index - 1 ELSE 0
  <2>1. Len(contexts) > 1 /\ set_current(left, i) /\ closing' \subseteq Route
    BY <1>2, <1>4 DEF close_current_context
  <2>2. TabsInv(left, next_route) /\ Len(left) = Len(contexts) - 1
    BY <1>2, RemovedTab
  <2> HIDE DEF left
  <2>3. i \in Nat /\ i < Len(left)
    BY <1>2, <2>1, <2>2
  <2> HIDE DEF i
  <2> QED
    BY <1>2, <2>1, <2>2, <2>3, SetCurrentStep
<1>5. CASE close_unfocused_tabs
  <2> DEFINE one == <<current_grid>>
  <2>1. set_current(one, 0) /\ closing' \subseteq Route
    BY <1>2, <1>5, RoutesAreRoutes DEF close_unfocused_tabs
  <2>2. TabsInv(one, next_route) /\ Len(one) = 1
    BY <1>2, OneTab
  <2> HIDE DEF one
  <2>3. 0 \in Nat /\ 0 < Len(one)
    BY <2>2
  <2>4. TabsInv(one, next_route) /\ open' \in BOOLEAN /\ UNCHANGED next_route
    BY <1>2, <2>2
  <2> QED
    BY ONLY ContextInv, <2>1, <2>3, <2>4, SetCurrentStep
<1> QED
  BY <1>3, <1>4, <1>5

(* The exit of a shell only queues its CloseTerminal.                      *)
LEMMA ShellExitsInv ==
    ASSUME ContextInv, NEW r \in Route, ShellExits(r)
    PROVE  ContextInv' /\ (FocusInv => FocusInv')
<1>1. ContextInv'
  BY DEF ContextInv, ShellExits
<1>2. ASSUME FocusInv PROVE FocusInv'
  BY <1>2 DEF FocusInv, ShownTabExists, CurrentTabExists, CurrentRouteTracks, current_grid, Running, ShellExits
<1> QED
  BY <1>1, <1>2

(* The tab found for a route has it as its current panel. *)
LEMMA TabOfCurrentFacts ==
    ASSUME ContextInv, NEW r
    PROVE  \/ TabOfCurrent(r) = 0 /\ \A i \in DOMAIN contexts : contexts[i].current # r
           \/ TabOfCurrent(r) \in DOMAIN contexts /\ contexts[TabOfCurrent(r)].current = r
<1> DEFINE T == {i \in DOMAIN contexts : contexts[i].current = r}
<1>1. DOMAIN contexts = 1 .. Len(contexts) /\ Len(contexts) \in Nat
  BY DEF ContextInv, TabsInv
<1>2. CASE T = {}
  BY <1>2 DEF TabOfCurrent
<1>3. CASE T # {}
  <2>1. T \subseteq Nat
    BY <1>1
  <2>2. PICK i \in T : \A j \in T : i <= j
    BY <1>3, <2>1, Least
  <2>3. contexts[i].current = r /\ \A j \in 1 .. i - 1 : contexts[j].current # r
    BY <1>1, <2>2
  <2> QED
    BY <1>3, <2>2, <2>3 DEF TabOfCurrent
<1> QED
  BY <1>2, <1>3

(* The tabs after the exit of r was handled, case by case.  The tab of the *)
(* exited panel goes when it has no other; otherwise the panel goes.       *)
LEMMA CloseTerminalCases ==
    ASSUME ContextInv, NEW r \in Route, CloseTerminal(r)
    PROVE  /\ Running /\ r \in closing /\ Dropped(r)
           /\ \/ Cardinality(current_grid.inner) > 1 /\ current_grid.current = r /\ remove_current_grid
              \/ /\ Cardinality(current_grid.inner) > 1 => current_grid.current # r
                 /\ Cardinality(current_grid.inner) <= 1 => TabOfCurrent(r) = 0
                 /\ UNCHANGED <<contexts, current_index, current_route, shifted>>
              \/ /\ Cardinality(current_grid.inner) = 1 /\ TabOfCurrent(r) # 0 /\ current_route = r
                 /\ set_current(RemoveAt(contexts, TabOfCurrent(r)),
                                IF TabOfCurrent(r) - 1 > 1 THEN TabOfCurrent(r) - 2 ELSE 0)
              \/ /\ Cardinality(current_grid.inner) = 1 /\ TabOfCurrent(r) # 0 /\ current_route # r
                 /\ contexts' = RemoveAt(contexts, TabOfCurrent(r))
                 /\ shifted' = (shifted \/ TabOfCurrent(r) - 1 < current_index)
                 /\ UNCHANGED <<current_index, current_route>>
<1>1. Running
  BY DEF CloseTerminal
<1>2. Cardinality(current_grid.inner) \in Nat \ {0}
  <2>1. IsFiniteSet(current_grid.inner) /\ current_grid.inner # {}
    BY <1>1, CurrentTab
  <2> QED
    BY <2>1, FS_CardinalityType, FS_EmptySet
<1> DEFINE c == Cardinality(current_grid.inner)
           i == TabOfCurrent(r)
<1>3. \/ c > 1
      \/ c = 1 /\ i = 0
      \/ c = 1 /\ i # 0 /\ current_route = r
      \/ c = 1 /\ i # 0 /\ current_route # r
  BY <1>2
<1>4. CASE c > 1
  BY <1>1, <1>2, <1>4 DEF CloseTerminal
<1>5. CASE c = 1 /\ i = 0
  BY <1>1, <1>5 DEF CloseTerminal
<1>6. CASE c = 1 /\ i # 0 /\ current_route = r
  BY <1>1, <1>6 DEF CloseTerminal
<1>7. CASE c = 1 /\ i # 0 /\ current_route # r
  BY <1>1, <1>7 DEF CloseTerminal
<1> QED
  BY <1>3, <1>4, <1>5, <1>6, <1>7

(* Handling a CloseTerminal keeps the trees in every case.  A hidden tab   *)
(* right of the one shown goes without a trace; one left of it is what     *)
(* shifted records; the one shown goes with its own route only.            *)
LEMMA CloseTerminalInv ==
    ASSUME ContextInv, NEW r \in Route, CloseTerminal(r)
    PROVE  ContextInv' /\ (FocusInv => FocusInv')
<1>1. Running /\ r \in closing /\ Dropped(r)
  BY CloseTerminalCases
<1> DEFINE i == TabOfCurrent(r)
           left == RemoveAt(contexts, i)
           j == IF i - 1 > 1 THEN i - 2 ELSE 0
<1>2. \/ remove_current_grid
      \/ UNCHANGED <<contexts, current_index, current_route, shifted>>
      \/ i # 0 /\ set_current(left, j)
      \/ /\ i # 0 /\ current_route # r /\ contexts' = left
         /\ shifted' = (shifted \/ i - 1 < current_index)
         /\ UNCHANGED <<current_index, current_route>>
  BY CloseTerminalCases
<1>3. /\ closing' \subseteq Route /\ open' = (contexts' # <<>>) /\ open' \in BOOLEAN
      /\ UNCHANGED next_route /\ open
  BY <1>1, RoutesAreRoutes DEF Dropped, ContextInv, Running
<1>4. TabsInv(contexts, next_route) /\ next_route \in Nat /\ DOMAIN contexts = 1 .. Len(contexts)
  BY <1>1, CurrentTab DEF ContextInv
<1>5. ASSUME i # 0
      PROVE  /\ i \in DOMAIN contexts /\ contexts[i].current = r
             /\ TabsInv(left, next_route) /\ Len(left) = Len(contexts) - 1
  <2>1. i \in DOMAIN contexts /\ contexts[i].current = r
    BY <1>5, TabOfCurrentFacts
  <2> HIDE DEF i
  <2> QED
    BY <1>4, <2>1, RemovedTab
<1>6. CASE remove_current_grid
  BY <1>1, <1>3, <1>6, RemoveGridInv
<1>7. CASE UNCHANGED <<contexts, current_index, current_route, shifted>>
  <2>1. ContextInv'
    BY <1>3, <1>7 DEF ContextInv
  <2>2. ASSUME FocusInv PROVE FocusInv'
    BY <1>3, <1>7, <2>2 DEF FocusInv, ShownTabExists, CurrentTabExists, CurrentRouteTracks, current_grid, Running
  <2> QED
    BY <2>1, <2>2
<1>8. CASE i # 0 /\ set_current(left, j)
  <2>1. /\ i \in 1 .. Len(contexts) /\ TabsInv(left, next_route) /\ Len(left) = Len(contexts) - 1
    BY <1>4, <1>5, <1>8
  <2>2. j \in Nat /\ (Len(contexts) # 1 => j < Len(contexts) - 1)
    <3> HIDE DEF i
    <3> QED
      BY <1>4, <2>1 DEF TabsInv
  <2> HIDE DEF i, j, left
  <2>3. ContextInv' /\ (j < Len(left) => FocusInv')
    BY <1>3, <1>8, <2>1, <2>2, SetCurrentStep
  <2>4. CASE Len(contexts) = 1
    <3>1. contexts' = left /\ Len(left) = 0 /\ left \in Seq(Layouts)
      BY <1>8, <2>1, <2>4 DEF set_current, TabsInv
    <3>2. left = <<>>
      BY ONLY <3>1, EmptySeq
    <3>3. ~open'
      BY <1>3, <3>1, <3>2
    <3> QED
      BY <2>3, <3>3 DEF FocusInv, ShownTabExists, CurrentTabExists, CurrentRouteTracks, Running
  <2> QED
    BY <2>1, <2>2, <2>3, <2>4
<1>9. CASE /\ i # 0 /\ current_route # r /\ contexts' = left
           /\ shifted' = (shifted \/ i - 1 < current_index)
           /\ UNCHANGED <<current_index, current_route>>
  <2>1. /\ i \in DOMAIN contexts /\ contexts[i].current = r
        /\ TabsInv(left, next_route) /\ Len(left) = Len(contexts) - 1
    BY <1>5, <1>9
  <2> HIDE DEF i
  <2>2. ContextInv'
    BY <1>3, <1>9, <2>1 DEF ContextInv
  <2>3. ASSUME FocusInv, ~shifted' PROVE open' /\ Running' => current_route' = current_grid'.current
    <3>1. ~shifted /\ ~(i - 1 < current_index)
      BY <1>9, <2>3
    <3>2. current_route = contexts[current_index + 1].current
      BY <1>1, <2>3, <3>1 DEF FocusInv, CurrentRouteTracks, current_grid
    <3>3. i # current_index + 1
      BY <1>9, <2>1, <3>2
    <3>4. current_index + 1 \in 1 .. i - 1
      <4>1. i \in 1 .. Len(contexts) /\ Len(contexts) \in Nat /\ current_index \in Nat
        BY <1>1, <1>4, <2>1, CurrentTab DEF ContextInv
      <4> QED
        BY <3>1, <3>3, <4>1
    <3>5. contexts'[current_index + 1] = contexts[current_index + 1]
      BY <1>4, <1>9, <2>1, <3>4, KeptLeft DEF TabsInv
    <3> QED
      BY <1>9, <3>2, <3>5 DEF current_grid
  <2>4. ASSUME FocusInv, ~shifted' PROVE current_index' < Len(contexts')
    <3>1. ~shifted /\ ~(i - 1 < current_index)
      BY <1>9, <2>4
    <3>2. current_route = contexts[current_index + 1].current
      BY <1>1, <2>4, <3>1 DEF FocusInv, CurrentRouteTracks, current_grid
    <3>3. i # current_index + 1
      BY <1>9, <2>1, <3>2
    <3>4. i \in 1 .. Len(contexts) /\ Len(contexts) \in Nat /\ current_index \in Nat
      BY <1>1, <1>4, <2>1, CurrentTab DEF ContextInv
    <3> QED
      BY <1>9, <2>1, <3>1, <3>3, <3>4
  <2> QED
    BY <2>2, <2>3, <2>4 DEF FocusInv, ShownTabExists, CurrentTabExists, CurrentRouteTracks, Running
<1> QED
  BY <1>2, <1>6, <1>7, <1>8, <1>9

(* The window opens with one tab of one panel.                             *)
LEMMA InitInv == Init => ContextInv /\ FocusInv
<1> SUFFICES ASSUME Init PROVE ContextInv /\ FocusInv
  OBVIOUS
<1> DEFINE g == NewLayout(1)
<1>1. LayoutInv(g) /\ Within(g, 2)
  BY NewLayoutInv
<1>2. g.current = 1
  BY DEF NewLayout
<1>3. contexts = <<g>> /\ next_route = 2 /\ current_index = 0 /\ current_route = 1 /\ open = TRUE
  BY DEF Init
<1> HIDE DEF g
<1>4. TabsInv(contexts, next_route) /\ Len(contexts) = 1 /\ contexts[1] = g
  BY <1>1, <1>3, OneTab
<1>5. 1 \in Route /\ 2 \in 1 .. MaxRoutes + 1
  BY ContextAssumption DEF Route
<1>6. ContextInv
  <2>1. closing = {} /\ open \in BOOLEAN /\ shifted \in BOOLEAN
    BY DEF Init
  <2> QED
    BY <1>3, <1>4, <1>5, <2>1 DEF ContextInv
<1>7. FocusInv
  BY <1>2, <1>3, <1>4 DEF FocusInv, ShownTabExists, CurrentTabExists, CurrentRouteTracks, current_grid
<1> QED
  BY <1>6, <1>7

(* Every step keeps the invariant, and the focus.                          *)
LEMMA ContextStep ==
    ASSUME ContextInv, [Next]_vars
    PROVE  ContextInv' /\ (FocusInv => FocusInv')
<1>1. CASE UNCHANGED vars
  <2>1. ContextInv'
    BY <1>1 DEF ContextInv, vars
  <2>2. ASSUME FocusInv PROVE FocusInv'
    BY <1>1, <2>2 DEF FocusInv, ShownTabExists, CurrentTabExists, CurrentRouteTracks, current_grid, Running, vars
  <2> QED
    BY <2>1, <2>2
<1>2. CASE \/ switch_to_next \/ switch_to_prev
           \/ \E i \in 0 .. capacity : select_tab(i)
           \/ \E target \in 0 .. capacity - 1 : move_current(target)
  BY <1>2, SelectInv
<1>3. ASSUME NEW r \in Route, select_split(r) PROVE ContextInv' /\ FocusInv'
  BY <1>3, SelectSplitInv
<1>4. ASSUME NEW redirect \in BOOLEAN, add_context(redirect)
      PROVE  ContextInv' /\ (FocusInv => FocusInv')
  BY <1>4, AddContextInv
<1>5. ASSUME NEW down \in BOOLEAN, split(down) PROVE ContextInv' /\ FocusInv'
  BY <1>5, SplitStepInv
<1>6. CASE switch_to_next_split_or_tab \/ switch_to_prev_split_or_tab
  BY <1>6, SplitOrTabInv
<1>7. CASE ToggleSplitZoom
  BY <1>7, ZoomInvStep
<1>12. CASE MoveDivider
  BY <1>12, MoveDividerInv
<1>8. CASE ResizeWindow
  BY <1>8, ResizeWindowInv
<1>9. CASE CloseSplit \/ close_current_context \/ close_unfocused_tabs
  BY <1>9, CloseByHandInv
<1>10. ASSUME NEW r \in Route, ShellExits(r) PROVE ContextInv' /\ (FocusInv => FocusInv')
  BY <1>10, ShellExitsInv
<1>11. ASSUME NEW r \in Route, CloseTerminal(r)
       PROVE  ContextInv' /\ (FocusInv => FocusInv')
  BY <1>11, CloseTerminalInv
<1> QED
  BY <1>1, <1>2, <1>3, <1>4, <1>5, <1>6, <1>7, <1>8, <1>9, <1>10, <1>11, <1>12 DEF Next

(* One tab loses a panel. *)
LEMMA RoutesOfReplaced ==
    ASSUME NEW n, NEW cs, TabsInv(cs, n), NEW i \in DOMAIN cs, NEW r \in cs[i].inner,
           NEW g, g.inner = cs[i].inner \ {r}
    PROVE  Routes([cs EXCEPT ![i] = g]) = Routes(cs) \ {r}
<1> DEFINE ds == [cs EXCEPT ![i] = g]
<1>1. DOMAIN ds = DOMAIN cs /\ ds[i] = g /\ \A j \in DOMAIN cs \ {i} : ds[j] = cs[j]
  BY DEF TabsInv
<1>2. \A j \in DOMAIN cs \ {i} : r \notin cs[j].inner
  BY DEF TabsInv
<1> HIDE DEF ds
<1>3. ASSUME NEW s \in Routes(ds) PROVE s \in Routes(cs) \ {r}
  <2>1. PICK j \in DOMAIN cs : s \in ds[j].inner
    BY <1>1, <1>3, RoutesOfTabs
  <2> QED
    BY <1>1, <1>2, <2>1, RoutesOfTabs
<1>4. ASSUME NEW s \in Routes(cs), s # r PROVE s \in Routes(ds)
  <2>1. PICK j \in DOMAIN cs : s \in cs[j].inner
    BY RoutesOfTabs
  <2>2. s \in ds[j].inner
    BY <1>1, <1>4, <2>1
  <2> QED
    BY <1>1, <2>1, <2>2, RoutesOfTabs
<1> QED
  BY <1>3, <1>4 DEF ds

(* The exit of r takes r away, or nothing, or a hidden tab with it.        *)
LEMMA ExitStep ==
    ASSUME ContextInv, NEW r \in Route, CloseTerminal(r)
    PROVE  ExitTakes(r)
<1>1. /\ Running /\ current_index + 1 \in DOMAIN contexts
      /\ current_grid = contexts[current_index + 1]
      /\ current_grid.current \in current_grid.inner /\ IsFiniteSet(current_grid.inner)
      /\ LayoutInv(current_grid) /\ Within(current_grid, next_route)
      /\ TabsInv(contexts, next_route) /\ next_route \in Nat
  BY CloseTerminalCases, CurrentTab DEF current_grid, ContextInv
<1>2. current_grid.current \in Routes(contexts)
  BY <1>1, RoutesOfTabs
<1> DEFINE i == TabOfCurrent(r)
<1>3. CASE Cardinality(current_grid.inner) > 1 /\ current_grid.current = r /\ remove_current_grid
  <2>1. PICK grid \in remove_current(current_grid) : SetGrid(grid)
    BY <1>3 DEF remove_current_grid
  <2>2. current_grid.inner # {current_grid.current}
    <3>1. Cardinality({current_grid.current}) = 1
      BY FS_Singleton
    <3>2. ~(1 > 1)
      OBVIOUS
    <3> QED
      BY <1>3, <3>1, <3>2
  <2>3. grid.inner = current_grid.inner \ {r}
    BY <1>1, <1>3, <2>1, <2>2, RemovedInv
  <2>4. contexts' = [contexts EXCEPT ![current_index + 1] = grid]
    BY <2>1 DEF SetGrid
  <2>5. Routes([contexts EXCEPT ![current_index + 1] = grid]) = Routes(contexts) \ {r}
    BY <1>1, <1>3, <2>3, RoutesOfReplaced
  <2>6. Routes(contexts') = Routes(contexts) \ {r} /\ r \in Routes(contexts) /\ r = current_grid.current
    BY <1>2, <1>3, <2>4, <2>5
  <2> QED
    BY <2>6 DEF ExitTakes
<1>4. CASE /\ Cardinality(current_grid.inner) > 1 => current_grid.current # r
           /\ Cardinality(current_grid.inner) <= 1 => i = 0
           /\ contexts' = contexts
  <2>1. Cardinality(current_grid.inner) \in Nat
    BY <1>1, FS_CardinalityType
  <2>2. ASSUME r = current_grid.current PROVE FALSE
    <3>1. i = 0
      BY <1>4, <2>1, <2>2
    <3> QED
      BY <1>1, <2>2, <3>1, TabOfCurrentFacts DEF ContextInv, TabsInv
  <2> QED
    BY <1>4, <2>2 DEF ExitTakes
<1>5. CASE Cardinality(current_grid.inner) = 1 /\ i # 0 /\ contexts' = RemoveAt(contexts, i)
  <2>1. i \in DOMAIN contexts /\ contexts[i].current = r
    BY <1>5, TabOfCurrentFacts
  <2> HIDE DEF i
  <2>2. r \in contexts[i].inner /\ contexts[i].inner \subseteq Routes(contexts)
    BY <1>1, <2>1, TabFacts, RoutesOfTabs DEF ContextInv
  <2>3. Routes(contexts') = Routes(contexts) \ contexts[i].inner
    BY <1>1, <1>5, <2>1, RemovedTab
  <2>4. CASE i = current_index + 1
    <3>1. contexts[i].inner = {r} /\ r = current_grid.current
      BY <1>1, <1>5, <2>1, <2>2, <2>4, FS_Singleton
    <3> QED
      BY <2>2, <2>3, <3>1 DEF ExitTakes
  <2>5. CASE i # current_index + 1
    <3>1. r # current_grid.current
      BY <1>1, <2>1, <2>2, <2>5 DEF TabsInv
    <3>2. Routes(contexts) \ Routes(contexts') = contexts[i].inner
      BY <2>2, <2>3
    <3> QED
      BY <2>1, <2>3, <2>5, <3>1, <3>2 DEF ExitTakes
  <2> QED
    BY <2>4, <2>5
<1> QED
  BY <1>3, <1>4, <1>5, CloseTerminalCases DEF set_current

(* Only the handling of a CloseTerminal takes one from the queue. *)
LEMMA ClosingGrows ==
    ASSUME [Next]_vars, NEW s \in closing \ closing'
    PROVE  s \in Route => CloseTerminal(s)
<1>1. ASSUME NEW r \in Route, CloseTerminal(r) PROVE CloseTerminal(s)
  <2>1. closing' = (closing \ {r}) \cup ((Routes(contexts) \ Routes(contexts')) \ {r})
    BY <1>1 DEF CloseTerminal, Dropped
  <2>2. s = r
    BY <2>1
  <2> QED
    BY <1>1, <2>2
<1>2. CASE switch_to_next \/ switch_to_prev \/ ToggleSplitZoom \/ MoveDivider \/ ResizeWindow
  BY <1>2 DEF switch_to_next, switch_to_prev, ToggleSplitZoom, MoveDivider, ResizeWindow
<1>3. CASE switch_to_next_split_or_tab \/ switch_to_prev_split_or_tab
  BY <1>3 DEF switch_to_next_split_or_tab, switch_to_prev_split_or_tab
<1>4. CASE CloseSplit \/ close_current_context \/ close_unfocused_tabs
  BY <1>4 DEF CloseSplit, close_current_context, close_unfocused_tabs
<1>5. CASE UNCHANGED vars
  BY <1>5 DEF vars
<1>6. ASSUME NEW i, select_tab(i) \/ move_current(i) \/ select_split(i) \/ add_context(i) \/ split(i) \/ ShellExits(i)
      PROVE  FALSE
  BY <1>6 DEF select_tab, move_current, select_split, add_context, split, ShellExits
<1> QED
  BY <1>1, <1>2, <1>3, <1>4, <1>5, <1>6 DEF Next

-----------------------------------------------------------------------------

(* The invariant gives what the runs check of the panels,                  *)
LEMMA PanelsFollow == ContextInv => PanelsConsistent
<1> SUFFICES ASSUME ContextInv PROVE PanelsConsistent
  OBVIOUS
<1>1. \A i \in DOMAIN contexts : LayoutSound(contexts[i])
  BY TreeIsSound DEF ContextInv, TabsInv, LayoutInv
<1> QED
  BY <1>1 DEF ContextInv, TabsInv, PanelsConsistent

(* and of the zooms.                                                       *)
LEMMA ZoomFollows == ContextInv => ZoomConsistent
<1> SUFFICES ASSUME ContextInv, NEW i \in DOMAIN contexts
             PROVE  ZoomSound(contexts[i]) /\ (contexts[i].fits \/ "size" \in contexts[i].misplaced)
  BY DEF ZoomConsistent
<1>1. LayoutInv(contexts[i])
  BY DEF ContextInv, TabsInv
<1>2. ZoomSound(contexts[i])
  BY <1>1, ZoomIsSound
<1>3. contexts[i].fits \/ "size" \in contexts[i].misplaced
  BY <1>1 DEF LayoutInv, ZoomInv
<1> QED
  BY <1>2, <1>3

(* Every tab stays a sound tree through all splits, removals, moves and    *)
(* closings, and no panel is ever in two tabs: the trees that split_panel  *)
(* and remove_current rebuild by hand agree with the map of panels.  This  *)
(* holds also when background shells exit.                                 *)
THEOREM PanelsStayConsistent == Spec => []PanelsConsistent
<1>1. Init => ContextInv
  BY InitInv
<1>2. ContextInv /\ [Next]_vars => ContextInv'
  BY ContextStep
<1>3. ContextInv => PanelsConsistent
  BY PanelsFollow
<1> QED
  BY <1>1, <1>2, <1>3, PTL DEF Spec

(* Zooms end where they began: what is hidden can always be brought back,  *)
(* one panel is visible while zoomed, and focus and size are right but for *)
(* the two exceptions of the code, which the ghost records.                *)
THEOREM ZoomsStayConsistent == Spec => []ZoomConsistent
<1>1. Init => ContextInv
  BY InitInv
<1>2. ContextInv /\ [Next]_vars => ContextInv'
  BY ContextStep
<1>3. ContextInv => ZoomConsistent
  BY ZoomFollows
<1> QED
  BY <1>1, <1>2, <1>3, PTL DEF Spec

(* contexts[current_index] exists while the window does, up to the exit of *)
(* a hidden shell left of the tab shown, which the code handles without    *)
(* looking at current_index (run background_exit), and again after the     *)
(* next selection; whatever shells exit otherwise, shown or hidden, and    *)
(* however late their exit is handled.                                     *)
THEOREM ShownTabStays == Spec => []ShownTabExists
<1>1. Init => ContextInv /\ FocusInv
  BY InitInv
<1>2. ContextInv /\ FocusInv /\ [Next]_vars => ContextInv' /\ FocusInv'
  BY ContextStep
<1>3. FocusInv => ShownTabExists
  BY DEF FocusInv
<1> QED
  BY <1>1, <1>2, <1>3, PTL DEF Spec

(* current_route is the route of the panel that is current, through all    *)
(* ways of selecting and closing and all exits, but for the same case.     *)
THEOREM CurrentRouteStays == Spec => []CurrentRouteTracks
<1>1. Init => ContextInv /\ FocusInv
  BY InitInv
<1>2. ContextInv /\ FocusInv /\ [Next]_vars => ContextInv' /\ FocusInv'
  BY ContextStep
<1>3. FocusInv => CurrentRouteTracks
  BY DEF FocusInv
<1> QED
  BY <1>1, <1>2, <1>3, PTL DEF Spec

(* Handling the CloseTerminal of a shell takes the current panel alone, or *)
(* nothing, or the hidden tab whose current panel the shell was: for every *)
(* shell, at any time, also while the tabs are shifted.                    *)
THEOREM ExitTakesItsPanel == Spec => ExitStaysInItsTab
<1> DEFINE Exits == \A r \in closing \ closing' : ExitTakes(r)
<1>1. Init => ContextInv
  BY InitInv
<1>2. ContextInv /\ [Next]_vars => ContextInv'
  BY ContextStep
<1>3. ContextInv /\ [Next]_vars => Exits
  BY ExitStep, ClosingGrows DEF ContextInv
<1>4. ContextInv /\ [Next]_vars => [Exits]_vars
  BY <1>3
<1> HIDE DEF Exits
<1>5. Spec => [][Exits]_vars
  BY <1>1, <1>2, <1>4, PTL DEF Spec
<1> QED
  BY <1>5 DEF ExitStaysInItsTab, Exits
=============================================================================
