--------------------------- MODULE TerminalProofs ---------------------------
(***************************************************************************)
(* Whatever the sequence of handlers, cursors and scrolling region stay on *)
(* the screen, for every set of sizes and of parameters.  InBounds says    *)
(* nothing of the shape of the record and of the tab stops' values, which  *)
(* the provers need: Sound adds them.  Every handler maps sound states to  *)
(* sound states, so the lemmas are about one state and have no primes.     *)
(* The second part shows that the keyboard modes of Crosswords implement   *)
(* the stacks of KeyStack.                                                 *)
(* The third follows the rows through every handler, reflow and render of  *)
(* Crosswords: the frame is the view but for rows that are dirty and noted *)
(* as damaged, and the control state does what module Terminal allows.     *)
(***************************************************************************)
EXTENDS Crosswords, SequenceTheorems, FiniteSetTheorems, WellFoundedInduction, TLAPS

(* A control state is a record of these fields, in bounds. *)
Sound(t) ==
    /\ t = [lines |-> t.lines, columns |-> t.columns, cursor |-> t.cursor,
            saved |-> t.saved, other |-> t.other, region |-> t.region,
            mode |-> t.mode, tabs |-> t.tabs]
    /\ t.other = [cursor |-> t.other.cursor, saved |-> t.other.saved]
    /\ t.region = [start |-> t.region.start, end |-> t.region.end]
    /\ <<t.lines, t.columns>> \in Sizes
    /\ t.cursor \in Positions(t.lines, t.columns)
    /\ t.saved \in Positions(t.lines, t.columns)
    /\ t.other.cursor \in Positions(t.lines, t.columns)
    /\ t.other.saved \in Positions(t.lines, t.columns)
    /\ t.region.start \in Int /\ t.region.end \in Int
    /\ 0 <= t.region.start /\ t.region.start <= t.region.end
    /\ 1 <= t.region.end /\ t.region.end <= t.lines
    /\ t.mode \subseteq Modes
    /\ t.tabs \in [0 .. t.columns - 1 -> BOOLEAN]

-----------------------------------------------------------------------------
(* One state. *)

(* A screen has a line and two columns at least. *)
LEMMA SizeFacts ==
    ASSUME NEW lines, NEW columns, <<lines, columns>> \in Sizes
    PROVE  lines \in Nat /\ lines >= 1 /\ columns \in Nat /\ columns >= 2
  BY SizesAssumption

(* The fields of a position on the screen. *)
LEMMA PositionFacts ==
    ASSUME NEW lines, NEW columns, NEW c \in Positions(lines, columns)
    PROVE  /\ c = [row |-> c.row, col |-> c.col, wrap |-> c.wrap]
           /\ c.row \in 0 .. lines - 1
           /\ c.col \in 0 .. columns - 1
           /\ c.wrap \in BOOLEAN
  BY DEF Positions

(* A new cursor on the screen keeps a state sound. *)
LEMMA SoundCursor ==
    ASSUME NEW t, Sound(t), NEW c \in Positions(t.lines, t.columns)
    PROVE  /\ Sound([t EXCEPT !.cursor = c])
           /\ [t EXCEPT !.cursor = c].cursor = c
           /\ [t EXCEPT !.cursor = c].lines = t.lines
           /\ [t EXCEPT !.cursor = c].columns = t.columns
           /\ [t EXCEPT !.cursor = c].mode = t.mode
  <1> DEFINE u == [t EXCEPT !.cursor = c]
  <1>1. u = [lines |-> t.lines, columns |-> t.columns, cursor |-> c,
             saved |-> t.saved, other |-> t.other, region |-> t.region,
             mode |-> t.mode, tabs |-> t.tabs]
    BY DEF Sound
  <1> HIDE DEF u
  <1>2. /\ u.lines = t.lines /\ u.columns = t.columns /\ u.cursor = c
        /\ u.saved = t.saved /\ u.other = t.other /\ u.region = t.region
        /\ u.mode = t.mode /\ u.tabs = t.tabs
    BY <1>1
  <1>3. Sound(u)
    BY <1>1, <1>2 DEF Sound
  <1> QED
    BY <1>2, <1>3 DEF u

(* The cursor in another row. *)
LEMMA AtRowSound ==
    ASSUME NEW t, Sound(t), NEW row \in 0 .. t.lines - 1
    PROVE  /\ Sound(AtRow(t, row))
           /\ AtRow(t, row).columns = t.columns
           /\ AtRow(t, row).mode = t.mode
  <1> DEFINE c == [t.cursor EXCEPT !.row = row]
  <1>1. c \in Positions(t.lines, t.columns)
    BY DEF Sound, Positions
  <1>2. AtRow(t, row) = [t EXCEPT !.cursor = c]
    BY DEF AtRow, Sound
  <1> HIDE DEF c
  <1> QED
    BY <1>1, <1>2, SoundCursor

(* The cursor in another column, without should_wrap. *)
LEMMA AtColumnSound ==
    ASSUME NEW t, Sound(t), NEW col \in 0 .. t.columns - 1
    PROVE  /\ Sound(AtColumn(t, col))
           /\ AtColumn(t, col).cursor.col = col
           /\ AtColumn(t, col).columns = t.columns
           /\ AtColumn(t, col).mode = t.mode
  <1> DEFINE c == [t.cursor EXCEPT !.col = col, !.wrap = FALSE]
  <1>1. c \in Positions(t.lines, t.columns) /\ c.col = col
    BY DEF Sound, Positions
  <1>2. AtColumn(t, col) = [t EXCEPT !.cursor = c]
    BY DEF AtColumn, Sound
  <1> HIDE DEF c
  <1> QED
    BY <1>1, <1>2, SoundCursor

(* The cursor in another column, should_wrap as it was. *)
LEMMA ColumnSound ==
    ASSUME NEW t, Sound(t), NEW col \in 0 .. t.columns - 1
    PROVE  Sound([t EXCEPT !.cursor.col = col])
  <1> DEFINE c == [t.cursor EXCEPT !.col = col]
  <1>1. c \in Positions(t.lines, t.columns)
    BY DEF Sound, Positions
  <1>2. [t EXCEPT !.cursor.col = col] = [t EXCEPT !.cursor = c]
    BY DEF Sound
  <1> HIDE DEF c
  <1> QED
    BY <1>1, <1>2, SoundCursor

(* should_wrap is set. *)
LEMMA WrapSound ==
    ASSUME NEW t, Sound(t)
    PROVE  Sound([t EXCEPT !.cursor.wrap = TRUE])
  <1> DEFINE c == [t.cursor EXCEPT !.wrap = TRUE]
  <1>1. c \in Positions(t.lines, t.columns)
    BY DEF Sound, Positions
  <1>2. [t EXCEPT !.cursor.wrap = TRUE] = [t EXCEPT !.cursor = c]
    BY DEF Sound
  <1> HIDE DEF c
  <1> QED
    BY <1>1, <1>2, SoundCursor

(* What the lemmas below use of a sound state. *)
LEMMA SoundFacts ==
    ASSUME NEW t, Sound(t)
    PROVE  /\ t.lines \in Nat /\ t.lines >= 1
           /\ t.columns \in Nat /\ t.columns >= 2
           /\ t.cursor.row \in 0 .. t.lines - 1
           /\ t.cursor.col \in 0 .. t.columns - 1
           /\ t.region.start \in Int /\ t.region.end \in Int
           /\ 0 <= t.region.start /\ t.region.start <= t.region.end
           /\ 1 <= t.region.end /\ t.region.end <= t.lines
  <1>1. t.cursor \in Positions(t.lines, t.columns) /\ <<t.lines, t.columns>> \in Sizes
    BY DEF Sound
  <1> QED
    BY <1>1, SizeFacts, PositionFacts DEF Sound

-----------------------------------------------------------------------------
(* Cursor motion. *)

(* goto clamps lines below and above and columns above. *)
LEMMA GotoSound ==
    ASSUME NEW t, Sound(t), NEW line \in Int, NEW col \in Nat
    PROVE  Sound(goto(t, line, col))
  <1> DEFINE y_offset == IF Is(t, "ORIGIN") THEN t.region.start ELSE 0
             max_y == IF Is(t, "ORIGIN") THEN t.region.end - 1 ELSE t.lines - 1
             row == AtLeast(AtMost(line + y_offset, max_y), 0)
             x == AtMost(col, LastColumn(t))
             c == [row |-> row, col |-> x, wrap |-> FALSE]
  <1>1. y_offset \in Int /\ max_y \in Int /\ max_y <= t.lines - 1
    BY SoundFacts
  <1> HIDE DEF y_offset, max_y
  <1>2. row \in 0 .. t.lines - 1 /\ x \in 0 .. t.columns - 1
    BY <1>1, SoundFacts DEF AtLeast, AtMost, LastColumn
  <1> HIDE DEF row, x
  <1>3. c \in Positions(t.lines, t.columns)
    BY <1>2 DEF Positions
  <1>4. goto(t, line, col) = [t EXCEPT !.cursor = c]
    BY DEF goto, y_offset, max_y, row, x
  <1> HIDE DEF c
  <1> QED
    BY <1>3, <1>4, SoundCursor

(* The motions that go through goto or stay in their line. *)
LEMMA MotionSound ==
    ASSUME NEW t, Sound(t), NEW n \in Nat \ {0}
    PROVE  /\ Sound(goto_line(t, n - 1)) /\ Sound(goto_col(t, n - 1))
           /\ Sound(move_up(t, n)) /\ Sound(move_down(t, n))
           /\ Sound(move_up_and_cr(t, n)) /\ Sound(move_down_and_cr(t, n))
           /\ Sound(move_forward(t, n)) /\ Sound(move_backward(t, n))
  <1>1. /\ t.cursor.row \in Int /\ t.cursor.row - n \in Int /\ t.cursor.row + n \in Int
        /\ n - 1 \in Int /\ n - 1 \in Nat /\ t.cursor.col \in Nat /\ 0 \in Nat
    BY SoundFacts
  <1>2. /\ Sound(goto_line(t, n - 1)) /\ Sound(goto_col(t, n - 1))
        /\ Sound(move_up(t, n)) /\ Sound(move_down(t, n))
        /\ Sound(move_up_and_cr(t, n)) /\ Sound(move_down_and_cr(t, n))
    BY <1>1, GotoSound DEF goto_line, goto_col, move_up, move_down, move_up_and_cr,
                           move_down_and_cr
  <1>3. /\ AtMost(t.cursor.col + n, LastColumn(t)) \in 0 .. t.columns - 1
        /\ AtLeast(t.cursor.col - n, 0) \in 0 .. t.columns - 1
    BY SoundFacts DEF AtMost, AtLeast, LastColumn
  <1>4. Sound(move_forward(t, n)) /\ Sound(move_backward(t, n))
    BY <1>3, AtColumnSound DEF move_forward, move_backward
  <1> QED
    BY <1>2, <1>4

(* The line feed goes down only above the last line. *)
LEMMA LinefeedSound ==
    ASSUME NEW t, Sound(t)
    PROVE  Sound(linefeed(t)) /\ linefeed(t).columns = t.columns /\ linefeed(t).mode = t.mode
  <1>1. CASE ~FeedScrolls(t) /\ t.cursor.row + 1 < t.lines
    <2>1. t.cursor.row + 1 \in 0 .. t.lines - 1
      BY <1>1, SoundFacts
    <2> QED
      BY <1>1, <2>1, AtRowSound DEF linefeed
  <1>2. CASE ~(~FeedScrolls(t) /\ t.cursor.row + 1 < t.lines)
    BY <1>2 DEF linefeed
  <1> QED
    BY <1>1, <1>2

(* Carriage return, backspace, reverse index. *)
LEMMA SmallMotionSound ==
    ASSUME NEW t, Sound(t)
    PROVE  Sound(carriage_return(t)) /\ Sound(backspace(t)) /\ Sound(reverse_index(t))
  <1>1. 0 \in 0 .. t.columns - 1
    BY SoundFacts
  <1>2. Sound(carriage_return(t))
    BY <1>1, AtColumnSound DEF carriage_return
  <1>3. Sound(backspace(t))
    <2>1. t.cursor.col > 0 => t.cursor.col - 1 \in 0 .. t.columns - 1
      BY SoundFacts
    <2> QED
      BY <2>1, AtColumnSound DEF backspace
  <1>4. Sound(reverse_index(t))
    <2>1. AtLeast(t.cursor.row - 1, 0) \in 0 .. t.lines - 1
      BY SoundFacts DEF AtLeast
    <2> QED
      BY <2>1, AtRowSound DEF reverse_index
  <1> QED
    BY <1>2, <1>3, <1>4

(* A nonempty set of numbers has a least element. *)
LEMMA Least ==
    ASSUME NEW T \in SUBSET Nat, T # {}
    PROVE  \E x \in T : \A y \in T : x <= y
  <1> DEFINE R == OpToRel(<, Nat)
  <1>1. IsWellFoundedOn(R, Nat)
    BY NatLessThanWellFounded
  <1>2. \A x, y \in Nat : y < x => <<y, x>> \in R
    BY DEF OpToRel
  <1> HIDE DEF R
  <1>3. T \subseteq Nat
    OBVIOUS
  <1>4. \E x \in T : \A y \in T : ~(<<y, x>> \in R)
    BY ONLY T # {}, <1>1, <1>3, WFMin
  <1>5. PICK x \in T : \A y \in T : ~(<<y, x>> \in R)
    BY <1>4
  <1>6. ASSUME NEW y \in T PROVE x <= y
    <2>1. x \in Nat /\ y \in Nat /\ ~(<<y, x>> \in R)
      BY <1>5
    <2>2. ~(y < x)
      BY <2>1, <1>2
    <2> QED
      BY <2>1, <2>2
  <1> QED
    BY <1>6

(* A nonempty set of columns has a greatest element. *)
LEMMA Greatest ==
    ASSUME NEW k \in Nat, NEW T \in SUBSET (0 .. k), T # {}
    PROVE  \E x \in T : \A y \in T : y <= x
  <1> DEFINE U == {k - c : c \in T}
  <1>1. U \in SUBSET Nat /\ U # {}
    <2>1. PICK c \in T : TRUE
      OBVIOUS
    <2>2. k - c \in U
      BY <2>1
    <2>3. \A v \in U : v \in Nat
      OBVIOUS
    <2> QED
      BY <2>2, <2>3
  <1>2. PICK u \in U : \A v \in U : u <= v
    BY <1>1, Least
  <1>3. PICK x \in T : u = k - x
    BY <1>2
  <1>4. ASSUME NEW y \in T PROVE y <= x
    <2>1. k - y \in U /\ u <= k - y
      BY <1>2
    <2> QED
      BY <2>1, <1>3
  <1> QED
    BY <1>4

(* Tab stops are looked for on the screen. *)
LEMMA TabSound ==
    ASSUME NEW t, Sound(t)
    PROVE  /\ Sound(TabForward(t)) /\ Sound(TabBackward(t))
           /\ TabForward(t).columns = t.columns
  <1> DEFINE col == t.cursor.col
             right == {c \in col + 1 .. LastColumn(t) : t.tabs[c]}
             left == {c \in 0 .. col - 1 : t.tabs[c]}
  <1>1. col \in 0 .. t.columns - 1 /\ t.columns \in Nat /\ LastColumn(t) = t.columns - 1
    BY SoundFacts DEF LastColumn
  <1>2. NextTab(t, col) \in 0 .. t.columns - 1
    <2>1. right \in SUBSET Nat /\ \A c \in right : c \in 0 .. t.columns - 1
      BY <1>1
    <2>2. NextTab(t, col) = IF right = {} THEN LastColumn(t)
                            ELSE CHOOSE c \in right : \A d \in right : c <= d
      BY DEF NextTab
    <2> HIDE DEF right
    <2>3. ASSUME right # {} PROVE NextTab(t, col) \in right
      <3>1. \E c \in right : \A d \in right : c <= d
        BY <2>1, <2>3, Least
      <3> QED
        BY <2>2, <2>3, <3>1
    <2>4. ASSUME right = {} PROVE NextTab(t, col) = t.columns - 1
      BY <1>1, <2>2, <2>4
    <2>5. t.columns - 1 \in 0 .. t.columns - 1
      BY <1>1
    <2> HIDE DEF col
    <2>6. CASE right = {}
      BY <2>4, <2>5, <2>6
    <2>7. CASE right # {}
      BY <2>1, <2>3, <2>7
    <2> QED
      BY <2>6, <2>7
  <1>3. PreviousTab(t, col) \in 0 .. t.columns - 1
    <2>1. left \in SUBSET (0 .. t.columns) /\ \A c \in left : c \in 0 .. t.columns - 1
      BY <1>1
    <2>2. PreviousTab(t, col) = IF left = {} THEN col
                                ELSE CHOOSE c \in left : \A d \in left : d <= c
      BY DEF PreviousTab
    <2> HIDE DEF left
    <2>3. ASSUME left # {} PROVE PreviousTab(t, col) \in left
      <3>1. \E c \in left : \A d \in left : d <= c
        BY <1>1, <2>1, <2>3, Greatest
      <3> QED
        BY <2>2, <2>3, <3>1
    <2> QED
      BY <1>1, <2>1, <2>2, <2>3
  <1>4. Sound(TabForward(t)) /\ Sound(TabBackward(t))
    BY <1>2, <1>3, ColumnSound DEF TabForward, TabBackward
  <1> QED
    BY <1>4 DEF TabForward, Sound

-----------------------------------------------------------------------------
(* Writing. *)

(* A wrapped line begins in column 0 of a line of the screen. *)
LEMMA WraplineSound ==
    ASSUME NEW t, Sound(t)
    PROVE  /\ Sound(wrapline(t))
           /\ wrapline(t).columns = t.columns /\ wrapline(t).mode = t.mode
           /\ Is(t, "LINE_WRAP") => wrapline(t).cursor.col = 0
  <1> DEFINE u == IF t.cursor.row + 1 >= t.region.end THEN linefeed(t)
                  ELSE AtRow(t, t.cursor.row + 1)
  <1>1. t.cursor.row + 1 < t.region.end => t.cursor.row + 1 \in 0 .. t.lines - 1
    BY SoundFacts
  <1>2. t.cursor.row + 1 >= t.region.end \/ t.cursor.row + 1 < t.region.end
    BY SoundFacts
  <1>3. Sound(u) /\ u.columns = t.columns /\ u.mode = t.mode
    BY <1>1, <1>2, LinefeedSound, AtRowSound
  <1> HIDE DEF u
  <1>4. 0 \in 0 .. u.columns - 1
    BY <1>3, SoundFacts
  <1>5. wrapline(t) = IF Is(t, "LINE_WRAP") THEN AtColumn(u, 0) ELSE t
    BY DEF wrapline, u
  <1> QED
    BY <1>3, <1>4, <1>5, AtColumnSound

(* Advance moves only while there is a column left. *)
LEMMA AdvanceSound ==
    ASSUME NEW t, Sound(t)
    PROVE  Sound(Advance(t))
  <1>1. CASE t.cursor.col + 1 < t.columns
    <2>1. t.cursor.col + 1 \in 0 .. t.columns - 1
      BY <1>1, SoundFacts
    <2>2. Advance(t) = [t EXCEPT !.cursor.col = t.cursor.col + 1]
      BY <1>1 DEF Advance
    <2> QED
      BY <2>1, <2>2, ColumnSound
  <1>2. CASE ~(t.cursor.col + 1 < t.columns)
    BY <1>2, WrapSound DEF Advance
  <1> QED
    BY <1>1, <1>2

(* The second half of a wide character fits when the first is not in the   *)
(* last column.                                                            *)
LEMMA WideSound ==
    ASSUME NEW t, Sound(t), t.cursor.col + 1 < t.columns
    PROVE  Sound(Advance([t EXCEPT !.cursor.col = @ + 1]))
  <1>1. t.cursor.col + 1 \in 0 .. t.columns - 1
    BY SoundFacts
  <1>2. Sound([t EXCEPT !.cursor.col = t.cursor.col + 1])
    BY <1>1, ColumnSound
  <1> QED
    BY <1>2, AdvanceSound

(* A character, narrow or wide, and a tab. *)
LEMMA InputSound ==
    ASSUME NEW t, Sound(t)
    PROVE  Sound(InputNarrow(t)) /\ Sound(InputWide(t)) /\ Sound(put_tab(t))
  <1> DEFINE w == AfterPendingWrap(t)
  <1>1. Sound(w)
    BY WraplineSound DEF AfterPendingWrap
  <1>2. Sound(InputNarrow(t))
    BY <1>1, AdvanceSound DEF InputNarrow
  <1>3. Sound(put_tab(t))
    BY WraplineSound, TabSound DEF put_tab
  <1>4. InputWide(t) = CASE ~NoRoomForWide(w) -> Advance([w EXCEPT !.cursor.col = @ + 1])
                         [] NoRoomForWide(w) /\ Is(w, "LINE_WRAP") ->
                               Advance([wrapline(w) EXCEPT !.cursor.col = @ + 1])
                         [] OTHER -> [w EXCEPT !.cursor.wrap = TRUE]
    BY DEF InputWide
  <1> HIDE DEF w
  <1>5. CASE ~NoRoomForWide(w)
    <2>1. w.cursor.col + 1 < w.columns
      BY <1>1, <1>5, SoundFacts DEF NoRoomForWide
    <2> QED
      BY <1>1, <1>2, <1>3, <1>4, <1>5, <2>1, WideSound
  <1>6. CASE NoRoomForWide(w) /\ Is(w, "LINE_WRAP")
    <2>1. Sound(wrapline(w)) /\ wrapline(w).cursor.col = 0
      BY <1>1, <1>6, WraplineSound
    <2>2. wrapline(w).cursor.col + 1 < wrapline(w).columns
      BY <2>1, SoundFacts
    <2> QED
      BY <1>2, <1>3, <1>4, <1>6, <2>1, <2>2, WideSound
  <1>7. CASE NoRoomForWide(w) /\ ~Is(w, "LINE_WRAP")
    BY <1>1, <1>2, <1>3, <1>4, <1>7, WrapSound
  <1> QED
    BY <1>5, <1>6, <1>7

(* VS16 moves the cursor behind the second half, in this line or the next, *)
(* VS15 behind the character.                                              *)
LEMMA VariationSound ==
    ASSUME NEW t, Sound(t)
    PROVE  /\ WidenAllowed(t) => Sound(WidenBase(t))
           /\ NarrowAllowed(t) => Sound(NarrowBase(t))
  <1> DEFINE base == IF t.cursor.wrap THEN t.cursor.col ELSE t.cursor.col - 1
  <1>1. ASSUME WidenAllowed(t) PROVE Sound(WidenBase(t))
    <2>1. base \in 0 .. t.columns - 1 /\ t.columns \in Nat /\ t.columns >= 2
      BY <1>1, SoundFacts DEF WidenAllowed
    <2>2. WidenBase(t) = IF base + 1 < t.columns
                         THEN Advance(AtColumn(t, base + 1))
                         ELSE Advance([wrapline(AtColumn(t, base)) EXCEPT !.cursor.col = 1])
      BY DEF WidenBase
    <2> HIDE DEF base
    <2>3. CASE base + 1 < t.columns
      <3>1. base + 1 \in 0 .. t.columns - 1
        BY <2>1, <2>3
      <3>2. Sound(AtColumn(t, base + 1))
        BY <3>1, AtColumnSound
      <3> QED
        BY <2>2, <2>3, <3>2, AdvanceSound
    <2>4. CASE ~(base + 1 < t.columns)
      <3> DEFINE w == wrapline(AtColumn(t, base))
      <3>1. Sound(AtColumn(t, base)) /\ AtColumn(t, base).columns = t.columns
        BY <2>1, AtColumnSound
      <3>2. Sound(w) /\ w.columns = t.columns
        BY <3>1, WraplineSound
      <3> HIDE DEF w
      <3>3. 1 \in 0 .. w.columns - 1
        BY <2>1, <3>2
      <3>4. Sound([w EXCEPT !.cursor.col = 1])
        BY <3>2, <3>3, ColumnSound
      <3>5. Sound(Advance([w EXCEPT !.cursor.col = 1]))
        BY <3>4, AdvanceSound
      <3> QED
        BY <2>2, <2>4, <3>5 DEF w
    <2> QED
      BY <2>3, <2>4
  <1>2. ASSUME NarrowAllowed(t) PROVE Sound(NarrowBase(t))
    <2>1. base \in 0 .. t.columns - 1
      BY <1>2, SoundFacts DEF NarrowAllowed
    <2> QED
      BY <2>1, AtColumnSound DEF NarrowBase
  <1> QED
    BY <1>1, <1>2

-----------------------------------------------------------------------------
(* Modes, region, screens. *)

(* A fresh terminal is sound. *)
LEMMA NewTermSound ==
    ASSUME NEW lines, NEW columns, <<lines, columns>> \in Sizes
    PROVE  Sound(NewTerm(lines, columns))
  <1> DEFINE u == NewTerm(lines, columns)
  <1>1. lines \in Nat /\ lines >= 1 /\ columns \in Nat /\ columns >= 2
    BY SizeFacts
  <1>2. Home \in Positions(lines, columns)
    BY <1>1 DEF Home, Positions
  <1>3. NewTabs(columns) \in [0 .. columns - 1 -> BOOLEAN]
    BY DEF NewTabs
  <1>4. DefaultModes \subseteq Modes
    BY DEF DefaultModes, Modes
  <1>5. u = [lines |-> lines, columns |-> columns, cursor |-> Home, saved |-> Home,
             other |-> [cursor |-> Home, saved |-> Home],
             region |-> [start |-> 0, end |-> lines], mode |-> DefaultModes,
             tabs |-> NewTabs(columns)]
    BY DEF NewTerm
  <1> HIDE DEF u
  <1>6. Sound(u)
    BY <1>1, <1>2, <1>3, <1>4, <1>5 DEF Sound
  <1> QED
    BY <1>6 DEF u

(* Saving and restoring the cursor. *)
LEMMA SaveSound ==
    ASSUME NEW t, Sound(t)
    PROVE  Sound(save_cursor_position(t)) /\ Sound(restore_cursor_position(t))
  <1>1. Sound(restore_cursor_position(t))
    <2>1. t.saved \in Positions(t.lines, t.columns)
      BY DEF Sound
    <2> QED
      BY <2>1, SoundCursor DEF restore_cursor_position
  <1>2. Sound(save_cursor_position(t))
    <2> DEFINE u == save_cursor_position(t)
    <2>1. u = [lines |-> t.lines, columns |-> t.columns, cursor |-> t.cursor,
               saved |-> t.cursor, other |-> t.other, region |-> t.region,
               mode |-> t.mode, tabs |-> t.tabs]
      BY DEF Sound, save_cursor_position
    <2> HIDE DEF u
    <2>2. Sound(u)
      BY <2>1 DEF Sound
    <2> QED
      BY <2>2 DEF u
  <1> QED
    BY <1>1, <1>2

(* Modes. *)
LEMMA ModeSound ==
    ASSUME NEW t, Sound(t), NEW m \in Modes
    PROVE  Sound(set_mode(t, m)) /\ Sound(unset_mode(t, m))
  <1>1. ASSUME NEW mode \in SUBSET Modes PROVE Sound([t EXCEPT !.mode = mode])
    <2> DEFINE u == [t EXCEPT !.mode = mode]
    <2>1. u = [lines |-> t.lines, columns |-> t.columns, cursor |-> t.cursor,
               saved |-> t.saved, other |-> t.other, region |-> t.region,
               mode |-> mode, tabs |-> t.tabs]
      BY DEF Sound
    <2> HIDE DEF u
    <2>2. Sound(u)
      BY <2>1 DEF Sound
    <2> QED
      BY <2>2 DEF u
  <1>2. t.mode \cup {m} \in SUBSET Modes /\ t.mode \ {m} \in SUBSET Modes
    BY DEF Sound
  <1> QED
    BY <1>1, <1>2 DEF set_mode, unset_mode

(* A region within the screen; the cursor goes to its origin. *)
LEMMA RegionSound ==
    ASSUME NEW t, Sound(t), NEW top \in Nat \ {0}, NEW bottom \in Nat
    PROVE  Sound(set_scrolling_region(t, top, bottom))
  <1> DEFINE last == IF bottom = 0 THEN t.lines ELSE bottom
             start == AtMost(top - 1, t.lines)
             end == AtMost(last, t.lines)
             u == [t EXCEPT !.region = [start |-> start, end |-> end]]
  <1>1. CASE top >= last
    BY <1>1 DEF set_scrolling_region
  <1>2. CASE ~(top >= last)
    <2>1. last \in Nat /\ t.lines \in Nat /\ t.lines >= 1
      BY SoundFacts
    <2>2. /\ start \in Int /\ end \in Int
          /\ 0 <= start /\ start <= end /\ 1 <= end /\ end <= t.lines
      BY <1>2, <2>1 DEF AtMost
    <2>3. set_scrolling_region(t, top, bottom) = goto(u, 0, 0)
      BY <1>2 DEF set_scrolling_region
    <2> HIDE DEF start, end
    <2>4. u = [lines |-> t.lines, columns |-> t.columns, cursor |-> t.cursor,
               saved |-> t.saved, other |-> t.other,
               region |-> [start |-> start, end |-> end],
               mode |-> t.mode, tabs |-> t.tabs]
      BY DEF Sound
    <2> HIDE DEF u
    <2>5. Sound(u)
      BY <2>2, <2>4 DEF Sound
    <2> QED
      BY <2>3, <2>5, GotoSound
  <1> QED
    BY <1>1, <1>2

(* The two screens trade places. *)
LEMMA SwapSound ==
    ASSUME NEW t, Sound(t)
    PROVE  Sound(swap_alt(t))
  <1>1. ASSUME NEW a \in Positions(t.lines, t.columns), NEW b \in Positions(t.lines, t.columns),
               NEW c \in Positions(t.lines, t.columns), NEW d \in Positions(t.lines, t.columns)
        PROVE  Sound([t EXCEPT !.cursor = a, !.saved = b, !.other = [cursor |-> c, saved |-> d]])
    <2> DEFINE u == [t EXCEPT !.cursor = a, !.saved = b, !.other = [cursor |-> c, saved |-> d]]
    <2>1. u = [lines |-> u.lines, columns |-> u.columns, cursor |-> u.cursor,
               saved |-> u.saved, other |-> u.other, region |-> u.region,
               mode |-> u.mode, tabs |-> u.tabs]
      <3>1. PICK v : v = u
        OBVIOUS
      <3>2. v = [lines |-> v.lines, columns |-> v.columns, cursor |-> v.cursor,
                 saved |-> v.saved, other |-> v.other, region |-> v.region,
                 mode |-> v.mode, tabs |-> v.tabs]
        BY <3>1 DEF Sound
      <3> HIDE DEF u
      <3> QED
        BY <3>1, <3>2
    <2>2. /\ u.lines = t.lines /\ u.columns = t.columns /\ u.cursor = a /\ u.saved = b
          /\ u.other = [cursor |-> c, saved |-> d] /\ u.region = t.region
          /\ u.mode = t.mode /\ u.tabs = t.tabs
      BY DEF Sound
    <2> HIDE DEF u
    <2>3. Sound(u)
      BY <2>1, <2>2 DEF Sound
    <2> QED
      BY <2>3 DEF u
  <1>2. /\ t.cursor \in Positions(t.lines, t.columns) /\ t.saved \in Positions(t.lines, t.columns)
        /\ t.other.cursor \in Positions(t.lines, t.columns)
        /\ t.other.saved \in Positions(t.lines, t.columns)
    BY DEF Sound
  <1>3. "ALT_SCREEN" \in Modes
    BY DEF Modes
  <1>4. CASE Is(t, "ALT_SCREEN")
    <2> DEFINE u == [t EXCEPT !.cursor = t.other.cursor, !.saved = t.other.saved,
                              !.other = [cursor |-> t.cursor, saved |-> t.saved]]
    <2>1. Sound(u)
      BY <1>1, <1>2
    <2>2. swap_alt(t) = unset_mode(u, "ALT_SCREEN")
      BY <1>4 DEF swap_alt
    <2> QED
      BY <1>3, <2>1, <2>2, ModeSound
  <1>5. CASE ~Is(t, "ALT_SCREEN")
    <2> DEFINE u == [t EXCEPT !.cursor = t.cursor, !.saved = t.other.saved,
                              !.other = [cursor |-> t.cursor, saved |-> t.cursor]]
    <2>1. Sound(u)
      BY <1>1, <1>2
    <2>2. swap_alt(t) = set_mode(u, "ALT_SCREEN")
      BY <1>5 DEF swap_alt
    <2> QED
      BY <1>3, <2>1, <2>2, ModeSound
  <1> QED
    BY <1>4, <1>5

(* Setting and clearing tab stops. *)
LEMMA TabStopSound ==
    ASSUME NEW t, Sound(t)
    PROVE  Sound(set_horizontal_tabstop(t)) /\ Sound(ClearTab(t)) /\ Sound(ClearTabs(t))
  <1>1. ASSUME NEW tabs \in [0 .. t.columns - 1 -> BOOLEAN] PROVE Sound([t EXCEPT !.tabs = tabs])
    <2> DEFINE u == [t EXCEPT !.tabs = tabs]
    <2>1. u = [lines |-> t.lines, columns |-> t.columns, cursor |-> t.cursor,
               saved |-> t.saved, other |-> t.other, region |-> t.region,
               mode |-> t.mode, tabs |-> tabs]
      BY DEF Sound
    <2> HIDE DEF u
    <2>2. Sound(u)
      BY <2>1 DEF Sound
    <2> QED
      BY <2>2 DEF u
  <1>2. /\ [t.tabs EXCEPT ![t.cursor.col] = TRUE] \in [0 .. t.columns - 1 -> BOOLEAN]
        /\ [t.tabs EXCEPT ![t.cursor.col] = FALSE] \in [0 .. t.columns - 1 -> BOOLEAN]
        /\ [c \in DOMAIN t.tabs |-> FALSE] \in [0 .. t.columns - 1 -> BOOLEAN]
    BY DEF Sound
  <1>3. /\ set_horizontal_tabstop(t) = [t EXCEPT !.tabs = [t.tabs EXCEPT ![t.cursor.col] = TRUE]]
        /\ ClearTab(t) = [t EXCEPT !.tabs = [t.tabs EXCEPT ![t.cursor.col] = FALSE]]
        /\ ClearTabs(t) = [t EXCEPT !.tabs = [c \in DOMAIN t.tabs |-> FALSE]]
    BY DEF set_horizontal_tabstop, ClearTab, ClearTabs, Sound
  <1> QED
    BY <1>1, <1>2, <1>3

(* A resize puts all cursors on the new screen and resets the region. *)
LEMMA ResizeSound ==
    ASSUME NEW t, Sound(t), NEW lines, NEW columns, <<lines, columns>> \in Sizes,
           NEW a \in Positions(lines, columns), NEW b \in Positions(lines, columns),
           NEW c \in Positions(lines, columns), NEW d \in Positions(lines, columns)
    PROVE  Sound(ResizedTerm(t, lines, columns, a, b, [cursor |-> c, saved |-> d]))
  <1> DEFINE u == ResizedTerm(t, lines, columns, a, b, [cursor |-> c, saved |-> d])
             tabs == ResizedTabs(t, columns)
  <1>1. lines \in Nat /\ lines >= 1 /\ columns \in Nat /\ columns >= 2
    BY SizeFacts
  <1>2. tabs \in [0 .. columns - 1 -> BOOLEAN]
    BY DEF ResizedTabs, Sound
  <1> HIDE DEF tabs
  <1>3. u = [lines |-> u.lines, columns |-> u.columns, cursor |-> u.cursor,
             saved |-> u.saved, other |-> u.other, region |-> u.region,
             mode |-> u.mode, tabs |-> u.tabs]
    <2>1. PICK v : v = u
      OBVIOUS
    <2>2. v = [lines |-> v.lines, columns |-> v.columns, cursor |-> v.cursor,
               saved |-> v.saved, other |-> v.other, region |-> v.region,
               mode |-> v.mode, tabs |-> v.tabs]
      BY <2>1 DEF Sound, ResizedTerm
    <2> HIDE DEF u
    <2> QED
      BY <2>1, <2>2
  <1>4. /\ u.lines = lines /\ u.columns = columns /\ u.cursor = a /\ u.saved = b
        /\ u.other = [cursor |-> c, saved |-> d]
        /\ u.region = [start |-> 0, end |-> lines]
        /\ u.mode = t.mode /\ u.tabs = tabs
    BY DEF Sound, ResizedTerm, tabs
  <1> HIDE DEF u
  <1>5. t.mode \subseteq Modes
    BY DEF Sound
  <1>6. Sound(u)
    BY <1>1, <1>2, <1>3, <1>4, <1>5 DEF Sound
  <1> QED
    BY <1>6 DEF u

-----------------------------------------------------------------------------
(* The steps. *)

(* Initially. *)
LEMMA InitSound == TermInit => Sound(term)
  <1> SUFFICES ASSUME TermInit PROVE Sound(term)
    OBVIOUS
  <1>1. PICK size \in Sizes : term = NewTerm(size[1], size[2])
    BY DEF TermInit
  <1>2. <<size[1], size[2]>> \in Sizes
    BY SizesAssumption
  <1> QED
    BY <1>1, <1>2, NewTermSound

(* Motions of the cursor. *)
LEMMA MotionStep ==
    ASSUME Sound(term), Motion
    PROVE  Sound(term')
  <1>1. \A n \in Counts : n \in Nat \ {0}
    BY SizesAssumption DEF Counts
  <1>2. CASE \E y, x \in Counts : term' = goto(term, y - 1, x - 1)
    <2>1. PICK y \in Counts, x \in Counts : term' = goto(term, y - 1, x - 1)
      BY <1>2
    <2>2. y - 1 \in Int /\ x - 1 \in Nat
      BY <1>1
    <2> QED
      BY <2>1, <2>2, GotoSound
  <1>3. CASE \E n \in Counts :
                term' \in {goto_line(term, n - 1), goto_col(term, n - 1),
                           move_up(term, n), move_down(term, n), move_up_and_cr(term, n),
                           move_down_and_cr(term, n), move_forward(term, n),
                           move_backward(term, n)}
    BY <1>1, <1>3, MotionSound
  <1>4. Sound(carriage_return(linefeed(term)))
    <2>1. PICK u : u = linefeed(term)
      OBVIOUS
    <2> QED
      BY <2>1, LinefeedSound, SmallMotionSound
  <1>5. CASE term' \in {carriage_return(term), backspace(term), linefeed(term),
                        carriage_return(linefeed(term)), reverse_index(term),
                        TabForward(term), TabBackward(term)}
    BY <1>4, <1>5, SmallMotionSound, LinefeedSound, TabSound
  <1> QED
    BY <1>2, <1>3, <1>5 DEF Motion

(* Characters. *)
LEMMA WritingStep ==
    ASSUME Sound(term), Writing
    PROVE  Sound(term')
  BY InputSound, VariationSound DEF Writing

(* Modes, region, screens. *)
LEMMA ScreensStep ==
    ASSUME Sound(term), Screens
    PROVE  Sound(term')
  <1>1. Params \subseteq Nat /\ Counts \subseteq Nat \ {0} /\ 1 \in Nat \ {0} /\ 0 \in Nat
    BY SizesAssumption DEF Counts
  <1>2. /\ Sound(save_cursor_position(term)) /\ Sound(restore_cursor_position(term))
        /\ Sound(SetAltScreen(term)) /\ Sound(UnsetAltScreen(term))
    BY SaveSound, SwapSound DEF SetAltScreen, UnsetAltScreen
  <1>3. Sound(deccolm(term))
    BY <1>1, RegionSound DEF deccolm
  <1>4. Sound(reset_state(term))
    <2>1. <<term.lines, term.columns>> \in Sizes
      BY DEF Sound
    <2> QED
      BY <2>1, NewTermSound DEF reset_state
  <1>5. CASE term' \in {save_cursor_position(term), restore_cursor_position(term),
                        deccolm(term), SetAltScreen(term), UnsetAltScreen(term),
                        reset_state(term)}
    BY <1>2, <1>3, <1>4, <1>5
  <1>6. CASE \E m \in Modes \ {"ALT_SCREEN"} : term' \in {set_mode(term, m), unset_mode(term, m)}
    BY <1>6, ModeSound
  <1>7. CASE \E top \in Counts, bottom \in Params : term' = set_scrolling_region(term, top, bottom)
    BY <1>1, <1>7, RegionSound
  <1>8. CASE term' \in {set_horizontal_tabstop(term), ClearTab(term), ClearTabs(term)}
    BY <1>8, TabStopSound
  <1> QED
    BY <1>5, <1>6, <1>7, <1>8 DEF Screens

(* Resizes. *)
LEMMA ResizeStep ==
    ASSUME Sound(term), NEW size \in Sizes, Resized(size)
    PROVE  Sound(term')
  <1>1. <<size[1], size[2]>> \in Sizes
    BY SizesAssumption
  <1>2. PICK a, b, c, d : a = term'.cursor /\ b = term'.saved /\ c = term'.other.cursor
                          /\ d = term'.other.saved
    OBVIOUS
  <1>3. /\ a \in Positions(size[1], size[2]) /\ b \in Positions(size[1], size[2])
        /\ c \in Positions(size[1], size[2]) /\ d \in Positions(size[1], size[2])
    BY <1>2 DEF Resized
  <1>4. term' = ResizedTerm(term, size[1], size[2], a, b, [cursor |-> c, saved |-> d])
    BY <1>2 DEF Resized
  <1> QED
    BY <1>1, <1>3, <1>4, ResizeSound

(* A sound state is in bounds. *)
LEMMA SoundInBounds == Sound(term) => InBounds
  <1> SUFFICES ASSUME Sound(term) PROVE InBounds
    OBVIOUS
  <1>1. /\ term.cursor \in Positions(term.lines, term.columns)
        /\ term.saved \in Positions(term.lines, term.columns)
        /\ term.other.cursor \in Positions(term.lines, term.columns)
        /\ term.other.saved \in Positions(term.lines, term.columns)
    BY DEF Sound
  <1>2. \A c \in Positions(term.lines, term.columns) : c \in CursorType
    BY DEF Positions, CursorType
  <1>3. TermType(term)
    BY <1>1, <1>2 DEF TermType, Sound
  <1> QED
    BY <1>1, <1>3 DEF InBounds, OnScreen, Sound

-----------------------------------------------------------------------------

(* Every handler keeps cursors, saved cursors of both screens, scrolling   *)
(* region and tab stops within the screen, for every window size of at     *)
(* least one line and two columns and every parameter of a sequence.       *)
THEOREM BoundsCorrect == TermSpec => []InBounds
  <1>1. TermInit => Sound(term)
    BY InitSound
  <1>2. Sound(term) /\ [TermNext]_term => Sound(term)'
    <2> SUFFICES ASSUME Sound(term), [TermNext]_term PROVE Sound(term')
      BY DEF Sound
    <2>1. CASE UNCHANGED term
      BY <2>1
    <2>2. CASE TermNext
      BY <2>2, MotionStep, WritingStep, ScreensStep, ResizeStep DEF TermNext
    <2> QED
      BY <2>1, <2>2
  <1>3. Sound(term) => InBounds
    BY SoundInBounds
  <1> QED
    BY <1>1, <1>2, <1>3, PTL DEF TermSpec

-----------------------------------------------------------------------------
(* The keyboard modes: what an operation does to a ring is what it does to *)
(* the stack that the ring holds.                                          *)

(* A slot holds a set of flags. *)
Rings == [0 .. DEPTH - 1 -> SUBSET KeyFlags]

(* The remainder of a number at most one ring away. *)
LEMMA RingMod ==
    ASSUME NEW n \in Nat, n > 0, NEW x \in Int, -n <= x, x < 2 * n
    PROVE  x % n = IF x < 0 THEN x + n ELSE IF x >= n THEN x - n ELSE x
  <1>1. CASE x < 0
    BY <1>1
  <1>2. CASE 0 <= x /\ x < n
    BY <1>2
  <1>3. CASE x >= n
    BY <1>3
  <1> QED
    BY <1>1, <1>2, <1>3

(* Where the ring keeps the i-th mode from the top, and that no slot keeps *)
(* two.                                                                    *)
LEMMA SlotFacts ==
    ASSUME NEW idx \in 0 .. DEPTH - 1, NEW i \in 1 .. DEPTH
    PROVE  /\ (idx - i + 1) % DEPTH = IF i <= idx + 1 THEN idx - i + 1 ELSE idx - i + 1 + DEPTH
           /\ (idx - i + 1) % DEPTH \in 0 .. DEPTH - 1
  <1>1. DEPTH \in Nat /\ DEPTH > 0
    BY CrosswordsAssumption
  <1>2. (idx - i + 1) % DEPTH = IF idx - i + 1 < 0 THEN idx - i + 1 + DEPTH
                                ELSE IF idx - i + 1 >= DEPTH THEN idx - i + 1 - DEPTH
                                ELSE idx - i + 1
    BY <1>1, RingMod
  <1> QED
    BY <1>1, <1>2

(* A stack read off a ring. *)
LEMMA TopFirstFacts ==
    ASSUME NEW stack \in Rings, NEW idx \in 0 .. DEPTH - 1
    PROVE  /\ TopFirst(stack, idx) \in Seq(SUBSET KeyFlags)
           /\ Len(TopFirst(stack, idx)) = DEPTH
           /\ \A i \in 1 .. DEPTH : TopFirst(stack, idx)[i] = stack[(idx - i + 1) % DEPTH]
  <1>1. DEPTH \in Nat
    BY CrosswordsAssumption
  <1>2. \A i \in 1 .. DEPTH : stack[(idx - i + 1) % DEPTH] \in SUBSET KeyFlags
    BY SlotFacts DEF Rings
  <1> DEFINE t == TopFirst(stack, idx)
  <1>3. t = [i \in 1 .. DEPTH |-> stack[(idx - i + 1) % DEPTH]]
    BY DEF TopFirst
  <1> HIDE DEF t
  <1>4. \A i \in 1 .. DEPTH : t[i] = stack[(idx - i + 1) % DEPTH]
    BY <1>3
  <1>5. t \in [1 .. DEPTH -> SUBSET KeyFlags]
    BY <1>2, <1>3
  <1>6. t \in Seq(SUBSET KeyFlags) /\ Len(t) = DEPTH
    BY <1>1, <1>5
  <1> QED
    BY <1>4, <1>6 DEF t

(* The slot above the top is the one below the bottom. *)
LEMMA NextSlot ==
    ASSUME NEW idx \in 0 .. DEPTH - 1
    PROVE  /\ (idx + 1) % DEPTH = IF idx = DEPTH - 1 THEN 0 ELSE idx + 1
           /\ (idx + 1) % DEPTH \in 0 .. DEPTH - 1
  <1>1. DEPTH \in Nat /\ DEPTH > 0
    BY CrosswordsAssumption
  <1>2. (idx + 1) % DEPTH = IF idx + 1 < 0 THEN idx + 1 + DEPTH
                                ELSE IF idx + 1 >= DEPTH THEN idx + 1 - DEPTH
                                ELSE idx + 1
    BY <1>1, RingMod
  <1> QED
    BY <1>1, <1>2

(* A push. *)
LEMMA PushRing ==
    ASSUME NEW stack \in Rings, NEW idx \in 0 .. DEPTH - 1, NEW m \in SUBSET KeyFlags,
           NEW up, up = (idx + 1) % DEPTH
    PROVE  /\ [stack EXCEPT ![up] = m] \in Rings
           /\ up \in 0 .. DEPTH - 1
           /\ TopFirst([stack EXCEPT ![up] = m], up)
                = <<m>> \o SubSeq(TopFirst(stack, idx), 1, DEPTH - 1)
  <1>1. DEPTH \in Nat /\ DEPTH > 0
    BY CrosswordsAssumption
  <1>2. up \in 0 .. DEPTH - 1 /\ up = IF idx = DEPTH - 1 THEN 0 ELSE idx + 1
    BY NextSlot
  <1> DEFINE new == [stack EXCEPT ![up] = m]
             S == SUBSET KeyFlags
             t == TopFirst(stack, idx)
             u == TopFirst(new, up)
             rest == SubSeq(t, 1, DEPTH - 1)
  <1>3. new \in Rings /\ \A x \in 0 .. DEPTH - 1 : new[x] = IF x = up THEN m ELSE stack[x]
    BY <1>2 DEF Rings
  <1> HIDE DEF new
  <1>4. /\ t \in Seq(S) /\ Len(t) = DEPTH
        /\ \A i \in 1 .. DEPTH : t[i] = stack[(idx - i + 1) % DEPTH]
    BY TopFirstFacts
  <1>5. /\ u \in Seq(S) /\ Len(u) = DEPTH
        /\ \A i \in 1 .. DEPTH : u[i] = new[(up - i + 1) % DEPTH]
    BY <1>2, <1>3, TopFirstFacts
  <1> HIDE DEF t, u
  <1>6. \A i \in 1 .. DEPTH : t[i] \in S
    BY <1>1, <1>4
  <1>7. /\ rest \in Seq(S)
        /\ Len(rest) = IF 1 <= DEPTH - 1 THEN DEPTH - 1 - 1 + 1 ELSE 0
        /\ \A i \in 1 .. DEPTH - 1 - 1 + 1 : rest[i] = t[1 + i - 1]
    <2>1. 1 \in Int /\ DEPTH - 1 \in Int /\ \A i \in 1 .. DEPTH - 1 : t[i] \in S
      BY <1>1, <1>6
    <2> HIDE DEF S
    <2> QED
      BY ONLY <2>1, SubSeqProperties
  <1> HIDE DEF rest
  <1>8. Len(rest) = DEPTH - 1 /\ \A i \in 1 .. DEPTH - 1 : rest[i] = t[i]
    BY <1>1, <1>7
  <1>9. <<m>> \in Seq(S) /\ Len(<<m>>) = 1 /\ <<m>>[1] = m
    OBVIOUS
  <1>10. /\ <<m>> \o rest \in Seq(S) /\ Len(<<m>> \o rest) = 1 + Len(rest)
         /\ \A i \in 1 .. 1 + Len(rest) : (<<m>> \o rest)[i] = IF i <= 1 THEN <<m>>[i] ELSE rest[i - 1]
    <2> DEFINE one == <<m>>
    <2> HIDE DEF S, one
    <2>1. one \in Seq(S) /\ Len(one) = 1
      BY <1>9 DEF one
    <2>2. /\ one \o rest \in Seq(S) /\ Len(one \o rest) = Len(one) + Len(rest)
          /\ \A i \in 1 .. Len(one) + Len(rest) : (one \o rest)[i] = IF i <= Len(one) THEN one[i] ELSE rest[i - Len(one)]
      BY ONLY <1>7, <2>1, ConcatProperties
    <2> QED
      BY ONLY <2>1, <2>2 DEF one
  <1> DEFINE w == <<m>> \o rest
  <1>11. w \in Seq(S) /\ Len(w) = DEPTH
    BY <1>1, <1>8, <1>10
  <1>12. \A i \in 1 .. DEPTH : w[i] = IF i = 1 THEN m ELSE t[i - 1]
    BY <1>1, <1>8, <1>9, <1>10
  <1> HIDE DEF w
  <1>13. \A i \in 1 .. DEPTH : u[i] = w[i]
    <2> TAKE i \in 1 .. DEPTH
    <2>1. CASE i = 1
      <3>1. (up - i + 1) % DEPTH = up
        BY <1>1, <1>2, <2>1, SlotFacts
      <3>2. u[i] = m
        BY <1>2, <1>3, <1>5, <2>1, <3>1
      <3> QED
        BY <1>12, <2>1, <3>2
    <2>2. CASE i # 1
      <3>1. i - 1 \in 1 .. DEPTH
        BY <1>1, <2>2
      <3>2. (up - i + 1) % DEPTH = IF i <= up + 1 THEN up - i + 1 ELSE up - i + 1 + DEPTH
        BY <1>2, SlotFacts
      <3>3. (idx - (i - 1) + 1) % DEPTH = IF i - 1 <= idx + 1 THEN idx - (i - 1) + 1 ELSE idx - (i - 1) + 1 + DEPTH
        BY <3>1, SlotFacts
      <3>4. /\ (up - i + 1) % DEPTH = (idx - (i - 1) + 1) % DEPTH
            /\ (up - i + 1) % DEPTH # up /\ (up - i + 1) % DEPTH \in 0 .. DEPTH - 1
        BY <1>1, <1>2, <2>2, <3>2, <3>3
      <3>5. u[i] = stack[(up - i + 1) % DEPTH]
        BY <1>3, <1>5, <3>4
      <3>6. w[i] = stack[(idx - (i - 1) + 1) % DEPTH]
        BY <1>4, <1>12, <2>2, <3>1
      <3> QED
        BY <3>4, <3>5, <3>6
    <2> QED
      BY <2>1, <2>2
  <1>14. u = w
    <2> HIDE DEF S
    <2> QED
      BY ONLY <1>5, <1>11, <1>13, SeqEqual
  <1> QED
    BY <1>2, <1>3, <1>14 DEF new, t, u, w, rest

(* Both rings and both indices have their types. *)
KeysSound(ks) ==
    /\ ks = [stack |-> ks.stack, idx |-> ks.idx,
             inactive_stack |-> ks.inactive_stack, inactive_idx |-> ks.inactive_idx]
    /\ ks.stack \in Rings /\ ks.idx \in 0 .. DEPTH - 1
    /\ ks.inactive_stack \in Rings /\ ks.inactive_idx \in 0 .. DEPTH - 1

(* The stacks after k pops: k modes are gone, the top is k slots lower.     *)
Popped(ks, k) ==
    [stack |-> [x \in 0 .. DEPTH - 1 |->
                    IF \E i \in 1 .. k : x = (ks.idx - i + 1) % DEPTH THEN {} ELSE ks.stack[x]],
     idx |-> (ks.idx - (k + 1) + 1) % DEPTH,
     inactive_stack |-> ks.inactive_stack, inactive_idx |-> ks.inactive_idx]

(* No pop. *)
LEMMA PoppedNone ==
    ASSUME NEW ks, KeysSound(ks)
    PROVE  Popped(ks, 0) = ks
  <1>1. DEPTH \in Nat /\ DEPTH > 0
    BY CrosswordsAssumption
  <1> DEFINE st == [x \in 0 .. DEPTH - 1 |->
                    IF \E i \in 1 .. 0 : x = (ks.idx - i + 1) % DEPTH THEN {} ELSE ks.stack[x]]
  <1>2. st = ks.stack
    <2>1. \A x \in 0 .. DEPTH - 1 : st[x] = ks.stack[x]
      OBVIOUS
    <2>2. ks.stack = [x \in 0 .. DEPTH - 1 |-> ks.stack[x]]
      BY DEF KeysSound, Rings
    <2> QED
      BY <2>1, <2>2
  <1>3. (ks.idx - (0 + 1) + 1) % DEPTH = ks.idx
    <2>1. ks.idx \in 0 .. DEPTH - 1 /\ ks.idx - (0 + 1) + 1 = ks.idx
      BY <1>1 DEF KeysSound
    <2>2. ks.idx % DEPTH = ks.idx
      BY <1>1, <2>1
    <2> QED
      BY <2>1, <2>2
  <1>4. Popped(ks, 0) = [stack |-> st, idx |-> (ks.idx - (0 + 1) + 1) % DEPTH,
                         inactive_stack |-> ks.inactive_stack, inactive_idx |-> ks.inactive_idx]
    BY DEF Popped
  <1> HIDE DEF st
  <1> QED
    BY <1>2, <1>3, <1>4 DEF KeysSound

(* The active stack and its top replaced. *)
LEMMA WithTop ==
    ASSUME NEW q, NEW c, NEW a, NEW x, NEW y, NEW d, NEW b, NEW r,
           q = [stack |-> c, idx |-> a, inactive_stack |-> x, inactive_idx |-> y],
           r = [q EXCEPT !.stack = d, !.idx = b]
    PROVE  r = [stack |-> d, idx |-> b, inactive_stack |-> x, inactive_idx |-> y]
  <1>1. r.stack = d /\ r.idx = b /\ r.inactive_stack = x /\ r.inactive_idx = y
    OBVIOUS
  <1>2. r = [f \in DOMAIN q |-> r[f]]
    OBVIOUS
  <1>3. DOMAIN q = {"stack", "idx", "inactive_stack", "inactive_idx"}
    OBVIOUS
  <1>4. r = [stack |-> r.stack, idx |-> r.idx,
             inactive_stack |-> r.inactive_stack, inactive_idx |-> r.inactive_idx]
    BY <1>2, <1>3
  <1> QED
    BY <1>1, <1>4

(* One more. *)
LEMMA PoppedStep ==
    ASSUME NEW ks, KeysSound(ks), NEW k \in 0 .. DEPTH - 2
    PROVE  PopOne(Popped(ks, k)) = Popped(ks, k + 1)
  <1>1. DEPTH \in Nat /\ DEPTH > 0 /\ k \in Nat /\ k + 1 \in 1 .. DEPTH /\ k + 1 + 1 \in 1 .. DEPTH
    BY CrosswordsAssumption
  <1>2. ks.idx \in 0 .. DEPTH - 1
    BY DEF KeysSound
  <1> DEFINE cleared(n) == [x \in 0 .. DEPTH - 1 |->
                    IF \E i \in 1 .. n : x = (ks.idx - i + 1) % DEPTH THEN {} ELSE ks.stack[x]]
             a == (ks.idx - (k + 1) + 1) % DEPTH
             b == (ks.idx - (k + 1 + 1) + 1) % DEPTH
  <1>3. a = IF k + 1 <= ks.idx + 1 THEN ks.idx - (k + 1) + 1 ELSE ks.idx - (k + 1) + 1 + DEPTH
    BY <1>1, <1>2, SlotFacts
  <1>4. b = IF k + 1 + 1 <= ks.idx + 1 THEN ks.idx - (k + 1 + 1) + 1
            ELSE ks.idx - (k + 1 + 1) + 1 + DEPTH
    BY <1>1, <1>2, SlotFacts
  <1>5. b = IF a = 0 THEN DEPTH - 1 ELSE a - 1
    <2> HIDE DEF a, b
    <2> QED
      BY <1>1, <1>2, <1>3, <1>4
  <1>6. a \in 0 .. DEPTH - 1
    BY <1>1, <1>2, SlotFacts
  <1>7. [cleared(k) EXCEPT ![a] = {}] = cleared(k + 1)
    <2> DEFINE P(n, x) == \E i \in 1 .. n : x = (ks.idx - i + 1) % DEPTH
    <2>1. \A x : P(k + 1, x) <=> P(k, x) \/ x = a
      <3> TAKE x
      <3>1. 1 .. k + 1 = (1 .. k) \cup {k + 1}
        BY <1>1
      <3> QED
        BY <3>1
    <2> DEFINE c == cleared(k)
               d == cleared(k + 1)
    <2>2. c = [x \in 0 .. DEPTH - 1 |-> IF P(k, x) THEN {} ELSE ks.stack[x]]
      OBVIOUS
    <2>3. d = [x \in 0 .. DEPTH - 1 |-> IF P(k + 1, x) THEN {} ELSE ks.stack[x]]
      OBVIOUS
    <2> HIDE DEF P, a, c, d
    <2>4. \A x \in 0 .. DEPTH - 1 : d[x] = IF x = a THEN {} ELSE c[x]
      BY <2>1, <2>2, <2>3
    <2>5. d = [c EXCEPT ![a] = {}]
      BY <2>2, <2>3, <2>4
    <2> QED
      BY <2>5 DEF c, d
  <1>8. Popped(ks, k) = [stack |-> cleared(k), idx |-> a,
                         inactive_stack |-> ks.inactive_stack, inactive_idx |-> ks.inactive_idx]
    BY DEF Popped
  <1>9. Popped(ks, k + 1) = [stack |-> cleared(k + 1), idx |-> b,
                         inactive_stack |-> ks.inactive_stack, inactive_idx |-> ks.inactive_idx]
    BY DEF Popped
  <1>10. PICK c, d : c = cleared(k) /\ d = cleared(k + 1)
    OBVIOUS
  <1> HIDE DEF a, b, cleared
  <1>11. /\ Popped(ks, k) = [stack |-> c, idx |-> a,
                         inactive_stack |-> ks.inactive_stack, inactive_idx |-> ks.inactive_idx]
         /\ Popped(ks, k + 1) = [stack |-> d, idx |-> b,
                         inactive_stack |-> ks.inactive_stack, inactive_idx |-> ks.inactive_idx]
         /\ [c EXCEPT ![a] = {}] = d
    BY <1>7, <1>8, <1>9, <1>10
  <1>12. PICK q : q = Popped(ks, k)
    OBVIOUS
  <1>13. /\ q.stack = c /\ q.idx = a
         /\ q = [stack |-> c, idx |-> a,
                 inactive_stack |-> ks.inactive_stack, inactive_idx |-> ks.inactive_idx]
    BY <1>11, <1>12
  <1>14. PopOne(q) = [q EXCEPT !.stack = [c EXCEPT ![a] = {}], !.idx = b]
    <2>1. PopOne(q) = [q EXCEPT !.stack = [q.stack EXCEPT ![q.idx] = {}],
                                !.idx = IF q.idx = 0 THEN DEPTH - 1 ELSE q.idx - 1]
      BY <1>13 DEF PopOne
    <2> QED
      BY <1>5, <1>13, <2>1
  <1>15. PopOne(q) = [stack |-> d, idx |-> b,
                 inactive_stack |-> ks.inactive_stack, inactive_idx |-> ks.inactive_idx]
    <2>1. PICK r, x, y : r = PopOne(q) /\ x = ks.inactive_stack /\ y = ks.inactive_idx
      OBVIOUS
    <2>2. r = [q EXCEPT !.stack = d, !.idx = b]
      BY <1>11, <1>14, <2>1
    <2>3. q = [stack |-> c, idx |-> a, inactive_stack |-> x, inactive_idx |-> y]
      BY <1>13, <2>1
    <2>4. r = [stack |-> d, idx |-> b, inactive_stack |-> x, inactive_idx |-> y]
      BY ONLY <2>2, <2>3, WithTop
    <2> QED
      BY <2>1, <2>4
  <1> QED
    BY <1>11, <1>12, <1>15

(* The pops as a recursive function over sets of turns, which is how the   *)
(* library folds.                                                          *)
PopFolding(ks, n, f) ==
    f = [s \in SUBSET (1 .. n) |-> IF s = {} THEN ks ELSE PopOne(f[s \ {Max(s)}])]

(* Fewer pops than the ring has slots. *)
LEMMA PopDef ==
    ASSUME NEW ks, NEW n \in Nat, n < DEPTH
    PROVE  pop_keyboard_modes(ks, n) = (CHOOSE f : PopFolding(ks, n, f))[1 .. n]
  <1>1. DOMAIN [i \in 1 .. n |-> i] = 1 .. n
    OBVIOUS
  <1>2. ~(n >= DEPTH)
    BY CrosswordsAssumption
  <1>3. pop_keyboard_modes(ks, n) = FoldLeft(LAMBDA s, i : PopOne(s), ks, [i \in 1 .. n |-> i])
    BY <1>2 DEF pop_keyboard_modes
  <1>4. FoldLeft(LAMBDA s, i : PopOne(s), ks, [i \in 1 .. n |-> i])
            = (CHOOSE f : f = [s \in SUBSET DOMAIN [i \in 1 .. n |-> i] |->
                    IF s = {} THEN ks ELSE PopOne(f[s \ {Max(s)}])])[DOMAIN [i \in 1 .. n |-> i]]
    BY DEF FoldLeft, MapThenFoldSet
  <1> QED
    BY <1>1, <1>3, <1>4 DEF PopFolding

(* The last turn of a set. *)
LEMMA LastTurn ==
    ASSUME NEW n \in Nat, NEW s \in SUBSET (1 .. n), s # {}
    PROVE  Max(s) \in s /\ \A y \in s : y <= Max(s)
  <1>1. s \in SUBSET (0 .. n)
    OBVIOUS
  <1>2. PICK x \in s : \A y \in s : y <= x
    BY <1>1, Greatest
  <1>3. \A y \in s : x >= y
    BY <1>2
  <1> QED
    BY <1>2, <1>3 DEF Max

(* There is such a function, *)
LEMMA PopFoldingExists ==
    ASSUME NEW ks, KeysSound(ks), NEW n \in Nat, n < DEPTH
    PROVE  \E f : PopFolding(ks, n, f)
  <1> DEFINE f == [s \in SUBSET (1 .. n) |-> Popped(ks, Cardinality(s))]
  <1>1. DEPTH \in Nat /\ IsFiniteSet(1 .. n) /\ Cardinality(1 .. n) = n
    BY CrosswordsAssumption, FS_Interval
  <1>2. ASSUME NEW s \in SUBSET (1 .. n)
        PROVE  f[s] = IF s = {} THEN ks ELSE PopOne(f[s \ {Max(s)}])
    <2>1. f[s] = Popped(ks, Cardinality(s))
      OBVIOUS
    <2>2. CASE s = {}
      BY <2>1, <2>2, FS_EmptySet, PoppedNone
    <2>3. CASE s # {}
      <3>1. PICK x \in s : x = Max(s)
        BY <2>3, LastTurn
      <3>2. IsFiniteSet(s) /\ Cardinality(s) <= n
        BY <1>1, FS_Subset
      <3>3. Cardinality(s \ {x}) = Cardinality(s) - 1 /\ IsFiniteSet(s \ {x})
        BY <3>2, FS_RemoveElement
      <3>4. Cardinality(s \ {x}) \in Nat /\ Cardinality(s) \in Nat
        BY <3>2, <3>3, FS_CardinalityType
      <3>5. PICK k : k = Cardinality(s \ {x})
        OBVIOUS
      <3>6. k \in 0 .. DEPTH - 2 /\ Cardinality(s) = k + 1
        BY <1>1, <3>2, <3>3, <3>4, <3>5
      <3>7. f[s \ {x}] = Popped(ks, k)
        BY <3>5
      <3> HIDE DEF f
      <3> QED
        BY <2>1, <2>3, <3>1, <3>6, <3>7, PoppedStep
    <2> QED
      BY <2>2, <2>3
  <1>3. f = [s \in SUBSET (1 .. n) |-> f[s]]
    OBVIOUS
  <1>4. PICK h : h = f
    OBVIOUS
  <1> HIDE DEF f
  <1>5. PopFolding(ks, n, h)
    BY <1>2, <1>3, <1>4 DEF PopFolding
  <1> QED
    BY <1>5

(* and it is the closed form. *)
LEMMA PopFoldingIs ==
    ASSUME NEW ks, KeysSound(ks), NEW n \in Nat, n < DEPTH, NEW f, PopFolding(ks, n, f)
    PROVE  f[1 .. n] = Popped(ks, n)
  <1> DEFINE Bad == {k \in Nat : k <= n /\ f[1 .. k] # Popped(ks, k)}
  <1>1. \A s \in SUBSET (1 .. n) : f[s] = IF s = {} THEN ks ELSE PopOne(f[s \ {Max(s)}])
    BY DEF PopFolding
  <1>2. SUFFICES ASSUME Bad # {} PROVE FALSE
    OBVIOUS
  <1>3. PICK k \in Bad : \A y \in Bad : k <= y
    <2>1. Bad \in SUBSET Nat
      OBVIOUS
    <2> HIDE DEF Bad
    <2> QED
      BY <1>2, <2>1, Least
  <1>4. CASE k = 0
    <2>1. 1 .. k = {}
      BY <1>4
    <2>2. f[1 .. k] = ks
      BY <1>1, <2>1
    <2> QED
      BY <1>3, <1>4, <2>2, PoppedNone
  <1>5. CASE k # 0
    <2>1. k \in Nat /\ k <= n /\ f[1 .. k] # Popped(ks, k)
      OBVIOUS
    <2>2. 1 .. k \in SUBSET (1 .. n) /\ 1 .. k # {}
      BY <1>5, <2>1
    <2>3. Max(1 .. k) = k
      <3>1. Max(1 .. k) \in 1 .. k /\ \A y \in 1 .. k : y <= Max(1 .. k)
        BY <2>2, LastTurn
      <3>2. k \in 1 .. k
        BY <1>5, <2>1
      <3> QED
        BY <2>1, <3>1, <3>2
    <2>4. (1 .. k) \ {k} = 1 .. k - 1
      BY <2>1
    <2>5. f[1 .. k] = PopOne(f[1 .. k - 1])
      BY <1>1, <2>2, <2>3, <2>4
    <2>6. f[1 .. k - 1] = Popped(ks, k - 1)
      <3>1. k - 1 \in Nat /\ k - 1 <= n /\ ~(k <= k - 1)
        BY <1>5, <2>1
      <3> QED
        BY <1>3, <3>1
    <2>7. k - 1 \in 0 .. DEPTH - 2 /\ k - 1 + 1 = k
      BY <1>5, <2>1, CrosswordsAssumption
    <2>8. PopOne(Popped(ks, k - 1)) = Popped(ks, k - 1 + 1)
      BY <2>7, PoppedStep
    <2> QED
      BY <2>1, <2>5, <2>6, <2>7, <2>8
  <1> QED
    BY <1>4, <1>5

(* Some pops, but not of all the ring. *)
LEMMA PopIs ==
    ASSUME NEW ks, KeysSound(ks), NEW n \in Nat, n < DEPTH
    PROVE  pop_keyboard_modes(ks, n) = Popped(ks, n)
  <1> DEFINE h == CHOOSE f : PopFolding(ks, n, f)
  <1>1. PopFolding(ks, n, h)
    BY PopFoldingExists
  <1>2. pop_keyboard_modes(ks, n) = h[1 .. n]
    BY PopDef
  <1> HIDE DEF h
  <1> QED
    BY <1>1, <1>2, PopFoldingIs

(* The first modes of a stack go, as many empty ones come in below. *)
LEMMA DropFacts ==
    ASSUME NEW S, NEW t \in Seq(S), NEW e \in Seq(S), NEW n \in Nat, NEW m \in 0 .. n,
           Len(t) = n, Len(e) = n
    PROVE  /\ SubSeq(t, m + 1, n) \o SubSeq(e, 1, m) \in Seq(S)
           /\ Len(SubSeq(t, m + 1, n) \o SubSeq(e, 1, m)) = n
           /\ \A i \in 1 .. n : (SubSeq(t, m + 1, n) \o SubSeq(e, 1, m))[i]
                    = IF i <= n - m THEN t[i + m] ELSE e[i - (n - m)]
  <1>1. /\ m + 1 \in Int /\ n \in Int /\ 1 \in Int /\ m \in Int
        /\ \A i \in m + 1 .. n : t[i] \in S
        /\ \A i \in 1 .. m : e[i] \in S
    OBVIOUS
  <1> DEFINE a == SubSeq(t, m + 1, n)
             b == SubSeq(e, 1, m)
  <1>2. /\ a \in Seq(S) /\ Len(a) = IF m + 1 <= n THEN n - (m + 1) + 1 ELSE 0
        /\ \A i \in 1 .. n - (m + 1) + 1 : a[i] = t[m + 1 + i - 1]
    BY ONLY <1>1, SubSeqProperties
  <1>3. /\ b \in Seq(S) /\ Len(b) = IF 1 <= m THEN m - 1 + 1 ELSE 0
        /\ \A i \in 1 .. m - 1 + 1 : b[i] = e[1 + i - 1]
    BY ONLY <1>1, SubSeqProperties
  <1> HIDE DEF a, b
  <1>4. Len(a) = n - m /\ \A i \in 1 .. n - m : a[i] = t[i + m]
    <2>1. Len(a) = n - m
      BY <1>2
    <2>2. ASSUME NEW i \in 1 .. n - m PROVE a[i] = t[i + m]
      <3>1. i \in 1 .. n - (m + 1) + 1 /\ m + 1 + i - 1 = i + m
        OBVIOUS
      <3> QED
        BY <1>2, <3>1
    <2> QED
      BY <2>1, <2>2
  <1>5. Len(b) = m /\ \A i \in 1 .. m : b[i] = e[i]
    <2>1. Len(b) = m
      BY <1>3
    <2>2. ASSUME NEW i \in 1 .. m PROVE b[i] = e[i]
      <3>1. i \in 1 .. m - 1 + 1 /\ 1 + i - 1 = i
        OBVIOUS
      <3> QED
        BY <1>3, <3>1
    <2> QED
      BY <2>1, <2>2
  <1>6. /\ a \o b \in Seq(S) /\ Len(a \o b) = Len(a) + Len(b)
        /\ \A i \in 1 .. Len(a) + Len(b) : (a \o b)[i] = IF i <= Len(a) THEN a[i] ELSE b[i - Len(a)]
    BY ONLY <1>2, <1>3, ConcatProperties
  <1>7. PICK c : c = a \o b
    OBVIOUS
  <1>8. /\ c \in Seq(S) /\ Len(c) = n
        /\ \A i \in 1 .. n : c[i] = IF i <= n - m THEN a[i] ELSE b[i - (n - m)]
    <2>1. Len(a) + Len(b) = n /\ Len(a) = n - m
      BY <1>4, <1>5
    <2> QED
      BY <1>6, <1>7, <2>1
  <1>9. \A i \in 1 .. n : c[i] = IF i <= n - m THEN t[i + m] ELSE e[i - (n - m)]
    <2> TAKE i \in 1 .. n
    <2>1. CASE i <= n - m
      BY <1>4, <1>8, <2>1
    <2>2. CASE ~(i <= n - m)
      <3>1. i - (n - m) \in 1 .. m
        BY <2>2
      <3> QED
        BY <1>5, <1>8, <2>2, <3>1
    <2> QED
      BY <2>1, <2>2
  <1> QED
    BY <1>7, <1>8, <1>9 DEF a, b

(* No modes. *)
LEMMA NoModesFacts ==
    /\ Stacks!NoModes \in Seq(SUBSET KeyFlags) /\ Len(Stacks!NoModes) = DEPTH
    /\ \A i \in 1 .. DEPTH : Stacks!NoModes[i] = {}
  <1>1. DEPTH \in Nat
    BY CrosswordsAssumption
  <1>2. Stacks!NoModes \in [1 .. DEPTH -> SUBSET KeyFlags]
    BY DEF Stacks!NoModes
  <1> QED
    BY <1>1, <1>2 DEF Stacks!NoModes

(* The empty ring is the empty stack. *)
LEMMA EmptyRing ==
    /\ EmptyStack \in Rings /\ 0 \in 0 .. DEPTH - 1
    /\ TopFirst(EmptyStack, 0) = Stacks!NoModes
  <1>1. DEPTH \in Nat /\ 0 \in 0 .. DEPTH - 1
    BY CrosswordsAssumption
  <1>2. EmptyStack \in Rings /\ \A x \in 0 .. DEPTH - 1 : EmptyStack[x] = {}
    BY DEF EmptyStack, Rings
  <1>3. \A i \in 1 .. DEPTH : EmptyStack[(0 - i + 1) % DEPTH] = {}
    BY <1>1, <1>2, SlotFacts
  <1> QED
    BY <1>1, <1>2, <1>3 DEF TopFirst, Stacks!NoModes

(* The same, of the sequence by a name of its own. *)
LEMMA DropIs ==
    ASSUME NEW S, NEW t \in Seq(S), NEW e \in Seq(S), NEW n \in Nat, NEW m \in 0 .. n,
           Len(t) = n, Len(e) = n,
           NEW d, d = SubSeq(t, m + 1, n) \o SubSeq(e, 1, m)
    PROVE  /\ d \in Seq(S) /\ Len(d) = n
           /\ \A i \in 1 .. n : d[i] = IF i <= n - m THEN t[i + m] ELSE e[i - (n - m)]
  BY DropFacts

(* Popping more modes than there are. *)
LEMMA PopAll ==
    ASSUME NEW t \in Seq(SUBSET KeyFlags), Len(t) = DEPTH
    PROVE  SubSeq(t, DEPTH + 1, DEPTH) \o SubSeq(Stacks!NoModes, 1, DEPTH) = Stacks!NoModes
  <1>1. DEPTH \in Nat /\ DEPTH \in 0 .. DEPTH
    BY CrosswordsAssumption
  <1> DEFINE S == SUBSET KeyFlags
             e == Stacks!NoModes
             c == SubSeq(t, DEPTH + 1, DEPTH) \o SubSeq(e, 1, DEPTH)
  <1>2. e \in Seq(S) /\ Len(e) = DEPTH
    BY NoModesFacts
  <1>3. t \in Seq(S) /\ Len(t) = DEPTH
    OBVIOUS
  <1> HIDE DEF S, e
  <1>4. /\ c \in Seq(S) /\ Len(c) = DEPTH
        /\ \A i \in 1 .. DEPTH : c[i] = IF i <= DEPTH - DEPTH THEN t[i + DEPTH] ELSE e[i - (DEPTH - DEPTH)]
    <2>1. PICK n, m, d, u : /\ n = DEPTH /\ m = DEPTH /\ u = e
                            /\ d = SubSeq(t, m + 1, n) \o SubSeq(u, 1, m)
      OBVIOUS
    <2>2. n \in Nat /\ m \in 0 .. n /\ Len(t) = n /\ Len(u) = n /\ u \in Seq(S)
      BY <1>1, <1>2, <1>3, <2>1
    <2>3. d = c
      BY ONLY <2>1 DEF c
    <2> HIDE DEF c
    <2>4. /\ d \in Seq(S) /\ Len(d) = n
          /\ \A i \in 1 .. n : d[i] = IF i <= n - m THEN t[i + m] ELSE u[i - (n - m)]
      BY ONLY <1>3, <2>1, <2>2, DropIs
    <2> QED
      BY ONLY <2>1, <2>3, <2>4
  <1> HIDE DEF c
  <1>5. \A i \in 1 .. DEPTH : c[i] = e[i]
    BY <1>1, <1>4
  <1>6. c = e
    BY ONLY <1>2, <1>4, <1>5, SeqEqual
  <1> QED
    BY <1>6 DEF c, e

(* Popping some of them. *)
LEMMA PoppedRing ==
    ASSUME NEW ks, KeysSound(ks), NEW n \in Nat, n < DEPTH
    PROVE  /\ KeysSound(Popped(ks, n))
           /\ TopFirst(Popped(ks, n).stack, Popped(ks, n).idx)
                = SubSeq(TopFirst(ks.stack, ks.idx), n + 1, DEPTH) \o SubSeq(Stacks!NoModes, 1, n)
  <1>1. DEPTH \in Nat /\ DEPTH > 0 /\ n \in 0 .. DEPTH /\ n + 1 \in 1 .. DEPTH
    BY CrosswordsAssumption
  <1>2. /\ ks.stack \in Rings /\ ks.idx \in 0 .. DEPTH - 1
        /\ ks.inactive_stack \in Rings /\ ks.inactive_idx \in 0 .. DEPTH - 1
    BY DEF KeysSound
  <1>3. PICK p, st, low, idx : /\ p = Popped(ks, n) /\ st = p.stack /\ low = p.idx /\ idx = ks.idx
    OBVIOUS
  <1>4. /\ p = [stack |-> st, idx |-> low,
                inactive_stack |-> ks.inactive_stack, inactive_idx |-> ks.inactive_idx]
        /\ low = (idx - (n + 1) + 1) % DEPTH
    BY <1>3 DEF Popped
  <1>5. low \in 0 .. DEPTH - 1
        /\ low = IF n + 1 <= idx + 1 THEN idx - (n + 1) + 1 ELSE idx - (n + 1) + 1 + DEPTH
    BY <1>1, <1>2, <1>3, <1>4, SlotFacts
  <1>6. st = [x \in 0 .. DEPTH - 1 |->
                    IF \E i \in 1 .. n : x = (idx - i + 1) % DEPTH THEN {} ELSE ks.stack[x]]
    BY <1>3 DEF Popped
  <1>7. st \in Rings
    BY <1>2, <1>6 DEF Rings
  <1>8. KeysSound(p)
    BY <1>2, <1>4, <1>5, <1>7 DEF KeysSound
  <1> DEFINE S == SUBSET KeyFlags
             t == TopFirst(ks.stack, idx)
             u == TopFirst(st, low)
             e == Stacks!NoModes
             c == SubSeq(t, n + 1, DEPTH) \o SubSeq(e, 1, n)
  <1>9. e \in Seq(S) /\ Len(e) = DEPTH /\ \A i \in 1 .. DEPTH : e[i] = {}
    BY NoModesFacts
  <1>10. t \in Seq(S) /\ Len(t) = DEPTH /\ \A i \in 1 .. DEPTH : t[i] = ks.stack[(idx - i + 1) % DEPTH]
    BY <1>2, <1>3, TopFirstFacts
  <1>11. u \in Seq(S) /\ Len(u) = DEPTH /\ \A i \in 1 .. DEPTH : u[i] = st[(low - i + 1) % DEPTH]
    BY <1>5, <1>7, TopFirstFacts
  <1> HIDE DEF S, t, u, e
  <1>12. /\ c \in Seq(S) /\ Len(c) = DEPTH
         /\ \A i \in 1 .. DEPTH : c[i] = IF i <= DEPTH - n THEN t[i + n] ELSE e[i - (DEPTH - n)]
    BY ONLY <1>1, <1>9, <1>10, DropFacts
  <1> HIDE DEF c
  <1>13. ASSUME NEW i \in 1 .. DEPTH PROVE u[i] = c[i]
    <2>1. PICK x : x = (low - i + 1) % DEPTH
      OBVIOUS
    <2>2. x \in 0 .. DEPTH - 1 /\ x = IF i <= low + 1 THEN low - i + 1 ELSE low - i + 1 + DEPTH
      BY <1>5, <2>1, SlotFacts
    <2>3. \A j \in 1 .. DEPTH :
            (idx - j + 1) % DEPTH = IF j <= idx + 1 THEN idx - j + 1 ELSE idx - j + 1 + DEPTH
      BY <1>2, <1>3, SlotFacts
    <2>4. idx \in 0 .. DEPTH - 1
      BY <1>2, <1>3
    <2>5. CASE i <= DEPTH - n
      <3>1. i + n \in 1 .. DEPTH
        BY <1>1, <2>5
      <3>2. x = (idx - (i + n) + 1) % DEPTH
        <4>1. PICK y : y = (idx - (i + n) + 1) % DEPTH
          OBVIOUS
        <4>2. y = IF i + n <= idx + 1 THEN idx - (i + n) + 1 ELSE idx - (i + n) + 1 + DEPTH
          BY <2>3, <3>1, <4>1
        <4>3. x = y
          BY ONLY <1>1, <1>5, <2>2, <2>4, <2>5, <4>2
        <4> QED
          BY <4>1, <4>3
      <3>3. \A j \in 1 .. n : x # (idx - j + 1) % DEPTH
        <4> TAKE j \in 1 .. n
        <4>1. j \in 1 .. DEPTH
          BY <1>1
        <4>2. x = IF i + n <= idx + 1 THEN idx - (i + n) + 1 ELSE idx - (i + n) + 1 + DEPTH
          BY <2>3, <3>1, <3>2
        <4>3. PICK y : y = (idx - j + 1) % DEPTH
          OBVIOUS
        <4>4. y = IF j <= idx + 1 THEN idx - j + 1 ELSE idx - j + 1 + DEPTH
          BY <2>3, <4>1, <4>3
        <4>5. x # y
          BY ONLY <1>1, <2>4, <2>5, <3>1, <4>1, <4>2, <4>4
        <4> QED
          BY <4>3, <4>5
      <3>4. u[i] = ks.stack[x]
        BY <1>6, <1>11, <2>1, <2>2, <3>3
      <3> QED
        BY <1>10, <1>12, <2>5, <3>1, <3>2, <3>4
    <2>6. CASE i > DEPTH - n
      <3>1. PICK j : j = i - (DEPTH - n)
        OBVIOUS
      <3>2. j \in 1 .. n /\ j \in 1 .. DEPTH
        BY <1>1, <2>6, <3>1
      <3>3. x = (idx - j + 1) % DEPTH
        <4>1. PICK y : y = (idx - j + 1) % DEPTH
          OBVIOUS
        <4>2. y = IF j <= idx + 1 THEN idx - j + 1 ELSE idx - j + 1 + DEPTH
          BY <2>3, <3>2, <4>1
        <4>3. x = y
          BY ONLY <1>1, <1>5, <2>2, <2>4, <2>6, <3>1, <3>2, <4>2
        <4> QED
          BY <4>1, <4>3
      <3>4. u[i] = {}
        BY <1>6, <1>11, <2>1, <2>2, <3>2, <3>3
      <3>5. c[i] = e[j]
        BY <1>12, <2>6, <3>1, <1>1
      <3> QED
        BY <1>9, <3>2, <3>4, <3>5
    <2> QED
      BY <1>1, <2>5, <2>6
  <1>14. u = c
    BY ONLY <1>11, <1>12, <1>13, SeqEqual
  <1> QED
    BY <1>3, <1>8, <1>14 DEF u, c, t, e

(* The top of a ring is the first mode of its stack. *)
LEMMA SetRing ==
    ASSUME NEW stack \in Rings, NEW idx \in 0 .. DEPTH - 1, NEW m \in SUBSET KeyFlags
    PROVE  /\ [stack EXCEPT ![idx] = m] \in Rings
           /\ TopFirst(stack, idx)[1] = stack[idx]
           /\ TopFirst([stack EXCEPT ![idx] = m], idx) = [TopFirst(stack, idx) EXCEPT ![1] = m]
  <1>1. DEPTH \in Nat /\ 1 \in 1 .. DEPTH
    BY CrosswordsAssumption
  <1>2. PICK new : new = [stack EXCEPT ![idx] = m]
    OBVIOUS
  <1>3. new \in Rings /\ \A x \in 0 .. DEPTH - 1 : new[x] = IF x = idx THEN m ELSE stack[x]
    BY <1>2 DEF Rings
  <1>4. \A i \in 1 .. DEPTH : /\ (idx - i + 1) % DEPTH \in 0 .. DEPTH - 1
                              /\ (idx - i + 1) % DEPTH = idx <=> i = 1
    <2> TAKE i \in 1 .. DEPTH
    <2>1. PICK x : x = (idx - i + 1) % DEPTH
      OBVIOUS
    <2>2. x \in 0 .. DEPTH - 1 /\ x = IF i <= idx + 1 THEN idx - i + 1 ELSE idx - i + 1 + DEPTH
      BY <2>1, SlotFacts
    <2>3. x = idx <=> i = 1
      BY <1>1, <2>2
    <2> QED
      BY <2>1, <2>2, <2>3
  <1>5. PICK t, u : t = TopFirst(stack, idx) /\ u = TopFirst(new, idx)
    OBVIOUS
  <1>6. /\ t = [i \in 1 .. DEPTH |-> stack[(idx - i + 1) % DEPTH]]
        /\ u = [i \in 1 .. DEPTH |-> new[(idx - i + 1) % DEPTH]]
    BY <1>5 DEF TopFirst
  <1>7. t[1] = stack[idx]
    BY <1>1, <1>4, <1>6
  <1>8. \A i \in 1 .. DEPTH : u[i] = IF i = 1 THEN m ELSE t[i]
    BY <1>3, <1>4, <1>6
  <1>9. u = [t EXCEPT ![1] = m]
    BY <1>6, <1>8
  <1> QED
    BY <1>2, <1>3, <1>5, <1>7, <1>9

-----------------------------------------------------------------------------
(* The steps. *)

(* Both stacks are empty at first. *)
LEMMA KeysInit == Init => KeysSound(keys) /\ Stacks!Init
  <1> SUFFICES ASSUME Init PROVE KeysSound(keys) /\ Stacks!Init
    OBVIOUS
  <1>1. /\ keys = [stack |-> EmptyStack, idx |-> 0, inactive_stack |-> EmptyStack, inactive_idx |-> 0]
    BY DEF Init, NewStacks
  <1> QED
    BY <1>1, EmptyRing DEF KeysSound, Stacks!Init

(* Nothing of the keyboard's. *)
LEMMA OtherStep ==
    ASSUME KeysSound(keys), keys' = keys,
           call'.op \notin {"push", "pop", "set", "swap_alt", "reset_state"}
    PROVE  KeysSound(keys') /\ Stacks!Other
  BY DEF Stacks!Other

(* A push. *)
LEMMA PushStep ==
    ASSUME KeysSound(keys), PushKeyboardMode
    PROVE  KeysSound(keys') /\ Stacks!Push
  <1>1. PICK m \in SUBSET KeyFlags :
            keys' = push_keyboard_mode(keys, m) /\ call' = [op |-> "push", mode |-> m]
    BY DEF PushKeyboardMode, KeyboardMode
  <1>2. PICK ks, stack, idx, up : ks = keys /\ stack = ks.stack /\ idx = ks.idx /\ up = (idx + 1) % DEPTH
    OBVIOUS
  <1>3. PICK r, new : r = push_keyboard_mode(ks, m) /\ new = [stack EXCEPT ![up] = m]
    OBVIOUS
  <1>4. /\ ks = [stack |-> stack, idx |-> idx,
                 inactive_stack |-> ks.inactive_stack, inactive_idx |-> ks.inactive_idx]
        /\ stack \in Rings /\ idx \in 0 .. DEPTH - 1
        /\ ks.inactive_stack \in Rings /\ ks.inactive_idx \in 0 .. DEPTH - 1
    BY <1>2 DEF KeysSound
  <1>5. r = [ks EXCEPT !.stack = new, !.idx = up]
    <2>1. [ks EXCEPT !.idx = up, !.stack[up] = m] = [ks EXCEPT !.stack = [ks.stack EXCEPT ![up] = m], !.idx = up]
      BY <1>4
    <2> QED
      BY <1>2, <1>3, <2>1 DEF push_keyboard_mode
  <1>6. PICK x, y : x = ks.inactive_stack /\ y = ks.inactive_idx
    OBVIOUS
  <1>7. r = [stack |-> new, idx |-> up, inactive_stack |-> x, inactive_idx |-> y]
    <2>1. ks = [stack |-> stack, idx |-> idx, inactive_stack |-> x, inactive_idx |-> y]
      BY <1>4, <1>6
    <2> QED
      BY ONLY <2>1, <1>5, WithTop
  <1>8. /\ new \in Rings /\ up \in 0 .. DEPTH - 1
        /\ TopFirst(new, up) = <<m>> \o SubSeq(TopFirst(stack, idx), 1, DEPTH - 1)
    <2>1. stack \in Rings /\ idx \in 0 .. DEPTH - 1 /\ m \in SUBSET KeyFlags
          /\ up = (idx + 1) % DEPTH
      BY <1>2, <1>4
    <2>2. /\ [stack EXCEPT ![up] = m] \in Rings /\ up \in 0 .. DEPTH - 1
          /\ TopFirst([stack EXCEPT ![up] = m], up)
                = <<m>> \o SubSeq(TopFirst(stack, idx), 1, DEPTH - 1)
      BY ONLY <2>1, PushRing
    <2> QED
      BY <1>3, <2>2
  <1>9. KeysSound(r)
    BY <1>4, <1>6, <1>7, <1>8 DEF KeysSound
  <1>10. keys' = r
    BY <1>1, <1>2, <1>3
  <1>11. r.stack = new /\ r.idx = up /\ r.inactive_stack = x /\ r.inactive_idx = y
    BY <1>7
  <1> QED
    BY <1>1, <1>2, <1>6, <1>8, <1>9, <1>10, <1>11 DEF Stacks!Push

(* A pop, of any number of modes. *)
LEMMA PopStep ==
    ASSUME KeysSound(keys), PopKeyboardModes
    PROVE  KeysSound(keys') /\ Stacks!Pop
  <1>1. PICK n \in Counts : keys' = pop_keyboard_modes(keys, n) /\ call' = [op |-> "pop", n |-> n]
    BY DEF PopKeyboardModes, KeyboardMode
  <1>2. n \in Nat /\ DEPTH \in Nat
    BY SizesAssumption, CrosswordsAssumption DEF Counts
  <1>3. PICK ks, r : ks = keys /\ r = pop_keyboard_modes(ks, n)
    OBVIOUS
  <1>4. KeysSound(ks)
    BY <1>3
  <1>5. /\ ks.stack \in Rings /\ ks.idx \in 0 .. DEPTH - 1
        /\ ks.inactive_stack \in Rings /\ ks.inactive_idx \in 0 .. DEPTH - 1
    BY <1>4 DEF KeysSound
  <1>6. PICK m : m = IF n < DEPTH THEN n ELSE DEPTH
    OBVIOUS
  <1>7. /\ KeysSound(r)
        /\ r.inactive_stack = ks.inactive_stack /\ r.inactive_idx = ks.inactive_idx
        /\ TopFirst(r.stack, r.idx)
                = SubSeq(TopFirst(ks.stack, ks.idx), m + 1, DEPTH) \o SubSeq(Stacks!NoModes, 1, m)
    <2>1. CASE n < DEPTH
      <3>1. r = Popped(ks, n)
        BY <1>2, <1>3, <1>4, <2>1, PopIs
      <3>2. r.inactive_stack = ks.inactive_stack /\ r.inactive_idx = ks.inactive_idx
        BY <3>1 DEF Popped
      <3>3. m = n
        BY <1>6, <2>1
      <3> QED
        BY <1>2, <1>4, <2>1, <3>1, <3>2, <3>3, PoppedRing
    <2>2. CASE ~(n < DEPTH)
      <3>1. m = DEPTH /\ n >= DEPTH
        BY <1>2, <1>6, <2>2
      <3>2. r = [ks EXCEPT !.stack = EmptyStack, !.idx = 0]
        BY <1>3, <3>1 DEF pop_keyboard_modes
      <3>3. PICK a, b, x, y : /\ a = ks.stack /\ b = ks.idx
                              /\ x = ks.inactive_stack /\ y = ks.inactive_idx
        OBVIOUS
      <3>4. ks = [stack |-> a, idx |-> b, inactive_stack |-> x, inactive_idx |-> y]
        BY <1>4, <3>3 DEF KeysSound
      <3>5. r = [stack |-> EmptyStack, idx |-> 0, inactive_stack |-> x, inactive_idx |-> y]
        BY ONLY <3>2, <3>4, WithTop
      <3>6. KeysSound(r)
        BY <1>5, <3>3, <3>5, EmptyRing DEF KeysSound
      <3>7. TopFirst(r.stack, r.idx) = Stacks!NoModes
        BY <3>5, EmptyRing
      <3>8. TopFirst(ks.stack, ks.idx) \in Seq(SUBSET KeyFlags) /\ Len(TopFirst(ks.stack, ks.idx)) = DEPTH
        BY <1>5, TopFirstFacts
      <3> QED
        BY <3>1, <3>3, <3>5, <3>6, <3>7, <3>8, PopAll
    <2> QED
      BY <2>1, <2>2
  <1>8. keys' = r
    BY <1>1, <1>3
  <1> QED
    BY <1>1, <1>3, <1>6, <1>7, <1>8 DEF Stacks!Pop

(* The top mode replaced, united or reduced. *)
LEMMA SetStep ==
    ASSUME KeysSound(keys), SetKeyboardMode
    PROVE  KeysSound(keys') /\ Stacks!Set
  <1>1. PICK m \in SUBSET KeyFlags, apply \in {"replace", "union", "difference"} :
            /\ keys' = set_keyboard_mode(keys, m, apply)
            /\ call' = [op |-> "set", mode |-> m, apply |-> apply]
    BY DEF SetKeyboardMode, KeyboardMode
  <1> DEFINE Applied(old) == CASE apply = "replace" -> m
                               [] apply = "union" -> old \cup m
                               [] apply = "difference" -> old \ m
  <1>2. PICK ks, stack, idx : ks = keys /\ stack = ks.stack /\ idx = ks.idx
    OBVIOUS
  <1>3. PICK x, y : x = ks.inactive_stack /\ y = ks.inactive_idx
    OBVIOUS
  <1>4. /\ ks = [stack |-> stack, idx |-> idx, inactive_stack |-> x, inactive_idx |-> y]
        /\ stack \in Rings /\ idx \in 0 .. DEPTH - 1 /\ x \in Rings /\ y \in 0 .. DEPTH - 1
    BY <1>2, <1>3 DEF KeysSound
  <1>5. PICK r : r = set_keyboard_mode(ks, m, apply)
    OBVIOUS
  <1>6. stack[idx] \in SUBSET KeyFlags
    BY <1>4 DEF Rings
  <1>7. PICK mode : mode = Applied(stack[idx])
    OBVIOUS
  <1>8. mode \in SUBSET KeyFlags
    BY <1>6, <1>7
  <1>9. PICK new : new = [stack EXCEPT ![idx] = mode]
    OBVIOUS
  <1>10. r = [ks EXCEPT !.stack = new, !.idx = idx]
    <2>1. r = [ks EXCEPT !.stack[ks.idx] = Applied(@)]
      BY <1>5 DEF set_keyboard_mode
    <2> HIDE DEF Applied
    <2>2. r = [ks EXCEPT !.stack = [stack EXCEPT ![idx] = Applied(stack[idx])]]
      BY <1>2, <1>4, <2>1
    <2>3. r = [ks EXCEPT !.stack = new]
      BY <1>7, <1>9, <2>2
    <2>4. ks.idx = idx /\ "idx" \in DOMAIN ks
      BY <1>4
    <2>5. PICK q, w : q = [ks EXCEPT !.stack = new] /\ w = [ks EXCEPT !.stack = new, !.idx = idx]
      OBVIOUS
    <2>6. q = [stack |-> new, idx |-> idx, inactive_stack |-> x, inactive_idx |-> y]
      BY ONLY <1>4, <2>5
    <2>7. w = [stack |-> new, idx |-> idx, inactive_stack |-> x, inactive_idx |-> y]
      BY ONLY <1>4, <2>5, WithTop
    <2> QED
      BY <2>3, <2>5, <2>6, <2>7
  <1>11. r = [stack |-> new, idx |-> idx, inactive_stack |-> x, inactive_idx |-> y]
    BY ONLY <1>4, <1>10, WithTop
  <1>12. /\ new \in Rings /\ TopFirst(stack, idx)[1] = stack[idx]
         /\ TopFirst(new, idx) = [TopFirst(stack, idx) EXCEPT ![1] = mode]
    <2>1. stack \in Rings /\ idx \in 0 .. DEPTH - 1 /\ mode \in SUBSET KeyFlags
      BY <1>4, <1>8
    <2>2. /\ [stack EXCEPT ![idx] = mode] \in Rings /\ TopFirst(stack, idx)[1] = stack[idx]
          /\ TopFirst([stack EXCEPT ![idx] = mode], idx) = [TopFirst(stack, idx) EXCEPT ![1] = mode]
      BY ONLY <2>1, SetRing
    <2> QED
      BY <1>9, <2>2
  <1>13. KeysSound(r)
    BY <1>4, <1>11, <1>12 DEF KeysSound
  <1>14. keys' = r
    BY <1>1, <1>2, <1>5
  <1>15. r.stack = new /\ r.idx = idx /\ r.inactive_stack = x /\ r.inactive_idx = y
    BY <1>11
  <1>16. TopFirst(r.stack, r.idx) = [TopFirst(stack, idx) EXCEPT ![1] = Applied(@)]
    <2> HIDE DEF Applied
    <2> QED
      BY <1>7, <1>12, <1>15
  <1>17. call'.op = "set" /\ call'.mode = m /\ call'.apply = apply
    BY <1>1
  <1> QED
    BY <1>2, <1>3, <1>13, <1>14, <1>15, <1>16, <1>17 DEF Stacks!Set

(* The other screen's stacks, or new ones. *)
LEMMA SwapStep ==
    ASSUME KeysSound(keys), SwapAlt
    PROVE  KeysSound(keys') /\ (Stacks!SwapScreens \/ Stacks!Other)
  <1>1. CASE call' = [op |-> "no_swap"] /\ UNCHANGED <<rows, keys>>
    BY <1>1, OtherStep
  <1>2. CASE call' = [op |-> "swap_alt"] /\ keys' = SwapStacks(keys)
    <2>1. /\ keys' = [stack |-> keys.inactive_stack, idx |-> keys.inactive_idx,
                      inactive_stack |-> keys.stack, inactive_idx |-> keys.idx]
      BY <1>2 DEF SwapStacks
    <2>2. KeysSound(keys')
      BY <2>1 DEF KeysSound
    <2> QED
      BY <1>2, <2>1, <2>2 DEF Stacks!SwapScreens
  <1> QED
    BY <1>1, <1>2 DEF SwapAlt

(* A full reset empties both stacks. *)
LEMMA ResetStep ==
    ASSUME KeysSound(keys), ResetState
    PROVE  KeysSound(keys') /\ Stacks!Reset
  <1>1. /\ keys' = [stack |-> EmptyStack, idx |-> 0, inactive_stack |-> EmptyStack, inactive_idx |-> 0]
        /\ call' = [op |-> "reset_state"]
    BY DEF ResetState, NewStacks
  <1> QED
    BY <1>1, EmptyRing DEF KeysSound, Stacks!Reset

(* Neither the stacks nor the bits of the mode change. *)
KeysUntouched == keys' = keys /\ key_mode' = key_mode

(* The handlers that print, *)
LEMMA PrintingKeys ==
    ASSUME KeysSound(keys),
           \/ InputLetter \/ InputEmoji \/ Combine \/ VariationSelector16 \/ VariationSelector15 \/ Tab
           \/ Linefeed \/ CarriageReturn \/ NextLine \/ Backspace \/ ReverseIndex
    PROVE  KeysSound(keys') /\ Stacks!Other /\ KeysUntouched
  <1>1. KeysUntouched /\ call'.op \in {"a", "e", "E", "combine", "VS16", "VS15", "tab", "LF", "CR",
                                      "NEL", "BS", "RI"}
    BY DEF KeysUntouched, Step, InputLetter, InputEmoji, Combine, VariationSelector16, VariationSelector15, Tab,
           Linefeed, CarriageReturn, NextLine, Backspace, ReverseIndex
  <1> QED
    BY <1>1, OtherStep DEF KeysUntouched

(* move, *)
LEMMA MovingKeys ==
    ASSUME KeysSound(keys),
           \/ Goto \/ GotoOne \/ Move \/ MoveTabs \/ SetTabs \/ SaveCursor \/ RestoreCursor
           \/ SetRegion \/ SetMode \/ UnsetMode \/ ScrollDisplay \/ Resize \/ Render
    PROVE  KeysSound(keys') /\ Stacks!Other /\ KeysUntouched
  <1> DEFINE ops == {"goto", "goto_one", "move", "move_tabs", "set_tabs", "save", "region",
                     "ORIGIN", "LINE_WRAP", "INSERT", "view", "resize", "render"}
  <1>1. CASE Goto \/ GotoOne \/ Move \/ MoveTabs \/ SetTabs \/ SaveCursor \/ RestoreCursor
    <2>1. KeysUntouched /\ call'.op \in ops
      BY <1>1 DEF KeysUntouched, Step, Goto, GotoOne, Move, MoveTabs, SetTabs, SaveCursor, RestoreCursor
    <2> QED
      BY <2>1, OtherStep DEF KeysUntouched
  <1>2. CASE SetRegion
    BY <1>2, OtherStep DEF KeysUntouched, Step, SetRegion
  <1>3. CASE SetMode \/ UnsetMode
    <2>1. KeysUntouched /\ call'.op \in ops
      BY <1>3 DEF KeysUntouched, Step, SetMode, UnsetMode
    <2> QED
      BY <2>1, OtherStep DEF KeysUntouched
  <1>4. CASE ScrollDisplay
    BY <1>4, OtherStep DEF KeysUntouched, Step, ScrollDisplay
  <1>5. CASE Resize
    <2>1. KeysUntouched /\ call' = [op |-> "resize"]
      <3>1. PICK size, t, k : Step("resize", t, k) /\ size \in program.sizes
        BY ONLY <1>5 DEF Resize
      <3> QED
        BY ONLY <3>1 DEF KeysUntouched, Step
    <2> QED
      BY <2>1, OtherStep DEF KeysUntouched
  <1>6. CASE Render
    BY <1>6, OtherStep DEF KeysUntouched, Render
  <1> QED
    BY <1>1, <1>2, <1>3, <1>4, <1>5, <1>6

(* or erase leave the keyboard modes alone. *)
LEMMA ErasingKeys ==
    ASSUME KeysSound(keys),
           \/ ScrollUp \/ ScrollDown \/ DeleteLines \/ InsertBlankLines
           \/ EraseChars \/ DeleteChars \/ InsertBlank \/ ClearLine \/ ClearScreen
           \/ Decaln \/ Deccolm
    PROVE  KeysSound(keys') /\ Stacks!Other /\ KeysUntouched
  <1>1. KeysUntouched /\ call'.op \in {"SU", "SD", "DL", "IL", "ECH", "DCH", "ICH", "EL", "ED",
                                      "DECALN", "DECCOLM"}
    BY DEF KeysUntouched, Step, ScrollUp, ScrollDown, DeleteLines, InsertBlankLines, EraseChars, DeleteChars,
           InsertBlank, ClearLine, ClearScreen, Decaln, Deccolm
  <1> QED
    BY <1>1, OtherStep DEF KeysUntouched

(* Every step of the terminal is one of the stacks', or none. *)
LEMMA KeysNext ==
    KeysSound(keys) /\ [Next]_vars => KeysSound(keys)' /\ [Stacks!Next]_Stacks!vars
  <1> SUFFICES ASSUME KeysSound(keys), [Next]_vars
               PROVE  KeysSound(keys') /\ [Stacks!Next]_Stacks!vars
    BY DEF KeysSound
  <1>1. CASE UNCHANGED vars
    BY <1>1 DEF vars, Stacks!vars
  <1>2. CASE PushKeyboardMode
    BY <1>2, PushStep DEF Stacks!Next
  <1>3. CASE PopKeyboardModes
    BY <1>3, PopStep DEF Stacks!Next
  <1>4. CASE SetKeyboardMode
    BY <1>4, SetStep DEF Stacks!Next
  <1>5. CASE SwapAlt
    BY <1>5, SwapStep DEF Stacks!Next
  <1>6. CASE ResetState
    BY <1>6, ResetStep DEF Stacks!Next
  <1>7. CASE ~(PushKeyboardMode \/ PopKeyboardModes \/ SetKeyboardMode \/ SwapAlt \/ ResetState)
             /\ Next
    BY <1>7, PrintingKeys, MovingKeys, ErasingKeys DEF Next, Stacks!Next
  <1> QED
    BY <1>1, <1>2, <1>3, <1>4, <1>5, <1>6, <1>7

(* The two rings, their indices and their swaps implement the two stacks   *)
(* of the keyboard protocol, for every ring size, every set of flags and   *)
(* every number of modes popped.                                           *)
THEOREM KeyStackCorrect == Spec => KeyStackSpec
  BY KeysInit, KeysNext, PTL DEF Spec, KeyStackSpec, Stacks!Spec

(* A push puts its mode at the new top; popping all leaves empty stacks. *)
LEMMA PushTop ==
    ASSUME KeysSound(keys), NEW m \in SUBSET KeyFlags
    PROVE  TopMode(push_keyboard_mode(keys, m)) = m
  <1>1. PICK stack, idx, up : stack = keys.stack /\ idx = keys.idx /\ up = (idx + 1) % DEPTH
    OBVIOUS
  <1>2. PICK x, y : x = keys.inactive_stack /\ y = keys.inactive_idx
    OBVIOUS
  <1>3. keys = [stack |-> stack, idx |-> idx, inactive_stack |-> x, inactive_idx |-> y]
    BY <1>1, <1>2 DEF KeysSound
  <1>4. stack \in Rings /\ idx \in 0 .. DEPTH - 1
    BY <1>1 DEF KeysSound
  <1>5. up \in 0 .. DEPTH - 1
    BY <1>1, <1>4, CrosswordsAssumption
  <1>6. PICK r, new : r = push_keyboard_mode(keys, m) /\ new = [stack EXCEPT ![up] = m]
    OBVIOUS
  <1>7. r = [keys EXCEPT !.stack = new, !.idx = up]
    <2>1. [keys EXCEPT !.idx = up, !.stack[up] = m] = [keys EXCEPT !.stack = [keys.stack EXCEPT ![up] = m], !.idx = up]
      BY <1>3
    <2> QED
      BY <1>1, <1>6, <2>1 DEF push_keyboard_mode
  <1>8. r = [stack |-> new, idx |-> up, inactive_stack |-> x, inactive_idx |-> y]
    BY ONLY <1>3, <1>7, WithTop
  <1> QED
    BY <1>4, <1>5, <1>6, <1>8 DEF TopMode, Rings

LEMMA PopAllTop ==
    ASSUME KeysSound(keys), NEW n \in Nat, n >= DEPTH
    PROVE  TopMode(pop_keyboard_modes(keys, n)) = {}
  <1>1. 0 \in 0 .. DEPTH - 1
    BY CrosswordsAssumption
  <1>2. pop_keyboard_modes(keys, n)
            = [stack |-> EmptyStack, idx |-> 0,
               inactive_stack |-> keys.inactive_stack, inactive_idx |-> keys.inactive_idx]
    BY DEF pop_keyboard_modes, KeysSound
  <1> QED
    BY <1>1, <1>2 DEF TopMode, EmptyStack

(* Every keyboard sequence brings the bits in line with the top; all other *)
(* steps leave both alone or exchange the two tops.                        *)
LEMMA KeyModeNext ==
    ASSUME KeysSound(keys), KeyModeOfAScreen, [Next]_vars
    PROVE  KeyModeOfAScreen'
  <1>1. CASE UNCHANGED vars
    BY <1>1 DEF vars, KeyModeOfAScreen, TopMode
  <1>2. CASE PushKeyboardMode
    <2>1. PICK m \in SUBSET KeyFlags : keys' = push_keyboard_mode(keys, m) /\ key_mode' = m
      BY <1>2 DEF PushKeyboardMode, KeyboardMode
    <2> QED
      BY <2>1, PushTop DEF KeyModeOfAScreen, TopMode
  <1>3. CASE PopKeyboardModes
    <2>1. PICK n \in Counts :
              /\ keys' = pop_keyboard_modes(keys, n)
              /\ key_mode' = IF n >= DEPTH THEN {} ELSE TopMode(pop_keyboard_modes(keys, n))
      BY <1>3 DEF PopKeyboardModes, KeyboardMode
    <2>2. n \in Nat /\ DEPTH \in Nat
      BY SizesAssumption, CrosswordsAssumption DEF Counts
    <2> QED
      BY <2>1, <2>2, PopAllTop DEF KeyModeOfAScreen, TopMode
  <1>4. CASE SetKeyboardMode
    BY <1>4 DEF SetKeyboardMode, KeyboardMode, KeyModeOfAScreen, TopMode
  <1>5. CASE SwapAlt
    <2>1. key_mode' = key_mode /\ (keys' = keys \/ keys' = SwapStacks(keys))
      BY <1>5 DEF SwapAlt
    <2> QED
      BY <2>1 DEF SwapStacks, KeyModeOfAScreen, TopMode
  <1>6. CASE ResetState
    <2>1. key_mode' = {} /\ keys' = NewStacks
      BY <1>6 DEF ResetState
    <2>2. 0 \in 0 .. DEPTH - 1
      BY CrosswordsAssumption
    <2> QED
      BY <2>1, <2>2 DEF NewStacks, EmptyStack, KeyModeOfAScreen, TopMode
  <1>7. CASE ~(PushKeyboardMode \/ PopKeyboardModes \/ SetKeyboardMode \/ SwapAlt \/ ResetState)
             /\ Next
    <2>1. KeysUntouched
      BY <1>7, PrintingKeys, MovingKeys, ErasingKeys DEF Next
    <2> QED
      BY <2>1 DEF KeysUntouched, KeyModeOfAScreen, TopMode
  <1> QED
    BY <1>1, <1>2, <1>3, <1>4, <1>5, <1>6, <1>7

(* The bits of the mode that decide how keys are encoded are always those  *)
(* of the top of one screen's stack.                                       *)
THEOREM KeyModeCorrect == Spec => []KeyModeOfAScreen
  <1>1. Init => KeysSound(keys) /\ KeyModeOfAScreen
    <2>1. Init => key_mode = {} /\ keys = NewStacks
      BY DEF Init
    <2>2. 0 \in 0 .. DEPTH - 1
      BY CrosswordsAssumption
    <2>3. key_mode = {} /\ keys = NewStacks => KeyModeOfAScreen
      BY <2>2 DEF NewStacks, EmptyStack, KeyModeOfAScreen, TopMode
    <2> QED
      BY <2>1, <2>3, KeysInit
  <1>2. KeysSound(keys) /\ KeyModeOfAScreen /\ [Next]_vars => KeysSound(keys)' /\ KeyModeOfAScreen'
    BY KeysNext, KeyModeNext
  <1> QED
    BY <1>1, <1>2, PTL DEF Spec
-----------------------------------------------------------------------------
(* Lists.  Nothing below depends on what a cell holds, so lists are not    *)
(* typed: a list of length n is any function on 1 .. n.                    *)

Spans(s, n) == s = [i \in 1 .. n |-> s[i]]

(* Such a function is a sequence of its own values. *)
LEMMA SpanSeq ==
    ASSUME NEW n \in Nat, NEW s, Spans(s, n)
    PROVE  /\ s \in Seq({s[i] : i \in 1 .. n})
           /\ Len(s) = n
           /\ DOMAIN s = 1 .. n
  <1> DEFINE S == {s[i] : i \in 1 .. n}
  <1>1. \A i \in 1 .. n : s[i] \in S
    OBVIOUS
  <1> HIDE DEF S
  <1>2. s \in [1 .. n -> S]
    BY <1>1 DEF Spans
  <1>3. s \in Seq(S)
    BY <1>2, SeqDef
  <1>4. DOMAIN s = 1 .. n
    BY DEF Spans
  <1>5. Len(s) = n
    <2>1. Len(s) \in Nat /\ DOMAIN s = 1 .. Len(s)
      BY ONLY <1>3, LenProperties
    <2> QED
      BY <1>4, <2>1
  <1> QED
    BY <1>3, <1>4, <1>5 DEF S

(* The other way round. *)
LEMMA SeqSpan ==
    ASSUME NEW S, NEW s \in Seq(S)
    PROVE  Spans(s, Len(s)) /\ Len(s) \in Nat
  <1>1. Len(s) \in Nat /\ s \in [1 .. Len(s) -> S]
    BY LenProperties
  <1> QED
    BY <1>1 DEF Spans

(* u has the n values of s and behind them the m values of t. *)
Joined(u, s, n, t, m) ==
    /\ Spans(u, n + m)
    /\ \A i \in 1 .. n : u[i] = s[i]
    /\ \A i \in 1 .. m : u[n + i] = t[i]

(* Two lists, one behind the other. *)
LEMMA SpanConcat ==
    ASSUME NEW n \in Nat, NEW s, Spans(s, n), NEW m \in Nat, NEW t, Spans(t, m)
    PROVE  Joined(s \o t, s, n, t, m)
  <1>1. PICK S, T : S = {s[i] : i \in 1 .. n} /\ T = {t[i] : i \in 1 .. m}
    OBVIOUS
  <1>2. /\ s \in Seq(S) /\ Len(s) = n
        /\ t \in Seq(T) /\ Len(t) = m
    BY <1>1, SpanSeq
  <1>3. PICK U : U = S \cup T
    OBVIOUS
  <1>4. s \in Seq(U) /\ t \in Seq(U)
    BY <1>2, <1>3, SeqMonotonic
  <1>5. /\ s \o t \in Seq(U)
        /\ Len(s \o t) = n + m
        /\ \A i \in 1 .. n + m : (s \o t)[i] = IF i <= n THEN s[i] ELSE t[i - n]
    <2>1. /\ s \o t \in Seq(U)
          /\ Len(s \o t) = Len(s) + Len(t)
          /\ \A i \in 1 .. Len(s) + Len(t) : (s \o t)[i] = IF i <= Len(s) THEN s[i] ELSE t[i - Len(s)]
      BY ONLY <1>4, ConcatProperties
    <2> QED
      BY <1>2, <2>1
  <1>6. Spans(s \o t, n + m)
    BY <1>5, SeqSpan
  <1>7. \A i \in 1 .. n : (s \o t)[i] = s[i]
    BY <1>5
  <1>8. ASSUME NEW i \in 1 .. m PROVE (s \o t)[n + i] = t[i]
    <2>1. PICK j : j = n + i
      OBVIOUS
    <2>2. j \in 1 .. n + m /\ ~(j <= n) /\ j - n = i
      BY <2>1
    <2> QED
      BY <1>5, <2>1, <2>2
  <1> QED
    BY <1>6, <1>7, <1>8 DEF Joined

(* u has the n values of s from index a on. *)
Part(u, s, a, n) == Spans(u, n) /\ \A i \in 1 .. n : u[i] = s[a + i - 1]

(* A part of a list. *)
LEMMA SpanSub ==
    ASSUME NEW n \in Nat, NEW s, Spans(s, n), NEW a \in Int, NEW b \in Int,
           1 <= a, b <= n, a <= b + 1
    PROVE  Part(SubSeq(s, a, b), s, a, b - a + 1)
  <1>1. PICK S : S = {s[i] : i \in 1 .. n}
    OBVIOUS
  <1>2. \A i \in a .. b : s[i] \in S
    BY <1>1
  <1>3. PICK t : t = SubSeq(s, a, b)
    OBVIOUS
  <1>4. /\ t \in Seq(S)
        /\ Len(t) = IF a <= b THEN b - a + 1 ELSE 0
        /\ \A i \in 1 .. b - a + 1 : t[i] = s[a + i - 1]
    BY ONLY <1>2, <1>3, SubSeqProperties, a \in Int, b \in Int
  <1>5. Len(t) = b - a + 1
    BY <1>4
  <1>6. Spans(t, Len(t))
    BY ONLY <1>4, SeqSpan
  <1> QED
    BY <1>3, <1>4, <1>5, <1>6 DEF Part

(* A list with an element more, *)
LEMMA SpanAppend ==
    ASSUME NEW n \in Nat, NEW s, Spans(s, n), NEW e
    PROVE  Joined(Append(s, e), s, n, <<e>>, 1)
  <1>1. PICK S, T : S = {s[i] : i \in 1 .. n} /\ T = S \cup {e}
    OBVIOUS
  <1>2. s \in Seq(S) /\ Len(s) = n
    BY <1>1, SpanSeq
  <1>3. s \in Seq(T) /\ e \in T
    BY <1>1, <1>2, SeqMonotonic
  <1>4. PICK t : t = Append(s, e)
    OBVIOUS
  <1>5. /\ t \in Seq(T) /\ Len(t) = n + 1
        /\ \A i \in 1 .. n : t[i] = s[i]
        /\ t[n + 1] = e
    BY ONLY <1>2, <1>3, <1>4, AppendProperties
  <1>6. Spans(t, n + 1)
    BY ONLY <1>5, SeqSpan
  <1> QED
    BY <1>4, <1>5, <1>6 DEF Joined

(* with one less, *)
LEMMA SpanFront ==
    ASSUME NEW n \in Nat, NEW s, Spans(s, n), n >= 1
    PROVE  /\ Spans(Front(s), n - 1)
           /\ \A i \in 1 .. n - 1 : Front(s)[i] = s[i]
           /\ Last(s) = s[n]
  <1>1. Len(s) = n
    BY SpanSeq
  <1>2. Last(s) = s[n] /\ Front(s) = SubSeq(s, 1, n - 1)
    BY <1>1 DEF Last, Front
  <1>3. PICK a, b : a = 1 /\ b = n - 1
    OBVIOUS
  <1>4. /\ a \in Int /\ b \in Int /\ 1 <= a /\ b <= n /\ a <= b + 1
        /\ b - a + 1 = n - 1 /\ \A i \in 1 .. n - 1 : a + i - 1 = i
    BY <1>3
  <1>5. Part(SubSeq(s, a, b), s, a, b - a + 1)
    BY ONLY <1>4, SpanSub, n \in Nat, Spans(s, n)
  <1> QED
    BY <1>2, <1>3, <1>4, <1>5 DEF Part

(* u has the n values of s but for e at index j, if that is one. *)
Changed(u, s, n, j, e) == Spans(u, n) /\ \A i \in 1 .. n : u[i] = IF i = j THEN e ELSE s[i]

(* and with one replaced; replacing outside the list changes nothing. *)
LEMMA SpanExcept ==
    ASSUME NEW n \in Nat, NEW s, Spans(s, n), NEW j, NEW e
    PROVE  Changed([s EXCEPT ![j] = e], s, n, j, e)
  <1>1. DOMAIN s = 1 .. n
    BY DEF Spans
  <1>2. [s EXCEPT ![j] = e] = [i \in DOMAIN s |-> IF i = j THEN e ELSE s[i]]
    OBVIOUS
  <1>3. PICK t : t = [s EXCEPT ![j] = e]
    OBVIOUS
  <1>4. t = [i \in 1 .. n |-> IF i = j THEN e ELSE s[i]]
    BY <1>1, <1>2, <1>3
  <1>5. Spans(t, n)
    BY <1>4 DEF Spans
  <1> QED
    BY <1>3, <1>4, <1>5 DEF Changed

(* A function on the positions is a list. *)
LEMMA SpanSequence ==
    ASSUME NEW n \in Nat, NEW s, Spans(s, n)
    PROVE  Sequence(s) = s
  <1>1. s \in Seq({s[i] : i \in 1 .. n})
    BY SpanSeq
  <1>2. <<>> \o s = s
    BY ONLY <1>1, ConcatEmptySeq
  <1> QED
    BY <1>2 DEF Sequence

(* A list turned round. *)
LEMMA SpanReverse ==
    ASSUME NEW n \in Nat, NEW s, Spans(s, n)
    PROVE  Spans(Reverse(s), n)
  <1>1. Len(s) = n
    BY SpanSeq
  <1>2. Reverse(s) = [i \in 1 .. n |-> s[(n - i) + 1]]
    BY <1>1 DEF Reverse
  <1> QED
    BY <1>2 DEF Spans

-----------------------------------------------------------------------------
(* Rows whose number of cells is in W, and lists of n of them.             *)

IsRow(r, W) ==
    /\ r = [cells |-> r.cells, dirty |-> r.dirty] /\ r.dirty \in BOOLEAN
    /\ Len(r.cells) \in W /\ Spans(r.cells, Len(r.cells))

IsRows(list, n, W) == Spans(list, n) /\ \A i \in 1 .. n : IsRow(list[i], W)

(* A row of written cells is dirty and has their number. *)
LEMMA RowDirty ==
    ASSUME NEW n \in Nat, NEW W, n \in W, NEW cells, Spans(cells, n)
    PROVE  /\ IsRow(Dirty(cells), W)
           /\ Dirty(cells).dirty = TRUE
           /\ Dirty(cells).cells = cells
  <1>1. Len(cells) = n
    BY SpanSeq
  <1>2. Dirty(cells).cells = cells /\ Dirty(cells).dirty = TRUE
    BY DEF Dirty
  <1>3. Dirty(cells) = [cells |-> Dirty(cells).cells, dirty |-> Dirty(cells).dirty]
    BY DEF Dirty
  <1> QED
    BY <1>1, <1>2, <1>3 DEF IsRow

(* Lists of rows stay lists of rows when they are joined, *)
LEMMA RowsConcat ==
    ASSUME NEW W, NEW n \in Nat, NEW s, IsRows(s, n, W), NEW m \in Nat, NEW t, IsRows(t, m, W)
    PROVE  IsRows(s \o t, n + m, W) /\ Joined(s \o t, s, n, t, m)
  <1>1. Joined(s \o t, s, n, t, m)
    <2>1. Spans(s, n) /\ Spans(t, m)
      BY DEF IsRows
    <2> QED
      BY ONLY <2>1, SpanConcat, n \in Nat, m \in Nat
  <1>2. PICK u : u = s \o t
    OBVIOUS
  <1>3. Joined(u, s, n, t, m)
    BY <1>1, <1>2
  <1>4. ASSUME NEW i \in 1 .. n + m PROVE IsRow(u[i], W)
    <2>1. CASE i <= n
      <3>1. i \in 1 .. n
        BY <2>1
      <3> QED
        BY <1>3, <3>1 DEF IsRows, Joined
    <2>2. CASE ~(i <= n)
      <3>1. PICK j : j = i - n
        OBVIOUS
      <3>2. j \in 1 .. m /\ n + j = i
        BY <2>2, <3>1
      <3>3. u[n + j] = t[j]
        BY <1>3, <3>2 DEF Joined
      <3> QED
        BY <3>2, <3>3 DEF IsRows
    <2> QED
      BY <2>1, <2>2
  <1>5. IsRows(u, n + m, W)
    BY <1>3, <1>4 DEF IsRows, Joined
  <1> QED
    BY <1>1, <1>2, <1>5

(* cut, *)
LEMMA RowsSub ==
    ASSUME NEW W, NEW n \in Nat, NEW s, IsRows(s, n, W), NEW a \in Int, NEW b \in Int,
           1 <= a, b <= n, a <= b + 1
    PROVE  IsRows(SubSeq(s, a, b), b - a + 1, W) /\ Part(SubSeq(s, a, b), s, a, b - a + 1)
  <1>1. PICK u, m : u = SubSeq(s, a, b) /\ m = b - a + 1
    OBVIOUS
  <1>2. Part(u, s, a, m)
    <2>1. Spans(s, n)
      BY DEF IsRows
    <2>2. Part(SubSeq(s, a, b), s, a, b - a + 1)
      BY ONLY <2>1, SpanSub, n \in Nat, a \in Int, b \in Int, 1 <= a, b <= n, a <= b + 1
    <2> QED
      BY <1>1, <2>2
  <1>3. ASSUME NEW i \in 1 .. m PROVE IsRow(u[i], W)
    <2>1. PICK j : j = a + i - 1
      OBVIOUS
    <2>2. j \in 1 .. n
      BY <1>1, <2>1
    <2>3. u[i] = s[j]
      BY <1>2, <2>1 DEF Part
    <2> QED
      BY <2>2, <2>3 DEF IsRows
  <1>4. IsRows(u, m, W)
    BY <1>2, <1>3 DEF IsRows, Part
  <1> QED
    BY <1>1, <1>2, <1>4

(* extended, *)
LEMMA RowsAppend ==
    ASSUME NEW W, NEW n \in Nat, NEW s, IsRows(s, n, W), NEW r, IsRow(r, W)
    PROVE  IsRows(Append(s, r), n + 1, W)
  <1>1. PICK u : u = Append(s, r)
    OBVIOUS
  <1>2. Joined(u, s, n, <<r>>, 1)
    <2>1. Spans(s, n)
      BY DEF IsRows
    <2> QED
      BY ONLY <1>1, <2>1, SpanAppend, n \in Nat
  <1>3. u[n + 1] = r
    BY <1>2 DEF Joined
  <1>4. ASSUME NEW i \in 1 .. n + 1 PROVE IsRow(u[i], W)
    <2>1. CASE i = n + 1
      BY <1>3, <2>1
    <2>2. CASE i # n + 1
      <3>1. i \in 1 .. n
        BY <2>2
      <3> QED
        BY <1>2, <3>1 DEF IsRows, Joined
    <2> QED
      BY <2>1, <2>2
  <1> QED
    BY <1>1, <1>2, <1>4 DEF IsRows, Joined

(* shortened, *)
LEMMA RowsFront ==
    ASSUME NEW W, NEW n \in Nat, NEW s, IsRows(s, n, W), n >= 1
    PROVE  /\ IsRows(Front(s), n - 1, W)
           /\ Last(s) = s[n] /\ IsRow(Last(s), W)
  <1>1. /\ Spans(Front(s), n - 1)
        /\ \A i \in 1 .. n - 1 : Front(s)[i] = s[i]
        /\ Last(s) = s[n]
    <2>1. Spans(s, n)
      BY DEF IsRows
    <2> QED
      BY ONLY <2>1, SpanFront, n \in Nat, n >= 1
  <1>2. \A i \in 1 .. n - 1 : i \in 1 .. n
    OBVIOUS
  <1>3. n \in 1 .. n
    OBVIOUS
  <1> QED
    BY <1>1, <1>2, <1>3 DEF IsRows

(* and changed in one place. *)
LEMMA RowsExcept ==
    ASSUME NEW W, NEW n \in Nat, NEW s, IsRows(s, n, W), NEW j, NEW r, IsRow(r, W)
    PROVE  IsRows([s EXCEPT ![j] = r], n, W) /\ Changed([s EXCEPT ![j] = r], s, n, j, r)
  <1>1. PICK u : u = [s EXCEPT ![j] = r]
    OBVIOUS
  <1>2. Changed(u, s, n, j, r)
    <2>1. Spans(s, n)
      BY DEF IsRows
    <2> QED
      BY ONLY <1>1, <2>1, SpanExcept, n \in Nat
  <1>3. ASSUME NEW i \in 1 .. n PROVE IsRow(u[i], W)
    BY <1>2 DEF IsRows, Changed
  <1>4. IsRows(u, n, W)
    BY <1>2, <1>3 DEF IsRows, Changed
  <1> QED
    BY <1>1, <1>2, <1>4

(* A row of one cell, repeated. *)
LEMMA FilledRow ==
    ASSUME NEW columns \in Nat, NEW cell
    PROVE  IsRow(Filled(cell, columns), {columns}) /\ Filled(cell, columns).dirty = TRUE
  <1>1. PICK s : s = [c \in 1 .. columns |-> cell]
    OBVIOUS
  <1>2. Spans(s, columns)
    BY <1>1 DEF Spans
  <1>3. Sequence(s) = s
    BY <1>2, SpanSequence
  <1>4. Filled(cell, columns) = Dirty(s)
    BY <1>1, <1>3 DEF Filled
  <1>5. columns \in {columns}
    OBVIOUS
  <1> QED
    BY <1>2, <1>4, <1>5, RowDirty

(* Blank rows have the width of the screen and are dirty. *)
LEMMA BlankRows ==
    ASSUME NEW n \in Nat, NEW columns \in Nat
    PROVE  /\ IsRows(Blanks(n, columns), n, {columns})
           /\ \A i \in 1 .. n : Blanks(n, columns)[i].dirty = TRUE
  <1>1. PICK s : s = [i \in 1 .. n |-> Filled(Empty, columns)]
    OBVIOUS
  <1>2. Spans(s, n)
    BY <1>1 DEF Spans
  <1>3. Blanks(n, columns) = s
    BY <1>1, <1>2, SpanSequence DEF Blanks
  <1>4. \A i \in 1 .. n : s[i] = Filled(Empty, columns)
    BY <1>1
  <1> QED
    BY <1>2, <1>3, <1>4, FilledRow DEF IsRows

(* Marking rows dirty keeps their cells. *)
LEMMA AllDirtyRows ==
    ASSUME NEW n \in Nat, NEW W, W \subseteq Nat, NEW s, IsRows(s, n, W)
    PROVE  /\ IsRows(AllDirty(s), n, W)
           /\ \A i \in 1 .. n : AllDirty(s)[i].dirty = TRUE
  <1>1. PICK t : t = [i \in 1 .. n |-> Dirty(s[i].cells)]
    OBVIOUS
  <1>2. DOMAIN s = 1 .. n
    BY DEF IsRows, Spans
  <1>3. Spans(t, n)
    BY <1>1 DEF Spans
  <1>4. AllDirty(s) = t
    BY <1>1, <1>2, <1>3, SpanSequence DEF AllDirty
  <1>5. ASSUME NEW i \in 1 .. n PROVE IsRow(t[i], W) /\ t[i].dirty = TRUE
    <2>1. t[i] = Dirty(s[i].cells)
      BY <1>1
    <2>2. PICK k, c : k = Len(s[i].cells) /\ c = s[i].cells
      OBVIOUS
    <2>3. k \in Nat /\ k \in W /\ Spans(c, k)
      BY <2>2 DEF IsRows, IsRow
    <2> QED
      BY <2>1, <2>2, <2>3, RowDirty
  <1> QED
    BY <1>3, <1>4, <1>5 DEF IsRows

(* The newest rows, and which they are. *)
LEMMA NewestRows ==
    ASSUME NEW W, NEW n \in Nat, NEW s, IsRows(s, n, W), NEW limit \in Nat,
           NEW size, size = AtMost(n, limit), NEW first, first = n - size + 1
    PROVE  IsRows(Newest(s, limit), size, W) /\ Part(Newest(s, limit), s, first, size)
  <1>1. Len(s) = n
    BY SpanSeq DEF IsRows
  <1>2. CASE n <= limit
    <2>1. size = n /\ Newest(s, limit) = s /\ first = 1
      BY <1>1, <1>2 DEF AtMost, Newest
    <2>2. \A i \in 1 .. n : 1 + i - 1 = i
      OBVIOUS
    <2> QED
      BY <2>1, <2>2 DEF IsRows, Part
  <1>3. CASE ~(n <= limit)
    <2>1. size = limit
      BY <1>3 DEF AtMost
    <2>2. /\ first \in Int /\ n \in Int /\ 1 <= first /\ n <= n /\ first <= n + 1
          /\ n - first + 1 = size
      BY <1>3, <2>1
    <2>3. IsRows(SubSeq(s, first, n), n - first + 1, W) /\ Part(SubSeq(s, first, n), s, first, n - first + 1)
      BY ONLY <2>2, RowsSub, n \in Nat, IsRows(s, n, W)
    <2>4. Newest(s, limit) = SubSeq(s, first, n)
      BY <1>1, <1>3, <2>1 DEF Newest
    <2> QED
      BY <2>2, <2>3, <2>4
  <1> QED
    BY <1>2, <1>3

-----------------------------------------------------------------------------
(* Grids. *)

(* A grid of so many lines and columns; the history holds any number of    *)
(* rows of the same width.                                                 *)
Shape(g, lines, columns) ==
    /\ g = [screen |-> g.screen, history |-> g.history, offset |-> g.offset, limit |-> g.limit]
    /\ g.offset \in Nat /\ g.limit \in Nat
    /\ IsRows(g.screen, lines, {columns})
    /\ HistorySize(g) \in Nat /\ IsRows(g.history, HistorySize(g), {columns})

(* Every row of the view is dirty or as it was. *)
Keeps(g, h, lines) ==
    \A y \in 0 .. lines - 1 : ViewRow(h, y).dirty = TRUE \/ ViewRow(h, y) = ViewRow(g, y)

(* What changed in the view stays dirty over two steps. *)
LEMMA KeepsTrans ==
    ASSUME NEW lines, NEW f, NEW g, NEW h, Keeps(f, g, lines), Keeps(g, h, lines)
    PROVE  Keeps(f, h, lines)
  BY DEF Keeps

(* A grid that is left alone keeps its view. *)
LEMMA KeepsSame ==
    ASSUME NEW lines, NEW g
    PROVE  Keeps(g, g, lines)
  BY DEF Keeps

(* Rows are dirty or as they were, and the view has not moved. *)
LEMMA KeepsRows ==
    ASSUME NEW lines \in Nat, NEW g, NEW h, NEW m \in Nat,
           HistorySize(g) = m, HistorySize(h) = m, g.offset \in Nat, h.offset = g.offset,
           \A i \in 1 .. lines : h.screen[i].dirty = TRUE \/ h.screen[i] = g.screen[i],
           \A i \in 1 .. m : h.history[i].dirty = TRUE \/ h.history[i] = g.history[i]
    PROVE  Keeps(g, h, lines)
  <1> SUFFICES ASSUME NEW y \in 0 .. lines - 1
               PROVE  ViewRow(h, y).dirty = TRUE \/ ViewRow(h, y) = ViewRow(g, y)
    BY DEF Keeps
  <1>1. PICK line : line = y - g.offset
    OBVIOUS
  <1>2. line \in Int /\ line <= lines - 1
    BY <1>1
  <1>3. CASE line >= 0
    <2>1. line + 1 \in 1 .. lines
      BY <1>2, <1>3
    <2>2. ViewRow(h, y) = h.screen[line + 1] /\ ViewRow(g, y) = g.screen[line + 1]
      BY <1>1, <1>3 DEF ViewRow
    <2> QED
      BY <2>1, <2>2
  <1>4. CASE line < 0 /\ -line <= m
    <2>1. PICK j : j = m + line + 1
      OBVIOUS
    <2>2. j \in 1 .. m
      BY <1>2, <1>4, <2>1
    <2>3. ViewRow(h, y) = h.history[j] /\ ViewRow(g, y) = g.history[j]
      BY <1>1, <1>2, <1>4, <2>1 DEF ViewRow
    <2> QED
      BY <2>2, <2>3
  <1>5. CASE ~(line >= 0) /\ ~(line < 0 /\ -line <= m)
    BY <1>1, <1>2, <1>5 DEF ViewRow
  <1> QED
    BY <1>3, <1>4, <1>5

(* What a shape gives. *)
LEMMA ShapeFacts ==
    ASSUME NEW lines \in Nat, lines >= 1, NEW columns \in Nat, NEW g, Shape(g, lines, columns)
    PROVE  /\ Lines(g) = lines
           /\ Columns(g) = columns
           /\ HistorySize(g) \in Nat /\ g.offset \in Nat /\ g.limit \in Nat
  <1>1. Lines(g) = lines
    <2>1. Spans(g.screen, lines)
      BY DEF Shape, IsRows
    <2> QED
      BY <2>1, SpanSeq DEF Lines
  <1>2. 1 \in 1 .. lines
    OBVIOUS
  <1>3. IsRow(g.screen[1], {columns})
    BY <1>2 DEF Shape, IsRows
  <1>4. Columns(g) = columns
    BY <1>3 DEF IsRow, Columns
  <1> QED
    BY <1>1, <1>4 DEF Shape

(* A grid from its parts. *)
LEMMA MakeShape ==
    ASSUME NEW lines, NEW columns, NEW screen, NEW history, NEW offset \in Nat, NEW limit \in Nat,
           IsRows(screen, lines, {columns}), NEW m \in Nat, IsRows(history, m, {columns}),
           NEW g, g = [screen |-> screen, history |-> history, offset |-> offset, limit |-> limit]
    PROVE  Shape(g, lines, columns) /\ HistorySize(g) = m
  <1>1. g.screen = screen /\ g.history = history /\ g.offset = offset /\ g.limit = limit
    OBVIOUS
  <1>2. HistorySize(g) = m
    BY <1>1, SpanSeq DEF HistorySize, IsRows
  <1> QED
    BY <1>1, <1>2 DEF Shape

(* h is g with other rows, all of them dirty, in the lines start to end.   *)
Redrawn(h, g, lines, start, end) ==
    /\ h.history = g.history /\ h.offset = g.offset /\ h.limit = g.limit
    /\ \A i \in 1 .. lines :
            IF start < i /\ i <= end THEN h.screen[i].dirty = TRUE ELSE h.screen[i] = g.screen[i]

(* New rows in a region of the screen keep the shape, and the other rows stay. *)
LEMMA RegionShape ==
    ASSUME NEW lines \in Nat, lines >= 1, NEW columns \in Nat, NEW g, Shape(g, lines, columns),
           NEW start \in Nat, NEW end \in Nat, start <= end, end <= lines,
           NEW list, IsRows(list, end - start, {columns})
    PROVE  /\ Shape(WithRegion(g, start, end, list), lines, columns)
           /\ Redrawn(WithRegion(g, start, end, list), g, lines, start, end)
  <1>1. PICK W, n : W = {columns} /\ n = end - start
    OBVIOUS
  <1>2. W \subseteq Nat /\ n \in Nat /\ IsRows(list, n, W) /\ IsRows(g.screen, lines, W)
    BY <1>1 DEF Shape
  <1>3. PICK a : a = SubSeq(g.screen, 1, start)
    OBVIOUS
  <1>4. PICK b : b = AllDirty(list)
    OBVIOUS
  <1>5. PICK c : c = SubSeq(g.screen, end + 1, lines)
    OBVIOUS
  <1>6. IsRows(a, start, W) /\ \A i \in 1 .. start : a[i] = g.screen[i]
    <2>1. PICK x, y : x = 1 /\ y = start
      OBVIOUS
    <2>2. x \in Int /\ y \in Int /\ 1 <= x /\ y <= lines /\ x <= y + 1 /\ y - x + 1 = start
      BY <2>1
    <2>3. PICK s : s = g.screen
      OBVIOUS
    <2>4. IsRows(SubSeq(s, x, y), y - x + 1, W) /\ Part(SubSeq(s, x, y), s, x, y - x + 1)
      BY ONLY <1>2, <2>2, <2>3, RowsSub, lines \in Nat
    <2>5. \A i \in 1 .. start : x + i - 1 = i
      BY <2>1
    <2> QED
      BY <1>3, <2>1, <2>2, <2>3, <2>4, <2>5 DEF Part
  <1>7. IsRows(b, n, W) /\ \A i \in 1 .. n : b[i].dirty = TRUE
    BY ONLY <1>2, <1>4, AllDirtyRows
  <1>8. IsRows(c, lines - end, W) /\ \A i \in 1 .. lines - end : c[i] = g.screen[end + i]
    <2>1. PICK x : x = end + 1
      OBVIOUS
    <2>2. /\ x \in Int /\ lines \in Int /\ 1 <= x /\ lines <= lines /\ x <= lines + 1
          /\ lines - x + 1 = lines - end
      BY <2>1
    <2>3. PICK s : s = g.screen
      OBVIOUS
    <2>4. /\ IsRows(SubSeq(s, x, lines), lines - x + 1, W)
          /\ Part(SubSeq(s, x, lines), s, x, lines - x + 1)
      BY ONLY <1>2, <2>2, <2>3, RowsSub, lines \in Nat
    <2>5. \A i \in 1 .. lines - end : x + i - 1 = end + i
      BY <2>1
    <2> QED
      BY <1>5, <2>1, <2>2, <2>3, <2>4, <2>5 DEF Part
  <1>9. PICK d : d = a \o b
    OBVIOUS
  <1>10. IsRows(d, start + n, W) /\ Joined(d, a, start, b, n)
    BY ONLY <1>2, <1>6, <1>7, <1>9, RowsConcat, start \in Nat
  <1>11. PICK e : e = d \o c
    OBVIOUS
  <1>12. start + n = end /\ lines - end \in Nat /\ end + (lines - end) = lines
    BY <1>1
  <1>13. IsRows(e, lines, W) /\ Joined(e, d, end, c, lines - end)
    <2>1. PICK k : k = lines - end
      OBVIOUS
    <2>2. IsRows(e, end + k, W) /\ Joined(e, d, end, c, k)
      <3>1. k \in Nat /\ IsRows(d, end, W) /\ IsRows(c, k, W)
        BY <1>8, <1>10, <1>12, <2>1
      <3> QED
        BY ONLY <1>11, <3>1, RowsConcat, end \in Nat
    <2>3. end + k = lines
      BY <1>12, <2>1
    <2> QED
      BY <2>1, <2>2, <2>3
  <1>14. PICK h : h = WithRegion(g, start, end, list)
    OBVIOUS
  <1>15. h = [screen |-> e, history |-> g.history, offset |-> g.offset, limit |-> g.limit]
    <2>1. Len(g.screen) = lines
      BY <1>2, SpanSeq DEF IsRows
    <2>2. h = [g EXCEPT !.screen = a \o b \o c]
      BY <1>3, <1>4, <1>5, <1>14, <2>1 DEF WithRegion
    <2>3. h = [g EXCEPT !.screen = e]
      BY <1>9, <1>11, <2>2
    <2> QED
      BY <2>3 DEF Shape
  <1>16. Shape(h, lines, columns)
    <2>1. /\ HistorySize(g) \in Nat /\ IsRows(g.history, HistorySize(g), W)
          /\ g.offset \in Nat /\ g.limit \in Nat
      BY <1>1 DEF Shape
    <2>2. IsRows(g.history, HistorySize(g), {columns}) /\ IsRows(e, lines, {columns})
      BY <1>1, <1>13, <2>1
    <2>3. PICK m, o, l, q : m = HistorySize(g) /\ o = g.offset /\ l = g.limit /\ q = g.history
      OBVIOUS
    <2> QED
      BY ONLY <1>15, <2>1, <2>2, <2>3, MakeShape
  <1>17. ASSUME NEW i \in 1 .. lines
         PROVE  IF start < i /\ i <= end THEN e[i].dirty = TRUE ELSE e[i] = g.screen[i]
    <2>1. CASE i <= start
      <3>1. i \in 1 .. start /\ i \in 1 .. end /\ ~(start < i)
        BY <2>1
      <3>2. e[i] = d[i] /\ d[i] = a[i]
        BY <1>10, <1>13, <3>1 DEF Joined
      <3> QED
        BY <1>6, <3>1, <3>2
    <2>2. CASE start < i /\ i <= end
      <3>1. PICK j : j = i - start
        OBVIOUS
      <3>2. j \in 1 .. n /\ start + j = i /\ i \in 1 .. end
        BY <1>1, <2>2, <3>1
      <3>3. e[i] = d[i] /\ d[start + j] = b[j]
        BY <1>10, <1>13, <3>2 DEF Joined
      <3> QED
        BY <1>7, <2>2, <3>2, <3>3
    <2>3. CASE end < i
      <3>1. PICK j : j = i - end
        OBVIOUS
      <3>2. j \in 1 .. lines - end /\ end + j = i /\ ~(i <= end)
        BY <2>3, <3>1
      <3>3. e[end + j] = c[j]
        BY <1>13, <3>2 DEF Joined
      <3> QED
        BY <1>8, <3>2, <3>3
    <2>4. i \in Int /\ start \in Int /\ end \in Int
      OBVIOUS
    <2>5. i <= start \/ (start < i /\ i <= end) \/ end < i
      BY ONLY <2>4
    <2> QED
      BY <2>1, <2>2, <2>3, <2>5
  <1>18. Redrawn(h, g, lines, start, end)
    BY <1>15, <1>17 DEF Redrawn
  <1> QED
    BY <1>14, <1>16, <1>18

(* Redrawing a region keeps the view. *)
LEMMA RedrawnKeeps ==
    ASSUME NEW lines \in Nat, lines >= 1, NEW columns \in Nat, NEW g, Shape(g, lines, columns),
           NEW start \in Nat, NEW end \in Nat, NEW h, Redrawn(h, g, lines, start, end)
    PROVE  Keeps(g, h, lines)
  <1>1. PICK m : m = HistorySize(g)
    OBVIOUS
  <1>2. m \in Nat /\ HistorySize(g) = m /\ HistorySize(h) = m /\ g.offset \in Nat
        /\ h.offset = g.offset
    BY <1>1 DEF Shape, HistorySize, Redrawn
  <1>3. \A i \in 1 .. lines : h.screen[i].dirty = TRUE \/ h.screen[i] = g.screen[i]
    BY DEF Redrawn
  <1>4. \A i \in 1 .. m : h.history[i].dirty = TRUE \/ h.history[i] = g.history[i]
    BY DEF Redrawn
  <1> QED
    BY ONLY <1>2, <1>3, <1>4, KeepsRows, lines \in Nat

(* Cells of a row, whatever row it is. *)
LEMMA SetRowKeeps ==
    ASSUME NEW lines \in Nat, lines >= 1, NEW columns \in Nat, NEW g, Shape(g, lines, columns),
           NEW j, NEW r, IsRow(r, {columns}), r.dirty = TRUE,
           NEW h, h = [g EXCEPT !.screen[j] = r]
    PROVE  Shape(h, lines, columns) /\ Keeps(g, h, lines)
  <1>1. PICK W, m : W = {columns} /\ m = HistorySize(g)
    OBVIOUS
  <1>2. PICK s : s = g.screen
    OBVIOUS
  <1>3. PICK e : e = [s EXCEPT ![j] = r]
    OBVIOUS
  <1>4. IsRows(s, lines, W) /\ IsRow(r, W)
    BY <1>1, <1>2 DEF Shape
  <1>5. IsRows(e, lines, W) /\ Changed(e, s, lines, j, r)
    BY ONLY <1>3, <1>4, RowsExcept, lines \in Nat
  <1>6. h = [screen |-> e, history |-> g.history, offset |-> g.offset, limit |-> g.limit]
    BY <1>2, <1>3 DEF Shape
  <1>7. /\ m \in Nat /\ IsRows(g.history, m, {columns}) /\ IsRows(e, lines, {columns})
        /\ g.offset \in Nat /\ g.limit \in Nat
    BY <1>1, <1>5 DEF Shape
  <1>8. Shape(h, lines, columns) /\ HistorySize(h) = m
    <2>1. PICK o, l, q : o = g.offset /\ l = g.limit /\ q = g.history
      OBVIOUS
    <2> QED
      BY ONLY <1>6, <1>7, <2>1, MakeShape
  <1>9. \A i \in 1 .. lines : h.screen[i].dirty = TRUE \/ h.screen[i] = g.screen[i]
    BY <1>2, <1>5, <1>6 DEF Changed
  <1>10. \A i \in 1 .. m : h.history[i].dirty = TRUE \/ h.history[i] = g.history[i]
    BY <1>6
  <1>11. HistorySize(g) = m /\ h.offset = g.offset
    BY <1>1, <1>6
  <1> QED
    BY ONLY <1>7, <1>8, <1>9, <1>10, <1>11, KeepsRows, lines \in Nat

(* The same for a row of the history. *)
LEMMA SetHistoryKeeps ==
    ASSUME NEW lines \in Nat, lines >= 1, NEW columns \in Nat, NEW g, Shape(g, lines, columns),
           NEW j, NEW r, IsRow(r, {columns}), r.dirty = TRUE,
           NEW h, h = [g EXCEPT !.history[j] = r]
    PROVE  Shape(h, lines, columns) /\ Keeps(g, h, lines)
  <1>1. PICK W, m : W = {columns} /\ m = HistorySize(g)
    OBVIOUS
  <1>2. PICK s : s = g.history
    OBVIOUS
  <1>3. PICK e : e = [s EXCEPT ![j] = r]
    OBVIOUS
  <1>4. IsRows(s, m, W) /\ IsRow(r, W) /\ m \in Nat
    BY <1>1, <1>2 DEF Shape
  <1>5. IsRows(e, m, W) /\ Changed(e, s, m, j, r)
    BY ONLY <1>3, <1>4, RowsExcept
  <1>6. h = [screen |-> g.screen, history |-> e, offset |-> g.offset, limit |-> g.limit]
    BY <1>2, <1>3 DEF Shape
  <1>7. /\ m \in Nat /\ IsRows(e, m, {columns}) /\ IsRows(g.screen, lines, {columns})
        /\ g.offset \in Nat /\ g.limit \in Nat
    BY <1>1, <1>4, <1>5 DEF Shape
  <1>8. Shape(h, lines, columns) /\ HistorySize(h) = m
    <2>1. PICK o, l, q : o = g.offset /\ l = g.limit /\ q = g.screen
      OBVIOUS
    <2> QED
      BY ONLY <1>6, <1>7, <2>1, MakeShape
  <1>9. \A i \in 1 .. lines : h.screen[i].dirty = TRUE \/ h.screen[i] = g.screen[i]
    BY <1>6
  <1>10. \A i \in 1 .. m : h.history[i].dirty = TRUE \/ h.history[i] = g.history[i]
    BY <1>2, <1>5, <1>6 DEF Changed
  <1>11. HistorySize(g) = m /\ h.offset = g.offset
    BY <1>1, <1>6
  <1> QED
    BY ONLY <1>7, <1>8, <1>9, <1>10, <1>11, KeepsRows, lines \in Nat

(* The rows that scroll down, or up, with blank rows behind them. *)
LEMMA MovedRows ==
    ASSUME NEW lines \in Nat, lines >= 1, NEW columns \in Nat, NEW g, Shape(g, lines, columns),
           NEW a \in Nat, NEW b \in Nat, a <= b, b <= lines, NEW m \in Nat
    PROVE  /\ IsRows(SubSeq(g.screen, a + 1, b) \o Blanks(m, columns), b - a + m, {columns})
           /\ IsRows(Blanks(m, columns) \o SubSeq(g.screen, a + 1, b), m + (b - a), {columns})
           /\ IsRows(SubSeq(g.screen, a + 1, b), b - a, {columns})
           /\ Part(SubSeq(g.screen, a + 1, b), g.screen, a + 1, b - a)
  <1>1. PICK W, s : W = {columns} /\ s = g.screen
    OBVIOUS
  <1>2. PICK x, k : x = a + 1 /\ k = b - a
    OBVIOUS
  <1>3. IsRows(s, lines, W)
    BY <1>1 DEF Shape
  <1>4. x \in Int /\ b \in Int /\ 1 <= x /\ x <= b + 1 /\ b - x + 1 = k /\ k \in Nat
    BY <1>2
  <1>5. PICK t : t = SubSeq(s, x, b)
    OBVIOUS
  <1>6. IsRows(t, k, W) /\ Part(t, s, x, k)
    <2>1. IsRows(SubSeq(s, x, b), b - x + 1, W) /\ Part(SubSeq(s, x, b), s, x, b - x + 1)
      BY ONLY <1>3, <1>4, RowsSub, lines \in Nat, b <= lines
    <2> QED
      BY <1>4, <1>5, <2>1
  <1>7. PICK u : u = Blanks(m, columns)
    OBVIOUS
  <1>8. IsRows(u, m, W)
    BY <1>1, <1>7, BlankRows
  <1>9. IsRows(t \o u, k + m, W)
    BY ONLY <1>4, <1>6, <1>8, RowsConcat, m \in Nat
  <1>10. IsRows(u \o t, m + k, W)
    BY ONLY <1>4, <1>6, <1>8, RowsConcat, m \in Nat
  <1> QED
    BY <1>1, <1>2, <1>5, <1>6, <1>7, <1>9, <1>10

(* A view that follows the output shows what it showed, or dirty rows. *)
LEMMA FollowKeeps ==
    ASSUME NEW lines \in Nat, lines >= 1, NEW columns \in Nat, NEW g, Shape(g, lines, columns),
           NEW end \in Nat, end <= lines, NEW n \in Nat, n <= end,
           g.offset + n <= g.limit, lines - g.offset <= end,
           NEW h, NEW list, NEW both,
           h.offset = g.offset + n,
           \A i \in 1 .. lines : i <= end => h.screen[i].dirty = TRUE,
           Joined(both, g.history, HistorySize(g), list, n),
           \A i \in 1 .. n : list[i] = g.screen[i],
           NEW size, size = AtMost(HistorySize(g) + n, g.limit), HistorySize(h) = size,
           NEW first, first = HistorySize(g) + n - size + 1, Part(h.history, both, first, size)
    PROVE  Keeps(g, h, lines)
  <1> SUFFICES ASSUME NEW y \in 0 .. lines - 1
               PROVE  ViewRow(h, y).dirty = TRUE \/ ViewRow(h, y) = ViewRow(g, y)
    BY DEF Keeps
  <1>1. PICK hist, limit : hist = HistorySize(g) /\ limit = g.limit
    OBVIOUS
  <1>2. hist \in Nat /\ limit \in Nat /\ g.offset \in Nat
    BY <1>1 DEF Shape
  <1>3. PICK old, line : old = y - g.offset /\ line = y - h.offset
    OBVIOUS
  <1>4. old \in Int /\ line = old - n /\ old <= lines - 1
    BY <1>2, <1>3
  <1>5. size \in Nat /\ size <= hist + n /\ (size < hist + n => size = limit)
    BY <1>1, <1>2 DEF AtMost
  <1>6. CASE line >= 0
    <2>1. line + 1 \in 1 .. lines /\ line + 1 <= end
      BY <1>2, <1>3, <1>4, <1>6
    <2>2. ViewRow(h, y) = h.screen[line + 1]
      BY <1>3, <1>4, <1>6 DEF ViewRow
    <2> QED
      BY <2>1, <2>2
  <1>7. CASE line < 0 /\ -line <= size
    <2>1. PICK j : j = size + line + 1
      OBVIOUS
    <2>2. j \in 1 .. size
      BY <1>4, <1>5, <1>7, <2>1
    <2>3. ViewRow(h, y) = h.history[j]
      BY <1>3, <1>4, <1>7, <2>1 DEF ViewRow
    <2>4. PICK k : k = hist + old + 1
      OBVIOUS
    <2>5. h.history[j] = both[k]
      <3>1. first + j - 1 = k
        BY <1>1, <1>2, <1>4, <1>5, <2>1, <2>4
      <3>2. h.history[j] = both[first + j - 1]
        BY <2>2 DEF Part
      <3> QED
        BY <3>1, <3>2
    <2>6. CASE old < 0
      <3>1. k \in 1 .. hist /\ -old <= hist
        BY <1>2, <1>4, <1>5, <1>7, <2>4, <2>6
      <3>2. both[k] = g.history[k]
        BY <1>1, <3>1 DEF Joined
      <3>3. ViewRow(g, y) = g.history[k]
        BY <1>1, <1>3, <1>4, <2>4, <2>6, <3>1 DEF ViewRow
      <3> QED
        BY <2>3, <2>5, <3>2, <3>3
    <2>7. CASE old >= 0
      <3>1. PICK i : i = old + 1
        OBVIOUS
      <3>2. i \in 1 .. n /\ hist + i = k
        BY <1>2, <1>4, <1>7, <2>4, <2>7, <3>1
      <3>3. both[hist + i] = list[i] /\ list[i] = g.screen[i]
        BY <1>1, <3>2 DEF Joined
      <3>4. ViewRow(g, y) = g.screen[i]
        BY <1>3, <1>4, <2>7, <3>1 DEF ViewRow
      <3> QED
        BY <2>3, <2>5, <3>2, <3>3, <3>4
    <2>8. old < 0 \/ old >= 0
      BY <1>4
    <2> QED
      BY ONLY <2>6, <2>7, <2>8
  <1>8. CASE line < 0 /\ ~(-line <= size)
    <2>1. old < 0 /\ ~(-old <= hist)
      <3>1. CASE size = hist + n
        BY <1>2, <1>4, <1>8, <3>1
      <3>2. CASE size # hist + n
        <4>1. size = limit
          BY <1>2, <1>5, <3>2
        <4>2. -line <= limit
          <5>1. g.offset + n <= limit
            BY <1>1
          <5> QED
            BY <1>2, <1>3, <1>4, <5>1
        <4> QED
          BY <1>8, <4>1, <4>2
      <3> QED
        BY <3>1, <3>2
    <2>2. ViewRow(h, y) = NoRow
      BY <1>3, <1>4, <1>8 DEF ViewRow
    <2>3. ViewRow(g, y) = NoRow
      BY <1>1, <1>3, <1>4, <2>1 DEF ViewRow
    <2> QED
      BY <2>2, <2>3
  <1>9. line >= 0 \/ (line < 0 /\ -line <= size) \/ (line < 0 /\ ~(-line <= size))
    BY <1>4, <1>5
  <1> QED
    BY ONLY <1>6, <1>7, <1>8, <1>9

(* Scrolling up keeps the shape; the view shows through if it follows. *)
LEMMA ScrollUpShape ==
    ASSUME NEW lines \in Nat, lines >= 1, NEW columns \in Nat, NEW g, Shape(g, lines, columns),
           NEW start \in Nat, NEW end \in Nat, start <= end, end <= lines, NEW n \in Nat
    PROVE  /\ Shape(scroll_up(g, start, end, n), lines, columns)
           /\ ViewFollows(g, start, end, n) /\ (start = 0 => n <= end /\ end >= 1)
                    => Keeps(g, scroll_up(g, start, end, n), lines)
  <1>1. PICK m : m = AtMost(n, end - start)
    OBVIOUS
  <1>2. m \in Nat /\ m <= end - start /\ m <= n
    BY <1>1 DEF AtMost
  <1>3. PICK list : list = SubSeq(g.screen, start + m + 1, end) \o Blanks(m, columns)
    OBVIOUS
  <1>4. IsRows(list, end - start, {columns})
    <2>1. PICK a : a = start + m
      OBVIOUS
    <2>2. a \in Nat /\ a <= end /\ end - a + m = end - start
      BY <1>2, <2>1
    <2>3. IsRows(SubSeq(g.screen, a + 1, end) \o Blanks(m, columns), end - a + m, {columns})
      BY <1>2, <2>2, MovedRows
    <2> QED
      BY <1>3, <2>1, <2>2, <2>3
  <1>5. PICK moved : moved = WithRegion(g, start, end, list)
    OBVIOUS
  <1>6. Shape(moved, lines, columns) /\ Redrawn(moved, g, lines, start, end)
    BY <1>4, <1>5, RegionShape
  <1>7. Keeps(g, moved, lines)
    BY <1>6, RedrawnKeeps
  <1>8. PICK offset : offset = IF g.offset = 0 THEN 0 ELSE AtMost(g.offset + n, g.limit)
    OBVIOUS
  <1>9. offset \in Nat
    <2>1. g.offset \in Nat /\ g.limit \in Nat
      BY DEF Shape
    <2> QED
      BY <1>8, <2>1 DEF AtMost
  <1>10. PICK h : h = scroll_up(g, start, end, n)
    OBVIOUS
  <1>11. Columns(g) = columns
    BY ShapeFacts
  <1>12. CASE end - start <= n /\ start # 0
    <2>1. h = moved
      BY <1>1, <1>3, <1>5, <1>10, <1>11, <1>12 DEF scroll_up
    <2> QED
      BY <1>6, <1>7, <1>10, <2>1
  <1>13. CASE ~(end - start <= n) /\ start # 0
    <2>1. h = [moved EXCEPT !.offset = offset]
      BY <1>1, <1>3, <1>5, <1>8, <1>10, <1>11, <1>13 DEF scroll_up
    <2>2. h = [screen |-> moved.screen, history |-> moved.history, offset |-> offset,
               limit |-> moved.limit]
      BY <1>6, <2>1 DEF Shape
    <2>3. /\ IsRows(moved.screen, lines, {columns}) /\ moved.limit \in Nat
          /\ HistorySize(moved) \in Nat
          /\ IsRows(moved.history, HistorySize(moved), {columns})
      BY <1>6 DEF Shape
    <2>4. Shape(h, lines, columns)
      <3>1. PICK s, q, l, k : s = moved.screen /\ q = moved.history /\ l = moved.limit
                              /\ k = HistorySize(moved)
        OBVIOUS
      <3> QED
        BY ONLY <1>9, <2>2, <2>3, <3>1, MakeShape
    <2>5. ASSUME ViewFollows(g, start, end, n) PROVE Keeps(g, h, lines)
      <3>1. CASE start = end
        <4>1. end - start <= n
          BY <3>1
        <4> QED
          BY <1>13, <4>1
      <3>2. CASE start # end
        <4>1. g.offset = 0
          BY <1>13, <2>5, <3>2 DEF ViewFollows
        <4>2. moved.offset = 0
          BY <1>6, <4>1 DEF Redrawn
        <4>3. h = moved
          BY <1>6, <1>8, <2>2, <4>1, <4>2 DEF Shape
        <4> QED
          BY <1>7, <4>3
      <3> QED
        BY <3>1, <3>2
    <2> QED
      BY <1>10, <2>4, <2>5
  <1>14. CASE start = 0
    <2>1. PICK list1 : list1 = SubSeq(g.screen, 1, m)
      OBVIOUS
    <2>2. PICK both : both = g.history \o list1
      OBVIOUS
    <2>3. PICK history : history = Newest(both, g.limit)
      OBVIOUS
    <2>4. h = [moved EXCEPT !.offset = offset, !.history = history]
      BY <1>1, <1>3, <1>5, <1>8, <1>10, <1>11, <1>14, <2>1, <2>2, <2>3 DEF scroll_up
    <2>5. h = [screen |-> moved.screen, history |-> history, offset |-> offset,
               limit |-> moved.limit]
      BY <1>6, <2>4 DEF Shape
    <2>6. PICK k, q, l : k = HistorySize(g) /\ q = g.history /\ l = g.limit
      OBVIOUS
    <2>7. k \in Nat /\ l \in Nat /\ IsRows(q, k, {columns})
      BY <2>6 DEF Shape
    <2>8. IsRows(list1, m, {columns}) /\ Part(list1, g.screen, 1, m)
      <3>1. PICK a : a = 0
        OBVIOUS
      <3>2. a \in Nat /\ a <= m /\ m <= lines /\ m - a = m /\ a + 1 = 1
        BY <1>2, <3>1
      <3>3. /\ IsRows(SubSeq(g.screen, a + 1, m), m - a, {columns})
            /\ Part(SubSeq(g.screen, a + 1, m), g.screen, a + 1, m - a)
        BY <1>2, <3>2, MovedRows
      <3> QED
        BY <2>1, <3>2, <3>3
    <2>9. IsRows(both, k + m, {columns}) /\ Joined(both, q, k, list1, m)
      <3>1. both = q \o list1
        BY <2>2, <2>6
      <3>2. PICK W : W = {columns}
        OBVIOUS
      <3>3. IsRows(list1, m, W) /\ IsRows(q, k, W)
        BY <2>7, <2>8, <3>2
      <3>4. IsRows(q \o list1, k + m, W) /\ Joined(q \o list1, q, k, list1, m)
        BY ONLY <1>2, <2>7, <3>3, RowsConcat
      <3> QED
        BY <3>1, <3>2, <3>4
    <2>10. PICK size, t, first : t = k + m /\ size = AtMost(t, l) /\ first = t - size + 1
      OBVIOUS
    <2>11. size \in Nat /\ t \in Nat
      BY <1>2, <2>7, <2>10 DEF AtMost
    <2>12. IsRows(history, size, {columns}) /\ Part(history, both, first, size)
      <3>1. PICK W : W = {columns}
        OBVIOUS
      <3>2. IsRows(both, t, W)
        BY <2>9, <2>10, <3>1
      <3>3. IsRows(Newest(both, l), size, W) /\ Part(Newest(both, l), both, first, size)
        BY ONLY <2>7, <2>10, <2>11, <3>2, NewestRows
      <3>4. Newest(both, l) = history
        BY <2>3, <2>6
      <3> QED
        BY <3>1, <3>3, <3>4
    <2>13. Shape(h, lines, columns) /\ HistorySize(h) = size
      <3>1. PICK s, r : s = moved.screen /\ r = moved.limit
        OBVIOUS
      <3>2. r \in Nat /\ IsRows(s, lines, {columns})
        BY <1>6, <3>1 DEF Shape
      <3> QED
        BY ONLY <1>9, <2>5, <2>11, <2>12, <3>1, <3>2, MakeShape
    <2>14. ASSUME ViewFollows(g, start, end, n), n <= end, end >= 1 PROVE Keeps(g, h, lines)
      <3>1. CASE g.offset = 0
        <4> SUFFICES ASSUME NEW y \in 0 .. lines - 1
                     PROVE  ViewRow(h, y).dirty = TRUE \/ ViewRow(h, y) = ViewRow(g, y)
          BY DEF Keeps
        <4>1. h.offset = 0 /\ h.screen = moved.screen
          BY <1>8, <2>5, <3>1
        <4>2. y - 0 = y /\ y >= 0 /\ y + 1 \in 1 .. lines
          OBVIOUS
        <4>3. ViewRow(h, y) = moved.screen[y + 1] /\ ViewRow(g, y) = g.screen[y + 1]
          BY <3>1, <4>1, <4>2 DEF ViewRow
        <4>4. moved.screen[y + 1].dirty = TRUE \/ moved.screen[y + 1] = g.screen[y + 1]
          BY <1>6, <4>2 DEF Redrawn
        <4> QED
          BY <4>3, <4>4
      <3>2. start # end
        BY <1>14, <2>14
      <3>3. CASE g.offset # 0
        <4>1. g.offset + n <= g.limit /\ lines - g.offset <= end
          BY <1>14, <2>14, <3>2, <3>3, ShapeFacts DEF ViewFollows
        <4>2. m = n
          BY <1>1, <1>14, <2>14 DEF AtMost
        <4>3. h.offset = g.offset + n
          <5>1. g.offset \in Nat /\ g.limit \in Nat
            BY DEF Shape
          <5>2. offset = g.offset + n
            BY <1>8, <3>3, <4>1, <5>1 DEF AtMost
          <5> QED
            BY <2>5, <5>2
        <4>4. ASSUME NEW i \in 1 .. lines, i <= end PROVE h.screen[i].dirty = TRUE
          <5>1. start < i /\ i <= end /\ h.screen = moved.screen
            BY <1>14, <2>5, <4>4
          <5> QED
            BY <1>6, <5>1 DEF Redrawn
        <4>5. \A i \in 1 .. n : list1[i] = g.screen[i]
          <5>1. \A i \in 1 .. n : 1 + i - 1 = i
            OBVIOUS
          <5> QED
            BY <2>8, <4>2, <5>1 DEF Part
        <4>6. Joined(both, g.history, HistorySize(g), list1, n)
          BY <2>6, <2>9, <4>2
        <4>7. size = AtMost(HistorySize(g) + n, g.limit) /\ HistorySize(h) = size
          BY <2>6, <2>10, <2>13, <4>2
        <4>8. first = HistorySize(g) + n - size + 1
          <5>1. first = k + n - size + 1
            BY <2>7, <2>10, <2>11, <4>2
          <5> QED
            BY <2>6, <5>1
        <4>9. Part(h.history, both, first, size)
          BY <2>5, <2>12
        <4> QED
          BY <2>14, <4>1, <4>3, <4>4, <4>5, <4>6, <4>7, <4>8, <4>9, FollowKeeps
      <3> QED
        BY <3>1, <3>3
    <2> QED
      BY <1>10, <1>14, <2>13, <2>14
  <1> QED
    BY <1>12, <1>13, <1>14

-----------------------------------------------------------------------------
(* The other operations on grids. *)

(* reset_region blanks rows and keeps the view. *)
LEMMA ResetShape ==
    ASSUME NEW lines \in Nat, lines >= 1, NEW columns \in Nat, NEW g, Shape(g, lines, columns),
           NEW start \in Nat, NEW end \in Nat, start <= end, end <= lines
    PROVE  /\ Shape(reset_region(g, start, end), lines, columns)
           /\ Keeps(g, reset_region(g, start, end), lines)
  <1>1. PICK list, k : k = end - start /\ list = Blanks(k, columns)
    OBVIOUS
  <1>2. IsRows(list, end - start, {columns})
    <2>1. k \in Nat
      BY <1>1
    <2> QED
      BY <1>1, <2>1, BlankRows
  <1>3. Columns(g) = columns
    BY ShapeFacts
  <1>4. PICK h : h = WithRegion(g, start, end, list)
    OBVIOUS
  <1>5. Shape(h, lines, columns) /\ Redrawn(h, g, lines, start, end)
    BY <1>2, <1>4, RegionShape
  <1>6. Keeps(g, h, lines)
    BY <1>5, RedrawnKeeps
  <1>7. reset_region(g, start, end) = h
    BY <1>1, <1>3, <1>4 DEF reset_region
  <1> QED
    BY <1>5, <1>6, <1>7

(* Rows that scroll down. *)
LEMMA ScrollDownShape ==
    ASSUME NEW lines \in Nat, lines >= 1, NEW columns \in Nat, NEW g, Shape(g, lines, columns),
           NEW start \in Nat, NEW end \in Nat, start <= end, end <= lines, NEW n \in Nat
    PROVE  Shape(scroll_down(g, start, end, n), lines, columns)
  <1>1. PICK m, b : m = AtMost(n, end - start) /\ b = end - m
    OBVIOUS
  <1>2. /\ m \in Nat /\ m <= end - start /\ b \in Nat /\ start <= b /\ b <= lines
        /\ m + (b - start) = end - start
    BY <1>1 DEF AtMost
  <1>3. PICK list : list = Blanks(m, columns) \o SubSeq(g.screen, start + 1, b)
    OBVIOUS
  <1>4. IsRows(list, end - start, {columns})
    <2>1. IsRows(Blanks(m, columns) \o SubSeq(g.screen, start + 1, b), m + (b - start), {columns})
      BY <1>2, MovedRows
    <2> QED
      BY <1>2, <1>3, <2>1
  <1>5. Shape(WithRegion(g, start, end, list), lines, columns)
    BY <1>4, RegionShape
  <1>6. Columns(g) = columns
    BY ShapeFacts
  <1>7. scroll_down(g, start, end, n) = WithRegion(g, start, end, list)
    BY <1>1, <1>3, <1>6 DEF scroll_down
  <1> QED
    BY <1>5, <1>7

(* Nothing, or an index that passes the test. *)
LEMMA UsedBound ==
    ASSUME NEW lines \in Nat, lines >= 1, NEW columns \in Nat, NEW g, Shape(g, lines, columns)
    PROVE  UsedLines(g) \in 0 .. lines
  <1>1. PICK I : I = {i \in 1 .. Len(g.screen) :
                        \E j \in DOMAIN g.screen[i].cells : ~IsEmpty(g.screen[i].cells[j])}
    OBVIOUS
  <1>2. PICK last : last = SelectLastInSeq(g.screen,
                        LAMBDA r : \E i \in DOMAIN r.cells : ~IsEmpty(r.cells[i]))
    OBVIOUS
  <1>3. last = IF I # {} THEN Max(I) ELSE 0
    BY <1>1, <1>2 DEF SelectLastInSeq
  <1>4. Len(g.screen) = lines
    BY ShapeFacts DEF Lines
  <1>5. I \in SUBSET (1 .. lines)
    BY <1>1, <1>4
  <1>6. last \in 0 .. lines
    <2>1. CASE I # {}
      <3>1. Max(I) \in I
        BY <1>5, <2>1, LastTurn
      <3>2. Max(I) \in 1 .. lines
        BY <1>5, <3>1
      <3> QED
        BY <1>3, <2>1, <3>2
    <2>2. CASE I = {}
      BY <1>3, <2>2
    <2> QED
      BY <2>1, <2>2
  <1>7. UsedLines(g) = IF last = 0 /\ HistorySize(g) = 0 THEN 1 ELSE last
    BY <1>2 DEF UsedLines
  <1> QED
    BY <1>6, <1>7

(* Clearing the screen into the history keeps the shape. *)
LEMMA ClearViewportShape ==
    ASSUME NEW lines \in Nat, lines >= 1, NEW columns \in Nat, NEW g, Shape(g, lines, columns)
    PROVE  Shape(clear_viewport(g), lines, columns)
  <1>1. PICK n, z, rest : n = UsedLines(g) /\ z = 0 /\ rest = lines - n
    OBVIOUS
  <1>2. n \in 0 .. lines
    BY <1>1, UsedBound
  <1>3. n \in Nat /\ z \in Nat /\ z <= lines /\ lines <= lines /\ rest \in Nat /\ rest <= lines /\ z <= rest
    BY <1>1, <1>2
  <1>4. Shape(scroll_up(g, z, lines, n), lines, columns)
    BY <1>3, ScrollUpShape
  <1>5. PICK h : h = scroll_up(g, z, lines, n)
    OBVIOUS
  <1>6. Shape(h, lines, columns)
    BY <1>4, <1>5
  <1>7. Shape(reset_region(h, z, rest), lines, columns)
    BY <1>3, <1>6, ResetShape
  <1>8. Lines(g) = lines
    BY ShapeFacts
  <1>9. clear_viewport(g) = reset_region(h, z, rest)
    BY <1>1, <1>5, <1>8 DEF clear_viewport
  <1> QED
    BY <1>7, <1>9

(* So do clearing the history and a reset. *)
LEMMA ClearHistoryShape ==
    ASSUME NEW lines \in Nat, lines >= 1, NEW columns \in Nat, NEW g, Shape(g, lines, columns)
    PROVE  Shape(clear_history(g), lines, columns) /\ Shape(ResetGrid(g), lines, columns)
  <1>1. PICK h : h = clear_history(g)
    OBVIOUS
  <1>2. PICK s, q, o, l, m : s = g.screen /\ q = <<>> /\ o = 0 /\ l = g.limit /\ m = 0
    OBVIOUS
  <1>3. h = [screen |-> s, history |-> q, offset |-> o, limit |-> l]
    BY <1>1, <1>2 DEF clear_history, Shape
  <1>4. IsRows(q, m, {columns})
    <2>1. 1 .. 0 = {}
      OBVIOUS
    <2>2. <<>> = [i \in 1 .. 0 |-> <<>>[i]]
      BY <2>1
    <2> QED
      BY <1>2, <2>1, <2>2 DEF IsRows, Spans
  <1>5. IsRows(s, lines, {columns}) /\ o \in Nat /\ l \in Nat /\ m \in Nat
    BY <1>2 DEF Shape
  <1>6. Shape(h, lines, columns)
    BY ONLY <1>3, <1>4, <1>5, MakeShape
  <1>7. Lines(g) = lines
    BY ShapeFacts
  <1>8. PICK z : z = 0
    OBVIOUS
  <1>9. Shape(reset_region(h, z, lines), lines, columns)
    BY <1>6, <1>8, ResetShape
  <1>10. ResetGrid(g) = reset_region(h, z, lines)
    BY <1>1, <1>7, <1>8 DEF ResetGrid
  <1> QED
    BY <1>1, <1>6, <1>9, <1>10

(* Moving the view keeps the shape, and a view at its end stays. *)
LEMMA ScrollViewShape ==
    ASSUME NEW lines \in Nat, lines >= 1, NEW columns \in Nat, NEW g, Shape(g, lines, columns),
           NEW delta \in Int
    PROVE  /\ Shape(ScrollView(g, delta), lines, columns)
           /\ ScrollView(g, delta).offset = g.offset => ScrollView(g, delta) = g
  <1>1. PICK h : h = ScrollView(g, delta)
    OBVIOUS
  <1>2. PICK s, q, o, l, m : /\ s = g.screen /\ q = g.history /\ l = g.limit /\ m = HistorySize(g)
                             /\ o = AtMost(AtLeast(g.offset + delta, 0), m)
    OBVIOUS
  <1>3. h = [screen |-> s, history |-> q, offset |-> o, limit |-> l]
    BY <1>1, <1>2 DEF ScrollView, Shape
  <1>4. m \in Nat /\ g.offset \in Nat /\ l \in Nat /\ IsRows(s, lines, {columns}) /\ IsRows(q, m, {columns})
    BY <1>2 DEF Shape
  <1>5. o \in Nat
    BY <1>2, <1>4 DEF AtMost, AtLeast
  <1>6. Shape(h, lines, columns)
    BY ONLY <1>3, <1>4, <1>5, MakeShape
  <1>7. h.offset = g.offset => h = g
    BY <1>2, <1>3 DEF Shape
  <1> QED
    BY <1>1, <1>6, <1>7

(* A new grid has the shape it is made with. *)
LEMMA NewGridShape ==
    ASSUME NEW lines \in Nat, lines >= 1, NEW columns \in Nat, NEW limit \in Nat
    PROVE  Shape(NewGrid(lines, columns, limit), lines, columns)
  <1>1. PICK h : h = NewGrid(lines, columns, limit)
    OBVIOUS
  <1>2. PICK s, q, o, m : s = Blanks(lines, columns) /\ q = <<>> /\ o = 0 /\ m = 0
    OBVIOUS
  <1>3. h = [screen |-> s, history |-> q, offset |-> o, limit |-> limit]
    BY <1>1, <1>2 DEF NewGrid
  <1>4. IsRows(q, m, {columns})
    <2>1. 1 .. 0 = {}
      OBVIOUS
    <2>2. <<>> = [i \in 1 .. 0 |-> <<>>[i]]
      BY <2>1
    <2> QED
      BY <1>2, <2>1, <2>2 DEF IsRows, Spans
  <1>5. IsRows(s, lines, {columns}) /\ o \in Nat /\ m \in Nat
    BY <1>2, BlankRows
  <1>6. Shape(h, lines, columns)
    BY ONLY <1>3, <1>4, <1>5, MakeShape, limit \in Nat
  <1> QED
    BY <1>1, <1>6

(* A clean row holds the same cells. *)
SameCells(t, s, n) == \A i \in 1 .. n : t[i].cells = s[i].cells

(* Clean rows have the cells they had. *)
LEMMA CleanedRows ==
    ASSUME NEW W, NEW n \in Nat, NEW s, IsRows(s, n, W), NEW b, b \in [1 .. n -> BOOLEAN],
           NEW t, t = [i \in DOMAIN s |-> [cells |-> s[i].cells, dirty |-> b[i]]]
    PROVE  IsRows(t, n, W) /\ Sequence(t) = t /\ SameCells(t, s, n)
  <1>1. DOMAIN s = 1 .. n
    BY DEF IsRows, Spans
  <1>2. Spans(t, n)
    BY <1>1 DEF Spans
  <1>3. Sequence(t) = t
    BY <1>2, SpanSequence
  <1>4. ASSUME NEW i \in 1 .. n PROVE IsRow(t[i], W) /\ t[i].cells = s[i].cells
    <2>1. t[i] = [cells |-> s[i].cells, dirty |-> b[i]]
      BY <1>1
    <2>2. IsRow(s[i], W) /\ b[i] \in BOOLEAN
      BY DEF IsRows
    <2>3. t[i].cells = s[i].cells /\ t[i].dirty = b[i]
      BY <2>1
    <2>4. t[i] = [cells |-> t[i].cells, dirty |-> t[i].dirty]
      BY <2>1, <2>3
    <2> QED
      BY <2>2, <2>3, <2>4 DEF IsRow
  <1> QED
    BY <1>2, <1>3, <1>4 DEF IsRows, SameCells

(* So a grid whose view is cleaned shows the same. *)
LEMMA CleanedShape ==
    ASSUME NEW lines \in Nat, lines >= 1, NEW columns \in Nat, NEW g, Shape(g, lines, columns)
    PROVE  /\ Shape(Cleaned(g), lines, columns)
           /\ \A y \in 0 .. lines - 1 : ViewRow(Cleaned(g), y).cells = ViewRow(g, y).cells
  <1>1. PICK h : h = Cleaned(g)
    OBVIOUS
  <1>2. PICK s, q, o, l, m : /\ s = g.screen /\ q = g.history /\ l = g.limit /\ m = HistorySize(g)
                             /\ o = g.offset
    OBVIOUS
  <1>3. m \in Nat /\ o \in Nat /\ l \in Nat /\ IsRows(s, lines, {columns}) /\ IsRows(q, m, {columns})
    BY <1>2 DEF Shape
  <1>4. Len(q) = m /\ Lines(g) = lines
    BY <1>2, ShapeFacts DEF HistorySize
  <1> DEFINE In(line) == line + o >= 0 /\ line + o < lines
  <1>5. PICK b : b = [i \in 1 .. lines |-> s[i].dirty /\ ~In(i - 1)]
    OBVIOUS
  <1>6. PICK c : c = [i \in 1 .. m |-> q[i].dirty /\ ~In(i - 1 - m)]
    OBVIOUS
  <1>7. b \in [1 .. lines -> BOOLEAN] /\ c \in [1 .. m -> BOOLEAN]
    BY <1>5, <1>6
  <1>8. DOMAIN s = 1 .. lines /\ DOMAIN q = 1 .. m
    BY <1>3 DEF IsRows, Spans
  <1>9. PICK u : u = [i \in DOMAIN s |-> [cells |-> s[i].cells, dirty |-> b[i]]]
    OBVIOUS
  <1>10. PICK v : v = [i \in DOMAIN q |-> [cells |-> q[i].cells, dirty |-> c[i]]]
    OBVIOUS
  <1>11. IsRows(u, lines, {columns}) /\ Sequence(u) = u /\ SameCells(u, s, lines)
    <2>1. PICK W : W = {columns}
      OBVIOUS
    <2>2. IsRows(s, lines, W)
      BY <1>3, <2>1
    <2>3. IsRows(u, lines, W) /\ Sequence(u) = u /\ SameCells(u, s, lines)
      BY ONLY <1>7, <1>9, <2>2, CleanedRows, lines \in Nat
    <2> QED
      BY <2>1, <2>3
  <1>12. IsRows(v, m, {columns}) /\ Sequence(v) = v /\ SameCells(v, q, m)
    <2>1. PICK W : W = {columns}
      OBVIOUS
    <2>2. IsRows(q, m, W)
      BY <1>3, <2>1
    <2>3. IsRows(v, m, W) /\ Sequence(v) = v /\ SameCells(v, q, m)
      BY ONLY <1>3, <1>7, <1>10, <2>2, CleanedRows
    <2> QED
      BY <2>1, <2>3
  <1>13. u = [i \in DOMAIN s |-> [cells |-> s[i].cells, dirty |-> s[i].dirty /\ ~In(i - 1)]]
    BY <1>5, <1>8, <1>9
  <1>14. v = [i \in DOMAIN q |-> [cells |-> q[i].cells, dirty |-> q[i].dirty /\ ~In(i - 1 - m)]]
    BY <1>6, <1>8, <1>10
  <1>15. h = [g EXCEPT !.screen = Sequence(u), !.history = Sequence(v)]
    BY <1>1, <1>2, <1>4, <1>13, <1>14 DEF Cleaned
  <1> HIDE DEF In
  <1>16. h = [screen |-> u, history |-> v, offset |-> o, limit |-> l]
    BY <1>2, <1>11, <1>12, <1>15 DEF Shape
  <1>17. Shape(h, lines, columns) /\ HistorySize(h) = m
    BY ONLY <1>3, <1>11, <1>12, <1>16, MakeShape
  <1>18. ASSUME NEW y \in 0 .. lines - 1 PROVE ViewRow(h, y).cells = ViewRow(g, y).cells
    <2>1. PICK line : line = y - o
      OBVIOUS
    <2>2. line \in Int /\ line <= lines - 1
      BY <1>3, <2>1
    <2>3. h.screen = u /\ h.history = v /\ h.offset = o /\ g.offset = o /\ HistorySize(g) = m
      BY <1>2, <1>16
    <2>4. CASE line >= 0
      <3>1. line + 1 \in 1 .. lines
        BY <2>2, <2>4
      <3>2. ViewRow(h, y) = u[line + 1] /\ ViewRow(g, y) = s[line + 1]
        BY <1>2, <2>1, <2>2, <2>3, <2>4 DEF ViewRow
      <3> QED
        BY <1>11, <3>1, <3>2 DEF SameCells
    <2>5. CASE line < 0 /\ -line <= m
      <3>1. PICK j : j = m + line + 1
        OBVIOUS
      <3>2. j \in 1 .. m
        BY <1>3, <2>2, <2>5, <3>1
      <3>3. ViewRow(h, y) = v[j] /\ ViewRow(g, y) = q[j]
        BY <1>2, <1>17, <2>1, <2>2, <2>3, <2>5, <3>1 DEF ViewRow
      <3> QED
        BY <1>12, <3>2, <3>3 DEF SameCells
    <2>6. CASE ~(line >= 0) /\ ~(line < 0 /\ -line <= m)
      <3>1. ViewRow(h, y) = NoRow
        BY <1>17, <2>1, <2>2, <2>3, <2>6 DEF ViewRow
      <3>2. ViewRow(g, y) = NoRow
        BY <2>1, <2>2, <2>3, <2>6 DEF ViewRow
      <3> QED
        BY <3>1, <3>2
    <2> QED
      BY <2>4, <2>5, <2>6
  <1> QED
    BY <1>1, <1>17, <1>18
-----------------------------------------------------------------------------
(* What a handler does to the rows. *)

(* k is a record of these fields, with grids of this size. *)
RowsForm(k, lines, columns) ==
    /\ k = [grid |-> k.grid, inactive |-> k.inactive, damage |-> k.damage,
            last_cursor |-> k.last_cursor, slipped |-> k.slipped]
    /\ Shape(k.grid, lines, columns) /\ Shape(k.inactive, lines, columns)
    /\ k.damage \in {"none", "partial", "full"} /\ k.slipped \in BOOLEAN

(* k becomes m, and what is changed in the view is dirty. *)
Edits(k, m, lines, columns) ==
    /\ RowsForm(m, lines, columns)
    /\ k.slipped = TRUE => m.slipped = TRUE
    /\ k.damage = "full" => m.damage = "full"
    /\ m.damage = "none" => k.damage = "none"
    /\ m.slipped = TRUE \/ m.damage = "full" \/ Keeps(k.grid, m.grid, lines)

(* Besides, damage is noted when anything is changed. *)
Paints(k, m, lines, columns) ==
    Edits(k, m, lines, columns) /\ (m.damage = "none" => m.grid = k.grid)

(* Two edits are an edit. *)
LEMMA EditsTrans ==
    ASSUME NEW lines, NEW columns, NEW k, NEW m, NEW q,
           Edits(k, m, lines, columns), Edits(m, q, lines, columns)
    PROVE  Edits(k, q, lines, columns)
  <1>1. PICK f, g, h : f = k.grid /\ g = m.grid /\ h = q.grid
    OBVIOUS
  <1>2. Keeps(f, g, lines) /\ Keeps(g, h, lines) => Keeps(f, h, lines)
    BY KeepsTrans
  <1> QED
    BY <1>1, <1>2 DEF Edits

(* Nothing at all is an edit and painted. *)
LEMMA PaintsSame ==
    ASSUME NEW lines, NEW columns, NEW k, RowsForm(k, lines, columns)
    PROVE  Edits(k, k, lines, columns) /\ Paints(k, k, lines, columns)
  BY KeepsSame DEF Edits, Paints

(* Another grid with the same view. *)
LEMMA GridEdits ==
    ASSUME NEW lines, NEW columns, NEW k, RowsForm(k, lines, columns),
           NEW h, Shape(h, lines, columns), Keeps(k.grid, h, lines)
    PROVE  Edits(k, [k EXCEPT !.grid = h], lines, columns)
  <1>1. PICK m : m = [k EXCEPT !.grid = h]
    OBVIOUS
  <1>2. m = [grid |-> h, inactive |-> k.inactive, damage |-> k.damage,
             last_cursor |-> k.last_cursor, slipped |-> k.slipped]
    BY <1>1 DEF RowsForm
  <1>3. /\ m.grid = h /\ m.inactive = k.inactive /\ m.damage = k.damage
        /\ m.last_cursor = k.last_cursor /\ m.slipped = k.slipped
    BY <1>2
  <1>4. RowsForm(m, lines, columns)
    BY <1>2, <1>3 DEF RowsForm
  <1> QED
    BY <1>1, <1>3, <1>4 DEF Edits

(* An edit that notes damage paints. *)
LEMMA DamagedPaints ==
    ASSUME NEW lines, NEW columns, NEW k, NEW m, Edits(k, m, lines, columns)
    PROVE  Paints(k, Damaged(m), lines, columns)
  <1>1. PICK q : q = Damaged(m)
    OBVIOUS
  <1>2. CASE m.damage = "full"
    <2>1. q = m
      BY <1>1, <1>2 DEF Damaged
    <2> QED
      BY <1>1, <1>2, <2>1 DEF Paints
  <1>3. CASE m.damage # "full"
    <2>1. q = [m EXCEPT !.damage = "partial"]
      BY <1>1, <1>3 DEF Damaged
    <2>2. q = [grid |-> m.grid, inactive |-> m.inactive, damage |-> "partial",
               last_cursor |-> m.last_cursor, slipped |-> m.slipped]
      BY <2>1 DEF Edits, RowsForm
    <2>3. /\ q.grid = m.grid /\ q.inactive = m.inactive /\ q.damage = "partial"
          /\ q.last_cursor = m.last_cursor /\ q.slipped = m.slipped
      BY <2>2
    <2>4. RowsForm(q, lines, columns)
      BY <2>2, <2>3 DEF Edits, RowsForm
    <2>5. Edits(k, q, lines, columns)
      BY <1>3, <2>3, <2>4 DEF Edits
    <2> QED
      BY <1>1, <2>3, <2>5 DEF Paints
  <1> QED
    BY <1>2, <1>3

(* Full damage makes every change of the rows good. *)
LEMMA FullPaints ==
    ASSUME NEW lines, NEW columns, NEW k, NEW m, RowsForm(m, lines, columns),
           k.slipped = TRUE => m.slipped = TRUE
    PROVE  Paints(k, mark_fully_damaged(m), lines, columns)
  <1>1. PICK q : q = mark_fully_damaged(m)
    OBVIOUS
  <1>2. q = [grid |-> m.grid, inactive |-> m.inactive, damage |-> "full",
             last_cursor |-> m.last_cursor, slipped |-> m.slipped]
    BY <1>1 DEF RowsForm, mark_fully_damaged
  <1>3. /\ q.grid = m.grid /\ q.inactive = m.inactive /\ q.damage = "full"
        /\ q.last_cursor = m.last_cursor /\ q.slipped = m.slipped
    BY <1>2
  <1>4. RowsForm(q, lines, columns)
    BY <1>2, <1>3 DEF RowsForm
  <1> QED
    BY <1>1, <1>3, <1>4 DEF Paints, Edits

(* Other grids: all is damaged. *)
LEMMA GridsPaint ==
    ASSUME NEW lines, NEW columns, NEW k, NEW m, RowsForm(m, lines, columns),
           k.slipped = TRUE => m.slipped = TRUE,
           NEW g, Shape(g, lines, columns)
    PROVE  Paints(k, mark_fully_damaged([m EXCEPT !.grid = g]), lines, columns)
  <1>1. PICK q : q = [m EXCEPT !.grid = g]
    OBVIOUS
  <1>2. q = [grid |-> g, inactive |-> m.inactive, damage |-> m.damage,
             last_cursor |-> m.last_cursor, slipped |-> m.slipped]
    BY <1>1 DEF RowsForm
  <1>3. /\ q.grid = g /\ q.inactive = m.inactive /\ q.damage = m.damage
        /\ q.last_cursor = m.last_cursor /\ q.slipped = m.slipped
    BY <1>2
  <1>4. RowsForm(q, lines, columns)
    BY <1>2, <1>3 DEF RowsForm
  <1>5. k.slipped = TRUE => q.slipped = TRUE
    BY <1>3
  <1> QED
    BY <1>1, <1>4, <1>5, FullPaints

-----------------------------------------------------------------------------
(* Cells of the cursor's row. *)

(* The cursor's row exists and is as wide as the screen. *)
LEMMA CursorSpan ==
    ASSUME NEW t, Sound(t), NEW k, RowsForm(k, t.lines, t.columns)
    PROVE  /\ Spans(CursorCells(t, k), t.columns)
           /\ IsRow(k.grid.screen[t.cursor.row + 1], {t.columns})
           /\ CursorCells(t, k) = k.grid.screen[t.cursor.row + 1].cells
  <1>1. t.lines \in Nat /\ t.columns \in Nat /\ t.cursor.row \in 0 .. t.lines - 1
    BY SoundFacts
  <1>2. t.cursor.row + 1 \in 1 .. t.lines
    BY <1>1
  <1>3. IsRow(k.grid.screen[t.cursor.row + 1], {t.columns})
    BY <1>2 DEF RowsForm, Shape, IsRows
  <1>4. CursorCells(t, k) = k.grid.screen[t.cursor.row + 1].cells
    BY DEF CursorCells, Cells
  <1> QED
    BY <1>3, <1>4 DEF IsRow

(* Another row in the screen, dirty. *)
LEMMA RowEdits ==
    ASSUME NEW lines \in Nat, lines >= 1, NEW columns \in Nat, NEW k, RowsForm(k, lines, columns),
           NEW j, NEW cells, Spans(cells, columns),
           NEW m, m = [k EXCEPT !.grid.screen[j] = Dirty(cells)]
    PROVE  Edits(k, m, lines, columns)
  <1>1. PICK g, r : g = k.grid /\ r = Dirty(cells)
    OBVIOUS
  <1>2. PICK h : h = [g EXCEPT !.screen[j] = r]
    OBVIOUS
  <1>3. IsRow(r, {columns}) /\ r.dirty = TRUE
    BY <1>1, RowDirty
  <1>4. Shape(g, lines, columns)
    BY <1>1 DEF RowsForm
  <1>5. Shape(h, lines, columns) /\ Keeps(g, h, lines)
    BY ONLY <1>2, <1>3, <1>4, SetRowKeeps, lines \in Nat, lines >= 1, columns \in Nat
  <1>6. m = [k EXCEPT !.grid = h]
    BY <1>1, <1>2
  <1> QED
    BY <1>1, <1>5, <1>6, GridEdits

(* The same in the history, where the row may not be. *)
LEMMA HistoryEdits ==
    ASSUME NEW lines \in Nat, lines >= 1, NEW columns \in Nat, NEW k, RowsForm(k, lines, columns),
           NEW j, NEW cells, j \in 1 .. HistorySize(k.grid) => Spans(cells, columns),
           NEW m, m = [k EXCEPT !.grid.history[j] = Dirty(cells)]
    PROVE  Edits(k, m, lines, columns)
  <1>1. PICK g, r : g = k.grid /\ r = Dirty(cells)
    OBVIOUS
  <1>2. PICK h : h = [g EXCEPT !.history[j] = r]
    OBVIOUS
  <1>3. m = [k EXCEPT !.grid = h]
    BY <1>1, <1>2
  <1>4. Shape(g, lines, columns)
    BY <1>1 DEF RowsForm
  <1>5. Shape(h, lines, columns) /\ Keeps(g, h, lines)
    <2>1. CASE j \in 1 .. HistorySize(g)
      <3>1. IsRow(r, {columns}) /\ r.dirty = TRUE
        BY <1>1, <2>1, RowDirty
      <3> QED
        BY ONLY <1>2, <1>4, <3>1, SetHistoryKeeps, lines \in Nat, lines >= 1, columns \in Nat
    <2>2. CASE j \notin 1 .. HistorySize(g)
      <3>1. PICK q : q = g.history
        OBVIOUS
      <3>2. DOMAIN q = 1 .. HistorySize(g) /\ q = [i \in DOMAIN q |-> q[i]]
        BY <1>4, <3>1 DEF Shape, IsRows, Spans
      <3>3. [q EXCEPT ![j] = r] = [i \in DOMAIN q |-> IF i = j THEN r ELSE q[i]]
        OBVIOUS
      <3>4. [i \in DOMAIN q |-> IF i = j THEN r ELSE q[i]] = [i \in DOMAIN q |-> q[i]]
        BY <2>2, <3>2
      <3>5. [q EXCEPT ![j] = r] = q
        BY <3>2, <3>3, <3>4
      <3>6. h = [g EXCEPT !.history = q]
        BY <1>2, <3>1, <3>5
      <3>7. h = g
        BY <1>4, <3>1, <3>6 DEF Shape
      <3> QED
        BY <1>4, <3>7, KeepsSame
    <2> QED
      BY <2>1, <2>2
  <1> QED
    BY <1>1, <1>3, <1>5, GridEdits

(* Writing the cells of the cursor's row is an edit, *)
LEMMA CellsEdit ==
    ASSUME NEW t, Sound(t), NEW k, RowsForm(k, t.lines, t.columns),
           NEW cells, Spans(cells, t.columns)
    PROVE  Edits(k, WithCells(t, k, cells), t.lines, t.columns)
  <1>1. PICK lines, columns, j : lines = t.lines /\ columns = t.columns /\ j = t.cursor.row + 1
    OBVIOUS
  <1>2. lines \in Nat /\ lines >= 1 /\ columns \in Nat
    BY <1>1, SoundFacts
  <1>3. PICK m : m = [k EXCEPT !.grid.screen[j] = Dirty(cells)]
    OBVIOUS
  <1>4. WithCells(t, k, cells) = m
    BY <1>1, <1>3 DEF WithCells, SetCells
  <1>5. RowsForm(k, lines, columns) /\ Spans(cells, columns)
    BY <1>1
  <1>6. Edits(k, m, lines, columns)
    BY ONLY <1>2, <1>3, <1>5, RowEdits
  <1> QED
    BY <1>1, <1>4, <1>6

(* and so is writing one of them. *)
LEMMA CellEdit ==
    ASSUME NEW t, Sound(t), NEW k, RowsForm(k, t.lines, t.columns), NEW col, NEW cell
    PROVE  Edits(k, WithCell(t, k, col, cell), t.lines, t.columns)
  <1>1. PICK lines, columns, j : lines = t.lines /\ columns = t.columns /\ j = t.cursor.row + 1
    OBVIOUS
  <1>2. lines \in Nat /\ lines >= 1 /\ columns \in Nat
    BY <1>1, SoundFacts
  <1>3. PICK s : s = CursorCells(t, k)
    OBVIOUS
  <1>4. Spans(s, columns) /\ s = k.grid.screen[j].cells
    BY <1>1, <1>3, CursorSpan
  <1>5. PICK i, u : i = col + 1 /\ u = [s EXCEPT ![i] = cell]
    OBVIOUS
  <1>6. Changed(u, s, columns, i, cell)
    BY <1>2, <1>4, <1>5, SpanExcept
  <1>7. PICK m : m = [k EXCEPT !.grid.screen[j] = Dirty(u)]
    OBVIOUS
  <1>8. WithCell(t, k, col, cell) = m
    BY <1>1, <1>4, <1>5, <1>7 DEF WithCell, SetCell
  <1>9. RowsForm(k, lines, columns) /\ Spans(u, columns)
    BY <1>1, <1>6 DEF Changed
  <1>10. Edits(k, m, lines, columns)
    BY ONLY <1>2, <1>7, <1>9, RowEdits
  <1> QED
    BY <1>1, <1>8, <1>10

(* Erasing keeps the number of cells, *)
LEMMA ErasedSpan ==
    ASSUME NEW n \in Nat, NEW cells, Spans(cells, n), NEW from, NEW to
    PROVE  Spans(Erased(cells, from, to), n)
  <1>1. PICK s : s = [i \in DOMAIN cells |-> IF i - 1 \in from .. to - 1 THEN Empty ELSE cells[i]]
    OBVIOUS
  <1>2. DOMAIN cells = 1 .. n
    BY DEF Spans
  <1>3. Spans(s, n)
    BY <1>1, <1>2 DEF Spans
  <1>4. Erased(cells, from, to) = s
    BY <1>1, <1>3, SpanSequence DEF Erased
  <1> QED
    BY <1>3, <1>4

(* and so does swapping two. *)
LEMMA SwappedSpan ==
    ASSUME NEW n \in Nat, NEW cells, Spans(cells, n), NEW i, NEW j
    PROVE  Spans(SwapCells(cells, i, j), n)
  <1>1. PICK a, b, x, y : a = i + 1 /\ b = j + 1 /\ x = cells[j + 1] /\ y = cells[i + 1]
    OBVIOUS
  <1>2. PICK u : u = [cells EXCEPT ![a] = x]
    OBVIOUS
  <1>3. PICK v : v = [u EXCEPT ![b] = y]
    OBVIOUS
  <1>4. Changed(u, cells, n, a, x)
    BY <1>2, SpanExcept
  <1>5. Spans(u, n)
    BY <1>4 DEF Changed
  <1>6. Changed(v, u, n, b, y)
    BY ONLY <1>3, <1>5, SpanExcept, n \in Nat
  <1>7. SwapCells(cells, i, j) = v
    BY <1>1, <1>2, <1>3 DEF SwapCells
  <1> QED
    BY <1>6, <1>7 DEF Changed
-----------------------------------------------------------------------------
(* Folds.  The four loops over rows, turns and cells are folds of one      *)
(* recursion on sets of indices; Turn is the body, p says of which.        *)

Turn(p, x, i) ==
    CASE p.loop = "swap" -> SwapCells(x, p.positions[i] + p.distance, p.positions[i])
      [] p.loop = "grow" -> GrowStep(x, p.rows[i], Len(p.rows) - i, p.lines, p.columns, p.reflow)
      [] p.loop = "shrink" ->
            ShrinkStep(x, p.rows[i], Len(p.rows) - i, p.lines, p.columns, p.reflow)
      [] p.loop = "turns" -> ShrinkTurn(x, p.i, p.lines, p.columns, p.reflow)

TurnFolding(p, base, n, f) ==
    f = [s \in SUBSET (1 .. n) |-> IF s = {} THEN base ELSE Turn(p, f[s \ {Max(s)}], Max(s))]

(* b is what there is before and after every turn. *)
Turns(p, base, n, b) == b[0] = base /\ \A k \in 1 .. n : b[k] = Turn(p, b[k - 1], k)

(* The recursion has a solution: one for k indices gives one for k + 1. *)
LEMMA TurnFoldingNext ==
    ASSUME NEW p, NEW base, NEW k \in Nat, NEW f, TurnFolding(p, base, k, f)
    PROVE  \E g : TurnFolding(p, base, k + 1, g)
  <1>1. PICK m : m = k + 1
    OBVIOUS
  <1>2. m \in Nat /\ k < m
    BY <1>1
  <1>3. PICK g : g = [s \in SUBSET (1 .. m) |-> IF m \in s THEN Turn(p, f[s \ {m}], m) ELSE f[s]]
    OBVIOUS
  <1>4. \A s \in SUBSET (1 .. k) : f[s] = IF s = {} THEN base ELSE Turn(p, f[s \ {Max(s)}], Max(s))
    BY DEF TurnFolding
  <1>5. ASSUME NEW s \in SUBSET (1 .. m)
        PROVE  g[s] = IF s = {} THEN base ELSE Turn(p, g[s \ {Max(s)}], Max(s))
    <2>1. CASE m \in s
      <3>1. Max(s) = m
        <4>1. Max(s) \in s /\ \A y \in s : y <= Max(s)
          BY <1>2, <2>1, LastTurn
        <4>2. Max(s) \in 1 .. m /\ m <= Max(s)
          BY <2>1, <4>1
        <4> QED
          BY <1>2, <4>2
      <3>2. s \ {m} \in SUBSET (1 .. m) /\ m \notin s \ {m}
        OBVIOUS
      <3>3. g[s \ {m}] = f[s \ {m}]
        BY <1>3, <3>2
      <3>4. g[s] = Turn(p, f[s \ {m}], m)
        BY <1>3, <2>1
      <3> QED
        BY <2>1, <3>1, <3>3, <3>4
    <2>2. CASE m \notin s
      <3>1. s \in SUBSET (1 .. k)
        BY <1>1, <2>2
      <3>2. g[s] = f[s]
        BY <1>3, <2>2
      <3>3. s \ {Max(s)} \in SUBSET (1 .. m) /\ m \notin s \ {Max(s)}
        BY <2>2
      <3>4. g[s \ {Max(s)}] = f[s \ {Max(s)}]
        BY <1>3, <3>3
      <3> QED
        BY <1>4, <3>1, <3>2, <3>4
    <2> QED
      BY <2>1, <2>2
  <1>6. g = [s \in SUBSET (1 .. m) |-> g[s]]
    BY <1>3
  <1>7. g = [s \in SUBSET (1 .. m) |-> IF s = {} THEN base ELSE Turn(p, g[s \ {Max(s)}], Max(s))]
    BY <1>5, <1>6
  <1>8. TurnFolding(p, base, m, g)
    BY <1>7 DEF TurnFolding
  <1> QED
    BY <1>1, <1>8

(* There is such a function of the turns, *)
LEMMA TurnFoldingExists ==
    ASSUME NEW p, NEW base, NEW n \in Nat
    PROVE  \E f : TurnFolding(p, base, n, f)
  <1> DEFINE Bad == {k \in Nat : ~ \E f : TurnFolding(p, base, k, f)}
  <1>1. SUFFICES ASSUME Bad # {} PROVE FALSE
    OBVIOUS
  <1>2. PICK k \in Bad : \A y \in Bad : k <= y
    <2>1. Bad \in SUBSET Nat
      OBVIOUS
    <2> HIDE DEF Bad
    <2> QED
      BY <1>1, <2>1, Least
  <1>3. k \in Nat /\ ~ \E f : TurnFolding(p, base, k, f)
    OBVIOUS
  <1>4. CASE k = 0
    <2>1. 1 .. k = {} /\ SUBSET {} = {{}}
      BY <1>4
    <2>2. PICK f : f = [s \in SUBSET (1 .. k) |-> base]
      OBVIOUS
    <2>3. \A s \in SUBSET (1 .. k) : f[s] = IF s = {} THEN base ELSE Turn(p, f[s \ {Max(s)}], Max(s))
      BY <2>1, <2>2
    <2>4. f = [s \in SUBSET (1 .. k) |-> f[s]]
      BY <2>2
    <2>5. f = [s \in SUBSET (1 .. k) |-> IF s = {} THEN base ELSE Turn(p, f[s \ {Max(s)}], Max(s))]
      BY <2>3, <2>4
    <2>6. TurnFolding(p, base, k, f)
      BY <2>5 DEF TurnFolding
    <2> QED
      BY <1>3, <2>6
  <1>5. CASE k # 0
    <2>1. PICK j : j = k - 1
      OBVIOUS
    <2>2. j \in Nat /\ j + 1 = k /\ ~(k <= j)
      BY <1>3, <1>5, <2>1
    <2>3. j \notin Bad
      BY <1>2, <2>2
    <2>4. PICK f : TurnFolding(p, base, j, f)
      BY <2>2, <2>3
    <2>5. \E g : TurnFolding(p, base, j + 1, g)
      BY <2>2, <2>4, TurnFoldingNext
    <2> QED
      BY <1>3, <2>2, <2>5
  <1> QED
    BY <1>4, <1>5

(* and the fold over a list of turns is its last value. *)
LEMMA TurnFoldingTurns ==
    ASSUME NEW p, NEW base, NEW n \in Nat, NEW f, TurnFolding(p, base, n, f)
    PROVE  \E b : Turns(p, base, n, b) /\ b[n] = f[1 .. n]
  <1>1. PICK b : b = [k \in 0 .. n |-> f[1 .. k]]
    OBVIOUS
  <1>2. \A s \in SUBSET (1 .. n) : f[s] = IF s = {} THEN base ELSE Turn(p, f[s \ {Max(s)}], Max(s))
    BY DEF TurnFolding
  <1>3. b[0] = base
    <2>1. 1 .. 0 = {} /\ 1 .. 0 \in SUBSET (1 .. n)
      OBVIOUS
    <2>2. f[1 .. 0] = base
      BY <1>2, <2>1
    <2> QED
      BY <1>1, <2>2
  <1>4. ASSUME NEW k \in 1 .. n PROVE b[k] = Turn(p, b[k - 1], k)
    <2>1. 1 .. k \in SUBSET (1 .. n) /\ 1 .. k # {} /\ k \in 1 .. k /\ (1 .. k) \ {k} = 1 .. k - 1
      OBVIOUS
    <2>2. Max(1 .. k) = k
      <3>1. Max(1 .. k) \in 1 .. k /\ \A y \in 1 .. k : y <= Max(1 .. k)
        BY <2>1, LastTurn
      <3> QED
        BY <2>1, <3>1
    <2>3. f[1 .. k] = Turn(p, f[1 .. k - 1], k)
      BY <1>2, <2>1, <2>2
    <2>4. k \in 0 .. n /\ k - 1 \in 0 .. n
      OBVIOUS
    <2> QED
      BY <1>1, <2>3, <2>4
  <1>5. b[n] = f[1 .. n]
    BY <1>1
  <1>6. Turns(p, base, n, b)
    BY <1>3, <1>4 DEF Turns
  <1> QED
    BY <1>5, <1>6

(* The recursion that the fold of Exchanged chooses. *)
SwapFolding(cells, positions, distance, m, f) ==
    f = [s \in SUBSET (1 .. m) |->
            IF s = {} THEN cells
            ELSE SwapCells(f[s \ {Max(s)}], positions[Max(s)] + distance, positions[Max(s)])]

(* Cells that change places stay a row of as many. *)
LEMMA ExchangedSpan ==
    ASSUME NEW n \in Nat, NEW cells, Spans(cells, n),
           NEW m \in Nat, NEW positions, Spans(positions, m), NEW distance
    PROVE  Spans(Exchanged(cells, positions, distance), n)
  <1>1. PICK p : p = [loop |-> "swap", positions |-> positions, distance |-> distance]
    OBVIOUS
  <1>2. \A x, i : Turn(p, x, i) = SwapCells(x, positions[i] + distance, positions[i])
    BY <1>1 DEF Turn
  <1>3. PICK x : x = Exchanged(cells, positions, distance)
    OBVIOUS
  <1>4. DOMAIN positions = 1 .. m
    BY DEF Spans
  <1>5. x = (CHOOSE f : f = [s \in SUBSET DOMAIN positions |->
                IF s = {} THEN cells
                ELSE SwapCells(f[s \ {Max(s)}], positions[Max(s)] + distance, positions[Max(s)])])
                    [DOMAIN positions]
    BY <1>3 DEF Exchanged, FoldLeft, MapThenFoldSet
  <1>6. x = (CHOOSE f : SwapFolding(cells, positions, distance, m, f))[1 .. m]
    BY <1>4, <1>5 DEF SwapFolding
  <1>7. \A f : TurnFolding(p, cells, m, f) <=> SwapFolding(cells, positions, distance, m, f)
    BY <1>2 DEF TurnFolding, SwapFolding
  <1>8. PICK b : Turns(p, cells, m, b) /\ b[m] = x
    <2>1. PICK h : h = CHOOSE f : SwapFolding(cells, positions, distance, m, f)
      OBVIOUS
    <2>2. \E f : SwapFolding(cells, positions, distance, m, f)
      BY <1>7, TurnFoldingExists
    <2>3. SwapFolding(cells, positions, distance, m, h)
      BY <2>1, <2>2
    <2>4. TurnFolding(p, cells, m, h)
      BY <1>7, <2>3
    <2>5. \E b : Turns(p, cells, m, b) /\ b[m] = h[1 .. m]
      BY ONLY <2>4, TurnFoldingTurns, m \in Nat
    <2> QED
      BY <1>6, <2>1, <2>5
  <1> DEFINE Bad == {k \in Nat : k <= m /\ ~Spans(b[k], n)}
  <1>9. ASSUME Bad # {} PROVE FALSE
    <2>1. PICK k \in Bad : \A y \in Bad : k <= y
      <3>1. Bad \in SUBSET Nat
        OBVIOUS
      <3> HIDE DEF Bad
      <3> QED
        BY <1>9, <3>1, Least
    <2>2. k \in Nat /\ k <= m /\ ~Spans(b[k], n)
      OBVIOUS
    <2>3. CASE k = 0
      BY <1>8, <2>2, <2>3 DEF Turns
    <2>4. CASE k # 0
      <3>1. PICK j : j = k - 1
        OBVIOUS
      <3>2. j \in Nat /\ j <= m /\ ~(k <= j) /\ k \in 1 .. m
        BY <2>2, <2>4, <3>1
      <3>3. Spans(b[j], n)
        BY <2>1, <3>2
      <3>4. b[k] = SwapCells(b[j], positions[k] + distance, positions[k])
        BY <1>2, <1>8, <3>1, <3>2 DEF Turns
      <3>5. PICK u, v : u = positions[k] + distance /\ v = positions[k]
        OBVIOUS
      <3>6. Spans(SwapCells(b[j], u, v), n)
        BY <3>3, SwappedSpan
      <3> QED
        BY <2>2, <3>4, <3>5, <3>6
    <2> QED
      BY <2>3, <2>4
  <1>10. m \notin Bad
    BY <1>9
  <1>11. Spans(b[m], n)
    BY <1>10
  <1> QED
    BY <1>3, <1>8, <1>11
-----------------------------------------------------------------------------
(* Every handler but a resize leaves the size of the screen alone. *)

SameSize(u, t) == u.lines = t.lines /\ u.columns = t.columns

(* A new cursor leaves the size alone, *)
LEMMA CursorSize ==
    ASSUME NEW t, Sound(t), NEW c
    PROVE  SameSize([t EXCEPT !.cursor = c], t)
  <1>1. PICK u : u = [t EXCEPT !.cursor = c]
    OBVIOUS
  <1>2. u = [lines |-> t.lines, columns |-> t.columns, cursor |-> c,
             saved |-> t.saved, other |-> t.other, region |-> t.region,
             mode |-> t.mode, tabs |-> t.tabs]
    BY <1>1 DEF Sound
  <1> QED
    BY <1>1, <1>2 DEF SameSize

(* and so does a new row or column for it, *)
LEMMA PlaceSize ==
    ASSUME NEW t, Sound(t), NEW x
    PROVE  /\ SameSize(AtRow(t, x), t)
           /\ SameSize(AtColumn(t, x), t)
           /\ SameSize([t EXCEPT !.cursor.col = x], t)
           /\ SameSize([t EXCEPT !.cursor.wrap = x], t)
  <1>1. PICK a : a = [t.cursor EXCEPT !.row = x]
    OBVIOUS
  <1>2. PICK b : b = [t.cursor EXCEPT !.col = x, !.wrap = FALSE]
    OBVIOUS
  <1>3. PICK c : c = [t.cursor EXCEPT !.col = x]
    OBVIOUS
  <1>4. PICK d : d = [t.cursor EXCEPT !.wrap = x]
    OBVIOUS
  <1>5. AtRow(t, x) = [t EXCEPT !.cursor = a]
    BY <1>1 DEF AtRow, Sound
  <1>6. AtColumn(t, x) = [t EXCEPT !.cursor = b]
    BY <1>2 DEF AtColumn, Sound
  <1>7. [t EXCEPT !.cursor.col = x] = [t EXCEPT !.cursor = c]
    BY <1>3 DEF Sound
  <1>8. [t EXCEPT !.cursor.wrap = x] = [t EXCEPT !.cursor = d]
    BY <1>4 DEF Sound
  <1>9. /\ SameSize([t EXCEPT !.cursor = a], t) /\ SameSize([t EXCEPT !.cursor = b], t)
        /\ SameSize([t EXCEPT !.cursor = c], t) /\ SameSize([t EXCEPT !.cursor = d], t)
    BY CursorSize
  <1> QED
    BY <1>5, <1>6, <1>7, <1>8, <1>9

(* Motion. *)
LEMMA MotionSize ==
    ASSUME NEW t, Sound(t), NEW y, NEW x
    PROVE  /\ SameSize(goto(t, y, x), t)
           /\ SameSize(move_forward(t, x), t) /\ SameSize(move_backward(t, x), t)
           /\ SameSize(linefeed(t), t) /\ SameSize(carriage_return(t), t)
           /\ SameSize(backspace(t), t) /\ SameSize(reverse_index(t), t)
           /\ SameSize(TabForward(t), t) /\ SameSize(TabBackward(t), t)
  <1>1. SameSize(t, t)
    BY DEF SameSize
  <1>2. SameSize(goto(t, y, x), t)
    <2>1. PICK u : u = goto(t, y, x)
      OBVIOUS
    <2>2. \E c : u = [t EXCEPT !.cursor = c]
      BY <2>1 DEF goto
    <2> QED
      BY <2>1, <2>2, CursorSize
  <1>3. SameSize(move_forward(t, x), t) /\ SameSize(move_backward(t, x), t)
    BY PlaceSize DEF move_forward, move_backward
  <1>4. SameSize(linefeed(t), t) /\ SameSize(carriage_return(t), t)
    BY <1>1, PlaceSize DEF linefeed, carriage_return
  <1>5. SameSize(backspace(t), t) /\ SameSize(reverse_index(t), t)
    BY <1>1, PlaceSize DEF backspace, reverse_index
  <1>6. SameSize(TabForward(t), t) /\ SameSize(TabBackward(t), t)
    BY PlaceSize DEF TabForward, TabBackward
  <1> QED
    BY <1>2, <1>3, <1>4, <1>5, <1>6

(* a wrap to the next line, *)
LEMMA WrapSize ==
    ASSUME NEW t, Sound(t)
    PROVE  /\ Sound(wrapline(t)) /\ SameSize(wrapline(t), t)
           /\ Sound(AfterPendingWrap(t)) /\ SameSize(AfterPendingWrap(t), t)
  <1>1. PICK u : u = IF t.cursor.row + 1 >= t.region.end THEN linefeed(t)
                     ELSE AtRow(t, t.cursor.row + 1)
    OBVIOUS
  <1>2. Sound(u)
    <2>1. t.cursor.row + 1 < t.region.end => t.cursor.row + 1 \in 0 .. t.lines - 1
      BY SoundFacts
    <2>2. t.cursor.row + 1 >= t.region.end \/ t.cursor.row + 1 < t.region.end
      BY SoundFacts
    <2> QED
      BY <1>1, <2>1, <2>2, LinefeedSound, AtRowSound
  <1>3. SameSize(u, t)
    BY <1>1, MotionSize, PlaceSize
  <1>4. wrapline(t) = IF Is(t, "LINE_WRAP") THEN AtColumn(u, 0) ELSE t
    BY <1>1 DEF wrapline
  <1>5. SameSize(AtColumn(u, 0), u)
    BY <1>2, PlaceSize
  <1>6. SameSize(wrapline(t), t)
    BY <1>3, <1>4, <1>5 DEF SameSize
  <1>7. Sound(wrapline(t))
    BY WraplineSound
  <1> QED
    BY <1>6, <1>7 DEF AfterPendingWrap, SameSize

(* a step to the right. *)
LEMMA AdvanceSize ==
    ASSUME NEW t, Sound(t)
    PROVE  SameSize(Advance(t), t)
  <1>1. Advance(t) \in {[t EXCEPT !.cursor.col = t.cursor.col + 1], [t EXCEPT !.cursor.wrap = TRUE]}
    BY DEF Advance
  <1> QED
    BY <1>1, PlaceSize

(* Writing. *)
LEMMA WriteSize ==
    ASSUME NEW t, Sound(t)
    PROVE  /\ SameSize(InputNarrow(t), t) /\ SameSize(InputWide(t), t) /\ SameSize(put_tab(t), t)
           /\ WidenAllowed(t) => SameSize(WidenBase(t), t)
           /\ SameSize(NarrowBase(t), t)
  <1>1. PICK w : w = AfterPendingWrap(t)
    OBVIOUS
  <1>2. Sound(w) /\ SameSize(w, t)
    BY <1>1, WrapSize
  <1>3. SameSize(InputNarrow(t), t)
    BY <1>1, <1>2, AdvanceSize DEF InputNarrow, SameSize
  <1>4. SameSize(InputWide(t), t)
    <2>1. CASE ~NoRoomForWide(w)
      <3>1. PICK u : u = [w EXCEPT !.cursor.col = w.cursor.col + 1]
        OBVIOUS
      <3>2. InputWide(t) = Advance(u)
        BY <1>1, <2>1, <3>1 DEF InputWide
      <3>3. Sound(u)
        <4>1. w.cursor.col + 1 \in 0 .. w.columns - 1
          BY <1>2, <2>1, SoundFacts DEF NoRoomForWide
        <4> QED
          BY <1>2, <3>1, <4>1, ColumnSound
      <3>4. SameSize(u, w)
        BY <1>2, <3>1, PlaceSize
      <3> QED
        BY <1>2, <3>2, <3>3, <3>4, AdvanceSize DEF SameSize
    <2>2. CASE NoRoomForWide(w) /\ Is(w, "LINE_WRAP")
      <3>1. PICK v : v = wrapline(w)
        OBVIOUS
      <3>2. Sound(v) /\ SameSize(v, w) /\ v.cursor.col = 0
        BY <1>2, <2>2, <3>1, WrapSize, WraplineSound
      <3>3. PICK u : u = [v EXCEPT !.cursor.col = v.cursor.col + 1]
        OBVIOUS
      <3>4. InputWide(t) = Advance(u)
        BY <1>1, <2>2, <3>1, <3>3 DEF InputWide
      <3>5. Sound(u)
        <4>1. v.cursor.col + 1 \in 0 .. v.columns - 1
          BY <3>2, SoundFacts
        <4> QED
          BY <3>2, <3>3, <4>1, ColumnSound
      <3>6. SameSize(u, v)
        BY <3>2, <3>3, PlaceSize
      <3> QED
        BY <1>2, <3>2, <3>4, <3>5, <3>6, AdvanceSize DEF SameSize
    <2>3. CASE NoRoomForWide(w) /\ ~Is(w, "LINE_WRAP")
      <3>1. InputWide(t) = [w EXCEPT !.cursor.wrap = TRUE]
        BY <1>1, <2>3 DEF InputWide
      <3> QED
        BY <1>2, <3>1, PlaceSize DEF SameSize
    <2> QED
      BY <2>1, <2>2, <2>3
  <1>5. SameSize(put_tab(t), t)
    BY WrapSize, MotionSize DEF put_tab
  <1>6. ASSUME WidenAllowed(t) PROVE SameSize(WidenBase(t), t)
    <2>1. PICK base : base = IF t.cursor.wrap THEN t.cursor.col ELSE t.cursor.col - 1
      OBVIOUS
    <2>2. base \in 0 .. t.columns - 1 /\ t.columns \in Nat /\ t.columns >= 2
      BY <1>6, <2>1, SoundFacts DEF WidenAllowed
    <2>3. CASE base + 1 < t.columns
      <3>1. PICK u : u = AtColumn(t, base + 1)
        OBVIOUS
      <3>2. base + 1 \in 0 .. t.columns - 1
        BY <2>2, <2>3
      <3>3. Sound(u) /\ SameSize(u, t)
        BY <3>1, <3>2, AtColumnSound, PlaceSize
      <3>4. WidenBase(t) = Advance(u)
        BY <2>1, <2>3, <3>1 DEF WidenBase
      <3> QED
        BY <3>3, <3>4, AdvanceSize DEF SameSize
    <2>4. CASE ~(base + 1 < t.columns)
      <3>1. PICK u : u = AtColumn(t, base)
        OBVIOUS
      <3>2. Sound(u) /\ SameSize(u, t)
        BY <2>2, <3>1, AtColumnSound, PlaceSize
      <3>3. PICK w1 : w1 = wrapline(u)
        OBVIOUS
      <3>4. Sound(w1) /\ SameSize(w1, u)
        BY <3>2, <3>3, WrapSize
      <3>5. PICK v : v = [w1 EXCEPT !.cursor.col = 1]
        OBVIOUS
      <3>6. 1 \in 0 .. w1.columns - 1
        BY <2>2, <3>2, <3>4 DEF SameSize
      <3>7. Sound(v) /\ SameSize(v, w1)
        BY <3>4, <3>5, <3>6, ColumnSound, PlaceSize
      <3>8. WidenBase(t) = Advance(v)
        BY <2>1, <2>4, <3>1, <3>3, <3>5 DEF WidenBase
      <3> QED
        BY <3>2, <3>4, <3>7, <3>8, AdvanceSize DEF SameSize
    <2> QED
      BY <2>3, <2>4
  <1>7. SameSize(NarrowBase(t), t)
    BY PlaceSize DEF NarrowBase
  <1> QED
    BY <1>3, <1>4, <1>5, <1>6, <1>7

(* Modes, region, screens, tab stops. *)
LEMMA ScreenSize ==
    ASSUME NEW t, Sound(t), NEW m, NEW top, NEW bottom
    PROVE  /\ SameSize(save_cursor_position(t), t) /\ SameSize(restore_cursor_position(t), t)
           /\ SameSize(set_mode(t, m), t) /\ SameSize(unset_mode(t, m), t)
           /\ SameSize(SetAltScreen(t), t) /\ SameSize(UnsetAltScreen(t), t)
           /\ SameSize(reset_state(t), t)
           /\ SameSize(set_horizontal_tabstop(t), t) /\ SameSize(ClearTab(t), t)
           /\ SameSize(ClearTabs(t), t)
           /\ SameSize(set_scrolling_region(t, top, bottom), t)
           /\ SameSize(deccolm(t), t)
  <1>1. /\ SameSize(save_cursor_position(t), t) /\ SameSize(restore_cursor_position(t), t)
    BY DEF Sound, SameSize, save_cursor_position, restore_cursor_position
  <1>2. SameSize(set_mode(t, m), t) /\ SameSize(unset_mode(t, m), t)
    BY DEF Sound, SameSize, set_mode, unset_mode
  <1>3. SameSize(swap_alt(t), t)
    BY DEF Sound, SameSize, set_mode, unset_mode, swap_alt
  <1>4. SameSize(SetAltScreen(t), t) /\ SameSize(UnsetAltScreen(t), t)
    BY <1>3 DEF SetAltScreen, UnsetAltScreen, SameSize
  <1>5. SameSize(reset_state(t), t)
    BY DEF SameSize, reset_state, NewTerm
  <1>6. /\ SameSize(set_horizontal_tabstop(t), t) /\ SameSize(ClearTab(t), t)
        /\ SameSize(ClearTabs(t), t)
    BY DEF Sound, SameSize, set_horizontal_tabstop, ClearTab, ClearTabs
  <1>7. \A a, b : SameSize(set_scrolling_region(t, a, b), t)
    <2> SUFFICES ASSUME NEW a, NEW b PROVE SameSize(set_scrolling_region(t, a, b), t)
      OBVIOUS
    <2>1. PICK u : u = set_scrolling_region(t, a, b)
      OBVIOUS
    <2>2. \/ u = t
          \/ \E r, c : u = [[t EXCEPT !.region = r] EXCEPT !.cursor = c]
      BY <2>1 DEF set_scrolling_region, goto
    <2>3. ASSUME NEW r, NEW c, u = [[t EXCEPT !.region = r] EXCEPT !.cursor = c]
          PROVE  SameSize(u, t)
      BY <2>3 DEF Sound, SameSize
    <2> QED
      BY <2>1, <2>2, <2>3 DEF SameSize
  <1>8. SameSize(deccolm(t), t)
    BY <1>7 DEF deccolm
  <1> QED
    BY <1>1, <1>2, <1>4, <1>5, <1>6, <1>7, <1>8
-----------------------------------------------------------------------------
(* Scrolling paints. *)

(* An empty region does not scroll. *)
LEMMA EmptyScroll ==
    ASSUME NEW lines \in Nat, lines >= 1, NEW columns \in Nat, NEW g, Shape(g, lines, columns),
           NEW s \in Nat, s >= 1, s <= lines, NEW n, n = 0
    PROVE  scroll_up(g, s, s, n) = g
  <1>1. PICK m : m = AtMost(n, s - s)
    OBVIOUS
  <1>2. m = 0
    BY <1>1 DEF AtMost
  <1>3. PICK list : list = SubSeq(g.screen, s + m + 1, s) \o Blanks(m, columns)
    OBVIOUS
  <1>4. IsRows(list, s - s, {columns})
    <2>1. PICK a : a = s + m
      OBVIOUS
    <2>2. a \in Nat /\ a <= s /\ s - a + m = s - s /\ m \in Nat
      BY <1>2, <2>1
    <2>3. IsRows(SubSeq(g.screen, a + 1, s) \o Blanks(m, columns), s - a + m, {columns})
      BY <2>2, MovedRows
    <2>4. a + 1 = s + m + 1
      BY <1>2, <2>1
    <2> QED
      BY <1>3, <2>2, <2>3, <2>4
  <1>5. PICK h : h = WithRegion(g, s, s, list)
    OBVIOUS
  <1>6. Shape(h, lines, columns) /\ Redrawn(h, g, lines, s, s)
    BY <1>4, <1>5, RegionShape
  <1>7. Columns(g) = columns
    BY ShapeFacts
  <1>8. s - s <= n /\ s # 0
    OBVIOUS
  <1>9. scroll_up(g, s, s, n) = h
    BY <1>1, <1>3, <1>5, <1>7, <1>8 DEF scroll_up
  <1>10. \A i \in 1 .. lines : h.screen[i] = g.screen[i]
    BY <1>6 DEF Redrawn
  <1>11. PICK a, b : a = h.screen /\ b = g.screen
    OBVIOUS
  <1>12. a = [i \in 1 .. lines |-> a[i]] /\ b = [i \in 1 .. lines |-> b[i]]
    BY <1>6, <1>11 DEF Shape, IsRows, Spans
  <1>13. \A i \in 1 .. lines : a[i] = b[i]
    BY <1>10, <1>11
  <1>14. a = b
    BY <1>12, <1>13
  <1>15. h = g
    BY <1>6, <1>11, <1>14 DEF Shape, Redrawn
  <1> QED
    BY <1>9, <1>15

(* Scrolling the region up, from its top or from the cursor, paints, *)
LEMMA ScrollUpPaints ==
    ASSUME NEW t, Sound(t), NEW k, RowsForm(k, t.lines, t.columns),
           NEW origin \in Nat, t.region.start <= origin,
           origin < t.region.end \/ origin = t.region.start, NEW n \in Nat
    PROVE  Paints(k, scroll_up_relative(t, k, origin, n), t.lines, t.columns)
  <1>1. PICK lines, columns, end, g : /\ lines = t.lines /\ columns = t.columns
                                      /\ end = t.region.end /\ g = k.grid
    OBVIOUS
  <1>2. /\ lines \in Nat /\ lines >= 1 /\ columns \in Nat /\ end \in Nat /\ end >= 1 /\ end <= lines
        /\ origin <= end /\ t.region.start \in Int /\ 0 <= t.region.start /\ t.region.start <= end
    BY <1>1, SoundFacts
  <1>3. PICK m : m = AtMost(n, end - t.region.start)
    OBVIOUS
  <1>4. m \in Nat /\ m <= end - t.region.start /\ m <= end
    BY <1>2, <1>3 DEF AtMost
  <1>5. PICK h : h = scroll_up(g, origin, end, m)
    OBVIOUS
  <1>6. Shape(g, lines, columns)
    BY <1>1 DEF RowsForm
  <1>7. Shape(h, lines, columns) /\ (ViewFollows(g, origin, end, m) => Keeps(g, h, lines))
    BY <1>2, <1>4, <1>5, <1>6, ScrollUpShape
  <1>8. PICK slip : slip = (k.slipped \/ ~ViewFollows(g, origin, end, m))
    OBVIOUS
  <1>9. PICK q : q = [k EXCEPT !.grid = h, !.slipped = slip]
    OBVIOUS
  <1>10. q = [grid |-> h, inactive |-> k.inactive, damage |-> k.damage,
              last_cursor |-> k.last_cursor, slipped |-> slip]
    BY <1>9 DEF RowsForm
  <1>11. /\ q.grid = h /\ q.inactive = k.inactive /\ q.damage = k.damage
         /\ q.last_cursor = k.last_cursor /\ q.slipped = slip
    BY <1>10
  <1>12. slip \in BOOLEAN
    BY <1>8
  <1>13. RowsForm(q, lines, columns)
    BY <1>1, <1>7, <1>10, <1>11, <1>12 DEF RowsForm
  <1>14. k.slipped = TRUE => slip = TRUE
    BY <1>8
  <1>15. slip = TRUE \/ Keeps(g, h, lines)
    BY <1>7, <1>8
  <1>16. Edits(k, q, lines, columns)
    BY <1>1, <1>11, <1>13, <1>14, <1>15 DEF Edits
  <1>17. scroll_up_relative(t, k, origin, n) = IF origin < end THEN Damaged(q) ELSE q
    BY <1>1, <1>3, <1>5, <1>8, <1>9 DEF scroll_up_relative
  <1>18. CASE origin < end
    BY <1>1, <1>16, <1>17, <1>18, DamagedPaints
  <1>19. CASE ~(origin < end)
    <2>1. origin = end /\ m = 0
      BY <1>1, <1>2, <1>4, <1>19
    <2>2. h = g
      BY <1>2, <1>5, <1>6, <2>1, EmptyScroll
    <2> QED
      BY <1>1, <1>11, <1>16, <1>17, <1>19, <2>2 DEF Paints
  <1> QED
    BY <1>18, <1>19

(* and scrolling it down does, which damages everything. *)
LEMMA ScrollDownPaints ==
    ASSUME NEW t, Sound(t), NEW k, RowsForm(k, t.lines, t.columns),
           NEW origin \in Nat, origin <= t.region.end, NEW n \in Nat
    PROVE  Paints(k, scroll_down_relative(t, k, origin, n), t.lines, t.columns)
  <1>1. PICK lines, columns, end, g : /\ lines = t.lines /\ columns = t.columns
                                      /\ end = t.region.end /\ g = k.grid
    OBVIOUS
  <1>2. /\ lines \in Nat /\ lines >= 1 /\ columns \in Nat /\ end \in Nat /\ end <= lines
        /\ origin <= end /\ t.region.start \in Int /\ t.region.start <= end
    BY <1>1, SoundFacts
  <1>3. PICK m : m = AtMost(AtMost(n, end - t.region.start), end - origin)
    OBVIOUS
  <1>4. m \in Nat
    BY <1>2, <1>3 DEF AtMost
  <1>5. PICK h : h = scroll_down(g, origin, end, m)
    OBVIOUS
  <1>6. Shape(h, lines, columns)
    BY <1>1, <1>2, <1>4, <1>5, ScrollDownShape DEF RowsForm
  <1>7. scroll_down_relative(t, k, origin, n) = mark_fully_damaged([k EXCEPT !.grid = h])
    BY <1>1, <1>3, <1>5 DEF scroll_down_relative
  <1>8. RowsForm(k, lines, columns) /\ (k.slipped = TRUE => k.slipped = TRUE)
    BY <1>1
  <1>9. Paints(k, mark_fully_damaged([k EXCEPT !.grid = h]), lines, columns)
    BY ONLY <1>6, <1>8, GridsPaint
  <1> QED
    BY <1>1, <1>7, <1>9

(* Linefeed and reverse index paint. *)
LEMMA FeedPaints ==
    ASSUME NEW t, Sound(t), NEW k, RowsForm(k, t.lines, t.columns)
    PROVE  /\ Paints(k, LinefeedRows(t, k), t.lines, t.columns)
           /\ Paints(k, ReverseIndexRows(t, k), t.lines, t.columns)
  <1>1. PICK origin, n : origin = t.region.start /\ n = 1
    OBVIOUS
  <1>2. /\ origin \in Nat /\ t.region.start <= origin /\ origin <= t.region.end /\ n \in Nat
        /\ (origin < t.region.end \/ origin = t.region.start)
    BY <1>1, SoundFacts
  <1>3. Paints(k, scroll_up_relative(t, k, origin, n), t.lines, t.columns)
    BY <1>2, ScrollUpPaints
  <1>4. Paints(k, scroll_down_relative(t, k, origin, n), t.lines, t.columns)
    BY <1>2, ScrollDownPaints
  <1>5. Paints(k, k, t.lines, t.columns) /\ Edits(k, k, t.lines, t.columns)
    BY PaintsSame
  <1>6. Paints(k, Damaged(k), t.lines, t.columns)
    BY <1>5, DamagedPaints
  <1>7. LinefeedRows(t, k) \in {scroll_up_relative(t, k, origin, n), Damaged(k), k}
    BY <1>1 DEF LinefeedRows
  <1>8. ReverseIndexRows(t, k) \in {scroll_down_relative(t, k, origin, n), Damaged(k)}
    BY <1>1 DEF ReverseIndexRows
  <1> QED
    BY <1>3, <1>4, <1>5, <1>6, <1>7, <1>8

(* Deleting and inserting lines paints. *)
LEMMA LinesPaint ==
    ASSUME NEW t, Sound(t), NEW k, RowsForm(k, t.lines, t.columns), NEW n \in Nat
    PROVE  /\ Paints(k, DeleteLinesRows(t, k, n), t.lines, t.columns)
           /\ Paints(k, InsertLinesRows(t, k, n), t.lines, t.columns)
  <1>1. Paints(k, k, t.lines, t.columns)
    BY PaintsSame
  <1>2. CASE InRegion(t, t.cursor.row)
    <2>1. PICK origin, m : origin = t.cursor.row /\ m = AtMost(n, t.lines - t.cursor.row)
      OBVIOUS
    <2>2. t.lines \in Nat /\ t.cursor.row \in 0 .. t.lines - 1 /\ t.region.end \in Int
      BY SoundFacts
    <2>3. m \in Nat
      BY <2>1, <2>2 DEF AtMost
    <2>4. /\ origin \in Nat /\ t.region.start <= origin
          /\ origin < t.region.end /\ origin <= t.region.end
      BY <1>2, <2>1, <2>2 DEF InRegion
    <2>5. Paints(k, scroll_up_relative(t, k, origin, m), t.lines, t.columns)
      BY <2>3, <2>4, ScrollUpPaints
    <2>6. Paints(k, scroll_down_relative(t, k, origin, n), t.lines, t.columns)
      BY <2>4, ScrollDownPaints
    <2> QED
      BY <1>2, <2>1, <2>5, <2>6 DEF DeleteLinesRows, InsertLinesRows
  <1>3. CASE ~InRegion(t, t.cursor.row)
    BY <1>1, <1>3 DEF DeleteLinesRows, InsertLinesRows
  <1> QED
    BY <1>2, <1>3

-----------------------------------------------------------------------------
(* Characters. *)

(* A row whose leading spacer is taken away. *)
LEMMA SpacelessSpan ==
    ASSUME NEW n \in Nat, NEW cells, Spans(cells, n), NEW j
    PROVE  Spans([cells EXCEPT ![j].c = IF @ = "l" THEN " " ELSE @], n)
  <1>1. PICK e : e = [cells[j] EXCEPT !.c = IF @ = "l" THEN " " ELSE @]
    OBVIOUS
  <1>2. PICK u : u = [cells EXCEPT ![j] = e]
    OBVIOUS
  <1>3. [cells EXCEPT ![j].c = IF @ = "l" THEN " " ELSE @] = u
    BY <1>1, <1>2
  <1>4. Changed(u, cells, n, j, e)
    BY <1>2, SpanExcept
  <1> QED
    BY <1>3, <1>4 DEF Changed

(* The row above loses its leading spacer; it may be in the history. *)
LEMMA SpacelessEdits ==
    ASSUME NEW lines \in Nat, lines >= 1, NEW columns \in Nat, NEW k, RowsForm(k, lines, columns),
           NEW row, NEW j
    PROVE  /\ row \in 1 .. lines =>
                Edits(k, [k EXCEPT !.grid.screen[row] = Spaceless(@, columns)],
                      lines, columns)
           /\ Edits(k, [k EXCEPT !.grid.history[j] = Spaceless(@, columns)],
                    lines, columns)
  <1>1. ASSUME row \in 1 .. lines
        PROVE  Edits(k, [k EXCEPT !.grid.screen[row] = Spaceless(@, columns)],
                      lines, columns)
    <2>1. PICK cells : cells = k.grid.screen[row].cells
      OBVIOUS
    <2>2. Spans(cells, columns)
      BY <1>1, <2>1 DEF RowsForm, Shape, IsRows, IsRow
    <2>3. PICK u : u = [cells EXCEPT ![columns].c = IF @ = "l" THEN " " ELSE @]
      OBVIOUS
    <2>4. Spans(u, columns)
      BY <2>2, <2>3, SpacelessSpan
    <2>5. PICK m : m = [k EXCEPT !.grid.screen[row] = Dirty(u)]
      OBVIOUS
    <2>6. Edits(k, m, lines, columns)
      BY ONLY <2>4, <2>5, RowEdits, lines \in Nat, lines >= 1, columns \in Nat, RowsForm(k, lines, columns)
    <2>7. Spaceless(k.grid.screen[row], columns) = Dirty(u)
      BY <2>1, <2>3 DEF Spaceless
    <2> QED
      BY <2>5, <2>6, <2>7
  <1>2. Edits(k, [k EXCEPT !.grid.history[j] = Spaceless(@, columns)],
                    lines, columns)
    <2>1. PICK cells : cells = k.grid.history[j].cells
      OBVIOUS
    <2>2. j \in 1 .. HistorySize(k.grid) => Spans(cells, columns)
      BY <2>1 DEF RowsForm, Shape, IsRows, IsRow
    <2>3. PICK u : u = [cells EXCEPT ![columns].c = IF @ = "l" THEN " " ELSE @]
      OBVIOUS
    <2>4. j \in 1 .. HistorySize(k.grid) => Spans(u, columns)
      BY <2>2, <2>3, SpacelessSpan
    <2>5. PICK m : m = [k EXCEPT !.grid.history[j] = Dirty(u)]
      OBVIOUS
    <2>6. Edits(k, m, lines, columns)
      BY ONLY <2>4, <2>5, HistoryEdits, lines \in Nat, lines >= 1, columns \in Nat, RowsForm(k, lines, columns)
    <2>7. Spaceless(k.grid.history[j], columns) = Dirty(u)
      BY <2>1, <2>3 DEF Spaceless
    <2> QED
      BY <2>5, <2>6, <2>7
  <1> QED
    BY <1>1, <1>2

(* Removing the other half of a wide character is an edit, *)
LEMMA ClearHalfEdits ==
    ASSUME NEW t, Sound(t), NEW k, RowsForm(k, t.lines, t.columns)
    PROVE  Edits(k, ClearOtherHalf(t, k), t.lines, t.columns)
  <1>1. PICK lines, columns, row, j : /\ lines = t.lines /\ columns = t.columns
                                      /\ row = t.cursor.row /\ j = Len(k.grid.history)
    OBVIOUS
  <1>2. lines \in Nat /\ lines >= 1 /\ columns \in Nat /\ row \in 0 .. lines - 1
    BY <1>1, SoundFacts
  <1>3. PICK col, cells, old : col = t.cursor.col /\ cells = CursorCells(t, k) /\ old = cells[col + 1].c
    OBVIOUS
  <1>4. PICK half : half = CASE old = "E" /\ col < LastColumn(t) ->
                                WithCell(t, k, col + 1, Unwiden(cells[col + 2]))
                             [] ~(old = "E" /\ col < LastColumn(t)) /\ col > 0 ->
                                WithCell(t, k, col - 1, Empty)
                             [] OTHER -> k
    OBVIOUS
  <1>5. Edits(k, half, lines, columns)
    <2>1. half \in {WithCell(t, k, col + 1, Unwiden(cells[col + 2])), WithCell(t, k, col - 1, Empty), k}
      BY <1>4
    <2>2. \A x, y : Edits(k, WithCell(t, k, x, y), lines, columns)
      BY <1>1, CellEdit
    <2>3. Edits(k, k, lines, columns)
      BY <1>1, PaintsSame
    <2> QED
      BY <2>1, <2>2, <2>3
  <1>6. RowsForm(half, lines, columns)
    BY <1>5 DEF Edits
  <1>7. PICK u : u = [half EXCEPT !.grid.screen[row] = Spaceless(@, columns)]
    OBVIOUS
  <1>8. PICK v : v = [half EXCEPT !.grid.history[j] = Spaceless(@, columns)]
    OBVIOUS
  <1>9. Edits(half, v, lines, columns) /\ (row > 0 => Edits(half, u, lines, columns))
    <2>1. row > 0 => row \in 1 .. lines
      BY <1>2
    <2> QED
      BY <1>2, <1>6, <1>7, <1>8, <2>1, SpacelessEdits
  <1>10. ClearOtherHalf(t, k) = CASE old \notin {"E", "s"} -> k
          [] old \in {"E", "s"} /\ col <= 1 /\ row > 0 -> u
          [] old \in {"E", "s"} /\ col <= 1 /\ row = 0 /\ k.grid.history # <<>> -> v
          [] OTHER -> half
    BY <1>1, <1>3, <1>4, <1>7, <1>8 DEF ClearOtherHalf
  <1>11. PICK m : m = ClearOtherHalf(t, k)
    OBVIOUS
  <1>12. m = k \/ m = half \/ m = v \/ (row > 0 /\ m = u)
    BY <1>10, <1>11
  <1>13. Edits(k, k, lines, columns)
    BY <1>1, PaintsSame
  <1>14. row > 0 /\ m = u => Edits(k, m, lines, columns)
    BY <1>5, <1>9, EditsTrans
  <1>15. Edits(k, v, lines, columns)
    BY <1>5, <1>9, EditsTrans
  <1> QED
    BY <1>1, <1>5, <1>11, <1>12, <1>13, <1>14, <1>15

(* and writing at the cursor is. *)
LEMMA WriteEdits ==
    ASSUME NEW t, Sound(t), NEW k, RowsForm(k, t.lines, t.columns), NEW c
    PROVE  Edits(k, write_at_cursor(t, k, c), t.lines, t.columns)
  <1>1. PICK m, col, cell : m = ClearOtherHalf(t, k) /\ col = t.cursor.col /\ cell = Cell(c)
    OBVIOUS
  <1>2. Edits(k, m, t.lines, t.columns)
    BY <1>1, ClearHalfEdits
  <1>3. RowsForm(m, t.lines, t.columns)
    BY <1>2 DEF Edits
  <1>4. Edits(m, WithCell(t, m, col, cell), t.lines, t.columns)
    BY <1>3, CellEdit
  <1>5. write_at_cursor(t, k, c) = WithCell(t, m, col, cell)
    BY <1>1 DEF write_at_cursor
  <1> QED
    BY <1>2, <1>4, <1>5, EditsTrans

(* A line break at the end of a row, and the one that is due. *)
LEMMA WrapPaints ==
    ASSUME NEW t, Sound(t), NEW k, RowsForm(k, t.lines, t.columns)
    PROVE  /\ Paints(k, WraplineRows(t, k), t.lines, t.columns)
           /\ Paints(k, PendingWrapRows(t, k), t.lines, t.columns)
  <1>1. PICK lines, columns : lines = t.lines /\ columns = t.columns
    OBVIOUS
  <1>2. PICK col, cell : /\ col = t.cursor.col
                         /\ cell = [CursorCells(t, k)[t.cursor.col + 1] EXCEPT !.wrapline = TRUE]
    OBVIOUS
  <1>3. PICK flagged : flagged = WithCell(t, k, col, cell)
    OBVIOUS
  <1>4. Edits(k, flagged, lines, columns)
    BY <1>1, <1>3, CellEdit
  <1>5. RowsForm(flagged, t.lines, t.columns)
    BY <1>1, <1>4 DEF Edits
  <1>6. PICK fed : fed = LinefeedRows(t, flagged)
    OBVIOUS
  <1>7. Edits(flagged, fed, lines, columns)
    BY <1>1, <1>5, <1>6, FeedPaints DEF Paints
  <1>8. Edits(k, fed, lines, columns)
    BY <1>4, <1>7, EditsTrans
  <1>9. Paints(k, Damaged(fed), lines, columns) /\ Paints(k, Damaged(flagged), lines, columns)
    BY <1>4, <1>8, DamagedPaints
  <1>10. Paints(k, k, lines, columns)
    BY <1>1, PaintsSame
  <1>11. WraplineRows(t, k) \in {k, Damaged(fed), Damaged(flagged)}
    BY <1>2, <1>3, <1>6 DEF WraplineRows
  <1>12. Paints(k, WraplineRows(t, k), lines, columns)
    BY <1>9, <1>10, <1>11
  <1> QED
    BY <1>1, <1>10, <1>12 DEF PendingWrapRows

(* In insert mode the rest of the row moves. *)
LEMMA ShiftEdits ==
    ASSUME NEW t, Sound(t), NEW k, RowsForm(k, t.lines, t.columns), NEW width \in Nat
    PROVE  Edits(k, InsertShift(t, k, width), t.lines, t.columns)
  <1>1. PICK columns, col, cells : /\ columns = t.columns /\ col = t.cursor.col
                                   /\ cells = CursorCells(t, k)
    OBVIOUS
  <1>2. columns \in Nat /\ col \in 0 .. columns - 1 /\ Spans(cells, columns)
    BY <1>1, SoundFacts, CursorSpan
  <1>3. CASE Is(t, "INSERT") /\ col + width < columns
    <2>1. PICK n : n = columns - width - col
      OBVIOUS
    <2>2. n \in Nat
      BY <1>2, <1>3, <2>1
    <2>3. PICK list : list = [i \in 1 .. n |-> col + i - 1]
      OBVIOUS
    <2>4. Spans(list, n)
      BY <2>3 DEF Spans
    <2>5. PICK positions : positions = Reverse(list)
      OBVIOUS
    <2>6. Spans(positions, n)
      BY <2>2, <2>4, <2>5, SpanReverse
    <2>7. PICK u : u = Exchanged(cells, positions, width)
      OBVIOUS
    <2>8. Spans(u, columns)
      BY <1>2, <2>2, <2>6, <2>7, ExchangedSpan
    <2>9. InsertShift(t, k, width) = WithCells(t, k, u)
      BY <1>1, <1>3, <2>1, <2>3, <2>5, <2>7 DEF InsertShift
    <2> QED
      BY <1>1, <2>8, <2>9, CellsEdit
  <1>4. CASE ~(Is(t, "INSERT") /\ col + width < columns)
    BY <1>1, <1>4, PaintsSame DEF InsertShift
  <1> QED
    BY <1>3, <1>4

(* A narrow character paints. *)
LEMMA NarrowInputPaints ==
    ASSUME NEW t, Sound(t), NEW k, RowsForm(k, t.lines, t.columns), NEW c
    PROVE  Paints(k, InputNarrowRows(t, k, c), t.lines, t.columns)
  <1>1. PICK w, width : w = AfterPendingWrap(t) /\ width = 1
    OBVIOUS
  <1>2. Sound(w) /\ w.lines = t.lines /\ w.columns = t.columns /\ width \in Nat
    BY <1>1, WrapSize DEF SameSize
  <1>3. PICK a : a = PendingWrapRows(t, k)
    OBVIOUS
  <1>4. Edits(k, a, t.lines, t.columns)
    BY <1>3, WrapPaints DEF Paints
  <1>5. PICK b : b = InsertShift(w, a, width)
    OBVIOUS
  <1>6. Edits(a, b, t.lines, t.columns)
    <2>1. RowsForm(a, w.lines, w.columns)
      BY <1>2, <1>4 DEF Edits
    <2>2. Edits(a, InsertShift(w, a, width), w.lines, w.columns)
      BY <1>2, <2>1, ShiftEdits
    <2> QED
      BY <1>2, <1>5, <2>2
  <1>7. PICK q : q = write_at_cursor(w, b, c)
    OBVIOUS
  <1>8. Edits(b, q, t.lines, t.columns)
    <2>1. RowsForm(b, w.lines, w.columns)
      BY <1>2, <1>6 DEF Edits
    <2>2. Edits(b, write_at_cursor(w, b, c), w.lines, w.columns)
      BY <1>2, <2>1, WriteEdits
    <2> QED
      BY <1>2, <1>7, <2>2
  <1>9. Edits(k, b, t.lines, t.columns)
    BY <1>4, <1>6, EditsTrans
  <1>10. Edits(k, q, t.lines, t.columns)
    BY <1>8, <1>9, EditsTrans
  <1>11. InputNarrowRows(t, k, c) = Damaged(q)
    BY <1>1, <1>3, <1>5, <1>7 DEF InputNarrowRows
  <1> QED
    BY <1>10, <1>11, DamagedPaints

(* Both halves of a wide character. *)
LEMMA WritesWide ==
    ASSUME NEW t, Sound(t), t.cursor.col + 1 < t.columns,
           NEW k, NEW m, Edits(k, m, t.lines, t.columns)
    PROVE  Paints(k, WriteWide(t, m), t.lines, t.columns)
  <1>1. PICK a : a = write_at_cursor(t, m, "E")
    OBVIOUS
  <1>2. RowsForm(m, t.lines, t.columns)
    BY DEF Edits
  <1>3. Edits(m, a, t.lines, t.columns)
    BY <1>1, <1>2, WriteEdits
  <1>4. PICK w : w = AtColumn(t, t.cursor.col + 1)
    OBVIOUS
  <1>5. t.cursor.col + 1 \in 0 .. t.columns - 1
    BY SoundFacts
  <1>6. Sound(w) /\ w.lines = t.lines /\ w.columns = t.columns
    BY <1>4, <1>5, AtColumnSound, PlaceSize DEF SameSize
  <1>7. PICK b : b = write_at_cursor(w, a, "s")
    OBVIOUS
  <1>8. Edits(a, b, t.lines, t.columns)
    <2>1. RowsForm(a, w.lines, w.columns)
      BY <1>3, <1>6 DEF Edits
    <2>2. Edits(a, write_at_cursor(w, a, "s"), w.lines, w.columns)
      BY <1>6, <2>1, WriteEdits
    <2> QED
      BY <1>6, <1>7, <2>2
  <1>9. Edits(k, a, t.lines, t.columns)
    BY <1>3, EditsTrans
  <1>10. Edits(k, b, t.lines, t.columns)
    BY <1>8, <1>9, EditsTrans
  <1>11. WriteWide(t, m) = Damaged(b)
    BY <1>1, <1>4, <1>7 DEF WriteWide
  <1> QED
    BY <1>10, <1>11, DamagedPaints

(* A wide character paints, also when it has to wrap. *)
LEMMA WideInputPaints ==
    ASSUME NEW t, Sound(t), NEW k, RowsForm(k, t.lines, t.columns)
    PROVE  Paints(k, InputWideRows(t, k), t.lines, t.columns)
  <1>1. PICK w, width : w = AfterPendingWrap(t) /\ width = 2
    OBVIOUS
  <1>2. Sound(w) /\ w.lines = t.lines /\ w.columns = t.columns /\ width \in Nat
    BY <1>1, WrapSize DEF SameSize
  <1>3. PICK a : a = PendingWrapRows(t, k)
    OBVIOUS
  <1>4. Paints(k, a, t.lines, t.columns) /\ Edits(k, a, t.lines, t.columns)
    BY <1>3, WrapPaints DEF Paints
  <1>5. PICK b : b = InsertShift(w, a, width)
    OBVIOUS
  <1>6. Edits(k, b, t.lines, t.columns)
    <2>1. RowsForm(a, w.lines, w.columns)
      BY <1>2, <1>4 DEF Edits
    <2>2. Edits(a, InsertShift(w, a, width), w.lines, w.columns)
      BY <1>2, <2>1, ShiftEdits
    <2>3. Edits(a, b, t.lines, t.columns)
      BY <1>2, <1>5, <2>2
    <2> QED
      BY <1>4, <2>3, EditsTrans
  <1>7. CASE ~NoRoomForWide(w)
    <2>1. w.cursor.col + 1 < w.columns
      BY <1>2, <1>7, SoundFacts DEF NoRoomForWide
    <2>2. InputWideRows(t, k) = WriteWide(w, b)
      BY <1>1, <1>3, <1>5, <1>7 DEF InputWideRows
    <2>3. Edits(k, b, w.lines, w.columns)
      BY <1>2, <1>6
    <2>4. Paints(k, WriteWide(w, b), w.lines, w.columns)
      BY <1>2, <2>1, <2>3, WritesWide
    <2> QED
      BY <1>2, <2>2, <2>4
  <1>8. CASE NoRoomForWide(w) /\ Is(w, "LINE_WRAP")
    <2>1. PICK d : d = write_at_cursor(w, b, "l")
      OBVIOUS
    <2>2. Edits(k, d, w.lines, w.columns)
      <3>1. RowsForm(b, w.lines, w.columns) /\ Edits(k, b, w.lines, w.columns)
        BY <1>2, <1>6 DEF Edits
      <3>2. Edits(b, d, w.lines, w.columns)
        BY <1>2, <2>1, <3>1, WriteEdits
      <3> QED
        BY <3>1, <3>2, EditsTrans
    <2>3. PICK e : e = WraplineRows(w, d)
      OBVIOUS
    <2>4. Edits(k, e, w.lines, w.columns)
      <3>1. RowsForm(d, w.lines, w.columns)
        BY <2>2 DEF Edits
      <3>2. Edits(d, e, w.lines, w.columns)
        BY <1>2, <2>3, <3>1, WrapPaints DEF Paints
      <3> QED
        BY <2>2, <3>2, EditsTrans
    <2>5. PICK v : v = wrapline(w)
      OBVIOUS
    <2>6. Sound(v) /\ v.lines = w.lines /\ v.columns = w.columns /\ v.cursor.col = 0
      BY <1>2, <1>8, <2>5, WrapSize, WraplineSound DEF SameSize
    <2>7. v.cursor.col + 1 < v.columns
      BY <2>6, SoundFacts
    <2>8. Edits(k, e, v.lines, v.columns)
      BY <2>4, <2>6
    <2>9. Paints(k, WriteWide(v, e), v.lines, v.columns)
      BY <2>6, <2>7, <2>8, WritesWide
    <2>10. InputWideRows(t, k) = WriteWide(v, e)
      BY <1>1, <1>3, <1>5, <1>8, <2>1, <2>3, <2>5 DEF InputWideRows
    <2> QED
      BY <1>2, <2>6, <2>9, <2>10
  <1>9. CASE NoRoomForWide(w) /\ ~Is(w, "LINE_WRAP")
    <2>1. InputWideRows(t, k) = b
      BY <1>1, <1>3, <1>5, <1>9 DEF InputWideRows
    <2>2. ~(w.cursor.col + width < w.columns)
      BY <1>1, <1>2, <1>9, SoundFacts DEF NoRoomForWide
    <2>3. b = a
      BY <1>5, <2>2 DEF InsertShift
    <2> QED
      BY <1>4, <2>1, <2>3
  <1> QED
    BY <1>7, <1>8, <1>9

(* Zero-width characters, and what the variation selectors do. *)
LEMMA CombinePaints ==
    ASSUME NEW t, Sound(t), NEW k, RowsForm(k, t.lines, t.columns)
    PROVE  Paints(k, CombineRows(t, k), t.lines, t.columns)
  <1>1. \E col, cell : CombineRows(t, k) = Damaged(WithCell(t, k, col, cell))
    BY DEF CombineRows
  <1>2. PICK col, cell : CombineRows(t, k) = Damaged(WithCell(t, k, col, cell))
    BY <1>1
  <1>3. Edits(k, WithCell(t, k, col, cell), t.lines, t.columns)
    BY CellEdit
  <1> QED
    BY <1>2, <1>3, DamagedPaints

(* Widening the character before the cursor paints, *)
LEMMA WidenPaints ==
    ASSUME NEW t, Sound(t), NEW k, RowsForm(k, t.lines, t.columns), WidenAllowed(t)
    PROVE  Paints(k, WidenRows(t, k), t.lines, t.columns)
  <1>1. PICK col, cell : /\ col = BaseColumn(t)
                         /\ cell = [CursorCells(t, k)[BaseColumn(t) + 1] EXCEPT !.c = "E"]
    OBVIOUS
  <1>2. t.columns \in Nat /\ t.columns >= 2 /\ col \in 0 .. t.columns - 1
    BY <1>1, SoundFacts DEF BaseColumn, AtLeast
  <1>3. CASE col + 1 < t.columns
    <2>1. PICK w, a, b : /\ w = AtColumn(t, col + 1) /\ a = WithCell(t, k, col, cell)
                         /\ b = write_at_cursor(w, a, "s")
      OBVIOUS
    <2>2. col + 1 \in 0 .. t.columns - 1
      BY <1>2, <1>3
    <2>3. Sound(w) /\ w.lines = t.lines /\ w.columns = t.columns
      BY <2>1, <2>2, AtColumnSound, PlaceSize DEF SameSize
    <2>4. Edits(k, a, t.lines, t.columns)
      BY <2>1, CellEdit
    <2>5. RowsForm(a, w.lines, w.columns)
      BY <2>3, <2>4 DEF Edits
    <2>6. Edits(a, b, w.lines, w.columns)
      BY <2>1, <2>3, <2>5, WriteEdits
    <2>7. Edits(a, b, t.lines, t.columns)
      BY <2>3, <2>6
    <2>8. Edits(k, b, t.lines, t.columns)
      BY <2>4, <2>7, EditsTrans
    <2>9. WidenRows(t, k) = Damaged(b)
      BY <1>1, <1>3, <2>1 DEF WidenRows
    <2> QED
      BY <2>8, <2>9, DamagedPaints
  <1>4. CASE ~(col + 1 < t.columns)
    <2>1. PICK base, a, b : /\ base = AtColumn(t, col) /\ a = write_at_cursor(base, k, "l")
                            /\ b = WraplineRows(base, a)
      OBVIOUS
    <2>2. Sound(base) /\ base.lines = t.lines /\ base.columns = t.columns
      BY <1>2, <2>1, AtColumnSound, PlaceSize DEF SameSize
    <2>3. RowsForm(k, base.lines, base.columns)
      BY <2>2
    <2>4. Edits(k, a, base.lines, base.columns)
      BY <2>1, <2>2, <2>3, WriteEdits
    <2>5. RowsForm(a, base.lines, base.columns)
      BY <2>4 DEF Edits
    <2>6. Edits(a, b, base.lines, base.columns)
      BY <2>1, <2>2, <2>5, WrapPaints DEF Paints
    <2>7. Edits(k, b, t.lines, t.columns)
      BY <2>2, <2>4, <2>6, EditsTrans
    <2>8. PICK v : v = wrapline(base)
      OBVIOUS
    <2>9. Sound(v) /\ v.lines = t.lines /\ v.columns = t.columns
      BY <2>2, <2>8, WrapSize DEF SameSize
    <2>10. PICK d, zero, one : zero = 0 /\ one = 1 /\ d = WithCell(v, b, zero, cell)
      OBVIOUS
    <2>11. RowsForm(b, v.lines, v.columns)
      BY <2>7, <2>9 DEF Edits
    <2>12. Edits(b, d, v.lines, v.columns)
      BY <2>9, <2>10, <2>11, CellEdit
    <2>13. Edits(k, d, t.lines, t.columns)
      BY <2>7, <2>9, <2>12, EditsTrans
    <2>14. PICK u, e : u = AtColumn(v, one) /\ e = write_at_cursor(u, d, "s")
      OBVIOUS
    <2>15. one \in 0 .. v.columns - 1
      BY <1>2, <2>9, <2>10
    <2>16. Sound(u) /\ u.lines = t.lines /\ u.columns = t.columns
      BY <2>9, <2>14, <2>15, AtColumnSound, PlaceSize DEF SameSize
    <2>17. RowsForm(d, u.lines, u.columns)
      BY <2>13, <2>16 DEF Edits
    <2>18. Edits(d, e, u.lines, u.columns)
      BY <2>14, <2>16, <2>17, WriteEdits
    <2>19. Edits(k, e, t.lines, t.columns)
      BY <2>13, <2>16, <2>18, EditsTrans
    <2>20. WidenRows(t, k) = Damaged(e)
      BY <1>1, <1>4, <2>1, <2>8, <2>10, <2>14 DEF WidenRows
    <2> QED
      BY <2>19, <2>20, DamagedPaints
  <1> QED
    BY <1>3, <1>4

(* narrowing it does, *)
LEMMA NarrowPaints ==
    ASSUME NEW t, Sound(t), NEW k, RowsForm(k, t.lines, t.columns)
    PROVE  Paints(k, NarrowRows(t, k), t.lines, t.columns)
  <1>1. PICK n, s, i, j : /\ n = t.columns /\ s = CursorCells(t, k)
                          /\ i = NarrowSpacer(t) /\ j = NarrowSpacer(t) + 1
    OBVIOUS
  <1>2. n \in Nat /\ Spans(s, n)
    BY <1>1, SoundFacts, CursorSpan
  <1>3. PICK x, y : x = [s[i] EXCEPT !.c = "e"] /\ y = Empty
    OBVIOUS
  <1>4. PICK u : u = [s EXCEPT ![i] = x]
    OBVIOUS
  <1>5. PICK v : v = [u EXCEPT ![j] = y]
    OBVIOUS
  <1>6. Changed(u, s, n, i, x)
    BY <1>2, <1>4, SpanExcept
  <1>7. Spans(u, n)
    BY <1>6 DEF Changed
  <1>8. Changed(v, u, n, j, y)
    BY ONLY <1>2, <1>5, <1>7, SpanExcept
  <1>9. Spans(v, t.columns)
    BY <1>1, <1>8 DEF Changed
  <1>10. NarrowRows(t, k) = Damaged(WithCells(t, k, v))
    BY <1>1, <1>3, <1>4, <1>5 DEF NarrowRows
  <1>11. Edits(k, WithCells(t, k, v), t.lines, t.columns)
    BY <1>9, CellsEdit
  <1> QED
    BY <1>10, <1>11, DamagedPaints

(* and writing a tab does. *)
LEMMA TabPaints ==
    ASSUME NEW t, Sound(t), NEW k, RowsForm(k, t.lines, t.columns)
    PROVE  Paints(k, PutTabRows(t, k), t.lines, t.columns)
  <1>1. \E col, cell : PutTabRows(t, k) \in {WraplineRows(t, k), Damaged(WithCell(t, k, col, cell))}
    BY DEF PutTabRows
  <1>2. PICK col, cell : PutTabRows(t, k) \in {WraplineRows(t, k), Damaged(WithCell(t, k, col, cell))}
    BY <1>1
  <1>3. Edits(k, WithCell(t, k, col, cell), t.lines, t.columns)
    BY CellEdit
  <1> QED
    BY <1>2, <1>3, DamagedPaints, WrapPaints
-----------------------------------------------------------------------------
(* Erasing. *)

(* Cells of the cursor's row are erased, other cells instead. *)
LEMMA ErasePaints ==
    ASSUME NEW t, Sound(t), NEW k, NEW q, Edits(k, q, t.lines, t.columns),
           NEW cells, Spans(cells, t.columns), NEW from, NEW to
    PROVE  Paints(k, Damaged(WithCells(t, q, Erased(cells, from, to))), t.lines, t.columns)
  <1>1. PICK e, n : e = Erased(cells, from, to) /\ n = t.columns
    OBVIOUS
  <1>2. n \in Nat /\ Spans(cells, n)
    BY <1>1, SoundFacts
  <1>3. Spans(e, t.columns)
    BY <1>1, <1>2, ErasedSpan
  <1>4. RowsForm(q, t.lines, t.columns)
    BY DEF Edits
  <1>5. Edits(q, WithCells(t, q, e), t.lines, t.columns)
    BY <1>3, <1>4, CellsEdit
  <1>6. PICK m : m = WithCells(t, q, e)
    OBVIOUS
  <1>7. Edits(k, m, t.lines, t.columns)
    BY <1>5, <1>6, EditsTrans
  <1> QED
    BY <1>1, <1>6, <1>7, DamagedPaints

(* Erasing, deleting and inserting characters paints. *)
LEMMA EraseCharsPaints ==
    ASSUME NEW t, Sound(t), NEW k, RowsForm(k, t.lines, t.columns), NEW n \in Nat
    PROVE  /\ Paints(k, EraseCharsRows(t, k, n), t.lines, t.columns)
           /\ Paints(k, DeleteCharsRows(t, k, n), t.lines, t.columns)
           /\ Paints(k, InsertBlankRows(t, k, n), t.lines, t.columns)
  <1>1. PICK columns, start, cells : /\ columns = t.columns /\ start = t.cursor.col
                                     /\ cells = CursorCells(t, k)
    OBVIOUS
  <1>2. columns \in Nat /\ columns >= 2 /\ start \in 0 .. columns - 1 /\ Spans(cells, columns)
    BY <1>1, SoundFacts, CursorSpan
  <1>3. Edits(k, k, t.lines, t.columns)
    BY PaintsSame
  <1>4. Paints(k, EraseCharsRows(t, k, n), t.lines, t.columns)
    <2>1. PICK to : to = AtMost(start + n, columns)
      OBVIOUS
    <2>2. EraseCharsRows(t, k, n) = Damaged(WithCells(t, k, Erased(cells, start, to)))
      BY <1>1, <2>1 DEF EraseCharsRows
    <2> QED
      BY <1>1, <1>2, <1>3, <2>2, ErasePaints
  <1>5. Paints(k, DeleteCharsRows(t, k, n), t.lines, t.columns)
    <2>1. PICK count, end : count = AtMost(n, columns) /\ end = AtMost(start + count, columns - 1)
      OBVIOUS
    <2>2. count \in Nat /\ end \in Int /\ end <= columns - 1
      BY <1>2, <2>1 DEF AtMost
    <2>3. PICK m, d, from : m = columns - end /\ d = end - start /\ from = columns - count
      OBVIOUS
    <2>4. m \in Nat
      BY <1>2, <2>2, <2>3
    <2>5. PICK positions : positions = [i \in 1 .. m |-> start + i - 1]
      OBVIOUS
    <2>6. Spans(positions, m)
      BY <2>5 DEF Spans
    <2>7. PICK u : u = Exchanged(cells, positions, d)
      OBVIOUS
    <2>8. Spans(u, columns)
      BY <1>2, <2>4, <2>6, <2>7, ExchangedSpan
    <2>9. DeleteCharsRows(t, k, n) = Damaged(WithCells(t, k, Erased(u, from, columns)))
      BY <1>1, <2>1, <2>3, <2>5, <2>7 DEF DeleteCharsRows
    <2> QED
      BY <1>1, <1>3, <2>8, <2>9, ErasePaints
  <1>6. Paints(k, InsertBlankRows(t, k, n), t.lines, t.columns)
    <2>1. PICK destination : destination = start + AtMost(n, columns - start)
      OBVIOUS
    <2>2. destination \in Int /\ destination <= columns
      BY <1>2, <2>1 DEF AtMost
    <2>3. PICK m, d : m = columns - destination /\ d = destination - start
      OBVIOUS
    <2>4. m \in Nat
      BY <1>2, <2>2, <2>3
    <2>5. PICK list : list = [i \in 1 .. m |-> start + i - 1]
      OBVIOUS
    <2>6. Spans(list, m)
      BY <2>5 DEF Spans
    <2>7. PICK positions : positions = Reverse(list)
      OBVIOUS
    <2>8. Spans(positions, m)
      BY <2>4, <2>6, <2>7, SpanReverse
    <2>9. PICK u : u = Exchanged(cells, positions, d)
      OBVIOUS
    <2>10. Spans(u, columns)
      BY <1>2, <2>4, <2>8, <2>9, ExchangedSpan
    <2>11. InsertBlankRows(t, k, n) = Damaged(WithCells(t, k, Erased(u, start, destination)))
      BY <1>1, <2>1, <2>3, <2>5, <2>7, <2>9 DEF InsertBlankRows
    <2> QED
      BY <1>1, <1>3, <2>10, <2>11, ErasePaints
  <1> QED
    BY <1>4, <1>5, <1>6

(* Clearing the line paints. *)
LEMMA ClearLinePaints ==
    ASSUME NEW t, Sound(t), NEW k, RowsForm(k, t.lines, t.columns), NEW mode
    PROVE  Paints(k, ClearLineRows(t, k, mode), t.lines, t.columns)
  <1>1. PICK cells : cells = CursorCells(t, k)
    OBVIOUS
  <1>2. Spans(cells, t.columns)
    BY <1>1, CursorSpan
  <1>3. Edits(k, k, t.lines, t.columns) /\ Paints(k, k, t.lines, t.columns)
    BY PaintsSame
  <1>4. PICK left, right : /\ left = IF mode = "Right" THEN t.cursor.col ELSE 0
                           /\ right = IF mode = "Left" THEN t.cursor.col + 1 ELSE t.columns
    OBVIOUS
  <1>5. ClearLineRows(t, k, mode) \in {k, Damaged(WithCells(t, k, Erased(cells, left, right)))}
    BY <1>1, <1>4 DEF ClearLineRows
  <1>6. Paints(k, Damaged(WithCells(t, k, Erased(cells, left, right))), t.lines, t.columns)
    BY <1>2, <1>3, ErasePaints
  <1> QED
    BY <1>3, <1>5, <1>6

(* Another grid and nothing else. *)
LEMMA ClearPaints ==
    ASSUME NEW t, Sound(t), NEW k, RowsForm(k, t.lines, t.columns)
    PROVE  /\ Paints(k, ClearAbove(t, k), t.lines, t.columns)
           /\ Paints(k, ClearBelow(t, k), t.lines, t.columns)
           /\ Paints(k, ClearAll(t, k), t.lines, t.columns)
           /\ Paints(k, ClearSaved(t, k), t.lines, t.columns)
  <1>1. PICK lines, columns, g, cells : /\ lines = t.lines /\ columns = t.columns /\ g = k.grid
                                        /\ cells = CursorCells(t, k)
    OBVIOUS
  <1>2. /\ lines \in Nat /\ lines >= 1 /\ columns \in Nat /\ t.cursor.row \in 0 .. lines - 1
    BY <1>1, SoundFacts
  <1>3. PICK zero, row, next : zero = 0 /\ row = t.cursor.row /\ next = t.cursor.row + 1
    OBVIOUS
  <1>4. /\ zero \in Nat /\ row \in Nat /\ next \in Nat /\ zero <= row /\ row <= lines
        /\ next <= lines /\ lines <= lines /\ zero <= lines
    BY <1>2, <1>3
  <1>5. Shape(g, lines, columns) /\ RowsForm(k, lines, columns)
    BY <1>1 DEF RowsForm
  <1>6. Spans(cells, t.columns)
    BY <1>1, CursorSpan
  <1>7. Edits(k, k, lines, columns)
    BY <1>5, PaintsSame
  <1>8. Paints(k, ClearAbove(t, k), t.lines, t.columns)
    <2>1. PICK h : h = reset_region(g, zero, row)
      OBVIOUS
    <2>2. Shape(h, lines, columns) /\ Keeps(g, h, lines)
      BY <1>2, <1>4, <1>5, <2>1, ResetShape
    <2>3. PICK q : q = [k EXCEPT !.grid = h]
      OBVIOUS
    <2>4. Edits(k, q, lines, columns)
      BY <1>1, <1>5, <2>2, <2>3, GridEdits
    <2>5. PICK p : p = [k EXCEPT !.grid = IF t.cursor.row > 1 THEN h ELSE g]
      OBVIOUS
    <2>6. [k EXCEPT !.grid = g] = k
      BY <1>1 DEF RowsForm
    <2>7. p = k \/ p = q
      BY <2>3, <2>5, <2>6
    <2>8. Edits(k, p, t.lines, t.columns)
      BY <1>1, <1>7, <2>4, <2>7
    <2>9. PICK to : to = t.cursor.col + 1
      OBVIOUS
    <2>10. ClearAbove(t, k) = Damaged(WithCells(t, p, Erased(cells, zero, to)))
      BY <1>1, <1>3, <2>1, <2>5, <2>9 DEF ClearAbove
    <2> QED
      BY <1>6, <2>8, <2>10, ErasePaints
  <1>9. Paints(k, ClearBelow(t, k), t.lines, t.columns)
    <2>1. PICK e : e = Erased(cells, t.cursor.col, t.columns)
      OBVIOUS
    <2>2. Spans(e, t.columns)
      BY <1>1, <1>2, <1>6, <2>1, ErasedSpan
    <2>3. PICK q : q = WithCells(t, k, e)
      OBVIOUS
    <2>4. Edits(k, q, lines, columns)
      BY <1>1, <1>5, <2>2, <2>3, CellsEdit
    <2>5. PICK f, h : f = q.grid /\ h = reset_region(f, next, lines)
      OBVIOUS
    <2>6. Shape(f, lines, columns) /\ RowsForm(q, lines, columns)
      BY <2>4, <2>5 DEF Edits, RowsForm
    <2>7. Shape(h, lines, columns) /\ Keeps(f, h, lines)
      BY <1>2, <1>4, <2>5, <2>6, ResetShape
    <2>8. PICK p : p = [q EXCEPT !.grid = h]
      OBVIOUS
    <2>9. Edits(q, p, lines, columns)
      BY <2>5, <2>6, <2>7, <2>8, GridEdits
    <2>10. Edits(k, p, lines, columns)
      BY <2>4, <2>9, EditsTrans
    <2>11. ClearBelow(t, k) = Damaged(p)
      BY <1>1, <1>3, <2>1, <2>3, <2>5, <2>8 DEF ClearBelow
    <2> QED
      BY <1>1, <2>10, <2>11, DamagedPaints
  <1>10. Paints(k, ClearAll(t, k), t.lines, t.columns)
    <2>1. PICK h : h = IF Is(t, "ALT_SCREEN") THEN reset_region(g, zero, lines) ELSE clear_viewport(g)
      OBVIOUS
    <2>2. Shape(h, lines, columns)
      BY <1>2, <1>4, <1>5, <2>1, ResetShape, ClearViewportShape
    <2>3. ClearAll(t, k) = mark_fully_damaged([k EXCEPT !.grid = h])
      BY <1>1, <1>3, <2>1 DEF ClearAll
    <2>4. k.slipped = TRUE => k.slipped = TRUE
      OBVIOUS
    <2>5. Paints(k, mark_fully_damaged([k EXCEPT !.grid = h]), lines, columns)
      BY ONLY <1>5, <2>2, <2>4, GridsPaint
    <2> QED
      BY <1>1, <2>3, <2>5
  <1>11. Paints(k, ClearSaved(t, k), t.lines, t.columns)
    <2>1. PICK h : h = clear_history(g)
      OBVIOUS
    <2>2. Shape(h, lines, columns)
      BY <1>2, <1>5, <2>1, ClearHistoryShape
    <2>3. ClearSaved(t, k) = mark_fully_damaged([k EXCEPT !.grid = h])
      BY <1>1, <2>1 DEF ClearSaved
    <2>4. k.slipped = TRUE => k.slipped = TRUE
      OBVIOUS
    <2>5. Paints(k, mark_fully_damaged([k EXCEPT !.grid = h]), lines, columns)
      BY ONLY <1>5, <2>2, <2>4, GridsPaint
    <2> QED
      BY <1>1, <2>3, <2>5
  <1> QED
    BY <1>8, <1>9, <1>10, <1>11

(* DECALN fills the screen, DECCOLM empties it. *)
LEMMA AlignPaints ==
    ASSUME NEW t, Sound(t), NEW k, RowsForm(k, t.lines, t.columns)
    PROVE  /\ Paints(k, DecalnRows(t, k), t.lines, t.columns)
           /\ Paints(k, DeccolmRows(t, k), t.lines, t.columns)
  <1>1. PICK lines, columns, g : lines = t.lines /\ columns = t.columns /\ g = k.grid
    OBVIOUS
  <1>2. lines \in Nat /\ lines >= 1 /\ columns \in Nat
    BY <1>1, SoundFacts
  <1>3. Shape(g, lines, columns) /\ RowsForm(k, lines, columns)
    BY <1>1 DEF RowsForm
  <1>4. k.slipped = TRUE => k.slipped = TRUE
    OBVIOUS
  <1>5. Paints(k, DecalnRows(t, k), t.lines, t.columns)
    <2>1. PICK cell : cell = Cell("a")
      OBVIOUS
    <2>2. PICK s : s = [i \in 1 .. lines |-> Filled(cell, columns)]
      OBVIOUS
    <2>3. Spans(s, lines)
      BY <2>2 DEF Spans
    <2>4. Sequence(s) = s
      BY <1>2, <2>3, SpanSequence
    <2>5. IsRow(Filled(cell, columns), {columns})
      BY <1>2, FilledRow
    <2>6. IsRows(s, lines, {columns})
      BY <2>2, <2>3, <2>5 DEF IsRows
    <2>7. PICK q, o, l, m : q = g.history /\ o = g.offset /\ l = g.limit /\ m = HistorySize(g)
      OBVIOUS
    <2>8. o \in Nat /\ l \in Nat /\ m \in Nat /\ IsRows(q, m, {columns})
      BY <1>3, <2>7 DEF Shape
    <2>9. PICK h : h = [g EXCEPT !.screen = s]
      OBVIOUS
    <2>10. h = [screen |-> s, history |-> q, offset |-> o, limit |-> l]
      BY <1>3, <2>7, <2>9 DEF Shape
    <2>11. Shape(h, lines, columns)
      BY ONLY <2>6, <2>8, <2>10, MakeShape
    <2>12. DecalnRows(t, k) = mark_fully_damaged([k EXCEPT !.grid = h])
      BY <1>1, <2>1, <2>2, <2>4, <2>9 DEF DecalnRows
    <2>13. Paints(k, mark_fully_damaged([k EXCEPT !.grid = h]), lines, columns)
      BY ONLY <1>3, <1>4, <2>11, GridsPaint
    <2> QED
      BY <1>1, <2>12, <2>13
  <1>6. Paints(k, DeccolmRows(t, k), t.lines, t.columns)
    <2>1. PICK zero, h : zero = 0 /\ h = reset_region(g, zero, lines)
      OBVIOUS
    <2>2. zero \in Nat /\ zero <= lines /\ lines <= lines
      BY <1>2, <2>1
    <2>3. Shape(h, lines, columns)
      BY <1>2, <1>3, <2>1, <2>2, ResetShape
    <2>4. DeccolmRows(t, k) = mark_fully_damaged([k EXCEPT !.grid = h])
      BY <1>1, <2>1 DEF DeccolmRows
    <2>5. Paints(k, mark_fully_damaged([k EXCEPT !.grid = h]), lines, columns)
      BY ONLY <1>3, <1>4, <2>3, GridsPaint
    <2> QED
      BY <1>1, <2>4, <2>5
  <1> QED
    BY <1>5, <1>6

(* Both grids. *)
LEMMA BothPaint ==
    ASSUME NEW lines, NEW columns, NEW k, RowsForm(k, lines, columns),
           NEW g, Shape(g, lines, columns), NEW h, Shape(h, lines, columns)
    PROVE  Paints(k, mark_fully_damaged([k EXCEPT !.grid = g, !.inactive = h]), lines, columns)
  <1>1. PICK q : q = [k EXCEPT !.grid = g, !.inactive = h]
    OBVIOUS
  <1>2. q = [grid |-> g, inactive |-> h, damage |-> k.damage,
             last_cursor |-> k.last_cursor, slipped |-> k.slipped]
    BY <1>1 DEF RowsForm
  <1>3. /\ q.grid = g /\ q.inactive = h /\ q.damage = k.damage
        /\ q.last_cursor = k.last_cursor /\ q.slipped = k.slipped
    BY <1>2
  <1>4. RowsForm(q, lines, columns)
    BY <1>2, <1>3 DEF RowsForm
  <1>5. k.slipped = TRUE => q.slipped = TRUE
    BY <1>3
  <1> QED
    BY <1>1, <1>4, <1>5, FullPaints

(* Swapping the screens and a reset paint. *)
LEMMA ScreensPaint ==
    ASSUME NEW t, Sound(t), NEW k, RowsForm(k, t.lines, t.columns)
    PROVE  /\ Paints(k, SwapAltRows(t, k), t.lines, t.columns)
           /\ Paints(k, ResetStateRows(t, k), t.lines, t.columns)
  <1>1. PICK lines, columns, f, g : /\ lines = t.lines /\ columns = t.columns
                                    /\ f = k.grid /\ g = k.inactive
    OBVIOUS
  <1>2. lines \in Nat /\ lines >= 1 /\ columns \in Nat
    BY <1>1, SoundFacts
  <1>3. Shape(f, lines, columns) /\ Shape(g, lines, columns) /\ RowsForm(k, lines, columns)
    BY <1>1 DEF RowsForm
  <1>4. Paints(k, SwapAltRows(t, k), t.lines, t.columns)
    <2>1. PICK zero : zero = 0
      OBVIOUS
    <2>2. PICK h : h = IF Is(t, "ALT_SCREEN") THEN g ELSE reset_region(g, zero, lines)
      OBVIOUS
    <2>3. zero \in Nat /\ zero <= lines /\ lines <= lines
      BY <1>2, <2>1
    <2>4. Shape(reset_region(g, zero, lines), lines, columns)
      BY <1>2, <1>3, <2>3, ResetShape
    <2>5. Shape(h, lines, columns)
      BY <1>3, <2>2, <2>4
    <2>6. SwapAltRows(t, k) = mark_fully_damaged([k EXCEPT !.grid = h, !.inactive = f])
      BY <1>1, <2>1, <2>2 DEF SwapAltRows
    <2>7. Paints(k, mark_fully_damaged([k EXCEPT !.grid = h, !.inactive = f]), lines, columns)
      BY ONLY <1>3, <2>5, BothPaint
    <2> QED
      BY <1>1, <2>6, <2>7
  <1>5. Paints(k, ResetStateRows(t, k), t.lines, t.columns)
    <2>1. PICK a, b : /\ a = ResetGrid(IF Is(t, "ALT_SCREEN") THEN g ELSE f)
                      /\ b = ResetGrid(IF Is(t, "ALT_SCREEN") THEN f ELSE g)
      OBVIOUS
    <2>2. Shape(ResetGrid(f), lines, columns) /\ Shape(ResetGrid(g), lines, columns)
      BY <1>2, <1>3, ClearHistoryShape
    <2>3. Shape(a, lines, columns) /\ Shape(b, lines, columns)
      BY <2>1, <2>2
    <2>4. ResetStateRows(t, k) = mark_fully_damaged([k EXCEPT !.grid = a, !.inactive = b])
      BY <1>1, <2>1 DEF ResetStateRows
    <2>5. Paints(k, mark_fully_damaged([k EXCEPT !.grid = a, !.inactive = b]), lines, columns)
      BY ONLY <1>3, <2>3, BothPaint
    <2> QED
      BY <1>1, <2>4, <2>5
  <1> QED
    BY <1>4, <1>5

(* The view moves. *)
LEMMA DisplayPaints ==
    ASSUME NEW t, Sound(t), NEW k, RowsForm(k, t.lines, t.columns), NEW delta \in Int
    PROVE  Paints(k, ScrollDisplayRows(k, delta), t.lines, t.columns)
  <1>1. PICK lines, columns, f, g : /\ lines = t.lines /\ columns = t.columns
                                    /\ f = k.grid /\ g = ScrollView(f, delta)
    OBVIOUS
  <1>2. lines \in Nat /\ lines >= 1 /\ columns \in Nat
    BY <1>1, SoundFacts
  <1>3. Shape(f, lines, columns) /\ RowsForm(k, lines, columns)
    BY <1>1 DEF RowsForm
  <1>4. Shape(g, lines, columns)
    BY <1>1, <1>2, <1>3, ScrollViewShape
  <1>5. k.slipped = TRUE => k.slipped = TRUE
    OBVIOUS
  <1>6. Paints(k, mark_fully_damaged([k EXCEPT !.grid = g]), lines, columns)
    BY ONLY <1>3, <1>4, <1>5, GridsPaint
  <1>7. Paints(k, k, lines, columns)
    BY <1>3, PaintsSame
  <1>8. ScrollDisplayRows(k, delta) \in {k, mark_fully_damaged([k EXCEPT !.grid = g])}
    BY <1>1 DEF ScrollDisplayRows
  <1> QED
    BY <1>1, <1>6, <1>7, <1>8
-----------------------------------------------------------------------------
(* Resizing.  Lists of cells of any length. *)

IsList(s) == Len(s) \in Nat /\ Spans(s, Len(s))

(* Every list of this length is one. *)
LEMMA SpanList ==
    ASSUME NEW n \in Nat, NEW s, Spans(s, n)
    PROVE  IsList(s) /\ Len(s) = n
  BY SpanSeq DEF IsList

(* The empty list is a list, *)
LEMMA EmptyList == Spans(<<>>, 0) /\ IsList(<<>>) /\ Len(<<>>) = 0
  <1>1. 1 .. 0 = {}
    OBVIOUS
  <1>2. <<>> = [i \in 1 .. 0 |-> <<>>[i]]
    BY <1>1
  <1>3. PICK n, s : n = 0 /\ s = <<>>
    OBVIOUS
  <1>4. n \in Nat /\ Spans(s, n)
    BY <1>2, <1>3 DEF Spans
  <1>5. IsList(s) /\ Len(s) = n
    BY <1>4, SpanList
  <1> QED
    BY <1>3, <1>4, <1>5

(* and the only one without an element. *)
LEMMA NoneList ==
    ASSUME NEW s, Spans(s, 0)
    PROVE  s = <<>>
  <1>1. 1 .. 0 = {}
    OBVIOUS
  <1>2. <<>> = [i \in 1 .. 0 |-> s[i]]
    BY <1>1
  <1> QED
    BY <1>2 DEF Spans

(* Any cut out of anything is a list, *)
LEMMA CutList ==
    ASSUME NEW s, NEW a \in Int, NEW b \in Int
    PROVE  /\ IsList(SubSeq(s, a, b))
           /\ Len(SubSeq(s, a, b)) = IF a <= b THEN b - a + 1 ELSE 0
  <1>1. PICK S : S = {s[i] : i \in a .. b}
    OBVIOUS
  <1>2. \A i \in a .. b : s[i] \in S
    BY <1>1
  <1>3. PICK t : t = SubSeq(s, a, b)
    OBVIOUS
  <1>4. /\ t \in Seq(S)
        /\ Len(t) = IF a <= b THEN b - a + 1 ELSE 0
    BY ONLY <1>2, <1>3, SubSeqProperties, a \in Int, b \in Int
  <1>5. Spans(t, Len(t)) /\ Len(t) \in Nat
    BY ONLY <1>4, SeqSpan
  <1> QED
    BY <1>3, <1>4, <1>5 DEF IsList

(* and the first columns cells are as many. *)
LEMMA CutSpan ==
    ASSUME NEW s, NEW n \in Nat, n >= 1
    PROVE  Spans(SubSeq(s, 1, n), n)
  <1>1. PICK a : a = 1
    OBVIOUS
  <1>2. a \in Int /\ n \in Int /\ a <= n /\ n - a + 1 = n
    BY <1>1
  <1>3. IsList(SubSeq(s, a, n)) /\ Len(SubSeq(s, a, n)) = IF a <= n THEN n - a + 1 ELSE 0
    BY <1>2, CutList
  <1> QED
    BY <1>1, <1>2, <1>3 DEF IsList

(* Two lists joined, *)
LEMMA ConcatList ==
    ASSUME NEW s, IsList(s), NEW t, IsList(t)
    PROVE  IsList(s \o t) /\ Len(s \o t) = Len(s) + Len(t)
  <1>1. PICK n, m : n = Len(s) /\ m = Len(t)
    OBVIOUS
  <1>2. n \in Nat /\ m \in Nat /\ Spans(s, n) /\ Spans(t, m)
    BY <1>1 DEF IsList
  <1>3. Joined(s \o t, s, n, t, m)
    BY <1>2, SpanConcat
  <1>4. PICK u, k : u = s \o t /\ k = n + m
    OBVIOUS
  <1>5. k \in Nat /\ Spans(u, k)
    BY <1>2, <1>3, <1>4 DEF Joined
  <1>6. IsList(u) /\ Len(u) = k
    BY <1>5, SpanList
  <1> QED
    BY <1>1, <1>4, <1>6

(* an element more, *)
LEMMA AppendList ==
    ASSUME NEW s, IsList(s), NEW e
    PROVE  IsList(Append(s, e)) /\ Len(Append(s, e)) = Len(s) + 1
  <1>1. PICK n : n = Len(s)
    OBVIOUS
  <1>2. n \in Nat /\ Spans(s, n)
    BY <1>1 DEF IsList
  <1>3. Joined(Append(s, e), s, n, <<e>>, 1)
    BY <1>2, SpanAppend
  <1>4. PICK u, k : u = Append(s, e) /\ k = n + 1
    OBVIOUS
  <1>5. k \in Nat /\ Spans(u, k)
    BY <1>2, <1>3, <1>4 DEF Joined
  <1>6. IsList(u) /\ Len(u) = k
    BY <1>5, SpanList
  <1> QED
    BY <1>1, <1>4, <1>6

(* an element less. *)
LEMMA FrontList ==
    ASSUME NEW s, IsList(s), Len(s) >= 1
    PROVE  IsList(Front(s)) /\ Len(Front(s)) = Len(s) - 1
  <1>1. PICK n : n = Len(s)
    OBVIOUS
  <1>2. n \in Nat /\ Spans(s, n) /\ n >= 1
    BY <1>1 DEF IsList
  <1>3. Spans(Front(s), n - 1)
    BY <1>2, SpanFront
  <1>4. PICK u, k : u = Front(s) /\ k = n - 1
    OBVIOUS
  <1>5. k \in Nat /\ Spans(u, k)
    BY <1>2, <1>3, <1>4
  <1>6. IsList(u) /\ Len(u) = k
    BY <1>5, SpanList
  <1> QED
    BY <1>1, <1>4, <1>6

(* The wrap flag of the last cell does not change the length. *)
LEMMA WrapList ==
    ASSUME NEW s, IsList(s), NEW flag
    PROVE  IsList(WithWrap(s, flag)) /\ Len(WithWrap(s, flag)) = Len(s)
  <1>1. PICK n : n = Len(s)
    OBVIOUS
  <1>2. n \in Nat /\ Spans(s, n)
    BY <1>1 DEF IsList
  <1>3. PICK e : e = [s[n] EXCEPT !.wrapline = flag]
    OBVIOUS
  <1>4. PICK u : u = [s EXCEPT ![n] = e]
    OBVIOUS
  <1>5. Changed(u, s, n, n, e)
    BY <1>2, <1>4, SpanExcept
  <1>6. Spans(u, n)
    BY <1>5 DEF Changed
  <1>7. IsList(u) /\ Len(u) = n
    BY <1>2, <1>6, SpanList
  <1>8. WithWrap(s, flag) = u
    BY <1>1, <1>3, <1>4 DEF WithWrap
  <1> QED
    BY <1>1, <1>7, <1>8

(* The blank cells behind a list. *)
LEMMA PadList ==
    ASSUME NEW s, IsList(s), NEW columns \in Nat
    PROVE  /\ IsList(Padded(s, columns))
           /\ Len(s) <= columns => Len(Padded(s, columns)) = columns
  <1>1. PICK n, m : n = Len(s) /\ m = AtLeast(columns - n, 0)
    OBVIOUS
  <1>2. n \in Nat /\ m \in Nat /\ (n <= columns => n + m = columns)
    BY <1>1 DEF IsList, AtLeast
  <1>3. PICK t : t = [i \in 1 .. m |-> Empty]
    OBVIOUS
  <1>4. Spans(t, m)
    BY <1>3 DEF Spans
  <1>5. IsList(t) /\ Len(t) = m
    BY <1>2, <1>4, SpanList
  <1>6. IsList(s \o t) /\ Len(s \o t) = Len(s) + Len(t)
    BY <1>5, ConcatList
  <1>7. Padded(s, columns) = s \o t
    BY <1>1, <1>3 DEF Padded
  <1> QED
    BY <1>1, <1>2, <1>5, <1>6, <1>7

(* A row from a list. *)
LEMMA ListRow ==
    ASSUME NEW s, IsList(s), NEW W, Len(s) \in W
    PROVE  IsRow(Dirty(s), W)
  <1>1. PICK n : n = Len(s)
    OBVIOUS
  <1>2. n \in Nat /\ n \in W /\ Spans(s, n)
    BY <1>1 DEF IsList
  <1> QED
    BY <1>2, RowDirty

-----------------------------------------------------------------------------
(* A grid with its two cursors, all of one size. *)

Landed(s, lines, columns) ==
    /\ s = [grid |-> s.grid, cursor |-> s.cursor, saved |-> s.saved]
    /\ Shape(s.grid, lines, columns)
    /\ s.cursor \in Positions(lines, columns) /\ s.saved \in Positions(lines, columns)

(* Rows of the new width, as many as the screen has lines, make a grid. *)
LEMMA WithRowsShape ==
    ASSUME NEW lines \in Nat, lines >= 1, NEW columns \in Nat,
           NEW g, NEW l, NEW c, Shape(g, l, c),
           NEW n \in Nat, n >= lines, NEW list, IsRows(list, n, {columns}), NEW offset \in Nat
    PROVE  Shape(WithRows(g, list, lines, offset), lines, columns)
  <1>1. PICK h : h = n - lines
    OBVIOUS
  <1>2. h \in Nat /\ h + lines = n
    BY <1>1
  <1>3. Len(list) = n
    BY SpanSeq DEF IsRows
  <1>4. PICK W, x, y : W = {columns} /\ x = 1 /\ y = h + 1
    OBVIOUS
  <1>5. IsRows(list, n, W)
    BY <1>4
  <1>6. IsRows(SubSeq(list, x, h), h - x + 1, W)
    <2>1. x \in Int /\ h \in Int /\ 1 <= x /\ h <= n /\ x <= h + 1
      BY <1>2, <1>4
    <2> QED
      BY ONLY <1>5, <2>1, RowsSub, n \in Nat
  <1>7. IsRows(SubSeq(list, y, n), n - y + 1, W)
    <2>1. y \in Int /\ n \in Int /\ 1 <= y /\ n <= n /\ y <= n + 1
      BY <1>2, <1>4
    <2> QED
      BY ONLY <1>5, <2>1, RowsSub, n \in Nat
  <1>8. h - x + 1 = h /\ n - y + 1 = lines
    BY <1>2, <1>4
  <1>9. PICK history, screen, o : /\ history = SubSeq(list, x, h) /\ screen = SubSeq(list, y, n)
                                  /\ o = AtMost(offset, h)
    OBVIOUS
  <1>10. IsRows(history, h, {columns}) /\ IsRows(screen, lines, {columns})
    BY <1>4, <1>6, <1>7, <1>8, <1>9
  <1>11. o \in Nat
    BY <1>2, <1>9 DEF AtMost
  <1>12. PICK limit : limit = g.limit
    OBVIOUS
  <1>13. limit \in Nat
    BY <1>12 DEF Shape
  <1>14. PICK r : r = WithRows(g, list, lines, offset)
    OBVIOUS
  <1>15. r = [screen |-> screen, history |-> history, offset |-> o, limit |-> limit]
    <2>1. r = [g EXCEPT !.history = SubSeq(list, 1, h), !.screen = SubSeq(list, h + 1, n),
                        !.offset = AtMost(offset, h)]
      BY <1>1, <1>3, <1>14 DEF WithRows
    <2>2. r = [g EXCEPT !.history = history, !.screen = screen, !.offset = o]
      BY <1>4, <1>9, <2>1
    <2>3. g = [screen |-> g.screen, history |-> g.history, offset |-> g.offset, limit |-> g.limit]
      BY DEF Shape
    <2> QED
      BY <1>12, <2>2, <2>3
  <1>16. Shape(r, lines, columns)
    BY <1>2, <1>10, <1>11, <1>13, <1>15, MakeShape
  <1> QED
    BY <1>14, <1>16

(* All rows of a grid, oldest first. *)
LEMMA AllRowsRows ==
    ASSUME NEW lines \in Nat, lines >= 1, NEW columns \in Nat, NEW g, Shape(g, lines, columns)
    PROVE  \E n \in Nat : /\ n >= lines /\ n = HistorySize(g) + lines
                          /\ IsRows(AllRows(g), n, {columns}) /\ Len(AllRows(g)) = n
  <1>1. PICK m, W : m = HistorySize(g) /\ W = {columns}
    OBVIOUS
  <1>2. m \in Nat /\ IsRows(g.history, m, W) /\ IsRows(g.screen, lines, W)
    BY <1>1 DEF Shape
  <1>3. PICK s, t : s = g.history /\ t = g.screen
    OBVIOUS
  <1>4. IsRows(s \o t, m + lines, W)
    BY ONLY <1>2, <1>3, RowsConcat, lines \in Nat
  <1>5. PICK u, n : u = AllRows(g) /\ n = m + lines
    OBVIOUS
  <1>6. IsRows(u, n, W) /\ n \in Nat /\ n >= lines
    BY <1>2, <1>3, <1>4, <1>5 DEF AllRows
  <1>7. Len(u) = n
    BY <1>6, SpanSeq DEF IsRows
  <1> QED
    BY <1>1, <1>5, <1>6, <1>7

(* More lines: rows come from the history, or blank ones are added. *)
LEMMA GrowLines ==
    ASSUME NEW lines \in Nat, lines >= 1, NEW columns \in Nat,
           NEW s, Landed(s, lines, columns), NEW target \in Nat, target > lines
    PROVE  Landed(grow_lines(s, target), target, columns)
  <1>1. PICK g, added, from : /\ g = s.grid /\ added = target - lines
                              /\ from = AtMost(HistorySize(g), added)
    OBVIOUS
  <1>2. Shape(g, lines, columns)
    BY <1>1 DEF Landed
  <1>3. /\ Lines(g) = lines /\ Columns(g) = columns
        /\ HistorySize(g) \in Nat /\ g.offset \in Nat /\ g.limit \in Nat
    BY <1>2, ShapeFacts
  <1>4. added \in Nat /\ from \in Nat /\ from <= added /\ lines + added = target
    BY <1>1, <1>3 DEF AtMost
  <1>5. PICK n \in Nat : n >= lines /\ n = HistorySize(g) + lines /\ IsRows(AllRows(g), n, {columns})
    BY <1>2, AllRowsRows
  <1>6. PICK k, W : k = added - from /\ W = {columns}
    OBVIOUS
  <1>7. k \in Nat /\ n + k >= target
    BY <1>1, <1>3, <1>4, <1>5, <1>6 DEF AtMost
  <1>8. PICK u, v : u = AllRows(g) /\ v = Blanks(k, columns)
    OBVIOUS
  <1>9. IsRows(u, n, W) /\ IsRows(v, k, W)
    BY <1>5, <1>6, <1>7, <1>8, BlankRows
  <1>10. IsRows(u \o v, n + k, W)
    BY ONLY <1>7, <1>9, RowsConcat, n \in Nat
  <1>11. PICK list, m : list = u \o v /\ m = n + k
    OBVIOUS
  <1>12. IsRows(list, m, {columns}) /\ m \in Nat /\ m >= target
    BY <1>6, <1>7, <1>10, <1>11
  <1>13. PICK scrolled : scrolled = IF g.offset = 0 \/ from = added THEN g.offset
                    ELSE AtMost(g.offset + added - from, g.limit)
    OBVIOUS
  <1>14. scrolled \in Nat
    BY <1>3, <1>4, <1>13 DEF AtMost
  <1>15. PICK offset : offset = AtLeast(scrolled - added, 0)
    OBVIOUS
  <1>16. offset \in Nat
    BY <1>4, <1>14, <1>15 DEF AtLeast
  <1>17. PICK w, h : w = WithRows(g, list, target, 0) /\ h = [w EXCEPT !.offset = offset]
    OBVIOUS
  <1>18. target >= 1
    OBVIOUS
  <1>19. Shape(h, target, columns)
    <2>1. Shape(w, target, columns)
      <3>1. PICK zero \in Nat : zero = 0
        OBVIOUS
      <3>2. w = WithRows(g, list, target, zero)
        BY <1>17, <3>1
      <3> QED
        BY <1>2, <1>12, <1>18, <3>2, WithRowsShape
    <2>2. PICK screen, history, limit : screen = w.screen /\ history = w.history /\ limit = w.limit
      OBVIOUS
    <2>3. PICK old : old = w.offset
      OBVIOUS
    <2>4. /\ w = [screen |-> screen, history |-> history, offset |-> old, limit |-> limit]
          /\ limit \in Nat /\ HistorySize(w) \in Nat
          /\ IsRows(screen, target, {columns}) /\ IsRows(history, HistorySize(w), {columns})
      BY <2>1, <2>2, <2>3 DEF Shape
    <2>5. h = [screen |-> screen, history |-> history, offset |-> offset, limit |-> limit]
      BY <1>17, <2>4
    <2> QED
      BY <1>16, <2>4, <2>5, MakeShape
  <1>20. grow_lines(s, target) = [s EXCEPT !.grid = h, !.cursor.row = @ + from, !.saved.row = @ + from]
    BY <1>1, <1>3, <1>6, <1>8, <1>11, <1>13, <1>15, <1>17 DEF grow_lines
  <1>21. /\ s.cursor \in Positions(lines, columns) /\ s.saved \in Positions(lines, columns)
         /\ s = [grid |-> s.grid, cursor |-> s.cursor, saved |-> s.saved]
    BY DEF Landed
  <1>22. ASSUME NEW p \in Positions(lines, columns)
         PROVE  [p EXCEPT !.row = @ + from] \in Positions(target, columns)
    <2>1. /\ p = [row |-> p.row, col |-> p.col, wrap |-> p.wrap]
          /\ p.row \in 0 .. lines - 1 /\ p.col \in 0 .. columns - 1 /\ p.wrap \in BOOLEAN
      BY PositionFacts
    <2>2. PICK r : r = p.row + from
      OBVIOUS
    <2>3. r \in 0 .. target - 1
      BY <1>4, <2>1, <2>2
    <2>4. [p EXCEPT !.row = @ + from] = [row |-> r, col |-> p.col, wrap |-> p.wrap]
      BY <2>1, <2>2
    <2> QED
      BY <2>1, <2>3, <2>4 DEF Positions
  <1>23. PICK c, d : /\ c = [s.cursor EXCEPT !.row = @ + from]
                     /\ d = [s.saved EXCEPT !.row = @ + from]
    OBVIOUS
  <1>24. grow_lines(s, target) = [grid |-> h, cursor |-> c, saved |-> d]
    BY <1>20, <1>21, <1>23
  <1>25. c \in Positions(target, columns) /\ d \in Positions(target, columns)
    BY <1>21, <1>22, <1>23
  <1> QED
    BY <1>19, <1>24, <1>25 DEF Landed

(* Fewer lines: rows go to the history, and the cursors stay on the screen. *)
LEMMA ShrinkLines ==
    ASSUME NEW lines \in Nat, lines >= 1, NEW columns \in Nat,
           NEW s, Landed(s, lines, columns), NEW target \in Nat, target >= 1, target < lines
    PROVE  Landed(shrink_lines(s, target), target, columns)
  <1>1. PICK g, required : g = s.grid /\ required = AtLeast(s.cursor.row + 1 - target, 0)
    OBVIOUS
  <1>2. Shape(g, lines, columns)
    BY <1>1 DEF Landed
  <1>3. /\ s.cursor \in Positions(lines, columns) /\ s.saved \in Positions(lines, columns)
        /\ s = [grid |-> s.grid, cursor |-> s.cursor, saved |-> s.saved]
    BY DEF Landed
  <1>4. s.cursor.row \in 0 .. lines - 1
    BY <1>3, PositionFacts
  <1>5. required \in Nat
    BY <1>1, <1>4 DEF AtLeast
  <1>6. Lines(g) = lines
    BY <1>2, ShapeFacts
  <1>7. PICK h : h = IF required > 0 THEN scroll_up(g, 0, lines, required) ELSE g
    OBVIOUS
  <1>8. Shape(h, lines, columns)
    <2>1. CASE required > 0
      <3>1. PICK z : z = 0
        OBVIOUS
      <3>2. z \in Nat /\ z <= lines /\ lines <= lines
        BY <3>1
      <3>3. Shape(scroll_up(g, z, lines, required), lines, columns)
        BY <1>2, <1>5, <3>2, ScrollUpShape
      <3> QED
        BY <1>7, <2>1, <3>1, <3>3
    <2>2. CASE ~(required > 0)
      BY <1>2, <1>7, <2>2
    <2> QED
      BY <2>1, <2>2
  <1>9. PICK W, x : W = {columns} /\ x = 1
    OBVIOUS
  <1>10. IsRows(SubSeq(h.screen, x, target), target - x + 1, W)
    <2>1. PICK list : list = h.screen
      OBVIOUS
    <2>2. IsRows(list, lines, W)
      BY <1>8, <1>9, <2>1 DEF Shape
    <2>3. x \in Int /\ target \in Int /\ 1 <= x /\ target <= lines /\ x <= target + 1
      BY <1>9
    <2>4. IsRows(SubSeq(list, x, target), target - x + 1, W)
      BY ONLY <2>2, <2>3, RowsSub, lines \in Nat
    <2> QED
      BY <2>1, <2>4
  <1>11. PICK screen, history, offset, limit, m :
            /\ screen = SubSeq(h.screen, 1, target) /\ history = h.history /\ offset = h.offset
            /\ limit = h.limit /\ m = HistorySize(h)
    OBVIOUS
  <1>12. target - x + 1 = target
    BY <1>9
  <1>13. IsRows(screen, target, {columns})
    BY <1>9, <1>10, <1>11, <1>12
  <1>14. m \in Nat /\ IsRows(history, m, {columns}) /\ offset \in Nat /\ limit \in Nat
    BY <1>8, <1>11 DEF Shape
  <1>15. PICK new : new = [h EXCEPT !.screen = SubSeq(@, 1, target)]
    OBVIOUS
  <1>16. new = [screen |-> screen, history |-> history, offset |-> offset, limit |-> limit]
    BY <1>8, <1>11, <1>15 DEF Shape
  <1>17. Shape(new, target, columns)
    BY <1>13, <1>14, <1>16, MakeShape
  <1>18. shrink_lines(s, target) =
            [s EXCEPT !.grid = new, !.cursor.row = AtMost(@, target - 1), !.saved.row = AtMost(@, target - 1)]
    BY <1>1, <1>6, <1>7, <1>15 DEF shrink_lines
  <1>19. ASSUME NEW p \in Positions(lines, columns)
         PROVE  [p EXCEPT !.row = AtMost(@, target - 1)] \in Positions(target, columns)
    <2>1. /\ p = [row |-> p.row, col |-> p.col, wrap |-> p.wrap]
          /\ p.row \in 0 .. lines - 1 /\ p.col \in 0 .. columns - 1 /\ p.wrap \in BOOLEAN
      BY PositionFacts
    <2>2. PICK r : r = AtMost(p.row, target - 1)
      OBVIOUS
    <2>3. r \in 0 .. target - 1
      BY <2>1, <2>2 DEF AtMost
    <2>4. [p EXCEPT !.row = AtMost(@, target - 1)] = [row |-> r, col |-> p.col, wrap |-> p.wrap]
      BY <2>1, <2>2
    <2> QED
      BY <2>1, <2>3, <2>4 DEF Positions
  <1>20. PICK c, d : /\ c = [s.cursor EXCEPT !.row = AtMost(@, target - 1)]
                     /\ d = [s.saved EXCEPT !.row = AtMost(@, target - 1)]
    OBVIOUS
  <1>21. shrink_lines(s, target) = [grid |-> new, cursor |-> c, saved |-> d]
    BY <1>3, <1>18, <1>20
  <1>22. c \in Positions(target, columns) /\ d \in Positions(target, columns)
    BY <1>3, <1>19, <1>20
  <1> QED
    BY <1>17, <1>21, <1>22 DEF Landed
-----------------------------------------------------------------------------
(* Joining rows. *)

(* What holds before every turn of the loop of grow_columns. *)
Grown(a, lines, columns) ==
    /\ a = [out |-> a.out, delta |-> a.delta, offset |-> a.offset, cursor |-> a.cursor]
    /\ Len(a.out) \in Nat /\ IsRows(a.out, Len(a.out), 0 .. columns)
    /\ a.delta \in Nat /\ a.offset \in Nat
    /\ a.cursor \in Positions(lines, columns)

(* An index that a climb by ones from 0 reaches. *)
LEMMA Climb ==
    ASSUME NEW n \in Nat, NEW K, 0 \in K, \A k \in 1 .. n : k - 1 \in K => k \in K
    PROVE  n \in K
  <1> DEFINE Bad == {k \in Nat : k <= n /\ k \notin K}
  <1>1. ASSUME Bad # {} PROVE FALSE
    <2>1. PICK k \in Bad : \A y \in Bad : k <= y
      <3>1. Bad \in SUBSET Nat
        OBVIOUS
      <3> HIDE DEF Bad
      <3> QED
        BY <1>1, <3>1, Least
    <2>2. k \in Nat /\ k <= n /\ k \notin K
      OBVIOUS
    <2>3. CASE k = 0
      BY <2>2, <2>3
    <2>4. CASE k # 0
      <3>1. PICK j : j = k - 1
        OBVIOUS
      <3>2. j \in Nat /\ j <= n /\ ~(k <= j) /\ k \in 1 .. n
        BY <2>2, <2>4, <3>1
      <3>3. j \in K
        BY <2>1, <3>2
      <3> QED
        BY <2>2, <3>1, <3>2, <3>3
    <2> QED
      BY <2>3, <2>4
  <1> QED
    BY <1>1

(* Columns and rows of a position that moves back. *)
LEMMA Division ==
    ASSUME NEW n \in Nat, n >= 1, NEW a \in Nat
    PROVE  a \div n \in Nat /\ a % n \in 0 .. n - 1
  OBVIOUS

(* A position some cells further back is on the screen. *)
LEMMA PosSubPlace ==
    ASSUME NEW lines \in Nat, lines >= 1, NEW columns \in Nat, columns >= 1,
           NEW cursor \in Positions(lines, columns), NEW n \in Nat
    PROVE  /\ PosSub(cursor, columns, n) \in Positions(lines, columns)
           /\ PosSub(cursor, columns, n).row <= cursor.row
  <1>1. /\ cursor = [row |-> cursor.row, col |-> cursor.col, wrap |-> cursor.wrap]
        /\ cursor.row \in 0 .. lines - 1 /\ cursor.col \in 0 .. columns - 1
        /\ cursor.wrap \in BOOLEAN
    BY PositionFacts
  <1>2. PICK a, d : a = AtLeast(n + columns - 1 - cursor.col, 0) /\ d = a \div columns
    OBVIOUS
  <1>3. a \in Nat
    BY <1>1, <1>2 DEF AtLeast
  <1>4. d \in Nat
    BY <1>2, <1>3, Division
  <1>5. PICK e : e = n % columns
    OBVIOUS
  <1>6. e \in 0 .. columns - 1
    BY <1>5, Division
  <1>7. PICK u : u = columns + cursor.col - e
    OBVIOUS
  <1>8. u \in Nat
    BY <1>1, <1>6, <1>7
  <1>9. PICK col, row : col = u % columns /\ row = cursor.row - d
    OBVIOUS
  <1>10. col \in 0 .. columns - 1
    BY <1>8, <1>9, Division
  <1>11. PICK c : c = PosSub(cursor, columns, n)
    OBVIOUS
  <1>12. c = IF row < 0 THEN [cursor EXCEPT !.row = 0, !.col = 0]
             ELSE [cursor EXCEPT !.row = row, !.col = col]
    BY <1>2, <1>5, <1>7, <1>9, <1>11 DEF PosSub
  <1>13. row \in Int /\ row <= cursor.row
    BY <1>1, <1>4, <1>9
  <1>14. CASE row < 0
    <2>1. c = [row |-> 0, col |-> 0, wrap |-> cursor.wrap]
      BY <1>1, <1>12, <1>14
    <2>2. 0 \in 0 .. lines - 1 /\ 0 \in 0 .. columns - 1
      OBVIOUS
    <2>3. c \in Positions(lines, columns)
      BY <1>1, <2>1, <2>2 DEF Positions
    <2>4. c.row <= cursor.row
      BY <1>1, <2>1
    <2> QED
      BY <1>11, <2>3, <2>4
  <1>15. CASE ~(row < 0)
    <2>1. c = [row |-> row, col |-> col, wrap |-> cursor.wrap]
      BY <1>1, <1>12, <1>15
    <2>2. row \in 0 .. lines - 1
      BY <1>1, <1>13, <1>15
    <2>3. c \in Positions(lines, columns)
      BY <1>1, <1>10, <2>1, <2>2 DEF Positions
    <2>4. c.row <= cursor.row
      BY <1>13, <2>1
    <2> QED
      BY <1>11, <2>3, <2>4
  <1> QED
    BY <1>14, <1>15

(* A row above with the cells that move up. *)
Joint(join, columns) ==
    /\ IsList(join.cells) /\ Len(join.cells) <= columns
    /\ IsList(join.rest) /\ Len(join.rest) <= columns
    /\ join.num_wrapped \in Nat

(* The head of a row moves up to the row before; what is left is a row. *)
LEMMA JoinLists ==
    ASSUME NEW columns \in Nat, NEW head, IsList(head), Len(head) < columns,
           NEW cells, IsList(cells), Len(cells) >= 1, Len(cells) < columns
    PROVE  Joint(Join(head, cells, columns), columns)
  <1>1. PICK h, c, len : h = Len(head) /\ c = Len(cells) /\ len = AtMost(c, columns - h)
    OBVIOUS
  <1>2. h \in Nat /\ c \in Nat /\ h < columns /\ c >= 1 /\ c < columns
    BY <1>1 DEF IsList
  <1>3. len \in Nat /\ len >= 1 /\ len <= c /\ h + len <= columns
    BY <1>1, <1>2 DEF AtMost
  <1>4. PICK pull : pull = Pulled(cells, len)
    OBVIOUS
  <1>5. /\ IsList(pull.up) /\ Len(pull.up) = len
        /\ IsList(pull.rest) /\ Len(pull.rest) <= columns
        /\ pull.short \in {0, 1}
    <2>1. PICK x, y, z : x = 1 /\ y = len - 1 /\ z = len + 1
      OBVIOUS
    <2>2. x \in Int /\ y \in Int /\ z \in Int /\ len \in Int /\ c \in Int
      BY <1>2, <1>3, <2>1
    <2>3. IsList(SubSeq(cells, x, y)) /\ Len(SubSeq(cells, x, y)) = IF x <= y THEN y - x + 1 ELSE 0
      BY <2>2, CutList
    <2>4. IsList(SubSeq(cells, x, len)) /\ Len(SubSeq(cells, x, len)) = IF x <= len THEN len - x + 1 ELSE 0
      BY <2>2, CutList
    <2>5. IsList(SubSeq(cells, z, c)) /\ Len(SubSeq(cells, z, c)) = IF z <= c THEN c - z + 1 ELSE 0
      BY <2>2, CutList
    <2>6. IsList(SubSeq(cells, len, c)) /\ Len(SubSeq(cells, len, c)) = IF len <= c THEN c - len + 1 ELSE 0
      BY <2>2, CutList
    <2>7. CASE cells[len].c = "E"
      <3>1. PICK s, t, l : s = SubSeq(cells, x, y) /\ t = Append(s, l) /\ l = Cell("l")
        OBVIOUS
      <3>2. IsList(t) /\ Len(t) = Len(s) + 1
        BY <2>3, <3>1, AppendList
      <3>3. Len(t) = len
        BY <1>3, <2>1, <2>3, <3>1, <3>2
      <3>4. pull = [up |-> t, rest |-> SubSeq(cells, len, c), short |-> 1]
        BY <1>1, <1>4, <2>1, <2>7, <3>1 DEF Pulled
      <3>5. pull.up = t /\ pull.rest = SubSeq(cells, len, c) /\ pull.short = 1
        BY <3>4
      <3>6. Len(pull.rest) <= columns
        BY <1>2, <1>3, <2>6, <3>5
      <3> QED
        BY <2>6, <3>2, <3>3, <3>5, <3>6
    <2>8. CASE cells[len].c # "E"
      <3>1. pull = [up |-> SubSeq(cells, x, len), rest |-> SubSeq(cells, z, c), short |-> 0]
        BY <1>1, <1>4, <2>1, <2>8 DEF Pulled
      <3>2. pull.up = SubSeq(cells, x, len) /\ pull.rest = SubSeq(cells, z, c) /\ pull.short = 0
        BY <3>1
      <3>3. Len(pull.up) = len
        BY <1>3, <2>1, <2>4, <3>2
      <3>4. Len(pull.rest) <= columns
        BY <1>2, <1>3, <2>1, <2>5, <3>2
      <3> QED
        BY <2>4, <2>5, <3>2, <3>3, <3>4
    <2> QED
      BY <2>7, <2>8
  <1>6. PICK join, up : join = Join(head, cells, columns) /\ up = pull.up
    OBVIOUS
  <1>7. join = [cells |-> head \o up, rest |-> pull.rest, num_wrapped |-> columns - h - pull.short]
    BY <1>1, <1>4, <1>6 DEF Join
  <1>8. IsList(head \o up) /\ Len(head \o up) = Len(head) + Len(up)
    BY <1>5, <1>6, ConcatList
  <1>9. IsList(join.cells) /\ Len(join.cells) <= columns
    BY <1>1, <1>2, <1>3, <1>5, <1>6, <1>7, <1>8
  <1>10. IsList(join.rest) /\ Len(join.rest) <= columns
    BY <1>5, <1>7
  <1>11. join.num_wrapped \in Nat
    <2>1. join.num_wrapped = columns - h - pull.short
      BY <1>7
    <2> QED
      BY <1>2, <1>5, <2>1
  <1> QED
    BY <1>6, <1>9, <1>10, <1>11 DEF Joint

(* The row above without its wrap flag and leading spacer. *)
LEMMA HeadList ==
    ASSUME NEW s, IsList(s), Len(s) >= 1, NEW flag
    PROVE  /\ IsList(WithoutSpacer(WithWrap(s, flag)))
           /\ Len(WithoutSpacer(WithWrap(s, flag))) <= Len(s)
  <1>1. PICK t, n : t = WithWrap(s, flag) /\ n = Len(s)
    OBVIOUS
  <1>2. IsList(t) /\ Len(t) = n /\ n \in Nat /\ n >= 1
    BY <1>1, WrapList DEF IsList
  <1>3. IsList(Front(t)) /\ Len(Front(t)) = Len(t) - 1
    BY <1>2, FrontList
  <1>4. IsList(WithoutSpacer(t)) /\ Len(WithoutSpacer(t)) <= n
    <2>1. CASE Last(t).c = "l"
      BY <1>2, <1>3, <2>1 DEF WithoutSpacer
    <2>2. CASE Last(t).c # "l"
      BY <1>2, <2>2 DEF WithoutSpacer
    <2> QED
      BY <2>1, <2>2
  <1> QED
    BY <1>1, <1>4

(* Rows that are joined give rows. *)
LEMMA JoinedRows ==
    ASSUME NEW columns \in Nat, NEW n \in Nat, n >= 1, NEW out, IsRows(out, n, 0 .. columns),
           NEW join, Joint(join, columns)
    PROVE  /\ IsRows(Merged(out, join), n, 0 .. columns)
           /\ IsRows(Split(out, join), n + 1, 0 .. columns)
  <1>1. PICK W, m : W = 0 .. columns /\ m = n - 1
    OBVIOUS
  <1>2. m \in Nat /\ m + 1 = n /\ IsRows(out, n, W)
    BY <1>1
  <1>3. IsRows(Front(out), m, W)
    <2>1. IsRows(Front(out), n - 1, W)
      BY <1>2, RowsFront
    <2> QED
      BY <1>1, <2>1
  <1>4. PICK front, up, rest, wrapped :
            /\ front = Front(out) /\ up = join.cells /\ rest = join.rest
            /\ wrapped = WithWrap(up, TRUE)
    OBVIOUS
  <1>5. IsList(up) /\ Len(up) \in W /\ IsList(rest) /\ Len(rest) \in W
    BY <1>1, <1>4 DEF Joint, IsList
  <1>6. IsList(wrapped) /\ Len(wrapped) \in W
    BY <1>4, <1>5, WrapList
  <1>7. PICK a, b, c : a = Dirty(up) /\ b = Dirty(wrapped) /\ c = Dirty(rest)
    OBVIOUS
  <1>8. IsRow(a, W) /\ IsRow(b, W) /\ IsRow(c, W)
    BY <1>5, <1>6, <1>7, ListRow
  <1>9. IsRows(front, m, W)
    BY <1>3, <1>4
  <1>10. IsRows(Append(front, a), n, W)
    <2>1. IsRows(Append(front, a), m + 1, W)
      BY ONLY <1>2, <1>8, <1>9, RowsAppend
    <2> QED
      BY <1>2, <2>1
  <1>11. PICK s : s = Append(front, b)
    OBVIOUS
  <1>12. IsRows(s, n, W)
    <2>1. IsRows(Append(front, b), m + 1, W)
      BY ONLY <1>2, <1>8, <1>9, RowsAppend
    <2> QED
      BY <1>2, <1>11, <2>1
  <1>13. IsRows(Append(s, c), n + 1, W)
    BY ONLY <1>8, <1>12, RowsAppend, n \in Nat
  <1>14. Merged(out, join) = Append(front, a) /\ Split(out, join) = Append(s, c)
    BY <1>4, <1>7, <1>11 DEF Merged, Split
  <1> QED
    BY <1>1, <1>10, <1>13, <1>14

(* A cursor on a joined row stays on the screen, in no lower line. *)
LEMMA GrowCursorPlace ==
    ASSUME NEW lines \in Nat, lines >= 1, NEW columns \in Nat, columns >= 1,
           NEW cursor \in Positions(lines, columns), NEW join, Joint(join, columns)
    PROVE  /\ GrowCursor(cursor, join, columns) \in Positions(lines, columns)
           /\ GrowCursor(cursor, join, columns).row <= cursor.row
  <1>1. PICK n, target : n = join.num_wrapped /\ target = PosSub(cursor, columns, n)
    OBVIOUS
  <1>2. n \in Nat
    BY <1>1 DEF Joint
  <1>3. target \in Positions(lines, columns) /\ target.row <= cursor.row
    BY <1>1, <1>2, PosSubPlace
  <1>4. PICK z : z = 1
    OBVIOUS
  <1>5. PICK u : u = PosSub(target, columns, z)
    OBVIOUS
  <1>6. u \in Positions(lines, columns) /\ u.row <= target.row
    <2>1. z \in Nat
      BY <1>4
    <2> QED
      BY <1>3, <1>5, <2>1, PosSubPlace
  <1>7. PICK v : v = [u EXCEPT !.wrap = TRUE]
    OBVIOUS
  <1>8. /\ u = [row |-> u.row, col |-> u.col, wrap |-> u.wrap]
        /\ u.row \in 0 .. lines - 1 /\ u.col \in 0 .. columns - 1 /\ u.wrap \in BOOLEAN
    BY <1>6, PositionFacts
  <1>9. v = [row |-> u.row, col |-> u.col, wrap |-> TRUE]
    BY <1>7, <1>8
  <1>10. v \in Positions(lines, columns) /\ v.row <= cursor.row
    <2>1. v \in Positions(lines, columns)
      BY <1>8, <1>9 DEF Positions
    <2>2. target.row \in 0 .. lines - 1 /\ cursor.row \in 0 .. lines - 1
      BY <1>3, PositionFacts
    <2>3. v.row = u.row
      BY <1>9
    <2> QED
      BY <1>3, <1>6, <1>8, <2>1, <2>2, <2>3
  <1>11. PICK c : c = GrowCursor(cursor, join, columns)
    OBVIOUS
  <1>12. c = target \/ c = v
    BY <1>1, <1>4, <1>5, <1>7, <1>11 DEF GrowCursor
  <1> QED
    BY <1>3, <1>10, <1>11, <1>12

(* One turn: the row is taken over, or joined to the one above. *)
LEMMA GrownStep ==
    ASSUME NEW lines \in Nat, lines >= 1, NEW columns \in Nat, columns >= 1,
           NEW a, Grown(a, lines, columns),
           NEW row, NEW c \in Nat, c >= 1, c < columns, IsRow(row, {c}),
           NEW i \in Nat, NEW reflow
    PROVE  Grown(GrowStep(a, row, i, lines, columns, reflow), lines, columns)
  <1>1. PICK n, W, out, cursor, delta, offset :
            /\ n = Len(a.out) /\ W = 0 .. columns /\ out = a.out /\ cursor = a.cursor
            /\ delta = a.delta /\ offset = a.offset
    OBVIOUS
  <1>2. /\ a = [out |-> out, delta |-> delta, offset |-> offset, cursor |-> cursor]
        /\ n \in Nat /\ IsRows(out, n, W) /\ delta \in Nat /\ offset \in Nat
        /\ cursor \in Positions(lines, columns)
    BY <1>1 DEF Grown
  <1>3. /\ cursor = [row |-> cursor.row, col |-> cursor.col, wrap |-> cursor.wrap]
        /\ cursor.row \in 0 .. lines - 1 /\ cursor.col \in 0 .. columns - 1
        /\ cursor.wrap \in BOOLEAN
    BY <1>2, PositionFacts
  <1>4. ASSUME NEW list, NEW m \in Nat, IsRows(list, m, W), NEW d \in Nat, NEW o \in Nat,
               NEW p \in Positions(lines, columns),
               NEW b, b = [out |-> list, delta |-> d, offset |-> o, cursor |-> p]
        PROVE  Grown(b, lines, columns)
    <2>1. Len(list) = m
      BY <1>4, SpanSeq DEF IsRows
    <2>2. b.out = list /\ b.delta = d /\ b.offset = o /\ b.cursor = p
      BY <1>4
    <2> QED
      BY <1>1, <1>4, <2>1, <2>2 DEF Grown
  <1>5. PICK b : b = GrowStep(a, row, i, lines, columns, reflow)
    OBVIOUS
  <1>6. CASE ~(reflow /\ Continues(out, columns))
    <2>1. PICK list : list = Append(out, row)
      OBVIOUS
    <2>2. IsRow(row, W)
      BY <1>1 DEF IsRow
    <2>3. IsRows(list, n + 1, W)
      BY ONLY <1>2, <2>1, <2>2, RowsAppend
    <2>4. b = [a EXCEPT !.out = Append(@, row)]
      BY <1>1, <1>5, <1>6 DEF GrowStep
    <2>5. b = [out |-> list, delta |-> delta, offset |-> offset, cursor |-> cursor]
      BY <1>2, <2>1, <2>4
    <2>6. PICK m : m = n + 1
      OBVIOUS
    <2>7. m \in Nat /\ IsRows(list, m, W)
      BY <1>2, <2>3, <2>6
    <2>8. Grown(b, lines, columns)
      BY <1>2, <1>4, <2>5, <2>7
    <2> QED
      BY <1>5, <2>8
  <1>7. CASE reflow /\ Continues(out, columns)
    <2>1. n >= 1
      <3>1. out # <<>>
        BY <1>7 DEF Continues
      <3>2. n # 0
        <4>1. n = 0 => Spans(out, 0)
          BY <1>2 DEF IsRows
        <4> QED
          BY <3>1, <4>1, NoneList
      <3> QED
        BY <1>2, <3>2
    <2>2. PICK cells : cells = Last(out).cells
      OBVIOUS
    <2>3. IsList(cells) /\ Len(cells) > 0 /\ Len(cells) < columns
      <3>1. IsRow(Last(out), W)
        BY ONLY <1>2, <2>1, RowsFront
      <3>2. IsList(cells)
        BY <1>1, <2>2, <3>1 DEF IsRow, IsList
      <3> QED
        BY <1>7, <2>2, <3>2 DEF Continues
    <2>4. PICK head : head = WithoutSpacer(WithWrap(cells, FALSE))
      OBVIOUS
    <2>5. IsList(head) /\ Len(head) < columns
      <3>1. Len(cells) >= 1 /\ Len(cells) \in Nat
        BY <2>3 DEF IsList
      <3>2. IsList(head) /\ Len(head) <= Len(cells)
        BY <2>3, <2>4, <3>1, HeadList
      <3>3. Len(head) \in Nat
        BY <3>2 DEF IsList
      <3> QED
        BY <2>3, <3>1, <3>2, <3>3
    <2>6. PICK under, join : under = row.cells /\ join = Join(head, under, columns)
      OBVIOUS
    <2>7. IsList(under) /\ Len(under) >= 1 /\ Len(under) < columns
      BY <2>6 DEF IsRow, IsList
    <2>8. Joint(join, columns)
      BY <2>5, <2>6, <2>7, JoinLists
    <2>9. PICK merged, split, m : merged = Merged(out, join) /\ split = Split(out, join) /\ m = n + 1
      OBVIOUS
    <2>10. IsRows(merged, n, W) /\ IsRows(split, m, W) /\ m \in Nat
      <3>1. IsRows(out, n, 0 .. columns)
        BY <1>1, <1>2
      <3>2. IsRows(Merged(out, join), n, 0 .. columns) /\ IsRows(Split(out, join), n + 1, 0 .. columns)
        BY ONLY <1>2, <2>1, <2>8, <3>1, JoinedRows, columns \in Nat
      <3> QED
        BY <1>1, <1>2, <2>9, <3>2
    <2>11. PICK buffer_line : buffer_line = CursorBufferLine(lines, cursor)
      OBVIOUS
    <2>12. buffer_line = lines - cursor.row - 1
      BY <2>11 DEF CursorBufferLine
    <2>13. CASE i = buffer_line
      <3>1. PICK target : target = GrowCursor(cursor, join, columns)
        OBVIOUS
      <3>2. target \in Positions(lines, columns) /\ target.row <= cursor.row
        BY <1>2, <2>8, <3>1, GrowCursorPlace
      <3>3. /\ target = [row |-> target.row, col |-> target.col, wrap |-> target.wrap]
            /\ target.row \in 0 .. lines - 1 /\ target.col \in 0 .. columns - 1
            /\ target.wrap \in BOOLEAN
        BY <3>2, PositionFacts
      <3>4. PICK line_delta, d : line_delta = cursor.row - target.row /\ d = delta + line_delta
        OBVIOUS
      <3>5. d \in Nat
        BY <1>2, <1>3, <3>2, <3>3, <3>4
      <3>6. PICK p : p = [row |-> cursor.row, col |-> target.col, wrap |-> target.wrap]
        OBVIOUS
      <3>7. p \in Positions(lines, columns)
        BY <1>3, <3>3, <3>6 DEF Positions
      <3>8. b = JoinCursorRow(a, join, target)
        BY <1>1, <1>5, <1>7, <2>2, <2>4, <2>6, <2>11, <2>13, <3>1 DEF GrowStep
      <3>9. PICK moved : moved = [a EXCEPT !.cursor.col = target.col, !.cursor.wrap = target.wrap]
        OBVIOUS
      <3>10. moved = [out |-> out, delta |-> delta, offset |-> offset, cursor |-> p]
        BY <1>2, <1>3, <3>6, <3>9
      <3>11. \/ b = [moved EXCEPT !.out = Merged(@, join)]
             \/ b = [moved EXCEPT !.out = Split(@, join), !.delta = @ + line_delta]
        BY <1>1, <3>4, <3>8, <3>9 DEF JoinCursorRow
      <3>12. CASE b = [moved EXCEPT !.out = Merged(@, join)]
        <4>1. b = [out |-> merged, delta |-> delta, offset |-> offset, cursor |-> p]
          BY <2>9, <3>10, <3>12
        <4>2. Grown(b, lines, columns)
          BY <1>2, <1>4, <2>10, <3>7, <4>1
        <4> QED
          BY <1>5, <4>2
      <3>13. CASE b = [moved EXCEPT !.out = Split(@, join), !.delta = @ + line_delta]
        <4>1. b = [out |-> split, delta |-> d, offset |-> offset, cursor |-> p]
          BY <2>9, <3>4, <3>10, <3>13
        <4>2. Grown(b, lines, columns)
          BY <1>2, <1>4, <2>10, <3>5, <3>7, <4>1
        <4> QED
          BY <1>5, <4>2
      <3> QED
        BY <3>11, <3>12, <3>13
    <2>14. CASE i # buffer_line
      <3>1. b = JoinRow(a, join, i, buffer_line)
        BY <1>1, <1>5, <1>7, <2>2, <2>4, <2>6, <2>11, <2>14 DEF GrowStep
      <3>2. PICK o, r : /\ o = (IF i < offset THEN offset - 1 ELSE offset)
                        /\ r = (IF i < buffer_line THEN cursor.row + 1 ELSE cursor.row)
        OBVIOUS
      <3>3. o \in Nat
        BY <1>2, <3>2
      <3>4. r \in 0 .. lines - 1
        BY <1>3, <2>12, <3>2
      <3>5. PICK p : p = [row |-> r, col |-> cursor.col, wrap |-> cursor.wrap]
        OBVIOUS
      <3>6. p \in Positions(lines, columns)
        BY <1>3, <3>4, <3>5 DEF Positions
      <3>7. CASE IsClear(join.rest)
        <4>1. b = [a EXCEPT !.out = Merged(@, join),
                   !.offset = IF i < @ THEN @ - 1 ELSE @,
                   !.cursor.row = IF i < buffer_line THEN @ + 1 ELSE @]
          BY <3>1, <3>7 DEF JoinRow
        <4>2. b = [out |-> merged, delta |-> delta, offset |-> o, cursor |-> p]
          BY <1>2, <1>3, <2>9, <3>2, <3>5, <4>1
        <4>3. Grown(b, lines, columns)
          BY <1>2, <1>4, <2>10, <3>3, <3>6, <4>2
        <4> QED
          BY <1>5, <4>3
      <3>8. CASE ~IsClear(join.rest)
        <4>1. b = [a EXCEPT !.out = Split(@, join)]
          BY <3>1, <3>8 DEF JoinRow
        <4>2. b = [out |-> split, delta |-> delta, offset |-> offset, cursor |-> cursor]
          BY <1>2, <2>9, <4>1
        <4>3. Grown(b, lines, columns)
          BY <1>2, <1>4, <2>10, <4>2
        <4> QED
          BY <1>5, <4>3
      <3> QED
        BY <3>7, <3>8
    <2> QED
      BY <2>13, <2>14
  <1> QED
    BY <1>6, <1>7

(* The rows that the screen lacks are added, and no more are given up than *)
(* the history has.                                                        *)
LEMMA PulledDown ==
    ASSUME NEW lines \in Nat, lines >= 1, NEW columns \in Nat, NEW a, Grown(a, lines, columns)
    PROVE  /\ Grown(PullDown(a, lines, columns), lines, columns)
           /\ Len(PullDown(a, lines, columns).out) >= lines
  <1>1. PICK n, W, old, cursor, delta, offset :
            /\ n = Len(a.out) /\ W = 0 .. columns /\ old = a.out /\ cursor = a.cursor
            /\ delta = a.delta /\ offset = a.offset
    OBVIOUS
  <1>2. /\ a = [out |-> old, delta |-> delta, offset |-> offset, cursor |-> cursor]
        /\ n \in Nat /\ IsRows(old, n, W) /\ delta \in Nat /\ offset \in Nat
        /\ cursor \in Positions(lines, columns)
    BY <1>1 DEF Grown
  <1>3. /\ cursor = [row |-> cursor.row, col |-> cursor.col, wrap |-> cursor.wrap]
        /\ cursor.row \in 0 .. lines - 1 /\ cursor.col \in 0 .. columns - 1
        /\ cursor.wrap \in BOOLEAN
    BY <1>2, PositionFacts
  <1>4. PICK missing, blanks : missing = AtLeast(lines - n, 0) /\ blanks = Blanks(missing, columns)
    OBVIOUS
  <1>5. missing \in Nat /\ n + missing >= lines
    BY <1>2, <1>4 DEF AtLeast
  <1>6. IsRows(blanks, missing, W)
    <2>1. IsRows(blanks, missing, {columns})
      BY <1>4, <1>5, BlankRows
    <2> QED
      BY <1>1, <2>1 DEF IsRows, IsRow
  <1>7. PICK out, m : out = old \o blanks /\ m = n + missing
    OBVIOUS
  <1>8. IsRows(out, m, W) /\ m \in Nat /\ m >= lines
    <2>1. IsRows(old \o blanks, n + missing, W)
      BY ONLY <1>2, <1>5, <1>6, RowsConcat
    <2> QED
      BY <1>2, <1>5, <1>7, <2>1
  <1>9. Len(out) = m
    BY <1>8, SpanSeq DEF IsRows
  <1>10. PICK row : row = AtLeast(cursor.row - missing, 0)
    OBVIOUS
  <1>11. row \in 0 .. lines - 1
    BY <1>3, <1>5, <1>10 DEF AtLeast
  <1>12. PICK available : available = AtMost(lines - row - 1, m - lines)
    OBVIOUS
  <1>13. available \in Nat /\ available <= m - lines
    BY <1>8, <1>11, <1>12 DEF AtMost
  <1>14. PICK overflow : overflow = AtLeast(delta - available, 0)
    OBVIOUS
  <1>15. overflow \in Nat /\ delta - overflow <= available /\ overflow <= delta
    BY <1>2, <1>13, <1>14 DEF AtLeast
  <1>16. PICK k, x, r : k = m + overflow - delta /\ x = 1 /\ r = AtLeast(row - overflow, 0)
    OBVIOUS
  <1>17. k \in Nat /\ k >= lines /\ k <= m /\ k - x + 1 = k
    BY <1>2, <1>8, <1>13, <1>15, <1>16
  <1>18. PICK list, p : list = SubSeq(out, x, k) /\ p = [row |-> r, col |-> cursor.col, wrap |-> cursor.wrap]
    OBVIOUS
  <1>19. IsRows(list, k, W)
    <2>1. x \in Int /\ k \in Int /\ 1 <= x /\ k <= m /\ x <= k + 1
      BY <1>16, <1>17
    <2>2. IsRows(SubSeq(out, x, k), k - x + 1, W)
      BY ONLY <1>8, <2>1, RowsSub
    <2> QED
      BY <1>17, <1>18, <2>2
  <1>20. r \in 0 .. lines - 1
    BY <1>11, <1>15, <1>16 DEF AtLeast
  <1>21. p \in Positions(lines, columns)
    BY <1>3, <1>18, <1>20 DEF Positions
  <1>22. PICK b : b = PullDown(a, lines, columns)
    OBVIOUS
  <1>23. b = [a EXCEPT !.out = SubSeq(out, 1, m + overflow - delta),
                       !.cursor.row = AtLeast(row - overflow, 0)]
    BY <1>1, <1>4, <1>7, <1>9, <1>10, <1>12, <1>14, <1>22 DEF PullDown
  <1>24. b = [out |-> list, delta |-> delta, offset |-> offset, cursor |-> p]
    BY <1>2, <1>3, <1>16, <1>18, <1>23
  <1>25. Len(list) = k
    BY <1>17, <1>19, SpanSeq DEF IsRows
  <1>26. b.out = list /\ b.delta = delta /\ b.offset = offset /\ b.cursor = p
    BY <1>24
  <1> QED
    BY <1>1, <1>2, <1>17, <1>19, <1>21, <1>22, <1>24, <1>25, <1>26 DEF Grown

(* The recursion that the fold of grow_columns chooses. *)
GrowFolding(list, seq, n, lines, columns, reflow, base, f) ==
    f = [s \in SUBSET (1 .. n) |->
            IF s = {} THEN base
            ELSE GrowStep(f[s \ {Max(s)}], list[seq[Max(s)]], Len(list) - seq[Max(s)],
                          lines, columns, reflow)]

(* So the fold over all rows leaves wider rows. *)
LEMMA GrownFold ==
    ASSUME NEW lines \in Nat, lines >= 1, NEW columns \in Nat, columns >= 1,
           NEW c \in Nat, c >= 1, c < columns,
           NEW n \in Nat, NEW list, IsRows(list, n, {c}), NEW reflow,
           NEW base, Grown(base, lines, columns)
    PROVE  Grown(GrowRows(base, list, lines, columns, reflow), lines, columns)
  <1>1. PICK p : p = [loop |-> "grow", rows |-> list, lines |-> lines, columns |-> columns,
                      reflow |-> reflow]
    OBVIOUS
  <1>2. \A y, i : Turn(p, y, i) = GrowStep(y, list[i], Len(list) - i, lines, columns, reflow)
    BY <1>1 DEF Turn
  <1>3. DOMAIN list = 1 .. n /\ Len(list) = n
    <2>1. Spans(list, n)
      BY DEF IsRows
    <2> QED
      BY <2>1, SpanSeq DEF Spans
  <1>4. PICK seq : seq = [i \in DOMAIN list |-> i]
    OBVIOUS
  <1>5. DOMAIN seq = 1 .. n /\ \A i \in 1 .. n : seq[i] = i
    BY <1>3, <1>4
  <1>6. PICK x : x = GrowRows(base, list, lines, columns, reflow)
    OBVIOUS
  <1>7. x = (CHOOSE f : f = [s \in SUBSET DOMAIN seq |->
                IF s = {} THEN base
                ELSE GrowStep(f[s \ {Max(s)}], list[seq[Max(s)]], Len(list) - seq[Max(s)],
                              lines, columns, reflow)])[DOMAIN seq]
    BY <1>4, <1>6 DEF GrowRows, FoldLeftDomain, FoldLeft, MapThenFoldSet
  <1>8. x = (CHOOSE f : GrowFolding(list, seq, n, lines, columns, reflow, base, f))[1 .. n]
    BY <1>5, <1>7 DEF GrowFolding
  <1>9. \A s \in SUBSET (1 .. n) : s # {} => seq[Max(s)] = Max(s)
    <2>1. SUFFICES ASSUME NEW s \in SUBSET (1 .. n), s # {} PROVE seq[Max(s)] = Max(s)
      OBVIOUS
    <2>2. Max(s) \in s
      BY <2>1, LastTurn
    <2> QED
      BY <1>5, <2>2
  <1>10. ASSUME NEW f
         PROVE  TurnFolding(p, base, n, f) <=> GrowFolding(list, seq, n, lines, columns, reflow, base, f)
    <2>1. \A s \in SUBSET (1 .. n) :
              (IF s = {} THEN base ELSE Turn(p, f[s \ {Max(s)}], Max(s)))
              = (IF s = {} THEN base
                 ELSE GrowStep(f[s \ {Max(s)}], list[seq[Max(s)]], Len(list) - seq[Max(s)],
                               lines, columns, reflow))
      BY <1>2, <1>9
    <2>2. [s \in SUBSET (1 .. n) |-> IF s = {} THEN base ELSE Turn(p, f[s \ {Max(s)}], Max(s))]
          = [s \in SUBSET (1 .. n) |->
                IF s = {} THEN base
                ELSE GrowStep(f[s \ {Max(s)}], list[seq[Max(s)]], Len(list) - seq[Max(s)],
                              lines, columns, reflow)]
      BY ONLY <2>1
    <2> QED
      BY <2>2 DEF TurnFolding, GrowFolding
  <1>11. PICK b : Turns(p, base, n, b) /\ b[n] = x
    <2>1. PICK h : h = CHOOSE f : GrowFolding(list, seq, n, lines, columns, reflow, base, f)
      OBVIOUS
    <2>2. \E f : GrowFolding(list, seq, n, lines, columns, reflow, base, f)
      BY <1>10, TurnFoldingExists
    <2>3. GrowFolding(list, seq, n, lines, columns, reflow, base, h)
      BY <2>1, <2>2
    <2>4. TurnFolding(p, base, n, h)
      BY <1>10, <2>3
    <2>5. \E b : Turns(p, base, n, b) /\ b[n] = h[1 .. n]
      BY ONLY <2>4, TurnFoldingTurns, n \in Nat
    <2> QED
      BY <1>8, <2>1, <2>5
  <1>12. PICK K : K = {k \in 0 .. n : Grown(b[k], lines, columns)}
    OBVIOUS
  <1>13. 0 \in K
    <2>1. b[0] = base
      BY <1>11 DEF Turns
    <2>2. Grown(b[0], lines, columns) /\ 0 \in 0 .. n
      BY ONLY <2>1, Grown(base, lines, columns), n \in Nat
    <2> QED
      BY <1>12, <2>2
  <1>14. ASSUME NEW k \in 1 .. n, k - 1 \in K PROVE k \in K
    <2>1. PICK a : a = b[k - 1]
      OBVIOUS
    <2>2. Grown(a, lines, columns)
      BY <1>12, <1>14, <2>1
    <2>3. PICK row, i : row = list[k] /\ i = n - k
      OBVIOUS
    <2>4. IsRow(row, {c}) /\ i \in Nat
      <3>1. IsRow(list[k], {c})
        BY <1>14 DEF IsRows
      <3>2. n - k \in Nat
        BY ONLY n \in Nat, k \in 1 .. n
      <3> QED
        BY <2>3, <3>1, <3>2
    <2>5. b[k] = GrowStep(a, row, i, lines, columns, reflow)
      BY <1>2, <1>3, <1>11, <2>1, <2>3 DEF Turns
    <2>6. Grown(GrowStep(a, row, i, lines, columns, reflow), lines, columns)
      BY ONLY <2>2, <2>4, GrownStep, lines \in Nat, lines >= 1, columns \in Nat, columns >= 1,
              c \in Nat, c >= 1, c < columns
    <2>7. Grown(b[k], lines, columns) /\ k \in 0 .. n
      BY ONLY <2>5, <2>6, n \in Nat, k \in 1 .. n
    <2> QED
      BY <1>12, <2>7
  <1>15. n \in K
    BY ONLY <1>13, <1>14, Climb, n \in Nat
  <1> QED
    BY <1>6, <1>11, <1>12, <1>15

(* Rows that are filled up to the new width. *)
LEMMA PaddedRows ==
    ASSUME NEW columns \in Nat, NEW n \in Nat, NEW out, IsRows(out, n, 0 .. columns),
           NEW list, list = [j \in DOMAIN out |-> PaddedRow(out[j], columns)]
    PROVE  IsRows(list, n, {columns})
  <1>1. DOMAIN out = 1 .. n
    BY DEF IsRows, Spans
  <1>2. Spans(list, n)
    BY <1>1 DEF Spans
  <1>3. ASSUME NEW i \in 1 .. n PROVE IsRow(list[i], {columns})
    <2>1. PICK r, cells : r = out[i] /\ cells = r.cells
      OBVIOUS
    <2>2. IsRow(r, 0 .. columns)
      BY <2>1 DEF IsRows
    <2>3. IsList(cells) /\ Len(cells) <= columns /\ r.dirty \in BOOLEAN
      BY <2>1, <2>2 DEF IsRow, IsList
    <2>4. PICK wide : wide = Padded(cells, columns)
      OBVIOUS
    <2>5. IsList(wide) /\ Len(wide) = columns
      BY <2>3, <2>4, PadList
    <2>6. list[i] = [cells |-> wide, dirty |-> r.dirty]
      BY <1>1, <2>1, <2>4 DEF PaddedRow
    <2>7. list[i].cells = wide /\ list[i].dirty = r.dirty
      BY <2>6
    <2> QED
      BY <2>3, <2>5, <2>6, <2>7 DEF IsRow, IsList
  <1> QED
    BY <1>2, <1>3 DEF IsRows

(* Places of a narrower screen, and one column beyond it. *)
LEMMA WiderPlace ==
    ASSUME NEW lines \in Nat, NEW c \in Nat, NEW columns \in Nat, c < columns,
           NEW cursor \in Positions(lines, c)
    PROVE  /\ cursor \in Positions(lines, columns)
           /\ Unwrapped(cursor) \in Positions(lines, columns)
  <1>1. /\ cursor = [row |-> cursor.row, col |-> cursor.col, wrap |-> cursor.wrap]
        /\ cursor.row \in 0 .. lines - 1 /\ cursor.col \in 0 .. c - 1
        /\ cursor.wrap \in BOOLEAN
    BY PositionFacts
  <1>2. cursor.col \in 0 .. columns - 1 /\ cursor.col + 1 \in 0 .. columns - 1
    BY <1>1
  <1>3. cursor \in Positions(lines, columns)
    BY <1>1, <1>2 DEF Positions
  <1>4. CASE cursor.wrap
    <2>1. PICK u, col : u = Unwrapped(cursor) /\ col = cursor.col + 1
      OBVIOUS
    <2>2. u = [row |-> cursor.row, col |-> col, wrap |-> FALSE]
      BY <1>1, <1>4, <2>1 DEF Unwrapped
    <2>3. u \in Positions(lines, columns)
      BY <1>1, <1>2, <2>1, <2>2 DEF Positions
    <2> QED
      BY <1>3, <2>1, <2>3
  <1>5. CASE ~cursor.wrap
    BY <1>3, <1>5 DEF Unwrapped
  <1> QED
    BY <1>4, <1>5

(* More columns: the rows are as wide as asked and the cursors on them. *)
LEMMA GrowColumns ==
    ASSUME NEW lines \in Nat, lines >= 1, NEW c \in Nat, c >= 1,
           NEW s, Landed(s, lines, c), NEW columns \in Nat, columns > c, NEW reflow
    PROVE  Landed(grow_columns(s, columns, reflow), lines, columns)
  <1>1. PICK g, cursor, list, n :
            g = s.grid /\ cursor = s.cursor /\ list = AllRows(g) /\ n = Len(list)
    OBVIOUS
  <1>2. /\ s = [grid |-> g, cursor |-> cursor, saved |-> s.saved]
        /\ Shape(g, lines, c)
        /\ cursor \in Positions(lines, c) /\ s.saved \in Positions(lines, c)
    BY <1>1 DEF Landed
  <1>3. Lines(g) = lines /\ g.offset \in Nat
    BY <1>2, ShapeFacts
  <1>4. n \in Nat /\ IsRows(list, n, {c})
    <2>1. PICK k \in Nat : IsRows(AllRows(g), k, {c}) /\ Len(AllRows(g)) = k
      BY <1>2, AllRowsRows
    <2> QED
      BY <1>1, <2>1
  <1>5. PICK start, first : /\ first = (IF reflow THEN Unwrapped(cursor) ELSE cursor)
                            /\ start = [out |-> <<>>, delta |-> 0, offset |-> g.offset, cursor |-> first]
    OBVIOUS
  <1>6. first \in Positions(lines, columns)
    BY <1>2, <1>5, WiderPlace
  <1>7. Grown(start, lines, columns)
    <2>1. Spans(<<>>, 0) /\ Len(<<>>) = 0
      BY EmptyList
    <2>2. /\ start.out = <<>> /\ start.delta = 0 /\ start.offset = g.offset
          /\ start.cursor = first
      BY <1>5
    <2>3. 1 .. 0 = {} /\ 0 \in Nat
      OBVIOUS
    <2>4. IsRows(start.out, 0, 0 .. columns)
      BY <2>1, <2>2, <2>3 DEF IsRows
    <2>5. start = [out |-> start.out, delta |-> start.delta, offset |-> start.offset,
                   cursor |-> start.cursor]
      BY <1>5, <2>2
    <2>6. Len(start.out) = 0 /\ start.delta \in Nat /\ start.offset \in Nat
      BY <1>3, <2>1, <2>2, <2>3
    <2>7. Len(start.out) \in Nat /\ IsRows(start.out, Len(start.out), 0 .. columns)
      BY <2>3, <2>4, <2>6
    <2> QED
      BY <1>6, <2>2, <2>5, <2>6, <2>7 DEF Grown
  <1>8. PICK folded : folded = GrowRows(start, list, lines, columns, reflow)
    OBVIOUS
  <1>9. Grown(folded, lines, columns)
    <2>1. columns >= 1
      OBVIOUS
    <2> QED
      BY ONLY <1>4, <1>7, <1>8, <2>1, GrownFold, lines \in Nat, lines >= 1, columns \in Nat,
              c \in Nat, c >= 1, columns > c
  <1>10. PICK done : done = PullDown(folded, lines, columns)
    OBVIOUS
  <1>11. Grown(done, lines, columns) /\ Len(done.out) >= lines
    BY ONLY <1>9, <1>10, PulledDown, lines \in Nat, lines >= 1, columns \in Nat
  <1>12. PICK m, out, offset : m = Len(done.out) /\ out = done.out /\ offset = done.offset
    OBVIOUS
  <1>13. m \in Nat /\ m >= lines /\ IsRows(out, m, 0 .. columns) /\ offset \in Nat
    BY ONLY <1>11, <1>12 DEF Grown
  <1>14. PICK padded : padded = [j \in DOMAIN done.out |-> PaddedRow(done.out[j], columns)]
    OBVIOUS
  <1>15. IsRows(padded, m, {columns})
    <2>1. padded = [j \in DOMAIN out |-> PaddedRow(out[j], columns)]
      BY ONLY <1>12, <1>14
    <2> QED
      BY ONLY <1>13, <2>1, PaddedRows, columns \in Nat
  <1>16. PICK h : h = WithRows(g, padded, lines, offset)
    OBVIOUS
  <1>17. Shape(h, lines, columns)
    BY ONLY <1>2, <1>13, <1>15, <1>16, WithRowsShape, lines \in Nat, lines >= 1, columns \in Nat
  <1>18. PICK r : r = grow_columns(s, columns, reflow)
    OBVIOUS
  <1>19. r = [s EXCEPT !.grid = h, !.cursor = done.cursor]
    <2>1. done = PullDown(GrowRows([out |-> <<>>, delta |-> 0, offset |-> s.grid.offset,
                  cursor |-> IF reflow THEN Unwrapped(s.cursor) ELSE s.cursor],
                  AllRows(s.grid), Lines(s.grid), columns, reflow), Lines(s.grid), columns)
      BY ONLY <1>1, <1>3, <1>5, <1>8, <1>10
    <2>2. r = [s EXCEPT !.grid = WithRows(s.grid,
                            [j \in DOMAIN done.out |-> PaddedRow(done.out[j], columns)],
                            Lines(s.grid), done.offset),
                        !.cursor = done.cursor]
      BY ONLY <1>18, <2>1 DEF grow_columns
    <2> QED
      BY ONLY <1>1, <1>3, <1>12, <1>14, <1>16, <2>2
  <1>20. r = [grid |-> h, cursor |-> done.cursor, saved |-> s.saved]
    BY ONLY <1>2, <1>19
  <1>21. done.cursor \in Positions(lines, columns) /\ s.saved \in Positions(lines, columns)
    <2>1. s.saved \in Positions(lines, columns)
      BY <1>2, WiderPlace
    <2> QED
      BY <1>11, <2>1 DEF Grown
  <1> QED
    BY ONLY <1>17, <1>18, <1>20, <1>21 DEF Landed
-----------------------------------------------------------------------------
(* Splitting rows. *)

(* A cursor in a row of the screen, in any column. *)
Beyond(lines) == [row : 0 .. lines - 1, col : Nat, wrap : BOOLEAN]

(* The fields of a cursor that may be behind the last column. *)
LEMMA BeyondFacts ==
    ASSUME NEW lines \in Nat, NEW q, q \in Beyond(lines)
    PROVE  /\ q = [row |-> q.row, col |-> q.col, wrap |-> q.wrap]
           /\ q.row \in 0 .. lines - 1 /\ q.col \in Nat /\ q.wrap \in BOOLEAN
  BY DEF Beyond

(* What holds before every turn of the loops of shrink_columns. *)
Shrunk(b, lines, columns) ==
    /\ b = [out |-> b.out, buffered |-> b.buffered, cells |-> b.cells, done |-> b.done,
            offset |-> b.offset, cursor |-> b.cursor]
    /\ Len(b.out) \in Nat /\ IsRows(b.out, Len(b.out), {columns})
    /\ IsList(b.buffered) /\ IsList(b.cells)
    /\ b.done \in BOOLEAN /\ b.offset \in Nat
    /\ b.cursor \in Beyond(lines)

(* The parts of a shrinking state. *)
LEMMA MakeShrunk ==
    ASSUME NEW lines, NEW columns, NEW n \in Nat, NEW out, IsRows(out, n, {columns}),
           NEW buffered, IsList(buffered), NEW cells, IsList(cells), NEW done \in BOOLEAN,
           NEW offset \in Nat, NEW cursor, cursor \in Beyond(lines),
           NEW b, b = [out |-> out, buffered |-> buffered, cells |-> cells, done |-> done,
                       offset |-> offset, cursor |-> cursor]
    PROVE  Shrunk(b, lines, columns) /\ Len(b.out) = n
  <1>1. /\ b.out = out /\ b.buffered = buffered /\ b.cells = cells /\ b.done = done
        /\ b.offset = offset /\ b.cursor = cursor
    OBVIOUS
  <1>2. Len(out) = n
    BY SpanSeq DEF IsRows
  <1> QED
    BY <1>1, <1>2 DEF Shrunk

(* The cells behind the new last column. *)
LEMMA OverhangList ==
    ASSUME NEW cells, IsList(cells), NEW columns \in Nat
    PROVE  IsList(Overhang(cells, columns))
  <1>1. PICK cut, x, n : n = Len(cells) /\ x = columns + 1 /\ cut = SubSeq(cells, x, n)
    OBVIOUS
  <1>2. x \in Int /\ n \in Int /\ n \in Nat
    BY <1>1 DEF IsList
  <1>3. IsList(cut)
    BY <1>1, <1>2, CutList
  <1>4. PICK I, last : /\ I = {i \in 1 .. Len(cut) : ~IsEmpty(cut[i])}
                       /\ last = SelectLastInSeq(cut, LAMBDA c : ~IsEmpty(c))
    OBVIOUS
  <1>5. last = IF I # {} THEN Max(I) ELSE 0
    BY <1>4 DEF SelectLastInSeq
  <1>6. last \in Int
    <2>1. PICK m : m = Len(cut)
      OBVIOUS
    <2>2. m \in Nat /\ I \in SUBSET (1 .. m)
      BY <1>3, <1>4, <2>1 DEF IsList
    <2>3. CASE I # {}
      <3>1. Max(I) \in I
        BY <2>2, <2>3, LastTurn
      <3>2. Max(I) \in 1 .. m
        BY <2>2, <3>1
      <3>3. Max(I) \in Int
        BY <2>2, <3>2
      <3> QED
        BY <1>5, <2>3, <3>3
    <2>4. CASE I = {}
      BY <1>5, <2>4
    <2> QED
      BY <2>3, <2>4
  <1>7. PICK y : y = 1
    OBVIOUS
  <1>8. IsList(SubSeq(cut, y, last))
    <2>1. y \in Int
      BY <1>7
    <2> QED
      BY <1>6, <2>1, CutList
  <1>9. Overhang(cells, columns) = SubSeq(cut, y, last)
    BY <1>1, <1>4, <1>7 DEF Overhang
  <1> QED
    BY <1>8, <1>9

(* A list of one element. *)
LEMMA OneList ==
    ASSUME NEW e
    PROVE  IsList(<<e>>)
  <1>1. PICK t, n : t = <<e>> /\ n = 1
    OBVIOUS
  <1>2. n \in Nat /\ t = [i \in 1 .. n |-> t[i]]
    BY <1>1
  <1>3. Spans(t, n)
    BY <1>2 DEF Spans
  <1>4. IsList(t)
    BY <1>2, <1>3, SpanList
  <1> QED
    BY <1>1, <1>4

(* Cells cut from a row, with and without a leading spacer. *)
LEMMA CutLists ==
    ASSUME NEW columns \in Nat, columns >= 1, NEW first, Spans(first, columns),
           NEW tail, IsList(tail)
    PROVE  Spans(Cut(first, tail).kept, columns) /\ IsList(Cut(first, tail).over)
  <1>1. PICK cut : cut = Cut(first, tail)
    OBVIOUS
  <1>2. CASE Last(first).c = "E"
    <2>1. PICK n, front, l, kept, one : /\ n = columns - 1 /\ front = Front(first) /\ l = Cell("l")
                                        /\ kept = Append(front, l) /\ one = <<Last(first)>>
      OBVIOUS
    <2>2. n \in Nat /\ n + 1 = columns
      BY <2>1
    <2>3. Spans(front, n)
      BY <2>1, SpanFront
    <2>4. Joined(kept, front, n, <<l>>, 1)
      BY ONLY <2>1, <2>2, <2>3, SpanAppend
    <2>5. Spans(kept, columns)
      BY <2>2, <2>4 DEF Joined
    <2>6. IsList(one)
      <3>1. PICK e : e = Last(first)
        OBVIOUS
      <3>2. IsList(<<e>>)
        BY OneList
      <3> QED
        BY <2>1, <3>1, <3>2
    <2>7. IsList(one \o tail)
      BY <2>6, ConcatList
    <2>8. cut = [kept |-> kept, over |-> one \o tail]
      BY <1>1, <1>2, <2>1 DEF Cut
    <2> QED
      BY <1>1, <2>5, <2>7, <2>8
  <1>3. CASE Last(first).c # "E"
    <2>1. cut = [kept |-> first, over |-> tail]
      BY <1>1, <1>3 DEF Cut
    <2> QED
      BY <1>1, <2>1
  <1> QED
    BY <1>2, <1>3

(* What goes on behind a row is passed on, and the cursor with it. *)
LEMMA PassedOn ==
    ASSUME NEW lines \in Nat, lines >= 1, NEW columns \in Nat, NEW b, Shrunk(b, lines, columns),
           NEW over, IsList(over), NEW i \in Nat, NEW buffer_line
    PROVE  /\ Shrunk(PassOn(b, over, i, buffer_line, columns), lines, columns)
           /\ Len(PassOn(b, over, i, buffer_line, columns).out) = Len(b.out)
  <1>1. PICK n, out, buffered, cells, done, offset, cursor :
            /\ n = Len(b.out) /\ out = b.out /\ buffered = b.buffered /\ cells = b.cells
            /\ done = b.done /\ offset = b.offset /\ cursor = b.cursor
    OBVIOUS
  <1>2. /\ b = [out |-> out, buffered |-> buffered, cells |-> cells, done |-> done,
                offset |-> offset, cursor |-> cursor]
        /\ n \in Nat /\ IsRows(out, n, {columns}) /\ IsList(buffered) /\ IsList(cells)
        /\ done \in BOOLEAN /\ offset \in Nat /\ cursor \in Beyond(lines)
    BY <1>1 DEF Shrunk
  <1>3. /\ cursor = [row |-> cursor.row, col |-> cursor.col, wrap |-> cursor.wrap]
        /\ cursor.row \in 0 .. lines - 1 /\ cursor.col \in Nat /\ cursor.wrap \in BOOLEAN
    BY <1>2, BeyondFacts
  <1>4. PICK d : d = PassOn(b, over, i, buffer_line, columns)
    OBVIOUS
  <1>5. PICK wrapped, padded : wrapped = WithWrap(over, FALSE) /\ padded = Padded(over, columns)
    OBVIOUS
  <1>6. IsList(wrapped) /\ IsList(padded)
    BY <1>5, WrapList, PadList
  <1>7. CASE over # <<>> /\ Last(over).wrapline /\ i >= 1 /\ Len(over) < columns
    <2>1. PICK yes : yes = TRUE
      OBVIOUS
    <2>2. d = [b EXCEPT !.buffered = wrapped, !.done = yes]
      BY <1>4, <1>5, <1>7, <2>1 DEF PassOn
    <2>3. d = [out |-> out, buffered |-> wrapped, cells |-> cells, done |-> yes,
               offset |-> offset, cursor |-> cursor]
      BY ONLY <1>2, <2>2
    <2>4. yes \in BOOLEAN
      BY <2>1
    <2>5. Shrunk(d, lines, columns) /\ Len(d.out) = n
      BY ONLY <1>2, <1>6, <2>3, <2>4, MakeShrunk
    <2> QED
      BY <1>1, <1>4, <2>5
  <1>8. CASE ~(over # <<>> /\ Last(over).wrapline /\ i >= 1 /\ Len(over) < columns)
    <2>1. PICK r, c, o :
            /\ r = (IF (i = buffer_line /\ cursor.col < columns) \/ i < buffer_line
                    THEN AtLeast(cursor.row - 1, 0) ELSE cursor.row)
            /\ c = (IF i = buffer_line /\ cursor.col >= columns THEN cursor.col - columns ELSE cursor.col)
            /\ o = (IF i < offset THEN offset + 1 ELSE offset)
      OBVIOUS
    <2>2. r \in 0 .. lines - 1
      BY <1>3, <2>1 DEF AtLeast
    <2>3. c \in Nat /\ o \in Nat
      BY <1>2, <1>3, <2>1
    <2>4. PICK p : p = [row |-> r, col |-> c, wrap |-> cursor.wrap]
      OBVIOUS
    <2>5. p \in Beyond(lines)
      BY <1>3, <2>2, <2>3, <2>4 DEF Beyond
    <2>6. d = [b EXCEPT !.cells = padded,
            !.cursor.row = IF (i = buffer_line /\ b.cursor.col < columns) \/ i < buffer_line
                           THEN AtLeast(@ - 1, 0) ELSE @,
            !.cursor.col = IF i = buffer_line /\ @ >= columns THEN @ - columns ELSE @,
            !.offset = IF i < @ THEN @ + 1 ELSE @]
      BY <1>4, <1>5, <1>8 DEF PassOn
    <2>7. d = [out |-> out, buffered |-> buffered, cells |-> padded, done |-> done,
               offset |-> o, cursor |-> p]
      BY <1>2, <1>3, <2>1, <2>4, <2>6
    <2>8. Shrunk(d, lines, columns) /\ Len(d.out) = n
      BY <1>2, <1>6, <2>3, <2>5, <2>7, MakeShrunk
    <2> QED
      BY <1>1, <1>4, <2>8
  <1> QED
    BY <1>7, <1>8

(* A row that is pushed. *)
Pushing(d, b, cells, done) ==
    done \in BOOLEAN /\ d = [b EXCEPT !.out = Append(@, Dirty(cells)), !.done = done]

(* A turn pushes one row of the new width. *)
LEMMA Pushed ==
    ASSUME NEW lines \in Nat, NEW columns \in Nat, NEW b, Shrunk(b, lines, columns),
           NEW cells, Spans(cells, columns), NEW done, NEW d, Pushing(d, b, cells, done)
    PROVE  Shrunk(d, lines, columns) /\ Len(d.out) = Len(b.out) + 1
  <1>1. PICK n, out, buffered, old, was, offset, cursor :
            /\ n = Len(b.out) /\ out = b.out /\ buffered = b.buffered /\ old = b.cells
            /\ was = b.done /\ offset = b.offset /\ cursor = b.cursor
    OBVIOUS
  <1>2. /\ b = [out |-> out, buffered |-> buffered, cells |-> old, done |-> was,
                offset |-> offset, cursor |-> cursor]
        /\ n \in Nat /\ IsRows(out, n, {columns}) /\ IsList(buffered) /\ IsList(old)
        /\ offset \in Nat /\ cursor \in Beyond(lines)
    BY <1>1 DEF Shrunk
  <1>3. PICK W, r, list, m : W = {columns} /\ r = Dirty(cells) /\ list = Append(out, r) /\ m = n + 1
    OBVIOUS
  <1>4. IsRow(r, W)
    BY <1>3, RowDirty
  <1>5. IsRows(list, m, {columns}) /\ m \in Nat
    <2>1. IsRows(out, n, W)
      BY <1>2, <1>3
    <2>2. IsRows(Append(out, r), n + 1, W)
      BY ONLY <1>2, <1>4, <2>1, RowsAppend
    <2> QED
      BY <1>2, <1>3, <2>2
  <1>6. d = [out |-> list, buffered |-> buffered, cells |-> old, done |-> done,
             offset |-> offset, cursor |-> cursor]
    <2>1. d = [b EXCEPT !.out = list, !.done = done]
      BY <1>1, <1>3 DEF Pushing
    <2> QED
      <3>1. b = [out |-> out, buffered |-> buffered, cells |-> old, done |-> was,
                 offset |-> offset, cursor |-> cursor]
        BY ONLY <1>2
      <3> QED
        BY ONLY <2>1, <3>1
  <1>7. Shrunk(d, lines, columns) /\ Len(d.out) = m
    <2>1. done \in BOOLEAN
      BY DEF Pushing
    <2> QED
      BY ONLY <1>2, <1>5, <1>6, <2>1, MakeShrunk
  <1> QED
    BY <1>1, <1>3, <1>7

(* b has come to d, and pushed at least more rows. *)
Pushes(b, d, more, lines, columns) ==
    Shrunk(d, lines, columns) /\ Len(d.out) >= Len(b.out) + more

(* A row that is too long is split into rows of the new width. *)
LEMMA SplitRows ==
    ASSUME NEW lines \in Nat, lines >= 1, NEW columns \in Nat, columns >= 1,
           NEW b, Shrunk(b, lines, columns),
           NEW first, Spans(first, columns), NEW tail, IsList(tail),
           NEW i \in Nat, NEW buffer_line, NEW one, one = 1
    PROVE  Pushes(b, SplitRow(b, Cut(first, tail), i, buffer_line, columns), one, lines, columns)
  <1>1. PICK cut, kept, over : cut = Cut(first, tail) /\ kept = cut.kept /\ over = cut.over
    OBVIOUS
  <1>2. Spans(kept, columns) /\ IsList(over)
    <2>1. Spans(Cut(first, tail).kept, columns) /\ IsList(Cut(first, tail).over)
      BY CutLists
    <2> QED
      BY <1>1, <2>1
  <1>3. PICK cells : cells = WithWrap(kept, TRUE)
    OBVIOUS
  <1>4. Spans(cells, columns)
    <2>1. IsList(kept) /\ Len(kept) = columns
      BY <1>2, SpanList
    <2>2. IsList(cells) /\ Len(cells) = columns
      BY <1>3, <2>1, WrapList
    <2> QED
      BY <2>2 DEF IsList
  <1>5. PICK pushed, done : done = b.done /\ pushed = [b EXCEPT !.out = Append(@, Dirty(cells))]
    OBVIOUS
  <1>6. Shrunk(pushed, lines, columns) /\ Len(pushed.out) = Len(b.out) + 1
    <2>1. done \in BOOLEAN
      BY <1>5 DEF Shrunk
    <2>2. pushed = [b EXCEPT !.out = Append(@, Dirty(cells)), !.done = done]
      <3>1. b = [out |-> b.out, buffered |-> b.buffered, cells |-> b.cells, done |-> b.done,
                 offset |-> b.offset, cursor |-> b.cursor]
        BY DEF Shrunk
      <3> QED
        BY ONLY <1>5, <3>1
    <2> QED
      <3>1. Pushing(pushed, b, cells, done)
        BY ONLY <2>1, <2>2 DEF Pushing
      <3> QED
        BY ONLY <1>4, <3>1, Pushed, lines \in Nat, columns \in Nat, Shrunk(b, lines, columns)
  <1>7. Len(b.out) \in Nat
    BY DEF Shrunk
  <1>8. PICK d : d = SplitRow(b, cut, i, buffer_line, columns)
    OBVIOUS
  <1>9. CASE ~(over # <<>> /\ Last(over).c = "l")
    <2>1. d = PassOn(pushed, over, i, buffer_line, columns)
      BY <1>1, <1>3, <1>5, <1>8, <1>9 DEF SplitRow
    <2>2. Shrunk(d, lines, columns) /\ Len(d.out) = Len(pushed.out)
      BY ONLY <1>2, <1>6, <2>1, PassedOn, lines \in Nat, lines >= 1, columns \in Nat, i \in Nat
    <2> QED
      BY <1>1, <1>6, <1>7, <1>8, <2>2 DEF Pushes
  <1>10. CASE over # <<>> /\ Last(over).c = "l" /\ Len(over) = 1
    <2>1. PICK yes : yes = TRUE
      OBVIOUS
    <2>2. d = [pushed EXCEPT !.done = yes]
      BY <1>1, <1>3, <1>5, <1>8, <1>10, <2>1 DEF SplitRow
    <2>3. d = [b EXCEPT !.out = Append(@, Dirty(cells)), !.done = yes]
      <3>1. b = [out |-> b.out, buffered |-> b.buffered, cells |-> b.cells, done |-> done,
                 offset |-> b.offset, cursor |-> b.cursor]
        BY <1>5 DEF Shrunk
      <3> QED
        BY ONLY <1>5, <2>2, <3>1
    <2>4. yes \in BOOLEAN
      BY <2>1
    <2>5. Shrunk(d, lines, columns) /\ Len(d.out) = Len(b.out) + 1
      <3>1. Pushing(d, b, cells, yes)
        BY ONLY <2>3, <2>4 DEF Pushing
      <3> QED
        BY ONLY <1>4, <3>1, Pushed, lines \in Nat, columns \in Nat, Shrunk(b, lines, columns)
    <2> QED
      BY <1>1, <1>7, <1>8, <2>5 DEF Pushes
  <1>11. CASE over # <<>> /\ Last(over).c = "l" /\ Len(over) # 1
    <2>1. PICK n, front, wrapped : n = Len(over) /\ front = Front(over) /\ wrapped = WithWrap(front, TRUE)
      OBVIOUS
    <2>2. n >= 1
      <3>1. n \in Nat /\ Spans(over, n)
        BY <1>2, <2>1 DEF IsList
      <3>2. n # 0
        <4>1. n = 0 => Spans(over, 0)
          BY <3>1
        <4> QED
          BY <1>11, <4>1, NoneList
      <3> QED
        BY <3>1, <3>2
    <2>3. IsList(wrapped)
      <3>1. IsList(front)
        BY <1>2, <2>1, <2>2, FrontList
      <3> QED
        BY <2>1, <3>1, WrapList
    <2>4. d = PassOn(pushed, wrapped, i, buffer_line, columns)
      BY <1>1, <1>3, <1>5, <1>8, <1>11, <2>1 DEF SplitRow
    <2>5. Shrunk(d, lines, columns) /\ Len(d.out) = Len(pushed.out)
      BY ONLY <1>6, <2>3, <2>4, PassedOn, lines \in Nat, lines >= 1, columns \in Nat, i \in Nat
    <2> QED
      BY <1>1, <1>6, <1>7, <1>8, <2>5 DEF Pushes
  <1> QED
    BY <1>9, <1>10, <1>11

(* One turn on a row. *)
LEMMA TurnPushes ==
    ASSUME NEW lines \in Nat, lines >= 1, NEW columns \in Nat, columns >= 1,
           NEW b, Shrunk(b, lines, columns), NEW i \in Nat, NEW reflow,
           NEW more, more = IF b.done THEN 0 ELSE 1
    PROVE  Pushes(b, ShrinkTurn(b, i, lines, columns, reflow), more, lines, columns)
  <1>1. PICK tail, first, buffer_line, cells :
            /\ cells = b.cells /\ tail = Overhang(cells, columns) /\ first = SubSeq(cells, 1, columns)
            /\ buffer_line = CursorBufferLine(lines, b.cursor)
    OBVIOUS
  <1>2. IsList(tail) /\ Spans(first, columns)
    <2>1. IsList(cells)
      BY <1>1 DEF Shrunk
    <2> QED
      BY <1>1, <2>1, OverhangList, CutSpan
  <1>3. PICK d : d = ShrinkTurn(b, i, lines, columns, reflow)
    OBVIOUS
  <1>4. Len(b.out) \in Nat
    BY DEF Shrunk
  <1>5. PICK fits : fits = (~reflow \/ (tail = <<>> /\ ~(i = buffer_line /\ b.cursor.col > columns)))
    OBVIOUS
  <1>6. CASE b.done
    <2>1. d = b
      BY <1>3, <1>6 DEF ShrinkTurn
    <2>2. Len(b.out) >= Len(b.out) + more
      BY <1>4, <1>6
    <2> QED
      BY <1>3, <2>1, <2>2 DEF Pushes
  <1>7. CASE ~b.done /\ fits
    <2>1. PICK yes : yes = TRUE
      OBVIOUS
    <2>2. d = [b EXCEPT !.out = Append(@, Dirty(first)), !.done = yes]
      BY <1>1, <1>3, <1>5, <1>7, <2>1 DEF ShrinkTurn
    <2>3. yes \in BOOLEAN
      BY <2>1
    <2>4. Shrunk(d, lines, columns) /\ Len(d.out) = Len(b.out) + 1
      <3>1. Pushing(d, b, first, yes)
        BY ONLY <2>2, <2>3 DEF Pushing
      <3> QED
        BY ONLY <1>2, <3>1, Pushed, lines \in Nat, columns \in Nat, Shrunk(b, lines, columns)
    <2>5. Len(d.out) >= Len(b.out) + more
      BY <1>4, <1>7, <2>4
    <2> QED
      BY <1>3, <2>4, <2>5 DEF Pushes
  <1>8. CASE ~b.done /\ ~fits
    <2>1. d = SplitRow(b, Cut(first, tail), i, buffer_line, columns)
      BY <1>1, <1>3, <1>5, <1>8 DEF ShrinkTurn
    <2>2. PICK one : one = 1
      OBVIOUS
    <2>3. Pushes(b, SplitRow(b, Cut(first, tail), i, buffer_line, columns), one, lines, columns)
      BY ONLY <1>2, <2>2, SplitRows, lines \in Nat, lines >= 1, columns \in Nat, columns >= 1,
              i \in Nat, Shrunk(b, lines, columns)
    <2>4. one = more
      BY <1>8, <2>2
    <2> QED
      BY <1>3, <2>1, <2>3, <2>4
  <1> QED
    BY <1>6, <1>7, <1>8

(* The recursion that the fold of ShrinkTurns chooses. *)
TurnsFolding(m, base, i, lines, columns, reflow, f) ==
    f = [s \in SUBSET (1 .. m) |->
            IF s = {} THEN base ELSE ShrinkTurn(f[s \ {Max(s)}], i, lines, columns, reflow)]

(* The turns on one row push at least one row. *)
LEMMA TurnsPush ==
    ASSUME NEW lines \in Nat, lines >= 1, NEW columns \in Nat, columns >= 1,
           NEW base, Shrunk(base, lines, columns), ~base.done,
           NEW m \in Nat, m >= 1, NEW i \in Nat, NEW reflow, NEW one, one = 1
    PROVE  Pushes(base, ShrinkTurns(base, m, i, lines, columns, reflow), one, lines, columns)
  <1>1. PICK p : p = [loop |-> "turns", i |-> i, lines |-> lines, columns |-> columns,
                      reflow |-> reflow]
    OBVIOUS
  <1>2. \A y, k : Turn(p, y, k) = ShrinkTurn(y, i, lines, columns, reflow)
    BY <1>1 DEF Turn
  <1>3. PICK x, seq : /\ x = ShrinkTurns(base, m, i, lines, columns, reflow)
                      /\ seq = [k \in 1 .. m |-> k]
    OBVIOUS
  <1>4. DOMAIN seq = 1 .. m
    BY <1>3
  <1>5. x = (CHOOSE f : f = [s \in SUBSET DOMAIN seq |->
                IF s = {} THEN base
                ELSE ShrinkTurn(f[s \ {Max(s)}], i, lines, columns, reflow)])[DOMAIN seq]
    BY <1>3 DEF ShrinkTurns, FoldLeft, MapThenFoldSet
  <1>6. x = (CHOOSE f : TurnsFolding(m, base, i, lines, columns, reflow, f))[1 .. m]
    BY <1>4, <1>5 DEF TurnsFolding
  <1>7. ASSUME NEW f
        PROVE  TurnFolding(p, base, m, f) <=> TurnsFolding(m, base, i, lines, columns, reflow, f)
    BY <1>2 DEF TurnFolding, TurnsFolding
  <1>8. PICK b : Turns(p, base, m, b) /\ b[m] = x
    <2>1. PICK h : h = CHOOSE f : TurnsFolding(m, base, i, lines, columns, reflow, f)
      OBVIOUS
    <2>2. \E f : TurnsFolding(m, base, i, lines, columns, reflow, f)
      BY <1>7, TurnFoldingExists
    <2>3. TurnsFolding(m, base, i, lines, columns, reflow, h)
      BY <2>1, <2>2
    <2>4. TurnFolding(p, base, m, h)
      BY <1>7, <2>3
    <2>5. \E b : Turns(p, base, m, b) /\ b[m] = h[1 .. m]
      BY ONLY <2>4, TurnFoldingTurns, m \in Nat
    <2> QED
      BY <1>6, <2>1, <2>5
  <1>9. PICK n, K : /\ n = Len(base.out)
                    /\ K = {k \in 0 .. m : Shrunk(b[k], lines, columns)
                                           /\ Len(b[k].out) >= n + (IF k = 0 THEN 0 ELSE 1)}
    OBVIOUS
  <1>10. n \in Nat
    BY <1>9 DEF Shrunk
  <1>11. b[0] = base
    BY <1>8 DEF Turns
  <1>12. 0 \in K
    <2>1. Shrunk(b[0], lines, columns) /\ Len(b[0].out) = n
      BY ONLY <1>9, <1>11, Shrunk(base, lines, columns)
    <2> QED
      BY <1>9, <1>10, <2>1
  <1>13. ASSUME NEW k \in 1 .. m, k - 1 \in K PROVE k \in K
    <2>1. PICK j, a, more : j = k - 1 /\ a = b[j] /\ more = (IF a.done THEN 0 ELSE 1)
      OBVIOUS
    <2>2. /\ Shrunk(a, lines, columns) /\ j \in 0 .. m
          /\ Len(a.out) >= n + (IF j = 0 THEN 0 ELSE 1)
      BY <1>9, <1>13, <2>1
    <2>3. b[k] = ShrinkTurn(a, i, lines, columns, reflow)
      BY <1>2, <1>8, <2>1 DEF Turns
    <2>4. Pushes(a, ShrinkTurn(a, i, lines, columns, reflow), more, lines, columns)
      BY ONLY <2>1, <2>2, TurnPushes, lines \in Nat, lines >= 1, columns \in Nat, columns >= 1,
              i \in Nat
    <2>5. Shrunk(b[k], lines, columns) /\ Len(b[k].out) >= Len(a.out) + more
      BY ONLY <2>3, <2>4 DEF Pushes
    <2>6. PICK u, v : u = Len(a.out) /\ v = Len(b[k].out)
      OBVIOUS
    <2>7. u \in Nat /\ v \in Nat
      BY ONLY <2>2, <2>5, <2>6 DEF Shrunk
    <2>8. more \in Nat /\ (j = 0 => more = 1)
      BY <1>11, <2>1
    <2>9. v >= n + 1
      BY ONLY <1>10, <2>2, <2>5, <2>6, <2>7, <2>8
    <2>10. k # 0 /\ k \in 0 .. m
      BY ONLY m \in Nat, k \in 1 .. m
    <2> QED
      BY ONLY <1>9, <2>5, <2>6, <2>9, <2>10
  <1>14. m \in K
    BY ONLY <1>12, <1>13, Climb, m \in Nat
  <1>15. m # 0
    BY ONLY m \in Nat, m >= 1
  <1>16. Shrunk(x, lines, columns) /\ Len(x.out) >= n + 1
    BY ONLY <1>8, <1>9, <1>14, <1>15
  <1> QED
    BY ONLY <1>3, <1>9, <1>16, one = 1 DEF Pushes

(* A row of the old width is pushed as rows of the new one. *)
LEMMA StepPushes ==
    ASSUME NEW lines \in Nat, lines >= 1, NEW columns \in Nat, columns >= 1,
           NEW a, Shrunk(a, lines, columns), NEW c \in Nat, NEW row, IsRow(row, {c}),
           NEW i \in Nat, NEW reflow, NEW one, one = 1
    PROVE  Pushes(a, ShrinkStep(a, row, i, lines, columns, reflow), one, lines, columns)
  <1>1. PICK n, out, buffered, cells, was, offset, cursor :
            /\ n = Len(a.out) /\ out = a.out /\ buffered = a.buffered /\ cells = a.cells
            /\ was = a.done /\ offset = a.offset /\ cursor = a.cursor
    OBVIOUS
  <1>2. /\ a = [out |-> out, buffered |-> buffered, cells |-> cells, done |-> was,
                offset |-> offset, cursor |-> cursor]
        /\ n \in Nat /\ IsRows(out, n, {columns}) /\ IsList(buffered)
        /\ offset \in Nat /\ cursor \in Beyond(lines)
    BY <1>1 DEF Shrunk
  <1>3. /\ cursor = [row |-> cursor.row, col |-> cursor.col, wrap |-> cursor.wrap]
        /\ cursor.row \in 0 .. lines - 1 /\ cursor.col \in Nat /\ cursor.wrap \in BOOLEAN
    BY <1>2, BeyondFacts
  <1>4. PICK under, both : under = row.cells /\ both = buffered \o under
    OBVIOUS
  <1>5. IsList(both) /\ Len(both) \in Nat
    <2>1. IsList(under)
      BY <1>4 DEF IsRow, IsList
    <2>2. IsList(both)
      BY <1>2, <1>4, <2>1, ConcatList
    <2> QED
      BY <2>2 DEF IsList
  <1>6. PICK ahead, col : /\ ahead = (IF i = CursorBufferLine(lines, a.cursor) THEN Len(a.buffered) ELSE 0)
                          /\ col = cursor.col + ahead
    OBVIOUS
  <1>7. ahead \in Nat /\ col \in Nat
    BY <1>1, <1>2, <1>3, <1>6 DEF IsList
  <1>8. PICK none, no, p : none = <<>> /\ no = FALSE /\ p = [row |-> cursor.row, col |-> col, wrap |-> cursor.wrap]
    OBVIOUS
  <1>9. IsList(none) /\ no \in BOOLEAN /\ p \in Beyond(lines)
    <2>1. IsList(none)
      BY <1>8, EmptyList
    <2>2. p \in Beyond(lines)
      BY <1>3, <1>7, <1>8 DEF Beyond
    <2> QED
      BY <1>8, <2>1, <2>2
  <1>10. PICK begin : begin = [a EXCEPT !.cells = a.buffered \o row.cells, !.buffered = <<>>,
                                        !.cursor.col = @ + ahead, !.done = FALSE]
    OBVIOUS
  <1>11. begin = [out |-> out, buffered |-> none, cells |-> both, done |-> no,
                  offset |-> offset, cursor |-> p]
    <2>1. begin = [a EXCEPT !.cells = both, !.buffered = none, !.cursor.col = @ + ahead, !.done = no]
      BY <1>1, <1>4, <1>8, <1>10
    <2>2. a = [out |-> out, buffered |-> buffered, cells |-> cells, done |-> was,
               offset |-> offset, cursor |-> cursor]
      BY <1>2
    <2> QED
      BY ONLY <1>3, <1>6, <1>8, <2>1, <2>2
  <1>12. Shrunk(begin, lines, columns) /\ Len(begin.out) = n
    BY ONLY <1>2, <1>5, <1>9, <1>11, MakeShrunk
  <1>13. ~begin.done /\ begin.cells = both /\ begin.cursor.col = col
    BY <1>8, <1>11
  <1>14. PICK turns : turns = Len(begin.cells) + begin.cursor.col + 1
    OBVIOUS
  <1>15. turns \in Nat /\ turns >= 1
    BY <1>5, <1>7, <1>13, <1>14
  <1>16. PICK d : d = ShrinkStep(a, row, i, lines, columns, reflow)
    OBVIOUS
  <1>17. d = ShrinkTurns(begin, turns, i, lines, columns, reflow)
    BY <1>6, <1>10, <1>14, <1>16 DEF ShrinkStep
  <1>18. Pushes(begin, d, one, lines, columns)
    BY ONLY <1>12, <1>13, <1>15, <1>17, TurnsPush, lines \in Nat, lines >= 1, columns \in Nat,
            columns >= 1, i \in Nat, one = 1
  <1> QED
    BY ONLY <1>1, <1>12, <1>16, <1>18 DEF Pushes

(* The recursion that the fold of ShrinkRows chooses. *)
ShrinkFolding(list, seq, n, lines, columns, reflow, base, f) ==
    f = [s \in SUBSET (1 .. n) |->
            IF s = {} THEN base
            ELSE ShrinkStep(f[s \ {Max(s)}], list[seq[Max(s)]], Len(list) - seq[Max(s)],
                            lines, columns, reflow)]

(* So the fold over all rows leaves narrower rows. *)
LEMMA RowsPush ==
    ASSUME NEW lines \in Nat, lines >= 1, NEW columns \in Nat, columns >= 1, NEW c \in Nat,
           NEW n \in Nat, NEW list, IsRows(list, n, {c}), NEW reflow,
           NEW base, Shrunk(base, lines, columns)
    PROVE  Pushes(base, ShrinkRows(base, list, lines, columns, reflow), n, lines, columns)
  <1>1. PICK p : p = [loop |-> "shrink", rows |-> list, lines |-> lines, columns |-> columns,
                      reflow |-> reflow]
    OBVIOUS
  <1>2. \A y, i : Turn(p, y, i) = ShrinkStep(y, list[i], Len(list) - i, lines, columns, reflow)
    BY <1>1 DEF Turn
  <1>3. DOMAIN list = 1 .. n /\ Len(list) = n
    <2>1. Spans(list, n)
      BY DEF IsRows
    <2> QED
      BY <2>1, SpanSeq DEF Spans
  <1>4. PICK seq : seq = [i \in DOMAIN list |-> i]
    OBVIOUS
  <1>5. DOMAIN seq = 1 .. n /\ \A i \in 1 .. n : seq[i] = i
    BY <1>3, <1>4
  <1>6. PICK x : x = ShrinkRows(base, list, lines, columns, reflow)
    OBVIOUS
  <1>7. x = (CHOOSE f : f = [s \in SUBSET DOMAIN seq |->
                IF s = {} THEN base
                ELSE ShrinkStep(f[s \ {Max(s)}], list[seq[Max(s)]], Len(list) - seq[Max(s)],
                                lines, columns, reflow)])[DOMAIN seq]
    BY <1>4, <1>6 DEF ShrinkRows, FoldLeftDomain, FoldLeft, MapThenFoldSet
  <1>8. x = (CHOOSE f : ShrinkFolding(list, seq, n, lines, columns, reflow, base, f))[1 .. n]
    BY <1>5, <1>7 DEF ShrinkFolding
  <1>9. \A s \in SUBSET (1 .. n) : s # {} => seq[Max(s)] = Max(s)
    <2>1. SUFFICES ASSUME NEW s \in SUBSET (1 .. n), s # {} PROVE seq[Max(s)] = Max(s)
      OBVIOUS
    <2>2. Max(s) \in s
      BY <2>1, LastTurn
    <2> QED
      BY <1>5, <2>2
  <1>10. ASSUME NEW f
         PROVE  TurnFolding(p, base, n, f) <=> ShrinkFolding(list, seq, n, lines, columns, reflow, base, f)
    <2>1. \A s \in SUBSET (1 .. n) :
              (IF s = {} THEN base ELSE Turn(p, f[s \ {Max(s)}], Max(s)))
              = (IF s = {} THEN base
                 ELSE ShrinkStep(f[s \ {Max(s)}], list[seq[Max(s)]], Len(list) - seq[Max(s)],
                                 lines, columns, reflow))
      BY <1>2, <1>9
    <2>2. [s \in SUBSET (1 .. n) |-> IF s = {} THEN base ELSE Turn(p, f[s \ {Max(s)}], Max(s))]
          = [s \in SUBSET (1 .. n) |->
                IF s = {} THEN base
                ELSE ShrinkStep(f[s \ {Max(s)}], list[seq[Max(s)]], Len(list) - seq[Max(s)],
                                lines, columns, reflow)]
      BY ONLY <2>1
    <2> QED
      BY <2>2 DEF TurnFolding, ShrinkFolding
  <1>11. PICK b : Turns(p, base, n, b) /\ b[n] = x
    <2>1. PICK h : h = CHOOSE f : ShrinkFolding(list, seq, n, lines, columns, reflow, base, f)
      OBVIOUS
    <2>2. \E f : ShrinkFolding(list, seq, n, lines, columns, reflow, base, f)
      BY <1>10, TurnFoldingExists
    <2>3. ShrinkFolding(list, seq, n, lines, columns, reflow, base, h)
      BY <2>1, <2>2
    <2>4. TurnFolding(p, base, n, h)
      BY <1>10, <2>3
    <2>5. \E b : Turns(p, base, n, b) /\ b[n] = h[1 .. n]
      BY ONLY <2>4, TurnFoldingTurns, n \in Nat
    <2> QED
      BY <1>8, <2>1, <2>5
  <1>12. PICK m, K : /\ m = Len(base.out)
                     /\ K = {k \in 0 .. n : Shrunk(b[k], lines, columns) /\ Len(b[k].out) >= m + k}
    OBVIOUS
  <1>13. m \in Nat /\ b[0] = base
    BY <1>11, <1>12 DEF Shrunk, Turns
  <1>14. 0 \in K
    <2>1. Shrunk(b[0], lines, columns) /\ Len(b[0].out) = m
      BY ONLY <1>12, <1>13, Shrunk(base, lines, columns)
    <2> QED
      BY ONLY <1>12, <1>13, <2>1, n \in Nat
  <1>15. ASSUME NEW k \in 1 .. n, k - 1 \in K PROVE k \in K
    <2>1. PICK j, a, row, i, one : j = k - 1 /\ a = b[j] /\ row = list[k] /\ i = n - k /\ one = 1
      OBVIOUS
    <2>2. Shrunk(a, lines, columns) /\ j \in 0 .. n /\ Len(a.out) >= m + j
      BY ONLY <1>12, <1>15, <2>1
    <2>3. IsRow(row, {c})
      BY ONLY <2>1, IsRows(list, n, {c}), k \in 1 .. n DEF IsRows
    <2>4. i \in Nat
      BY ONLY <2>1, n \in Nat, k \in 1 .. n
    <2>5. b[k] = ShrinkStep(a, row, i, lines, columns, reflow)
      BY <1>2, <1>3, <1>11, <2>1 DEF Turns
    <2>6. Pushes(a, ShrinkStep(a, row, i, lines, columns, reflow), one, lines, columns)
      BY ONLY <2>1, <2>2, <2>3, <2>4, StepPushes, lines \in Nat, lines >= 1, columns \in Nat,
              columns >= 1, c \in Nat
    <2>7. Shrunk(b[k], lines, columns) /\ Len(b[k].out) >= Len(a.out) + one
      BY ONLY <2>5, <2>6 DEF Pushes
    <2>8. PICK u, v : u = Len(a.out) /\ v = Len(b[k].out)
      OBVIOUS
    <2>9. u \in Nat /\ v \in Nat
      BY ONLY <2>2, <2>7, <2>8 DEF Shrunk
    <2>10. v >= m + k
      BY ONLY <1>13, <2>1, <2>2, <2>7, <2>8, <2>9, n \in Nat, k \in 1 .. n
    <2>11. k \in 0 .. n
      BY ONLY n \in Nat, k \in 1 .. n
    <2> QED
      BY ONLY <1>12, <2>7, <2>8, <2>10, <2>11
  <1>16. n \in K
    BY ONLY <1>14, <1>15, Climb, n \in Nat
  <1> QED
    BY ONLY <1>6, <1>11, <1>12, <1>16 DEF Pushes

(* A cursor that lands on the new screen. *)
LEMMA Landing ==
    ASSUME NEW lines \in Nat, NEW columns \in Nat, columns >= 1,
           NEW cursor, cursor \in Beyond(lines), NEW g, NEW reflow
    PROVE  LandCursor(cursor, g, columns, reflow) \in Positions(lines, columns)
  <1>1. /\ cursor = [row |-> cursor.row, col |-> cursor.col, wrap |-> cursor.wrap]
        /\ cursor.row \in 0 .. lines - 1 /\ cursor.col \in Nat /\ cursor.wrap \in BOOLEAN
    BY BeyondFacts
  <1>2. PICK u, v, c : /\ u = [cursor EXCEPT !.col = AtMost(@, columns - 1)]
                       /\ v = [cursor EXCEPT !.wrap = TRUE, !.col = @ - 1]
                       /\ c = AtMost(cursor.col, columns - 1)
    OBVIOUS
  <1>3. c \in 0 .. columns - 1
    BY <1>1, <1>2 DEF AtMost
  <1>4. u \in Positions(lines, columns)
    <2>1. u = [row |-> cursor.row, col |-> c, wrap |-> cursor.wrap]
      BY <1>1, <1>2
    <2> QED
      BY <1>1, <1>3, <2>1 DEF Positions
  <1>5. cursor.col = columns => v \in Positions(lines, columns)
    <2>1. SUFFICES ASSUME cursor.col = columns PROVE v \in Positions(lines, columns)
      OBVIOUS
    <2>2. PICK d : d = columns - 1
      OBVIOUS
    <2>3. v = [row |-> cursor.row, col |-> d, wrap |-> TRUE]
      BY <1>1, <1>2, <2>1, <2>2
    <2>4. d \in 0 .. columns - 1
      BY <2>2
    <2> QED
      BY <1>1, <2>3, <2>4 DEF Positions
  <1>6. PICK r : r = LandCursor(cursor, g, columns, reflow)
    OBVIOUS
  <1>7. r = u \/ (cursor.col = columns /\ r = v)
    BY <1>2, <1>6 DEF LandCursor
  <1> QED
    BY <1>4, <1>5, <1>6, <1>7

(* Fewer columns: the rows are as wide as asked and the cursors on them. *)
LEMMA ShrinkColumns ==
    ASSUME NEW lines \in Nat, lines >= 1, NEW c \in Nat,
           NEW s, Landed(s, lines, c), NEW columns \in Nat, columns >= 1, columns < c, NEW reflow
    PROVE  Landed(shrink_columns(s, columns, reflow), lines, columns)
  <1>1. PICK g, cursor, list, n :
            g = s.grid /\ cursor = s.cursor /\ list = AllRows(g) /\ n = Len(list)
    OBVIOUS
  <1>2. /\ s = [grid |-> g, cursor |-> cursor, saved |-> s.saved]
        /\ Shape(g, lines, c)
        /\ cursor \in Positions(lines, c) /\ s.saved \in Positions(lines, c)
    BY <1>1 DEF Landed
  <1>3. Lines(g) = lines /\ g.offset \in Nat /\ g.limit \in Nat
    BY <1>2, ShapeFacts
  <1>4. n \in Nat /\ IsRows(list, n, {c}) /\ n >= lines
    <2>1. PICK k \in Nat : /\ k >= lines /\ k = HistorySize(g) + lines
                           /\ IsRows(AllRows(g), k, {c}) /\ Len(AllRows(g)) = k
      BY <1>2, AllRowsRows
    <2> QED
      BY <1>1, <2>1
  <1>5. PICK first : first = IF reflow THEN Unwrapped(cursor) ELSE cursor
    OBVIOUS
  <1>6. first \in Beyond(lines)
    <2>1. /\ cursor = [row |-> cursor.row, col |-> cursor.col, wrap |-> cursor.wrap]
          /\ cursor.row \in 0 .. lines - 1 /\ cursor.col \in 0 .. c - 1 /\ cursor.wrap \in BOOLEAN
      BY <1>2, PositionFacts
    <2>2. cursor \in Beyond(lines)
      BY <2>1 DEF Beyond
    <2>3. Unwrapped(cursor) \in Beyond(lines)
      <3>1. CASE cursor.wrap
        <4>1. PICK u, col : u = Unwrapped(cursor) /\ col = cursor.col + 1
          OBVIOUS
        <4>2. u = [row |-> cursor.row, col |-> col, wrap |-> FALSE]
          BY <2>1, <3>1, <4>1 DEF Unwrapped
        <4>3. col \in Nat
          BY <2>1, <4>1
        <4>4. u \in Beyond(lines)
          BY <2>1, <4>2, <4>3 DEF Beyond
        <4> QED
          BY <4>1, <4>4
      <3>2. CASE ~cursor.wrap
        BY <2>2, <3>2 DEF Unwrapped
      <3> QED
        BY <3>1, <3>2
    <2> QED
      BY <1>5, <2>2, <2>3
  <1>7. PICK start, none, yes, offset : /\ none = <<>> /\ yes = TRUE /\ offset = g.offset
            /\ start = [out |-> none, buffered |-> none, cells |-> none, done |-> yes,
                        offset |-> offset, cursor |-> first]
    OBVIOUS
  <1>8. Shrunk(start, lines, columns) /\ Len(start.out) = 0
    <2>1. PICK z : z = 0
      OBVIOUS
    <2>2. 1 .. z = {} /\ z \in Nat
      BY <2>1
    <2>3. Spans(none, z) /\ IsList(none)
      BY <1>7, <2>1, EmptyList
    <2>4. IsRows(none, z, {columns})
      BY <2>2, <2>3 DEF IsRows
    <2>5. yes \in BOOLEAN /\ offset \in Nat
      BY <1>3, <1>7
    <2>6. Shrunk(start, lines, columns) /\ Len(start.out) = z
      <3>1. start = [out |-> none, buffered |-> none, cells |-> none, done |-> yes,
                     offset |-> offset, cursor |-> first]
        BY ONLY <1>7
      <3> QED
        BY ONLY <1>6, <2>2, <2>3, <2>4, <2>5, <3>1, MakeShrunk
    <2> QED
      BY <2>1, <2>6
  <1>9. PICK done : done = ShrinkRows(start, list, lines, columns, reflow)
    OBVIOUS
  <1>10. Pushes(start, done, n, lines, columns)
    BY ONLY <1>4, <1>8, <1>9, RowsPush, lines \in Nat, lines >= 1, columns \in Nat, columns >= 1,
            c \in Nat
  <1>11. PICK m, out, size, limit, o :
            /\ m = Len(done.out) /\ out = done.out /\ limit = g.limit + lines
            /\ size = AtMost(m, limit) /\ o = done.offset
    OBVIOUS
  <1>12. /\ m \in Nat /\ IsRows(out, m, {columns}) /\ o \in Nat /\ done.cursor \in Beyond(lines)
         /\ Shrunk(done, lines, columns)
    BY ONLY <1>10, <1>11 DEF Pushes, Shrunk
  <1>13. m >= lines
    <2>1. m >= n
      BY ONLY <1>4, <1>8, <1>10, <1>11 DEF Pushes
    <2> QED
      BY ONLY <1>4, <1>12, <2>1, lines \in Nat
  <1>14. limit \in Nat /\ size \in Nat /\ size >= lines
    BY ONLY <1>3, <1>11, <1>12, <1>13, lines \in Nat DEF AtMost
  <1>15. PICK W, front, newest : W = {columns} /\ front = m - size + 1 /\ newest = Newest(out, limit)
    OBVIOUS
  <1>16. IsRows(newest, size, {columns})
    <2>1. IsRows(out, m, W)
      BY ONLY <1>12, <1>15
    <2>2. IsRows(Newest(out, limit), size, W)
      BY ONLY <1>11, <1>12, <1>14, <1>15, <2>1, NewestRows
    <2> QED
      BY ONLY <1>15, <2>2
  <1>17. PICK new : new = WithRows(g, newest, lines, o)
    OBVIOUS
  <1>18. Shape(new, lines, columns)
    BY ONLY <1>2, <1>12, <1>14, <1>16, <1>17, WithRowsShape, lines \in Nat, lines >= 1, columns \in Nat
  <1>19. PICK r, landed, last :
            /\ r = shrink_columns(s, columns, reflow)
            /\ landed = LandCursor(done.cursor, new, columns, reflow)
            /\ last = [s.saved EXCEPT !.col = AtMost(@, columns - 1)]
    OBVIOUS
  <1>20. r = [grid |-> new, cursor |-> landed, saved |-> last]
    <2>1. done = ShrinkRows([out |-> <<>>, buffered |-> <<>>, cells |-> <<>>, done |-> TRUE,
                  offset |-> s.grid.offset,
                  cursor |-> IF reflow THEN Unwrapped(s.cursor) ELSE s.cursor],
                  AllRows(s.grid), Lines(s.grid), columns, reflow)
      BY ONLY <1>1, <1>3, <1>5, <1>7, <1>9
    <2>2. PICK u : u = WithRows(s.grid, Newest(done.out, s.grid.limit + Lines(s.grid)), Lines(s.grid), done.offset)
      OBVIOUS
    <2>3. r = [grid |-> u, cursor |-> LandCursor(done.cursor, u, columns, reflow),
               saved |-> [s.saved EXCEPT !.col = AtMost(@, columns - 1)]]
      BY ONLY <1>19, <2>1, <2>2 DEF shrink_columns
    <2>4. u = new
      BY ONLY <1>1, <1>3, <1>11, <1>15, <1>17, <2>2
    <2> QED
      BY ONLY <1>19, <2>3, <2>4
  <1>21. landed \in Positions(lines, columns)
    <2>1. PICK p : p = done.cursor
      OBVIOUS
    <2>2. p \in Beyond(lines)
      BY ONLY <1>12, <2>1
    <2>3. LandCursor(p, new, columns, reflow) \in Positions(lines, columns)
      BY ONLY <2>2, Landing, lines \in Nat, columns \in Nat, columns >= 1
    <2> QED
      BY ONLY <1>19, <2>1, <2>3
  <1>22. last \in Positions(lines, columns)
    <2>1. PICK p, col : p = s.saved /\ col = AtMost(p.col, columns - 1)
      OBVIOUS
    <2>2. /\ p = [row |-> p.row, col |-> p.col, wrap |-> p.wrap]
          /\ p.row \in 0 .. lines - 1 /\ p.col \in 0 .. c - 1 /\ p.wrap \in BOOLEAN
      BY <1>2, <2>1, PositionFacts
    <2>3. col \in 0 .. columns - 1
      BY <2>1, <2>2 DEF AtMost
    <2>4. last = [row |-> p.row, col |-> col, wrap |-> p.wrap]
      BY ONLY <1>19, <2>1, <2>2
    <2> QED
      BY <2>2, <2>3, <2>4 DEF Positions
  <1> QED
    BY ONLY <1>18, <1>19, <1>20, <1>21, <1>22 DEF Landed

(* A resized grid has the new size, and its cursors are on the new screen. *)
LEMMA ResizeLands ==
    ASSUME NEW l \in Nat, l >= 1, NEW c \in Nat, c >= 1, NEW s, Landed(s, l, c),
           NEW lines \in Nat, lines >= 1, NEW columns \in Nat, columns >= 1, NEW reflow
    PROVE  Landed(resize(s, lines, columns, reflow), lines, columns)
  <1>1. Shape(s.grid, l, c)
    BY DEF Landed
  <1>2. Lines(s.grid) = l /\ Columns(s.grid) = c
    BY <1>1, ShapeFacts
  <1>3. PICK t : t = CASE l < lines -> grow_lines(s, lines)
                       [] l > lines -> shrink_lines(s, lines)
                       [] OTHER -> s
    OBVIOUS
  <1>4. Landed(t, lines, c)
    <2>1. CASE l < lines
      <3>1. Landed(grow_lines(s, lines), lines, c)
        BY <2>1, GrowLines
      <3> QED
        BY <1>3, <2>1, <3>1
    <2>2. CASE l > lines
      <3>1. Landed(shrink_lines(s, lines), lines, c)
        BY <2>2, ShrinkLines
      <3> QED
        BY <1>3, <2>2, <3>1
    <2>3. CASE l = lines
      BY <1>3, <2>3
    <2>4. l < lines \/ l > lines \/ l = lines
      OBVIOUS
    <2> QED
      BY <2>1, <2>2, <2>3, <2>4
  <1>5. PICK r : r = resize(s, lines, columns, reflow)
    OBVIOUS
  <1>6. r = CASE c < columns -> grow_columns(t, columns, reflow)
              [] c > columns -> shrink_columns(t, columns, reflow)
              [] OTHER -> t
    BY <1>2, <1>3, <1>5 DEF resize
  <1>7. Landed(r, lines, columns)
    <2>1. CASE c < columns
      <3>1. Landed(grow_columns(t, columns, reflow), lines, columns)
        BY <1>4, <2>1, GrowColumns
      <3> QED
        BY <1>6, <2>1, <3>1
    <2>2. CASE c > columns
      <3>1. Landed(shrink_columns(t, columns, reflow), lines, columns)
        BY <1>4, <2>2, ShrinkColumns
      <3> QED
        BY <1>6, <2>2, <3>1
    <2>3. CASE c = columns
      BY <1>4, <1>6, <2>3
    <2>4. c < columns \/ c > columns \/ c = columns
      OBVIOUS
    <2> QED
      BY <2>1, <2>2, <2>3, <2>4
  <1> QED
    BY <1>5, <1>7
-----------------------------------------------------------------------------
(* The frame. *)

(* The frame f has the lines of the view of g; where it differs, the row   *)
(* is dirty and there is damage that makes the renderer look.              *)
Matches(f, g, lines, damage) ==
    /\ f = [y \in 1 .. lines |-> f[y]]
    /\ \A y \in 1 .. lines :
            \/ ViewRow(g, y - 1).dirty = TRUE /\ damage # "none"
            \/ f[y] = ViewRow(g, y - 1).cells

Drawn(t, k, f) ==
    /\ Sound(t) /\ RowsForm(k, t.lines, t.columns)
    /\ k.slipped = TRUE \/ k.damage = "full" \/ Matches(f, k.grid, t.lines, k.damage)

(* Painting keeps the frame as good as it was. *)
LEMMA PaintsMatch ==
    ASSUME NEW lines \in Nat, NEW f, NEW g, NEW h, NEW a, NEW b,
           Matches(f, g, lines, a), Keeps(g, h, lines),
           b = "none" => a = "none" /\ h = g
    PROVE  Matches(f, h, lines, b)
  <1> SUFFICES ASSUME NEW y \in 1 .. lines
               PROVE  \/ ViewRow(h, y - 1).dirty = TRUE /\ b # "none"
                      \/ f[y] = ViewRow(h, y - 1).cells
    BY DEF Matches
  <1>1. \/ ViewRow(g, y - 1).dirty = TRUE /\ a # "none"
        \/ f[y] = ViewRow(g, y - 1).cells
    BY DEF Matches
  <1>2. PICK z, r, s : z = y - 1 /\ r = ViewRow(g, z) /\ s = ViewRow(h, z)
    OBVIOUS
  <1>3. z \in 0 .. lines - 1
    BY <1>2
  <1>4. s.dirty = TRUE \/ s = r
    BY <1>2, <1>3 DEF Keeps
  <1>5. CASE b = "none"
    BY <1>1, <1>5
  <1>6. CASE b # "none"
    BY <1>1, <1>2, <1>4, <1>6
  <1> QED
    BY <1>5, <1>6

(* So a handler that paints leaves a frame that is drawn. *)
LEMMA DrawnPaints ==
    ASSUME NEW t, NEW k, NEW f, Drawn(t, k, f),
           NEW u, Sound(u), SameSize(u, t),
           NEW m, Paints(k, m, t.lines, t.columns)
    PROVE  Drawn(u, m, f)
  <1>1. PICK lines, columns : lines = t.lines /\ columns = t.columns
    OBVIOUS
  <1>2. u.lines = lines /\ u.columns = columns
    BY <1>1 DEF SameSize
  <1>3. lines \in Nat
    BY <1>1, SoundFacts DEF Drawn
  <1>4. /\ RowsForm(m, lines, columns)
        /\ k.slipped = TRUE => m.slipped = TRUE
        /\ k.damage = "full" => m.damage = "full"
        /\ m.damage = "none" => k.damage = "none" /\ m.grid = k.grid
        /\ m.slipped = TRUE \/ m.damage = "full" \/ Keeps(k.grid, m.grid, lines)
    BY <1>1 DEF Paints, Edits
  <1>5. k.slipped = TRUE \/ k.damage = "full" \/ Matches(f, k.grid, lines, k.damage)
    BY <1>1 DEF Drawn
  <1>6. m.slipped = TRUE \/ m.damage = "full" \/ Matches(f, m.grid, lines, m.damage)
    <2>1. SUFFICES ASSUME ~(m.slipped = TRUE), m.damage # "full"
                   PROVE  Matches(f, m.grid, lines, m.damage)
      OBVIOUS
    <2>2. Matches(f, k.grid, lines, k.damage) /\ Keeps(k.grid, m.grid, lines)
      BY <1>4, <1>5, <2>1
    <2>3. PICK g, h, a, b : g = k.grid /\ h = m.grid /\ a = k.damage /\ b = m.damage
      OBVIOUS
    <2>4. Matches(f, g, lines, a) /\ Keeps(g, h, lines) /\ (b = "none" => a = "none" /\ h = g)
      BY <1>4, <2>2, <2>3
    <2>5. Matches(f, h, lines, b)
      BY <1>3, <2>4, PaintsMatch
    <2> QED
      BY <2>3, <2>5
  <1> QED
    BY ONLY <1>2, <1>4, <1>6, Sound(u) DEF Drawn

(* The damage that the renderer is told of. *)
LEMMA DamageFacts ==
    ASSUME NEW t, NEW k, k.damage \in {"none", "partial", "full"}, NEW ui \in DOMAIN DamageRank,
           NEW damage, damage = merge_terminal_damages(ui, damage_event(t, k))
    PROVE  /\ damage \in {"none", "cursor", "partial", "full"}
           /\ k.damage = "full" => damage = "full"
           /\ damage \in {"none", "cursor"} => k.damage = "none"
  <1>1. PICK e : e = damage_event(t, k)
    OBVIOUS
  <1>2. e \in {"none", "partial", "full"} /\ (k.damage = "full" => e = "full")
        /\ (e = "none" => k.damage = "none")
    <2>1. CASE Is(t, "INSERT") \/ k.damage = "full"
      BY <1>1, <2>1 DEF damage_event
    <2>2. CASE ~Is(t, "INSERT") /\ k.damage = "partial"
      BY <1>1, <2>2 DEF damage_event
    <2>3. CASE ~Is(t, "INSERT") /\ k.damage = "none"
      <3>1. e = IF k.last_cursor # Position(t.cursor) THEN "partial" ELSE "none"
        BY <1>1, <2>3 DEF damage_event
      <3> QED
        BY <2>3, <3>1
    <2> QED
      BY <2>1, <2>2, <2>3
  <1>3. DOMAIN DamageRank = {"none", "cursor", "partial", "full"}
    BY DEF DamageRank
  <1>4. /\ DamageRank["none"] = 0 /\ DamageRank["cursor"] = 1
        /\ DamageRank["partial"] = 2 /\ DamageRank["full"] = 3
    BY DEF DamageRank
  <1>5. damage = IF DamageRank[ui] < DamageRank[e] THEN e ELSE ui
    BY <1>1 DEF merge_terminal_damages
  <1> QED
    BY <1>2, <1>3, <1>4, <1>5

(* The contents of the view, line by line. *)
LEMMA ViewContents ==
    ASSUME NEW lines \in Nat, lines >= 1, NEW columns \in Nat, NEW g, Shape(g, lines, columns)
    PROVE  Contents(ViewRows(g)) = [y \in 1 .. lines |-> ViewRow(g, y - 1).cells]
  <1>1. Lines(g) = lines
    BY ShapeFacts
  <1>2. PICK view : view = ViewRows(g)
    OBVIOUS
  <1>3. view = [y \in 1 .. lines |-> ViewRow(g, y - 1)]
    BY <1>1, <1>2 DEF ViewRows
  <1>4. Contents(view) = [y \in 1 .. lines |-> ViewRow(g, y - 1).cells]
    BY <1>3 DEF Contents
  <1> QED
    BY <1>2, <1>3, <1>4

(* The rows of the view, line by line. *)
LEMMA ViewHasRows ==
    ASSUME NEW lines \in Nat, lines >= 1, NEW columns \in Nat, NEW g, Shape(g, lines, columns)
    PROVE  ViewRows(g) = [y \in 1 .. lines |-> ViewRow(g, y - 1)]
  <1>1. Lines(g) = lines
    BY ShapeFacts
  <1> QED
    BY <1>1 DEF ViewRows

(* The frame that a render leaves is the view, *)
LEMMA RenderedView ==
    ASSUME NEW t, NEW k, NEW f, Drawn(t, k, f), ~(k.slipped = TRUE),
           NEW ui \in DOMAIN DamageRank,
           NEW damage, damage = merge_terminal_damages(ui, damage_event(t, k))
    PROVE  snapshot_visible(t, k, f, damage) = Contents(ViewRows(k.grid))
  <1>1. PICK lines, g, view, all : /\ lines = t.lines /\ g = k.grid /\ view = ViewRows(g)
                                   /\ all = Contents(view)
    OBVIOUS
  <1>2. lines \in Nat /\ lines >= 1 /\ Shape(g, lines, t.columns) /\ t.columns \in Nat
    BY <1>1, SoundFacts DEF Drawn, RowsForm
  <1>3. /\ all = [y \in 1 .. lines |-> ViewRow(g, y - 1).cells]
        /\ \A y \in 1 .. lines : view[y] = ViewRow(g, y - 1)
    <2>1. PICK columns : columns = t.columns
      OBVIOUS
    <2>2. columns \in Nat /\ Shape(g, lines, columns)
      BY <1>2, <2>1
    <2>3. Contents(ViewRows(g)) = [y \in 1 .. lines |-> ViewRow(g, y - 1).cells]
      BY ONLY <1>2, <2>2, ViewContents
    <2>4. ViewRows(g) = [y \in 1 .. lines |-> ViewRow(g, y - 1)]
      BY ONLY <1>2, <2>2, ViewHasRows
    <2> QED
      BY <1>1, <2>3, <2>4
  <1>4. /\ damage \in {"none", "cursor", "partial", "full"}
        /\ k.damage = "full" => damage = "full"
        /\ damage \in {"none", "cursor"} => k.damage = "none"
    <2>1. k.damage \in {"none", "partial", "full"}
      BY DEF Drawn, RowsForm
    <2> QED
      BY <2>1, DamageFacts
  <1>5. PICK shown : shown = snapshot_visible(t, k, f, damage)
    OBVIOUS
  <1>6. CASE NeedsFull(t, f, damage)
    BY <1>1, <1>5, <1>6 DEF snapshot_visible
  <1>7. CASE ~NeedsFull(t, f, damage)
    <2>1. damage # "full" /\ k.damage # "full"
      BY <1>4, <1>7 DEF NeedsFull
    <2>2. Matches(f, g, lines, k.damage)
      BY <1>1, <2>1 DEF Drawn
    <2>3. f = [y \in 1 .. lines |-> f[y]]
      BY <2>2 DEF Matches
    <2>4. ASSUME NEW y \in 1 .. lines
          PROVE  \/ ViewRow(g, y - 1).dirty = TRUE /\ k.damage # "none"
                 \/ f[y] = ViewRow(g, y - 1).cells
      BY <2>2 DEF Matches
    <2>5. CASE damage = "partial"
      <3>1. shown = [y \in DOMAIN f |-> IF view[y].dirty THEN view[y].cells ELSE f[y]]
        BY <1>1, <1>5, <1>7, <2>5 DEF snapshot_visible
      <3>2. DOMAIN f = 1 .. lines
        BY <2>3
      <3>3. ASSUME NEW y \in 1 .. lines
            PROVE  (IF view[y].dirty THEN view[y].cells ELSE f[y]) = ViewRow(g, y - 1).cells
        BY <1>3, <2>4
      <3>4. shown = [y \in 1 .. lines |-> IF view[y].dirty THEN view[y].cells ELSE f[y]]
        BY <3>1, <3>2
      <3>5. shown = [y \in 1 .. lines |-> ViewRow(g, y - 1).cells]
        BY <3>3, <3>4
      <3> QED
        BY <1>1, <1>3, <1>5, <3>5
    <2>6. CASE damage # "partial"
      <3>1. shown = f
        BY <1>1, <1>5, <1>7, <2>6 DEF snapshot_visible
      <3>2. k.damage = "none"
        BY <1>4, <2>1, <2>6
      <3>3. \A y \in 1 .. lines : f[y] = ViewRow(g, y - 1).cells
        BY <2>4, <3>2
      <3>4. f = [y \in 1 .. lines |-> ViewRow(g, y - 1).cells]
        BY <2>3, <3>3
      <3> QED
        BY <1>1, <1>3, <1>5, <3>1, <3>4
    <2> QED
      BY <2>5, <2>6
  <1> QED
    BY <1>6, <1>7
-----------------------------------------------------------------------------
(* The handlers. *)

(* The screen is sound, the rows have its size, and the frame is the view  *)
(* but for what is dirty and noted as damaged.                             *)
Current == Drawn(term, rows, frame) /\ program \in Programs

(* What a step keeps: that, and what the control state may do. *)
Kept == Current' /\ (TermNext \/ term' = term)

(* What a current state gives. *)
LEMMA CurrentFacts ==
    ASSUME Current
    PROVE  /\ Sound(term) /\ RowsForm(rows, term.lines, term.columns)
           /\ term.lines \in Nat /\ term.lines >= 1
           /\ term.columns \in Nat /\ term.columns >= 2
           /\ term.region.start \in Nat /\ term.region.start <= term.region.end
  <1>1. Sound(term) /\ RowsForm(rows, term.lines, term.columns)
    BY DEF Current, Drawn
  <1> QED
    BY <1>1, SoundFacts

(* A state has its own size. *)
LEMMA SoundSame ==
    ASSUME NEW t, Sound(t)
    PROVE  SameSize(t, t)
  BY DEF SameSize

(* The counts of the sequences are positive numbers. *)
LEMMA CountFacts == \A n \in Counts : n \in Nat /\ n >= 1
  BY SizesAssumption DEF Counts

(* A handler that paints the rows keeps all of it. *)
LEMMA PaintedCurrent ==
    ASSUME Current, frame' = frame, program' = program, SameSize(term', term),
           Paints(rows, rows', term.lines, term.columns),
           Motion \/ Writing \/ Screens \/ term' = term
    PROVE  Kept
  <1>1. PICK t, k : t = term' /\ k = rows'
    OBVIOUS
  <1>2. Sound(term)
    BY CurrentFacts
  <1>3. Sound(term')
    BY <1>2, MotionStep, WritingStep, ScreensStep
  <1>4. Drawn(term, rows, frame)
    BY DEF Current
  <1>5. Sound(t) /\ SameSize(t, term) /\ Paints(rows, k, term.lines, term.columns)
    BY <1>1, <1>3
  <1>6. Drawn(t, k, frame)
    BY ONLY <1>4, <1>5, DrawnPaints
  <1>7. Drawn(term', rows', frame')
    BY <1>1, <1>6
  <1>8. Current'
    BY <1>7 DEF Current
  <1>9. TermNext \/ term' = term
    BY DEF TermNext
  <1> QED
    BY <1>8, <1>9 DEF Kept

(* The same for a handler given by its two operators. *)
LEMMA StepPainted ==
    ASSUME Current, NEW op, NEW t, NEW k, Step(op, t, k),
           SameSize(t, term), Paints(rows, k, term.lines, term.columns),
           Motion \/ Writing \/ Screens \/ t = term
    PROVE  Kept
  <1>1. term' = t /\ rows' = k /\ frame' = frame /\ program' = program
    BY DEF Step
  <1> QED
    BY <1>1, PaintedCurrent

(* Writing. *)
LEMMA WritingCurrent ==
    ASSUME Current, InputLetter \/ InputEmoji \/ Tab
    PROVE  Kept
  <1>1. Sound(term) /\ RowsForm(rows, term.lines, term.columns)
    BY CurrentFacts
  <1>2. CASE InputLetter
    <2>1. PICK c : Step(c, InputNarrow(term), InputNarrowRows(term, rows, c))
      BY <1>2 DEF InputLetter
    <2>2. Writing
      BY <2>1 DEF Step, Writing
    <2>3. SameSize(InputNarrow(term), term)
      BY <1>1, WriteSize
    <2>4. Paints(rows, InputNarrowRows(term, rows, c), term.lines, term.columns)
      BY <1>1, NarrowInputPaints
    <2> QED
      BY <2>1, <2>2, <2>3, <2>4, StepPainted
  <1>3. CASE InputEmoji
    <2>1. Step("E", InputWide(term), InputWideRows(term, rows))
      BY <1>3 DEF InputEmoji
    <2>2. Writing
      BY <2>1 DEF Step, Writing
    <2>3. SameSize(InputWide(term), term)
      BY <1>1, WriteSize
    <2>4. Paints(rows, InputWideRows(term, rows), term.lines, term.columns)
      BY <1>1, WideInputPaints
    <2> QED
      BY <2>1, <2>2, <2>3, <2>4, StepPainted
  <1>4. CASE Tab
    <2>1. Step("tab", put_tab(term), PutTabRows(term, rows))
      BY <1>4 DEF Tab
    <2>2. Writing
      BY <2>1 DEF Step, Writing
    <2>3. SameSize(put_tab(term), term)
      BY <1>1, WriteSize
    <2>4. Paints(rows, PutTabRows(term, rows), term.lines, term.columns)
      BY <1>1, TabPaints
    <2> QED
      BY <2>1, <2>2, <2>3, <2>4, StepPainted
  <1> QED
    BY <1>2, <1>3, <1>4

(* Characters of no width. *)
LEMMA CombineCurrent ==
    ASSUME Current, NEW op, Step(op, term, CombineRows(term, rows))
    PROVE  Kept
  <1>1. Sound(term) /\ RowsForm(rows, term.lines, term.columns)
    BY CurrentFacts
  <1>2. SameSize(term, term)
    BY <1>1, SoundSame
  <1>3. Paints(rows, CombineRows(term, rows), term.lines, term.columns)
    BY <1>1, CombinePaints
  <1> QED
    BY <1>2, <1>3, StepPainted

(* Combining characters and variation selectors. *)
LEMMA VariationCurrent ==
    ASSUME Current, Combine \/ VariationSelector16 \/ VariationSelector15
    PROVE  Kept
  <1>1. Sound(term) /\ RowsForm(rows, term.lines, term.columns)
    BY CurrentFacts
  <1>2. CASE Step("combine", term, CombineRows(term, rows))
             \/ Step("VS16", term, CombineRows(term, rows))
             \/ Step("VS15", term, CombineRows(term, rows))
    BY <1>2, CombineCurrent
  <1>3. CASE Widens(term, rows) /\ Step("VS16", WidenBase(term), WidenRows(term, rows))
    <2>1. WidenAllowed(term)
      BY <1>3 DEF Widens
    <2>2. Writing
      BY <1>3, <2>1 DEF Step, Writing
    <2>3. SameSize(WidenBase(term), term)
      BY <1>1, <2>1, WriteSize
    <2>4. Paints(rows, WidenRows(term, rows), term.lines, term.columns)
      BY <1>1, <2>1, WidenPaints
    <2> QED
      BY <1>3, <2>2, <2>3, <2>4, StepPainted
  <1>4. CASE Narrows(term, rows) /\ Step("VS15", NarrowBase(term), NarrowRows(term, rows))
    <2>1. NarrowAllowed(term)
      BY <1>4 DEF Narrows
    <2>2. Writing
      BY <1>4, <2>1 DEF Step, Writing
    <2>3. SameSize(NarrowBase(term), term)
      BY <1>1, WriteSize
    <2>4. Paints(rows, NarrowRows(term, rows), term.lines, term.columns)
      BY <1>1, NarrowPaints
    <2> QED
      BY <1>4, <2>2, <2>3, <2>4, StepPainted
  <1> QED
    BY <1>2, <1>3, <1>4 DEF Combine, VariationSelector16, VariationSelector15

(* Motion that at most notes damage. *)
LEMMA MovedCurrent ==
    ASSUME Current, NEW op, NEW t, NEW k, Step(op, t, k), k = rows \/ k = Damaged(rows),
           SameSize(t, term), Motion \/ Writing \/ Screens \/ t = term
    PROVE  Kept
  <1>1. RowsForm(rows, term.lines, term.columns)
    BY CurrentFacts
  <1>2. /\ Edits(rows, rows, term.lines, term.columns)
        /\ Paints(rows, rows, term.lines, term.columns)
    BY <1>1, PaintsSame
  <1>3. Paints(rows, Damaged(rows), term.lines, term.columns)
    BY <1>2, DamagedPaints
  <1>4. Paints(rows, k, term.lines, term.columns)
    BY <1>2, <1>3
  <1> QED
    BY <1>4, StepPainted

(* Line ends and reverse index. *)
LEMMA LinesCurrent ==
    ASSUME Current, Linefeed \/ CarriageReturn \/ NextLine \/ Backspace \/ ReverseIndex
    PROVE  Kept
  <1>1. Sound(term) /\ RowsForm(rows, term.lines, term.columns)
    BY CurrentFacts
  <1>2. PICK zero : zero = 0
    OBVIOUS
  <1>3. /\ SameSize(linefeed(term), term) /\ SameSize(carriage_return(term), term)
        /\ SameSize(backspace(term), term) /\ SameSize(reverse_index(term), term)
    BY <1>1, MotionSize
  <1>4. /\ Paints(rows, LinefeedRows(term, rows), term.lines, term.columns)
        /\ Paints(rows, ReverseIndexRows(term, rows), term.lines, term.columns)
    BY <1>1, FeedPaints
  <1>5. CASE Linefeed
    <2>1. Step("LF", linefeed(term), LinefeedRows(term, rows))
      BY <1>5 DEF Linefeed
    <2>2. Motion
      BY <2>1 DEF Step, Motion
    <2> QED
      BY <2>1, <2>2, <1>3, <1>4, StepPainted
  <1>6. CASE CarriageReturn
    <2>1. Step("CR", carriage_return(term), Damaged(rows))
      BY <1>6 DEF CarriageReturn
    <2>2. Motion
      BY <2>1 DEF Step, Motion
    <2> QED
      BY <2>1, <2>2, <1>3, MovedCurrent
  <1>7. CASE NextLine
    <2>1. PICK t, k : t = carriage_return(linefeed(term)) /\ k = Damaged(LinefeedRows(term, rows))
      OBVIOUS
    <2>2. Step("NEL", t, k)
      BY <1>7, <2>1 DEF NextLine
    <2>3. Motion
      BY <2>1, <2>2 DEF Step, Motion
    <2>4. PICK u : u = linefeed(term)
      OBVIOUS
    <2>5. Sound(u)
      BY <1>1, <2>4, LinefeedSound
    <2>6. SameSize(carriage_return(u), u)
      BY <2>5, MotionSize
    <2>7. SameSize(t, term)
      BY <1>3, <2>1, <2>4, <2>6 DEF SameSize
    <2>8. PICK m : m = LinefeedRows(term, rows)
      OBVIOUS
    <2>9. Edits(rows, m, term.lines, term.columns)
      BY <1>4, <2>8 DEF Paints
    <2>10. Paints(rows, k, term.lines, term.columns)
      BY <2>1, <2>8, <2>9, DamagedPaints
    <2> QED
      BY <2>2, <2>3, <2>7, <2>10, StepPainted
  <1>8. CASE Backspace
    <2>1. PICK k : /\ Step("BS", backspace(term), k)
                   /\ k = IF term.cursor.col > 0 THEN Damaged(rows) ELSE rows
      BY <1>8 DEF Backspace
    <2>2. Motion
      BY <2>1 DEF Step, Motion
    <2> QED
      BY <2>1, <2>2, <1>3, MovedCurrent
  <1>9. CASE ReverseIndex
    <2>1. Step("RI", reverse_index(term), ReverseIndexRows(term, rows))
      BY <1>9 DEF ReverseIndex
    <2>2. Motion
      BY <2>1 DEF Step, Motion
    <2> QED
      BY <2>1, <2>2, <1>3, <1>4, StepPainted
  <1> QED
    BY <1>5, <1>6, <1>7, <1>8, <1>9

(* Cursor motion. *)
LEMMA GotoCurrent ==
    ASSUME Current, Goto \/ GotoOne \/ Move \/ MoveTabs
    PROVE  Kept
  <1>1. Sound(term)
    BY CurrentFacts
  <1>2. \A y, x : SameSize(goto(term, y, x), term)
    BY <1>1, MotionSize
  <1>3. CASE Goto
    <2>1. PICK y \in Counts, x \in Counts : Step("goto", goto(term, y - 1, x - 1), Damaged(rows))
      BY <1>3 DEF Goto
    <2>2. Motion
      BY <2>1 DEF Step, Motion
    <2>3. SameSize(goto(term, y - 1, x - 1), term)
      BY <1>2
    <2> QED
      BY <2>1, <2>2, <2>3, MovedCurrent
  <1>4. CASE GotoOne
    <2>a. PICK n \in Counts : \E t \in {goto_line(term, n - 1), goto_col(term, n - 1)} :
                                Step("goto_one", t, Damaged(rows))
      BY <1>4 DEF GotoOne
    <2>1. PICK t \in {goto_line(term, n - 1), goto_col(term, n - 1)} :
                Step("goto_one", t, Damaged(rows))
      BY <2>a
    <2>2. Motion
      BY <2>1 DEF Step, Motion
    <2>3. SameSize(t, term)
      BY <1>2, <2>1 DEF goto_line, goto_col
    <2> QED
      BY <2>1, <2>2, <2>3, MovedCurrent
  <1>5. CASE Move
    <2>a. PICK n \in Counts :
                \E t \in {move_up(term, n), move_down(term, n), move_up_and_cr(term, n),
                         move_down_and_cr(term, n), move_forward(term, n), move_backward(term, n)} :
                    Step("move", t, Damaged(rows))
      BY <1>5 DEF Move
    <2>1. PICK t \in {move_up(term, n), move_down(term, n), move_up_and_cr(term, n),
                      move_down_and_cr(term, n), move_forward(term, n), move_backward(term, n)} :
                Step("move", t, Damaged(rows))
      BY <2>a
    <2>2. Motion
      BY <2>1 DEF Step, Motion
    <2>3. SameSize(move_forward(term, n), term) /\ SameSize(move_backward(term, n), term)
      BY <1>1, MotionSize
    <2>4. SameSize(t, term)
      BY <1>2, <2>1, <2>3 DEF move_up, move_down, move_up_and_cr, move_down_and_cr
    <2> QED
      BY <2>1, <2>2, <2>4, MovedCurrent
  <1>6. CASE MoveTabs
    <2>1. PICK t \in {TabForward(term), TabBackward(term)} : Step("move_tabs", t, Damaged(rows))
      BY <1>6 DEF MoveTabs
    <2>2. Motion
      BY <2>1 DEF Step, Motion
    <2>3. SameSize(TabForward(term), term) /\ SameSize(TabBackward(term), term)
      BY <1>1, MotionSize
    <2> QED
      BY <2>1, <2>2, <2>3, MovedCurrent
  <1> QED
    BY <1>3, <1>4, <1>5, <1>6

(* Modes, tabs, region and saved cursors. *)
LEMMA ModesCurrent ==
    ASSUME Current,
           SetTabs \/ SaveCursor \/ RestoreCursor \/ SetRegion \/ SetMode \/ UnsetMode
    PROVE  Kept
  <1>1. Sound(term) /\ RowsForm(rows, term.lines, term.columns)
    BY CurrentFacts
  <1>2. \A m, top, bottom :
            /\ SameSize(save_cursor_position(term), term)
            /\ SameSize(restore_cursor_position(term), term)
            /\ SameSize(set_mode(term, m), term) /\ SameSize(unset_mode(term, m), term)
            /\ SameSize(set_horizontal_tabstop(term), term) /\ SameSize(ClearTab(term), term)
            /\ SameSize(ClearTabs(term), term)
            /\ SameSize(set_scrolling_region(term, top, bottom), term)
    BY <1>1, ScreenSize
  <1>3. CASE SetTabs
    <2>1. PICK t \in {set_horizontal_tabstop(term), ClearTab(term), ClearTabs(term)} :
                Step("set_tabs", t, rows)
      BY <1>3 DEF SetTabs
    <2>2. Screens
      BY <2>1 DEF Step, Screens
    <2>3. SameSize(t, term)
      BY <1>2, <2>1
    <2> QED
      BY <2>1, <2>2, <2>3, MovedCurrent
  <1>4. CASE SaveCursor
    <2>1. Step("save", save_cursor_position(term), rows)
      BY <1>4 DEF SaveCursor
    <2>2. Screens
      BY <2>1 DEF Step, Screens
    <2> QED
      BY <1>2, <2>1, <2>2, MovedCurrent
  <1>5. CASE RestoreCursor
    <2>1. Step("save", restore_cursor_position(term), Damaged(rows))
      BY <1>5 DEF RestoreCursor
    <2>2. Screens
      BY <2>1 DEF Step, Screens
    <2> QED
      BY <1>2, <2>1, <2>2, MovedCurrent
  <1>6. CASE SetRegion
    <2>1. PICK top \in Counts, bottom \in Params :
                LET last == IF bottom = 0 THEN term.lines ELSE bottom
                IN  Step("region", set_scrolling_region(term, top, bottom),
                         IF top < last THEN Damaged(rows) ELSE rows)
      BY <1>6 DEF SetRegion
    <2>2. PICK k : /\ Step("region", set_scrolling_region(term, top, bottom), k)
                   /\ k = rows \/ k = Damaged(rows)
      BY <2>1
    <2>3. Screens
      BY <2>2 DEF Step, Screens
    <2> QED
      BY <1>2, <2>2, <2>3, MovedCurrent
  <1>7. CASE SetMode
    <2>1. PICK m \in {"ORIGIN", "LINE_WRAP", "INSERT"} : Step(m, set_mode(term, m), rows)
      BY <1>7 DEF SetMode
    <2>2. Screens
      BY <2>1 DEF Step, Screens, Modes
    <2> QED
      BY <1>2, <2>1, <2>2, MovedCurrent
  <1>8. CASE UnsetMode
    <2>1. PICK m \in {"ORIGIN", "LINE_WRAP", "INSERT"} :
                Step(m, unset_mode(term, m),
                     IF m = "INSERT" THEN mark_fully_damaged(rows) ELSE rows)
      BY <1>8 DEF UnsetMode
    <2>2. Screens
      BY <2>1 DEF Step, Screens, Modes
    <2>3. PICK k : /\ Step(m, unset_mode(term, m), k)
                   /\ k = rows \/ k = mark_fully_damaged(rows)
      BY <2>1
    <2>4. Paints(rows, rows, term.lines, term.columns)
      BY <1>1, PaintsSame
    <2>5. Paints(rows, mark_fully_damaged(rows), term.lines, term.columns)
      BY <1>1, FullPaints
    <2> QED
      BY <1>2, <2>2, <2>3, <2>4, <2>5, StepPainted
  <1> QED
    BY <1>3, <1>4, <1>5, <1>6, <1>7, <1>8

(* Handlers that leave the control state alone. *)
LEMMA RowsCurrent ==
    ASSUME Current, NEW op, NEW k, Step(op, term, k), Paints(rows, k, term.lines, term.columns)
    PROVE  Kept
  <1>1. SameSize(term, term)
    BY DEF SameSize
  <1> QED
    BY <1>1, StepPainted

(* Scrolling the region, and the view. *)
LEMMA ScrollCurrent ==
    ASSUME Current,
           ScrollUp \/ ScrollDown \/ DeleteLines \/ InsertBlankLines \/ ScrollDisplay
    PROVE  Kept
  <1>1. /\ Sound(term) /\ RowsForm(rows, term.lines, term.columns)
        /\ term.region.start \in Nat /\ term.region.start <= term.region.end
    BY CurrentFacts
  <1>2. PICK start : start = term.region.start
    OBVIOUS
  <1>3. start \in Nat /\ term.region.start <= start /\ start <= term.region.end
    BY <1>1, <1>2
  <1>4. CASE ScrollUp
    <2>1. PICK n \in Counts : Step("SU", term, scroll_up_relative(term, rows, start, n))
      BY <1>2, <1>4 DEF ScrollUp
    <2>2. n \in Nat
      BY CountFacts
    <2>3. Paints(rows, scroll_up_relative(term, rows, start, n), term.lines, term.columns)
      BY <1>1, <1>2, <1>3, <2>2, ScrollUpPaints
    <2> QED
      BY <2>1, <2>3, RowsCurrent
  <1>5. CASE ScrollDown
    <2>1. PICK n \in Counts : Step("SD", term, scroll_down_relative(term, rows, start, n))
      BY <1>2, <1>5 DEF ScrollDown
    <2>2. n \in Nat
      BY CountFacts
    <2>3. Paints(rows, scroll_down_relative(term, rows, start, n), term.lines, term.columns)
      BY <1>1, <1>3, <2>2, ScrollDownPaints
    <2> QED
      BY <2>1, <2>3, RowsCurrent
  <1>6. CASE DeleteLines
    <2>1. PICK n \in Counts : Step("DL", term, DeleteLinesRows(term, rows, n))
      BY <1>6 DEF DeleteLines
    <2>2. n \in Nat
      BY CountFacts
    <2>3. Paints(rows, DeleteLinesRows(term, rows, n), term.lines, term.columns)
      BY <1>1, <2>2, LinesPaint
    <2> QED
      BY <2>1, <2>3, RowsCurrent
  <1>7. CASE InsertBlankLines
    <2>1. PICK n \in Counts : Step("IL", term, InsertLinesRows(term, rows, n))
      BY <1>7 DEF InsertBlankLines
    <2>2. n \in Nat
      BY CountFacts
    <2>3. Paints(rows, InsertLinesRows(term, rows, n), term.lines, term.columns)
      BY <1>1, <2>2, LinesPaint
    <2> QED
      BY <2>1, <2>3, RowsCurrent
  <1>8. CASE ScrollDisplay
    <2>1. PICK delta \in {-1, 1} : Step("view", term, ScrollDisplayRows(rows, delta))
      BY <1>8 DEF ScrollDisplay
    <2>2. delta \in Int
      OBVIOUS
    <2>3. Paints(rows, ScrollDisplayRows(rows, delta), term.lines, term.columns)
      BY <1>1, <2>2, DisplayPaints
    <2> QED
      BY <2>1, <2>3, RowsCurrent
  <1> QED
    BY <1>4, <1>5, <1>6, <1>7, <1>8

(* The characters of the cursor's row. *)
LEMMA CharsCurrent ==
    ASSUME Current, EraseChars \/ DeleteChars \/ InsertBlank
    PROVE  Kept
  <1>1. Sound(term) /\ RowsForm(rows, term.lines, term.columns)
    BY CurrentFacts
  <1>2. \A n \in Counts :
            /\ Paints(rows, EraseCharsRows(term, rows, n), term.lines, term.columns)
            /\ Paints(rows, DeleteCharsRows(term, rows, n), term.lines, term.columns)
            /\ Paints(rows, InsertBlankRows(term, rows, n), term.lines, term.columns)
    BY <1>1, CountFacts, EraseCharsPaints
  <1>3. CASE EraseChars
    <2>1. PICK n \in Counts : Step("ECH", term, EraseCharsRows(term, rows, n))
      BY <1>3 DEF EraseChars
    <2> QED
      BY <1>2, <2>1, RowsCurrent
  <1>4. CASE DeleteChars
    <2>1. PICK n \in Counts : Step("DCH", term, DeleteCharsRows(term, rows, n))
      BY <1>4 DEF DeleteChars
    <2> QED
      BY <1>2, <2>1, RowsCurrent
  <1>5. CASE InsertBlank
    <2>1. PICK n \in Counts : Step("ICH", term, InsertBlankRows(term, rows, n))
      BY <1>5 DEF InsertBlank
    <2> QED
      BY <1>2, <2>1, RowsCurrent
  <1> QED
    BY <1>3, <1>4, <1>5

(* Clearing a line or the screen, and the alignment test. *)
LEMMA ClearCurrent ==
    ASSUME Current, ClearLine \/ ClearScreen \/ Decaln
    PROVE  Kept
  <1>1. Sound(term) /\ RowsForm(rows, term.lines, term.columns)
    BY CurrentFacts
  <1>2. CASE ClearLine
    <2>1. PICK mode : Step("EL", term, ClearLineRows(term, rows, mode))
      BY <1>2 DEF ClearLine
    <2>2. Paints(rows, ClearLineRows(term, rows, mode), term.lines, term.columns)
      BY <1>1, ClearLinePaints
    <2> QED
      BY <2>1, <2>2, RowsCurrent
  <1>3. CASE ClearScreen
    <2>1. PICK mode \in {"Above", "Below", "All", "Saved"} :
                Step("ED", term, ClearScreenRows(term, rows, mode))
      BY <1>3 DEF ClearScreen
    <2>2. /\ Paints(rows, ClearAbove(term, rows), term.lines, term.columns)
          /\ Paints(rows, ClearBelow(term, rows), term.lines, term.columns)
          /\ Paints(rows, ClearAll(term, rows), term.lines, term.columns)
          /\ Paints(rows, ClearSaved(term, rows), term.lines, term.columns)
      BY <1>1, ClearPaints
    <2>3. ClearScreenRows(term, rows, mode) \in
                {ClearAbove(term, rows), ClearBelow(term, rows),
                 ClearAll(term, rows), ClearSaved(term, rows)}
      BY <2>1 DEF ClearScreenRows
    <2>4. Paints(rows, ClearScreenRows(term, rows, mode), term.lines, term.columns)
      BY <2>2, <2>3
    <2> QED
      BY <2>1, <2>4, RowsCurrent
  <1>4. CASE Decaln
    <2>1. Step("DECALN", term, DecalnRows(term, rows))
      BY <1>4 DEF Decaln
    <2>2. Paints(rows, DecalnRows(term, rows), term.lines, term.columns)
      BY <1>1, AlignPaints
    <2> QED
      BY <2>1, <2>2, RowsCurrent
  <1> QED
    BY <1>2, <1>3, <1>4

(* Other screens. *)
LEMMA ScreensCurrent ==
    ASSUME Current, Deccolm \/ SwapAlt \/ ResetState
    PROVE  Kept
  <1>1. Sound(term) /\ RowsForm(rows, term.lines, term.columns)
    BY CurrentFacts
  <1>2. /\ SameSize(deccolm(term), term) /\ SameSize(SetAltScreen(term), term)
        /\ SameSize(UnsetAltScreen(term), term) /\ SameSize(reset_state(term), term)
    BY <1>1, ScreenSize
  <1>3. /\ Paints(rows, SwapAltRows(term, rows), term.lines, term.columns)
        /\ Paints(rows, ResetStateRows(term, rows), term.lines, term.columns)
        /\ Paints(rows, DeccolmRows(term, rows), term.lines, term.columns)
        /\ Paints(rows, rows, term.lines, term.columns)
    BY <1>1, ScreensPaint, AlignPaints, PaintsSame
  <1>4. CASE Deccolm
    <2>1. Step("DECCOLM", deccolm(term), DeccolmRows(term, rows))
      BY <1>4 DEF Deccolm
    <2>2. Screens
      BY <2>1 DEF Step, Screens
    <2> QED
      BY <1>2, <1>3, <2>1, <2>2, StepPainted
  <1>5. CASE SwapAlt
    <2>1. /\ term' \in {SetAltScreen(term), UnsetAltScreen(term)}
          /\ rows' = rows \/ rows' = SwapAltRows(term, rows)
          /\ frame' = frame /\ program' = program
      BY <1>5 DEF SwapAlt
    <2>2. Screens /\ SameSize(term', term)
      BY <1>2, <2>1 DEF Screens
    <2>3. Paints(rows, rows', term.lines, term.columns)
      BY <1>3, <2>1
    <2> QED
      BY <2>1, <2>2, <2>3, PaintedCurrent
  <1>6. CASE ResetState
    <2>1. /\ term' = reset_state(term) /\ rows' = ResetStateRows(term, rows)
          /\ frame' = frame /\ program' = program
      BY <1>6 DEF ResetState
    <2>2. Screens /\ SameSize(term', term)
      BY <1>2, <2>1 DEF Screens
    <2>3. Paints(rows, rows', term.lines, term.columns)
      BY <1>3, <2>1
    <2> QED
      BY <2>1, <2>2, <2>3, PaintedCurrent
  <1> QED
    BY <1>4, <1>5, <1>6

(* The keyboard modes touch neither the screen nor the frame. *)
LEMMA KeysCurrent ==
    ASSUME Current, PushKeyboardMode \/ PopKeyboardModes \/ SetKeyboardMode \/ UNCHANGED vars
    PROVE  Kept
  <1>1. term' = term /\ rows' = rows /\ frame' = frame /\ program' = program
    BY DEF PushKeyboardMode, PopKeyboardModes, SetKeyboardMode, KeyboardMode, vars
  <1> QED
    BY <1>1 DEF Kept, Current
-----------------------------------------------------------------------------
(* The sizes that a behaviour uses are sizes of a window. *)
LEMMA ProgramSizes ==
    ASSUME program \in Programs, NEW size \in program.sizes
    PROVE  size \in Sizes /\ size = <<size[1], size[2]>>
  BY CrosswordsAssumption, SizesAssumption

(* A grid with two cursors on it. *)
LEMMA LandedForm ==
    ASSUME NEW lines, NEW columns, NEW g, Shape(g, lines, columns),
           NEW a \in Positions(lines, columns), NEW b \in Positions(lines, columns)
    PROVE  Landed([grid |-> g, cursor |-> a, saved |-> b], lines, columns)
  <1>1. PICK s : s = [grid |-> g, cursor |-> a, saved |-> b]
    OBVIOUS
  <1>2. s.grid = g /\ s.cursor = a /\ s.saved = b
    BY <1>1
  <1>3. s = [grid |-> s.grid, cursor |-> s.cursor, saved |-> s.saved]
    BY <1>1, <1>2
  <1>4. Landed(s, lines, columns)
    BY <1>2, <1>3 DEF Landed
  <1> QED
    BY <1>1, <1>4

(* Both grids have the new size and all four cursors are on them. *)
LEMMA ResizedLands ==
    ASSUME Current, NEW size, NEW lines, NEW columns, size = <<lines, columns>>, size \in Sizes
    PROVE  /\ Landed(ResizedActive(term, rows, size), lines, columns)
           /\ Landed(ResizedInactive(term, rows, size), lines, columns)
  <1>1. lines \in Nat /\ lines >= 1 /\ columns \in Nat /\ columns >= 1
    BY SizeFacts
  <1>2. size[1] = lines /\ size[2] = columns
    OBVIOUS
  <1>3. PICK l, c : l = term.lines /\ c = term.columns
    OBVIOUS
  <1>4. l \in Nat /\ l >= 1 /\ c \in Nat /\ c >= 1
    BY <1>3, CurrentFacts
  <1>5. /\ Shape(rows.grid, l, c) /\ Shape(rows.inactive, l, c)
        /\ term.cursor \in Positions(l, c) /\ term.saved \in Positions(l, c)
        /\ term.other.cursor \in Positions(l, c) /\ term.other.saved \in Positions(l, c)
    BY <1>3, CurrentFacts DEF RowsForm, Sound
  <1>6. PICK s, on : /\ s = [grid |-> rows.grid, cursor |-> term.cursor, saved |-> term.saved]
                     /\ on = ~Is(term, "ALT_SCREEN")
    OBVIOUS
  <1>7. Landed(s, l, c)
    BY <1>5, <1>6, LandedForm
  <1>8. Landed(resize(s, lines, columns, on), lines, columns)
    BY ONLY <1>1, <1>4, <1>7, ResizeLands
  <1>9. PICK v, alt : /\ v = [grid |-> rows.inactive, cursor |-> term.other.cursor,
                              saved |-> term.other.saved]
                      /\ alt = Is(term, "ALT_SCREEN")
    OBVIOUS
  <1>10. Landed(v, l, c)
    BY <1>5, <1>9, LandedForm
  <1>11. Landed(resize(v, lines, columns, alt), lines, columns)
    BY ONLY <1>1, <1>4, <1>10, ResizeLands
  <1> QED
    BY <1>2, <1>6, <1>8, <1>9, <1>11 DEF ResizedActive, ResizedInactive

(* Rows after a resize. *)
WithGrids(k, g, h, p) ==
    [k EXCEPT !.grid = g, !.inactive = h, !.damage = "full", !.last_cursor = p]

(* Both grids replaced, everything damaged. *)
LEMMA ResizedRows ==
    ASSUME NEW k, NEW l, NEW c, RowsForm(k, l, c), NEW lines, NEW columns,
           NEW g, Shape(g, lines, columns), NEW h, Shape(h, lines, columns), NEW p,
           NEW m, m = WithGrids(k, g, h, p)
    PROVE  RowsForm(m, lines, columns) /\ m.damage = "full"
  <1>1. k = [grid |-> k.grid, inactive |-> k.inactive, damage |-> k.damage,
             last_cursor |-> k.last_cursor, slipped |-> k.slipped] /\ k.slipped \in BOOLEAN
    BY DEF RowsForm
  <1>2. m = [grid |-> g, inactive |-> h, damage |-> "full", last_cursor |-> p,
             slipped |-> k.slipped]
    BY <1>1 DEF WithGrids
  <1>3. /\ m.grid = g /\ m.inactive = h /\ m.damage = "full" /\ m.last_cursor = p
        /\ m.slipped = k.slipped
    BY <1>2
  <1>4. m = [grid |-> m.grid, inactive |-> m.inactive, damage |-> m.damage,
             last_cursor |-> m.last_cursor, slipped |-> m.slipped]
    BY ONLY <1>2, <1>3
  <1> QED
    BY <1>1, <1>3, <1>4 DEF RowsForm

(* A resize moves both screens and damages everything. *)
LEMMA ResizeCurrent ==
    ASSUME Current, Resize
    PROVE  Kept
  <1>1. program \in Programs
    BY DEF Current
  <1>2. PICK size \in program.sizes :
            LET active == ResizedActive(term, rows, size)
                inactive == ResizedInactive(term, rows, size)
            IN  Step("resize",
                     ResizedTerm(term, size[1], size[2], active.cursor, active.saved,
                                 [cursor |-> inactive.cursor, saved |-> inactive.saved]),
                     [rows EXCEPT !.grid = active.grid, !.inactive = inactive.grid,
                                  !.damage = "full", !.last_cursor = Position(Home)])
    BY DEF Resize
  <1>3. PICK lines, columns : lines = size[1] /\ columns = size[2]
    OBVIOUS
  <1>4. size \in Sizes /\ size = <<lines, columns>>
    BY <1>1, <1>3, ProgramSizes
  <1>5. PICK s, v : s = ResizedActive(term, rows, size) /\ v = ResizedInactive(term, rows, size)
    OBVIOUS
  <1>6. Landed(s, lines, columns) /\ Landed(v, lines, columns)
    BY <1>4, <1>5, ResizedLands
  <1>7. PICK a, b, c, d : a = s.cursor /\ b = s.saved /\ c = v.cursor /\ d = v.saved
    OBVIOUS
  <1>8. /\ a \in Positions(lines, columns) /\ b \in Positions(lines, columns)
        /\ c \in Positions(lines, columns) /\ d \in Positions(lines, columns)
        /\ Shape(s.grid, lines, columns) /\ Shape(v.grid, lines, columns)
    BY <1>6, <1>7 DEF Landed
  <1>9. /\ term' = ResizedTerm(term, lines, columns, a, b, [cursor |-> c, saved |-> d])
        /\ rows' = [rows EXCEPT !.grid = s.grid, !.inactive = v.grid, !.damage = "full",
                                !.last_cursor = Position(Home)]
        /\ frame' = frame /\ program' = program
    BY <1>2, <1>3, <1>5, <1>7 DEF Step
  <1>10. Sound(term') /\ term'.lines = lines /\ term'.columns = columns
    <2>1. PICK u : u = ResizedTerm(term, lines, columns, a, b, [cursor |-> c, saved |-> d])
      OBVIOUS
    <2>2. Sound(u)
      BY <1>4, <1>8, <2>1, CurrentFacts, ResizeSound
    <2>3. u.lines = lines /\ u.columns = columns
      <3>1. Sound(term)
        BY CurrentFacts
      <3> QED
        BY <2>1, <3>1 DEF ResizedTerm, Sound
    <2> QED
      BY <1>9, <2>1, <2>2, <2>3
  <1>11. RowsForm(rows', lines, columns) /\ rows'.damage = "full"
    <2>1. RowsForm(rows, term.lines, term.columns)
      BY CurrentFacts
    <2>2. PICK k, p, g, h, l, w :
                               /\ k = rows /\ p = Position(Home) /\ g = s.grid /\ h = v.grid
                               /\ l = term.lines /\ w = term.columns
      OBVIOUS
    <2>3. PICK m : m = WithGrids(k, g, h, p)
      OBVIOUS
    <2>4. RowsForm(k, l, w) /\ Shape(g, lines, columns) /\ Shape(h, lines, columns)
      BY <1>8, <2>1, <2>2
    <2>5. RowsForm(m, lines, columns) /\ m.damage = "full"
      BY ONLY <2>3, <2>4, ResizedRows
    <2> QED
      BY <1>9, <2>2, <2>3, <2>5 DEF WithGrids
  <1>12. Drawn(term', rows', frame')
    BY <1>10, <1>11 DEF Drawn
  <1>13. Current'
    BY <1>1, <1>9, <1>12 DEF Current
  <1>14. TermNext
    <2>1. /\ term'.cursor = a /\ term'.saved = b
          /\ term'.other = [cursor |-> c, saved |-> d]
      <3>1. Sound(term)
        BY CurrentFacts
      <3> QED
        BY <1>9, <3>1 DEF ResizedTerm, Sound
    <2>2. term'.other.cursor = c /\ term'.other.saved = d
      BY <2>1
    <2>3. Resized(size)
      BY <1>3, <1>8, <1>9, <2>1, <2>2 DEF Resized
    <2> QED
      BY <1>4, <2>3 DEF TermNext
  <1> QED
    BY <1>13, <1>14 DEF Kept

(* A render that leaves nothing to follow up leaves the view, *)
LEMMA RenderedAll ==
    ASSUME NEW t, NEW k, NEW f, Drawn(t, k, f), NEW ui \in DOMAIN DamageRank,
           NEW damage, damage = merge_terminal_damages(ui, damage_event(t, k)),
           ~(SnapshotRows(t, k, f, damage).slipped = TRUE)
    PROVE  snapshot_visible(t, k, f, damage) = Contents(ViewRows(k.grid))
  <1>1. k = [grid |-> k.grid, inactive |-> k.inactive, damage |-> k.damage,
             last_cursor |-> k.last_cursor, slipped |-> k.slipped] /\ k.slipped \in BOOLEAN
    BY DEF Drawn, RowsForm
  <1>2. SnapshotRows(t, k, f, damage).slipped = (k.slipped /\ ~NeedsFull(t, f, damage))
    BY <1>1 DEF SnapshotRows
  <1>3. ~(k.slipped = TRUE) \/ NeedsFull(t, f, damage)
    BY <1>1, <1>2
  <1>4. CASE ~(k.slipped = TRUE)
    BY <1>4, RenderedView
  <1>5. CASE NeedsFull(t, f, damage)
    BY <1>5 DEF snapshot_visible
  <1> QED
    BY <1>3, <1>4, <1>5

(* and rows of the same form with the same view. *)
LEMMA SnapshotForm ==
    ASSUME NEW t, Sound(t), NEW k, RowsForm(k, t.lines, t.columns), NEW f, NEW damage
    PROVE  /\ RowsForm(SnapshotRows(t, k, f, damage), t.lines, t.columns)
           /\ \A y \in 1 .. t.lines :
                ViewRow(SnapshotRows(t, k, f, damage).grid, y - 1).cells
                    = ViewRow(k.grid, y - 1).cells
  <1>1. k = [grid |-> k.grid, inactive |-> k.inactive, damage |-> k.damage,
             last_cursor |-> k.last_cursor, slipped |-> k.slipped] /\ k.slipped \in BOOLEAN
    BY DEF RowsForm
  <1>2. PICK lines, columns, g : lines = t.lines /\ columns = t.columns /\ g = k.grid
    OBVIOUS
  <1>3. lines \in Nat /\ lines >= 1 /\ columns \in Nat
    BY <1>2, SoundFacts
  <1>4. Shape(g, lines, columns) /\ Shape(k.inactive, lines, columns)
    BY <1>2 DEF RowsForm
  <1>5. /\ Shape(Cleaned(g), lines, columns)
        /\ \A y \in 0 .. lines - 1 : ViewRow(Cleaned(g), y).cells = ViewRow(g, y).cells
    BY <1>3, <1>4, CleanedShape
  <1>6. PICK h, full : /\ full = NeedsFull(t, f, damage)
                       /\ h = IF full \/ damage = "partial" THEN Cleaned(g) ELSE g
    OBVIOUS
  <1>7. PICK m : m = SnapshotRows(t, k, f, damage)
    OBVIOUS
  <1>8. PICK p, b : p = Position(t.cursor) /\ b = (k.slipped /\ ~full)
    OBVIOUS
  <1>9. m = [grid |-> h, inactive |-> k.inactive, damage |-> "none",
             last_cursor |-> p, slipped |-> b]
    BY <1>1, <1>2, <1>6, <1>7, <1>8 DEF SnapshotRows
  <1>10. /\ m.grid = h /\ m.inactive = k.inactive /\ m.damage = "none" /\ m.last_cursor = p
         /\ m.slipped = b
    BY <1>9
  <1>11. m = [grid |-> m.grid, inactive |-> m.inactive, damage |-> m.damage,
              last_cursor |-> m.last_cursor, slipped |-> m.slipped]
    BY ONLY <1>9, <1>10
  <1>12. b \in BOOLEAN
    BY <1>8
  <1>13. RowsForm(m, lines, columns)
    BY <1>4, <1>5, <1>6, <1>10, <1>11, <1>12 DEF RowsForm
  <1>14. ASSUME NEW y \in 1 .. lines
         PROVE  ViewRow(m.grid, y - 1).cells = ViewRow(g, y - 1).cells
    <2>1. PICK z : z = y - 1
      OBVIOUS
    <2>2. z \in 0 .. lines - 1
      BY <1>3, <2>1
    <2>3. ViewRow(h, z).cells = ViewRow(g, z).cells
      BY <1>5, <1>6, <2>2
    <2> QED
      BY <1>10, <2>1, <2>3
  <1> QED
    BY <1>2, <1>7, <1>13, <1>14

(* A render leaves a frame that matches the view. *)
LEMMA RenderDrawn ==
    ASSUME NEW t, NEW k, NEW f, Drawn(t, k, f), NEW ui \in DOMAIN DamageRank,
           NEW damage, damage = merge_terminal_damages(ui, damage_event(t, k))
    PROVE  Drawn(t, SnapshotRows(t, k, f, damage), snapshot_visible(t, k, f, damage))
  <1>1. PICK m, h : m = SnapshotRows(t, k, f, damage) /\ h = snapshot_visible(t, k, f, damage)
    OBVIOUS
  <1>2. Sound(t) /\ RowsForm(k, t.lines, t.columns)
    BY DEF Drawn
  <1>3. /\ RowsForm(m, t.lines, t.columns)
        /\ \A y \in 1 .. t.lines : ViewRow(m.grid, y - 1).cells = ViewRow(k.grid, y - 1).cells
    BY <1>1, <1>2, SnapshotForm
  <1>4. CASE m.slipped = TRUE
    BY <1>1, <1>2, <1>3, <1>4 DEF Drawn
  <1>5. CASE ~(m.slipped = TRUE)
    <2>1. h = Contents(ViewRows(k.grid))
      BY <1>1, <1>5, RenderedAll
    <2>2. PICK lines, columns, g : lines = t.lines /\ columns = t.columns /\ g = k.grid
      OBVIOUS
    <2>3. lines \in Nat /\ lines >= 1 /\ columns \in Nat /\ Shape(g, lines, columns)
      BY <1>2, <2>2, SoundFacts DEF RowsForm
    <2>4. Contents(ViewRows(g)) = [y \in 1 .. lines |-> ViewRow(g, y - 1).cells]
      BY ONLY <2>3, ViewContents
    <2>5. h = [y \in 1 .. lines |-> ViewRow(g, y - 1).cells]
      BY <2>1, <2>2, <2>4
    <2>6. h = [y \in 1 .. lines |-> h[y]]
      BY <2>5
    <2>7. \A y \in 1 .. lines : h[y] = ViewRow(m.grid, y - 1).cells
      BY <1>3, <2>2, <2>5
    <2>8. Matches(h, m.grid, lines, m.damage)
      BY <2>6, <2>7 DEF Matches
    <2> QED
      BY <1>1, <1>2, <1>3, <2>2, <2>8 DEF Drawn
  <1> QED
    BY <1>4, <1>5

(* A render. *)
LEMMA RenderCurrent ==
    ASSUME Current, Render
    PROVE  Kept
  <1>1. PICK ui \in DOMAIN DamageRank :
            LET damage == merge_terminal_damages(ui, damage_event(term, rows))
            IN  /\ frame' = snapshot_visible(term, rows, frame, damage)
                /\ rows' = SnapshotRows(term, rows, frame, damage)
                /\ term' = term /\ program' = program
    BY DEF Render
  <1>2. PICK damage : damage = merge_terminal_damages(ui, damage_event(term, rows))
    OBVIOUS
  <1>3. /\ frame' = snapshot_visible(term, rows, frame, damage)
        /\ rows' = SnapshotRows(term, rows, frame, damage)
        /\ term' = term /\ program' = program
    BY <1>1, <1>2
  <1>4. Drawn(term, rows, frame)
    BY DEF Current
  <1>5. Drawn(term, SnapshotRows(term, rows, frame, damage),
              snapshot_visible(term, rows, frame, damage))
    BY ONLY <1>2, <1>4, RenderDrawn, ui \in DOMAIN DamageRank
  <1>6. Drawn(term', rows', frame')
    BY <1>3, <1>5
  <1> QED
    BY <1>3, <1>6 DEF Kept, Current

(* A new terminal has to be drawn as a whole. *)
LEMMA InitCurrent == Init => Current /\ TermInit
  <1> SUFFICES ASSUME Init PROVE Current /\ TermInit
    OBVIOUS
  <1>1. program \in Programs
    BY DEF Init
  <1>2. PICK size \in program.sizes : term = NewTerm(size[1], size[2])
    BY DEF Init
  <1>3. PICK lines, columns : lines = size[1] /\ columns = size[2]
    OBVIOUS
  <1>4. size \in Sizes /\ size = <<lines, columns>>
    BY <1>1, <1>3, ProgramSizes
  <1>5. TermInit
    BY <1>2, <1>4 DEF TermInit
  <1>6. term = NewTerm(lines, columns)
    BY <1>2, <1>3
  <1>7. Sound(term) /\ term.lines = lines /\ term.columns = columns
    <2>1. Sound(NewTerm(lines, columns))
      BY <1>4, NewTermSound
    <2>2. term.lines = lines /\ term.columns = columns
      BY <1>6 DEF NewTerm
    <2> QED
      BY <1>6, <2>1, <2>2
  <1>8. lines \in Nat /\ lines >= 1 /\ columns \in Nat /\ columns >= 2
    BY <1>4, SizeFacts
  <1>9. PICK limit, zero, p : limit = program.max_scroll_limit /\ zero = 0 /\ p = Position(Home)
    OBVIOUS
  <1>10. limit \in Nat /\ zero \in Nat
    BY <1>1, <1>9, CrosswordsAssumption
  <1>11. PICK g, h : g = NewGrid(lines, columns, limit) /\ h = NewGrid(lines, columns, zero)
    OBVIOUS
  <1>12. Shape(g, lines, columns) /\ Shape(h, lines, columns)
    BY <1>8, <1>10, <1>11, NewGridShape
  <1>13. rows = [grid |-> g, inactive |-> h, damage |-> "full", last_cursor |-> p,
                 slipped |-> FALSE]
    BY <1>7, <1>9, <1>11 DEF Init
  <1>14. /\ rows.grid = g /\ rows.inactive = h /\ rows.damage = "full" /\ rows.last_cursor = p
         /\ rows.slipped = FALSE
    BY <1>13
  <1>15. rows = [grid |-> rows.grid, inactive |-> rows.inactive, damage |-> rows.damage,
                 last_cursor |-> rows.last_cursor, slipped |-> rows.slipped]
    BY ONLY <1>13, <1>14
  <1>16. RowsForm(rows, lines, columns)
    BY <1>12, <1>14, <1>15 DEF RowsForm
  <1>17. Drawn(term, rows, frame)
    BY <1>7, <1>14, <1>16 DEF Drawn
  <1> QED
    BY <1>1, <1>5, <1>17 DEF Current

(* Every action, and no action. *)
LEMMA NextCurrent == Current /\ [Next]_vars => Kept
  <1> SUFFICES ASSUME Current, Next \/ UNCHANGED vars PROVE Kept
    OBVIOUS
  <1>1. CASE InputLetter \/ InputEmoji \/ Tab
    BY <1>1, WritingCurrent
  <1>2. CASE Combine \/ VariationSelector16 \/ VariationSelector15
    BY <1>2, VariationCurrent
  <1>3. CASE Linefeed \/ CarriageReturn \/ NextLine \/ Backspace \/ ReverseIndex
    BY <1>3, LinesCurrent
  <1>4. CASE Goto \/ GotoOne \/ Move \/ MoveTabs
    BY <1>4, GotoCurrent
  <1>5. CASE SetTabs \/ SaveCursor \/ RestoreCursor \/ SetRegion \/ SetMode \/ UnsetMode
    BY <1>5, ModesCurrent
  <1>6. CASE ScrollUp \/ ScrollDown \/ DeleteLines \/ InsertBlankLines \/ ScrollDisplay
    BY <1>6, ScrollCurrent
  <1>7. CASE EraseChars \/ DeleteChars \/ InsertBlank
    BY <1>7, CharsCurrent
  <1>8. CASE ClearLine \/ ClearScreen \/ Decaln
    BY <1>8, ClearCurrent
  <1>9. CASE Deccolm \/ SwapAlt \/ ResetState
    BY <1>9, ScreensCurrent
  <1>10. CASE PushKeyboardMode \/ PopKeyboardModes \/ SetKeyboardMode \/ UNCHANGED vars
    BY <1>10, KeysCurrent
  <1>11. CASE Resize
    BY <1>11, ResizeCurrent
  <1>12. CASE Render
    BY <1>12, RenderCurrent
  <1> QED
    BY <1>1, <1>2, <1>3, <1>4, <1>5, <1>6, <1>7, <1>8, <1>9, <1>10, <1>11, <1>12 DEF Next

(* In such a state the next render draws the view. *)
LEMMA CurrentFrame == Current => FrameCurrent
  <1> SUFFICES ASSUME Current, ~(rows.slipped = TRUE), NEW ui \in DOMAIN DamageRank
               PROVE  snapshot_visible(term, rows, frame,
                            merge_terminal_damages(ui, damage_event(term, rows)))
                        = Contents(ViewRows(rows.grid))
    BY DEF FrameCurrent
  <1>1. PICK damage : damage = merge_terminal_damages(ui, damage_event(term, rows))
    OBVIOUS
  <1>2. Drawn(term, rows, frame)
    BY DEF Current
  <1>3. snapshot_visible(term, rows, frame, damage) = Contents(ViewRows(rows.grid))
    BY ONLY <1>1, <1>2, RenderedView, ui \in DOMAIN DamageRank, ~(rows.slipped = TRUE)
  <1> QED
    BY <1>1, <1>3

(* A render draws what the terminal shows: damage_event, the dirty bits    *)
(* and snapshot_visible leave a frame equal to the view, on every size and *)
(* history, unless output scrolled under a view that could not follow.     *)
THEOREM FrameCorrect == Spec => []FrameCurrent
  <1>1. Init => Current
    BY InitCurrent
  <1>2. Current /\ [Next]_vars => Current'
    BY NextCurrent DEF Kept
  <1>3. Current => FrameCurrent
    BY CurrentFrame
  <1> QED
    BY <1>1, <1>2, <1>3, PTL DEF Spec

(* The control state moves by the handlers of module Terminal only, and a  *)
(* reflow finds all four cursors a place on the new screen.                *)
LEMMA ControlRefined == Spec => TermSpec
  <1>1. Init => Current /\ TermInit
    BY InitCurrent
  <1>2. Current /\ [Next]_vars => Current' /\ [TermNext]_term
    BY NextCurrent DEF Kept
  <1> QED
    BY <1>1, <1>2, PTL DEF Spec, TermSpec

(* So no handler indexes the rows beyond the screen, also after a resize:  *)
(* wherever the reflow put the cursors, and whatever was saved before it.  *)
THEOREM HandlersInBounds == Spec => []InBounds
  BY ControlRefined, BoundsCorrect, PTL
=============================================================================
