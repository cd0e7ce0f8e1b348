--------------------------- MODULE TerminalProofs ---------------------------
(***************************************************************************)
(* Proofs about Terminal, for every size of the screen, the video memory   *)
(* and the buffer and every message of any number of lines: its types,     *)
(* that nothing is left over ahead of the cursor, and that text on the     *)
(* screen only moves up.                                                   *)
(***************************************************************************)
EXTENDS Terminal, WellFoundedInduction, TLAPS

(***************************************************************************)
(* The characters a cell can hold, and the states of the video memory.     *)
(***************************************************************************)
Chars == Ascii \ {"LF", "BS"}
Cells == 0 .. VIDEO - 1
Screens ==
    [cursor : 0 .. VIDEO + COLS, cells : [Cells -> Chars], scrolled : Nat]

(***************************************************************************)
(* AheadIsBlank, of a state of the video memory; with its type, what every *)
(* character preserves.                                                    *)
(***************************************************************************)
Ahead(v) == \A c \in v.cursor .. SCREEN - COLS - 1 : v.cells[c] = Blank

(***************************************************************************)
(* TextOnlyMovesUp, of two states of the video memory.                     *)
(***************************************************************************)
Moves(v, w) ==
    \A c \in Before(v) :
        \/ c < w.scrolled * COLS
        \/ w.scrolled = 0 /\ c >= w.cursor
        \/ w.cells[c - w.scrolled * COLS] = v.cells[c]

(***************************************************************************)
(* The same without backspaces, after any number of characters: the text   *)
(* is where the rows scrolled so far have taken it, and before the cursor. *)
(***************************************************************************)
Image(v, w, c, k) ==
    \/ c < k * COLS
    \/ c - k * COLS < w.cursor /\ w.cells[c - k * COLS] = v.cells[c]

Follows(v, w) ==
    \E k \in Nat :
        /\ w.scrolled = v.scrolled + k
        /\ \A c \in Before(v) : Image(v, w, c, k)

Good(v) == v \in Screens /\ Ahead(v)

(***************************************************************************)
(* One character of a string.                                              *)
(***************************************************************************)
Step(w, a) == IF InVideo(w) THEN PutChar(w, a) ELSE w

-----------------------------------------------------------------------------
(***************************************************************************)
(* A set of numbers has a least one. Prints is a recursive function, and   *)
(* what it does is shown by a least counterexample.                        *)
(***************************************************************************)
LEMMA LeastNumber ==
    ASSUME NEW S \in SUBSET Nat, S # {}
    PROVE  \E x \in S : \A y \in S : x <= y
  <1>1. PICK x \in S : \A y \in S : ~ (<<y, x>> \in OpToRel(<, Nat))
    BY NatLessThanWellFounded, WFMin, Zenon
  <1>2. \A y \in S : x <= y
    <2> TAKE y \in S
    <2>1. <<y, x>> \notin OpToRel(<, Nat)
      BY <1>1
    <2>2. ~(y < x)
      BY <2>1 DEF OpToRel
    <2> QED
      BY <2>2
  <1> QED
    BY <1>2

(***************************************************************************)
(* The equation that defines Prints, up to the character n.                *)
(***************************************************************************)
PrintFcn(v, s, n, f) ==
    f = [k \in 0 .. n |-> IF k = 0 THEN v ELSE Step(f[k - 1], s[k])]

(***************************************************************************)
(* It has a solution, because each value needs only the one before.        *)
(***************************************************************************)
LEMMA PrintFcnExists ==
    ASSUME NEW v, NEW s, NEW n \in Nat
    PROVE  \E f : PrintFcn(v, s, n, f)
  <1> DEFINE Bad == {m \in Nat : ~ \E f : PrintFcn(v, s, m, f)}
  <1>1. SUFFICES ASSUME Bad # {} PROVE FALSE
    OBVIOUS
  <1>2. PICK m \in Bad : \A y \in Bad : m <= y
    BY <1>1, LeastNumber
  <1>3. CASE m = 0
    <2> DEFINE f == [k \in 0 .. 0 |-> v]
    <2>1. PrintFcn(v, s, 0, f)
      BY DEF PrintFcn
    <2> QED
      BY <1>3, <2>1
  <1>4. CASE m # 0
    <2>1. m - 1 \in Nat /\ m - 1 \notin Bad
      BY <1>2, <1>4
    <2>2. PICK g : PrintFcn(v, s, m - 1, g)
      BY <2>1
    <2> DEFINE f == [k \in 0 .. m |-> IF k = m THEN Step(g[m - 1], s[m])
                                      ELSE g[k]]
    <2>3. PrintFcn(v, s, m, f)
      <3>1. ASSUME NEW k \in 0 .. m
            PROVE  f[k] = IF k = 0 THEN v ELSE Step(f[k - 1], s[k])
        <4>1. \A i \in 0 .. m - 1 :
                 g[i] = IF i = 0 THEN v ELSE Step(g[i - 1], s[i])
          BY <2>2, Zenon DEF PrintFcn
        <4> QED
          BY <4>1, <1>4
      <3> HIDE DEF f
      <3>2. [k \in 0 .. m |-> f[k]] =
              [k \in 0 .. m |-> IF k = 0 THEN v ELSE Step(f[k - 1], s[k])]
        BY <3>1
      <3>3. f = [k \in 0 .. m |-> f[k]]
        BY DEF f
      <3> QED
        BY <3>2, <3>3 DEF PrintFcn
    <2> QED
      BY <2>3, <1>2
  <1> QED
    BY <1>3, <1>4

(***************************************************************************)
(* So Prints, defined as some solution, is one.                            *)
(***************************************************************************)
LEMMA PrintsIs ==
    ASSUME NEW v, NEW s, Len(s) \in Nat
    PROVE  PrintFcn(v, s, Len(s), Prints(v, s))
  <1>1. \E f : PrintFcn(v, s, Len(s), f)
    BY PrintFcnExists
  <1> QED
    BY <1>1, Zenon DEF Prints, PrintFcn, Step

-----------------------------------------------------------------------------
(***************************************************************************)
(* The assumptions on the constants, as the proofs use them.               *)
(***************************************************************************)
LEMMA Sizes ==
    /\ COLS \in Nat /\ COLS # 0 /\ ROWS \in Nat
    /\ VIDEO \in Nat /\ SCREEN \in Nat
    /\ SCREEN = ROWS * COLS /\ 2 * COLS <= SCREEN /\ SCREEN < VIDEO
  <1>1. 2 * COLS <= ROWS * COLS
    BY TerminalAssumption
  <1> QED
    BY <1>1, TerminalAssumption DEF SCREEN

(***************************************************************************)
(* A line feed moves the cursor by a row at most, and from the last row to *)
(* the cell below the screen.                                              *)
(***************************************************************************)
LEMMA Rows ==
    ASSUME NEW c \in Nat
    PROVE  /\ (c \div COLS + 1) * COLS \in c + 1 .. c + COLS
           /\ (c \div COLS) = ROWS - 1 =>
                 /\ (c \div COLS + 1) * COLS = SCREEN
                 /\ SCREEN - COLS <= c /\ c < SCREEN
  <1> DEFINE q == c \div COLS
             r == c % COLS
  <1>1. q \in Nat /\ r \in 0 .. COLS - 1 /\ c = COLS * q + r
    BY Sizes
  <1>2. (q + 1) * COLS = COLS * q + COLS
    BY <1>1, Sizes
  <1> HIDE DEF q, r
  <1>3. (q + 1) * COLS \in c + 1 .. c + COLS
    BY <1>1, <1>2, Sizes
  <1>4. ASSUME q = ROWS - 1
        PROVE  (q + 1) * COLS = SCREEN /\ SCREEN - COLS <= c /\ c < SCREEN
    <2>1. (q + 1) * COLS = SCREEN
      BY <1>4, Sizes
    <2> QED
      BY <1>3, <2>1, Sizes
  <1> QED
    BY <1>3, <1>4 DEF q

(***************************************************************************)
(* scroll_screen: which cell comes from where.                             *)
(***************************************************************************)
LEMMA ScrollMoves ==
    ASSUME NEW cells \in [Cells -> Chars]
    PROVE  /\ Scrolled(cells) \in [Cells -> Chars]
           /\ \A c \in Cells :
                 c < SCREEN - COLS => Scrolled(cells)[c] = cells[c + COLS]
           /\ \A c \in COLS .. SCREEN - 1 :
                 Scrolled(cells)[c - COLS] = cells[c]
  <1> USE Sizes DEF Cells, Scrolled
  <1>1. \A c \in Cells : c < SCREEN - COLS => c + COLS \in Cells
    OBVIOUS
  <1>2. \A c \in COLS .. SCREEN - 1 :
           /\ c - COLS \in Cells /\ c - COLS < SCREEN - COLS
           /\ c - COLS + COLS = c
    OBVIOUS
  <1> QED
    BY <1>1, <1>2

(***************************************************************************)
(* Image, without and after one scrolled row.                              *)
(***************************************************************************)
LEMMA FollowsUnscrolled ==
    ASSUME NEW v, NEW w, v.scrolled \in Nat, w.scrolled = v.scrolled,
           \A c \in Before(v) : c < w.cursor /\ w.cells[c] = v.cells[c]
    PROVE  Follows(v, w)
  <1>1. \A c \in Before(v) : c - 0 * COLS = c
    BY Sizes DEF Before
  <1>2. \A c \in Before(v) : Image(v, w, c, 0)
    BY <1>1 DEF Image
  <1>3. w.scrolled = v.scrolled + 0
    OBVIOUS
  <1> QED
    BY <1>2, <1>3 DEF Follows

LEMMA FollowsScrolled ==
    ASSUME NEW v, NEW w, v.scrolled \in Nat, w.scrolled = v.scrolled + 1,
           w.cursor \in Nat, SCREEN - COLS <= w.cursor,
           \A c \in COLS .. SCREEN - 1 : w.cells[c - COLS] = v.cells[c]
    PROVE  Follows(v, w)
  <1>1. \A c \in Before(v) : c < COLS \/ c \in COLS .. SCREEN - 1
    BY Sizes DEF Before
  <1>2. \A c \in Before(v) : c < COLS \/ c - COLS < w.cursor
    BY Sizes DEF Before
  <1>3. 1 * COLS = COLS
    BY Sizes
  <1>4. \A c \in Before(v) : Image(v, w, c, 1)
    BY <1>1, <1>2, <1>3 DEF Image
  <1> QED
    BY <1>4 DEF Follows

(***************************************************************************)
(* What follows on what follows.                                           *)
(***************************************************************************)
LEMMA FollowsTransitive ==
    ASSUME NEW v, NEW w, NEW x, v.scrolled \in Nat, w.cursor \in Nat,
           Follows(v, w), Follows(w, x)
    PROVE  Follows(v, x)
  <1>1. PICK k \in Nat : /\ w.scrolled = v.scrolled + k
                         /\ \A c \in Before(v) : Image(v, w, c, k)
    BY DEF Follows
  <1>2. PICK j \in Nat : /\ x.scrolled = w.scrolled + j
                         /\ \A c \in Before(w) : Image(w, x, c, j)
    BY DEF Follows
  <1>3. x.scrolled = v.scrolled + (k + j) /\ k + j \in Nat
    BY <1>1, <1>2
  <1>4. ASSUME NEW c \in Before(v), ~(c < (k + j) * COLS)
        PROVE  /\ c - (k + j) * COLS < x.cursor
               /\ x.cells[c - (k + j) * COLS] = v.cells[c]
    <2> DEFINE a == k * COLS
               b == j * COLS
    <2>1. a \in Nat /\ b \in Nat /\ (k + j) * COLS = a + b
      BY Sizes
    <2>2. c \in Nat /\ c < SCREEN /\ c < v.cursor
      BY Sizes DEF Before
    <2>3. Image(v, w, c, k)
      BY <1>1
    <2> HIDE DEF a, b
    <2>4. ~(c < a)
      BY <1>4, <2>1, <2>2
    <2>5. c - a < w.cursor /\ w.cells[c - a] = v.cells[c]
      BY <2>3, <2>4 DEF Image, a
    <2>6. c - a \in Before(w)
      BY <2>1, <2>2, <2>4, <2>5, Sizes DEF Before
    <2>7. Image(w, x, c - a, j)
      BY <1>2, <2>6
    <2>8. ~(c - a < b) /\ (c - a) - b = c - (k + j) * COLS
      BY <1>4, <2>1, <2>2, <2>4
    <2>9. (c - a) - b < x.cursor /\ x.cells[(c - a) - b] = w.cells[c - a]
      BY <2>7, <2>8 DEF Image, b
    <2> QED
      BY <2>5, <2>8, <2>9
  <1>5. \A c \in Before(v) : Image(v, x, c, k + j)
    BY <1>4 DEF Image
  <1> QED
    BY <1>3, <1>5 DEF Follows

(***************************************************************************)
(* With no row scrolled at the beginning, that is what the property says.  *)
(***************************************************************************)
LEMMA FollowsMoves ==
    ASSUME NEW v, NEW w, v.scrolled = 0, Follows(v, w)
    PROVE  Moves(v, w)
  <1>1. PICK k \in Nat : /\ w.scrolled = 0 + k
                         /\ \A c \in Before(v) : Image(v, w, c, k)
    BY DEF Follows
  <1>2. w.scrolled = k
    BY <1>1
  <1> QED
    BY <1>1, <1>2 DEF Moves, Image

-----------------------------------------------------------------------------
(***************************************************************************)
(* linefeed, backspace and put_char of a printable character, one by one   *)
(* (print.c:33-84).                                                        *)
(***************************************************************************)
LEMMA LineFeedGood ==
    ASSUME NEW v, Good(v), InVideo(v)
    PROVE  Good(LineFeed(v)) /\ Follows(v, LineFeed(v))
  <1> DEFINE w == LineFeed(v)
             n == (v.cursor \div COLS + 1) * COLS
  <1>1. /\ v.cursor \in Nat /\ v.cursor < VIDEO /\ v.cells \in [Cells -> Chars]
        /\ v.scrolled \in Nat
        /\ v = [cursor |-> v.cursor, cells |-> v.cells,
                scrolled |-> v.scrolled]
    BY DEF Good, Screens, InVideo
  <1>2. /\ n \in v.cursor + 1 .. v.cursor + COLS
        /\ (v.cursor \div COLS) = ROWS - 1 =>
              n = SCREEN /\ SCREEN - COLS <= v.cursor /\ v.cursor < SCREEN
    BY <1>1, Rows
  <1>3. CASE (v.cursor \div COLS) = ROWS - 1
    <2>1. w = [cursor |-> n, cells |-> Scrolled(v.cells),
               scrolled |-> v.scrolled + 1]
      <3> DEFINE sc == Scrolled(v.cells)
                 up == v.scrolled + 1
      <3>1. ScrollScreen(v) =
              [cursor |-> v.cursor, cells |-> sc, scrolled |-> up]
        <4>1. ScrollScreen(v) = [v EXCEPT !.cells = sc, !.scrolled = up]
          BY DEF ScrollScreen
        <4> HIDE DEF sc, up
        <4> QED
          BY <1>1, <4>1
      <3>2. w = [ScrollScreen(v) EXCEPT !.cursor = n]
        BY <1>3 DEF LineFeed
      <3> QED
        BY <3>1, <3>2
    <2>2. /\ w.cursor = n /\ w.cells = Scrolled(v.cells)
          /\ w.scrolled = v.scrolled + 1
      BY <2>1
    <2>3. w \in Screens
      BY <1>1, <1>2, <2>1, ScrollMoves, Sizes DEF Screens
    <2> HIDE DEF w, n
    <2>4. Ahead(w)
      BY <1>2, <1>3, <2>2, Sizes DEF Ahead
    <2>5. \A c \in COLS .. SCREEN - 1 : w.cells[c - COLS] = v.cells[c]
      BY <1>1, <2>2, ScrollMoves
    <2>6. Follows(v, w)
      BY <1>1, <1>2, <1>3, <2>2, <2>5, FollowsScrolled, Sizes
    <2> QED
      BY <2>3, <2>4, <2>6 DEF Good, w
  <1>4. CASE (v.cursor \div COLS) # ROWS - 1
    <2>1. w = [cursor |-> n, cells |-> v.cells, scrolled |-> v.scrolled]
      BY <1>1, <1>4 DEF LineFeed
    <2>2. w.cursor = n /\ w.cells = v.cells /\ w.scrolled = v.scrolled
      BY <2>1
    <2>3. w \in Screens
      BY <1>1, <1>2, <2>1, Sizes DEF Screens
    <2> HIDE DEF w, n
    <2>4. Ahead(w)
      BY <1>1, <1>2, <2>2, Sizes DEF Ahead, Good
    <2>5. \A c \in Before(v) : c < w.cursor /\ w.cells[c] = v.cells[c]
      BY <1>1, <1>2, <2>2, Sizes DEF Before
    <2>6. Follows(v, w)
      BY <1>1, <2>2, <2>5, FollowsUnscrolled
    <2> QED
      BY <2>3, <2>4, <2>6 DEF Good, w
  <1> QED
    BY <1>3, <1>4

LEMMA BackspaceGood ==
    ASSUME NEW v, Good(v), InVideo(v), v.scrolled = 0
    PROVE  Good(Backspace(v)) /\ Moves(v, Backspace(v))
  <1>1. /\ v.cursor \in Nat /\ v.cursor < VIDEO /\ v.cells \in [Cells -> Chars]
        /\ Ahead(v)
        /\ v = [cursor |-> v.cursor, cells |-> v.cells,
                scrolled |-> v.scrolled]
    BY DEF Good, Screens, InVideo
  <1>2. Blank \in Chars
    BY DEF Chars, Ascii, Blank
  <1>3. CASE v.cursor = 0
    <2>1. Backspace(v) = v
      BY <1>3 DEF Backspace
    <2>2. Moves(v, v)
      BY <1>3 DEF Moves, Before
    <2> QED
      BY <2>1, <2>2
  <1>4. CASE v.cursor # 0
    <2> DEFINE w == Backspace(v)
    <2>1. v.cursor - 1 \in Cells
      BY <1>1, <1>4, Sizes DEF Cells
    <2>2. w = [cursor   |-> v.cursor - 1,
               cells    |-> [v.cells EXCEPT ![v.cursor - 1] = Blank],
               scrolled |-> 0]
      BY <1>1, <1>4 DEF Backspace
    <2>3. /\ w.cursor = v.cursor - 1 /\ w.scrolled = 0
          /\ w.cells = [v.cells EXCEPT ![v.cursor - 1] = Blank]
      BY <2>2
    <2>4. w \in Screens
      <3>1. [v.cells EXCEPT ![v.cursor - 1] = Blank] \in [Cells -> Chars]
        BY <1>1, <1>2, <2>1
      <3> QED
        BY <1>1, <1>4, <2>2, <3>1, Sizes DEF Screens
    <2> HIDE DEF w
    <2>5. /\ w.cells[v.cursor - 1] = Blank
          /\ \A c \in Cells : c # v.cursor - 1 => w.cells[c] = v.cells[c]
      BY <1>1, <2>3, <2>1
    <2>6. Ahead(w)
      <3>1. \A c \in w.cursor .. SCREEN - COLS - 1 :
               /\ c \in Cells
               /\ c # v.cursor - 1 => c \in v.cursor .. SCREEN - COLS - 1
        BY <1>1, <1>4, <2>3, Sizes DEF Cells
      <3> QED
        BY <1>1, <2>5, <3>1 DEF Ahead
    <2>7. \A c \in Before(v) :
             /\ c \in Cells /\ c - 0 * COLS = c
             /\ c = v.cursor - 1 => c >= w.cursor
      BY <1>1, <1>4, <2>3, Sizes DEF Before, Cells
    <2>8. Moves(v, w)
      BY <2>3, <2>5, <2>7 DEF Moves
    <2> QED
      BY <2>4, <2>6, <2>8 DEF Good, w
  <1> QED
    BY <1>3, <1>4

LEMMA PutChar0Good ==
    ASSUME NEW v, Good(v), InVideo(v), NEW a \in Chars
    PROVE  Good(PutChar0(v, a)) /\ Follows(v, PutChar0(v, a))
  <1> DEFINE w == PutChar0(v, a)
             x == [v.cells EXCEPT ![v.cursor] = a]
  <1>1. /\ v.cursor \in Cells /\ v.cells \in [Cells -> Chars] /\ Ahead(v)
        /\ v.scrolled \in Nat
        /\ v = [cursor |-> v.cursor, cells |-> v.cells,
                scrolled |-> v.scrolled]
    BY Sizes DEF Good, Screens, InVideo, Cells
  <1>2. /\ x \in [Cells -> Chars]
        /\ \A c \in Cells : c # v.cursor => x[c] = v.cells[c]
    BY <1>1
  <1>3. CASE v.cursor = SCREEN
    <2>1. w = [cursor |-> SCREEN - COLS, cells |-> Scrolled(x),
               scrolled |-> v.scrolled + 1]
      BY <1>1, <1>3 DEF PutChar0, ScrollScreen, LAST_CURSOR
    <2>2. /\ w.cursor = SCREEN - COLS /\ w.cells = Scrolled(x)
          /\ w.scrolled = v.scrolled + 1
      BY <2>1
    <2>3. w \in Screens
      BY <1>1, <1>2, <2>1, ScrollMoves, Sizes DEF Screens
    <2> HIDE DEF w, x
    <2>4. Ahead(w)
      BY <2>2, Sizes DEF Ahead
    <2>5. ASSUME NEW c \in COLS .. SCREEN - 1
          PROVE  w.cells[c - COLS] = v.cells[c]
      <3>1. c \in Cells /\ c # v.cursor
        BY <1>3, <2>5, Sizes DEF Cells
      <3> QED
        BY <1>2, <2>2, <3>1, ScrollMoves
    <2>6. w.cursor \in Nat /\ SCREEN - COLS <= w.cursor
      BY <2>2, Sizes
    <2>7. Follows(v, w)
      BY <1>1, <2>2, <2>5, <2>6, FollowsScrolled
    <2> QED
      BY <2>3, <2>4, <2>7 DEF Good, w
  <1>4. CASE v.cursor # SCREEN
    <2>1. w = [cursor |-> v.cursor + 1, cells |-> x, scrolled |-> v.scrolled]
      BY <1>1, <1>4 DEF PutChar0, LAST_CURSOR
    <2>2. w.cursor = v.cursor + 1 /\ w.cells = x /\ w.scrolled = v.scrolled
      BY <2>1
    <2>3. w \in Screens
      BY <1>1, <1>2, <2>1, Sizes DEF Screens, Cells
    <2> HIDE DEF w, x
    <2>4. Ahead(w)
      <3>1. \A c \in w.cursor .. SCREEN - COLS - 1 :
               /\ c \in v.cursor .. SCREEN - COLS - 1
               /\ c \in Cells /\ c # v.cursor
        BY <1>1, <2>2, Sizes DEF Cells
      <3> QED
        BY <1>1, <1>2, <2>2, <3>1 DEF Ahead
    <2>5. \A c \in Before(v) : c < w.cursor /\ c \in Cells /\ c # v.cursor
      BY <1>1, <2>2, Sizes DEF Before, Cells
    <2>6. \A c \in Before(v) : c < w.cursor /\ w.cells[c] = v.cells[c]
      BY <1>2, <2>2, <2>5
    <2>7. Follows(v, w)
      BY <1>1, <2>2, <2>6, FollowsUnscrolled
    <2> QED
      BY <2>3, <2>4, <2>7 DEF Good, w
  <1> QED
    BY <1>3, <1>4

(***************************************************************************)
(* Every character but a backspace, which no message has.                  *)
(***************************************************************************)
LEMMA PrintCharGood ==
    ASSUME NEW v, Good(v), InVideo(v), NEW a \in Ascii \ {"BS"}
    PROVE  Good(PutChar(v, a)) /\ Follows(v, PutChar(v, a))
  <1>1. CASE a = "LF"
    <2>1. PutChar(v, a) = LineFeed(v)
      BY <1>1 DEF PutChar
    <2> QED
      BY <2>1, LineFeedGood
  <1>2. CASE a # "LF"
    <2>1. a \in Chars /\ PutChar(v, a) = PutChar0(v, a)
      BY <1>2 DEF PutChar, Chars
    <2> QED
      BY <2>1, PutChar0Good
  <1> QED
    BY <1>1, <1>2

(***************************************************************************)
(* A key is one character.                                                 *)
(***************************************************************************)
LEMMA PutCharGood ==
    ASSUME NEW v, Good(v), InVideo(v), v.scrolled = 0, NEW a \in Ascii
    PROVE  Good(PutChar(v, a)) /\ Moves(v, PutChar(v, a))
  <1>1. CASE a = "BS"
    <2>1. PutChar(v, a) = Backspace(v)
      BY <1>1 DEF PutChar
    <2> QED
      BY <2>1, BackspaceGood
  <1>2. CASE a # "BS"
    BY <1>2, PrintCharGood, FollowsMoves
  <1> QED
    BY <1>1, <1>2

-----------------------------------------------------------------------------
(***************************************************************************)
(* The next character of a message, and print as a whole, by a least       *)
(* character at which it would fail.                                       *)
(***************************************************************************)
LEMMA StepPrints ==
    ASSUME NEW v, v.scrolled \in Nat, NEW w, Good(w), Follows(v, w),
           NEW a \in Ascii \ {"BS"}
    PROVE  Good(Step(w, a)) /\ Follows(v, Step(w, a))
  <1>1. CASE ~InVideo(w)
    BY <1>1 DEF Step
  <1>2. CASE InVideo(w)
    <2>1. Step(w, a) = PutChar(w, a)
      BY <1>2 DEF Step
    <2>2. Good(PutChar(w, a)) /\ Follows(w, PutChar(w, a))
      BY <1>2, PrintCharGood
    <2>3. w.cursor \in Nat
      BY DEF Good, Screens
    <2> QED
      BY <2>1, <2>2, <2>3, FollowsTransitive
  <1> QED
    BY <1>1, <1>2

LEMMA PrintedGood ==
    ASSUME NEW v, Good(v), v.scrolled = 0, NEW s \in Messages
    PROVE  Good(Printed(v, s)) /\ Moves(v, Printed(v, s))
  <1>1. s \in Seq({"p", "LF"}) /\ Len(s) \in Nat
    BY TerminalAssumption
  <1>2. \A k \in 1 .. Len(s) : s[k] \in Ascii \ {"BS"}
    <2>1. "p" \in Ascii \ {"BS"} /\ "LF" \in Ascii \ {"BS"}
      BY DEF Ascii, Blank
    <2> QED
      BY <1>1, <2>1
  <1> DEFINE f == Prints(v, s)
             OK(w) == Good(w) /\ Follows(v, w)
  <1>3. f = [k \in 0 .. Len(s) |-> IF k = 0 THEN v ELSE Step(f[k - 1], s[k])]
    BY <1>1, PrintsIs DEF PrintFcn
  <1> HIDE DEF f
  <1>4. /\ f[0] = v
        /\ \A k \in 1 .. Len(s) : f[k] = Step(f[k - 1], s[k])
    BY <1>1, <1>3
  <1>5. OK(v)
    <2>1. \A c \in Before(v) : c < v.cursor /\ v.cells[c] = v.cells[c]
      BY DEF Before
    <2> QED
      BY <2>1, FollowsUnscrolled
  <1> DEFINE Bad == {k \in 0 .. Len(s) : ~OK(f[k])}
  <1>6. Bad = {}
    <2>1. SUFFICES ASSUME Bad # {} PROVE FALSE
      OBVIOUS
    <2>2. PICK k \in Bad : \A y \in Bad : k <= y
      <3>1. Bad \in SUBSET Nat
        BY <1>1
      <3> QED
        BY <2>1, <3>1, LeastNumber
    <2>3. k \in 1 .. Len(s)
      BY <1>1, <1>4, <1>5, <2>2
    <2>4. OK(f[k - 1])
      BY <1>1, <2>2, <2>3
    <2>5. OK(Step(f[k - 1], s[k]))
      BY <1>2, <2>3, <2>4, StepPrints
    <2> QED
      BY <1>4, <2>2, <2>3, <2>5
  <1>7. Len(s) \in 0 .. Len(s)
    BY <1>1
  <1>8. OK(Printed(v, s))
    BY <1>6, <1>7 DEF Printed, f
  <1> QED
    BY <1>8, FollowsMoves

(***************************************************************************)
(* The inductive invariant.                                                *)
(***************************************************************************)
IInv == TypeOK /\ Ahead(video)

(***************************************************************************)
(* It says of the video memory what the lemmas above need, also when the   *)
(* count of scrolled rows starts again.                                    *)
(***************************************************************************)
LEMMA IInvGood == IInv => Good(video)
  BY DEF IInv, TypeOK, Good, Screens, Cells, Chars

LEMMA EntryGood ==
    ASSUME IInv
    PROVE  /\ Good(AtEntry) /\ AtEntry.scrolled = 0
           /\ AtEntry.cursor = video.cursor /\ AtEntry.cells = video.cells
           /\ InVideo(video) => InVideo(AtEntry)
           /\ AtEntry = [cursor |-> video.cursor, cells |-> video.cells,
                         scrolled |-> 0]
  <1>1. Good(video)
    BY IInvGood
  <1>2. AtEntry = [cursor |-> video.cursor, cells |-> video.cells,
                   scrolled |-> 0]
    BY <1>1 DEF AtEntry, Good, Screens
  <1>3. /\ AtEntry.cursor = video.cursor /\ AtEntry.cells = video.cells
        /\ AtEntry.scrolled = 0
    BY <1>2
  <1>4. AtEntry \in Screens
    BY <1>1, <1>2 DEF Good, Screens
  <1> QED
    BY <1>1, <1>2, <1>3, <1>4 DEF Good, Ahead, InVideo

(***************************************************************************)
(* How far the text has moved does not depend on that count either.        *)
(***************************************************************************)
LEMMA MovesFromEntry ==
    ASSUME IInv, NEW w, Moves(AtEntry, w)
    PROVE  Moves(video, w)
  BY EntryGood DEF Moves, Before

-----------------------------------------------------------------------------
(***************************************************************************)
(* The invariant holds at first, and every step keeps it and moves text up *)
(* as far as rows were scrolled.                                           *)
(***************************************************************************)
LEMMA InitGood == Init => IInv
  <1> SUFFICES ASSUME Init PROVE IInv
    OBVIOUS
  <1>1. Blank \in Chars
    BY DEF Chars, Ascii, Blank
  <1>2. /\ video = [cursor |-> 0, cells |-> [c \in Cells |-> Blank],
                    scrolled |-> 0]
        /\ offset \in RamOffsets /\ status_shift \in BOOLEAN
    BY DEF Init, Cleared, Cells
  <1>3. video \in Screens
    BY <1>1, <1>2, Sizes DEF Screens
  <1>4. Ahead(video)
    BY <1>2, Sizes DEF Ahead, Cells
  <1>5. \E o \in RamOffsets \cup {BUFFERSIZE} : offset \in 0 .. o
    BY <1>2, TerminalAssumption
  <1>6. /\ keyBuffer \in [0 .. BUFFERSIZE -> Ascii \cup {Behind}]
        /\ keyBuffer[BUFFERSIZE] = Behind
    BY TerminalAssumption DEF Init
  <1> QED
    BY <1>2, <1>3, <1>4, <1>5, <1>6 DEF IInv, TypeOK, Screens, Cells, Chars

LEMMA StoreKeyGood ==
    ASSUME IInv, NEW a \in Ascii, StoreKey(a)
    PROVE  /\ \E o \in RamOffsets \cup {BUFFERSIZE} : offset' \in 0 .. o
           /\ keyBuffer' \in [0 .. BUFFERSIZE -> Ascii \cup {Behind}]
           /\ keyBuffer'[BUFFERSIZE] = Behind
  <1>1. PICK o \in RamOffsets \cup {BUFFERSIZE} : offset \in 0 .. o
    BY DEF IInv, TypeOK
  <1>2. /\ o \in Nat /\ BUFFERSIZE \in Nat
        /\ keyBuffer \in [0 .. BUFFERSIZE -> Ascii \cup {Behind}]
        /\ keyBuffer[BUFFERSIZE] = Behind
    BY TerminalAssumption DEF IInv, TypeOK
  <1>3. CASE /\ UNCHANGED keyBuffer
             /\ offset' = offset \/ (offset # 0 /\ offset' = offset - 1)
    <2>1. offset' \in 0 .. o
      BY <1>1, <1>2, <1>3
    <2> QED
      BY <1>2, <1>3, <2>1
  <1>4. CASE /\ offset < BUFFERSIZE /\ offset' = offset + 1
             /\ keyBuffer' = [keyBuffer EXCEPT ![offset] = a]
    <2>1. offset' \in 0 .. BUFFERSIZE
      BY <1>1, <1>2, <1>4
    <2>2. offset # BUFFERSIZE /\ BUFFERSIZE \in 0 .. BUFFERSIZE
      BY <1>1, <1>2, <1>4
    <2>3. keyBuffer'[BUFFERSIZE] = Behind
      BY <1>2, <1>4, <2>2
    <2>4. keyBuffer' \in [0 .. BUFFERSIZE -> Ascii \cup {Behind}]
      BY <1>2, <1>4
    <2> QED
      BY <2>1, <2>3, <2>4
  <1>5. ~(offset >= BUFFERSIZE) => offset < BUFFERSIZE
    BY <1>1, <1>2
  <1> QED
    BY <1>3, <1>4, <1>5 DEF StoreKey

LEMMA KeyGood ==
    ASSUME IInv, NEW code \in Codes, Key(code)
    PROVE  IInv' /\ Moves(video, video')
  <1>1. Good(AtEntry) /\ AtEntry.scrolled = 0 /\ InVideo(AtEntry)
    BY EntryGood DEF Key
  <1>2. PICK a \in Characters(code) :
           IF a = "NUL"
           THEN video' = AtEntry /\ UNCHANGED <<keyBuffer, offset>>
           ELSE video' = PutChar(AtEntry, a) /\ StoreKey(a)
    BY DEF Key
  <1>3. a \in Ascii
    BY DEF Characters, Codes, keymap, keymaps, Ascii, Blank
  <1>4. status_shift' \in BOOLEAN
    BY DEF Key, Shifted, IInv, TypeOK
  <1>5. Good(video') /\ Moves(AtEntry, video')
    <2>1. CASE a = "NUL"
      <3>1. \A c \in Before(AtEntry) : c - 0 * COLS = c
        BY Sizes DEF Before
      <3>2. Moves(AtEntry, AtEntry)
        BY <1>1, <3>1 DEF Moves
      <3> QED
        BY <1>1, <1>2, <2>1, <3>2
    <2>2. CASE a # "NUL"
      BY <1>1, <1>2, <1>3, <2>2, PutCharGood
    <2> QED
      BY <2>1, <2>2
  <1>6. /\ \E o \in RamOffsets \cup {BUFFERSIZE} : offset' \in 0 .. o
        /\ keyBuffer' \in [0 .. BUFFERSIZE -> Ascii \cup {Behind}]
        /\ keyBuffer'[BUFFERSIZE] = Behind
    <2>1. CASE a = "NUL"
      BY <1>2, <2>1 DEF IInv, TypeOK
    <2>2. CASE a # "NUL"
      BY <1>2, <1>3, <2>2, StoreKeyGood
    <2> QED
      BY <2>1, <2>2
  <1>7. IInv'
    BY <1>4, <1>5, <1>6 DEF IInv, TypeOK, Good, Screens, Cells, Chars
  <1> QED
    BY <1>5, <1>7, MovesFromEntry

LEMMA PrintMessageGood ==
    ASSUME IInv, PrintMessage
    PROVE  IInv' /\ Moves(video, video')
  <1>1. PICK s \in Messages : video' = Printed(AtEntry, s)
    BY DEF PrintMessage
  <1>2. Good(video') /\ Moves(AtEntry, video')
    BY <1>1, EntryGood, PrintedGood
  <1>3. IInv'
    BY <1>2 DEF PrintMessage, IInv, TypeOK, Good, Screens, Cells, Chars
  <1> QED
    BY <1>2, <1>3, MovesFromEntry

LEMMA ClearScreenGood ==
    ASSUME IInv, ClearScreen
    PROVE  IInv' /\ Moves(video, video')
  <1>1. /\ video.cells \in [Cells -> Chars] /\ Blank \in Chars
    BY IInvGood DEF Good, Screens, Chars, Ascii, Blank
  <1>2. video' = [cursor |-> 0, cells |-> ClearCells(video.cells),
                  scrolled |-> 0]
    BY EntryGood DEF ClearScreen
  <1>3. /\ ClearCells(video.cells) \in [Cells -> Chars]
        /\ \A c \in Cells : c < SCREEN => ClearCells(video.cells)[c] = Blank
    BY <1>1 DEF ClearCells
  <1>4. Good(video')
    <2>1. video' \in Screens
      BY <1>2, <1>3, Sizes DEF Screens
    <2>2. /\ video'.cursor = 0 /\ video'.cells = ClearCells(video.cells)
          /\ video'.scrolled = 0
      BY <1>2
    <2>3. Ahead(video')
      BY <1>3, <2>2, Sizes DEF Ahead, Cells
    <2> QED
      BY <2>1, <2>3 DEF Good
  <1>5. Moves(video, video')
    <2>1. video'.cursor = 0 /\ video'.scrolled = 0
      BY <1>2
    <2> QED
      BY <2>1, Sizes DEF Moves, Before
  <1> QED
    BY <1>4, <1>5 DEF ClearScreen, IInv, TypeOK, Good, Screens, Cells, Chars

LEMMA Inductive == IInv /\ [Next]_vars => IInv' /\ [Moves(video, video')]_vars
  <1> SUFFICES ASSUME IInv, [Next]_vars
               PROVE  IInv' /\ [Moves(video, video')]_vars
    OBVIOUS
  <1>1. CASE UNCHANGED vars
    BY <1>1 DEF vars, IInv, TypeOK, Ahead
  <1>2. CASE Next
    BY <1>2, KeyGood, PrintMessageGood, ClearScreenGood DEF Next
  <1> QED
    BY <1>1, <1>2

-----------------------------------------------------------------------------
(***************************************************************************)
(* Type correctness: handleCode never writes behind the end of the         *)
(* keyboard buffer, and no character leaves the cursor more than a row     *)
(* behind the video memory.                                                *)
(***************************************************************************)
THEOREM TerminalTypes == Spec => []TypeOK
  <1>1. IInv => TypeOK
    BY DEF IInv
  <1>2. IInv /\ [Next]_vars => IInv'
    BY Inductive
  <1> QED
    BY <1>1, <1>2, InitGood, PTL DEF Spec

(***************************************************************************)
(* print.c:33-84: above the last row, nothing is left over from the cursor *)
(* on, whatever was typed, erased, printed and scrolled before.            *)
(***************************************************************************)
THEOREM TerminalAheadIsBlank == Spec => []AheadIsBlank
  <1>1. IInv => AheadIsBlank
    BY DEF IInv, Ahead, AheadIsBlank
  <1>2. IInv /\ [Next]_vars => IInv'
    BY Inductive
  <1> QED
    BY <1>1, <1>2, InitGood, PTL DEF Spec

(***************************************************************************)
(* print.c:33-111: what is on the screen before the cursor is never        *)
(* overwritten, neither by an echoed key nor by what a handler prints in   *)
(* between, of any length and any number of lines; it moves up by as many  *)
(* rows as are scrolled.                                                   *)
(***************************************************************************)
THEOREM TerminalTextOnlyMovesUp == Spec => TextOnlyMovesUp
  <1>1. IInv /\ [Next]_vars =>
          [LET k == video'.scrolled
           IN  \A c \in Before(video) :
                  \/ c < k * COLS
                  \/ k = 0 /\ c >= video'.cursor
                  \/ video'.cells[c - k * COLS] = video.cells[c]]_vars
    BY Inductive DEF Moves
  <1>2. IInv /\ [Next]_vars => IInv'
    BY Inductive
  <1> QED
    BY <1>1, <1>2, InitGood, PTL DEF Spec, TextOnlyMovesUp
=============================================================================
