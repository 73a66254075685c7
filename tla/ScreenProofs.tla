---------------------------- MODULE ScreenProofs ----------------------------
(***************************************************************************)
(* Proofs about what is on a screen.  The emulator of nbs-ts-render: the   *)
(* cursor, the saved cursor, the scrolling region, the tab stops and the   *)
(* parameters stay within bounds, and no half of a wide character is left  *)
(* unless a row was shifted or its last column blanked, for every size of  *)
(* the screen and of a cell, and every number of parameters; a character   *)
(* aborts the program only on a screen of one column.  The line and paste  *)
(* editors of nbs-chat-terminal: the cursor is in the text and in the      *)
(* window, and the arrows go one line, for every text and every window.    *)
(***************************************************************************)
EXTENDS Screen, LineEditor, FiniteSetTheorems, WellFoundedInduction, TLAPS

\* A nonempty set of naturals has a least element.
LEMMA LeastNatural ==
    ASSUME NEW T \in SUBSET Nat, T # {}
    PROVE  \E n \in T : \A m \in T : n =< m
  <1> DEFINE U == {1 .. n : n \in T}
  <1>1. U \subseteq FiniteSubsetsOf(Nat)
    <2>1. \A n \in T : IsFiniteSet(1 .. n) /\ 1 .. n \subseteq Nat
      BY FS_Interval
    <2> QED BY <2>1 DEF FiniteSubsetsOf
  <1>2. U # {}
    OBVIOUS
  <1>3. IsWellFoundedOn(StrictSubsetOrdering(Nat), FiniteSubsetsOf(Nat))
    BY FS_StrictSubsetOrderingWellFounded
  <1>4. \E x \in U : \A y \in U : ~ (<<y, x>> \in StrictSubsetOrdering(Nat))
    <2> HIDE DEF U
    <2> QED BY <1>1, <1>2, <1>3, WFMin
  <1>5. PICK n \in T : \A m \in T : ~ (<<1 .. m, 1 .. n>> \in StrictSubsetOrdering(Nat))
    BY <1>4
  <1>6. ASSUME NEW m \in T, m < n PROVE FALSE
    <2>1. 1 .. m \subseteq 1 .. n /\ 1 .. m # 1 .. n
      BY <1>6
    <2>2. 1 .. m \in SUBSET Nat /\ 1 .. n \in SUBSET Nat
      OBVIOUS
    <2> QED BY <1>5, <2>1, <2>2 DEF StrictSubsetOrdering
  <1> QED BY <1>6

\* A set of numbers up to n that holds 0, and with each number the next, holds all.
LEMMA UpTo ==
    ASSUME NEW n \in Nat, NEW T, 0 \in T, \A i \in 1 .. n : i - 1 \in T => i \in T
    PROVE  \A i \in 0 .. n : i \in T
  <1> DEFINE F == {i \in 0 .. n : i \notin T}
  <1>1. SUFFICES ASSUME F # {} PROVE FALSE
    OBVIOUS
  <1>2. F \in SUBSET Nat
    OBVIOUS
  <1>3. PICK i \in F : \A m \in F : i =< m
    <2> HIDE DEF F
    <2> QED BY <1>1, <1>2, LeastNatural
  <1>4. i \in 1 .. n
    OBVIOUS
  <1>5. i - 1 \notin F
    BY <1>3, <1>4
  <1>6. i - 1 \in T
    BY <1>4, <1>5
  <1> QED BY <1>4, <1>6



-----------------------------------------------------------------------------
(***************************************************************************)
(* The screen.                                                             *)
(***************************************************************************)

\* A wide character has bytes.
Cell == {x \in [len : Int, wide : BOOLEAN] : x.wide => x.len > 0}
Row == [Columns -> Cell]

\* Both halves of the wide characters of a row are there.
RowWhole(line) ==
    \A c \in Columns :
        /\ line[c].len = -1 => c > 0 /\ line[c - 1].wide
        /\ line[c].wide => c + 1 < COLS /\ line[c + 1].len = -1

\* What a private or intermediate byte, and a byte of a character, may be.
Intermediates == {"none", "?", "("}
Parts == {"wide", "mark", "cont"}

ParserStates == {"GROUND", "ESC", "ESC_INTER", "CSI_PARAM", "CSI_INTER", "OSC", "DCS"}

Emulator ==
    [cells : [Lines -> Row], row : Lines, col : Columns,
     state : ParserStates \cup {"ABORTED"},
     params : Seq(Nat), val : Nat, has : BOOLEAN, inter : Intermediates,
     top : Lines, bot : Lines, pending : BOOLEAN, saved : Lines \X Columns,
     utf8 : Seq(Parts), tabs : SUBSET Columns, split : BOOLEAN]

\* The state of the emulator: its rows are whole unless a character was split.
Good(t) ==
    /\ t \in Emulator
    /\ t.top =< t.bot /\ (t.top = t.bot => ROWS = 1)
    /\ t.state = "ABORTED" => COLS = 1
    /\ Len(t.params) =< MAX_PARAMS
    /\ t.utf8 # <<>> => t.state = "GROUND" /\ t.utf8[1] \in Leads
    /\ ~t.split => \A r \in Lines : RowWhole(t.cells[r])

LEMMA Sizes ==
    /\ ROWS \in Nat /\ ROWS > 0 /\ COLS \in Nat /\ COLS > 0
    /\ Lines = 0 .. ROWS - 1 /\ Columns = 0 .. COLS - 1
  BY ScreenAssumption DEF Lines, Columns

LEMMA BlankFacts ==
    /\ Blank \in Cell /\ RightHalf \in Cell /\ BlankRow \in Row /\ RowWhole(BlankRow)
    /\ Blank.len = 0 /\ ~Blank.wide /\ RightHalf.len = -1 /\ ~RightHalf.wide
  <1>1. Blank.len = 0 /\ Blank.wide = FALSE /\ RightHalf.len = -1 /\ RightHalf.wide = FALSE
    BY DEF Blank, RightHalf
  <1>2. FALSE \in BOOLEAN /\ 0 \in Int /\ -1 \in Int
    OBVIOUS
  <1>3. Blank \in Cell /\ RightHalf \in Cell
    BY <1>1, <1>2 DEF Cell, Blank, RightHalf
  <1>4. BlankRow \in Row
    BY <1>3 DEF BlankRow, Row
  <1>5. RowWhole(BlankRow)
    <2>1. \A c \in Columns : BlankRow[c] = Blank
      BY DEF BlankRow
    <2> QED BY <2>1, <1>1 DEF RowWhole
  <1> QED BY <1>1, <1>3, <1>4, <1>5

\* Clearing a cell with clear_wide_cell leaves the row whole.
LEMMA WideClearedRow ==
    ASSUME NEW line \in Row, NEW c \in Columns
    PROVE  /\ WideCleared(line, c) \in Row /\ WideCleared(line, c)[c] = Blank
           /\ \A x \in Columns : line[x] = Blank => WideCleared(line, c)[x] = Blank
           /\ RowWhole(line) => RowWhole(WideCleared(line, c))
  <1> DEFINE gone == IF line[c].len = -1 THEN {c, c - 1}
                     ELSE IF line[c].len > 0 /\ c + 1 < COLS /\ line[c + 1].len = -1
                          THEN {c, c + 1} ELSE {c}
             new == [x \in Columns |-> IF x \in gone THEN Blank ELSE line[x]]
  <1>1. WideCleared(line, c) = new
    BY DEF WideCleared
  <1>2. c \in gone
    OBVIOUS
  <1>3. \A x \in Columns : new[x] = IF x \in gone THEN Blank ELSE line[x]
    OBVIOUS
  <1>4. new \in Row
    <2> HIDE DEF gone
    <2> QED BY BlankFacts DEF Row
  <1>5. ASSUME RowWhole(line) PROVE RowWhole(new)
    <2> SUFFICES ASSUME NEW d \in Columns
                 PROVE  /\ new[d].len = -1 => d > 0 /\ new[d - 1].wide
                        /\ new[d].wide => d + 1 < COLS /\ new[d + 1].len = -1
      BY DEF RowWhole
    <2>1. /\ line[d].len = -1 => d > 0 /\ line[d - 1].wide
          /\ line[d].wide => d + 1 < COLS /\ line[d + 1].len = -1
          /\ line[c].len = -1 => c > 0 /\ line[c - 1].wide
      BY <1>5 DEF RowWhole
    <2>2. \A x \in Columns : line[x].wide => line[x].len > 0 /\ line[x].len \in Int
      BY DEF Row, Cell
    <2>3. ASSUME new[d].len = -1 PROVE d > 0 /\ new[d - 1].wide
      <3>1. d \notin gone /\ line[d].len = -1
        BY <1>3, <2>3, BlankFacts
      <3>2. d > 0 /\ line[d - 1].wide /\ d - 1 \in Columns
        BY <2>1, <3>1, Sizes
      <3>3. d - 1 \notin gone
        <4>1. line[d - 1].len > 0 /\ line[d - 1].len # -1
          BY <2>2, <3>2
        <4>2. ASSUME d - 1 = c PROVE FALSE
          <5>1. d = c + 1 /\ c + 1 < COLS
            BY <4>2, Sizes
          <5> QED BY <5>1, <3>1, <4>1, <4>2
        <4>3. ASSUME d - 1 = c - 1, line[c].len = -1 PROVE FALSE
          BY <4>3, <3>1, <1>2, Sizes
        <4>4. ASSUME d - 1 = c + 1, line[c].len > 0, line[c + 1].len = -1 PROVE FALSE
          BY <4>4, <4>1
        <4> QED BY <4>2, <4>3, <4>4
      <3>4. new[d - 1] = line[d - 1]
        BY <1>3, <3>2, <3>3
      <3> HIDE DEF new
      <3> QED BY <3>2, <3>4
    <2>4. ASSUME new[d].wide PROVE d + 1 < COLS /\ new[d + 1].len = -1
      <3>1. d \notin gone /\ line[d].wide
        BY <1>3, <2>4, BlankFacts
      <3>2. d + 1 < COLS /\ line[d + 1].len = -1 /\ d + 1 \in Columns
        BY <2>1, <3>1, Sizes
      <3>3. d + 1 \notin gone
        <4>1. ASSUME d + 1 = c PROVE FALSE
          <5>1. d = c - 1
            BY <4>1, Sizes
          <5> QED BY <5>1, <3>1, <3>2, <4>1
        <4>2. ASSUME d + 1 = c - 1, line[c].len = -1 PROVE FALSE
          <5>1. line[c - 1].wide
            BY <4>2, <2>1
          <5> QED BY <5>1, <4>2, <3>2, <2>2
        <4>3. ASSUME d + 1 = c + 1 PROVE FALSE
          BY <4>3, <3>1, <1>2, Sizes
        <4> QED BY <4>1, <4>2, <4>3
      <3>4. new[d + 1] = line[d + 1]
        BY <1>3, <3>2, <3>3
      <3> HIDE DEF new
      <3> QED BY <3>2, <3>4
    <2> QED BY <2>3, <2>4
  <1>6. new[c] = Blank /\ \A x \in Columns : line[x] = Blank => new[x] = Blank
    BY <1>2, <1>3
  <1> HIDE DEF new
  <1> QED BY <1>1, <1>4, <1>5, <1>6

-----------------------------------------------------------------------------
(* One field of the emulator changes. *)

LEMMA SetCells ==
    ASSUME NEW t, Good(t), NEW cells \in [Lines -> Row],
           ~t.split => \A r \in Lines : RowWhole(cells[r])
    PROVE  LET u == [t EXCEPT !.cells = cells]
           IN  Good(u) /\ u.cells = cells /\ u.row = t.row /\ u.col = t.col /\ u.split = t.split
  BY DEF Good, Emulator

LEMMA SetRow ==
    ASSUME NEW t, Good(t), NEW r \in Lines, NEW line \in Row, ~t.split => RowWhole(line)
    PROVE  LET u == [t EXCEPT !.cells[r] = line]
           IN  /\ Good(u) /\ u.row = t.row /\ u.col = t.col /\ u.split = t.split
               /\ u.cells = [t.cells EXCEPT ![r] = line]
  <1> DEFINE cells == [t.cells EXCEPT ![r] = line]
             u == [t EXCEPT !.cells[r] = line]
  <1>1. t.cells \in [Lines -> Row]
    BY DEF Good, Emulator
  <1>2. cells \in [Lines -> Row] /\ \A q \in Lines : cells[q] = IF q = r THEN line ELSE t.cells[q]
    BY <1>1
  <1>3. ~t.split => \A q \in Lines : RowWhole(cells[q])
    BY <1>2 DEF Good
  <1>4. u = [t EXCEPT !.cells = cells]
    OBVIOUS
  <1> HIDE DEF cells, u
  <1>5. Good(u) /\ u.cells = cells /\ u.row = t.row /\ u.col = t.col /\ u.split = t.split
    BY <1>2, <1>3, <1>4, SetCells
  <1> QED BY <1>5 DEF cells, u

LEMMA SetPlace ==
    ASSUME NEW t, Good(t), NEW r \in Lines, NEW c \in Columns
    PROVE  /\ Good([t EXCEPT !.row = r]) /\ [t EXCEPT !.row = r].col = t.col
           /\ Good([t EXCEPT !.col = c]) /\ [t EXCEPT !.col = c].col = c
           /\ [t EXCEPT !.col = c].row = t.row /\ [t EXCEPT !.row = r].row = r
  BY DEF Good, Emulator

LEMMA SetFirstColumn ==
    ASSUME NEW t, Good(t)
    PROVE  Good([t EXCEPT !.col = 0]) /\ [t EXCEPT !.col = 0].col = 0
  <1>1. 0 \in Columns
    BY ScreenAssumption DEF Columns
  <1> QED BY <1>1 DEF Good, Emulator

LEMMA SetPending ==
    ASSUME NEW t, Good(t), NEW p \in BOOLEAN
    PROVE  /\ Good([t EXCEPT !.pending = p]) /\ [t EXCEPT !.pending = p].col = t.col
           /\ [t EXCEPT !.pending = p].row = t.row
  BY DEF Good, Emulator

LEMMA SetSplit ==
    ASSUME NEW t, Good(t)
    PROVE  /\ Good([t EXCEPT !.split = TRUE]) /\ [t EXCEPT !.split = TRUE].col = t.col
           /\ [t EXCEPT !.split = TRUE].row = t.row /\ [t EXCEPT !.split = TRUE].split
           /\ [t EXCEPT !.split = TRUE].cells = t.cells
           /\ [t EXCEPT !.split = t.split] = t
  <1>1. TRUE \in BOOLEAN
    OBVIOUS
  <1> DEFINE u == [t EXCEPT !.split = TRUE]
  <1>2. u \in Emulator /\ u.split = TRUE /\ u.top = t.top /\ u.bot = t.bot /\ u.params = t.params
        /\ u.utf8 = t.utf8 /\ u.state = t.state /\ u.col = t.col /\ u.row = t.row /\ u.cells = t.cells
    BY <1>1 DEF Good, Emulator
  <1>3. [t EXCEPT !.split = t.split] = t
    BY DEF Good, Emulator
  <1> HIDE DEF u
  <1>4. Good(u)
    BY <1>2 DEF Good
  <1> QED BY <1>2, <1>3, <1>4 DEF u

LEMMA SetTabs ==
    ASSUME NEW t, Good(t), NEW T \in SUBSET Columns
    PROVE  Good([t EXCEPT !.tabs = T])
  BY DEF Good, Emulator

LEMMA SetRegionFields ==
    ASSUME NEW t, Good(t), NEW a \in Lines, NEW b \in Lines, a < b
    PROVE  Good([t EXCEPT !.top = a, !.bot = b])
  <1> DEFINE u == [t EXCEPT !.top = a, !.bot = b]
  <1>1. a =< b /\ a # b
    BY Sizes
  <1>2. u \in Emulator /\ u.top = a /\ u.bot = b /\ u.params = t.params /\ u.utf8 = t.utf8
        /\ u.state = t.state /\ u.split = t.split /\ u.cells = t.cells
    BY DEF Good, Emulator
  <1> HIDE DEF u
  <1>3. Good(u)
    BY <1>1, <1>2 DEF Good
  <1> QED BY <1>3 DEF u

LEMMA SetSaved ==
    ASSUME NEW t, Good(t), NEW s \in Lines \X Columns
    PROVE  Good([t EXCEPT !.saved = s])
  BY DEF Good, Emulator

\* What the handlers read.
LEMMA GoodFields ==
    ASSUME NEW t, Good(t)
    PROVE  /\ t.row \in Lines /\ t.col \in Columns /\ t.top \in Lines /\ t.bot \in Lines
           /\ t.top =< t.bot /\ t.cells \in [Lines -> Row] /\ t.tabs \subseteq Columns
           /\ t.split \in BOOLEAN /\ t.pending \in BOOLEAN
           /\ t.cells[t.row] \in Row /\ (~t.split => RowWhole(t.cells[t.row]))
           /\ t.row \in Int /\ t.col \in Int /\ t.top \in Int /\ t.bot \in Int
  <1>1. t \in Emulator
    BY DEF Good
  <1>2. t.row \in Lines /\ t.col \in Columns /\ t.top \in Lines /\ t.bot \in Lines
        /\ t.cells \in [Lines -> Row] /\ t.tabs \subseteq Columns
        /\ t.split \in BOOLEAN /\ t.pending \in BOOLEAN
    BY <1>1 DEF Emulator
  <1>3. t.row \in Int /\ t.col \in Int /\ t.top \in Int /\ t.bot \in Int
    BY <1>2, Sizes
  <1>4. t.cells[t.row] \in Row /\ (~t.split => RowWhole(t.cells[t.row])) /\ t.top =< t.bot
    BY <1>2 DEF Good
  <1> QED BY <1>2, <1>3, <1>4

-----------------------------------------------------------------------------
(* The rows that scroll, and the rows that are cleared. *)

LEMMA RowsFrom ==
    ASSUME NEW t, Good(t), NEW cells, cells = [r \in Lines |-> cells[r]],
           \A r \in Lines : cells[r] = BlankRow \/ \E q \in Lines : cells[r] = t.cells[q]
    PROVE  cells \in [Lines -> Row] /\ (~t.split => \A r \in Lines : RowWhole(cells[r]))
  <1>1. \A q \in Lines : t.cells[q] \in Row /\ (~t.split => RowWhole(t.cells[q]))
    BY GoodFields DEF Good
  <1>2. \A r \in Lines : cells[r] \in Row /\ (~t.split => RowWhole(cells[r]))
    BY <1>1, BlankFacts
  <1> QED BY <1>2

LEMMA ClearRowsGood ==
    ASSUME NEW t, Good(t), NEW S
    PROVE  /\ Good(clear_rows(t, S)) /\ clear_rows(t, S).row = t.row
           /\ clear_rows(t, S).col = t.col
  <1> DEFINE cells == [r \in Lines |-> IF r \in S THEN BlankRow ELSE t.cells[r]]
  <1>1. clear_rows(t, S) = [t EXCEPT !.cells = cells]
    BY DEF clear_rows
  <1>2. /\ cells = [r \in Lines |-> cells[r]]
        /\ \A r \in Lines : cells[r] = BlankRow \/ \E q \in Lines : cells[r] = t.cells[q]
    OBVIOUS
  <1> HIDE DEF cells
  <1>3. cells \in [Lines -> Row] /\ (~t.split => \A r \in Lines : RowWhole(cells[r]))
    BY <1>2, RowsFrom
  <1> QED BY <1>1, <1>3, SetCells

LEMMA ScrollGood ==
    ASSUME NEW t, Good(t), NEW a \in Lines, NEW b \in Lines, a =< b, NEW n \in Nat
    PROVE  /\ Good(scroll_up(t, a, b, n)) /\ scroll_up(t, a, b, n).row = t.row
           /\ scroll_up(t, a, b, n).col = t.col /\ scroll_up(t, a, b, n).split = t.split
           /\ Good(scroll_down(t, a, b, n)) /\ scroll_down(t, a, b, n).row = t.row
           /\ scroll_down(t, a, b, n).col = t.col
  <1> DEFINE k == AtMost(n, b - a + 1)
             up == [r \in Lines |-> IF r < a \/ r > b THEN t.cells[r]
                                    ELSE IF r <= b - k THEN t.cells[r + k] ELSE BlankRow]
             down == [r \in Lines |-> IF r < a \/ r > b THEN t.cells[r]
                                      ELSE IF r >= a + k THEN t.cells[r - k] ELSE BlankRow]
  <1>1. scroll_up(t, a, b, n) = [t EXCEPT !.cells = up]
    BY DEF scroll_up
  <1>2. scroll_down(t, a, b, n) = [t EXCEPT !.cells = down]
    BY DEF scroll_down
  <1>3. k \in Nat
    BY Sizes DEF AtMost
  <1> HIDE DEF k
  <1>4. \A r \in Lines : up[r] = BlankRow \/ \E q \in Lines : up[r] = t.cells[q]
    <2> TAKE r \in Lines
    <2>1. CASE ~(r < a \/ r > b) /\ r =< b - k
      <3>1. r + k \in Lines
        BY <2>1, <1>3, Sizes
      <3>2. up[r] = t.cells[r + k]
        BY <2>1
      <3> QED BY <3>1, <3>2
    <2>2. CASE ~(~(r < a \/ r > b) /\ r =< b - k)
      <3>1. up[r] = t.cells[r] \/ up[r] = BlankRow
        BY <2>2
      <3> QED BY <3>1
    <2> QED BY <2>1, <2>2
  <1>5. \A r \in Lines : down[r] = BlankRow \/ \E q \in Lines : down[r] = t.cells[q]
    <2> TAKE r \in Lines
    <2>1. CASE ~(r < a \/ r > b) /\ r >= a + k
      <3>1. r - k \in Lines
        BY <2>1, <1>3, Sizes
      <3>2. down[r] = t.cells[r - k]
        BY <2>1
      <3> QED BY <3>1, <3>2
    <2>2. CASE ~(~(r < a \/ r > b) /\ r >= a + k)
      <3>1. down[r] = t.cells[r] \/ down[r] = BlankRow
        BY <2>2
      <3> QED BY <3>1
    <2> QED BY <2>1, <2>2
  <1>6. up = [r \in Lines |-> up[r]] /\ down = [r \in Lines |-> down[r]]
    OBVIOUS
  <1> HIDE DEF up, down
  <1>7. up \in [Lines -> Row] /\ (~t.split => \A r \in Lines : RowWhole(up[r]))
    BY <1>4, <1>6, RowsFrom
  <1>8. down \in [Lines -> Row] /\ (~t.split => \A r \in Lines : RowWhole(down[r]))
    BY <1>5, <1>6, RowsFrom
  <1> QED BY <1>1, <1>2, <1>7, <1>8, SetCells

\* A line feed stays in the column.
LEMMA LinefeedGood ==
    ASSUME NEW t, Good(t)
    PROVE  Good(do_linefeed(t)) /\ do_linefeed(t).col = t.col /\ Good(do_reverse_linefeed(t))
  <1> DEFINE a == t.top
             b == t.bot
             down == AtMost(t.row + 1, ROWS - 1)
             up == Clamp(t.row - 1, 0, ROWS - 1)
  <1>1. a \in Lines /\ b \in Lines /\ a =< b /\ 1 \in Nat /\ t.row \in Int /\ t.row \in Lines
        /\ t.col \in Columns
    BY GoodFields
  <1>2. down \in Lines /\ up \in Lines
    BY <1>1, Sizes DEF AtMost, Clamp
  <1>3. do_linefeed(t) = IF t.row = b THEN scroll_up(t, a, b, 1) ELSE [t EXCEPT !.row = down]
    BY DEF do_linefeed
  <1>4. do_reverse_linefeed(t) = IF t.row = a THEN scroll_down(t, a, b, 1) ELSE [t EXCEPT !.row = up]
    BY DEF do_reverse_linefeed
  <1> HIDE DEF a, b, down, up
  <1>5. Good(scroll_up(t, a, b, 1)) /\ scroll_up(t, a, b, 1).col = t.col /\ Good(scroll_down(t, a, b, 1))
    BY <1>1, ScrollGood
  <1>6. Good([t EXCEPT !.row = down]) /\ [t EXCEPT !.row = down].col = t.col /\ Good([t EXCEPT !.row = up])
    BY <1>1, <1>2, SetPlace
  <1> QED BY <1>3, <1>4, <1>5, <1>6

-----------------------------------------------------------------------------
(* Characters. *)

LEMMA ClearWideGood ==
    ASSUME NEW t, Good(t), NEW r \in Lines, NEW c \in Columns
    PROVE  LET u == clear_wide_cell(t, r, c)
           IN  /\ Good(u) /\ u.row = t.row /\ u.col = t.col /\ u.split = t.split
               /\ u.cells[r] = WideCleared(t.cells[r], c)
  <1> DEFINE line == WideCleared(t.cells[r], c)
  <1>1. t.cells \in [Lines -> Row] /\ t.cells[r] \in Row /\ (~t.split => RowWhole(t.cells[r]))
    BY GoodFields DEF Good
  <1>2. line \in Row /\ (~t.split => RowWhole(line))
    BY <1>1, WideClearedRow
  <1>3. clear_wide_cell(t, r, c) = [t EXCEPT !.cells[r] = line]
    BY DEF clear_wide_cell
  <1> HIDE DEF line
  <1> DEFINE u == clear_wide_cell(t, r, c)
  <1>4. /\ Good(u) /\ u.row = t.row /\ u.col = t.col /\ u.split = t.split
        /\ u.cells = [t.cells EXCEPT ![r] = line]
    BY <1>2, <1>3, SetRow
  <1> HIDE DEF u
  <1>5. u.cells[r] = line
    BY <1>1, <1>4
  <1> QED BY <1>4, <1>5 DEF u, line

\* The wrap leaves the cursor on the screen.
LEMMA WrappedGood ==
    ASSUME NEW t, Good(t)
    PROVE  Good(Wrapped(t))
  <1>1. 0 \in Columns /\ t.row \in Lines
    BY Sizes, GoodFields
  <1> DEFINE u == [t EXCEPT !.col = 0]
             v == do_linefeed(u)
  <1>2. Good(u)
    BY <1>1, SetPlace
  <1> HIDE DEF u
  <1>3. Good(v)
    BY <1>2, LinefeedGood
  <1> HIDE DEF v
  <1>4. Good([v EXCEPT !.pending = FALSE])
    <2>1. FALSE \in BOOLEAN
      OBVIOUS
    <2> QED BY <1>3, <2>1, SetPending
  <1> QED BY <1>4 DEF Wrapped, u, v

\* A character of one column, over a cell that was cleared.
LEMMA NarrowRow ==
    ASSUME NEW line \in Row, NEW c \in Columns, line[c] = Blank, NEW n \in Nat \ {0}
    PROVE  /\ [line EXCEPT ![c] = [len |-> n, wide |-> FALSE]] \in Row
           /\ RowWhole(line) => RowWhole([line EXCEPT ![c] = [len |-> n, wide |-> FALSE]])
  <1> DEFINE x == [len |-> n, wide |-> FALSE]
             new == [line EXCEPT ![c] = x]
  <1>1. x \in Cell /\ x.len = n /\ x.wide = FALSE
    <2>1. FALSE \in BOOLEAN
      OBVIOUS
    <2> QED BY <2>1 DEF Cell
  <1> HIDE DEF x
  <1>2. new \in Row /\ new[c] = x /\ \A d \in Columns : d # c => new[d] = line[d]
    BY <1>1 DEF Row
  <1> HIDE DEF new
  <1>3. ASSUME RowWhole(line) PROVE RowWhole(new)
    <2> SUFFICES ASSUME NEW d \in Columns
                 PROVE  /\ new[d].len = -1 => d > 0 /\ new[d - 1].wide
                        /\ new[d].wide => d + 1 < COLS /\ new[d + 1].len = -1
      BY DEF RowWhole
    <2>1. /\ line[d].len = -1 => d > 0 /\ line[d - 1].wide
          /\ line[d].wide => d + 1 < COLS /\ line[d + 1].len = -1
      BY <1>3 DEF RowWhole
    <2>2. ASSUME new[d].len = -1 PROVE d > 0 /\ new[d - 1].wide
      <3>1. d # c /\ line[d].len = -1
        BY <2>2, <1>1, <1>2
      <3>2. d > 0 /\ line[d - 1].wide /\ d - 1 \in Columns
        BY <2>1, <3>1, Sizes
      <3>3. d - 1 # c
        BY <3>2, BlankFacts
      <3>4. new[d - 1] = line[d - 1]
        BY <3>2, <3>3, <1>2
      <3> QED BY <3>2, <3>4
    <2>3. ASSUME new[d].wide PROVE d + 1 < COLS /\ new[d + 1].len = -1
      <3>1. d # c /\ line[d].wide
        BY <2>3, <1>1, <1>2
      <3>2. d + 1 < COLS /\ line[d + 1].len = -1 /\ d + 1 \in Columns
        BY <2>1, <3>1, Sizes
      <3>3. d + 1 # c
        BY <3>2, BlankFacts
      <3>4. new[d + 1] = line[d + 1]
        BY <3>2, <3>3, <1>2
      <3> QED BY <3>2, <3>4
    <2> QED BY <2>2, <2>3
  <1> QED BY <1>2, <1>3 DEF new, x

\* A character of two columns, over two cells that were cleared.
LEMMA WideRow ==
    ASSUME NEW line \in Row, NEW c \in Columns, c + 1 \in Columns,
           line[c] = Blank, line[c + 1] = Blank, NEW n \in Nat \ {0}
    PROVE  LET new == [[line EXCEPT ![c] = [len |-> n, wide |-> TRUE]] EXCEPT ![c + 1] = RightHalf]
           IN  new \in Row /\ (RowWhole(line) => RowWhole(new))
  <1> DEFINE x == [len |-> n, wide |-> TRUE]
             new == [[line EXCEPT ![c] = x] EXCEPT ![c + 1] = RightHalf]
  <1>1. x \in Cell /\ x.len = n /\ x.wide = TRUE
    <2>1. TRUE \in BOOLEAN
      OBVIOUS
    <2> QED BY <2>1 DEF Cell
  <1> HIDE DEF x
  <1>0. c \in Int /\ c + 1 # c
    BY Sizes
  <1>2. /\ new \in Row /\ new[c] = x /\ new[c + 1] = RightHalf
        /\ \A d \in Columns : d # c /\ d # c + 1 => new[d] = line[d]
    BY <1>0, <1>1, BlankFacts DEF Row
  <1> HIDE DEF new
  <1>3. ASSUME RowWhole(line) PROVE RowWhole(new)
    <2> SUFFICES ASSUME NEW d \in Columns
                 PROVE  /\ new[d].len = -1 => d > 0 /\ new[d - 1].wide
                        /\ new[d].wide => d + 1 < COLS /\ new[d + 1].len = -1
      BY DEF RowWhole
    <2>1. /\ line[d].len = -1 => d > 0 /\ line[d - 1].wide
          /\ line[d].wide => d + 1 < COLS /\ line[d + 1].len = -1
      BY <1>3 DEF RowWhole
    <2>2. CASE d = c
      <3>1. new[d].len = n /\ d + 1 < COLS /\ new[d + 1].len = -1
        BY <2>2, <1>1, <1>2, BlankFacts, Sizes
      <3> QED BY <3>1
    <2>3. CASE d = c + 1
      <3>1. new[d] = RightHalf /\ d > 0 /\ d - 1 = c
        BY <2>3, <1>2, Sizes
      <3>2. new[d - 1].wide
        BY <3>1, <1>1, <1>2
      <3> QED BY <3>1, <3>2, BlankFacts
    <2>4. CASE d # c /\ d # c + 1
      <3>0. new[d] = line[d]
        BY <2>4, <1>2
      <3>1. ASSUME new[d].len = -1 PROVE d > 0 /\ new[d - 1].wide
        <4>1. d > 0 /\ line[d - 1].wide /\ d - 1 \in Columns
          BY <3>0, <3>1, <2>1, Sizes
        <4>2. d - 1 # c /\ d - 1 # c + 1
          BY <4>1, BlankFacts
        <4>3. new[d - 1] = line[d - 1]
          BY <4>1, <4>2, <1>2
        <4> QED BY <4>1, <4>3
      <3>2. ASSUME new[d].wide PROVE d + 1 < COLS /\ new[d + 1].len = -1
        <4>1. d + 1 < COLS /\ line[d + 1].len = -1 /\ d + 1 \in Columns
          BY <3>0, <3>2, <2>1, Sizes
        <4>2. d + 1 # c /\ d + 1 # c + 1
          BY <4>1, BlankFacts
        <4>3. new[d + 1] = line[d + 1]
          BY <4>1, <4>2, <1>2
        <4> QED BY <4>1, <4>3
      <3> QED BY <3>1, <3>2
    <2> QED BY <2>2, <2>3, <2>4
  <1> QED BY <1>2, <1>3 DEF new, x

LEMMA NarrowGood ==
    ASSUME NEW t, Good(t), NEW n \in Nat \ {0}
    PROVE  Good(put_narrow(t, n))
  <1> DEFINE t1 == Wrapped(t)
             v == clear_wide_cell(t1, t1.row, t1.col)
             t2 == [v EXCEPT !.cells[t1.row][t1.col] = [len |-> n, wide |-> FALSE]]
  <1>1. put_narrow(t, n) = IF t2.col >= COLS - 1 THEN [t2 EXCEPT !.pending = TRUE]
                           ELSE [t2 EXCEPT !.col = @ + 1]
    BY DEF put_narrow
  <1>2. Good(t1)
    BY WrappedGood
  <1> HIDE DEF t1
  <1>3. t1.row \in Lines /\ t1.col \in Columns /\ t1.cells[t1.row] \in Row
    BY <1>2, GoodFields
  <1>4. Good(v) /\ v.row = t1.row /\ v.col = t1.col /\ v.cells[t1.row] = WideCleared(t1.cells[t1.row], t1.col)
    BY <1>2, <1>3, ClearWideGood
  <1> HIDE DEF v
  <1> DEFINE line == v.cells[t1.row]
             new == [line EXCEPT ![t1.col] = [len |-> n, wide |-> FALSE]]
  <1>5. line \in Row /\ (~v.split => RowWhole(line)) /\ line[t1.col] = Blank
    <2>1. line[t1.col] = Blank
      BY <1>3, <1>4, WideClearedRow
    <2>2. v.cells[v.row] \in Row /\ (~v.split => RowWhole(v.cells[v.row]))
      BY <1>4, GoodFields
    <2> QED BY <2>1, <2>2, <1>4
  <1>6. t2 = [v EXCEPT !.cells[t1.row] = new]
    OBVIOUS
  <1> HIDE DEF line
  <1>7. new \in Row /\ (~v.split => RowWhole(new))
    BY <1>3, <1>5, NarrowRow
  <1> HIDE DEF new, t2
  <1>8. Good(t2)
    BY <1>3, <1>4, <1>6, <1>7, SetRow
  <1>9. t2.col \in Columns /\ t2.row \in Lines
    BY <1>8, GoodFields
  <1>10. Good([t2 EXCEPT !.pending = TRUE])
    <2>1. TRUE \in BOOLEAN
      OBVIOUS
    <2> QED BY <1>8, <2>1, SetPending
  <1>11. ASSUME ~(t2.col >= COLS - 1) PROVE Good([t2 EXCEPT !.col = @ + 1])
    <2> DEFINE c == t2.col + 1
    <2>1. c \in Columns
      BY <1>9, <1>11, Sizes
    <2>2. [t2 EXCEPT !.col = @ + 1] = [t2 EXCEPT !.col = c]
      OBVIOUS
    <2> HIDE DEF c
    <2>3. Good([t2 EXCEPT !.col = c])
      BY <1>8, <1>9, <2>1, SetPlace
    <2> QED BY <2>2, <2>3
  <1> QED BY <1>1, <1>10, <1>11

\* Room for a wide character: in the last column it wraps first, and blanks
\* the column, which splits a wide character that ends there.
Room(t1) ==
    IF t1.col < COLS - 1 THEN t1
    ELSE [do_linefeed([clear_cell(t1, t1.row, t1.col) EXCEPT !.col = 0])
              EXCEPT !.split = @ \/ (t1.cells[t1.row][t1.col].len = -1)]

\* Blanking the last column of a row.
LEMMA LastColumnRow ==
    ASSUME NEW line \in Row, NEW c \in Columns, c = COLS - 1
    PROVE  /\ [line EXCEPT ![c] = Blank] \in Row
           /\ RowWhole(line) /\ line[c].len # -1 => RowWhole([line EXCEPT ![c] = Blank])
  <1> DEFINE new == [line EXCEPT ![c] = Blank]
  <1>1. new \in Row /\ new[c] = Blank /\ \A d \in Columns : d # c => new[d] = line[d]
    BY BlankFacts DEF Row
  <1> HIDE DEF new
  <1>2. ASSUME RowWhole(line), line[c].len # -1 PROVE RowWhole(new)
    <2> SUFFICES ASSUME NEW d \in Columns
                 PROVE  /\ new[d].len = -1 => d > 0 /\ new[d - 1].wide
                        /\ new[d].wide => d + 1 < COLS /\ new[d + 1].len = -1
      BY DEF RowWhole
    <2>1. /\ line[d].len = -1 => d > 0 /\ line[d - 1].wide
          /\ line[d].wide => d + 1 < COLS /\ line[d + 1].len = -1
      BY <1>2 DEF RowWhole
    <2>2. ASSUME new[d].len = -1 PROVE d > 0 /\ new[d - 1].wide
      <3>1. d # c /\ line[d].len = -1
        BY <2>2, <1>1, BlankFacts
      <3>2. d > 0 /\ line[d - 1].wide /\ d - 1 \in Columns /\ d - 1 # c
        BY <2>1, <3>1, Sizes
      <3> QED BY <3>2, <1>1
    <2>3. ASSUME new[d].wide PROVE d + 1 < COLS /\ new[d + 1].len = -1
      <3>1. d # c /\ line[d].wide
        BY <2>3, <1>1, BlankFacts
      <3>2. d + 1 < COLS /\ line[d + 1].len = -1 /\ d + 1 \in Columns
        BY <2>1, <3>1, Sizes
      <3>3. d + 1 # c
        BY <3>2, <1>2
      <3> QED BY <3>2, <3>3, <1>1
    <2> QED BY <2>2, <2>3
  <1> QED BY <1>1, <1>2 DEF new

\* A line feed reads and writes nothing of the mark "split".
LEMMA LinefeedSplit ==
    ASSUME NEW t \in Emulator, NEW S \in BOOLEAN
    PROVE  /\ do_linefeed([t EXCEPT !.split = S]) = [do_linefeed(t) EXCEPT !.split = S]
           /\ do_linefeed(t).split = t.split
  <1> DEFINE u == [t EXCEPT !.split = S]
  <1>1. u.row = t.row /\ u.top = t.top /\ u.bot = t.bot
    BY DEF Emulator
  <1>2. ASSUME NEW a, NEW b
        PROVE  /\ scroll_up(u, a, b, 1) = [scroll_up(t, a, b, 1) EXCEPT !.split = S]
               /\ scroll_up(t, a, b, 1).split = t.split
    BY DEF scroll_up, Emulator
  <1>3. ASSUME NEW r
        PROVE  /\ [u EXCEPT !.row = r] = [[t EXCEPT !.row = r] EXCEPT !.split = S]
               /\ [t EXCEPT !.row = r].split = t.split
    BY DEF Emulator
  <1>4. do_linefeed(u) = IF t.row = t.bot THEN scroll_up(u, t.top, t.bot, 1)
                         ELSE [u EXCEPT !.row = AtMost(t.row + 1, ROWS - 1)]
    BY <1>1 DEF do_linefeed
  <1>5. do_linefeed(t) = IF t.row = t.bot THEN scroll_up(t, t.top, t.bot, 1)
                         ELSE [t EXCEPT !.row = AtMost(t.row + 1, ROWS - 1)]
    BY DEF do_linefeed
  <1> HIDE DEF u
  <1>6. CASE t.row = t.bot
    <2>1. do_linefeed(u) = scroll_up(u, t.top, t.bot, 1) /\ do_linefeed(t) = scroll_up(t, t.top, t.bot, 1)
      BY <1>4, <1>5, <1>6
    <2> QED BY <2>1, <1>2 DEF u
  <1>7. CASE t.row # t.bot
    <2> DEFINE r == AtMost(t.row + 1, ROWS - 1)
    <2>1. do_linefeed(u) = [u EXCEPT !.row = r] /\ do_linefeed(t) = [t EXCEPT !.row = r]
      BY <1>4, <1>5, <1>7
    <2> HIDE DEF r
    <2>2. /\ [u EXCEPT !.row = r] = [[t EXCEPT !.row = r] EXCEPT !.split = S]
          /\ [t EXCEPT !.row = r].split = t.split
      BY <1>3
    <2> QED BY <2>1, <2>2 DEF u
  <1> QED BY <1>6, <1>7

LEMMA RoomGood ==
    ASSUME NEW t, Good(t), COLS > 1
    PROVE  Good(Room(t)) /\ Room(t).col \in Columns /\ Room(t).col + 1 \in Columns
  <1>0. t.row \in Lines /\ t.col \in Columns /\ t.cells[t.row] \in Row /\ 0 \in Columns
        /\ 1 \in Columns /\ t.cells \in [Lines -> Row] /\ t.split \in BOOLEAN /\ t \in Emulator
        /\ (~t.split => RowWhole(t.cells[t.row]))
    BY GoodFields, Sizes DEF Good
  <1>1. CASE t.col < COLS - 1
    <2>1. Room(t) = t
      BY <1>1 DEF Room
    <2>2. t.col + 1 \in Columns
      BY <1>0, <1>1, Sizes
    <2> QED BY <2>1, <2>2, <1>0
  <1>2. CASE ~(t.col < COLS - 1)
    <2>1. t.col = COLS - 1
      BY <1>0, <1>2, Sizes
    <2> DEFINE cut == t.cells[t.row][t.col].len = -1
               S == t.split \/ cut
               line == [t.cells[t.row] EXCEPT ![t.col] = Blank]
               w == [clear_cell(t, t.row, t.col) EXCEPT !.col = 0]
               u == [t EXCEPT !.split = S]
               v == [u EXCEPT !.cells[t.row] = line]
               x == [v EXCEPT !.col = 0]
    <2>2. S \in BOOLEAN
      OBVIOUS
    <2>3. line \in Row /\ (~S => RowWhole(line))
      <3>1. line \in Row /\ (RowWhole(t.cells[t.row]) /\ ~cut => RowWhole(line))
        BY <1>0, <2>1, LastColumnRow
      <3> HIDE DEF line, cut
      <3> QED BY <3>1, <1>0
    <2>4. Good(u) /\ u.row = t.row
      <3>1. CASE S = TRUE
        <4>1. u = [t EXCEPT !.split = TRUE]
          BY <3>1
        <4> QED BY <4>1, SetSplit
      <3>2. CASE S = FALSE
        <4>1. t.split = FALSE
          BY <3>2, <1>0
        <4>2. u = [t EXCEPT !.split = t.split]
          BY <3>2, <4>1
        <4> QED BY <4>2, SetSplit
      <3> QED BY <3>1, <3>2, <2>2
    <2>5. w \in Emulator /\ w.split = t.split /\ x = [w EXCEPT !.split = S]
      <3>1. w = [[t EXCEPT !.cells = [t.cells EXCEPT ![t.row] = line]] EXCEPT !.col = 0]
        BY DEF clear_cell
      <3>2. [t.cells EXCEPT ![t.row] = line] \in [Lines -> Row]
        <4> HIDE DEF line
        <4> QED BY <1>0, <2>3
      <3>3. x = [[[t EXCEPT !.split = S] EXCEPT !.cells = [t.cells EXCEPT ![t.row] = line]] EXCEPT !.col = 0]
        <4>1. u.cells = t.cells
          BY <1>0 DEF Emulator
        <4> HIDE DEF u, line
        <4>2. v = [u EXCEPT !.cells = [u.cells EXCEPT ![t.row] = line]]
          OBVIOUS
        <4> QED BY <4>1, <4>2 DEF u
      <3> HIDE DEF line, S, w, x
      <3>4. \A cells \in [Lines -> Row] :
               /\ [[t EXCEPT !.cells = cells] EXCEPT !.col = 0] \in Emulator
               /\ [[t EXCEPT !.cells = cells] EXCEPT !.col = 0].split = t.split
               /\ [[[t EXCEPT !.split = S] EXCEPT !.cells = cells] EXCEPT !.col = 0]
                    = [[[t EXCEPT !.cells = cells] EXCEPT !.col = 0] EXCEPT !.split = S]
        BY <1>0 DEF Emulator
      <3> QED BY <3>1, <3>2, <3>3, <3>4
    <2>6. Room(t) = [do_linefeed(w) EXCEPT !.split = @ \/ cut]
      BY <1>2 DEF Room
    <2> HIDE DEF w, S, line, u, cut
    <2>7. Good(v) /\ v.row = t.row
      <3>1. u.split = S
        BY <1>0, <2>2 DEF u, Emulator
      <3> QED BY <2>3, <2>4, <1>0, <3>1, SetRow
    <2> HIDE DEF v
    <2>8. Good(x) /\ x.col = 0
      <3>1. Good([v EXCEPT !.col = 0]) /\ [v EXCEPT !.col = 0].col = 0
        BY <2>7, SetFirstColumn
      <3> QED BY <3>1
    <2> HIDE DEF x
    <2>9. Room(t) = do_linefeed(x)
      <3>1. do_linefeed(w).split = t.split /\ do_linefeed(x) = [do_linefeed(w) EXCEPT !.split = S]
        BY <2>2, <2>5, LinefeedSplit
      <3> QED BY <3>1, <2>6 DEF S
    <2>10. Good(do_linefeed(x)) /\ do_linefeed(x).col = 0
      BY <2>8, LinefeedGood
    <2> QED BY <2>9, <2>10, <1>0
  <1> QED BY <1>1, <1>2

LEMMA PairGood ==
    ASSUME NEW t, Good(t), NEW n \in Nat \ {0}, COLS > 1
    PROVE  Good(PutPair(t, n))
  <1> DEFINE t2 == Room(Wrapped(t))
             v == clear_wide_cell(t2, t2.row, t2.col)
             t3 == clear_wide_cell(v, t2.row, t2.col + 1)
             t4 == [t3 EXCEPT !.cells[t3.row][t3.col] = [len |-> n, wide |-> TRUE],
                              !.cells[t3.row][t3.col + 1] = RightHalf]
  <1>1. PutPair(t, n) = IF t4.col + 2 >= COLS THEN [t4 EXCEPT !.col = COLS - 1, !.pending = TRUE]
                        ELSE [t4 EXCEPT !.col = @ + 2]
    BY DEF PutPair, Room
  <1>2. Good(t2) /\ t2.col \in Columns /\ t2.col + 1 \in Columns
    BY WrappedGood, RoomGood
  <1> HIDE DEF t2
  <1>3. t2.row \in Lines /\ t2.cells[t2.row] \in Row
    BY <1>2, GoodFields
  <1>4. Good(v) /\ v.row = t2.row /\ v.col = t2.col /\ v.cells[t2.row] = WideCleared(t2.cells[t2.row], t2.col)
    BY <1>2, <1>3, ClearWideGood
  <1> HIDE DEF v
  <1>5. v.cells[t2.row] \in Row /\ v.cells[t2.row][t2.col] = Blank
    <2>1. v.cells[v.row] \in Row
      BY <1>4, GoodFields
    <2> QED BY <2>1, <1>2, <1>3, <1>4, WideClearedRow
  <1> DEFINE c == t2.col
             d == t2.col + 1
             r == t2.row
  <1>6. /\ Good(t3) /\ t3.row = v.row /\ t3.col = v.col /\ t3.split = v.split
        /\ t3.cells[r] = WideCleared(v.cells[r], d)
    BY <1>2, <1>3, <1>4, ClearWideGood
  <1> HIDE DEF t3
  <1> DEFINE line == t3.cells[r]
             x == [len |-> n, wide |-> TRUE]
             new == [[line EXCEPT ![c] = x] EXCEPT ![d] = RightHalf]
  <1>7. line \in Row /\ (~t3.split => RowWhole(line)) /\ line[c] = Blank /\ line[d] = Blank
    <2>1. t3.cells[t3.row] \in Row /\ (~t3.split => RowWhole(t3.cells[t3.row]))
      BY <1>6, GoodFields
    <2>2. line[d] = Blank /\ line[c] = Blank
      BY <1>2, <1>5, <1>6, WideClearedRow
    <2> QED BY <2>1, <2>2, <1>4, <1>6
  <1>8. new \in Row /\ (~t3.split => RowWhole(new))
    <2> HIDE DEF line
    <2> QED BY <1>2, <1>7, WideRow
  <1>9. t4 = [t3 EXCEPT !.cells[r] = new]
    <2>1. t3.row = r /\ t3.col = c /\ t3.cells \in [Lines -> Row] /\ t3 \in Emulator
      BY <1>4, <1>6, GoodFields DEF Good
    <2>2. t4 = [[t3 EXCEPT !.cells[r][c] = x] EXCEPT !.cells[r][d] = RightHalf]
      BY <2>1
    <2>3. [t3 EXCEPT !.cells[r][c] = x] = [t3 EXCEPT !.cells = [t3.cells EXCEPT ![r] = [line EXCEPT ![c] = x]]]
      OBVIOUS
    <2> HIDE DEF t4, x
    <2> DEFINE m == [t3.cells EXCEPT ![r] = [line EXCEPT ![c] = x]]
               y == [t3 EXCEPT !.cells = m]
    <2>4. y.cells = m /\ m[r] = [line EXCEPT ![c] = x]
      BY <2>1, <1>3 DEF Emulator
    <2>5. t4 = [y EXCEPT !.cells = [y.cells EXCEPT ![r] = [y.cells[r] EXCEPT ![d] = RightHalf]]]
      BY <2>2, <2>3
    <2>6. t4 = [y EXCEPT !.cells = [m EXCEPT ![r] = new]]
      BY <2>4, <2>5
    <2>7. [m EXCEPT ![r] = new] = [t3.cells EXCEPT ![r] = new]
      BY <2>1
    <2> HIDE DEF new
    <2>8. \A cells : [y EXCEPT !.cells = cells] = [t3 EXCEPT !.cells = cells]
      BY <2>1 DEF Emulator
    <2> HIDE DEF y, m
    <2> QED BY <2>6, <2>7, <2>8
  <1> HIDE DEF new, t4
  <1>10. Good(t4)
    BY <1>3, <1>6, <1>8, <1>9, SetRow
  <1>11. t4.col \in Columns /\ t4.row \in Lines
    BY <1>10, GoodFields
  <1>12. Good([t4 EXCEPT !.col = COLS - 1, !.pending = TRUE])
    <2> DEFINE e == COLS - 1
               y == [t4 EXCEPT !.col = e]
    <2>1. e \in Columns /\ TRUE \in BOOLEAN
      BY Sizes
    <2> HIDE DEF e
    <2>2. Good(y)
      BY <2>1, <1>10, <1>11, SetPlace
    <2>3. [t4 EXCEPT !.col = COLS - 1, !.pending = TRUE] = [y EXCEPT !.pending = TRUE]
      BY DEF e
    <2> HIDE DEF y
    <2>4. Good([y EXCEPT !.pending = TRUE])
      BY <2>1, <2>2, SetPending
    <2> QED BY <2>3, <2>4
  <1>13. ASSUME ~(t4.col + 2 >= COLS) PROVE Good([t4 EXCEPT !.col = @ + 2])
    <2> DEFINE e == t4.col + 2
    <2>1. e \in Columns
      BY <1>11, <1>13, Sizes
    <2>2. [t4 EXCEPT !.col = @ + 2] = [t4 EXCEPT !.col = e]
      OBVIOUS
    <2> HIDE DEF e
    <2>3. Good([t4 EXCEPT !.col = e])
      BY <1>10, <1>11, <2>1, SetPlace
    <2> QED BY <2>2, <2>3
  <1> QED BY <1>1, <1>12, <1>13

LEMMA AbortedGood ==
    ASSUME NEW t, Good(t), COLS = 1
    PROVE  Good(Aborted(t))
  <1>1. <<>> \in Seq(Parts)
    OBVIOUS
  <1> QED BY <1>1 DEF Good, Emulator, Aborted

LEMMA WideGood ==
    ASSUME NEW t, Good(t), NEW n \in Nat \ {0}
    PROVE  Good(put_wide(t, n))
  <1>1. CASE COLS = 1
    BY <1>1, AbortedGood DEF put_wide
  <1>2. CASE COLS # 1
    <2>1. COLS > 1
      BY <1>2, Sizes
    <2> QED BY <1>2, <2>1, PairGood DEF put_wide
  <1> QED BY <1>1, <1>2

\* A combining mark changes neither half of a wide character into the other.
LEMMA CombiningGood ==
    ASSUME NEW t, Good(t), NEW n \in Nat \ {0}
    PROVE  Good(put_combining(t, n))
  <1> DEFINE before == IF t.pending THEN COLS - 1 ELSE t.col - 1
             at == IF before > 0 /\ t.cells[t.row][before].len = -1 THEN before - 1 ELSE before
             line == t.cells[t.row]
             cell == line[at]
             new == [line EXCEPT ![at].len = @ + n]
  <1>1. put_combining(t, n) = IF before < 0 THEN t
                              ELSE IF cell.len > 0 /\ cell.len + n <= CELL_BYTES
                                   THEN [t EXCEPT !.cells[t.row][at].len = @ + n] ELSE t
    BY DEF put_combining
  <1>2. line \in Row /\ (~t.split => RowWhole(line)) /\ t.row \in Lines /\ t.col \in Columns
    BY GoodFields
  <1>3. ASSUME ~(before < 0) PROVE at \in Columns
    <2>1. before \in Columns
      BY <1>2, <1>3, Sizes
    <2> HIDE DEF before
    <2> QED BY <2>1, Sizes
  <1>4. [t EXCEPT !.cells[t.row][at].len = @ + n] = [t EXCEPT !.cells[t.row] = new]
    OBVIOUS
  <1> HIDE DEF before, at, line
  <1>5. ASSUME at \in Columns, cell.len > 0 PROVE new \in Row /\ (RowWhole(line) => RowWhole(new))
    <2>1. cell \in Cell /\ cell.len \in Int /\ cell.wide \in BOOLEAN
      BY <1>2, <1>5 DEF Row, Cell
    <2> DEFINE x == [cell EXCEPT !.len = @ + n]
    <2>2. x \in Cell /\ x.len > 0 /\ x.wide = cell.wide
      <3>1. cell.len + n \in Int /\ cell.len + n > 0
        BY <2>1, <1>5
      <3>2. x \in [len : Int, wide : BOOLEAN] /\ x.len = cell.len + n /\ x.wide = cell.wide
        BY <2>1, <3>1 DEF Cell
      <3> HIDE DEF x, cell
      <3> QED BY <3>1, <3>2 DEF Cell
    <2>3. new = [line EXCEPT ![at] = x]
      OBVIOUS
    <2> HIDE DEF x, new
    <2>4. new \in Row /\ new[at] = x /\ \A d \in Columns : d # at => new[d] = line[d]
      BY <1>2, <1>5, <2>2, <2>3 DEF Row
    <2>5. \A d \in Columns : (new[d].len = -1 <=> line[d].len = -1) /\ new[d].wide = line[d].wide
      <3> TAKE d \in Columns
      <3>1. CASE d = at
        <4>1. x.len # -1 /\ line[at].len # -1
          <5>1. x.len \in Int
            BY <2>2 DEF Cell
          <5> QED BY <2>1, <2>2, <1>5, <5>1
        <4> QED BY <3>1, <4>1, <2>2, <2>4
      <3>2. CASE d # at
        BY <3>2, <2>4
      <3> QED BY <3>1, <3>2
    <2>6. ASSUME RowWhole(line) PROVE RowWhole(new)
      <3> SUFFICES ASSUME NEW d \in Columns
                   PROVE  /\ new[d].len = -1 => d > 0 /\ new[d - 1].wide
                          /\ new[d].wide => d + 1 < COLS /\ new[d + 1].len = -1
        BY DEF RowWhole
      <3>1. /\ line[d].len = -1 => d > 0 /\ line[d - 1].wide
            /\ line[d].wide => d + 1 < COLS /\ line[d + 1].len = -1
        BY <2>6 DEF RowWhole
      <3>2. /\ d > 0 => d - 1 \in Columns
            /\ d + 1 < COLS => d + 1 \in Columns
        BY Sizes
      <3> QED BY <3>1, <3>2, <2>5
    <2> QED BY <2>4, <2>6
  <1> HIDE DEF new, cell
  <1>6. ASSUME ~(before < 0), cell.len > 0 PROVE Good([t EXCEPT !.cells[t.row] = new])
    BY <1>2, <1>3, <1>5, <1>6, SetRow
  <1> QED BY <1>1, <1>4, <1>6

LEMMA CharGood ==
    ASSUME NEW t, Good(t), NEW n \in Nat \ {0}, NEW w
    PROVE  Good(put_char(t, n, w))
  BY CombiningGood, WideGood, NarrowGood DEF put_char

-----------------------------------------------------------------------------
(* Erasing. *)

\* f[k] is the row after clear_wide_cell on its columns from a on, k of them.
Cleared(f, line, a, b) ==
    f = [c \in (a - 1) .. b |-> IF c < a THEN line ELSE WideCleared(f[c - 1], c)]

LEMMA ClearedExists ==
    ASSUME NEW line, NEW a \in Columns, NEW b \in Columns, a =< b
    PROVE  \E f : Cleared(f, line, a, b)
  <1> DEFINE T == {k \in Nat : \E f : Cleared(f, line, a, a - 1 + k)}
             n == b - a + 1
  <1>0. a \in Int /\ b \in Int /\ n \in Nat
    BY Sizes
  <1> HIDE DEF n
  <1>1. 0 \in T
    <2> DEFINE f == [c \in (a - 1) .. (a - 1) |-> line]
    <2>1. \A c \in (a - 1) .. (a - 1) : c < a
      BY <1>0
    <2>2. Cleared(f, line, a, a - 1)
      BY <2>1 DEF Cleared
    <2>3. a - 1 + 0 = a - 1
      BY <1>0
    <2> QED BY <2>2, <2>3
  <1>2. ASSUME NEW i \in 1 .. n, i - 1 \in T PROVE i \in T
    <2> DEFINE m == a - 1 + i
    <2>0. m - 1 = a - 1 + (i - 1) /\ m \in Int /\ ~(m < a) /\ i \in Nat
      BY <1>0
    <2>1. PICK f : Cleared(f, line, a, m - 1)
      BY <1>2, <2>0
    <2> HIDE DEF m
    <2> DEFINE x == WideCleared(f[m - 1], m)
               g == [c \in (a - 1) .. m |-> IF c = m THEN x ELSE f[c]]
    <2>2. \A c \in (a - 1) .. m - 1 : g[c] = f[c] /\ c \in (a - 1) .. m /\ c # m
      BY <1>0, <2>0
    <2>3. \A c \in (a - 1) .. m : g[c] = IF c < a THEN line ELSE WideCleared(g[c - 1], c)
      <3> TAKE c \in (a - 1) .. m
      <3>1. CASE c = m
        <4>1. g[c] = x
          BY <3>1
        <4>2. m - 1 \in (a - 1) .. m - 1
          BY <1>0, <2>0
        <4>3. g[m - 1] = f[m - 1]
          BY <4>2, <2>2
        <4> HIDE DEF g
        <4> QED BY <3>1, <4>1, <4>3, <2>0
      <3>2. CASE c # m
        <4>1. c \in (a - 1) .. m - 1
          BY <3>2, <1>0, <2>0
        <4>2. ~(c < a) => c - 1 \in (a - 1) .. m - 1
          BY <4>1, <1>0, <2>0
        <4>3. g[c] = f[c] /\ (~(c < a) => g[c - 1] = f[c - 1])
          BY <4>1, <4>2, <2>2
        <4>4. f[c] = IF c < a THEN line ELSE WideCleared(f[c - 1], c)
          BY <4>1, <2>1, Zenon DEF Cleared
        <4> HIDE DEF g
        <4> QED BY <4>3, <4>4
      <3> QED BY <3>1, <3>2
    <2>4. g = [c \in (a - 1) .. m |-> g[c]]
      OBVIOUS
    <2> HIDE DEF g
    <2>5. Cleared(g, line, a, m)
      BY <2>3, <2>4, Zenon DEF Cleared
    <2> QED BY <2>0, <2>5 DEF m
  <1> HIDE DEF T
  <1>3. n \in T
    <2>1. n \in 0 .. n
      BY <1>0
    <2> QED BY <1>0, <1>1, <1>2, <2>1, UpTo
  <1>4. a - 1 + n = b
    BY <1>0 DEF n
  <1> QED BY <1>3, <1>4 DEF T

LEMMA ClearSpanGood ==
    ASSUME NEW t, Good(t), NEW a \in Columns, NEW b \in Columns
    PROVE  /\ Good(ClearSpan(t, a, b)) /\ ClearSpan(t, a, b).row = t.row
           /\ ClearSpan(t, a, b).col = t.col
  <1> DEFINE old == t.cells[t.row]
             n == b - a + 1
  <1>1. t.row \in Lines /\ old \in Row /\ (~t.split => RowWhole(old))
    BY GoodFields
  <1>2. CASE a > b
    BY <1>2 DEF ClearSpan
  <1>3. CASE ~(a > b)
    <2>0. a \in Int /\ b \in Int /\ a =< b /\ n \in Nat
      BY <1>3, Sizes
    <2> DEFINE f == CHOOSE f : Cleared(f, old, a, b)
    <2>1. Cleared(f, old, a, b)
      BY <2>0, ClearedExists
    <2>2. ClearSpan(t, a, b) = [t EXCEPT !.cells[t.row] = f[b]]
      BY <1>3 DEF ClearSpan, Cleared
    <2> HIDE DEF f, old, n
    <2> DEFINE T == {k \in 0 .. n : f[a - 1 + k] \in Row /\ (~t.split => RowWhole(f[a - 1 + k]))}
    <2>3. 0 \in T
      <3>1. a - 1 + 0 = a - 1 /\ a - 1 \in (a - 1) .. b /\ a - 1 < a /\ 0 \in 0 .. n
        BY <2>0
      <3>2. f[a - 1] = old
        BY <3>1, <2>1, Zenon DEF Cleared
      <3> QED BY <3>1, <3>2, <1>1
    <2>4. ASSUME NEW k \in 1 .. n, k - 1 \in T PROVE k \in T
      <3> DEFINE c == a - 1 + k
      <3>1. /\ c \in (a - 1) .. b /\ ~(c < a) /\ c - 1 = a - 1 + (k - 1) /\ k \in 0 .. n
            /\ c \in Columns
        BY <2>0, Sizes DEF n
      <3>2. f[c] = WideCleared(f[c - 1], c)
        <4> HIDE DEF c
        <4> QED BY <3>1, <2>1, Zenon DEF Cleared
      <3>3. f[c - 1] \in Row /\ (~t.split => RowWhole(f[c - 1]))
        BY <2>4, <3>1
      <3> HIDE DEF c
      <3>4. f[c] \in Row /\ (~t.split => RowWhole(f[c]))
        BY <3>1, <3>2, <3>3, WideClearedRow
      <3> QED BY <3>1, <3>4 DEF c
    <2> HIDE DEF T
    <2>5. n \in T
      <3>1. n \in 0 .. n
        BY <2>0
      <3> QED BY <2>0, <2>3, <2>4, <3>1, UpTo
    <2>6. a - 1 + n = b
      BY <2>0 DEF n
    <2>7. f[b] \in Row /\ (~t.split => RowWhole(f[b]))
      BY <2>5, <2>6 DEF T
    <2> DEFINE new == f[b]
    <2> HIDE DEF new
    <2>8. ClearSpan(t, a, b) = [t EXCEPT !.cells[t.row] = new]
      BY <2>2 DEF new
    <2>9. new \in Row /\ (~t.split => RowWhole(new))
      BY <2>7 DEF new
    <2> QED BY <1>1, <2>8, <2>9, SetRow
  <1> QED BY <1>2, <1>3

-----------------------------------------------------------------------------
(* The sequences. *)

\* The fields of the parser.
LEMMA SetParser ==
    ASSUME NEW t, Good(t), NEW ps \in Seq(Nat), Len(ps) =< MAX_PARAMS, NEW v \in Nat,
           NEW h \in BOOLEAN, NEW i \in Intermediates
    PROVE  /\ Good([t EXCEPT !.params = ps]) /\ Good([t EXCEPT !.val = v])
           /\ Good([t EXCEPT !.has = h]) /\ Good([t EXCEPT !.inter = i])
  BY DEF Good, Emulator

LEMMA SetUtf8 ==
    ASSUME NEW t, Good(t)
    PROVE  Good([t EXCEPT !.utf8 = <<>>]) /\ [t EXCEPT !.utf8 = <<>>].utf8 = <<>>
           /\ [t EXCEPT !.utf8 = <<>>].state = t.state
  <1>1. <<>> \in Seq(Parts)
    OBVIOUS
  <1> QED BY <1>1 DEF Good, Emulator

LEMMA SetState ==
    ASSUME NEW t, Good(t), NEW s \in ParserStates,
           s # "GROUND" => t.utf8 = <<>>
    PROVE  Good([t EXCEPT !.state = s])
  BY DEF Good, Emulator, ParserStates

LEMMA ParserFields ==
    ASSUME NEW t, Good(t)
    PROVE  /\ t.params \in Seq(Nat) /\ Len(t.params) =< MAX_PARAMS /\ t.val \in Nat
           /\ t.has \in BOOLEAN /\ t.inter \in Intermediates /\ t.utf8 \in Seq(Parts)
           /\ t.state \in ParserStates \cup {"ABORTED"}
           /\ t.saved \in Lines \X Columns
           /\ t.utf8 # <<>> => t.state = "GROUND" /\ t.utf8[1] \in Leads
  BY DEF Good, Emulator

LEMMA Appended ==
    ASSUME NEW ps \in Seq(Nat), NEW v \in Nat, Len(ps) < MAX_PARAMS
    PROVE  Append(ps, v) \in Seq(Nat) /\ Len(Append(ps, v)) =< MAX_PARAMS
  <1>1. Append(ps, v) \in Seq(Nat) /\ Len(Append(ps, v)) = Len(ps) + 1 /\ Len(ps) \in Nat
    OBVIOUS
  <1>2. MAX_PARAMS \in Nat
    BY ScreenAssumption
  <1> QED BY <1>1, <1>2

LEMMA FinalizeGood ==
    ASSUME NEW t, Good(t)
    PROVE  Good(csi_finalize(t))
  <1> DEFINE ps == Append(t.params, t.val)
  <1>1. csi_finalize(t) = IF t.has /\ Len(t.params) < MAX_PARAMS THEN [t EXCEPT !.params = ps] ELSE t
    BY DEF csi_finalize
  <1>2. t.params \in Seq(Nat) /\ t.val \in Nat /\ t.has \in BOOLEAN /\ t.inter \in Intermediates
    BY ParserFields
  <1>3. ASSUME Len(t.params) < MAX_PARAMS PROVE ps \in Seq(Nat) /\ Len(ps) =< MAX_PARAMS
    BY <1>2, <1>3, Appended
  <1> HIDE DEF ps
  <1>4. ASSUME Len(t.params) < MAX_PARAMS PROVE Good([t EXCEPT !.params = ps])
    BY <1>2, <1>3, <1>4, SetParser
  <1> QED BY <1>1, <1>4

LEMMA ParamNat ==
    ASSUME NEW t, Good(t), NEW i \in Nat \ {0}, NEW d \in Nat
    PROVE  csi_param(t, i, d) \in Nat /\ (d > 0 => csi_param(t, i, d) > 0)
  <1>1. t.params \in Seq(Nat)
    BY ParserFields
  <1>2. i =< Len(t.params) => t.params[i] \in Nat
    BY <1>1
  <1> QED BY <1>2 DEF csi_param

\* The cursor is put somewhere on the screen.
LEMMA PutGood ==
    ASSUME NEW t, Good(t), NEW r \in Lines, NEW c \in Columns
    PROVE  /\ Good([t EXCEPT !.row = r, !.col = c, !.pending = FALSE])
           /\ Good([t EXCEPT !.col = c, !.pending = FALSE])
           /\ [t EXCEPT !.col = c, !.pending = FALSE].col = c
  <1> DEFINE u == [t EXCEPT !.row = r]
             v == [u EXCEPT !.col = c]
             w == [t EXCEPT !.col = c]
  <1>0. FALSE \in BOOLEAN /\ t.row \in Lines
    BY GoodFields
  <1>1. Good(u) /\ Good(w) /\ w.col = c
    BY SetPlace
  <1> HIDE DEF u, w
  <1>2. Good(v)
    BY <1>1, SetPlace
  <1> HIDE DEF v
  <1>3. /\ Good([v EXCEPT !.pending = FALSE]) /\ Good([w EXCEPT !.pending = FALSE])
        /\ [w EXCEPT !.pending = FALSE].col = c
    BY <1>0, <1>1, <1>2, SetPending
  <1>4. [t EXCEPT !.row = r, !.col = c, !.pending = FALSE] = [v EXCEPT !.pending = FALSE]
    BY DEF u, v
  <1>5. [t EXCEPT !.col = c, !.pending = FALSE] = [w EXCEPT !.pending = FALSE]
    BY DEF w
  <1> QED BY <1>3, <1>4, <1>5

LEMMA MoveGood ==
    ASSUME NEW t, Good(t), NEW f
    PROVE  Good(MoveCursor(t, f))
  <1> DEFINE n == csi_param(t, 1, 1)
             m == csi_param(t, 2, 1)
             r == CASE f \in {"A", "F"} -> Clamp(t.row - n, t.top, t.bot)
                    [] f \in {"B", "E"} -> Clamp(t.row + n, t.top, t.bot)
                    [] f \in {"H", "d"} -> Clamp(n - 1, 0, ROWS - 1)
                    [] OTHER -> t.row
             c == CASE f = "C" -> Clamp(t.col + n, 0, COLS - 1)
                    [] f = "D" -> Clamp(t.col - n, 0, COLS - 1)
                    [] f \in {"E", "F"} -> 0
                    [] f = "G" -> Clamp(n - 1, 0, COLS - 1)
                    [] f = "H" -> Clamp(m - 1, 0, COLS - 1)
                    [] OTHER -> t.col
  <1>1. MoveCursor(t, f) = [t EXCEPT !.row = r, !.col = c, !.pending = FALSE]
    BY DEF MoveCursor
  <1>2. n \in Nat /\ m \in Nat
    BY ParamNat
  <1> HIDE DEF n, m
  <1>3. t.row \in Lines /\ t.col \in Columns /\ t.top \in Lines /\ t.bot \in Lines /\ t.top =< t.bot
    BY GoodFields
  <1>4. t.row \in Int /\ t.col \in Int /\ t.top \in Int /\ t.bot \in Int
    BY GoodFields
  <1>5. \A v \in Int : /\ Clamp(v, t.top, t.bot) \in Lines /\ Clamp(v, 0, ROWS - 1) \in Lines
                       /\ Clamp(v, 0, COLS - 1) \in Columns
    <2> TAKE v \in Int
    <2>1. Clamp(v, t.top, t.bot) \in t.top .. t.bot /\ t.top .. t.bot \subseteq Lines
      BY <1>3, <1>4, Sizes DEF Clamp
    <2>2. Clamp(v, 0, ROWS - 1) \in Lines /\ Clamp(v, 0, COLS - 1) \in Columns
      BY Sizes DEF Clamp
    <2> QED BY <2>1, <2>2
  <1>6. t.row - n \in Int /\ t.row + n \in Int /\ n - 1 \in Int /\ t.col + n \in Int /\ t.col - n \in Int
        /\ m - 1 \in Int /\ 0 \in Columns
    BY <1>2, <1>4, Sizes
  <1>7. r \in Lines
    BY <1>3, <1>5, <1>6
  <1>8. c \in Columns
    BY <1>3, <1>5, <1>6
  <1> HIDE DEF r, c
  <1>9. Good([t EXCEPT !.row = r, !.col = c, !.pending = FALSE])
    BY <1>7, <1>8, PutGood
  <1> QED BY <1>1, <1>9

LEMMA EraseGood ==
    ASSUME NEW t, Good(t)
    PROVE  Good(EraseDisplay(t)) /\ Good(EraseLine(t)) /\ Good(EraseChars(t))
  <1>1. t.col \in Columns /\ 0 \in Columns /\ COLS - 1 \in Columns /\ t.col \in Int
    BY GoodFields, Sizes
  <1>2. /\ Good(ClearSpan(t, t.col, COLS - 1)) /\ Good(ClearSpan(t, 0, t.col))
    BY <1>1, ClearSpanGood
  <1>3. Good(EraseDisplay(t))
    <2> DEFINE u == ClearSpan(t, t.col, COLS - 1)
               v == clear_rows(t, {r \in Lines : r < t.row})
    <2>1. \A S : Good(clear_rows(u, S))
      <3> HIDE DEF u
      <3> QED BY <1>2, ClearRowsGood DEF u
    <2>2. Good(v)
      BY ClearRowsGood
    <2> HIDE DEF v
    <2>3. Good(ClearSpan(v, 0, t.col))
      BY <1>1, <2>2, ClearSpanGood
    <2>4. Good(clear_rows(t, Lines))
      BY ClearRowsGood
    <2> DEFINE A == clear_rows(u, {r \in Lines : r > t.row})
               B == ClearSpan(v, 0, t.col)
               C == clear_rows(t, Lines)
               n == csi_param(t, 1, 0)
    <2>5. EraseDisplay(t) = CASE n = 0 -> A [] n = 1 -> B [] n \in {2, 3} -> C [] OTHER -> t
      BY Zenon DEF EraseDisplay, v
    <2>6. Good(A) /\ Good(B) /\ Good(C)
      BY <2>1, <2>3, <2>4
    <2> HIDE DEF A, B, C, n
    <2> QED BY <2>5, <2>6
  <1>4. Good(EraseLine(t))
    <2>1. Good(clear_rows(t, {t.row}))
      BY ClearRowsGood
    <2>2. EraseLine(t) \in {ClearSpan(t, t.col, COLS - 1), ClearSpan(t, 0, t.col),
                           clear_rows(t, {t.row}), t}
      BY DEF EraseLine
    <2> QED BY <1>2, <2>1, <2>2
  <1>5. Good(EraseChars(t))
    <2> DEFINE b == AtMost(t.col + csi_param(t, 1, 1) - 1, COLS - 1)
    <2>1. csi_param(t, 1, 1) \in Nat /\ csi_param(t, 1, 1) > 0
      BY ParamNat
    <2>2. b \in Columns
      BY <1>1, <2>1, Sizes DEF AtMost
    <2>3. EraseChars(t) = ClearSpan(t, t.col, b)
      BY DEF EraseChars
    <2> HIDE DEF b
    <2> QED BY <1>1, <2>2, <2>3, ClearSpanGood
  <1> QED BY <1>3, <1>4, <1>5

LEMMA ShiftGood ==
    ASSUME NEW t, Good(t), NEW f
    PROVE  Good(ShiftLines(t, f)) /\ Good(ScrollRegion(t, f))
  <1> DEFINE n == csi_param(t, 1, 1)
             a == t.top
             b == t.bot
             r == t.row
  <1>1. n \in Nat
    BY ParamNat
  <1>2. a \in Lines /\ b \in Lines /\ a =< b /\ r \in Lines /\ a \in Int /\ b \in Int /\ r \in Int
    BY GoodFields
  <1>3. ScrollRegion(t, f) = IF f = "S" THEN scroll_up(t, a, b, n) ELSE scroll_down(t, a, b, n)
    BY DEF ScrollRegion
  <1>4. ShiftLines(t, f) = IF r \notin a .. b THEN t
                           ELSE IF f = "L" THEN scroll_down(t, r, b, n) ELSE scroll_up(t, r, b, n)
    BY DEF ShiftLines
  <1> HIDE DEF n, a, b, r
  <1>5. Good(scroll_up(t, a, b, n)) /\ Good(scroll_down(t, a, b, n))
    BY <1>1, <1>2, ScrollGood
  <1>6. ASSUME r \in a .. b PROVE Good(scroll_up(t, r, b, n)) /\ Good(scroll_down(t, r, b, n))
    <2>1. r =< b
      BY <1>2, <1>6
    <2> QED BY <2>1, <1>1, <1>2, ScrollGood
  <1> QED BY <1>3, <1>4, <1>5, <1>6

LEMMA ShiftCharsGood ==
    ASSUME NEW t, Good(t), NEW f
    PROVE  Good(ShiftChars(t, f))
  <1> DEFINE n == AtMost(csi_param(t, 1, 1), COLS - t.col)
             line == t.cells[t.row]
             moved == IF f = "@"
                      THEN [c \in Columns |-> IF c < t.col THEN line[c]
                                              ELSE IF c < t.col + n THEN Blank ELSE line[c - n]]
                      ELSE [c \in Columns |-> IF c < t.col THEN line[c]
                                              ELSE IF c < COLS - n THEN line[c + n] ELSE Blank]
  <1>1. ShiftChars(t, f) = [t EXCEPT !.cells[t.row] = moved, !.split = TRUE]
    BY DEF ShiftChars
  <1>2. line \in Row /\ t.row \in Lines /\ t.col \in Columns /\ t.col \in Int
    BY GoodFields
  <1>3. n \in Nat
    <2>1. csi_param(t, 1, 1) \in Nat
      BY ParamNat
    <2> QED BY <2>1, <1>2, Sizes DEF AtMost
  <1> HIDE DEF n, line
  <1>4. moved \in Row
    <2>1. \A c \in Columns : line[c] \in Cell
      BY <1>2 DEF Row
    <2>2. ASSUME NEW c \in Columns, ~(c < t.col), ~(c < t.col + n) PROVE c - n \in Columns
      BY <2>2, <1>2, <1>3, Sizes
    <2>3. ASSUME NEW c \in Columns, c < COLS - n PROVE c + n \in Columns
      BY <2>3, <1>3, Sizes
    <2>4. CASE f = "@"
      <3>1. \A c \in Columns : (IF c < t.col THEN line[c]
                               ELSE IF c < t.col + n THEN Blank ELSE line[c - n]) \in Cell
        BY <2>1, <2>2, BlankFacts
      <3> QED BY <2>4, <3>1 DEF Row
    <2>5. CASE f # "@"
      <3>1. \A c \in Columns : (IF c < t.col THEN line[c]
                               ELSE IF c < COLS - n THEN line[c + n] ELSE Blank) \in Cell
        BY <2>1, <2>3, BlankFacts
      <3> QED BY <2>5, <3>1 DEF Row
    <2> QED BY <2>4, <2>5
  <1> HIDE DEF moved
  <1> DEFINE u == [t EXCEPT !.split = TRUE]
  <1>5. Good(u) /\ u.split /\ u.row = t.row /\ u.cells = t.cells
    BY SetSplit
  <1>6. ShiftChars(t, f) = [u EXCEPT !.cells[t.row] = moved]
    <2>1. t \in Emulator
      BY DEF Good
    <2> DEFINE m == [t.cells EXCEPT ![t.row] = moved]
    <2>2. ShiftChars(t, f) = [[t EXCEPT !.cells = m] EXCEPT !.split = TRUE]
      BY <1>1
    <2>3. [u EXCEPT !.cells[t.row] = moved] = [u EXCEPT !.cells = m]
      <3>1. [u EXCEPT !.cells[t.row] = moved] = [u EXCEPT !.cells = [u.cells EXCEPT ![t.row] = moved]]
        BY Zenon
      <3> HIDE DEF u
      <3> QED BY <3>1, <1>5
    <2> HIDE DEF m
    <2>4. [[t EXCEPT !.cells = m] EXCEPT !.split = TRUE] = [u EXCEPT !.cells = m]
      BY <2>1 DEF Emulator
    <2> QED BY <2>2, <2>3, <2>4
  <1> HIDE DEF u
  <1> QED BY <1>2, <1>4, <1>5, <1>6, SetRow

LEMMA RegionGood ==
    ASSUME NEW t, Good(t)
    PROVE  Good(SetRegion(t))
  <1> DEFINE a == Clamp(csi_param(t, 1, 1) - 1, 0, ROWS - 1)
             b == Clamp(csi_param(t, 2, ROWS) - 1, 0, ROWS - 1)
             u == [t EXCEPT !.row = 0, !.col = 0, !.pending = FALSE]
  <1>1. SetRegion(t) = IF a < b THEN [u EXCEPT !.top = a, !.bot = b] ELSE u
    BY DEF SetRegion
  <1>2. csi_param(t, 1, 1) \in Nat /\ csi_param(t, 2, ROWS) \in Nat
    <2>1. ROWS \in Nat /\ 1 \in Nat /\ 1 \in Nat \ {0} /\ 2 \in Nat \ {0}
      BY Sizes
    <2> QED BY <2>1, ParamNat
  <1>3. a \in Lines /\ b \in Lines
    BY <1>2, Sizes DEF Clamp
  <1>4. Good(u)
    <2>1. 0 \in Lines /\ 0 \in Columns
      BY Sizes
    <2> QED BY <2>1, PutGood
  <1> HIDE DEF a, b, u
  <1>5. ASSUME a < b PROVE Good([u EXCEPT !.top = a, !.bot = b])
    BY <1>3, <1>4, <1>5, SetRegionFields
  <1> QED BY <1>1, <1>4, <1>5

LEMMA TabsGood ==
    ASSUME NEW t, Good(t)
    PROVE  Good(ClearTabs(t)) /\ Good([t EXCEPT !.tabs = @ \cup {t.col}])
  <1> DEFINE S == t.tabs \ {t.col}
             U == t.tabs \cup {t.col}
             n == csi_param(t, 1, 0)
  <1>1. S \in SUBSET Columns /\ U \in SUBSET Columns /\ {} \in SUBSET Columns
    BY GoodFields
  <1>2. ClearTabs(t) = CASE n = 0 -> [t EXCEPT !.tabs = S] [] n = 3 -> [t EXCEPT !.tabs = {}] [] OTHER -> t
    BY DEF ClearTabs
  <1>3. [t EXCEPT !.tabs = @ \cup {t.col}] = [t EXCEPT !.tabs = U]
    OBVIOUS
  <1> HIDE DEF S, U, n
  <1>4. Good([t EXCEPT !.tabs = S]) /\ Good([t EXCEPT !.tabs = {}]) /\ Good([t EXCEPT !.tabs = U])
    BY <1>1, SetTabs
  <1>5. Good(ClearTabs(t))
    BY <1>2, <1>4
  <1> QED BY <1>3, <1>4, <1>5

LEMMA CsiGood ==
    ASSUME NEW t, Good(t), NEW f
    PROVE  Good(dispatch_csi(t, f))
  <1> DEFINE u == csi_finalize(t)
  <1>1. Good(u)
    BY FinalizeGood
  <1>2. dispatch_csi(t, f) =
          IF u.inter \in {"?", ">", "!"} THEN u
          ELSE CASE f \in CursorFinal -> MoveCursor(u, f)
                 [] f = "J" -> EraseDisplay(u)
                 [] f = "K" -> EraseLine(u)
                 [] f \in {"L", "M"} -> ShiftLines(u, f)
                 [] f \in {"@", "P"} -> ShiftChars(u, f)
                 [] f = "X" -> EraseChars(u)
                 [] f \in {"S", "T"} -> ScrollRegion(u, f)
                 [] f = "r" -> SetRegion(u)
                 [] f = "g" -> ClearTabs(u)
                 [] OTHER -> u
    BY Zenon DEF dispatch_csi
  <1> HIDE DEF u
  <1>3. /\ Good(MoveCursor(u, f)) /\ Good(EraseDisplay(u)) /\ Good(EraseLine(u))
        /\ Good(ShiftLines(u, f)) /\ Good(ShiftChars(u, f)) /\ Good(EraseChars(u))
        /\ Good(ScrollRegion(u, f)) /\ Good(SetRegion(u)) /\ Good(ClearTabs(u))
    BY <1>1, MoveGood, EraseGood, ShiftGood, ShiftCharsGood, RegionGood, TabsGood
  <1> QED BY <1>1, <1>2, <1>3

LEMMA ResetGood == Good(ts_render_reset)
  <1> DEFINE t == ts_render_reset
  <1>1. 0 \in Lines /\ ROWS - 1 \in Lines /\ 0 \in Columns /\ 0 =< ROWS - 1 /\ 0 \in Nat
        /\ (0 = ROWS - 1 => ROWS = 1)
    BY Sizes
  <1>2. /\ FALSE \in BOOLEAN /\ <<>> \in Seq(Nat) /\ <<>> \in Seq(Parts) /\ Len(<<>>) = 0
        /\ "none" \in Intermediates
    BY DEF Intermediates
  <1>3. init_tab_stops \in SUBSET Columns
    BY DEF init_tab_stops
  <1>4. <<0, 0>> \in Lines \X Columns
    BY <1>1
  <1>5. [r \in Lines |-> BlankRow] \in [Lines -> Row]
    BY BlankFacts
  <1>6. t \in Emulator
    BY <1>1, <1>2, <1>3, <1>4, <1>5 DEF ts_render_reset, Emulator, ParserStates
  <1>7. /\ t.top = 0 /\ t.bot = ROWS - 1 /\ t.params = <<>> /\ t.utf8 = <<>> /\ t.state = "GROUND"
        /\ t.cells = [r \in Lines |-> BlankRow]
    BY DEF ts_render_reset
  <1>8. MAX_PARAMS \in Nat
    BY ScreenAssumption
  <1> HIDE DEF t
  <1>9. \A r \in Lines : RowWhole(t.cells[r])
    BY <1>7, BlankFacts
  <1>10. t.top =< t.bot /\ (t.top = t.bot => ROWS = 1) /\ Len(t.params) =< MAX_PARAMS
    BY <1>1, <1>2, <1>7, <1>8
  <1> QED BY <1>6, <1>7, <1>9, <1>10 DEF Good, t

LEMMA EscGood ==
    ASSUME NEW t, Good(t), NEW f
    PROVE  Good(dispatch_esc(t, f))
  <1> DEFINE r == Clamp(t.saved[1], 0, ROWS - 1)
             c == Clamp(t.saved[2], 0, COLS - 1)
             s == <<t.row, t.col>>
             u == [t EXCEPT !.col = 0]
             A == [t EXCEPT !.saved = s]
             B == [t EXCEPT !.row = r, !.col = c, !.pending = FALSE]
             D == do_linefeed(t)
             E == do_linefeed(u)
             M == do_reverse_linefeed(t)
             H == [t EXCEPT !.tabs = @ \cup {t.col}]
  <1>1. dispatch_esc(t, f) = CASE f = "7" -> A [] f = "8" -> B [] f = "D" -> D [] f = "E" -> E
                               [] f = "M" -> M [] f = "H" -> H [] f = "c" -> ts_render_reset
                               [] OTHER -> t
    BY Zenon DEF dispatch_esc
  <1>2. t.saved \in Lines \X Columns /\ t.row \in Lines /\ t.col \in Columns /\ 0 \in Columns
    BY ParserFields, GoodFields, Sizes
  <1>3. r \in Lines /\ c \in Columns
    <2>1. t.saved[1] \in Lines /\ t.saved[2] \in Columns
      BY <1>2
    <2> QED BY <2>1, Sizes DEF Clamp
  <1>4. s \in Lines \X Columns
    BY <1>2
  <1> HIDE DEF r, c, s
  <1>5. Good(A)
    BY <1>4, SetSaved
  <1>6. Good(B)
    BY <1>3, PutGood
  <1>7. Good(D) /\ Good(M)
    BY LinefeedGood
  <1>8. Good(u)
    BY <1>2, SetPlace
  <1> HIDE DEF u
  <1>9. Good(E)
    BY <1>8, LinefeedGood
  <1>10. Good(H)
    BY TabsGood
  <1> HIDE DEF A, B, D, E, M, H
  <1> QED BY <1>1, <1>5, <1>6, <1>7, <1>9, <1>10, ResetGood

LEMMA NextTabColumn ==
    ASSUME NEW t, Good(t)
    PROVE  NextTab(t) \in Columns
  <1> DEFINE stops == {c \in t.tabs : c > t.col}
  <1>1. t.tabs \subseteq Columns /\ COLS - 1 \in Columns /\ Columns \subseteq Nat
    BY GoodFields, Sizes
  <1>2. stops \in SUBSET Nat /\ stops \subseteq Columns
    BY <1>1
  <1>3. NextTab(t) = IF stops = {} THEN COLS - 1 ELSE CHOOSE c \in stops : \A d \in stops : c <= d
    BY DEF NextTab
  <1> HIDE DEF stops
  <1>4. ASSUME stops # {} PROVE (CHOOSE c \in stops : \A d \in stops : c <= d) \in stops
    <2>1. \E c \in stops : \A d \in stops : c <= d
      BY <1>2, <1>4, LeastNatural
    <2> QED BY <2>1
  <1> QED BY <1>1, <1>2, <1>3, <1>4

LEMMA ControlGood ==
    ASSUME NEW t, Good(t), NEW b
    PROVE  Good(process_control(t, b))
  <1> DEFINE u == [t EXCEPT !.col = 0, !.pending = FALSE]
             n == NextTab(t)
             A == do_linefeed(u)
             C == [t EXCEPT !.col = n, !.pending = FALSE]
             d == t.col - 1
             D == [t EXCEPT !.col = d, !.pending = FALSE]
  <1>1. process_control(t, b) = CASE b = "LF" -> A [] b = "CR" -> u [] b = "HT" -> C
                                  [] b = "BS" -> (IF t.col > 0 THEN D ELSE t) [] OTHER -> t
    BY Zenon DEF process_control
  <1>2. t.row \in Lines /\ 0 \in Columns /\ (t.col > 0 => d \in Columns)
    BY GoodFields, Sizes
  <1>3. n \in Columns
    BY NextTabColumn
  <1> HIDE DEF n, d
  <1>4. Good(u) /\ Good(C) /\ (t.col > 0 => Good(D))
    BY <1>2, <1>3, PutGood
  <1> HIDE DEF u, C, D
  <1>5. Good(A)
    BY <1>4, LinefeedGood
  <1> HIDE DEF A
  <1> QED BY <1>1, <1>4, <1>5

LEMMA GroundStateGood ==
    ASSUME NEW t, Good(t), t.state = "GROUND", NEW b
    PROVE  Good(process_ground(t, b))
  <1>1. ASSUME b \in Leads PROVE Good([t EXCEPT !.utf8 = <<b>>])
    <2>1. b \in Parts
      <3>1. b \in {"wide", "mark"}
        BY <1>1 DEF Leads, LeadLength
      <3> QED BY <3>1 DEF Parts
    <2> DEFINE s == <<b>>
    <2>2. s \in Seq(Parts) /\ s[1] = b
      BY <2>1
    <2> HIDE DEF s
    <2>3. Good([t EXCEPT !.utf8 = s])
      BY <1>1, <2>2 DEF Good, Emulator
    <2> QED BY <2>3 DEF s
  <1>2. Good(process_control(t, b)) /\ Good(put_char(t, 1, 1))
    BY ControlGood, CharGood
  <1> DEFINE A == process_control(t, b)
             B == [t EXCEPT !.utf8 = <<b>>]
             C == put_char(t, 1, 1)
  <1>3. process_ground(t, b) = CASE b \in Controls -> A [] b \in Leads -> B
                                 [] b \in {"cont", "DEL"} -> t [] OTHER -> C
    BY Zenon DEF process_ground
  <1> HIDE DEF A, B, C
  <1> QED BY <1>1, <1>2, <1>3 DEF A, B, C

LEMMA ContGood ==
    ASSUME NEW t, Good(t), t.utf8 # <<>>
    PROVE  Good(process_utf8_cont(t))
  <1> DEFINE lead == t.utf8[1]
             n == LeadLength[lead]
             w == LeadWidth[lead]
             s == Append(t.utf8, "cont")
             u == put_char(t, n, w)
  <1>1. process_utf8_cont(t) = IF Len(t.utf8) + 1 = n THEN [u EXCEPT !.utf8 = <<>>]
                               ELSE [t EXCEPT !.utf8 = s]
    BY DEF process_utf8_cont
  <1>2. lead \in Leads /\ t.utf8 \in Seq(Parts) /\ t.state = "GROUND"
    BY ParserFields
  <1>3. n \in Nat \ {0}
    <2> HIDE DEF lead
    <2>1. lead = "wide" \/ lead = "mark"
      BY <1>2 DEF Leads, LeadLength
    <2> QED BY <2>1 DEF LeadLength
  <1>4. s \in Seq(Parts) /\ s[1] = lead
    <2>1. "cont" \in Parts
      BY DEF Parts
    <2>2. Len(t.utf8) \in Nat /\ Len(t.utf8) > 0
      BY <1>2
    <2> QED BY <1>2, <2>1, <2>2
  <1> HIDE DEF lead, n, w, s
  <1>5. Good(u)
    BY <1>3, CharGood
  <1> HIDE DEF u
  <1>6. Good([u EXCEPT !.utf8 = <<>>])
    BY <1>5, SetUtf8
  <1>7. Good([t EXCEPT !.utf8 = s])
    BY <1>2, <1>4 DEF Good, Emulator
  <1> QED BY <1>1, <1>6, <1>7

\* Back at rest, or at the start of a control sequence.
LEMMA RestGood ==
    ASSUME NEW t, Good(t), NEW s \in {"GROUND", "CSI_PARAM"}, s # "GROUND" => t.utf8 = <<>>
    PROVE  Good([t EXCEPT !.state = s, !.params = <<>>, !.val = 0, !.has = FALSE, !.inter = "none"])
  <1> DEFINE u == [t EXCEPT !.state = s]
             v == [u EXCEPT !.params = <<>>]
             w == [v EXCEPT !.val = 0]
             x == [w EXCEPT !.has = FALSE]
             y == [x EXCEPT !.inter = "none"]
  <1>1. /\ <<>> \in Seq(Nat) /\ Len(<<>>) =< MAX_PARAMS /\ 0 \in Nat /\ FALSE \in BOOLEAN
        /\ "none" \in Intermediates
    <2>1. Len(<<>>) = 0 /\ MAX_PARAMS \in Nat
      BY ScreenAssumption
    <2> QED BY <2>1 DEF Intermediates
  <1>2. Good(u)
    BY SetState DEF ParserStates
  <1>3. [t EXCEPT !.state = s, !.params = <<>>, !.val = 0, !.has = FALSE, !.inter = "none"] = y
    OBVIOUS
  <1> HIDE DEF u
  <1>4. Good(v)
    BY <1>1, <1>2, SetParser
  <1> HIDE DEF v
  <1>5. Good(w)
    BY <1>1, <1>4, SetParser
  <1> HIDE DEF w
  <1>6. Good(x)
    BY <1>1, <1>5, SetParser
  <1> HIDE DEF x
  <1>7. Good(y)
    BY <1>1, <1>6, SetParser
  <1> QED BY <1>3, <1>7

LEMMA GroundGood ==
    ASSUME NEW t, Good(t)
    PROVE  Good(Ground(t))
  BY RestGood DEF Ground

LEMMA InEscGood ==
    ASSUME NEW t, Good(t), t.utf8 = <<>>, NEW b
    PROVE  Good(InEsc(t, b))
  <1> DEFINE A == [t EXCEPT !.state = "CSI_PARAM", !.params = <<>>, !.val = 0, !.has = FALSE,
                            !.inter = "none"]
             B == [t EXCEPT !.state = "OSC"]
             C == [t EXCEPT !.state = "DCS"]
             u == [t EXCEPT !.state = "ESC_INTER"]
             D == [t EXCEPT !.state = "ESC_INTER", !.inter = b]
             E == Ground(dispatch_esc(t, b))
  <1>1. InEsc(t, b) = CASE b = "[" -> A [] b = "]" -> B [] b = "P" -> C
                        [] b \in Intermediate -> D [] OTHER -> E
    BY Zenon DEF InEsc
  <1>2. Good(A)
    BY RestGood
  <1>3. Good(B) /\ Good(C) /\ Good(u)
    BY SetState DEF ParserStates
  <1>4. b \in Intermediate => Good(D)
    <2>1. D = [u EXCEPT !.inter = b]
      OBVIOUS
    <2> HIDE DEF u, D
    <2>2. ASSUME b \in Intermediate PROVE b \in Intermediates
      BY <2>2 DEF Intermediate, Intermediates
    <2>3. t.params \in Seq(Nat) /\ Len(t.params) =< MAX_PARAMS /\ 0 \in Nat /\ FALSE \in BOOLEAN
      BY ParserFields
    <2> QED BY <1>3, <2>1, <2>2, <2>3, SetParser
  <1>5. Good(E)
    BY EscGood, GroundGood
  <1> HIDE DEF A, B, C, D, E
  <1> QED BY <1>1, <1>2, <1>3, <1>4, <1>5

LEMMA InCsiGood ==
    ASSUME NEW t, Good(t), t.utf8 = <<>>, NEW b
    PROVE  Good(InCsiParam(t, b)) /\ Good(InCsiInter(t, b))
  <1> DEFINE v == IF t.val > PARAM_CAP THEN PARAM_CAP ELSE t.val * 10 + DigitValue(b)
             ps == IF Len(t.params) < MAX_PARAMS
                   THEN Append(t.params, IF t.has THEN t.val ELSE 0) ELSE t.params
             A == [t EXCEPT !.has = TRUE,
                       !.val = IF @ > PARAM_CAP THEN PARAM_CAP ELSE @ * 10 + DigitValue(b)]
             B == [t EXCEPT !.params = IF Len(@) < MAX_PARAMS
                                       THEN Append(@, IF t.has THEN t.val ELSE 0) ELSE @,
                            !.val = 0, !.has = FALSE]
             C == [t EXCEPT !.inter = b]
             D == [t EXCEPT !.inter = b, !.state = "CSI_INTER"]
             E == Ground(dispatch_csi(t, b))
             F == Ground(t)
  <1>0. /\ t.params \in Seq(Nat) /\ Len(t.params) =< MAX_PARAMS /\ t.val \in Nat
        /\ t.has \in BOOLEAN /\ t.inter \in Intermediates /\ PARAM_CAP \in Nat
    BY ParserFields, ScreenAssumption
  <1>1. InCsiParam(t, b) = CASE b \in Decimal -> A [] b = ";" -> B [] b = "?" -> C
                             [] b \in Intermediate -> D [] b \in CsiFinal -> E [] OTHER -> F
    BY Zenon DEF InCsiParam
  <1>2. InCsiInter(t, b) = CASE b \in Intermediate -> t [] b \in CsiFinal -> E [] OTHER -> F
    BY Zenon DEF InCsiInter
  <1>3. ASSUME b \in Decimal PROVE Good(A)
    <2>1. DigitValue(b) \in 0 .. 9
      <3>1. \E n \in 0 .. 9 : Numerals[n + 1] = b
        <4>1. PICK i \in 1 .. 10 : Numerals[i] = b
          BY <1>3 DEF Decimal
        <4>2. i - 1 \in 0 .. 9 /\ (i - 1) + 1 = i
          OBVIOUS
        <4> QED BY <4>1, <4>2
      <3> HIDE DEF v
      <3> QED BY <3>1, Zenon DEF DigitValue
    <2>2. v \in Nat
      BY <1>0, <2>1
    <2> DEFINE x == [t EXCEPT !.has = TRUE]
    <2>3. TRUE \in BOOLEAN
      OBVIOUS
    <2>4. Good(x)
      BY <1>0, <2>3, SetParser
    <2>5. A = [x EXCEPT !.val = v]
      <3>1. x.val = t.val
        BY DEF Good, Emulator
      <3>2. A = [x EXCEPT !.val = IF x.val > PARAM_CAP THEN PARAM_CAP ELSE x.val * 10 + DigitValue(b)]
        OBVIOUS
      <3> HIDE DEF x, A
      <3> QED BY <3>1, <3>2
    <2> HIDE DEF x, v, A
    <2>6. Good([x EXCEPT !.val = v])
      BY <1>0, <2>2, <2>4, SetParser
    <2> QED BY <2>5, <2>6
  <1>4. Good(B)
    <2>1. ps \in Seq(Nat) /\ Len(ps) =< MAX_PARAMS
      <3> DEFINE x == IF t.has THEN t.val ELSE 0
      <3>1. x \in Nat
        BY <1>0
      <3> HIDE DEF x
      <3>2. Len(t.params) < MAX_PARAMS =>
               Append(t.params, x) \in Seq(Nat) /\ Len(Append(t.params, x)) =< MAX_PARAMS
        BY <1>0, <3>1, Appended
      <3> QED BY <1>0, <3>2 DEF x
    <2> DEFINE x == [t EXCEPT !.params = ps]
               y == [x EXCEPT !.val = 0]
               z == [y EXCEPT !.has = FALSE]
    <2>2. B = z
      OBVIOUS
    <2>3. FALSE \in BOOLEAN /\ 0 \in Nat
      OBVIOUS
    <2> HIDE DEF ps, B
    <2>4. Good(x)
      BY <1>0, <2>1, SetParser
    <2> HIDE DEF x
    <2>5. Good(y)
      BY <1>0, <2>1, <2>3, <2>4, SetParser
    <2> HIDE DEF y
    <2>6. Good(z)
      BY <1>0, <2>1, <2>3, <2>5, SetParser
    <2> QED BY <2>2, <2>6
  <1>5. ASSUME b \in {"?", "("} PROVE Good(C) /\ Good(D)
    <2>1. b \in Intermediates
      BY <1>5 DEF Intermediates
    <2>2. Good(C) /\ C.utf8 = <<>>
      <3>1. Good(C)
        BY <1>0, <2>1, SetParser
      <3>2. C.utf8 = <<>>
        BY DEF Good, Emulator
      <3> QED BY <3>1, <3>2
    <2>3. D = [C EXCEPT !.state = "CSI_INTER"]
      OBVIOUS
    <2> HIDE DEF C, D
    <2>4. Good([C EXCEPT !.state = "CSI_INTER"])
      BY <2>2, SetState DEF ParserStates
    <2> QED BY <2>2, <2>3, <2>4
  <1>6. Good(E) /\ Good(F)
    BY CsiGood, GroundGood
  <1>7. b \in Intermediate => b \in {"?", "("}
    BY DEF Intermediate
  <1> HIDE DEF A, B, C, D, E, F
  <1> QED BY <1>1, <1>2, <1>3, <1>4, <1>5, <1>6, <1>7

LEMMA ByteGood ==
    ASSUME NEW t0, Good(t0), NEW b, t0.state # "ABORTED"
    PROVE  Good(process_byte(t0, b))
  <1> DEFINE reading == t0.state = "GROUND" /\ t0.utf8 # <<>>
             t == IF reading THEN [t0 EXCEPT !.utf8 = <<>>] ELSE t0
             A == process_utf8_cont(t0)
             B == [t EXCEPT !.state = "ESC", !.inter = "none"]
  <1>1. process_byte(t0, b) =
          IF reading /\ b = "cont" THEN A
          ELSE IF b = "ESC" THEN B
          ELSE CASE t.state = "GROUND" -> process_ground(t, b)
                 [] t.state = "ESC" -> InEsc(t, b)
                 [] t.state = "ESC_INTER" -> (IF b \in Intermediate THEN t ELSE Ground(t))
                 [] t.state = "CSI_PARAM" -> InCsiParam(t, b)
                 [] t.state = "CSI_INTER" -> InCsiInter(t, b)
                 [] t.state = "OSC" -> (IF b = "BEL" THEN Ground(t) ELSE t)
                 [] t.state = "DCS" -> t
    BY Zenon DEF process_byte
  <1>2. Good(t) /\ t.utf8 = <<>> /\ t.state = t0.state
    <2>1. CASE reading
      <3>1. [t0 EXCEPT !.utf8 = <<>>].state = t0.state
        BY DEF Good, Emulator
      <3> QED BY <2>1, <3>1, SetUtf8
    <2>2. CASE ~reading
      BY <2>2, ParserFields
    <2> QED BY <2>1, <2>2
  <1>3. reading => Good(A)
    BY ContGood
  <1> HIDE DEF t, reading, A
  <1>4. Good(B)
    <2> DEFINE u == [t EXCEPT !.state = "ESC"]
    <2>1. Good(u)
      BY <1>2, SetState DEF ParserStates
    <2>2. B = [u EXCEPT !.inter = "none"]
      OBVIOUS
    <2> HIDE DEF u, B
    <2>3. "none" \in Intermediates /\ FALSE \in BOOLEAN /\ 0 \in Nat
      BY DEF Intermediates
    <2>4. t.params \in Seq(Nat) /\ Len(t.params) =< MAX_PARAMS
      BY <1>2, ParserFields
    <2>5. Good([u EXCEPT !.inter = "none"])
      BY <2>1, <2>3, <2>4, SetParser
    <2> QED BY <2>2, <2>5
  <1> HIDE DEF B
  <1>5. /\ t.state = "GROUND" => Good(process_ground(t, b))
        /\ Good(InEsc(t, b)) /\ Good(Ground(t)) /\ Good(InCsiParam(t, b)) /\ Good(InCsiInter(t, b))
    BY <1>2, GroundStateGood, InEscGood, GroundGood, InCsiGood
  <1>6. t.state \in {"GROUND", "ESC", "ESC_INTER", "CSI_PARAM", "CSI_INTER", "OSC", "DCS"}
    BY <1>2, ParserFields DEF ParserStates
  <1> QED BY <1>1, <1>2, <1>3, <1>4, <1>5, <1>6

\* Whatever bytes are fed, on a screen of any size from one row and one column
\* on, nothing outside of it is indexed and no character is left in half but by
\* the operations that may (ts_render_feed, cell_at, scroll_up,
\* clear_wide_cell).  Only on a screen of one column does a character end the
\* program, a wide one.
THEOREM ScreenSoundTheorem == ScreenSpec => []ScreenSound
  <1>1. SInit => Good(scr)
    BY ResetGood DEF SInit
  <1>2. Good(scr) /\ [SNext]_svars => Good(scr)'
    <2> SUFFICES ASSUME Good(scr), [SNext]_svars PROVE Good(scr')
      OBVIOUS
    <2>1. CASE SNext
      <3>1. PICK b : scr' = process_byte(scr, b) /\ scr.state # "ABORTED"
        BY <2>1 DEF SNext, Feed
      <3> QED BY <3>1, ByteGood
    <2>2. CASE UNCHANGED svars
      BY <2>2 DEF svars
    <2> QED BY <2>1, <2>2
  <1>3. Good(scr) => ScreenSound
    <2> SUFFICES ASSUME Good(scr) PROVE ScreenSound
      OBVIOUS
    <2>1. InScreen
      <3>1. /\ scr.row \in Lines /\ scr.col \in Columns /\ scr.saved \in Lines \X Columns
            /\ scr.top \in Lines /\ scr.bot \in Lines /\ scr.top =< scr.bot
            /\ (scr.top = scr.bot => ROWS = 1)
            /\ Len(scr.params) <= MAX_PARAMS /\ (scr.utf8 # <<>> => scr.state = "GROUND")
            /\ scr.tabs \subseteq Columns
        BY GoodFields, ParserFields DEF Good
      <3>2. 0 <= scr.top /\ scr.bot < ROWS
        BY <3>1, Sizes
      <3> QED BY <3>1, <3>2 DEF InScreen
    <2>2. ~scr.split => GlyphsWhole
      BY DEF Good, RowWhole, GlyphsWhole
    <2>3. scr.state = "ABORTED" => COLS = 1
      BY DEF Good
    <2> QED BY <2>1, <2>2, <2>3 DEF ScreenSound
  <1> QED BY <1>1, <1>2, <1>3, PTL DEF ScreenSpec

-----------------------------------------------------------------------------
(***************************************************************************)
(* The line editor and the paste editor.                                   *)
(***************************************************************************)
\* f begins with v, and g takes each of its values in V to the next.
Recursion(f, n, V, v, g) ==
    f \in [0 .. n -> V] /\ f[0] = v /\ \A i \in 1 .. n : f[i] = g[<<i, f[i - 1]>>]

\* Such a function exists.
LEMMA RecursionExists ==
    ASSUME NEW n \in Nat, NEW V, NEW v \in V, NEW g \in [(1 .. n) \X V -> V]
    PROVE  \E f : Recursion(f, n, V, v, g)
  <1> DEFINE Holds(f, k) == /\ f \in [0 .. k -> V] /\ f[0] = v
                            /\ \A i \in 1 .. k : f[i] = g[<<i, f[i - 1]>>]
             T == {k \in 0 .. n : \E f : Holds(f, k)}
  <1>1. 0 \in T
    <2> DEFINE f == [i \in 0 .. 0 |-> v]
    <2>1. Holds(f, 0)
      OBVIOUS
    <2>2. 0 \in 0 .. n
      OBVIOUS
    <2> HIDE DEF Holds, f
    <2> QED BY <2>1, <2>2
  <1>2. ASSUME NEW k \in 1 .. n, k - 1 \in T PROVE k \in T
    <2>1. PICK f : Holds(f, k - 1)
      BY <1>2
    <2>2. f[k - 1] \in V
      BY <2>1
    <2>3. g[<<k, f[k - 1]>>] \in V
      BY <2>2
    <2> DEFINE h == [i \in 0 .. k |-> IF i = k THEN g[<<k, f[k - 1]>>] ELSE f[i]]
    <2>4. \A i \in 0 .. k - 1 : h[i] = f[i] /\ f[i] \in V
      BY <2>1
    <2>5. h \in [0 .. k -> V] /\ h[0] = v /\ h[k] = g[<<k, f[k - 1]>>]
      BY <2>1, <2>3, <2>4
    <2> HIDE DEF h
    <2>6. ASSUME NEW i \in 1 .. k PROVE h[i] = g[<<i, h[i - 1]>>]
      <3>1. h[i - 1] = f[i - 1]
        BY <2>4
      <3>2. CASE i = k
        BY <3>1, <3>2, <2>5
      <3>3. CASE i # k
        <4>1. i \in 1 .. k - 1 /\ i \in 0 .. k - 1
          BY <3>3
        <4> QED BY <3>1, <4>1, <2>1, <2>4
      <3> QED BY <3>2, <3>3
    <2>7. Holds(h, k)
      BY <2>5, <2>6
    <2> HIDE DEF Holds
    <2> QED BY <2>7
  <1> HIDE DEF T, Holds
  <1>3. n \in 0 .. n
    OBVIOUS
  <1>4. n \in T
    BY <1>1, <1>2, <1>3, UpTo
  <1> QED BY <1>4 DEF T, Holds, Recursion

EditBytes == Letters \cup {NL, Slash}

\* The last and the first of some positions.
LEMMA Ends ==
    ASSUME NEW n \in Nat, NEW S \in SUBSET (0 .. n), S # {}
    PROVE  /\ \E i \in S : \A j \in S : j <= i
           /\ \E i \in S : \A j \in S : i <= j
  <1>1. \E i \in S : \A j \in S : i <= j
    <2>1. S \in SUBSET Nat
      OBVIOUS
    <2> QED BY <2>1, LeastNatural
  <1>2. \E i \in S : \A j \in S : j <= i
    <2> DEFINE T == {n - i : i \in S}
    <2>0. \A i \in S : i \in 0 .. n /\ n - i \in Nat
      OBVIOUS
    <2>1. T \in SUBSET Nat /\ T # {}
      BY <2>0
    <2>2. \E k \in T : \A m \in T : k =< m
      <3> HIDE DEF T
      <3> QED BY <2>1, LeastNatural
    <2>3. PICK i \in S : \A m \in T : n - i =< m
      BY <2>2
    <2>4. \A j \in S : n - i =< n - j
      BY <2>3
    <2>5. \A j \in S : j <= i
      BY <2>4
    <2> QED BY <2>5
  <1> QED BY <1>1, <1>2

\* A line starts after the last line end before the position.
LEMMA StartFacts ==
    ASSUME NEW b, NEW p \in Nat
    PROVE  /\ paste_line_start(b, p) \in 0 .. p
           /\ paste_line_start(b, p) # 0 => b[paste_line_start(b, p)] = NL
           /\ \A i \in paste_line_start(b, p) + 1 .. p : b[i] # NL
  <1> DEFINE B == {i \in 1 .. p : b[i] = NL}
             s == paste_line_start(b, p)
  <1>1. s = IF B = {} THEN 0 ELSE CHOOSE i \in B : \A j \in B : j <= i
    BY DEF paste_line_start
  <1>2. CASE B = {}
    BY <1>1, <1>2
  <1>3. CASE B # {}
    <2>1. B \in SUBSET (0 .. p)
      OBVIOUS
    <2>2. \E i \in B : \A j \in B : j <= i
      <3> HIDE DEF B
      <3> QED BY <1>3, <2>1, Ends
    <2>3. s \in B /\ \A j \in B : j <= s
      <3> HIDE DEF B, s
      <3> QED BY <1>1, <1>3, <2>2
    <2>4. s \in 1 .. p /\ b[s] = NL
      BY <2>3
    <2>5. ASSUME NEW i \in s + 1 .. p, b[i] = NL PROVE FALSE
      <3>1. i \in B
        BY <2>4, <2>5
      <3> QED BY <2>3, <2>4, <3>1
    <2> QED BY <2>4, <2>5
  <1> QED BY <1>2, <1>3

\* A line ends before the first line end from the position on.
LEMMA EndFacts ==
    ASSUME NEW b, Len(b) \in Nat, NEW p \in 0 .. Len(b)
    PROVE  /\ paste_line_end(b, p) \in p .. Len(b)
           /\ paste_line_end(b, p) # Len(b) => b[paste_line_end(b, p) + 1] = NL
           /\ \A i \in p + 1 .. paste_line_end(b, p) : b[i] # NL
  <1> DEFINE n == Len(b)
             B == {i \in p .. n - 1 : b[i + 1] = NL}
             e == paste_line_end(b, p)
  <1>1. e = IF B = {} THEN n ELSE CHOOSE i \in B : \A j \in B : i <= j
    BY DEF paste_line_end
  <1> HIDE DEF e, n
  <1>2. n \in Nat /\ p \in 0 .. n
    BY DEF n
  <1>3. ASSUME NEW i \in p + 1 .. n, b[i] = NL PROVE i - 1 \in B
    <2>1. i - 1 \in p .. n - 1 /\ (i - 1) + 1 = i
      BY <1>2
    <2> QED BY <1>3, <2>1
  <1>4. CASE B = {}
    <2>1. e = n
      BY <1>1, <1>4, Zenon
    <2>2. \A i \in p + 1 .. n : b[i] # NL
      BY <1>3, <1>4
    <2> QED BY <1>2, <2>1, <2>2 DEF e, n
  <1>5. CASE B # {}
    <2>1. B \in SUBSET (0 .. n)
      BY <1>2
    <2>2. \E i \in B : \A j \in B : i <= j
      <3> HIDE DEF B
      <3> QED BY <1>2, <1>5, <2>1, Ends
    <2>3. e \in B /\ \A j \in B : e <= j
      <3> HIDE DEF B
      <3> QED BY <1>1, <1>5, <2>2
    <2>4. e \in p .. n - 1 /\ b[e + 1] = NL
      BY <2>3
    <2>5. ASSUME NEW i \in p + 1 .. e, b[i] = NL PROVE FALSE
      <3>1. i \in p + 1 .. n /\ ~(e <= i - 1)
        BY <1>2, <2>4
      <3> QED BY <1>3, <2>3, <2>5, <3>1
    <2> QED BY <1>2, <2>4, <2>5 DEF e, n
  <1> QED BY <1>4, <1>5

\* A position is on the line of an earlier one when no line end is between
\* them, and on a later line otherwise.
LEMMA SameLine ==
    ASSUME NEW p \in Nat, NEW q \in 0 .. p, \A i \in q + 1 .. p : buf[i] # NL
    PROVE  LineOf(q) = LineOf(p)
  <1>1. {i \in 1 .. q : buf[i] = NL} = {i \in 1 .. p : buf[i] = NL}
    OBVIOUS
  <1> QED BY <1>1, Zenon DEF LineOf

LEMMA LineNat ==
    ASSUME NEW p \in Nat
    PROVE  IsFiniteSet({i \in 1 .. p : buf[i] = NL}) /\ LineOf(p) \in Nat
  <1> DEFINE S == {i \in 1 .. p : buf[i] = NL}
  <1>1. IsFiniteSet(1 .. p)
    BY FS_Interval
  <1>2. S \subseteq 1 .. p
    OBVIOUS
  <1>3. IsFiniteSet(S)
    <2> HIDE DEF S
    <2> QED BY <1>1, <1>2, FS_Subset
  <1>4. Cardinality(S) \in Nat
    <2> HIDE DEF S
    <2> QED BY <1>3, FS_CardinalityType
  <1> QED BY <1>3, <1>4 DEF LineOf

LEMMA LaterLine ==
    ASSUME NEW p \in Nat, NEW q \in 0 .. p
    PROVE  /\ LineOf(q) =< LineOf(p)
           /\ (\E i \in q + 1 .. p : buf[i] = NL) => LineOf(q) < LineOf(p)
  <1> DEFINE S == {i \in 1 .. p : buf[i] = NL}
             T == {i \in 1 .. q : buf[i] = NL}
  <1>1. IsFiniteSet(S) /\ LineOf(p) = Cardinality(S) /\ LineOf(q) = Cardinality(T)
    BY LineNat DEF LineOf
  <1>2. T \in SUBSET S
    OBVIOUS
  <1>3. (\E i \in q + 1 .. p : buf[i] = NL) => T # S
    OBVIOUS
  <1> HIDE DEF S, T
  <1>4. Cardinality(T) =< Cardinality(S) /\ (T # S => Cardinality(T) < Cardinality(S))
    <2>1. IsFiniteSet(T) /\ Cardinality(T) \in Nat /\ Cardinality(S) \in Nat
      BY <1>1, <1>2, FS_Subset, FS_CardinalityType
    <2> QED BY <1>1, <1>2, <2>1, FS_Subset
  <1> QED BY <1>1, <1>3, <1>4

\* A line end adds one to the line.
LEMMA NextLine ==
    ASSUME NEW p \in Nat \ {0}, buf[p] = NL
    PROVE  LineOf(p) = LineOf(p - 1) + 1
  <1> DEFINE S == {i \in 1 .. p - 1 : buf[i] = NL}
  <1>1. p - 1 \in Nat /\ IsFiniteSet(S) /\ LineOf(p - 1) = Cardinality(S)
    BY LineNat DEF LineOf
  <1>2. {i \in 1 .. p : buf[i] = NL} = S \cup {p}
    OBVIOUS
  <1>3. p \notin S
    OBVIOUS
  <1>4. LineOf(p) = Cardinality(S \cup {p})
    BY <1>2, Zenon DEF LineOf
  <1> HIDE DEF S
  <1>5. Cardinality(S \cup {p}) = Cardinality(S) + 1
    BY <1>1, <1>3, FS_AddElement
  <1> QED BY <1>1, <1>4, <1>5

\* The columns of a line count from its start.
LEMMA ColumnFrom ==
    ASSUME NEW p \in Nat, NEW s \in 0 .. p, s # 0 => buf[s] = NL,
           \A i \in s + 1 .. p : buf[i] # NL
    PROVE  ColumnOf(p) = p - s
  <1> DEFINE S == {q \in 0 .. p - 1 : LineOf(q) = LineOf(p)}
  <1>1. ASSUME NEW q \in s .. p - 1 PROVE LineOf(q) = LineOf(p)
    <2>1. q \in 0 .. p /\ \A i \in q + 1 .. p : buf[i] # NL
      OBVIOUS
    <2> QED BY <2>1, SameLine
  <1>2. ASSUME NEW q \in 0 .. p - 1, q < s PROVE LineOf(q) # LineOf(p)
    <2>1. q \in 0 .. p /\ s \in q + 1 .. p /\ buf[s] = NL
      BY <1>2
    <2>2. LineOf(q) < LineOf(p)
      BY <2>1, LaterLine
    <2>3. LineOf(q) \in Nat /\ LineOf(p) \in Nat
      <3>1. q \in Nat
        OBVIOUS
      <3> QED BY <3>1, LineNat
    <2> QED BY <2>2, <2>3
  <1>3. S = s .. p - 1
    BY <1>1, <1>2
  <1>4. Cardinality(s .. p - 1) = p - s
    <2>1. s \in Int /\ p - 1 \in Int
      OBVIOUS
    <2>2. Cardinality(s .. p - 1) = IF s > p - 1 THEN 0 ELSE (p - 1) - s + 1
      BY <2>1, FS_Interval
    <2> QED BY <2>2
  <1> QED BY <1>3, <1>4, Zenon DEF ColumnOf

\* The positions from s to e are one line of the text.
IsLine(s, e) ==
    /\ s \in 0 .. Len(buf) /\ e \in s .. Len(buf)
    /\ s # 0 => buf[s] = NL
    /\ \A i \in s + 1 .. e : buf[i] # NL
    /\ e # Len(buf) => buf[e + 1] = NL

LEMMA OnLine ==
    ASSUME Len(buf) \in Nat, NEW s, NEW e, IsLine(s, e), NEW p \in 0 .. Len(buf)
    PROVE  /\ LineOf(p) = LineOf(s) <=> p \in s .. e
           /\ p \in s .. e => ColumnOf(p) = p - s
  <1> DEFINE n == Len(buf)
  <1> HIDE DEF n
  <1>0. /\ n \in Nat /\ p \in 0 .. n /\ s \in 0 .. n /\ e \in s .. n /\ (s # 0 => buf[s] = NL)
        /\ (\A i \in s + 1 .. e : buf[i] # NL) /\ (e # n => buf[e + 1] = NL)
    BY DEF IsLine, n
  <1>1. LineOf(p) \in Nat /\ LineOf(s) \in Nat
    <2>1. p \in Nat /\ s \in Nat
      BY <1>0
    <2> QED BY <2>1, LineNat
  <1>2. CASE p \in s .. e
    <2>1. s \in Nat /\ p \in Nat /\ s \in 0 .. p /\ \A i \in s + 1 .. p : buf[i] # NL
      BY <1>0, <1>2
    <2>2. LineOf(s) = LineOf(p)
      BY <2>1, SameLine
    <2>3. ColumnOf(p) = p - s
      BY <1>0, <2>1, ColumnFrom
    <2> QED BY <1>2, <2>2, <2>3
  <1>3. CASE p < s
    <2>1. s \in Nat /\ p \in 0 .. s /\ s \in p + 1 .. s /\ buf[s] = NL
      BY <1>0, <1>3
    <2>2. LineOf(p) < LineOf(s)
      BY <2>1, LaterLine
    <2> QED BY <1>0, <1>1, <1>3, <2>2
  <1>4. CASE p > e
    <2>1. p \in Nat /\ s \in 0 .. p /\ e + 1 \in s + 1 .. p /\ buf[e + 1] = NL
      BY <1>0, <1>4
    <2>2. LineOf(s) < LineOf(p)
      BY <2>1, LaterLine
    <2> QED BY <1>0, <1>1, <1>4, <2>2
  <1> QED BY <1>0, <1>2, <1>3, <1>4

\* What an arrow that goes d lines on is to do.
Arrow(q, d) ==
    LET there == {p \in 0 .. Len(buf) : LineOf(p) = LineOf(cursor) + d}
    IN  IF there = {} THEN q = cursor
        ELSE /\ q \in there
             /\ ColumnOf(q) <= ColumnOf(cursor)
             /\ \A p \in there : ColumnOf(p) <= ColumnOf(cursor) => ColumnOf(p) <= ColumnOf(q)

LEMMA ArrowLands ==
    ASSUME Len(buf) \in Nat, NEW s, NEW e, IsLine(s, e), NEW d \in Int, NEW c \in Nat,
           ColumnOf(cursor) = c, LineOf(s) = LineOf(cursor) + d
    PROVE  Arrow(s + Shorter(c, e - s), d)
  <1> DEFINE n == Len(buf)
             q == s + Shorter(c, e - s)
             there == {p \in 0 .. Len(buf) : LineOf(p) = LineOf(cursor) + d}
  <1>0. n \in Nat /\ s \in 0 .. n /\ e \in s .. n
    BY DEF IsLine
  <1> HIDE DEF n
  <1>1. q \in s .. e /\ q - s =< c /\ (q = e \/ q - s = c) /\ q \in 0 .. n
    BY <1>0 DEF Shorter
  <1> HIDE DEF q
  <1>2. \A p \in 0 .. n : (LineOf(p) = LineOf(s) <=> p \in s .. e) /\ (p \in s .. e => ColumnOf(p) = p - s)
    BY OnLine DEF n
  <1>3. there = s .. e
    BY <1>0, <1>2 DEF n
  <1>4. ColumnOf(q) = q - s /\ \A p \in s .. e : ColumnOf(p) = p - s
    BY <1>0, <1>1, <1>2
  <1>5. q \in there /\ there # {} /\ ColumnOf(q) =< ColumnOf(cursor)
    BY <1>1, <1>3, <1>4
  <1>6. ASSUME NEW p \in there, ColumnOf(p) =< ColumnOf(cursor) PROVE ColumnOf(p) =< ColumnOf(q)
    <2> HIDE DEF there
    <2>1. p \in s .. e
      BY <1>3
    <2>2. ColumnOf(p) = p - s
      BY <2>1, <1>4
    <2> QED BY <2>1, <2>2, <1>0, <1>1, <1>4, <1>6
  <1>7. Arrow(q, d)
    BY <1>5, <1>6, Zenon DEF Arrow
  <1> QED BY <1>7 DEF q

Typed == buf \in Seq(EditBytes) /\ cursor \in 0 .. Len(buf)

LEMMA ColumnHere ==
    ASSUME NEW p \in Nat
    PROVE  ColumnOf(p) = paste_col(buf, p) /\ paste_col(buf, p) \in Nat
  <1> DEFINE s == paste_line_start(buf, p)
  <1>1. s \in 0 .. p /\ (s # 0 => buf[s] = NL) /\ \A i \in s + 1 .. p : buf[i] # NL
    BY StartFacts
  <1>2. paste_col(buf, p) = p - s
    BY DEF paste_col
  <1> HIDE DEF s
  <1>3. ColumnOf(p) = p - s
    BY <1>1, ColumnFrom
  <1> QED BY <1>1, <1>2, <1>3

LEMMA UpMoves == Typed => Arrow(PasteUp(Line).cursor, -1)
  <1> SUFFICES ASSUME Typed PROVE Arrow(PasteUp(Line).cursor, -1)
    OBVIOUS
  <1> DEFINE n == Len(buf)
             s == paste_line_start(buf, cursor)
             r == paste_line_start(buf, s - 1)
             c == cursor - s
  <1>1. n \in Nat /\ cursor \in 0 .. n /\ cursor \in Nat
    BY DEF Typed
  <1>2. s \in 0 .. cursor /\ (s # 0 => buf[s] = NL) /\ \A i \in s + 1 .. cursor : buf[i] # NL
    BY <1>1, StartFacts
  <1>3. Line.buf = buf /\ Line.cursor = cursor
    BY DEF Line, At
  <1>4. PasteUp(Line).cursor = IF s = 0 THEN cursor ELSE r + Shorter(c, s - 1 - r)
    <2>1. PasteUp(Line) = IF s = 0 THEN Line ELSE At(buf, r + Shorter(c, s - 1 - r))
      BY <1>3, Zenon DEF PasteUp
    <2> QED BY <2>1, <1>3 DEF At
  <1>5. LineOf(cursor) = LineOf(s) /\ LineOf(s) \in Nat
    <2> HIDE DEF s
    <2>1. LineOf(s) = LineOf(cursor)
      BY <1>1, <1>2, SameLine
    <2> QED BY <2>1, <1>1, LineNat
  <1>6. CASE s = 0
    <2>1. LineOf(0) = 0
      <3>1. {i \in 1 .. 0 : buf[i] = NL} = {}
        OBVIOUS
      <3> QED BY <3>1, FS_EmptySet DEF LineOf
    <2>2. ASSUME NEW p \in 0 .. n, LineOf(p) = LineOf(cursor) + (-1) PROVE FALSE
      <3>0. p \in Nat
        BY <1>1
      <3>1. LineOf(p) \in Nat
        BY <3>0, LineNat
      <3> QED BY <3>1, <2>1, <2>2, <1>5, <1>6
    <2>3. {p \in 0 .. Len(buf) : LineOf(p) = LineOf(cursor) + (-1)} = {}
      BY <2>2
    <2>4. PasteUp(Line).cursor = cursor
      BY <1>4, <1>6
    <2> QED BY <2>3, <2>4, Zenon DEF Arrow
  <1>7. CASE s # 0
    <2>1. s \in Nat \ {0} /\ s - 1 \in Nat /\ buf[s] = NL /\ s =< n /\ c \in Nat /\ s - 1 \in 0 .. n
      BY <1>1, <1>2, <1>7
    <2>2. r \in 0 .. s - 1 /\ (r # 0 => buf[r] = NL) /\ \A i \in r + 1 .. s - 1 : buf[i] # NL
      BY <2>1, StartFacts
    <2>3. IsLine(r, s - 1)
      <3> HIDE DEF s, r
      <3>1. (s - 1) + 1 = s
        BY <2>1
      <3> QED BY <1>1, <2>1, <2>2, <3>1 DEF IsLine, n
    <2>4. ColumnOf(cursor) = c
      <3>1. paste_col(buf, cursor) = c
        BY DEF paste_col
      <3> QED BY <3>1, <1>1, ColumnHere
    <2>5. LineOf(r) = LineOf(cursor) + (-1)
      <3> HIDE DEF s, r, c
      <3>1. LineOf(s) = LineOf(s - 1) + 1 /\ LineOf(s - 1) \in Nat
        BY <2>1, NextLine, LineNat
      <3>2. LineOf(r) = LineOf(s - 1)
        BY <2>1, <2>2, SameLine
      <3> QED BY <3>1, <3>2, <1>5
    <2> HIDE DEF s, r, c
    <2>6. Arrow(r + Shorter(c, s - 1 - r), -1)
      <3>1. -1 \in Int /\ Len(buf) \in Nat
        BY <1>1
      <3> QED BY <3>1, <2>1, <2>3, <2>4, <2>5, ArrowLands
    <2> QED BY <2>6, <1>4, <1>7
  <1> QED BY <1>6, <1>7

LEMMA DownMoves == Typed => Arrow(PasteDown(Line).cursor, 1)
  <1> SUFFICES ASSUME Typed PROVE Arrow(PasteDown(Line).cursor, 1)
    OBVIOUS
  <1> DEFINE n == Len(buf)
             e == paste_line_end(buf, cursor)
             f == paste_line_end(buf, e + 1)
             c == paste_col(buf, cursor)
  <1>1. n \in Nat /\ cursor \in 0 .. n /\ cursor \in Nat
    BY DEF Typed
  <1>2. e \in cursor .. n /\ (e # n => buf[e + 1] = NL) /\ \A i \in cursor + 1 .. e : buf[i] # NL
    BY <1>1, EndFacts
  <1>3. Line.buf = buf /\ Line.cursor = cursor
    BY DEF Line, At
  <1>4. PasteDown(Line).cursor = IF e >= n THEN cursor ELSE e + 1 + Shorter(c, f - e - 1)
    <2>1. PasteDown(Line) = IF e >= n THEN Line ELSE At(buf, e + 1 + Shorter(c, f - e - 1))
      BY <1>3, Zenon DEF PasteDown
    <2> QED BY <2>1, <1>3 DEF At
  <1>5. LineOf(cursor) = LineOf(e) /\ LineOf(cursor) \in Nat
    <2> HIDE DEF e
    <2>1. e \in Nat /\ cursor \in 0 .. e
      BY <1>1, <1>2
    <2>2. LineOf(cursor) = LineOf(e)
      BY <1>2, <2>1, SameLine
    <2> QED BY <2>2, <1>1, LineNat
  <1>6. CASE e >= n
    <2>1. e = n
      BY <1>1, <1>2, <1>6
    <2>2. ASSUME NEW p \in 0 .. n, LineOf(p) = LineOf(cursor) + 1 PROVE FALSE
      <3> HIDE DEF e, n
      <3>0. p \in Nat
        BY <1>1
      <3>1. LineOf(p) \in Nat /\ LineOf(p) =< LineOf(n)
        BY <3>0, <1>1, LineNat, LaterLine
      <3> QED BY <3>1, <2>1, <2>2, <1>5
    <2>3. {p \in 0 .. Len(buf) : LineOf(p) = LineOf(cursor) + 1} = {}
      BY <2>2
    <2>4. PasteDown(Line).cursor = cursor
      BY <1>4, <1>6
    <2> QED BY <2>3, <2>4, Zenon DEF Arrow
  <1>7. CASE ~(e >= n)
    <2>1. e \in Nat /\ e + 1 \in Nat \ {0} /\ e + 1 \in 0 .. n /\ buf[e + 1] = NL /\ e # n
      BY <1>1, <1>2, <1>7
    <2>2. f \in e + 1 .. n /\ (f # n => buf[f + 1] = NL) /\ \A i \in (e + 1) + 1 .. f : buf[i] # NL
      <3> HIDE DEF e
      <3> QED BY <1>1, <2>1, EndFacts
    <2>3. IsLine(e + 1, f)
      <3> HIDE DEF e, f
      <3> QED BY <1>1, <2>1, <2>2 DEF IsLine, n
    <2>4. ColumnOf(cursor) = c /\ c \in Nat
      BY <1>1, ColumnHere
    <2>5. LineOf(e + 1) = LineOf(cursor) + 1
      <3> HIDE DEF e
      <3> DEFINE k == e + 1
      <3>1. k \in Nat \ {0} /\ buf[k] = NL /\ k - 1 = e
        BY <2>1
      <3> HIDE DEF k
      <3>2. LineOf(k) = LineOf(k - 1) + 1
        BY <3>1, NextLine
      <3> QED BY <3>1, <3>2, <1>5 DEF k
    <2> HIDE DEF e, f, c
    <2>6. Arrow(e + 1 + Shorter(c, f - (e + 1)), 1)
      <3> DEFINE k == e + 1
      <3>1. 1 \in Int /\ Len(buf) \in Nat
        BY <1>1
      <3>2. IsLine(k, f) /\ LineOf(k) = LineOf(cursor) + 1
        BY <2>3, <2>5
      <3> HIDE DEF k
      <3>3. Arrow(k + Shorter(c, f - k), 1)
        BY <3>1, <3>2, <2>4, ArrowLands
      <3> QED BY <3>3 DEF k
    <2>7. f - (e + 1) = f - e - 1
      BY <2>1, <2>2
    <2>8. PasteDown(Line).cursor = e + 1 + Shorter(c, f - (e + 1))
      BY <1>4, <1>7, <2>7
    <2> QED BY <2>6, <2>8
  <1> QED BY <1>6, <1>7

LEMMA ArrowsMove == Typed => ArrowsMoveOneLine
  <1> SUFFICES ASSUME Typed PROVE ArrowsMoveOneLine
    OBVIOUS
  <1>1. Arrow(PasteUp(Line).cursor, -1) /\ Arrow(PasteDown(Line).cursor, 1)
    BY UpMoves, DownMoves
  <1> DEFINE up == PasteUp(Line)
             down == PasteDown(Line)
  <1>2. ASSUME NEW move \in {<<up, -1>>, <<down, 1>>} PROVE Arrow(move[1].cursor, move[2])
    <2> HIDE DEF up, down
    <2>1. \/ move[1] = up /\ move[2] = -1
          \/ move[1] = down /\ move[2] = 1
      OBVIOUS
    <2> QED BY <2>1, <1>1 DEF up, down
  <1> QED BY <1>2, Zenon DEF ArrowsMoveOneLine, Arrow

-----------------------------------------------------------------------------
\* Texts, and texts with a cursor in them.
Texts == Seq(EditBytes)
EditLines == {l \in [buf : Texts, cursor : Nat] : l.cursor <= Len(l.buf)}

LEMMA AtGood ==
    ASSUME NEW b \in Texts, NEW c \in 0 .. Len(b)
    PROVE  At(b, c) \in EditLines /\ At(b, c).buf = b /\ At(b, c).cursor = c
  <1>1. Len(b) \in Nat
    BY DEF Texts
  <1> QED BY <1>1 DEF At, EditLines

LEMMA LineParts ==
    ASSUME NEW l \in EditLines
    PROVE  /\ l.buf \in Texts /\ Len(l.buf) \in Nat /\ l.cursor \in 0 .. Len(l.buf) /\ l.cursor \in Nat
           /\ l = At(l.buf, l.cursor)
  <1>1. l.buf \in Texts /\ l.cursor \in Nat /\ l.cursor <= Len(l.buf)
    BY DEF EditLines
  <1>2. Len(l.buf) \in Nat
    BY <1>1 DEF Texts
  <1>3. l = At(l.buf, l.cursor)
    BY DEF EditLines, At
  <1> QED BY <1>1, <1>2, <1>3

\* A part of a text, and a text put together of two.
LEMMA PartGood ==
    ASSUME NEW b \in Texts, NEW i \in Nat \ {0}, NEW j \in 0 .. Len(b)
    PROVE  SubSeq(b, i, j) \in Texts /\ Len(SubSeq(b, i, j)) = IF i =< j THEN j - i + 1 ELSE 0
  BY DEF Texts

LEMMA JoinGood ==
    ASSUME NEW a \in Texts, NEW b \in Texts
    PROVE  a \o b \in Texts /\ Len(a \o b) = Len(a) + Len(b) /\ Len(a) \in Nat /\ Len(b) \in Nat
  BY DEF Texts

LEMMA InsertGood ==
    ASSUME NEW l \in EditLines, NEW ch \in EditBytes
    PROVE  line_insert_char(l, ch) \in EditLines
  <1> DEFINE b == l.buf
             c == l.cursor
             n == Len(b)
             u == SubSeq(b, 1, c)
             v == SubSeq(b, c + 1, n)
             m == <<ch>>
  <1>1. b \in Texts /\ n \in Nat /\ c \in 0 .. n
    BY LineParts
  <1>2. u \in Texts /\ Len(u) = c
    <2> HIDE DEF b, c
    <2>1. Len(u) = IF 1 =< c THEN c - 1 + 1 ELSE 0
      BY <1>1, PartGood
    <2> QED BY <1>1, <2>1, PartGood
  <1>3. v \in Texts /\ Len(v) = n - c
    <2> DEFINE k == c + 1
    <2>1. k \in Nat \ {0} /\ n \in 0 .. n
      BY <1>1
    <2> HIDE DEF b, c, n, k
    <2>2. SubSeq(b, k, n) \in Texts /\ Len(SubSeq(b, k, n)) = IF k =< n THEN n - k + 1 ELSE 0
      BY <1>1, <2>1, PartGood DEF n
    <2> QED BY <1>1, <2>2 DEF k
  <1>4. m \in Texts /\ Len(m) = 1
    BY DEF Texts
  <1> HIDE DEF u, v, m
  <1>5. u \o m \in Texts /\ Len(u \o m) = c + 1
    BY <1>1, <1>2, <1>4, JoinGood
  <1>6. (u \o m) \o v \in Texts /\ Len((u \o m) \o v) = n + 1
    <2> HIDE DEF b, c, n
    <2>1. (u \o m) \o v \in Texts /\ Len((u \o m) \o v) = Len(u \o m) + Len(v)
      BY <1>5, <1>3, JoinGood
    <2> QED BY <2>1, <1>1, <1>3, <1>5
  <1>7. line_insert_char(l, ch) = At((u \o m) \o v, c + 1)
    BY Zenon DEF line_insert_char, u, v, m
  <1>8. c + 1 \in 0 .. Len((u \o m) \o v)
    BY <1>1, <1>6
  <1> HIDE DEF b, c, n
  <1> QED BY <1>6, <1>7, <1>8, AtGood

LEMMA DeleteBackGood ==
    ASSUME NEW l \in EditLines
    PROVE  line_delete_back(l) \in EditLines
  <1> DEFINE b == l.buf
             c == l.cursor
             n == Len(b)
             u == SubSeq(b, 1, c - 1)
             v == SubSeq(b, c + 1, n)
  <1>1. b \in Texts /\ n \in Nat /\ c \in 0 .. n
    BY LineParts
  <1>2. CASE c = 0
    BY <1>2 DEF line_delete_back
  <1>3. CASE c # 0
    <2>1. u \in Texts /\ Len(u) = c - 1
      <3> DEFINE k == c - 1
      <3>1. k \in 0 .. n /\ 1 \in Nat \ {0}
        BY <1>1, <1>3
      <3> HIDE DEF b, c, n, k
      <3>2. SubSeq(b, 1, k) \in Texts /\ Len(SubSeq(b, 1, k)) = IF 1 =< k THEN k - 1 + 1 ELSE 0
        BY <1>1, <3>1, PartGood DEF n
      <3> QED BY <1>1, <3>1, <3>2 DEF k
    <2>2. v \in Texts
      <3> DEFINE k == c + 1
      <3>1. k \in Nat \ {0} /\ n \in 0 .. n
        BY <1>1
      <3> HIDE DEF b, c, n, k
      <3> QED BY <1>1, <3>1, PartGood DEF n, k
    <2>3. line_delete_back(l) = At(u \o v, c - 1)
      BY <1>3, Zenon DEF line_delete_back
    <2> HIDE DEF u, v
    <2>4. u \o v \in Texts /\ Len(u \o v) = Len(u) + Len(v) /\ Len(v) \in Nat
      BY <2>1, <2>2, JoinGood
    <2>5. c - 1 \in 0 .. Len(u \o v)
      BY <1>1, <1>3, <2>1, <2>4
    <2> HIDE DEF b, c, n
    <2> QED BY <2>3, <2>4, <2>5, AtGood
  <1> QED BY <1>2, <1>3

LEMMA DeleteForwardGood ==
    ASSUME NEW l \in EditLines
    PROVE  line_delete_forward(l) \in EditLines
  <1> DEFINE b == l.buf
             c == l.cursor
             n == Len(b)
             u == SubSeq(b, 1, c)
             v == SubSeq(b, c + 2, n)
  <1>1. b \in Texts /\ n \in Nat /\ c \in 0 .. n
    BY LineParts
  <1>2. CASE c >= n
    BY <1>2 DEF line_delete_forward
  <1>3. CASE ~(c >= n)
    <2>1. u \in Texts /\ Len(u) = c
      <3> HIDE DEF b, c, n
      <3>1. Len(u) = IF 1 =< c THEN c - 1 + 1 ELSE 0
        BY <1>1, PartGood DEF n
      <3> QED BY <1>1, <3>1, PartGood DEF n
    <2>2. v \in Texts
      <3> DEFINE k == c + 2
      <3>1. k \in Nat \ {0} /\ n \in 0 .. n
        BY <1>1
      <3> HIDE DEF b, c, n, k
      <3> QED BY <1>1, <3>1, PartGood DEF n, k
    <2>3. line_delete_forward(l) = At(u \o v, c)
      BY <1>3, Zenon DEF line_delete_forward
    <2> HIDE DEF u, v
    <2>4. u \o v \in Texts /\ Len(u \o v) = Len(u) + Len(v) /\ Len(v) \in Nat
      BY <2>1, <2>2, JoinGood
    <2>5. c \in 0 .. Len(u \o v)
      BY <1>1, <1>3, <2>1, <2>4
    <2> HIDE DEF b, c, n
    <2> QED BY <2>3, <2>4, <2>5, AtGood
  <1> QED BY <1>2, <1>3

\* The moves within a line and by one line keep the cursor in the text.
LEMMA MovesGood ==
    ASSUME NEW l \in EditLines
    PROVE  /\ line_move_left(l) \in EditLines /\ line_move_right(l) \in EditLines
           /\ line_move_home(l) \in EditLines /\ line_move_end(l) \in EditLines
  <1> DEFINE b == l.buf
             c == l.cursor
             n == Len(b)
  <1>1. b \in Texts /\ n \in Nat /\ c \in 0 .. n
    BY LineParts
  <1>2. \A d \in 0 .. n : At(b, d) \in EditLines
    BY <1>1, AtGood
  <1>3. line_move_left(l) = (IF c > 0 THEN At(b, c - 1) ELSE l)
        /\ line_move_right(l) = (IF c < n THEN At(b, c + 1) ELSE l)
        /\ line_move_home(l) = At(b, 0) /\ line_move_end(l) = At(b, n)
    BY Zenon DEF line_move_left, line_move_right, line_move_home, line_move_end
  <1> HIDE DEF b, c, n
  <1> QED BY <1>1, <1>2, <1>3

LEMMA UpGood ==
    ASSUME NEW l \in EditLines
    PROVE  PasteUp(l) \in EditLines /\ At(l.buf, paste_line_start(l.buf, l.cursor)) \in EditLines
  <1> DEFINE b == l.buf
             c == l.cursor
             n == Len(b)
             s == paste_line_start(b, c)
             r == paste_line_start(b, s - 1)
             t == r + Shorter(c - s, s - 1 - r)
  <1>1. b \in Texts /\ n \in Nat /\ c \in 0 .. n /\ c \in Nat
    BY LineParts
  <1>2. \A d \in 0 .. n : At(b, d) \in EditLines
    BY <1>1, AtGood
  <1>3. s \in 0 .. c /\ s \in 0 .. n
    <2>1. s \in 0 .. c
      <3> HIDE DEF b, c
      <3> QED BY <1>1, StartFacts
    <2> QED BY <1>1, <2>1
  <1>4. PasteUp(l) = IF s = 0 THEN l ELSE At(b, t)
    BY Zenon DEF PasteUp
  <1>5. CASE s = 0
    BY <1>2, <1>3, <1>4, <1>5
  <1>6. CASE s # 0
    <2>1. s - 1 \in Nat
      BY <1>3, <1>6
    <2>2. r \in 0 .. s - 1
      <3> HIDE DEF s, b
      <3> QED BY <2>1, StartFacts
    <2>3. t \in 0 .. n
      <3> HIDE DEF s, r, b, c, n
      <3> QED BY <1>1, <1>3, <2>1, <2>2 DEF Shorter
    <2> QED BY <1>2, <1>3, <1>4, <1>6, <2>3
  <1> QED BY <1>5, <1>6

LEMMA DownGood ==
    ASSUME NEW l \in EditLines
    PROVE  PasteDown(l) \in EditLines /\ At(l.buf, paste_line_end(l.buf, l.cursor)) \in EditLines
  <1> DEFINE b == l.buf
             c == l.cursor
             n == Len(b)
             e == paste_line_end(b, c)
             f == paste_line_end(b, e + 1)
             k == paste_col(b, c)
             t == e + 1 + Shorter(k, f - e - 1)
  <1>1. b \in Texts /\ n \in Nat /\ c \in 0 .. n /\ c \in Nat
    BY LineParts
  <1>2. \A d \in 0 .. n : At(b, d) \in EditLines
    BY <1>1, AtGood
  <1>3. e \in c .. n /\ e \in 0 .. n
    <2>1. e \in c .. n
      <3> HIDE DEF b, c
      <3> QED BY <1>1, EndFacts
    <2> QED BY <1>1, <2>1
  <1>4. PasteDown(l) = IF e >= n THEN l ELSE At(b, t)
    BY Zenon DEF PasteDown
  <1>5. CASE e >= n
    BY <1>2, <1>3, <1>4, <1>5
  <1>6. CASE ~(e >= n)
    <2>1. e + 1 \in 0 .. n
      BY <1>1, <1>3, <1>6
    <2>2. f \in e + 1 .. n
      <3> HIDE DEF e, b
      <3> QED BY <1>1, <2>1, EndFacts
    <2>3. k \in Nat
      <3> HIDE DEF b, c
      <3>1. paste_line_start(b, c) \in 0 .. c
        BY <1>1, StartFacts
      <3> QED BY <1>1, <3>1 DEF paste_col
    <2>4. t \in 0 .. n
      <3> HIDE DEF e, f, k, b, c, n
      <3> QED BY <1>1, <1>3, <2>1, <2>2, <2>3 DEF Shorter
    <2> QED BY <1>2, <1>3, <1>4, <1>6, <2>4
  <1> QED BY <1>5, <1>6

-----------------------------------------------------------------------------
\* The rows above each position, as paste_cursor_screen_row counts them.
CountsRows(f, b, n) ==
    f = [i \in 0 .. n |->
            IF i = 0 THEN 0
            ELSE IF b[i] = NL THEN f[i - 1] + paste_wrap_rows(paste_col(b, i - 1))
            ELSE f[i - 1]]

LEMMA RowsExist ==
    ASSUME NEW b, NEW n \in Nat
    PROVE  \E f : f \in [0 .. n -> Int] /\ CountsRows(f, b, n)
  <1> DEFINE w(i) == paste_wrap_rows(paste_col(b, i - 1))
             V == Int
             g == [x \in (1 .. n) \X V |-> IF b[x[1]] = NL THEN x[2] + w(x[1]) ELSE x[2]]
  <1>1. ASSUME NEW i \in 1 .. n PROVE w(i) \in Int
    <2> DEFINE k == paste_col(b, i - 1)
               p == i - 1
    <2>1. p \in Nat
      OBVIOUS
    <2>2. k \in Int
      <3>1. paste_line_start(b, p) \in 0 .. p
        <4> HIDE DEF p
        <4> QED BY <2>1, StartFacts
      <3> QED BY <3>1 DEF paste_col
    <2> HIDE DEF k, p
    <2>3. (k + WIDTH - 1) \div WIDTH \in Int
      BY <2>2, LineEditorAssumption
    <2> QED BY <2>3 DEF paste_wrap_rows, k
  <1> HIDE DEF w
  <1>2. g \in [(1 .. n) \X V -> V]
    BY <1>1
  <1>3. \A i \in 1 .. n : \A x \in V : g[<<i, x>>] = IF b[i] = NL THEN x + w(i) ELSE x
    OBVIOUS
  <1>4. 0 \in V
    OBVIOUS
  <1> HIDE DEF V, g
  <1>5. PICK f : Recursion(f, n, V, 0, g)
    BY <1>2, <1>4, RecursionExists
  <1>6. /\ f \in [0 .. n -> V] /\ f[0] = 0
        /\ \A i \in 1 .. n : f[i] = g[<<i, f[i - 1]>>]
    BY <1>5 DEF Recursion
  <1>7. \A i \in 0 .. n : f[i] = IF i = 0 THEN 0
                                 ELSE IF b[i] = NL THEN f[i - 1] + w(i) ELSE f[i - 1]
    <2> TAKE i \in 0 .. n
    <2>1. CASE i = 0
      BY <1>6, <2>1
    <2>2. CASE i # 0
      <3>1. i \in 1 .. n /\ i - 1 \in 0 .. n
        BY <2>2
      <3>2. f[i - 1] \in V
        BY <3>1, <1>6
      <3>3. f[i] = g[<<i, f[i - 1]>>]
        BY <3>1, <1>6
      <3> QED BY <3>1, <3>2, <3>3, <2>2, <1>3
    <2> QED BY <2>1, <2>2
  <1>8. f = [i \in 0 .. n |-> f[i]]
    BY <1>6
  <1>9. CountsRows(f, b, n)
    BY <1>7, <1>8, Zenon DEF CountsRows, w
  <1> QED BY <1>6, <1>9 DEF V

\* The row of the cursor is a number, and 0 at the start of the text.
LEMMA RowInt ==
    ASSUME NEW l \in EditLines
    PROVE  /\ paste_cursor_screen_row(l) \in Int
           /\ l.cursor = 0 => paste_cursor_screen_row(l) = 0
  <1> DEFINE b == l.buf
             n == l.cursor
             f == CHOOSE f : CountsRows(f, b, n)
             k == paste_col(b, n)
  <1>1. n \in Nat
    BY LineParts
  <1>2. CountsRows(f, b, n)
    <2> HIDE DEF b, n
    <2>1. \E h : CountsRows(h, b, n)
      BY <1>1, RowsExist
    <2> QED BY <2>1
  <1>3. paste_cursor_screen_row(l) = f[n] + k \div WIDTH
    BY DEF paste_cursor_screen_row, CountsRows
  <1>4. k \in Nat /\ (n = 0 => k = 0)
    <2> HIDE DEF b, n
    <2>1. paste_line_start(b, n) \in 0 .. n
      BY <1>1, StartFacts
    <2> QED BY <1>1, <2>1 DEF paste_col
  <1> HIDE DEF f, k
  <1>5. k \div WIDTH \in Int /\ (k = 0 => k \div WIDTH = 0)
    BY <1>4, LineEditorAssumption
  <1> DEFINE w(i) == paste_wrap_rows(paste_col(b, i - 1))
             T == {i \in 0 .. n : f[i] \in Int}
  <1>6. /\ f[0] = 0
        /\ \A i \in 1 .. n : f[i] = IF b[i] = NL THEN f[i - 1] + w(i) ELSE f[i - 1]
    <2> HIDE DEF b, n
    <2>1. f = [i \in 0 .. n |-> IF i = 0 THEN 0
                               ELSE IF b[i] = NL THEN f[i - 1] + w(i) ELSE f[i - 1]]
      BY <1>2, Zenon DEF CountsRows
    <2> HIDE DEF w
    <2>2. 0 \in 0 .. n /\ \A i \in 1 .. n : i \in 0 .. n /\ i # 0
      BY <1>1
    <2> DEFINE h == [i \in 0 .. n |-> IF i = 0 THEN 0
                               ELSE IF b[i] = NL THEN f[i - 1] + w(i) ELSE f[i - 1]]
    <2>3. h[0] = 0 /\ \A i \in 1 .. n : h[i] = IF b[i] = NL THEN f[i - 1] + w(i) ELSE f[i - 1]
      BY <2>2
    <2>4. f = h
      BY <2>1
    <2> HIDE DEF h
    <2> QED BY <2>3, <2>4
  <1>7. \A i \in 0 .. n : f[i] \in Int
    <2>1. 0 \in T
      BY <1>1, <1>6
    <2>2. ASSUME NEW i \in 1 .. n, i - 1 \in T PROVE i \in T
      <3>1. w(i) \in Int
        <4> DEFINE p == i - 1
                   c == paste_col(b, p)
        <4>1. p \in Nat
          BY <1>1
        <4> HIDE DEF b, p
        <4>2. paste_line_start(b, p) \in 0 .. p
          BY <4>1, StartFacts
        <4>3. c \in Int
          BY <4>1, <4>2 DEF paste_col
        <4> HIDE DEF c
        <4>4. (c + WIDTH - 1) \div WIDTH \in Int
          BY <4>3, LineEditorAssumption
        <4> QED BY <4>4 DEF paste_wrap_rows, c, p
      <3> HIDE DEF w
      <3>2. f[i] \in Int
        BY <2>2, <3>1, <1>6
      <3> QED BY <1>1, <3>2
    <2> HIDE DEF T
    <2>3. \A i \in 0 .. n : i \in T
      BY <1>1, <2>1, <2>2, UpTo
    <2> QED BY <2>3 DEF T
  <1>8. n \in 0 .. n
    BY <1>1
  <1> HIDE DEF n, b, w, T
  <1>9. f[n] \in Int /\ (n = 0 => f[n] = 0)
    BY <1>6, <1>7, <1>8
  <1> QED BY <1>3, <1>4, <1>5, <1>9 DEF n

\* A recursion through a function m on lines.
LEMMA PageGood ==
    ASSUME NEW n \in Nat, NEW v \in EditLines, NEW m \in [EditLines -> EditLines]
    PROVE  \E f : f \in [0 .. n -> EditLines] /\ f = [i \in 0 .. n |-> IF i = 0 THEN v ELSE m[f[i - 1]]]
  <1> DEFINE V == EditLines
             g == [x \in (1 .. n) \X V |-> m[x[2]]]
  <1>2. g \in [(1 .. n) \X V -> V]
    OBVIOUS
  <1>3. \A i \in 1 .. n : \A x \in V : g[<<i, x>>] = m[x]
    OBVIOUS
  <1>4. v \in V
    OBVIOUS
  <1> HIDE DEF V, g
  <1>5. PICK f : Recursion(f, n, V, v, g)
    BY <1>2, <1>4, RecursionExists
  <1>6. /\ f \in [0 .. n -> V] /\ f[0] = v
        /\ \A i \in 1 .. n : f[i] = g[<<i, f[i - 1]>>]
    BY <1>5 DEF Recursion
  <1>7. \A i \in 0 .. n : f[i] = IF i = 0 THEN v ELSE m[f[i - 1]]
    <2> TAKE i \in 0 .. n
    <2>1. CASE i = 0
      BY <1>6, <2>1
    <2>2. CASE i # 0
      <3>1. i \in 1 .. n /\ i - 1 \in 0 .. n
        BY <2>2
      <3>2. f[i - 1] \in V
        BY <3>1, <1>6
      <3>3. f[i] = g[<<i, f[i - 1]>>]
        BY <3>1, <1>6
      <3> QED BY <3>1, <3>2, <3>3, <2>2, <1>3
    <2> QED BY <2>1, <2>2
  <1>8. f = [i \in 0 .. n |-> f[i]]
    BY <1>6
  <1>9. f = [i \in 0 .. n |-> IF i = 0 THEN v ELSE m[f[i - 1]]]
    BY <1>7, <1>8, Zenon
  <1> QED BY <1>6, <1>9 DEF V

\* Page Up and Page Down keep the cursor in the text.
LEMMA PageUpGood == Line \in EditLines => PageMove(PasteUp) \in EditLines
  <1> SUFFICES ASSUME Line \in EditLines PROVE PageMove(PasteUp) \in EditLines
    OBVIOUS
  <1> DEFINE n == PAGE
             P(f) == f = [i \in 0 .. n |-> IF i = 0 THEN Line ELSE PasteUp(f[i - 1])]
             f == CHOOSE f : P(f)
             m == [l \in EditLines |-> PasteUp(l)]
             T == {i \in 0 .. n : f[i] \in EditLines}
  <1>1. n \in Nat
    BY LineEditorAssumption
  <1>2. PageMove(PasteUp) = f[n]
    BY DEF PageMove
  <1> HIDE DEF n
  <1>3. m \in [EditLines -> EditLines] /\ \A l \in EditLines : m[l] = PasteUp(l)
    BY UpGood
  <1>4. \E h : P(h)
    <2> HIDE DEF m
    <2>1. PICK h : h \in [0 .. n -> EditLines] /\ h = [i \in 0 .. n |-> IF i = 0 THEN Line ELSE m[h[i - 1]]]
      BY <1>1, <1>3, PageGood
    <2>2. \A i \in 0 .. n : i # 0 => m[h[i - 1]] = PasteUp(h[i - 1])
      <3> TAKE i \in 0 .. n
      <3> HAVE i # 0
      <3>1. i - 1 \in 0 .. n
        BY <1>1
      <3>2. h[i - 1] \in EditLines
        BY <2>1, <3>1
      <3> QED BY <1>3, <3>2
    <2>3. [i \in 0 .. n |-> IF i = 0 THEN Line ELSE m[h[i - 1]]]
             = [i \in 0 .. n |-> IF i = 0 THEN Line ELSE PasteUp(h[i - 1])]
      BY <2>2, Zenon
    <2>4. P(h)
      BY <2>1, <2>3, Zenon
    <2> QED BY <2>4
  <1>5. P(f)
    <2> HIDE DEF P
    <2> QED BY <1>4
  <1> HIDE DEF f, m
  <1>6. 0 \in T
    <2>1. 0 \in 0 .. n
      BY <1>1
    <2>2. f[0] = Line
      BY <1>5, <2>1, Zenon
    <2> QED BY <2>1, <2>2
  <1>7. ASSUME NEW i \in 1 .. n, i - 1 \in T PROVE i \in T
    <2>1. i \in 0 .. n /\ i # 0
      BY <1>1
    <2>2. f[i] = PasteUp(f[i - 1])
      BY <1>5, <2>1, Zenon
    <2>3. f[i - 1] \in EditLines
      BY <1>7
    <2>4. f[i] \in EditLines
      BY <2>2, <2>3, UpGood
    <2> QED BY <2>1, <2>4
  <1> HIDE DEF T
  <1>8. \A i \in 0 .. n : i \in T
    BY <1>1, <1>6, <1>7, UpTo
  <1>9. n \in 0 .. n
    BY <1>1
  <1> QED BY <1>2, <1>8, <1>9 DEF T

LEMMA PageDownGood == Line \in EditLines => PageMove(PasteDown) \in EditLines
  <1> SUFFICES ASSUME Line \in EditLines PROVE PageMove(PasteDown) \in EditLines
    OBVIOUS
  <1> DEFINE n == PAGE
             P(f) == f = [i \in 0 .. n |-> IF i = 0 THEN Line ELSE PasteDown(f[i - 1])]
             f == CHOOSE f : P(f)
             m == [l \in EditLines |-> PasteDown(l)]
             T == {i \in 0 .. n : f[i] \in EditLines}
  <1>1. n \in Nat
    BY LineEditorAssumption
  <1>2. PageMove(PasteDown) = f[n]
    BY DEF PageMove
  <1> HIDE DEF n
  <1>3. m \in [EditLines -> EditLines] /\ \A l \in EditLines : m[l] = PasteDown(l)
    BY DownGood
  <1>4. \E h : P(h)
    <2> HIDE DEF m
    <2>1. PICK h : h \in [0 .. n -> EditLines] /\ h = [i \in 0 .. n |-> IF i = 0 THEN Line ELSE m[h[i - 1]]]
      BY <1>1, <1>3, PageGood
    <2>2. \A i \in 0 .. n : i # 0 => m[h[i - 1]] = PasteDown(h[i - 1])
      <3> TAKE i \in 0 .. n
      <3> HAVE i # 0
      <3>1. i - 1 \in 0 .. n
        BY <1>1
      <3>2. h[i - 1] \in EditLines
        BY <2>1, <3>1
      <3> QED BY <1>3, <3>2
    <2>3. [i \in 0 .. n |-> IF i = 0 THEN Line ELSE m[h[i - 1]]]
             = [i \in 0 .. n |-> IF i = 0 THEN Line ELSE PasteDown(h[i - 1])]
      BY <2>2, Zenon
    <2>4. P(h)
      BY <2>1, <2>3, Zenon
    <2> QED BY <2>4
  <1>5. P(f)
    <2> HIDE DEF P
    <2> QED BY <1>4
  <1> HIDE DEF f, m
  <1>6. 0 \in T
    <2>1. 0 \in 0 .. n
      BY <1>1
    <2>2. f[0] = Line
      BY <1>5, <2>1, Zenon
    <2> QED BY <2>1, <2>2
  <1>7. ASSUME NEW i \in 1 .. n, i - 1 \in T PROVE i \in T
    <2>1. i \in 0 .. n /\ i # 0
      BY <1>1
    <2>2. f[i] = PasteDown(f[i - 1])
      BY <1>5, <2>1, Zenon
    <2>3. f[i - 1] \in EditLines
      BY <1>7
    <2>4. f[i] \in EditLines
      BY <2>2, <2>3, DownGood
    <2> QED BY <2>1, <2>4
  <1> HIDE DEF T
  <1>8. \A i \in 0 .. n : i \in T
    BY <1>1, <1>6, <1>7, UpTo
  <1>9. n \in 0 .. n
    BY <1>1
  <1> QED BY <1>2, <1>8, <1>9 DEF T

-----------------------------------------------------------------------------
HistoryOK(h) ==
    /\ h \in Seq(Texts) /\ Len(h) <= HISTORY_MAX
    /\ \A i \in 1 .. Len(h) - 1 : h[i] # h[i + 1]

\* The cursor is in the text, the browse position in the history, and the row
\* of the cursor in the window of the paste editor.
EditorInv ==
    /\ Line \in EditLines
    /\ HistoryOK(history)
    /\ hpos \in -1 .. Len(history) - 1
    /\ top \in Int
    /\ editor = "paste" => paste_cursor_screen_row(Line) \in top .. top + ROWSPASTE - 1

LEMMA EmptyGood == Empty \in EditLines /\ <<>> \in Texts
  <1>1. <<>> \in Texts
    BY DEF Texts
  <1>2. 0 \in 0 .. Len(<<>>)
    OBVIOUS
  <1> QED BY <1>1, <1>2, AtGood DEF Empty

LEMMA LineSet ==
    ASSUME NEW l \in EditLines, SetLine(l)
    PROVE  Line' = l
  <1>1. l = At(l.buf, l.cursor)
    BY LineParts
  <1>2. Line' = At(l.buf, l.cursor)
    BY Zenon DEF SetLine, Line, At
  <1> QED BY <1>1, <1>2

\* A step that leaves the history alone and does not enter the paste editor.
LEMMA LineStep ==
    ASSUME EditorInv, NEW l \in EditLines, SetLine(l), UNCHANGED <<history, top>>,
           editor' # "paste", hpos' \in -1 .. Len(history) - 1
    PROVE  EditorInv'
  <1>1. Line' \in EditLines
    BY LineSet
  <1>2. HistoryOK(history) /\ top \in Int
    BY DEF EditorInv
  <1>3. HistoryOK(history')
    BY <1>2
  <1> QED BY <1>1, <1>2, <1>3 DEF EditorInv

\* The history takes a line: it stays within its bound, without neighbours alike.
LEMMA Added ==
    ASSUME NEW h, HistoryOK(h), NEW line \in Texts
    PROVE  HistoryOK(history_add(h, line))
  <1> DEFINE r == history_add(h, line)
             t == IF Len(h) >= HISTORY_MAX THEN Tail(h) ELSE h
  <1>1. h \in Seq(Texts) /\ Len(h) <= HISTORY_MAX /\ (\A i \in 1 .. Len(h) - 1 : h[i] # h[i + 1])
        /\ Len(h) \in Nat /\ HISTORY_MAX \in Nat \ {0}
    BY LineEditorAssumption DEF HistoryOK
  <1>2. CASE line = <<>> \/ (h # <<>> /\ Last(h) = line)
    BY <1>2, Zenon DEF history_add
  <1>3. CASE ~(line = <<>> \/ (h # <<>> /\ Last(h) = line))
    <2>1. r = Append(t, line)
      BY <1>3, Zenon DEF history_add
    <2>2. h # <<>> => h[Len(h)] # line
      BY <1>3 DEF Last
    <2>3. /\ t \in Seq(Texts) /\ Len(t) \in Nat /\ Len(t) + 1 <= HISTORY_MAX
          /\ \A i \in 1 .. Len(t) - 1 : t[i] # t[i + 1]
          /\ Len(t) > 0 => t[Len(t)] = h[Len(h)] /\ h # <<>>
      <3>1. CASE Len(h) >= HISTORY_MAX
        <4> DEFINE u == Tail(h)
        <4>1. h # <<>>
          BY <1>1, <3>1
        <4>2. u \in Seq(Texts) /\ Len(u) = Len(h) - 1
          BY <1>1, <4>1
        <4>3. \A i \in 1 .. Len(h) - 1 : u[i] = h[i + 1]
          BY <1>1, <4>1
        <4>4. t = u
          BY <3>1
        <4> HIDE DEF u, t
        <4>5. Len(u) \in Nat /\ Len(u) + 1 <= HISTORY_MAX
          BY <1>1, <4>2
        <4>6. ASSUME NEW i \in 1 .. Len(u) - 1 PROVE u[i] # u[i + 1]
          <5>1. i \in 1 .. Len(h) - 1 /\ i + 1 \in 1 .. Len(h) - 1
            BY <1>1, <4>2
          <5>2. u[i] = h[i + 1] /\ u[i + 1] = h[(i + 1) + 1]
            BY <4>3, <5>1
          <5> QED BY <5>1, <5>2, <1>1
        <4>7. Len(u) > 0 => u[Len(u)] = h[Len(h)]
          <5> SUFFICES ASSUME Len(u) > 0 PROVE u[Len(u)] = h[Len(h)]
            OBVIOUS
          <5>1. Len(u) \in 1 .. Len(h) - 1 /\ Len(u) + 1 = Len(h)
            BY <1>1, <4>2
          <5>2. u[Len(u)] = h[Len(u) + 1]
            BY <4>3, <5>1
          <5> QED BY <5>1, <5>2
        <4> QED BY <4>1, <4>2, <4>4, <4>5, <4>6, <4>7
      <3>2. CASE ~(Len(h) >= HISTORY_MAX)
        <4>1. t = h
          BY <3>2
        <4> HIDE DEF t
        <4> QED BY <1>1, <3>2, <4>1
      <3> QED BY <3>1, <3>2
    <2> HIDE DEF t
    <2>4. /\ Append(t, line) \in Seq(Texts) /\ Len(Append(t, line)) = Len(t) + 1
          /\ Append(t, line)[Len(t) + 1] = line
          /\ \A i \in 1 .. Len(t) : Append(t, line)[i] = t[i]
      BY <2>3
    <2> DEFINE a == Append(t, line)
    <2> HIDE DEF a, r
    <2>5. ASSUME NEW i \in 1 .. Len(a) - 1 PROVE a[i] # a[i + 1]
      <3>1. i \in 1 .. Len(t) /\ a[i] = t[i]
        BY <2>3, <2>4 DEF a
      <3>2. CASE i = Len(t)
        <4>1. a[i + 1] = line /\ t[i] = h[Len(h)] /\ h # <<>>
          BY <2>3, <2>4, <3>1, <3>2 DEF a
        <4> QED BY <4>1, <2>2, <3>1
      <3>3. CASE i # Len(t)
        <4>1. i \in 1 .. Len(t) - 1 /\ i + 1 \in 1 .. Len(t)
          BY <2>3, <3>1, <3>3
        <4>2. a[i + 1] = t[i + 1]
          BY <4>1, <2>4 DEF a
        <4> QED BY <4>1, <4>2, <3>1, <2>3
      <3> QED BY <3>2, <3>3
    <2>6. a \in Seq(Texts) /\ Len(a) <= HISTORY_MAX
      BY <2>3, <2>4 DEF a
    <2>7. HistoryOK(a)
      BY <2>5, <2>6 DEF HistoryOK
    <2> QED BY <2>1, <2>7 DEF a, r
  <1> QED BY <1>2, <1>3

\* A completion is a command.
LEMMA CompletionGood ==
    ASSUME NEW b \in Texts
    PROVE  find_completion(b) \in Texts /\ Completed(b) \in Texts
  <1> DEFINE M == {c \in Commands : IsPrefix(b, c)}
             none == Len(b) < 2 \/ b[1] # Slash \/ Cardinality(M) # 1 \/ b \in M
             f == find_completion(b)
  <1>1. f = IF none THEN <<>> ELSE CHOOSE c \in M : TRUE
    BY Zenon DEF find_completion
  <1>2. M \subseteq Texts
    <2>1. Letters \cup {"/"} \subseteq EditBytes
      BY DEF EditBytes, Slash
    <2>2. Seq(Letters \cup {"/"}) \subseteq Seq(EditBytes)
      BY <2>1
    <2> QED BY <2>2, LineEditorAssumption DEF Texts
  <1> HIDE DEF M
  <1>3. ~none => M # {}
    <2>1. Cardinality({}) = 0
      BY FS_EmptySet
    <2>2. ~none => Cardinality(M) = 1
      BY Zenon
    <2> HIDE DEF none
    <2> QED BY <2>1, <2>2
  <1>4. ~none => (CHOOSE c \in M : TRUE) \in M
    BY <1>3
  <1> HIDE DEF none
  <1>5. f \in Texts
    BY <1>1, <1>2, <1>4, EmptyGood
  <1>6. Completed(b) = IF f = <<>> THEN b ELSE f
    BY DEF Completed
  <1> QED BY <1>5, <1>6

LEMMA LoadGood ==
    ASSUME EditorInv, NEW p \in Int
    PROVE  history_load(p) \in EditLines
  <1>1. Line \in EditLines /\ history \in Seq(Texts)
    BY DEF EditorInv, HistoryOK
  <1>2. CASE p \in 0 .. Len(history) - 1
    <2> DEFINE t == history[p + 1]
    <2>1. p + 1 \in 1 .. Len(history)
      BY <1>1, <1>2
    <2>2. t \in Texts
      BY <1>1, <2>1
    <2>3. history_load(p) = At(t, Len(t))
      BY <1>2, Zenon DEF history_load
    <2> HIDE DEF t
    <2>4. Len(t) \in 0 .. Len(t)
      BY <2>2 DEF Texts
    <2> QED BY <2>2, <2>3, <2>4, AtGood
  <1>3. CASE p \notin 0 .. Len(history) - 1
    BY <1>1, <1>3, Zenon DEF history_load
  <1> QED BY <1>2, <1>3

\* The keys of the line editor, but for those that end a line.
LEMMA LineKeysKeep ==
    ASSUME EditorInv, NEW c, NEW d,
           \/ EscapeByte(c) \/ EscapeDigit(d) \/ HistoryUp \/ HistoryDown \/ FinalByte(c)
           \/ Backspace \/ TabKey \/ (c \in EditBytes /\ Printable(c))
    PROVE  EditorInv'
  <1>1. /\ Line \in EditLines /\ HistoryOK(history) /\ hpos \in -1 .. Len(history) - 1 /\ top \in Int
        /\ history \in Seq(Texts) /\ Len(history) \in Nat
    BY DEF EditorInv, HistoryOK
  <1>2. Line.buf = buf /\ Line.cursor = cursor
    BY DEF Line, At
  <1>3. buf \in Texts
    BY <1>1, <1>2, LineParts
  <1>4. CASE EscapeByte(c) \/ EscapeDigit(d)
    <2>1. editor = "line" /\ UNCHANGED <<editor, history, top, buf, cursor, hpos>>
      BY <1>4 DEF EscapeByte, EscapeDigit, Keep
    <2>2. SetLine(Line)
      BY <2>1, <1>2 DEF SetLine
    <2>3. editor' # "paste" /\ hpos' \in -1 .. Len(history) - 1
      BY <2>1, <1>1
    <2> QED BY <1>1, <2>1, <2>2, <2>3, LineStep
  <1>5. CASE HistoryUp
    <2>1. editor = "line" /\ UNCHANGED <<editor, history, top>>
      BY <1>5 DEF HistoryUp, EndSequence, Keep
    <2>2. CASE history # <<>> /\ (buf = <<>> \/ hpos >= 0)
      <3>1. /\ hpos' = IF hpos < 0 THEN Len(history) - 1 ELSE IF hpos > 0 THEN hpos - 1 ELSE hpos
            /\ SetLine(history_load(hpos'))
        BY <1>5, <2>2, Zenon DEF HistoryUp
      <3>2. hpos' \in -1 .. Len(history) - 1 /\ hpos' \in Int
        BY <1>1, <3>1
      <3>3. history_load(hpos') \in EditLines
        BY <3>2, LoadGood
      <3> QED BY <2>1, <3>1, <3>2, <3>3, LineStep
    <2>3. CASE ~(history # <<>> /\ (buf = <<>> \/ hpos >= 0))
      <3>1. UNCHANGED <<buf, cursor, hpos>>
        BY <1>5, <2>3 DEF HistoryUp
      <3>2. SetLine(Line)
        BY <3>1, <1>2 DEF SetLine
      <3> QED BY <1>1, <2>1, <3>1, <3>2, LineStep
    <2> QED BY <2>2, <2>3
  <1>6. CASE HistoryDown
    <2>1. editor = "line" /\ UNCHANGED <<editor, history, top>>
      BY <1>6 DEF HistoryDown, EndSequence, Keep
    <2>2. CASE hpos < 0
      <3>1. UNCHANGED <<buf, cursor, hpos>>
        BY <1>6, <2>2 DEF HistoryDown
      <3>2. SetLine(Line)
        BY <3>1, <1>2 DEF SetLine
      <3> QED BY <1>1, <2>1, <3>1, <3>2, LineStep
    <2>3. CASE ~(hpos < 0) /\ hpos < Len(history) - 1
      <3>1. hpos' = hpos + 1 /\ SetLine(history_load(hpos'))
        BY <1>6, <2>3, Zenon DEF HistoryDown
      <3>2. hpos' \in -1 .. Len(history) - 1 /\ hpos' \in Int
        BY <1>1, <2>3, <3>1
      <3>3. history_load(hpos') \in EditLines
        BY <3>2, LoadGood
      <3> QED BY <2>1, <3>1, <3>2, <3>3, LineStep
    <2>4. CASE ~(hpos < 0) /\ ~(hpos < Len(history) - 1)
      <3>1. hpos' = -1 /\ SetLine(Empty)
        BY <1>6, <2>4, Zenon DEF HistoryDown
      <3>2. hpos' \in -1 .. Len(history) - 1
        BY <1>1, <3>1
      <3> QED BY <2>1, <3>1, <3>2, EmptyGood, LineStep
    <2> QED BY <2>2, <2>3, <2>4
  <1>7. CASE FinalByte(c)
    <2> DEFINE l == CASE c = "C" -> line_move_right(Line)
                      [] c = "D" -> line_move_left(Line)
                      [] c = "H" \/ (c = "~" /\ param = 1) -> line_move_home(Line)
                      [] c = "F" \/ (c = "~" /\ param = 4) -> line_move_end(Line)
                      [] c = "~" /\ param = 3 -> line_delete_forward(Line)
                      [] OTHER -> Line
    <2>1. editor = "line" /\ UNCHANGED <<editor, history, top, hpos>>
      BY <1>7 DEF FinalByte, EndSequence, Keep
    <2>2. SetLine(l)
      BY <1>7, Zenon DEF FinalByte
    <2>3. /\ line_move_right(Line) \in EditLines /\ line_move_left(Line) \in EditLines
          /\ line_move_home(Line) \in EditLines /\ line_move_end(Line) \in EditLines
          /\ line_delete_forward(Line) \in EditLines
      BY <1>1, MovesGood, DeleteForwardGood
    <2>4. l \in EditLines
      BY <1>1, <2>3
    <2> HIDE DEF l
    <2> QED BY <1>1, <2>1, <2>2, <2>4, LineStep
  <1>8. CASE Backspace
    <2>1. editor = "line" /\ UNCHANGED <<editor, history, top, hpos>> /\ SetLine(line_delete_back(Line))
      BY <1>8 DEF Backspace, Plain, Keep
    <2>2. line_delete_back(Line) \in EditLines
      BY <1>1, DeleteBackGood
    <2> QED BY <1>1, <2>1, <2>2, LineStep
  <1>9. CASE TabKey
    <2> DEFINE t == find_completion(buf)
    <2>1. editor = "line" /\ UNCHANGED <<editor, history, top, hpos>> /\ SetLine(At(t, Len(t)))
      BY <1>9 DEF TabKey, Plain, Keep
    <2>2. t \in Texts
      BY <1>3, CompletionGood
    <2> HIDE DEF t
    <2>3. Len(t) \in 0 .. Len(t)
      BY <2>2 DEF Texts
    <2>4. At(t, Len(t)) \in EditLines
      BY <2>2, <2>3, AtGood
    <2> QED BY <1>1, <2>1, <2>4, LineStep
  <1>10. CASE c \in EditBytes /\ Printable(c)
    <2>1. editor = "line" /\ UNCHANGED <<editor, history, top, hpos>> /\ SetLine(line_insert_char(Line, c))
      BY <1>10 DEF Printable, Plain, Keep
    <2>2. line_insert_char(Line, c) \in EditLines
      BY <1>1, <1>10, InsertGood
    <2> QED BY <1>1, <2>1, <2>2, LineStep
  <1> QED BY <1>4, <1>5, <1>6, <1>7, <1>8, <1>9, <1>10

\* A line that ends, in either editor.
LEMMA LineEnds ==
    ASSUME EditorInv, SetLine(Empty), NEW t \in Texts,
           \/ history' = history_add(history, t) /\ hpos' = -1
           \/ UNCHANGED <<history, hpos>>,
           \/ editor' # "paste" /\ top' = top
           \/ top' = 0
    PROVE  EditorInv'
  <1>1. HistoryOK(history) /\ hpos \in -1 .. Len(history) - 1 /\ top \in Int
    BY DEF EditorInv
  <1>2. HistoryOK(history')
    <2>1. CASE history' = history_add(history, t)
      BY <1>1, <2>1, Added
    <2>2. CASE history' = history
      BY <1>1, <2>2
    <2> QED BY <2>1, <2>2
  <1>3. hpos' \in -1 .. Len(history') - 1
    <2>1. Len(history') \in Nat
      BY <1>2 DEF HistoryOK
    <2>2. CASE hpos' = -1
      BY <2>1, <2>2
    <2>3. CASE UNCHANGED <<history, hpos>>
      BY <1>1, <2>3
    <2> QED BY <2>2, <2>3
  <1>4. Line' = Empty
    BY EmptyGood, LineSet
  <1>5. paste_cursor_screen_row(Empty) = 0
    <2>1. Empty.cursor = 0
      BY DEF Empty, At
    <2> QED BY <2>1, EmptyGood, RowInt
  <1>6. top' \in Int /\ (editor' = "paste" => top' = 0)
    BY <1>1
  <1>7. editor' = "paste" => paste_cursor_screen_row(Line') \in top' .. top' + ROWSPASTE - 1
    <2>1. paste_cursor_screen_row(Line') = 0
      BY <1>4, <1>5
    <2> QED BY <2>1, <1>6, LineEditorAssumption
  <1> QED BY <1>2, <1>3, <1>4, <1>6, <1>7, EmptyGood DEF EditorInv

LEMMA LastByte ==
    ASSUME NEW b \in Texts
    PROVE  LET last == {i \in DOMAIN b : b[i] # NL}
           IN  (IF last = {} THEN <<>>
                ELSE SubSeq(b, 1, CHOOSE i \in last : \A j \in last : j <= i)) \in Texts
  <1> DEFINE S == {i \in DOMAIN b : b[i] # NL}
             k == CHOOSE i \in S : \A j \in S : j <= i
  <1>1. Len(b) \in Nat /\ DOMAIN b = 1 .. Len(b)
    BY DEF Texts
  <1>2. CASE S = {}
    BY <1>2, EmptyGood
  <1>3. CASE S # {}
    <2>1. S \in SUBSET (0 .. Len(b)) /\ S \in SUBSET (1 .. Len(b))
      BY <1>1
    <2> HIDE DEF S
    <2>2. \E i \in S : \A j \in S : j <= i
      BY <1>1, <1>3, <2>1, Ends
    <2>3. k \in S
      BY <2>2
    <2> HIDE DEF k
    <2>4. k \in 0 .. Len(b) /\ 1 \in Nat \ {0}
      BY <2>1, <2>3, <1>1
    <2>5. SubSeq(b, 1, k) \in Texts
      BY <2>4, PartGood
    <2> QED BY <2>5, <1>3 DEF k, S
  <1> QED BY <1>2, <1>3

\* The keys that end a line.
LEMMA EndsKeep ==
    ASSUME EditorInv, Enter \/ EndOfInput \/ PasteEnds(TRUE) \/ PasteEnds(FALSE)
    PROVE  EditorInv'
  <1>1. buf \in Texts
    <2>1. Line \in EditLines /\ Line.buf = buf
      BY DEF EditorInv, Line, At
    <2> QED BY <2>1, LineParts
  <1>2. CASE Enter
    <2> DEFINE t == Completed(buf)
    <2>1. /\ SetLine(Empty) /\ history' = history_add(history, t) /\ hpos' = -1
          /\ editor' = IF t = PasteCommand THEN "paste" ELSE "line"
          /\ top' = IF t = PasteCommand THEN 0 ELSE top
      BY <1>2, Zenon DEF Enter
    <2>2. t \in Texts
      BY <1>1, CompletionGood
    <2> HIDE DEF t
    <2>3. (editor' # "paste" /\ top' = top) \/ top' = 0
      BY <2>1
    <2> QED BY <2>1, <2>2, <2>3, LineEnds
  <1>3. CASE EndOfInput
    <2>1. /\ SetLine(Empty) /\ history' = history_add(history, buf) /\ editor' = "left" /\ top' = top
          /\ hpos' = IF buf # <<>> THEN -1 ELSE hpos
      BY <1>3, Zenon DEF EndOfInput
    <2>2. (history' = history_add(history, buf) /\ hpos' = -1) \/ UNCHANGED <<history, hpos>>
      <3>1. CASE buf # <<>>
        BY <2>1, <3>1
      <3>2. CASE buf = <<>>
        <4>1. history_add(history, buf) = history
          BY <3>2, Zenon DEF history_add
        <4> QED BY <2>1, <3>2, <4>1
      <3> QED BY <3>1, <3>2
    <2>3. (editor' # "paste" /\ top' = top) \/ top' = 0
      BY <2>1
    <2> QED BY <1>1, <2>1, <2>2, <2>3, LineEnds
  <1>4. ASSUME NEW submit \in BOOLEAN, PasteEnds(submit) PROVE EditorInv'
    <2> DEFINE last == {i \in DOMAIN buf : buf[i] # NL}
               t == IF last = {} THEN <<>>
                    ELSE SubSeq(buf, 1, CHOOSE i \in last : \A j \in last : j <= i)
    <2>1. /\ SetLine(Empty) /\ editor' = "line" /\ top' = top
          /\ IF submit /\ t # <<>> THEN history' = history_add(history, t) /\ hpos' = -1
                                   ELSE UNCHANGED <<history, hpos>>
      BY <1>4, Zenon DEF PasteEnds
    <2>2. t \in Texts
      BY <1>1, LastByte
    <2> HIDE DEF t
    <2>3. (history' = history_add(history, t) /\ hpos' = -1) \/ UNCHANGED <<history, hpos>>
      BY <2>1
    <2>4. (editor' # "paste" /\ top' = top) \/ top' = 0
      BY <2>1
    <2> QED BY <2>1, <2>2, <2>3, <2>4, LineEnds
  <1> QED BY <1>2, <1>3, <1>4

\* The window follows the cursor.
LEMMA PastingKeeps ==
    ASSUME EditorInv, NEW l \in EditLines, Pasting(l)
    PROVE  EditorInv'
  <1> DEFINE row == paste_cursor_screen_row(l)
  <1>1. /\ editor' = editor /\ UNCHANGED <<history, hpos>> /\ SetLine(l)
        /\ top' = IF row < top THEN row ELSE IF row >= top + ROWSPASTE THEN row - ROWSPASTE + 1 ELSE top
    BY DEF Pasting, paste_redraw
  <1>2. row \in Int
    BY RowInt
  <1>3. Line' = l
    BY <1>1, LineSet
  <1>4. HistoryOK(history) /\ hpos \in -1 .. Len(history) - 1 /\ top \in Int
    BY DEF EditorInv
  <1> HIDE DEF row
  <1>5. top' \in Int /\ row \in top' .. top' + ROWSPASTE - 1
    BY <1>1, <1>2, <1>4, LineEditorAssumption
  <1>6. HistoryOK(history') /\ hpos' \in -1 .. Len(history') - 1
    BY <1>1, <1>4
  <1>7. paste_cursor_screen_row(Line') \in top' .. top' + ROWSPASTE - 1
    BY <1>3, <1>5 DEF row
  <1> QED BY <1>3, <1>5, <1>6, <1>7 DEF EditorInv

LEMMA PasteKeysKeep ==
    ASSUME EditorInv, NEW c \in PasteKeys, PasteKey(c)
    PROVE  EditorInv'
  <1>1. Line \in EditLines
    BY DEF EditorInv
  <1>2. Line.buf = buf /\ Line.cursor = cursor
    BY DEF Line, At
  <1>3. /\ PasteUp(Line) \in EditLines /\ PasteDown(Line) \in EditLines
        /\ line_move_left(Line) \in EditLines /\ line_move_right(Line) \in EditLines
        /\ At(buf, paste_line_start(buf, cursor)) \in EditLines
        /\ At(buf, paste_line_end(buf, cursor)) \in EditLines
        /\ line_delete_forward(Line) \in EditLines /\ line_delete_back(Line) \in EditLines
        /\ PageMove(PasteUp) \in EditLines /\ PageMove(PasteDown) \in EditLines
    <2>1. /\ PasteUp(Line) \in EditLines /\ PasteDown(Line) \in EditLines
          /\ At(Line.buf, paste_line_start(Line.buf, Line.cursor)) \in EditLines
          /\ At(Line.buf, paste_line_end(Line.buf, Line.cursor)) \in EditLines
      BY <1>1, UpGood, DownGood
    <2>2. /\ At(buf, paste_line_start(buf, cursor)) \in EditLines
          /\ At(buf, paste_line_end(buf, cursor)) \in EditLines
      BY <1>2, <2>1, Zenon
    <2>3. line_move_left(Line) \in EditLines /\ line_move_right(Line) \in EditLines
      BY <1>1, MovesGood
    <2>4. line_delete_forward(Line) \in EditLines /\ line_delete_back(Line) \in EditLines
      BY <1>1, DeleteForwardGood, DeleteBackGood
    <2>5. PageMove(PasteUp) \in EditLines /\ PageMove(PasteDown) \in EditLines
      BY <1>1, PageUpGood, PageDownGood
    <2> QED BY <2>1, <2>2, <2>3, <2>4, <2>5
  <1>4. CASE c \in {"up", "down", "left", "right", "home", "end", "del", "bs", "pgup", "pgdn"}
    <2>1. CASE c = "up"
      <3>1. Pasting(PasteUp(Line))
        BY <2>1 DEF PasteKey
      <3> QED BY <1>3, <3>1, PastingKeeps
    <2>2. CASE c = "down"
      <3>1. Pasting(PasteDown(Line))
        BY <2>2 DEF PasteKey
      <3> QED BY <1>3, <3>1, PastingKeeps
    <2>3. CASE c = "left"
      <3>1. Pasting(line_move_left(Line))
        BY <2>3 DEF PasteKey
      <3> QED BY <1>3, <3>1, PastingKeeps
    <2>4. CASE c = "right"
      <3>1. Pasting(line_move_right(Line))
        BY <2>4 DEF PasteKey
      <3> QED BY <1>3, <3>1, PastingKeeps
    <2>5. CASE c = "home"
      <3>1. Pasting(At(buf, paste_line_start(buf, cursor)))
        BY <2>5 DEF PasteKey
      <3> QED BY <1>3, <3>1, PastingKeeps
    <2>6. CASE c = "end"
      <3>1. Pasting(At(buf, paste_line_end(buf, cursor)))
        BY <2>6 DEF PasteKey
      <3> QED BY <1>3, <3>1, PastingKeeps
    <2>7. CASE c = "del"
      <3>1. Pasting(line_delete_forward(Line))
        BY <2>7 DEF PasteKey
      <3> QED BY <1>3, <3>1, PastingKeeps
    <2>8. CASE c = "bs"
      <3>1. Pasting(line_delete_back(Line))
        BY <2>8 DEF PasteKey
      <3> QED BY <1>3, <3>1, PastingKeeps
    <2>9. CASE c = "pgup"
      <3>1. Pasting(PageMove(PasteUp))
        BY <2>9 DEF PasteKey
      <3> QED BY <1>3, <3>1, PastingKeeps
    <2>10. CASE c = "pgdn"
      <3>1. Pasting(PageMove(PasteDown))
        BY <2>10 DEF PasteKey
      <3> QED BY <1>3, <3>1, PastingKeeps
    <2> QED BY <1>4, <2>1, <2>2, <2>3, <2>4, <2>5, <2>6, <2>7, <2>8, <2>9, <2>10
  <1>5. CASE c \notin {"up", "down", "left", "right", "home", "end", "del", "bs", "pgup", "pgdn"}
    <2>1. c \in EditBytes
      BY <1>5 DEF PasteKeys, EditBytes
    <2>2. Pasting(line_insert_char(Line, c))
      BY <1>5 DEF PasteKey
    <2>3. line_insert_char(Line, c) \in EditLines
      BY <1>1, <2>1, InsertGood
    <2> QED BY <2>2, <2>3, PastingKeeps
  <1> QED BY <1>4, <1>5

LEMMA EditorInvInit == EInit => EditorInv
  <1> SUFFICES ASSUME EInit PROVE EditorInv
    OBVIOUS
  <1>1. Line = Empty
    BY DEF EInit, Line, Empty
  <1>2. history = <<>> /\ hpos = -1 /\ top = 0 /\ editor = "line"
    BY DEF EInit
  <1>3. HistoryOK(history)
    BY <1>2, LineEditorAssumption DEF HistoryOK
  <1> QED BY <1>1, <1>2, <1>3, EmptyGood DEF EditorInv

LEMMA EditorInvStep == EditorInv /\ [ENext]_evars => EditorInv'
  <1> SUFFICES ASSUME EditorInv, [ENext]_evars PROVE EditorInv'
    OBVIOUS
  <1>1. CASE UNCHANGED evars
    <2>1. UNCHANGED <<editor, buf, cursor, history, hpos, top>>
      BY <1>1 DEF evars
    <2>2. Line' = Line
      BY <2>1 DEF Line
    <2> QED BY <2>1, <2>2 DEF EditorInv
  <1>2. CASE \E c \in {"ESC", "[", "other"} : EscapeByte(c)
    BY <1>2, LineKeysKeep
  <1>3. CASE \E d \in Digits : EscapeDigit(d)
    BY <1>3, LineKeysKeep
  <1>4. CASE HistoryUp \/ HistoryDown \/ Backspace \/ TabKey
    BY <1>4, LineKeysKeep
  <1>5. CASE \E c \in {"C", "D", "H", "F", "~", "other"} : FinalByte(c)
    BY <1>5, LineKeysKeep
  <1>6. CASE \E c \in Letters \cup {Slash} : Printable(c)
    <2>1. PICK c \in Letters \cup {Slash} : Printable(c)
      BY <1>6
    <2>2. c \in EditBytes
      BY DEF EditBytes
    <2> QED BY <2>1, <2>2, LineKeysKeep
  <1>7. CASE \E c \in PasteKeys : PasteKey(c)
    BY <1>7, PasteKeysKeep
  <1>8. CASE Enter \/ EndOfInput \/ PasteEnds(TRUE) \/ PasteEnds(FALSE)
    BY <1>8, EndsKeep
  <1> QED BY <1>1, <1>2, <1>3, <1>4, <1>5, <1>6, <1>7, <1>8 DEF ENext

LEMMA EditorInvSound == EditorInv => EditorSound
  <1> SUFFICES ASSUME EditorInv PROVE EditorSound
    OBVIOUS
  <1>1. /\ Line \in EditLines /\ HistoryOK(history) /\ hpos \in -1 .. Len(history) - 1
        /\ editor = "paste" => paste_cursor_screen_row(Line) \in top .. top + ROWSPASTE - 1
    BY DEF EditorInv
  <1>2. buf \in Texts /\ cursor \in 0 .. Len(buf)
    <2>1. Line.buf = buf /\ Line.cursor = cursor
      BY DEF Line, At
    <2> QED BY <1>1, <2>1, LineParts
  <1>3. ArrowsMoveOneLine
    BY <1>2, ArrowsMove DEF Typed, Texts
  <1>4. Len(history) <= HISTORY_MAX /\ \A i \in 1 .. Len(history) - 1 : history[i] # history[i + 1]
    BY <1>1 DEF HistoryOK
  <1> QED BY <1>1, <1>2, <1>3, <1>4, Zenon DEF EditorSound

\* The line editor and the paste editor of nbs-chat-terminal: the cursor stays
\* in the text and the browse position in the history, the history within its
\* bound and without an entry twice in a row, the cursor of the paste editor in
\* its window, and the arrows go exactly one line.
THEOREM EditorSoundTheorem == ESpec => []EditorSound
  <1>1. EditorInv /\ [ENext]_evars => EditorInv'
    BY EditorInvStep
  <1> QED BY EditorInvInit, <1>1, EditorInvSound, PTL DEF ESpec
=============================================================================
