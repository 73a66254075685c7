------------------------------- MODULE Screen -------------------------------
(***************************************************************************)
(* nbs-ts-render: the terminal emulator that turns the raw log of a        *)
(* session into the text of its screen (src/nbs-ts-render).  The emulator  *)
(* is one record, the C struct ts_render_t, and every handler of the code  *)
(* is a function from that record to the next one; a step feeds one byte.  *)
(*                                                                         *)
(* A cell keeps what the code can tell apart: the number of bytes stored   *)
(* in it (0: empty, -1: the right half of a wide character).  "wide" is a  *)
(* history field: the character put there takes two columns.  Colours and  *)
(* the other renditions of SGR touch no control and are left out.          *)
(***************************************************************************)
EXTENDS Integers, Sequences, FiniteSets

CONSTANTS ROWS, COLS,      \* the size of the screen
          CELL_BYTES,      \* NBS_TS_RENDER_CELL_BYTES, 16 in the code
          MAX_PARAMS,      \* NBS_TS_RENDER_MAX_PARAMS, 16 in the code
          PARAM_CAP,       \* 99999 in the code
          Digits9,         \* the digits a sequence may hold
          MaxFed,          \* bound: operations carried out
          MaxSequence      \* bound: bytes of one sequence

Numerals == <<"0", "1", "2", "3", "4", "5", "6", "7", "8", "9">>
Decimal == {Numerals[i] : i \in 1 .. 10}

\* ts_render_create takes every size from one row and one column on.
ASSUME ScreenAssumption ==
    /\ ROWS \in Nat /\ ROWS > 0 /\ COLS \in Nat /\ COLS > 0
    /\ CELL_BYTES \in Nat /\ CELL_BYTES > 2 /\ MAX_PARAMS \in Nat /\ MAX_PARAMS > 1
    /\ PARAM_CAP \in Nat /\ Digits9 \subseteq Decimal

VARIABLES scr,      \* the emulator
          fed,      \* operations carried out, for the bound
          within    \* bytes of the sequence being read, for the bound

svars == <<scr, fed, within>>

Lines == 0 .. ROWS - 1
Columns == 0 .. COLS - 1
Blank == [len |-> 0, wide |-> FALSE]
RightHalf == [len |-> -1, wide |-> FALSE]
BlankRow == [c \in Columns |-> Blank]

\* init_tab_stops: every eighth column.
init_tab_stops == {c \in Columns : c % 8 = 0}

ts_render_reset ==
    [cells |-> [r \in Lines |-> BlankRow], row |-> 0, col |-> 0,
     state |-> "GROUND", params |-> <<>>, val |-> 0, has |-> FALSE, inter |-> "none",
     top |-> 0, bot |-> ROWS - 1, pending |-> FALSE, saved |-> <<0, 0>>,
     utf8 |-> <<>>, tabs |-> init_tab_stops, split |-> FALSE]

SInit == scr = ts_render_reset /\ fed = 0 /\ within = 0

Clamp(v, lo, hi) == IF v < lo THEN lo ELSE IF v > hi THEN hi ELSE v
AtMost(v, hi) == IF v > hi THEN hi ELSE v

clear_cell(t, r, c) == [t EXCEPT !.cells[r][c] = Blank]
clear_rows(t, S) == [t EXCEPT !.cells = [r \in Lines |-> IF r \in S THEN BlankRow ELSE @[r]]]

-----------------------------------------------------------------------------
(* Scrolling and line feeds. *)

\* Rows top..bot move up by n, and the vacated ones are cleared.
scroll_up(t, top, bot, n) ==
    LET k == AtMost(n, bot - top + 1)
    IN [t EXCEPT !.cells = [r \in Lines |->
            IF r < top \/ r > bot THEN @[r]
            ELSE IF r <= bot - k THEN @[r + k] ELSE BlankRow]]

scroll_down(t, top, bot, n) ==
    LET k == AtMost(n, bot - top + 1)
    IN [t EXCEPT !.cells = [r \in Lines |->
            IF r < top \/ r > bot THEN @[r]
            ELSE IF r >= top + k THEN @[r - k] ELSE BlankRow]]

do_linefeed(t) ==
    IF t.row = t.bot THEN scroll_up(t, t.top, t.bot, 1)
    ELSE [t EXCEPT !.row = AtMost(@ + 1, ROWS - 1)]

do_reverse_linefeed(t) ==
    IF t.row = t.top THEN scroll_down(t, t.top, t.bot, 1)
    ELSE [t EXCEPT !.row = Clamp(@ - 1, 0, ROWS - 1)]

-----------------------------------------------------------------------------
(* Characters. *)

\* Mutant of the code: the other half stays.
WideClearedAlone(line, c) ==
    [x \in Columns |-> IF x = c THEN Blank ELSE line[x]]

\* The row after clear_wide_cell on column c: a right half takes the cell
\* before it along, any other character the right half after it.
WideCleared(line, c) ==
    LET gone == IF line[c].len = -1 THEN {c, c - 1}
                ELSE IF line[c].len > 0 /\ c + 1 < COLS /\ line[c + 1].len = -1
                     THEN {c, c + 1} ELSE {c}
    IN [x \in Columns |-> IF x \in gone THEN Blank ELSE line[x]]

clear_wide_cell(t, r, c) == [t EXCEPT !.cells[r] = WideCleared(@, c)]

\* clear_wide_cell on columns from..to of the cursor's row, left to right.
ClearSpan(t, from, to) ==
    LET line[c \in (from - 1) .. to] ==
            IF c < from THEN t.cells[t.row] ELSE WideCleared(line[c - 1], c)
    IN IF from > to THEN t ELSE [t EXCEPT !.cells[t.row] = line[to]]

\* A combining mark joins the character before the cursor if the cell has
\* room, and is dropped otherwise.
put_combining(t, len) ==
    LET before == IF t.pending THEN COLS - 1 ELSE t.col - 1
        at == IF before > 0 /\ t.cells[t.row][before].len = -1 THEN before - 1 ELSE before
    IN IF before < 0 THEN t
       ELSE LET cell == t.cells[t.row][at]
            IN IF cell.len > 0 /\ cell.len + len <= CELL_BYTES
               THEN [t EXCEPT !.cells[t.row][at].len = @ + len] ELSE t

\* The wrap that a character in the last column left pending.
Wrapped(t) ==
    IF t.pending THEN [do_linefeed([t EXCEPT !.col = 0]) EXCEPT !.pending = FALSE] ELSE t

\* On a screen of one column the second half of a wide character has no cell:
\* the assertion of cell_at ends the program.
Aborted(t) == [t EXCEPT !.state = "ABORTED", !.utf8 = <<>>]

\* A wide character that does not fit in the last column blanks it and wraps.
PutPair(t0, len) ==
    LET t1 == Wrapped(t0)
        cut == t1.cells[t1.row][t1.col].len = -1
        t2 == IF t1.col < COLS - 1 THEN t1
              ELSE [do_linefeed([clear_cell(t1, t1.row, t1.col) EXCEPT !.col = 0])
                        EXCEPT !.split = @ \/ cut]
        t3 == clear_wide_cell(clear_wide_cell(t2, t2.row, t2.col), t2.row, t2.col + 1)
        t4 == [t3 EXCEPT !.cells[t3.row][t3.col] = [len |-> len, wide |-> TRUE],
                         !.cells[t3.row][t3.col + 1] = RightHalf]
    IN IF t4.col + 2 >= COLS THEN [t4 EXCEPT !.col = COLS - 1, !.pending = TRUE]
       ELSE [t4 EXCEPT !.col = @ + 2]

put_wide(t, len) == IF COLS = 1 THEN Aborted(t) ELSE PutPair(t, len)

put_narrow(t0, len) ==
    LET t1 == Wrapped(t0)
        t2 == [clear_wide_cell(t1, t1.row, t1.col)
                   EXCEPT !.cells[t1.row][t1.col] = [len |-> len, wide |-> FALSE]]
    IN IF t2.col >= COLS - 1 THEN [t2 EXCEPT !.pending = TRUE]
       ELSE [t2 EXCEPT !.col = @ + 1]

put_char(t, len, width) ==
    CASE width = 0 -> put_combining(t, len)
      [] width = 2 -> put_wide(t, len)
      [] OTHER -> put_narrow(t, len)

-----------------------------------------------------------------------------
(* CSI sequences. *)

\* csi_finalize: the parameter being read is the last one.
csi_finalize(t) ==
    IF t.has /\ Len(t.params) < MAX_PARAMS
    THEN [t EXCEPT !.params = Append(@, t.val)] ELSE t

csi_param(t, i, default) ==
    IF i <= Len(t.params) /\ t.params[i] > 0 THEN t.params[i] ELSE default

\* CUU, CUD, CUF, CUB, CNL, CPL, CHA, CUP and VPA: the relative moves by rows
\* stay inside the scrolling region, the absolute ones inside the screen.
CursorFinal == {"A", "B", "C", "D", "E", "F", "G", "H", "d"}
MoveCursor(t, f) ==
    LET n == csi_param(t, 1, 1)
        r == CASE f \in {"A", "F"} -> Clamp(t.row - n, t.top, t.bot)
               [] f \in {"B", "E"} -> Clamp(t.row + n, t.top, t.bot)
               [] f \in {"H", "d"} -> Clamp(n - 1, 0, ROWS - 1)
               [] OTHER -> t.row
        c == CASE f = "C" -> Clamp(t.col + n, 0, COLS - 1)
               [] f = "D" -> Clamp(t.col - n, 0, COLS - 1)
               [] f \in {"E", "F"} -> 0
               [] f = "G" -> Clamp(n - 1, 0, COLS - 1)
               [] f = "H" -> Clamp(csi_param(t, 2, 1) - 1, 0, COLS - 1)
               [] OTHER -> t.col
    IN [t EXCEPT !.row = r, !.col = c, !.pending = FALSE]

EraseDisplay(t) ==
    LET n == csi_param(t, 1, 0)
    IN CASE n = 0 -> clear_rows(ClearSpan(t, t.col, COLS - 1), {r \in Lines : r > t.row})
         [] n = 1 -> ClearSpan(clear_rows(t, {r \in Lines : r < t.row}), 0, t.col)
         [] n \in {2, 3} -> clear_rows(t, Lines)
         [] OTHER -> t

EraseLine(t) ==
    LET n == csi_param(t, 1, 0)
    IN CASE n = 0 -> ClearSpan(t, t.col, COLS - 1)
         [] n = 1 -> ClearSpan(t, 0, t.col)
         [] n = 2 -> clear_rows(t, {t.row})
         [] OTHER -> t

\* IL and DL: from the cursor's row to the bottom of the region, if the
\* cursor is inside it.
ShiftLines(t, f) ==
    LET n == csi_param(t, 1, 1)
    IN IF t.row \notin t.top .. t.bot THEN t
       ELSE IF f = "L" THEN scroll_down(t, t.row, t.bot, n) ELSE scroll_up(t, t.row, t.bot, n)

\* ICH and DCH copy cells one by one, so a wide character under the cursor or
\* at the end of the row may lose a half (split).
ShiftChars(t, f) ==
    LET n == AtMost(csi_param(t, 1, 1), COLS - t.col)
        line == t.cells[t.row]
        moved == IF f = "@"
                 THEN [c \in Columns |-> IF c < t.col THEN line[c]
                                         ELSE IF c < t.col + n THEN Blank ELSE line[c - n]]
                 ELSE [c \in Columns |-> IF c < t.col THEN line[c]
                                         ELSE IF c < COLS - n THEN line[c + n] ELSE Blank]
    IN [t EXCEPT !.cells[t.row] = moved, !.split = TRUE]

EraseChars(t) == ClearSpan(t, t.col, AtMost(t.col + csi_param(t, 1, 1) - 1, COLS - 1))

ScrollRegion(t, f) ==
    LET n == csi_param(t, 1, 1)
    IN IF f = "S" THEN scroll_up(t, t.top, t.bot, n) ELSE scroll_down(t, t.top, t.bot, n)

\* DECSTBM: a region of one row is ignored; the cursor goes home either way.
SetRegion(t) ==
    LET top == Clamp(csi_param(t, 1, 1) - 1, 0, ROWS - 1)
        bot == Clamp(csi_param(t, 2, ROWS) - 1, 0, ROWS - 1)
        u == [t EXCEPT !.row = 0, !.col = 0, !.pending = FALSE]
    IN IF top < bot THEN [u EXCEPT !.top = top, !.bot = bot] ELSE u

ClearTabs(t) ==
    LET n == csi_param(t, 1, 0)
    IN CASE n = 0 -> [t EXCEPT !.tabs = @ \ {t.col}]
         [] n = 3 -> [t EXCEPT !.tabs = {}]
         [] OTHER -> t

\* A sequence with a private prefix is skipped; modes, reports and unknown
\* final bytes do nothing.
dispatch_csi(t0, f) ==
    LET t == csi_finalize(t0)
    IN IF t.inter \in {"?", ">", "!"} THEN t
       ELSE CASE f \in CursorFinal -> MoveCursor(t, f)
              [] f = "J" -> EraseDisplay(t)
              [] f = "K" -> EraseLine(t)
              [] f \in {"L", "M"} -> ShiftLines(t, f)
              [] f \in {"@", "P"} -> ShiftChars(t, f)
              [] f = "X" -> EraseChars(t)
              [] f \in {"S", "T"} -> ScrollRegion(t, f)
              [] f = "r" -> SetRegion(t)
              [] f = "g" -> ClearTabs(t)
              [] OTHER -> t

-----------------------------------------------------------------------------
(* ESC sequences and the ground state. *)

\* NEL goes to column 0 and leaves a pending wrap pending.
dispatch_esc(t, f) ==
    CASE f = "7" -> [t EXCEPT !.saved = <<t.row, t.col>>]
      [] f = "8" -> [t EXCEPT !.row = Clamp(t.saved[1], 0, ROWS - 1),
                              !.col = Clamp(t.saved[2], 0, COLS - 1), !.pending = FALSE]
      [] f = "D" -> do_linefeed(t)
      [] f = "E" -> do_linefeed([t EXCEPT !.col = 0])
      [] f = "M" -> do_reverse_linefeed(t)
      [] f = "H" -> [t EXCEPT !.tabs = @ \cup {t.col}]
      [] f = "c" -> ts_render_reset
      [] OTHER -> t

\* The next tab stop, or the last column.
NextTab(t) ==
    LET stops == {c \in t.tabs : c > t.col}
    IN IF stops = {} THEN COLS - 1 ELSE CHOOSE c \in stops : \A d \in stops : c <= d

process_control(t, b) ==
    CASE b = "LF" -> do_linefeed([t EXCEPT !.col = 0, !.pending = FALSE])
      [] b = "CR" -> [t EXCEPT !.col = 0, !.pending = FALSE]
      [] b = "HT" -> [t EXCEPT !.col = NextTab(t), !.pending = FALSE]
      [] b = "BS" -> IF t.col > 0 THEN [t EXCEPT !.col = @ - 1, !.pending = FALSE] ELSE t
      [] OTHER -> t          \* BEL, SO, SI and the others

\* The bytes above ASCII: the leading byte of a wide character of three
\* bytes, that of a combining mark of two, and a continuation byte.
LeadLength == [wide |-> 3, mark |-> 2]
LeadWidth == [wide |-> 2, mark |-> 0]
Leads == DOMAIN LeadLength
Controls == {"LF", "CR", "HT", "BS", "BEL"}

process_ground(t, b) ==
    CASE b \in Controls -> process_control(t, b)
      [] b \in Leads -> [t EXCEPT !.utf8 = <<b>>]
      [] b \in {"cont", "DEL"} -> t         \* a stray byte is ignored
      [] OTHER -> put_char(t, 1, 1)

\* A byte of the character being read; the last one puts it on the screen.
process_utf8_cont(t) ==
    LET lead == t.utf8[1]
    IN IF Len(t.utf8) + 1 = LeadLength[lead]
       THEN [put_char(t, LeadLength[lead], LeadWidth[lead]) EXCEPT !.utf8 = <<>>]
       ELSE [t EXCEPT !.utf8 = Append(@, "cont")]

-----------------------------------------------------------------------------
(* The parser. *)

Intermediate == {"("}                              \* 0x20..0x2f
CsiFinal == CursorFinal \cup {"J", "K", "L", "M", "@", "P", "X", "S", "T", "r", "g", "h"}
EscFinal == {"7", "8", "D", "E", "M", "H", "c"}    \* and any of 0x30..0x7e
DigitValue(d) == CHOOSE n \in 0 .. 9 : Numerals[n + 1] = d
Bytes == Controls \cup Leads \cup {"cont", "DEL", "ESC", "[", "]", ";", "?", "7", "8", "c"}
         \cup Intermediate \cup CsiFinal \cup Digits9

\* Back at rest.  The parameters stay in the struct until the next sequence
\* clears them, and nothing reads them before: the model clears them here.
Ground(t) == [t EXCEPT !.state = "GROUND", !.params = <<>>, !.val = 0, !.has = FALSE,
                       !.inter = "none"]

InEsc(t, b) ==
    CASE b = "[" -> [t EXCEPT !.state = "CSI_PARAM", !.params = <<>>, !.val = 0,
                              !.has = FALSE, !.inter = "none"]
      [] b = "]" -> [t EXCEPT !.state = "OSC"]
      [] b = "P" -> [t EXCEPT !.state = "DCS"]
      [] b \in Intermediate -> [t EXCEPT !.state = "ESC_INTER", !.inter = b]
      [] OTHER -> Ground(dispatch_esc(t, b))

InCsiParam(t, b) ==
    CASE b \in Decimal -> [t EXCEPT !.has = TRUE,
                               !.val = IF @ > PARAM_CAP THEN PARAM_CAP ELSE @ * 10 + DigitValue(b)]
      [] b = ";" -> [t EXCEPT !.params = IF Len(@) < MAX_PARAMS
                                         THEN Append(@, IF t.has THEN t.val ELSE 0) ELSE @,
                              !.val = 0, !.has = FALSE]
      [] b = "?" -> [t EXCEPT !.inter = b]
      [] b \in Intermediate -> [t EXCEPT !.inter = b, !.state = "CSI_INTER"]
      [] b \in CsiFinal -> Ground(dispatch_csi(t, b))
      [] OTHER -> Ground(t)

InCsiInter(t, b) ==
    CASE b \in Intermediate -> t
      [] b \in CsiFinal -> Ground(dispatch_csi(t, b))
      [] OTHER -> Ground(t)

\* One byte.  ESC starts a sequence from every state, also from inside an OSC
\* or DCS string, so the states of the code that wait for the rest of ST
\* there are never entered.
process_byte(t0, b) ==
    LET reading == t0.state = "GROUND" /\ t0.utf8 # <<>>
        t == IF reading THEN [t0 EXCEPT !.utf8 = <<>>] ELSE t0
    IN IF reading /\ b = "cont" THEN process_utf8_cont(t0)
       ELSE IF b = "ESC" THEN [t EXCEPT !.state = "ESC", !.inter = "none"]
       ELSE CASE t.state = "GROUND" -> process_ground(t, b)
              [] t.state = "ESC" -> InEsc(t, b)
              [] t.state = "ESC_INTER" -> IF b \in Intermediate THEN t ELSE Ground(t)
              [] t.state = "CSI_PARAM" -> InCsiParam(t, b)
              [] t.state = "CSI_INTER" -> InCsiInter(t, b)
              [] t.state = "OSC" -> IF b = "BEL" THEN Ground(t) ELSE t
              [] t.state = "DCS" -> t

\* ts_render_feed: the bytes of the log in turn.  A byte that leaves the
\* parser at rest counts against the bound.
Feed(b) ==
    /\ scr.state # "ABORTED"
    /\ fed < MaxFed /\ within < MaxSequence
    /\ scr' = process_byte(scr, b)
    /\ LET rest == scr'.state = "GROUND" /\ scr'.utf8 = <<>>
       IN /\ fed' = IF rest THEN fed + 1 ELSE fed
          /\ within' = IF rest THEN 0 ELSE within + 1

SNext == \E b \in Bytes : Feed(b)

ScreenSpec == SInit /\ [][SNext]_svars

-----------------------------------------------------------------------------
(* Properties. *)

\* The cursor and the saved cursor are on the screen, the scrolling region has
\* two rows of it at least (where there are two), no more parameters are kept
\* than there is room for, and a character is only being read while no sequence
\* is.
InScreen ==
    /\ scr.row \in Lines /\ scr.col \in Columns
    /\ scr.saved \in Lines \X Columns
    /\ 0 <= scr.top /\ scr.top <= scr.bot /\ scr.bot < ROWS
    /\ scr.top = scr.bot => ROWS = 1
    /\ Len(scr.params) <= MAX_PARAMS
    /\ scr.utf8 # <<>> => scr.state = "GROUND"
    /\ scr.tabs \subseteq Columns

\* Both halves of a wide character are there.
GlyphsWhole ==
    \A r \in Lines : \A c \in Columns :
        /\ scr.cells[r][c].len = -1 => c > 0 /\ scr.cells[r][c - 1].wide
        /\ scr.cells[r][c].wide => c + 1 < COLS /\ scr.cells[r][c + 1].len = -1

\* Whatever bytes a session wrote, the emulator never indexes outside its
\* screen (the asserts of cell_at and scroll_up); and however characters are
\* overwritten, erased, scrolled or wrapped, half of a wide character is never
\* left on the screen: only inserting and deleting characters inside a row,
\* and a wide character that blanks the last column, may split one.  The one
\* exception to the first part is a wide character on a screen of one column.
ScreenSound ==
    /\ InScreen
    /\ scr.state = "ABORTED" => COLS = 1
    /\ ~scr.split => GlyphsWhole
=============================================================================
