----------------------------- MODULE LineEditor -----------------------------
(***************************************************************************)
(* The input of nbs-chat-terminal: the line editor with its history, its   *)
(* completion and the parser of escape sequences, and the full-screen      *)
(* editor of /paste.  A key is one byte, as read() delivers it; the        *)
(* positions are those of the code, counted from 0.                        *)
(***************************************************************************)
EXTENDS Integers, Sequences, FiniteSets, SequencesExt

CONSTANTS
    Letters,        \* printable bytes besides "/"
    Commands,       \* g_commands, each a sequence of bytes
    PasteCommand,   \* the command that opens the editor
    Digits,         \* digits the escape sequences use
    HISTORY_MAX,    \* lines the history holds (50)
    WIDTH,          \* columns of the screen
    ROWSPASTE,      \* rows of the paste editor
    PAGE,           \* rows Page Up and Page Down move
    MaxLine,        \* bound: bytes typed in a line
    MaxPaste        \* bound: bytes in the paste editor

ASSUME LineEditorAssumption ==
    /\ HISTORY_MAX \in Nat \ {0} /\ WIDTH \in Nat \ {0}
    /\ ROWSPASTE \in Nat \ {0} /\ PAGE \in Nat
    /\ PasteCommand \in Commands /\ Digits \subseteq 0 .. 9
    /\ Commands \subseteq Seq(Letters \cup {"/"})

VARIABLES
    editor,     \* "line", "paste" or "left"
    buf,        \* the text, lines separated by "nl"
    cursor,     \* position of the cursor
    history,    \* g_history
    hpos,       \* g_history_pos, -1 when not browsing
    esc,        \* state of the escape parser: "none", "esc", "bracket"
    param,      \* its number, -1 when there is none
    top         \* scroll_top of paste_redraw, kept from one /paste to the next

evars == <<editor, buf, cursor, history, hpos, esc, param, top>>

NL == "nl"
Slash == "/"

(***************************************************************************)
(* The line buffer.                                                        *)
(***************************************************************************)
\* A text and a cursor.
At(b, c) == [buf |-> b, cursor |-> c]
Line == At(buf, cursor)
Empty == At(<<>>, 0)

line_insert_char(l, ch) ==
    At(SubSeq(l.buf, 1, l.cursor) \o <<ch>> \o SubSeq(l.buf, l.cursor + 1, Len(l.buf)),
       l.cursor + 1)

line_delete_back(l) ==
    IF l.cursor = 0 THEN l
    ELSE At(SubSeq(l.buf, 1, l.cursor - 1)
                \o SubSeq(l.buf, l.cursor + 1, Len(l.buf)),
            l.cursor - 1)

line_delete_forward(l) ==
    IF l.cursor >= Len(l.buf) THEN l
    ELSE At(SubSeq(l.buf, 1, l.cursor)
                \o SubSeq(l.buf, l.cursor + 2, Len(l.buf)),
            l.cursor)

line_move_left(l) == IF l.cursor > 0 THEN At(l.buf, l.cursor - 1) ELSE l
line_move_right(l) == IF l.cursor < Len(l.buf) THEN At(l.buf, l.cursor + 1) ELSE l
line_move_home(l) == At(l.buf, 0)
line_move_end(l) == At(l.buf, Len(l.buf))

(***************************************************************************)
(* History and completion.                                                 *)
(***************************************************************************)
\* history_add: not empty, not the last entry again; the oldest entry goes
\* when the history is full.
history_add(hist, line) ==
    IF line = <<>> \/ (hist # <<>> /\ Last(hist) = line) THEN hist
    ELSE Append(IF Len(hist) >= HISTORY_MAX THEN Tail(hist) ELSE hist, line)

\* find_completion: the only command the text is a proper prefix of.
find_completion(b) ==
    LET matches == {c \in Commands : IsPrefix(b, c)}
    IN  IF Len(b) < 2 \/ b[1] # Slash \/ Cardinality(matches) # 1 \/ b \in matches
        THEN <<>> ELSE CHOOSE c \in matches : TRUE

Completed(b) == IF find_completion(b) = <<>> THEN b ELSE find_completion(b)

\* history_load: nothing outside the history.
history_load(pos) ==
    IF pos \in 0 .. Len(history) - 1
    THEN At(history[pos + 1], Len(history[pos + 1])) ELSE Line

SetLine(l) == buf' = l.buf /\ cursor' = l.cursor

(***************************************************************************)
(* One byte in the line editor.                                            *)
(***************************************************************************)
Keep == UNCHANGED <<editor, history, top>>

\* handle_escape_input before the final byte: ESC, then "[", then digits;
\* anything but "[" after ESC is dropped with it.
EscapeByte(c) ==
    /\ editor = "line"
    /\ \/ esc = "none" /\ c = "ESC" /\ esc' = "esc"
       \/ esc = "esc" /\ esc' = (IF c = "[" THEN "bracket" ELSE "none")
    /\ param' = -1
    /\ UNCHANGED <<buf, cursor, hpos>> /\ Keep

\* A number above 9999 ends the sequence.
EscapeDigit(d) ==
    /\ editor = "line" /\ esc = "bracket"
    /\ LET old == IF param < 0 THEN 0 ELSE param
       IN  IF old > 9999 THEN esc' = "none" /\ param' = -1
           ELSE param' = old * 10 + d /\ UNCHANGED esc
    /\ UNCHANGED <<buf, cursor, hpos>> /\ Keep

EndSequence == editor = "line" /\ esc = "bracket" /\ esc' = "none" /\ param' = -1

\* Up: the history is entered from an empty line only, and then gone back in.
HistoryUp ==
    /\ EndSequence /\ Keep
    /\ IF history # <<>> /\ (buf = <<>> \/ hpos >= 0)
       THEN /\ hpos' = IF hpos < 0 THEN Len(history) - 1
                       ELSE IF hpos > 0 THEN hpos - 1 ELSE hpos
            /\ SetLine(history_load(hpos'))
       ELSE UNCHANGED <<buf, cursor, hpos>>

\* Down: forward while browsing; past the last entry the line is empty again.
HistoryDown ==
    /\ EndSequence /\ Keep
    /\ IF hpos < 0 THEN UNCHANGED <<buf, cursor, hpos>>
       ELSE IF hpos < Len(history) - 1
       THEN hpos' = hpos + 1 /\ SetLine(history_load(hpos'))
       ELSE hpos' = -1 /\ SetLine(Empty)

\* The other final bytes; "~" stands for the key its number says.
FinalByte(c) ==
    /\ EndSequence /\ Keep /\ UNCHANGED hpos
    /\ SetLine(CASE c = "C" -> line_move_right(Line)
                 [] c = "D" -> line_move_left(Line)
                 [] c = "H" \/ (c = "~" /\ param = 1) -> line_move_home(Line)
                 [] c = "F" \/ (c = "~" /\ param = 4) -> line_move_end(Line)
                 [] c = "~" /\ param = 3 -> line_delete_forward(Line)
                 [] OTHER -> Line)

Plain == editor = "line" /\ esc = "none"
NoEscape == UNCHANGED <<esc, param>>

\* Enter on a line: the command it completes to is recorded in the history and
\* carried out (Terminal); do_send records a message again, which changes
\* nothing.  /paste opens its editor and draws it.
Enter ==
    /\ Plain /\ NoEscape
    /\ hpos' = -1
    /\ LET line == Completed(buf)
       IN  /\ history' = history_add(history, line)
           /\ SetLine(Empty)
           /\ editor' = IF line = PasteCommand THEN "paste" ELSE "line"
           /\ top' = IF line = PasteCommand THEN 0 ELSE top

\* Ctrl-D, Ctrl-C, the end of the input: what is there is sent.
EndOfInput ==
    /\ Plain /\ NoEscape /\ UNCHANGED top
    /\ editor' = "left" /\ SetLine(Empty)
    /\ history' = history_add(history, buf)
    /\ hpos' = IF buf # <<>> THEN -1 ELSE hpos

Backspace ==
    /\ Plain /\ NoEscape /\ Keep /\ UNCHANGED hpos
    /\ SetLine(line_delete_back(Line))

\* Tab: the only command, or a list of candidates below the line.
TabKey ==
    /\ Plain /\ NoEscape /\ Keep /\ UNCHANGED hpos
    /\ find_completion(buf) # <<>>
    /\ SetLine(At(find_completion(buf), Len(find_completion(buf))))

Printable(c) ==
    /\ Plain /\ NoEscape /\ Keep /\ UNCHANGED hpos
    /\ Len(buf) < MaxLine
    /\ SetLine(line_insert_char(Line, c))

(***************************************************************************)
(* The paste editor.                                                       *)
(***************************************************************************)
paste_line_start(b, pos) ==
    LET breaks == {i \in 1 .. pos : b[i] = NL}
    IN  IF breaks = {} THEN 0 ELSE CHOOSE i \in breaks : \A j \in breaks : j <= i

paste_line_end(b, pos) ==
    LET breaks == {i \in pos .. Len(b) - 1 : b[i + 1] = NL}
    IN  IF breaks = {} THEN Len(b) ELSE CHOOSE i \in breaks : \A j \in breaks : i <= j

paste_col(b, pos) == pos - paste_line_start(b, pos)

Shorter(x, y) == IF x < y THEN x ELSE y

\* Mutant of the code: the column is kept from the old line instead of being cut to the new one.
PasteUpLong(l) ==
    LET start == paste_line_start(l.buf, l.cursor)
    IN  IF start = 0 THEN l
        ELSE At(l.buf, paste_line_start(l.buf, start - 1) + (l.cursor - start))

PasteUp(l) ==
    LET start == paste_line_start(l.buf, l.cursor)
        before == paste_line_start(l.buf, start - 1)
    IN  IF start = 0 THEN l
        ELSE At(l.buf, before + Shorter(l.cursor - start, start - 1 - before))

PasteDown(l) ==
    LET end == paste_line_end(l.buf, l.cursor)
        after == paste_line_end(l.buf, end + 1)
    IN  IF end >= Len(l.buf) THEN l
        ELSE At(l.buf, end + 1 + Shorter(paste_col(l.buf, l.cursor), after - end - 1))

\* Page Up and Page Down in paste_mode are PAGE single moves (see PasteKey).
PageMove(Move(_)) ==
    LET moved[i \in 0 .. PAGE] == IF i = 0 THEN Line ELSE Move(moved[i - 1])
    IN  moved[PAGE]

paste_wrap_rows(len) == IF len = 0 THEN 1 ELSE (len + WIDTH - 1) \div WIDTH

\* paste_cursor_screen_row: the rows of the lines above, then the column.
paste_cursor_screen_row(l) ==
    LET row[i \in 0 .. l.cursor] ==
            IF i = 0 THEN 0
            ELSE IF l.buf[i] = NL THEN row[i - 1] + paste_wrap_rows(paste_col(l.buf, i - 1))
            ELSE row[i - 1]
    IN  row[l.cursor] + paste_col(l.buf, l.cursor) \div WIDTH

\* paste_redraw moves the window so that the row of the cursor is in it.
paste_redraw(l) ==
    LET row == paste_cursor_screen_row(l)
    IN  top' = IF row < top THEN row
               ELSE IF row >= top + ROWSPASTE THEN row - ROWSPASTE + 1 ELSE top

Pasting(l) ==
    /\ editor = "paste" /\ NoEscape /\ UNCHANGED <<editor, history, hpos>>
    /\ SetLine(l) /\ paste_redraw(l)

PasteKey(c) ==
    CASE c = "up" -> Pasting(PasteUp(Line))
      [] c = "down" -> Pasting(PasteDown(Line))
      [] c = "left" -> Pasting(line_move_left(Line))
      [] c = "right" -> Pasting(line_move_right(Line))
      [] c = "home" -> Pasting(At(buf, paste_line_start(buf, cursor)))
      [] c = "end" -> Pasting(At(buf, paste_line_end(buf, cursor)))
      [] c = "del" -> Pasting(line_delete_forward(Line))
      [] c = "bs" -> Pasting(line_delete_back(Line))
      [] c = "pgup" -> Pasting(PageMove(PasteUp))
      [] c = "pgdn" -> Pasting(PageMove(PasteDown))
      [] OTHER -> Len(buf) < MaxPaste /\ Pasting(line_insert_char(Line, c))

PasteKeys == {"up", "down", "left", "right", "home", "end", "del", "bs", "pgup",
              "pgdn", NL} \cup Letters

\* ESC alone submits, Ctrl-C cancels: back to an empty line, the line ends at
\* the end of the text taken off before it is sent and recorded.
PasteEnds(submit) ==
    LET last == {i \in DOMAIN buf : buf[i] # NL}
        text == IF last = {} THEN <<>>
                ELSE SubSeq(buf, 1, CHOOSE i \in last : \A j \in last : j <= i)
    IN  /\ editor = "paste" /\ editor' = "line" /\ NoEscape /\ UNCHANGED top
        /\ SetLine(Empty)
        /\ IF submit /\ text # <<>>
           THEN history' = history_add(history, text) /\ hpos' = -1
           ELSE UNCHANGED <<history, hpos>>

EInit ==
    /\ editor = "line" /\ buf = <<>> /\ cursor = 0 /\ history = <<>> /\ hpos = -1
    /\ esc = "none" /\ param = -1 /\ top = 0

ENext ==
    \/ \E c \in {"ESC", "[", "other"} : EscapeByte(c)
    \/ \E d \in Digits : EscapeDigit(d)
    \/ HistoryUp \/ HistoryDown
    \/ \E c \in {"C", "D", "H", "F", "~", "other"} : FinalByte(c)
    \/ Enter \/ EndOfInput \/ Backspace \/ TabKey
    \/ \E c \in Letters \cup {Slash} : Printable(c)
    \/ \E c \in PasteKeys : PasteKey(c)
    \/ PasteEnds(TRUE) \/ PasteEnds(FALSE)

ESpec == EInit /\ [][ENext]_evars

(***************************************************************************)
(* Properties.                                                             *)
(***************************************************************************)
\* Reference for the arrows: the line of a position is the number of line ends
\* before it, its column the number of positions before it on that line.
LineOf(p) == Cardinality({i \in 1 .. p : buf[i] = NL})
ColumnOf(p) == Cardinality({q \in 0 .. p - 1 : LineOf(q) = LineOf(p)})

\* In the paste editor Up and Down go exactly one line, to the same column or
\* to the end of a shorter line, and stay where they are on the first and on
\* the last line.
ArrowsMoveOneLine ==
    editor = "paste" =>
        \A move \in {<<PasteUp(Line), -1>>, <<PasteDown(Line), 1>>} :
            LET q == move[1].cursor
                there == {p \in 0 .. Len(buf) : LineOf(p) = LineOf(cursor) + move[2]}
            IN  IF there = {} THEN q = cursor
                ELSE /\ q \in there
                     /\ ColumnOf(q) <= ColumnOf(cursor)
                     /\ \A p \in there : ColumnOf(p) <= ColumnOf(cursor)
                                          => ColumnOf(p) <= ColumnOf(q)

\* The assertions of the editor: the cursor is in the text, the browse
\* position in the history, which is within its bound and holds no entry twice
\* in a row; the row of the paste cursor is in the window; and the arrows go to
\* the neighbouring line.
EditorSound ==
    /\ cursor \in 0 .. Len(buf)
    /\ hpos \in -1 .. Len(history) - 1
    /\ Len(history) <= HISTORY_MAX
    /\ \A i \in 1 .. Len(history) - 1 : history[i] # history[i + 1]
    /\ editor = "paste" =>
           paste_cursor_screen_row(Line) \in top .. top + ROWSPASTE - 1
    /\ ArrowsMoveOneLine
=============================================================================
