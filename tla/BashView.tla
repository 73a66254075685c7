------------------------------ MODULE BashView ------------------------------
(***************************************************************************)
(* /bash <command> of nbs-chat-terminal: the command runs in a terminal of *)
(* its own, its output is cut into lines, and the lines are shown in a     *)
(* pager.  The command writes and ends at any time; the capture loop reads *)
(* what is there, and leaves when the command has ended or Ctrl-C killed   *)
(* it.  Text is abstract: "x" is any byte of a line, "nl" a line end.      *)
(***************************************************************************)
EXTENDS Integers, Sequences, SequencesExt

CONSTANTS
    BASH_MAX_LINES,     \* lines kept, 65536 in the code
    BASH_LINE_MAX,      \* bytes of a line with its end, 4096 in the code
    CONTENT,            \* rows of the pager, the header and the hint taken off
    MaxOutput           \* bound: bytes the command writes

ASSUME BashViewAssumption ==
    /\ BASH_MAX_LINES \in Nat \ {0} /\ BASH_LINE_MAX \in Nat \ {0}
    /\ CONTENT \in Nat \ {0} /\ MaxOutput \in Nat

VARIABLES
    bwin,       \* "capture", "pager" or "closed"
    command,    \* the command runs, or has ended
    output,     \* everything it wrote
    pty,        \* what of it has not been read
    got,        \* blines and lbuf: the lines so far and the bytes of the last
    scroll      \* bscroll

bvars == <<bwin, command, output, pty, got, scroll>>

BInit ==
    /\ bwin = "capture" /\ command = "runs" /\ output = <<>> /\ pty = <<>>
    /\ got = [lines |-> <<>>, part |-> 0] /\ scroll = 0

-----------------------------------------------------------------------------
\* A line is its number of bytes.  The bytes beyond BASH_LINE_MAX are dropped,
\* and so are empty lines; a line end while the table is full is lost.
TakeByte(g, b) ==
    IF b = "nl"
    THEN IF g.part > 0 /\ Len(g.lines) < BASH_MAX_LINES
         THEN [lines |-> Append(g.lines, g.part), part |-> 0] ELSE g
    ELSE [g EXCEPT !.part = IF @ < BASH_LINE_MAX - 1 THEN @ + 1 ELSE @]

Take(g, bytes) == FoldLeft(TakeByte, g, bytes)

\* The unfinished line becomes a line; its bytes stay in lbuf all the same.
Flush(g) ==
    IF g.part > 0 /\ Len(g.lines) < BASH_MAX_LINES
    THEN [g EXCEPT !.lines = Append(@, g.part)] ELSE g

\* The end of the capture: the unfinished line, then what is left in the
\* terminal, then the unfinished line of that.
Collected == Flush(Take(Flush(got), pty))

-----------------------------------------------------------------------------
CommandWrites(b) ==
    /\ bwin = "capture" /\ command = "runs" /\ Len(output) < MaxOutput
    /\ output' = Append(output, b) /\ pty' = Append(pty, b)
    /\ UNCHANGED <<bwin, command, got, scroll>>

CommandEnds ==
    /\ bwin = "capture" /\ command = "runs"
    /\ command' = "ended"
    /\ UNCHANGED <<bwin, output, pty, got, scroll>>

\* One read of the capture loop takes what is in the terminal.
ReadOutput ==
    /\ bwin = "capture" /\ pty # <<>>
    /\ got' = Take(got, pty) /\ pty' = <<>>
    /\ UNCHANGED <<bwin, command, output, scroll>>

\* Without a line there is no pager.
BashEnds ==
    /\ got' = Collected /\ pty' = <<>>
    /\ bwin' = IF Collected.lines = <<>> THEN "closed" ELSE "pager"
    /\ UNCHANGED <<output, scroll>>

\* The loop sees that the command has ended, whatever is left unread.
SeesEnd ==
    /\ bwin = "capture" /\ command = "ended"
    /\ BashEnds /\ UNCHANGED command

\* Ctrl-C: SIGTERM, SIGKILL, and the loop is left.
Cancel ==
    /\ bwin = "capture" /\ command = "runs"
    /\ command' = "ended" /\ BashEnds

-----------------------------------------------------------------------------
LastTop == Len(got.lines) - CONTENT
AtLeast0(n) == IF n < 0 THEN 0 ELSE n

\* The keys of the pager: one line, or a page.
PagerKey(k) ==
    /\ bwin = "pager"
    /\ scroll' = CASE k = "up" -> IF scroll > 0 THEN scroll - 1 ELSE scroll
                   [] k = "down" -> IF scroll < LastTop THEN scroll + 1 ELSE scroll
                   [] k = "pgup" -> AtLeast0(scroll - CONTENT)
                   [] k = "pgdn" -> AtLeast0(IF scroll + CONTENT > LastTop
                                             THEN LastTop ELSE scroll + CONTENT)
    /\ UNCHANGED <<bwin, command, output, pty, got>>

PagerCloses ==
    /\ bwin = "pager" /\ bwin' = "closed"
    /\ UNCHANGED <<command, output, pty, got, scroll>>

BNext ==
    \/ \E b \in {"x", "nl"} : CommandWrites(b)
    \/ CommandEnds \/ ReadOutput \/ SeesEnd \/ Cancel
    \/ \E k \in {"up", "down", "pgup", "pgdn"} : PagerKey(k)
    \/ PagerCloses

-----------------------------------------------------------------------------
\* What the lines of a text are: the lengths of the runs between line ends.
Bounds(text) == {0, Len(text) + 1} \cup {i \in DOMAIN text : text[i] = "nl"}
LinesOf(text) ==
    LET ends == SetToSortSeq(Bounds(text), LAMBDA i, j : i < j)
        runs == [k \in 1 .. Len(ends) - 1 |-> ends[k + 1] - ends[k] - 1]
    IN SelectSeq(runs, LAMBDA n : n > 0)

\* The comment of the captured mode: "run command in a PTY, capture output,
\* display in pager".  The pager shows the lines the command wrote, each once,
\* as long as they fit.
PagerShowsOutput ==
    (bwin = "pager" /\ Len(output) < BASH_LINE_MAX /\ Len(output) < BASH_MAX_LINES)
        => got.lines = LinesOf(output)
=============================================================================
