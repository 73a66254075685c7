---------------------------- MODULE SessionLogs -----------------------------
(***************************************************************************)
(* The clients of a session's files: nbs-ts read-new with its cursor file, *)
(* wait-complete on the completion log, wait-pattern on the output log.    *)
(* The daemon and the shell append to the two logs while the clients look. *)
(***************************************************************************)
EXTENDS Naturals, Sequences, SequencesExt, FiniteSets

CONSTANTS
    Readers,        \* concurrent calls of read-new
    Chunks,         \* what one write of the daemon may append: no NUL byte,
                    \* which would end the search of strstr and the print
    Pattern,        \* what wait-pattern looks for
    READ_MAX,       \* the bytes that one pread of read-new takes, at most
    LOOK_MAX,       \* the bytes that one look of wait-pattern takes, at most
    MaxLog,         \* bound on the output
    MaxPrompts,     \* bound on the prompts of the shell
    MaxLogFaults    \* bound on timeouts and killed clients

ASSUME SessionLogsAssumption ==
    /\ READ_MAX \in Nat \ {0} /\ LOOK_MAX \in Nat \ {0} /\ MaxLog \in Nat /\ MaxPrompts \in Nat /\ MaxLogFaults \in Nat
    /\ Pattern # <<>> /\ Pattern \in Seq(Range(Pattern))
    /\ Chunks \subseteq Seq(UNION {Range(c) : c \in Chunks})

VARIABLES
    out,        \* output.log
    whole,      \* where the pattern begins that one write held (history)
    comp,       \* completion.log: the prompts 0 .. comp - 1
    read_cursor,
    rd,         \* the calls of read-new: [at, from, to]
    printed,    \* the bytes that were printed (history)
    completion_cursor,
    wc,         \* the call of wait-complete: [at, cursor, watch, event]
    reported,   \* the completions that it printed (history)
    wp,         \* the call of wait-pattern: [by, at, offset, seen, found, event]
    cuts,       \* where a look ended before the end of the log (history)
    lfaults

lvars == <<out, whole, comp, read_cursor, rd, printed, completion_cursor, wc, reported, wp, cuts, lfaults>>

LInit ==
    /\ out = <<>> /\ whole = {} /\ comp = 0
    /\ read_cursor = 0 /\ rd = [r \in Readers |-> [at |-> "idle", from |-> 0, to |-> 0]]
    /\ printed = {}
    /\ completion_cursor = 0 /\ wc = [at |-> "idle", cursor |-> 0, watch |-> FALSE, event |-> FALSE]
    /\ reported = <<>>
    /\ wp \in [by : {"cli", "lib"}, at : {"look"}, offset : {0}, seen : {0},
              found : {FALSE}, event : {FALSE}]
    /\ cuts = {}
    /\ lfaults = 0

LFault == lfaults < MaxLogFaults /\ lfaults' = lfaults + 1
\* Where the pattern begins in s, counted from 0.
Positions(s) ==
    {i \in 0..Len(s) : i + Len(Pattern) =< Len(s) /\ SubSeq(s, i + 1, i + Len(Pattern)) = Pattern}
HoldsPattern(s) == Positions(s) # {}
----------------------------------------------------------------------------

\* The daemon appends what it read from the terminal; the watch of
\* wait-pattern, which is set before its first look, is told.
AppendOutput(c) ==
    /\ Len(out) + Len(c) =< MaxLog
    /\ out' = out \o c
    /\ whole' = whole \cup {Len(out) + i : i \in Positions(c)}
    /\ wp' = [wp EXCEPT !.event = TRUE]
    /\ UNCHANGED <<comp, read_cursor, rd, printed, completion_cursor, wc, reported, cuts, lfaults>>

\* PROMPT_COMMAND appends a line; a watch of the file is told.
Prompt ==
    /\ comp < MaxPrompts
    /\ comp' = comp + 1
    /\ wc' = [wc EXCEPT !.event = wc.watch]
    /\ UNCHANGED <<out, whole, read_cursor, rd, printed, completion_cursor, reported, wp, cuts, lfaults>>
----------------------------------------------------------------------------
(* read-new *)

Reader(r, at, from, to) == rd' = [rd EXCEPT ![r] = [at |-> at, from |-> from, to |-> to]]

ReadCursor(r) ==
    /\ rd[r].at = "idle" /\ read_cursor < Len(out)
    /\ Reader(r, "pread", read_cursor, read_cursor)
    /\ UNCHANGED <<out, whole, comp, read_cursor, printed, completion_cursor, wc, reported, wp, cuts, lfaults>>

PRead(r) ==
    /\ rd[r].at = "pread"
    /\ Reader(r, "write", rd[r].from,
              IF Len(out) - rd[r].from > READ_MAX THEN rd[r].from + READ_MAX ELSE Len(out))
    /\ UNCHANGED <<out, whole, comp, read_cursor, printed, completion_cursor, wc, reported, wp, cuts, lfaults>>

\* Mutant: the cursor is the end of the log.
WriteCursorEnd(r) ==
    /\ rd[r].at = "write"
    /\ read_cursor' = Len(out)
    /\ Reader(r, "print", rd[r].from, rd[r].to)
    /\ UNCHANGED <<out, whole, comp, printed, completion_cursor, wc, reported, wp, cuts, lfaults>>

WriteCursor(r) ==
    /\ rd[r].at = "write"
    /\ read_cursor' = rd[r].to
    /\ Reader(r, "print", rd[r].from, rd[r].to)
    /\ UNCHANGED <<out, whole, comp, printed, completion_cursor, wc, reported, wp, cuts, lfaults>>

PrintOutput(r) ==
    /\ rd[r].at = "print"
    /\ printed' = printed \cup (rd[r].from + 1)..rd[r].to
    /\ Reader(r, "idle", 0, 0)
    /\ UNCHANGED <<out, whole, comp, read_cursor, completion_cursor, wc, reported, wp, cuts, lfaults>>
----------------------------------------------------------------------------
(* wait-complete, one call at a time *)

Waiter(from, at) == wc.at = from /\ wc' = [wc EXCEPT !.at = at]

\* A missing cursor file reads as 0, so that the first prompt, the one that
\* no command precedes, is never reported.
WaitStart ==
    /\ wc.at = "idle"
    /\ wc' = [at |-> "watch", cursor |-> completion_cursor, watch |-> FALSE, event |-> FALSE]
    /\ UNCHANGED <<out, whole, comp, read_cursor, rd, printed, completion_cursor, reported, wp, cuts, lfaults>>

\* Mutant: an append is not among the events that are asked for.
AddWatchOther ==
    /\ Waiter("watch", "scan")
    /\ UNCHANGED <<out, whole, comp, read_cursor, rd, printed, completion_cursor, reported, wp, cuts, lfaults>>

AddWatch ==
    /\ wc.at = "watch" /\ wc' = [wc EXCEPT !.at = "scan", !.watch = TRUE]
    /\ UNCHANGED <<out, whole, comp, read_cursor, rd, printed, completion_cursor, reported, wp, cuts, lfaults>>

Completed == comp > wc.cursor + 1

\* The whole log is read: the last line beyond the cursor counts.
Scan ==
    /\ wc.at = "scan"
    /\ wc' = IF Completed THEN [wc EXCEPT !.at = "write", !.cursor = comp - 1]
                          ELSE [wc EXCEPT !.at = "poll"]
    /\ UNCHANGED <<out, whole, comp, read_cursor, rd, printed, completion_cursor, reported, wp, cuts, lfaults>>

\* poll returns at an event; the queue is emptied before the log is read.
Poll ==
    /\ wc.at = "poll" /\ wc.event
    /\ wc' = [wc EXCEPT !.at = "scan", !.event = FALSE]
    /\ UNCHANGED <<out, whole, comp, read_cursor, rd, printed, completion_cursor, reported, wp, cuts, lfaults>>

\* Mutant: the cursor file is not written.
SaveCompletionNot ==
    /\ Waiter("write", "print")
    /\ UNCHANGED <<out, whole, comp, read_cursor, rd, printed, completion_cursor, reported, wp, cuts, lfaults>>

SaveCompletion ==
    /\ Waiter("write", "print")
    /\ completion_cursor' = wc.cursor
    /\ UNCHANGED <<out, whole, comp, read_cursor, rd, printed, reported, wp, cuts, lfaults>>

PrintCompletion ==
    /\ wc.at = "print" /\ wc' = [wc EXCEPT !.at = "idle", !.watch = FALSE, !.event = FALSE]
    /\ reported' = Append(reported, wc.cursor)
    /\ UNCHANGED <<out, whole, comp, read_cursor, rd, printed, completion_cursor, wp, cuts, lfaults>>

\* The deadline passes in poll, or the caller is killed.
WaitEnds ==
    /\ wc.at # "idle" /\ LFault
    /\ wc' = [wc EXCEPT !.at = "idle", !.watch = FALSE, !.event = FALSE]
    /\ UNCHANGED <<out, whole, comp, read_cursor, rd, printed, completion_cursor, reported, wp, cuts>>

\* nbs_ts_wait_complete, the same call of the library, has its cursor in
\* memory, so that there the last two steps are one.
WaitComplete == WaitStart \/ AddWatch \/ Scan \/ Poll \/ SaveCompletion \/ PrintCompletion
----------------------------------------------------------------------------
(* wait-pattern: every wake-up reads from search_offset on, LOOK_MAX bytes  *)
(* at most; what is behind them waits for the wake-up after the next output *)

Looking(by) == wp.by = by /\ wp.at = "look" /\ ~ wp.found

\* Where a look ends, and what it reads.
Looked == IF Len(out) - wp.offset > LOOK_MAX THEN wp.offset + LOOK_MAX ELSE Len(out)
Taken == SubSeq(out, wp.offset + 1, Looked)

Look(found, offset) ==
    /\ wp' = [wp EXCEPT !.at = "poll", !.found = found, !.offset = offset, !.seen = Looked]
    /\ cuts' = cuts \cup (IF Looked < Len(out) THEN {Looked} ELSE {})
    /\ UNCHANGED <<out, whole, comp, read_cursor, rd, printed, completion_cursor, wc, reported, lfaults>>

\* cmd_wait_pattern goes on behind what it has read.
cmd_wait_pattern == Looking("cli") /\ Look(HoldsPattern(Taken), Looked)

\* Mutant: the library goes on behind what it has read, as the command does.
nbs_ts_wait_pattern_on == Looking("lib") /\ Look(HoldsPattern(Taken), Looked)

\* nbs_ts_wait_pattern, the same call of the library, takes the last bytes of
\* a read again, unless the read was shorter than the pattern.
nbs_ts_wait_pattern ==
    /\ Looking("lib")
    /\ Look(HoldsPattern(Taken),
            IF Looked - wp.offset >= Len(Pattern) THEN Looked - (Len(Pattern) - 1) ELSE Looked)

\* poll returns at an event; the queue is emptied before the log is read.
PollPattern ==
    /\ wp.at = "poll" /\ ~ wp.found /\ wp.event
    /\ wp' = [wp EXCEPT !.at = "look", !.event = FALSE]
    /\ UNCHANGED <<out, whole, comp, read_cursor, rd, printed, completion_cursor, wc, reported, cuts, lfaults>>

Output == \E c \in Chunks : AppendOutput(c)
Reading == Output \/ \E r \in Readers : ReadCursor(r) \/ PRead(r) \/ WriteCursor(r) \/ PrintOutput(r)
Waiting == Prompt \/ WaitComplete \/ WaitEnds
Matching == Output \/ cmd_wait_pattern \/ nbs_ts_wait_pattern \/ PollPattern

\* All clients at once.
LSpec == LInit /\ [][Reading \/ Waiting \/ Matching]_lvars
----------------------------------------------------------------------------

\* Every byte behind the cursor of read-new has been printed or is about to
\* be, although two calls read the cursor and write it in any order.
NoOutputLost ==
    \A i \in 1..read_cursor :
        i \in printed \/ \E r \in Readers : rd[r].at = "print" /\ i > rd[r].from /\ i =< rd[r].to

\* No completion is reported twice and none after a later one, whatever call
\* was killed or timed out in between.
CompletionsOnce == \A i, j \in DOMAIN reported : i < j => reported[i] < reported[j]

\* The watch is set before the log is read: a command that ends at any time
\* wakes the waiting call.
WaitWakes == (wc.at \in {"scan", "poll"} /\ Completed) ~> wc.at \in {"write", "idle"}

\* A pattern that one write of the daemon holds is found by the look that
\* ends behind it. Two cases are excepted: the pattern lies across the end of
\* a look that LOOK_MAX cut short, and the caller is the command, which does
\* not read the cut bytes again; or the pattern is longer than a look.
WholePatternFound ==
    \A i \in whole :
        LET behind == i + Len(Pattern) IN
          behind =< wp.seen =>
              \/ wp.found
              \/ (wp.by = "cli" \/ LOOK_MAX < Len(Pattern)) /\ \E c \in cuts : i < c /\ c < behind

\* "so that a pattern split across two reads is not missed" (the library).
SplitPatternFound == wp.by = "lib" /\ wp.seen = Len(out) /\ HoldsPattern(out) => wp.found
=============================================================================
