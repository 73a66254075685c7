------------------------------ MODULE Terminal ------------------------------
(***************************************************************************)
(* nbs-chat-terminal (terminal.c): the window a person has on a chat.  One *)
(* thread waits for a key, for the output of a child or for 1.5 seconds of *)
(* silence, and keeps g_msg_count, the number of messages it has dealt     *)
(* with.  Others post in the meantime, and a post beyond the threshold     *)
(* archives the oldest messages and renumbers the rest.  The line that is  *)
(* typed is modelled in LineEditor; here an action is a whole command.     *)
(***************************************************************************)
EXTENDS Integers, Sequences, FiniteSets, SequencesExt

CONSTANTS
    Others,         \* the handles of the other participants
    SHOW,           \* messages a repaint reaches back (50)
    REDISPLAY,      \* messages /unfilter and /unmention show (20)
    THRESHOLD,      \* messages a chat holds before it is archived (2000)
    CLEAVE,         \* messages an archive takes (1000)
    SCROLLROWS,     \* screen lines of the scrollback
    PIPES,          \* MAX_CHILD_PIPES
    INFO_MAX,       \* bytes of a line that line_buf takes (511)
    MaxPosts,       \* bound: messages ever posted
    MaxBytes,       \* bound: bytes of text the children write, bytes in a pipe
    MaxCommands     \* bound: commands that start a child or speak for the team

ASSUME TerminalAssumption ==
    /\ SHOW \in Nat \ {0} /\ REDISPLAY \in Nat /\ SCROLLROWS \in Nat \ {0}
    /\ THRESHOLD \in Nat /\ CLEAVE \in 1 .. THRESHOLD
    /\ PIPES \in Nat \ {0} /\ INFO_MAX \in Nat /\ MaxPosts \in Nat

NoOne == "none"
Me == "me"

VARIABLES
    chat,       \* the messages in the chat file
    posts,      \* messages posted so far
    agentread,  \* messages of the file the agents' cursors are past
    archived,   \* an archive has taken place
    count,      \* g_msg_count
    shown,      \* messages displayed, ever
    excused,    \* messages counted while a filter hid them, or out of reach
    view,       \* what the terminal is doing
    off,        \* g_scrollback_offset
    filter,     \* g_filter_handle
    mention,    \* g_mention_handle is set
    pipes,      \* g_child_pipes
    wrote,      \* bytes of text the children have written
    toolong,    \* those of them beyond the first INFO_MAX of their line
    emitted,    \* bytes of text displayed as INFO lines
    corrupt,    \* the chat file has lines that cannot be read
    repairing,  \* g_repair_running
    enabled,    \* the watchdog flag
    paused,     \* .nbs/control-pause exists
    sidecars,   \* the team has its sidecars
    oracles,    \* oracle workers running
    lastrun,    \* .nbs/<role>-last-run is younger than the interval
    commands    \* commands given so far

chatvars == <<chat, posts, archived, agentread>>
seenvars == <<count, shown, excused>>
pipevars == <<pipes, wrote, toolong, emitted>>
teamflags == <<enabled, paused, sidecars, oracles, lastrun, commands>>
modevars == <<view, off, filter, mention>>
ttyvars == <<chatvars, seenvars, modevars, pipevars, corrupt, repairing,
             teamflags>>

(***************************************************************************)
(* Messages.                                                               *)
(***************************************************************************)
Message == [n : 1 .. MaxPosts, by : Others \cup {Me}, at : BOOLEAN]
Ids(msgs) == {m.n : m \in msgs}

\* content_mentions: the message names the handle of the /mention filter.
content_mentions(m) == m.at

Passes(m) ==
    /\ filter # NoOne => m.by = filter
    /\ mention => content_mentions(m)

Recent(msgs, k) ==
    IF Len(msgs) > k THEN SubSeq(msgs, Len(msgs) - k + 1, Len(msgs)) ELSE msgs

\* chat_send as the terminal sees it: the message is appended, and in the same
\* critical section the file is archived when it has grown too long.
AppendMessage(by, at, read) ==
    LET all == Append(chat, [n |-> posts + 1, by |-> by, at |-> at])
    IN  /\ posts < MaxPosts
        /\ posts' = posts + 1
        /\ chat' = IF Len(all) > THRESHOLD
                   THEN SubSeq(all, CLEAVE + 1, Len(all)) ELSE all
        /\ archived' = (archived \/ Len(all) > THRESHOLD)
        /\ agentread' = IF Len(all) > THRESHOLD
                        THEN IF read > CLEAVE THEN read - CLEAVE ELSE 0
                        ELSE read

ChatSend(by, at) == AppendMessage(by, at, agentread)

(***************************************************************************)
(* What a poll and a repaint do with the messages.                         *)
(***************************************************************************)
\* Mutant of the code: the send counted its own message already.
poll_and_display_ahead(msgs) ==
    LET fresh == {msgs[i] : i \in count + 2 .. Len(msgs)}
        others == {m \in fresh : m.by # Me}
        visible == {m \in others : Passes(m)}
    IN  /\ count' = Len(msgs)
        /\ shown' = shown \cup Ids(visible)
        /\ excused' = excused \cup (Ids(others) \ Ids(visible))

\* poll_and_display over the file msgs: the count goes down when the file got
\* shorter, and nothing is displayed; otherwise the messages of others after
\* the count are displayed unless a filter hides them, and all are counted.
poll_and_display(msgs) ==
    LET fresh == {msgs[i] : i \in count + 1 .. Len(msgs)}
        others == {m \in fresh : m.by # Me}
        visible == {m \in others : Passes(m)}
    IN  /\ count' = Len(msgs)
        /\ shown' = shown \cup Ids(visible)
        /\ excused' = excused \cup (Ids(others) \ Ids(visible))

\* The screen is cleared and the last 50 messages that no filter hides are
\* painted; everything is counted.  The file may be unreadable: the screen
\* stays empty and the count as it was.
Redraw ==
    \/ LET visible == {m \in Range(Recent(chat, SHOW)) : Passes(m)}
       IN  /\ count' = Len(chat)
           /\ shown' = shown \cup Ids(visible)
           /\ excused' = excused \cup (Ids(Range(chat)) \ Ids(visible))
    \/ /\ UNCHANGED <<count, shown>>
       /\ excused' = excused \cup {chat[i].n : i \in (1 .. count) \cap DOMAIN chat}

(***************************************************************************)
(* Children whose output becomes INFO lines.                               *)
(***************************************************************************)
\* A slot of g_child_pipes: bytes in the pipe ("x" text, which holds no NUL
\* byte, "nl" a line end), the text of an unfinished line, whether every writer
\* has closed its end.  The length of the line that the child is writing is
\* history.
Pipe(label) == [label |-> label, open |-> TRUE, out |-> <<>>, part |-> 0,
                closed |-> FALSE, line |-> 0]

\* spawn_with_capture and child_pipe_register: refused when all slots are used.
spawn_with_capture(label) ==
    pipes' = IF Len(pipes) >= PIPES THEN pipes ELSE Append(pipes, Pipe(label))

Texts(s) == Cardinality({i \in DOMAIN s : s[i] = "x"})

\* The sum of f[1] to f[n].
SumTo(f, n) ==
    LET sum[i \in 0 .. n] == IF i = 0 THEN 0 ELSE sum[i - 1] + f[i] IN sum[n]

\* What one byte does to the line under construction and to the text shown: a
\* line end shows the line, and text that line_buf has no room for is dropped.
ReadByte(s, b) ==
    CASE b = "nl" -> [part |-> 0, text |-> s.text + s.part]
      [] b = "x" /\ s.part < INFO_MAX -> [s EXCEPT !.part = @ + 1]
      [] OTHER -> s

\* The line and the text after the bytes of the pipe.
ReadAll(part, out) ==
    LET read[i \in 0 .. Len(out)] ==
            IF i = 0 THEN [part |-> part, text |-> 0] ELSE ReadByte(read[i - 1], out[i])
    IN  read[Len(out)]

\* Mutant of the code: at the end of the file what was read is dropped.
DrainedEarly(p) ==
    LET all == ReadAll(p.part, p.out)
    IN  [pipe |-> [p EXCEPT !.out = <<>>, !.part = IF p.closed THEN 0 ELSE all.part,
                            !.open = ~p.closed],
         text |-> IF p.closed THEN 0 ELSE all.text]

\* child_pipe_drain: everything in the pipe is read; complete lines are shown
\* and at the end of the file the unfinished one too.  A read that fails is
\* an end of the file.
Drained(p) ==
    LET all == ReadAll(p.part, p.out)
    IN  [pipe |-> [p EXCEPT !.out = <<>>, !.part = IF p.closed THEN 0 ELSE all.part,
                            !.open = ~p.closed],
         text |-> all.text + (IF p.closed THEN all.part ELSE 0)]

\* The slots that are still open move to the front.
child_pipe_compact(ps) ==
    LET kept[i \in 0 .. Len(ps)] ==
            IF i = 0 THEN <<>>
            ELSE IF ps[i].open THEN Append(kept[i - 1], ps[i]) ELSE kept[i - 1]
    IN  kept[Len(ps)]

\* The event loop drains every pipe with something to read, then compacts.
ReadyPipe(p) == p.out # <<>> \/ p.closed
DrainPipes ==
    /\ view = "live"
    /\ \E p \in Range(pipes) : ReadyPipe(p)
    /\ emitted' = emitted + SumTo([i \in DOMAIN pipes |-> IF ReadyPipe(pipes[i])
                                                         THEN Drained(pipes[i]).text ELSE 0],
                                  Len(pipes))
    /\ pipes' = child_pipe_compact(
                    [i \in DOMAIN pipes |-> IF ReadyPipe(pipes[i])
                                            THEN Drained(pipes[i]).pipe
                                            ELSE pipes[i]])
    /\ UNCHANGED <<chatvars, seenvars, modevars, wrote, toolong, corrupt, repairing,
                   teamflags>>

(***************************************************************************)
(* Start.                                                                  *)
(***************************************************************************)
Init ==
    /\ chat = <<>> /\ posts = 0 /\ archived = FALSE /\ agentread = 0
    /\ count = 0 /\ shown = {} /\ excused = {}
    /\ view = "goal" /\ off = 0 /\ filter = NoOne /\ mention = FALSE
    /\ pipes = <<>> /\ wrote = 0 /\ toolong = 0 /\ emitted = 0
    /\ corrupt = FALSE /\ repairing = FALSE
    /\ enabled = TRUE /\ paused \in BOOLEAN /\ sidecars \in BOOLEAN
    /\ oracles = 0 /\ lastrun = FALSE /\ commands = 0

\* --goal-file: sent before anything else is touched; a goal file that cannot
\* be used, or a send that fails, ends the program.
InjectGoal ==
    /\ view = "goal"
    /\ \/ view' = "confirm" /\ UNCHANGED chatvars
       \/ view' = "confirm" /\ ChatSend(Me, FALSE)
       \/ view' = "gone" /\ UNCHANGED chatvars
    /\ UNCHANGED <<seenvars, off, filter, mention, pipevars, corrupt, repairing,
                   teamflags>>

\* --restart with sessions running asks first; the answer may be no.
ConfirmRestart ==
    /\ view = "confirm"
    /\ \/ view' = "show" \/ view' = "restart" \/ (sidecars /\ view' = "gone")
    /\ UNCHANGED <<chatvars, seenvars, off, filter, mention, pipevars, corrupt,
                   repairing, teamflags>>

\* Every message of the file is displayed once, without a filter; a restart
\* that was asked for then runs to its end.
ShowExisting ==
    /\ view \in {"show", "restart"}
    /\ \/ count' = Len(chat) /\ shown' = shown \cup Ids(Range(chat))
       \/ UNCHANGED <<count, shown>>
    /\ view' = "live"
    /\ sidecars' = (sidecars \/ view = "restart")
    /\ UNCHANGED <<chatvars, excused, off, filter, mention, pipevars, corrupt,
                   repairing, enabled, paused, oracles, commands, lastrun>>

(***************************************************************************)
(* The timeout branch of the event loop.                                   *)
(***************************************************************************)
\* Auto-repair: started once, and again only after a read without bad lines.
AutoRepair ==
    \/ /\ corrupt /\ ~repairing
       /\ repairing' = TRUE /\ spawn_with_capture("repair")
    \/ /\ ~corrupt /\ repairing' = FALSE /\ UNCHANGED pipes
    \/ /\ corrupt /\ repairing /\ UNCHANGED <<repairing, pipes>>

Live == view = "live" /\ off = 0

\* Mutant of the code: nothing is polled while a filter is set.
PollUnfiltered ==
    /\ Live /\ filter = NoOne
    /\ count # Len(chat) \/ corrupt # repairing
    /\ poll_and_display(chat) /\ AutoRepair
    /\ UNCHANGED <<chatvars, modevars, wrote, toolong, emitted, corrupt, teamflags>>

\* The terminal polls after 1.5 seconds without a key; a poll that finds
\* nothing new changes nothing.
Poll ==
    /\ Live
    /\ count # Len(chat) \/ corrupt # repairing
    /\ poll_and_display(chat) /\ AutoRepair
    /\ UNCHANGED <<chatvars, modevars, wrote, toolong, emitted, corrupt, teamflags>>

\* Every 10 seconds, while the watchdog is enabled: oracles that posted end.
Reaper ==
    /\ view = "live" /\ enabled /\ oracles > 0
    /\ oracles' = oracles - 1
    /\ UNCHANGED <<chatvars, seenvars, modevars, pipevars, corrupt, repairing,
                   enabled, paused, sidecars, commands, lastrun>>

\* Every 601 seconds, unless the team is paused: missing sidecars come back.
SidecarWatchdog ==
    /\ view = "live" /\ ~paused /\ ~sidecars
    /\ sidecars' = TRUE
    /\ UNCHANGED <<chatvars, seenvars, modevars, pipevars, corrupt, repairing,
                   enabled, paused, oracles, commands, lastrun>>

(***************************************************************************)
(* Scrollback.                                                             *)
(***************************************************************************)
\* scrollback_render: all messages are counted, the offset is kept inside the
\* lines there are, and SCROLLROWS lines from there are displayed, one per
\* message.  When the file cannot be read the offset stays as it was asked for.
scrollback_render(o) ==
    \/ LET visible == {i \in DOMAIN chat : Passes(chat[i])}
           lines == Cardinality(visible)
           lineof(i) == Cardinality({k \in visible : k =< i})
           top == IF lines > SCROLLROWS THEN lines - SCROLLROWS ELSE 0
           at == IF o > top THEN top ELSE o
           first == top - at
       IN  /\ count' = Len(chat)
           /\ off' = at
           /\ shown' = shown \cup {chat[i].n : i \in {k \in visible :
                                       lineof(k) > first /\ lineof(k) =< first + SCROLLROWS}}
           /\ excused' = excused \cup {chat[i].n : i \in DOMAIN chat \ visible}
    \/ o =< MaxPosts /\ off' = o /\ UNCHANGED seenvars

\* Page Up enters the scrollback or goes further back.
PageUp ==
    /\ view = "live"
    /\ scrollback_render(off + 1)
    /\ UNCHANGED <<chatvars, view, filter, mention, pipevars, corrupt, repairing,
                   teamflags>>

\* Page Down goes forward; at the end the live view is painted again.
PageDown ==
    /\ view = "live" /\ off > 0
    /\ \/ off > 1 /\ scrollback_render(off - 1)
       \/ off = 1 /\ off' = 0 /\ Redraw
    /\ UNCHANGED <<chatvars, view, filter, mention, pipevars, corrupt, repairing,
                   teamflags>>

\* A bare ESC leaves the scrollback.  Every other key is ignored there.
ScrollEscape ==
    /\ view = "live" /\ off > 0
    /\ off' = 0 /\ Redraw
    /\ UNCHANGED <<chatvars, view, filter, mention, pipevars, corrupt, repairing,
                   teamflags>>

(***************************************************************************)
(* Sending.                                                                *)
(***************************************************************************)
\* do_send: the message enters the file, or the send fails; the count stays.
do_send == ChatSend(Me, FALSE) \/ UNCHANGED chatvars

\* The poll that follows a send reads the file anew.
SendThenPoll == do_send /\ poll_and_display(chat') /\ AutoRepair

\* Enter on an ordinary line: send_and_display.
SendLine ==
    /\ Live
    /\ SendThenPoll
    /\ UNCHANGED <<modevars, wrote, toolong, emitted, corrupt, teamflags>>

\* /exit, Ctrl-C, Ctrl-D, the end of the input: a pending line is sent first.
Leave ==
    /\ Live
    /\ view' = "gone"
    /\ do_send
    /\ UNCHANGED <<seenvars, off, filter, mention, pipevars, corrupt, repairing,
                   teamflags>>

EditorOpens ==
    UNCHANGED <<chatvars, seenvars, off, filter, mention, pipevars, corrupt,
                repairing, teamflags>>

EditorText(text) ==
    \/ text = "text" /\ SendThenPoll
    \/ text = "none" /\ UNCHANGED chatvars /\ poll_and_display(chat) /\ AutoRepair

\* /edit and /paste: the terminal is with the editor, nothing is polled.
CmdEdit == Live /\ view' = "editor" /\ EditorOpens
CmdPaste == Live /\ view' = "paste" /\ EditorOpens

\* open_editor: a text, or none when the file is empty or too large or any step
\* fails, the editor's own exit included.
open_editor == {"text", "none"}

\* The editor ends: its text is sent, or there is none; then a poll.
EditReturns ==
    /\ view = "editor" /\ view' = "live"
    /\ \E text \in open_editor : EditorText(text)
    /\ UNCHANGED <<off, filter, mention, wrote, toolong, emitted, corrupt, teamflags>>

\* paste_mode ends with ESC or Ctrl-C; line ends at the end are taken off.
PasteReturns ==
    /\ view = "paste" /\ view' = "live"
    /\ \E text \in {"text", "none"} : EditorText(text)
    /\ UNCHANGED <<off, filter, mention, wrote, toolong, emitted, corrupt, teamflags>>

(***************************************************************************)
(* Full-screen views and filters.                                          *)
(***************************************************************************)
\* Another program has the screen; the terminal waits for it.
OpenView(v) ==
    /\ Live
    /\ view' = v
    /\ UNCHANGED <<chatvars, seenvars, off, filter, mention, pipevars, corrupt,
                   repairing, teamflags>>

\* /bash: an interactive shell, or one command in a terminal of its own whose
\* lines are then paged (BashView).
CmdBash == OpenView("bash")

\* /browse: refused when the chat cannot be read; chatview polls on its own
\* and counts nothing here.
CmdBrowse == OpenView("browse")

CmdDashboard == OpenView("dashboard")

\* /file: nbs-file-browser, started where it was last left.
CmdFile == OpenView("file")

ViewReturns ==
    /\ view \in {"bash", "browse", "dashboard", "file"}
    /\ view' = "live" /\ Redraw
    /\ UNCHANGED <<chatvars, off, filter, mention, pipevars, corrupt, repairing,
                   teamflags>>

CmdRedraw ==
    /\ Live /\ Redraw
    /\ UNCHANGED <<chatvars, modevars, pipevars, corrupt, repairing, teamflags>>

\* /filter <handle>: the last 50 messages of that handle, nothing is counted.
CmdFilter(h) ==
    /\ Live
    /\ filter' = h
    /\ shown' = shown \cup Ids(Range(Recent(SelectSeq(chat, LAMBDA m : m.by = h), SHOW)))
    /\ UNCHANGED <<chatvars, count, excused, view, off, mention, pipevars, corrupt,
                   repairing, teamflags>>

\* /mention <handle>: the last 50 messages that name it.
CmdMention ==
    /\ Live
    /\ mention' = TRUE
    /\ shown' = shown \cup Ids(Range(Recent(SelectSeq(chat, content_mentions), SHOW)))
    /\ UNCHANGED <<chatvars, count, excused, view, off, filter, pipevars, corrupt,
                   repairing, teamflags>>

\* /unfilter and /unmention: the last 20 messages, whatever the other filter.
CmdUnfilter ==
    /\ Live
    /\ filter # NoOne /\ filter' = NoOne
    /\ shown' = shown \cup Ids(Range(Recent(chat, REDISPLAY)))
    /\ UNCHANGED <<chatvars, count, excused, view, off, mention, pipevars, corrupt,
                   repairing, teamflags>>

CmdUnmention ==
    /\ Live
    /\ mention /\ mention' = FALSE
    /\ shown' = shown \cup Ids(Range(Recent(chat, REDISPLAY)))
    /\ UNCHANGED <<chatvars, count, excused, view, off, filter, pipevars, corrupt,
                   repairing, teamflags>>

\* /search <pattern>: the matches, here those with a mention.
CmdSearch ==
    /\ Live
    /\ shown' = shown \cup Ids({m \in Range(chat) : content_mentions(m)})
    /\ UNCHANGED <<chatvars, count, excused, modevars, pipevars, corrupt, repairing,
                   teamflags>>

(***************************************************************************)
(* Commands for the team.                                                  *)
(***************************************************************************)
Command ==
    /\ Live /\ commands < MaxCommands
    /\ commands' = commands + 1

\* do_send of a SYSTEM message; no poll follows.
Announce == do_send /\ UNCHANGED seenvars

CmdPause ==
    /\ Command /\ ~paused
    /\ paused' = TRUE /\ enabled' = FALSE /\ Announce
    /\ UNCHANGED <<modevars, pipevars, corrupt, repairing, sidecars, oracles,
                   lastrun>>

\* Resumed when the watchdog is off or the team is paused: /shutdown turns the
\* watchdog off without a pause file.  The cursors of the agents are set to the
\* last message there is, so that only what follows is unread; then the resume
\* message is sent.
CmdResume ==
    /\ Command /\ (paused \/ ~enabled)
    /\ paused' = FALSE /\ enabled' = TRUE
    /\ LET read == IF chat = <<>> THEN 1 ELSE Len(chat)
       IN  \/ AppendMessage(Me, FALSE, read)
           \/ agentread' = read /\ UNCHANGED <<chat, posts, archived>>
    /\ UNCHANGED <<seenvars, modevars, pipevars, corrupt, repairing, sidecars,
                   oracles, lastrun>>

\* /shutdown: announced, ten seconds of grace, then the sessions are swept
\* twice and the sidecars killed; the terminal waits all the while.
CmdShutdown ==
    /\ Command
    /\ view' = "shutdown" /\ enabled' = FALSE /\ Announce
    /\ UNCHANGED <<off, filter, mention, pipevars, corrupt, repairing, paused,
                   sidecars, oracles, lastrun>>

ShutdownSweep ==
    /\ view = "shutdown"
    /\ view' = "live" /\ sidecars' = FALSE /\ oracles' = 0
    /\ UNCHANGED <<chatvars, seenvars, off, filter, mention, pipevars, corrupt,
                   repairing, enabled, paused, commands, lastrun>>

\* A command whose output is captured.
CmdChild(label) ==
    /\ Command
    /\ spawn_with_capture(label)
    /\ UNCHANGED <<chatvars, seenvars, modevars, wrote, toolong, emitted, corrupt,
                   repairing, enabled, paused, sidecars, oracles, lastrun>>

\* /restart needs an enabled watchdog, the others only a project root.
CmdRestart == enabled /\ CmdChild("restart")
CmdKick == CmdChild("script")
CmdHealth == CmdChild("script")
CmdSidecar == CmdChild("script")

\* oracle_worker_active asks for sessions named nbs-<role>-worker-; nbs-claude
\* names them nbs-<handle>-<tag>, so that none is ever found.
oracle_worker_active == FALSE

\* touch_oracle_timestamp: the periodic trigger waits for a whole interval.
touch_oracle_timestamp == lastrun' = TRUE

\* spawn_trigger_worker: skipped when a worker of the role is alive, otherwise
\* the stamp is written first; the spawn may still fail.
spawn_trigger_worker ==
    IF oracle_worker_active THEN UNCHANGED <<oracles, lastrun>>
    ELSE touch_oracle_timestamp /\ oracles' \in {oracles, oracles + 1}

\* /pythia, /shepard, /librarian, /fixup, /digest, also while paused.
CmdOracle ==
    /\ Command
    /\ spawn_trigger_worker
    /\ UNCHANGED <<chatvars, seenvars, modevars, pipevars, corrupt, repairing,
                   enabled, paused, sidecars>>

\* A sidecar's periodic trigger, and the end of its interval.
PeriodicOracle ==
    /\ sidecars /\ ~paused /\ ~lastrun /\ oracles < MaxCommands
    /\ lastrun' = TRUE /\ oracles' = oracles + 1
    /\ UNCHANGED <<chatvars, seenvars, modevars, pipevars, corrupt, repairing,
                   enabled, paused, sidecars, commands>>

IntervalOver ==
    /\ lastrun /\ lastrun' = FALSE
    /\ UNCHANGED <<chatvars, seenvars, modevars, pipevars, corrupt, repairing,
                   enabled, paused, sidecars, oracles, commands>>

(***************************************************************************)
(* The others: participants, children, the disk.                           *)
(***************************************************************************)
Post ==
    /\ \E h \in Others, at \in BOOLEAN : ChatSend(h, at)
    /\ UNCHANGED <<seenvars, modevars, pipevars, corrupt, repairing, teamflags>>

AgentReads ==
    /\ agentread' = Len(chat) /\ agentread' # agentread
    /\ UNCHANGED <<chat, posts, archived, seenvars, modevars, pipevars, corrupt,
                   repairing, teamflags>>

ChildWrites ==
    \E i \in DOMAIN pipes, b \in {"x", "nl"} :
        /\ ~pipes[i].closed /\ Len(pipes[i].out) < MaxBytes
        /\ wrote' = wrote + Texts(<<b>>) /\ wrote' =< MaxBytes
        /\ pipes' = [pipes EXCEPT ![i].out = Append(@, b),
                                  ![i].line = IF b = "nl" THEN 0 ELSE @ + 1]
        /\ toolong' = toolong + (IF b = "x" /\ pipes[i].line >= INFO_MAX THEN 1 ELSE 0)
        /\ UNCHANGED <<chatvars, seenvars, modevars, emitted, corrupt, repairing,
                       teamflags>>

\* The child ends, its work done.
ChildEnds ==
    \E i \in DOMAIN pipes :
        /\ ~pipes[i].closed
        /\ pipes' = [pipes EXCEPT ![i].closed = TRUE]
        /\ corrupt' = (corrupt /\ pipes[i].label # "repair")
        /\ sidecars' = (sidecars \/ pipes[i].label = "restart")
        /\ UNCHANGED <<chatvars, seenvars, modevars, wrote, toolong, emitted, repairing,
                       enabled, paused, oracles, commands, lastrun>>

Corruption ==
    /\ ~corrupt /\ commands < MaxCommands
    /\ corrupt' = TRUE /\ commands' = commands + 1
    /\ UNCHANGED <<chatvars, seenvars, modevars, pipevars, repairing, enabled,
                   paused, sidecars, oracles, lastrun>>

\* What concerns the messages, and what concerns the team and its processes.
ChatNext ==
    \/ InjectGoal \/ ConfirmRestart \/ ShowExisting \/ Poll
    \/ PageUp \/ PageDown \/ ScrollEscape
    \/ SendLine \/ Leave \/ CmdEdit \/ EditReturns \/ CmdPaste \/ PasteReturns
    \/ CmdBash \/ CmdBrowse \/ CmdDashboard \/ CmdFile \/ ViewReturns \/ CmdRedraw
    \/ (\E h \in Others \cup {Me} : CmdFilter(h)) \/ CmdMention \/ CmdUnfilter \/ CmdUnmention
    \/ CmdSearch \/ Post

TeamNext ==
    \/ InjectGoal \/ ConfirmRestart \/ ShowExisting \/ Poll
    \/ DrainPipes \/ Reaper \/ SidecarWatchdog
    \/ CmdPause \/ CmdResume \/ CmdShutdown \/ ShutdownSweep
    \/ CmdRestart \/ CmdKick \/ CmdHealth \/ CmdSidecar
    \/ CmdOracle \/ PeriodicOracle \/ IntervalOver
    \/ AgentReads \/ ChildWrites \/ ChildEnds \/ Corruption

TtySpec == Init /\ [][ChatNext \/ TeamNext]_ttyvars

(***************************************************************************)
(* Properties.                                                             *)
(***************************************************************************)
Accounted(m) == m.by = Me \/ m.n \in shown \cup excused

\* In the live view every message the terminal has counted was displayed, or
\* hidden by the filter in force when it was counted, or is further back than
\* a repaint reaches, or was counted when a repaint could not read the file:
\* a message that arrives between a send and the next poll is not stepped
\* over.  An archive renumbers the file, and is excepted here.
NothingSteppedOver ==
    (Live /\ ~archived) => \A i \in 1 .. count : Accounted(chat[i])

\* Every byte of text a captured child wrote has been displayed, once, or is in
\* its pipe or in the line under construction, when the slots of finished
\* children are closed and the table is compacted.  What is gone without a
\* trace are bytes beyond the first INFO_MAX of their line, and no others.
ChildOutputKept ==
    LET held == SumTo([i \in DOMAIN pipes |-> pipes[i].part + Texts(pipes[i].out)],
                      Len(pipes))
        gone == wrote - emitted - held
    IN  gone >= 0 /\ gone =< toolong

\* When the person comes back to the live view to stay, and no archive takes
\* place, the terminal catches up again and again: every message there is has
\* been displayed or excused.
MessageAppears ==
    (<>[]Live) => []<>(archived \/ \A m \in Range(chat) : Accounted(m))
=============================================================================
