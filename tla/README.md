# TLA+ models of the NBS framework

NBS runs a team of AI agents on one machine. There is no server: agents talk
through files. Every command is a short-lived process, several of them run at
the same time, and any of them may be killed at any point. What makes the
framework correct is therefore the order in which processes lock, read, write
and rename files, and this project models exactly that.

Paths below are relative to the repository (`src/src/...` is its C code,
`src/bin/...` its scripts).

## 1. Inventory

| Component | State it keeps | Operations | Hard behaviour | What makes it correct |
|---|---|---|---|---|
| **Chat file** `nbs-chat/chat_file.c`, `lock.c`, `main.c` | the chat (header and one line per message), `<path>.tmp`, the cursor file, archives, one `fcntl` lock | send, read, read --unread, delete, poll, cursor-set; automatic archive inside send | every write is read - build - rename; a cursor is written under a second lock acquisition; an archive renumbers every message | no message is lost or resurrected, indices stay good, cursors mean what they say, commands end |
| **Bus** `nbs-bus/bus.c`, `main.c` | one file per event in `events/`, then in `events/processed/`; `.dedup.lock` | publish, publish with deduplication, check, ack, ack-all, prune | two scans at once, a scan at its capacity, equal time stamps | an event is pending, then processed, then gone, once each; duplicates stay out; every event is consumed |
| **Bus bridge** `nbs-chat/bus_bridge.c` | none (turns a message into events) | after-send, mention extraction, fan-out of `@team` | a crash between the append and the events | a message without events is still found |
| **Sidecar** `nbs-sidecar/sidecar.c`, `bus_client.c`, `chat_client.c` | mention slot, retry counters, cooldowns, failure counters | tick loop: capture, query, interrupt, mention, notification, acknowledgement | reads the bus and the screen, acts later, acknowledges for others | every message is read, and the typing stops |
| **Triggers** `nbs-sidecar/triggers.c` | time stamp and lock file per oracle | check, seed, claim, spawn | all sidecars check at once, a seed without the lock | one oracle per interval, and one does run |
| **Registry** `nbs-sidecar/registry.c` | registry file, inbox and the count of lines done | seed, register, unregister, process the inbox | lines done twice after a restart | the last command for a chat decides |
| **Agent launcher** `bin/nbs-claude` and team scripts | PID file, session metadata, PID marker, loop lock | start, cleanup, re-attach, kick, restart, kill, continue | old and new instance overlap | the new instance keeps its files and one sidecar |
| **Workers** `nbs-workers/worker.c`, `bin/nbs-spawn-worker`, `bin/nbs-oracle-reaper` | task files, terminal sessions, monitors | spawn, status, dismiss, results, continue; monitor; reaper | two task files and two names per launch, monitors and reapers that kill sessions by name | nobody ends another launch's session; workers end |
| **Hub** `nbs-hub/hub.c`, `main.c` | `state`, `manifest` (key=value), archives of audits and gates | init, spawn, result, audit, gate, phase-name, doc register/read | several writes per command, no lock | the audit gate and the phase gate hold; documents are found |
| **Scribe log** `nbs-scribe-log/*.c` | the log, its archives, one `fcntl` lock | append, archive, announce | a kill between the archive and the rewrite, torn entries | no logged decision is lost |
| **Terminal sessions** `nbs-ts/*.c` | session directory (metadata, PIDs, logs, exit code), daemon, helper | create, send, read-new, wait-complete, wait-pattern, kill, gc; the same for a program through the library | hang-up, last output and exit race; kill and gc at any time; readers race; a thread reads a terminal that is being closed | the exit code comes last, nothing is left behind, no output is lost |
| **Terminal client** `nbs-chat/terminal.c` | message count, filters, view, pipes of children, line, history | keys, slash commands, polls | posts during sends and viewers, pipes at their limit, cursor arithmetic | messages appear, output is kept, cursors stay in the text |
| **Message editor and list** `nbs-chat-edit/editor.c`, `nbs-chatview/chatview.c` | list, cursor, marks, undo stacks, backup file | move, search, view, mark, undo, redo, write | a write of many steps without the lock | what is not marked survives |
| **Screen emulator** `nbs-ts-render/nbs_ts_render.c` | cells, cursor, scroll region, parser | feed a byte | wide characters in two cells, parameters at their limits | it stays in its screen and keeps characters whole |
| Pure functions, viewers, dashboards, remote scripts | none of their own | formatting, drawing, ssh | - | not modelled, see section 7 |

How they interact: `nbs-chat send` appends to the chat and then publishes
events through the bridge; each agent has a sidecar that reads the bus and the
chat and types a notification into the agent's terminal session; sidecars also
fire the periodic triggers, which spawn oracles through `nbs-workers`, which
runs `nbs-spawn-worker`, which starts `nbs-claude` in an `nbs-ts` session; the
hub wraps `nbs-workers` for a supervisor; a person follows and steers the team
through `nbs-chat-terminal`. All of it is shared files, and the only locks are
the chat lock, the deduplication lock, the trigger locks, the lock of the
scribe log and the lock of a sidecar loop.

## 2. Modules

| Module | Models | Checked by |
|---|---|---|
| `ChatLog` | abstract: a log to which messages are added and from which a tail is deleted | refined by `ChatFile` |
| `ChatFile` | `chat_file.c`, `lock.c` and the commands of `main.c` | `MCChatFile`, proofs in `ChatFileProofs`, `ChatLogProofs` |
| `BusQueue` | abstract: events go pending, processed, gone | refined by `Bus` |
| `Bus` | `bus.c` and the commands of `main.c` | `MCBus`, proofs in `BusProofs` |
| `Bridge` | `bus_bridge.c`: which events a message causes, which a sidecar takes | extended by `Sidecar` |
| `Sidecar` | `sidecar.c` with the sends, the bus, the chat and the agents around it | `MCSidecar` |
| `Triggers` | `triggers.c` | `MCTeam`, proofs in `TeamProofs` |
| `Registry` | `registry.c` | `MCTeam`, proofs in `TeamProofs` |
| `Agents` | `nbs-claude`, the sidecar loop, the PID marker, the operator's scripts, `nbs-workers continue` | `MCTeam`, proofs in `TeamProofs` |
| `Workers` | `nbs-workers spawn/status/dismiss`, the launch script, its monitor, the reaper | `MCTeam`, proofs in `TeamProofs` |
| `Hub` | `hub.c`, `cmd_phase_name` | `MCTeam`, proofs in `TeamProofs` |
| `ScribeLog` | `scribe_log.c` and its `main.c` | `MCTerminal`, proofs in `ScribeLogProofs` |
| `Sessions` | `nbs-ts create/send/kill/gc`, the daemon, the helper | `MCSessions`, proofs in `SessionsProofs` |
| `SessionLogs` | `nbs-ts read-new/wait-complete/wait-pattern` and the library's wait | `MCSessions`, proofs in `SessionsProofs` |
| `SessionLib` | `session.c`: create, capture thread, status and destroy of the library | `MCSessions` |
| `Terminal` | the messages, views, children and team commands of `nbs-chat-terminal` | `MCTerminal`, proofs in `TerminalProofs` |
| `LineEditor` | its line editor, history, completion, escape parser and paste editor | `MCTerminal`, proofs in `ScreenProofs` |
| `BashView` | its `/bash` window | `MCTerminal` |
| `ChatEdit` | `nbs-chat-edit` and the list of `nbs-chatview` (also `/browse`) | `MCTerminal`, proofs in `TerminalProofs` |
| `Screen` | `nbs_ts_render.c` | `MCTerminal`, proofs in `ScreenProofs` |
| `Base64` | `base64.c`, and how `chat_read` treats a line | `MCTerminal`, proofs in `TerminalProofs` |

`MCTeam`, `MCSessions` and `MCTerminal` run several modules that share no
state: a variable `part`, chosen in the initial state, says which of them moves
while the others rest in one of their initial states. One run so answers for
every part, and its coverage for every action. `Hub` is three parts, `audits`, `gates`
and `documents`: each leaves out the commands that move the history the other two
count, because together with two faults they are too many.

### ChatFile

`main`, `tmp`, `archives` and `cursors` are the files, `lock` the holder of the
`fcntl` lock, and `pc`, `hnd`, `buf`, `ctab`, `idx` the local state of each
process. A message is its sender and a stamp. One action is what a process does
between two points where another process can see or change something: taking
the lock with the read that follows it, writing the temporary file, renaming it.
`SendRead` - `SendWrite` - `SendRename` - `ArchiveWrite` - `ArchiveRewrite` -
`ArchiveRename` - `ArchiveCursors` - `SendUnlock` - `CursorRead` -
`CursorRename` is one `chat_send`. Assertions of the code that can fail are
actions that end the process in `"aborted"`. `WriteFail`, `ArchiveFail`,
`ArchiveCursorsFail` and `CursorFail` are the error returns, `Crash` a killed
process (the kernel frees its lock). The constants `THRESHOLD` and `CLEAVE` are
`ARCHIVE_THRESHOLD` and `ARCHIVE_CLEAVE`; `PARTS_CAP` and `CURSORS_CAP` the
capacities of the participants line and of the cursor table.

### Bus

`pending` and `processed` are the two directories, `pruned` remembers what was
deleted, `now` is the microsecond clock. An event carries source, type,
priority, time stamp, a number that stands for the unique file name, and
whether it went through the deduplication scan. A scan stops at `MAX_EVENTS`
files in directory order, so it returns some subset of that size.

### Workers

A launch has two names. `nbs-workers` makes up `<slug>-<4hex>` with a task
file; the script makes up `<slug>-<8hex>`, wraps the first task file into a
second one and starts the agent under the second name. `task` is the State line
of the first file, `wrapped` and `own` the two State lines of the second one, of
which the monitor reads the first. The agent (what it writes, when it stops) is
the environment. Random suffixes are assumed distinct. All final states are one
value because the monitor treats them alike.

### Hub

A command's writes are queued in `todo` and done one by one: `StateWriteRead`
takes the copy of the file, `StateWriteRename` puts it back with one key
changed. Between the two, and between two writes, other commands may run,
the command may be killed (`HubCrash`) or the write may fail without anybody
looking (`StateWriteFail`). `unaudited`, `passed`, `hit`, `gates`, `hits` and
`registered` are history variables that only the properties read: `passed` counts
for each phase the passages of its gate since it was named, `hit` the faults that
hit one of the two writes of such a passage (`gate` says which command is one),
`gates` and `hits` are their totals.

### Sidecar and Bridge

`sc[h]` is the state of the sidecar of a handle: the fields of
`sidecar_state_t` that carry control and the place in the tick. A tick is cut
wherever the program talks to another process: capture, bus check,
acknowledgement, unread count, capture again, typing. What the screen shows is
nondeterministic (the agent works, waits at a prompt, shows a menu, is gone);
seconds are abstract, so that a cooldown or a grace period ends at some time.
The text of a message is the sequence of its @-marks, and `Bridge` says which
events it causes. A send is two actions, the append and the events, and may be
killed in between.

### Triggers, Registry, Agents, ScribeLog

* `Triggers`: `stamp` is the time stamp file, `holder` its `fcntl` lock, `step[s]` the place of
  a sidecar in `trigger_periodic_check`; `claimed` remembers the last recorded run.
  Time begins at `INTERVAL` because 0 is what a missing file reads as.
* `Registry`: a restart seeds the registry from the files and starts with the
  first inbox line again; writes may fail at any line.
* `Agents`: a launch has a session and a loop of its own name; other loops come
  from `nbs-sidecar-restart` and take the lock file. Scripts run one step at a
  time between the steps of loops, sidecars and `nbs-claude`. `Settled` says
  when an operator starts the next script; see section 5. The cleanup reads the
  PID file (`PollEnds`), removes it in a step of its own (`RemovePidfile`) and
  goes on; `torn` remembers the launches that wrote their PID between the two.
* `ScribeLog`: a block is what one append wrote; it may be torn, with or without
  its heading. Archives are named after a second, and a second archive of one
  second replaces the first. It comes when the log is above the threshold again,
  which takes a cleave of decisions less those that failed archives and torn
  appends left there, so `PerSecond` appends in a second and `MaxScribeFaults`
  failures together are assumed to be fewer than `SCRIBE_ARCHIVE_CLEAVE` (250 in
  the code).

### Sessions, SessionLogs, SessionLib

`Sessions` has the steps of `cmd_create`, of the daemon it forks (direct or
through the helper), of `daemon_relay`, `cmd_kill` and `cmd_gc`, and the
command in the terminal as the environment. `files` is the content of the
session's directory. `SessionLogs` has the two logs that daemon and shell append
to, and the clients with their cursor files; a client may be killed. `READ_MAX` and
`LOOK_MAX` are the bytes that one read of read-new and one look of wait-pattern
take at most (1 MB each in the code); what lies behind them waits for the look
after the next output. `whole` (where one write of the daemon held the pattern)
and `cuts` (where a look was cut short) are history. Output without a NUL byte is
assumed: `strstr` and `fputs` stop at one, so that the rest of what was read is
neither searched nor printed. A reader that is killed after it wrote its cursor
and before it printed loses what it read; this is not modelled.
`SessionLib` has the calls of one program, its capture thread (about to read,
reading, writing) and the command, which may leave a background process at the
terminal. That a read which has begun keeps the terminal open is what Linux
does.

### Terminal, LineEditor, BashView, ChatEdit, Screen, Base64

* `Terminal`: `count` is `g_msg_count`, `view` what covers the live view,
  `pipes` the table of captured children. `shown` and `excused` are history: the
  messages displayed, and those that a filter hid or a repaint did not reach. A
  pipe holds text and line ends; `ReadByte` is the inner loop of
  `child_pipe_drain`, with `INFO_MAX` the text that `line_buf` takes (511 bytes in
  the code) and the rest of a line dropped. `toolong` counts what children wrote
  beyond it (history). Their text holds no NUL byte, and a failing read is an end
  of the file, as in the code.
* `LineEditor`: a key is a byte. The reference for the arrows (`LineOf`,
  `ColumnOf`) counts line ends and is independent of the code's scans. Loops of
  the code (a page of moves, the rows above the cursor) are recursive functions.
* `BashView`: lines are lengths; `LinesOf` is the reference.
* `ChatEdit`: a message is a number, an index of the code one less than the
  position. The editor's `w` is five steps; a sender holds the lock between
  reading and renaming the file. The array of surviving messages is not built:
  `next` is the position from which they are still to be sent again, and
  `Unflagged(next)` those that are left.
* `Screen`: handlers are functions from the emulator's record to the next one; a
  step feeds one byte of an alphabet with text, wide characters, controls and
  every CSI sequence the code handles. On a screen of one column a wide
  character runs into the assertion of `cell_at`, and the emulator is then in the
  state `"ABORTED"` and takes no byte any more.
* `Base64`: a character is its ASCII code; encoder and decoder are functions of
  the whole sequence instead of loops over groups. A line may be cut, spoilt in
  one character or blanked by `nbs-chat-repair`. `Pieces` are the lines that
  `fgets` makes of it with a buffer of `LINE_BUF` (`MAX_MESSAGE_LEN`, 1 MB), and
  `chat_read` is the set of what they decode to. `ChatFile` takes a message as one
  unit: its lines are assumed to fit.

## 3. Runs

| Run | Instance | Shows |
|---|---|---|
| `chat_core` | 2 processes, 3 handles (two send, one reads), archive of 1 when more than 2 messages, 3 sends, 1 fault | `IInv` (what was read under the lock is current at the rename), `LogSpec` (implements `ChatLog`), `IndexStable`, `NoLostCursorUpdate`, `HeaderCoversLines`, `ReaderCursorDelivered` |
| `chat_live` | 2 processes, all six commands, capacities of 1 so that every failing assertion and full table happens, 1 fault | `EveryCommandEnds` |
| `bus_queue` | 2 processes publishing, acknowledging all and pruning, 3 events, scans of 2, clock to 4, window 1, 1 fault | `IInv`, `DedupWindow`, `QueueSpec` (implements `BusQueue`) |
| `bus_live` | 2 processes, priorities 0 and 3, 2 events, 1 fault | `EveryEventConsumed` |
| `sidecar` | 1 handle with its sidecar, the sidecars of others as an environment that takes events, a text with a mention, one with a mention and a query and one with an interrupt, 2 messages, thresholds of 1, 1 fault | `EveryMessageRead`, `NoNotificationStorm` |
| `team`, triggers | 2 sidecars, interval 4, first delay 3, re-check window 2, lag 1, clock to 12, 2 faults | `TInv`, `ClaimsApart`, `DueTriggerFires` |
| `team`, registry | 2 chats, 3 inbox lines, 1 fault | `InboxDecides` |
| `team`, agents | 2 launches, 1 loop of a script, 2 commands of the operator, 1 fault | `OwnPidfile`, `AgentServed` |
| `team`, workers | 2 launches of one oracle role (one through each entry point), 1 command slot, 1 poll, 1 fault | `MonitorKillsOwn`, `WatchedWorkerEnds` |
| `team`, audits, gates and documents | 1 supervisor, threshold 2, 3 phase names, 2 documents, 2 slots, 2 faults | `SpawnGated`, `PhasePassedOnce`, `DocReadsBack` |
| `sessions` | codes 0 and 1, 2 pieces of output, 1 input; 2 readers, a log of 7 bytes (9 for wait-pattern) in pieces of up to 4, reads of 2, looks of 5 at a pattern of 4, 4 prompts, 2 faults | `ExitCodeLast`, `ExitCodeComes`, `RemovalSound` (kill leaves nothing, gc spares the living), `NoOutputLost`, `CompletionsOnce`, `WaitWakes`, `WholePatternFound` |
| `sessions`, library | direct fork, helper, or helper without a PID; shell or plain command, with or without a background process; 2 pieces of output | `DestroyReturns` |
| `terminal`, chat and team | 1 other poster, 4 posts, archive of 2 when more than 3, 2 pipes of 2 bytes for lines of 1, 2 commands | `NothingSteppedOver`, `ChildOutputKept`, `MessageAppears` |
| `terminal`, editor | lines of 2, paste of 3 in a window of 2 by 2, history of 2 | `EditorSound` (with `ArrowsMoveOneLine`) |
| `terminal`, screen | 3 by 3 cells, up to 4 bytes of text or control and one sequence of up to 5 | `ScreenSound` |
| `terminal`, edit | 3 messages, windows of 1 and 2 rows, undo of 2, 3 marking keys, archive of 2 when more than 2, 1 fault | `EditSound` |
| `terminal`, line | a buffer of 12: messages of up to 4 bytes out of 3, and eight of 6 to 37 bytes whose lines fit, fill and exceed it; every cut, every place of 4 foreign characters | `LineReadsBack` |
| `terminal`, scribe | 2 scribes, archive of 3 when more than 3, 5 decisions, one a second, 1 fault | `DecisionsKept` |
| `chat_v_archive_skips` | violation | `ArchiveKeepsUnread`: an archive makes an unread message count as read |
| `sessions_v_pattern` | violation | `SplitPatternFound`: two reads shorter than the pattern |
| `terminal_v_bash` | violation | `PagerShowsOutput`: the last line of a command is shown twice |
| `terminal_v_write` | violation | `WriteDeletesMarked`: a second write deletes what nobody marked |

Why the bounds are enough to be interesting: three sends with a threshold of 2
give an archive and a send after it; two processes give every pair of commands
(the theorems need no bound on their number). One fault at every point covers
every single crash. In the bus a capacity of 2 with three events makes every
scan incomplete at some point, and a clock of 4 with a window of 1 reaches both
sides of the boundary. `MAX_MESSAGES` and the capacities are out of reach in
`chat_core` and hit in `chat_live`. A trigger clock of 12 with an interval of 4
reaches a seed, a first run and the run after it. Two launches of an agent are
the old and the new instance. Five decisions with a threshold of 3 give an
archive and an append after it, or an archive that is tried again. An undo
stack of 2 overflows with 3 keys; a log of 9 bytes holds the pattern of 4 whole
or split in every way, and is longer than a look of 5, so that a look can be cut
before, within and after it. Two faults hit both writes of one gate, or the gates
of two phases. A buffer of 12 takes the lines of messages of up to 6 bytes and
cuts longer ones into pieces of 11 characters, which, like the 1048575 of the code,
leave three over from whole groups. One byte of `line_buf` is enough for text to be
dropped. Screens of one row or one column are not in the run; the theorem covers
them.

Deadlock is checked for the chat. In the other runs the bounded numbers of
events, launches, commands or posts run out, which is no deadlock of the system.

### Fairness

* `ChatFile!FairSpec`: strong fairness of the steps of each running command. A
  process blocked in `F_SETLKW` is woken when the lock is released and gets it
  if it keeps coming free; weak fairness would let it lose the race for ever.
  Nobody is obliged to start a command, and no fault has to happen.
* `Bus!FairSpec`: the same for running commands, and strong fairness of
  `ConsumeCall`: an agent or its sidecar checks the bus again and again
  (the sidecar does so every tick).
* `Sidecar!Spec`: weak fairness of the ticks (a loop with a `sleep`), of the
  publishing half of a send that is not killed, of time and of an agent that has
  been told to read; strong fairness of the agent coming back to its prompt,
  since it may be busy again and again. A sidecar that ends is started again by
  the loop of `nbs-claude` (`Restart`, part of the tick), and a paused team is
  resumed in the end. Nobody is obliged to send.
* `MCTeam`: weak fairness of the sidecars' checks, of `nbs-claude`, of loops and
  their sidecars, of a script that has begun, and of the monitors. Operators,
  agents, the reaper and the commands may do nothing.
* `MCSessions`: weak fairness of `cmd_create`, of the daemon and of a kill that
  has begun, of a `wait-complete` that has been called, of an `nbs_ts_destroy`
  that has begun and of its capture thread.
* `MCTerminal`: weak fairness of the poll, which the terminal does whenever it
  has waited for 1.5 seconds.

## 4. Proofs

Proved for every number of processes, handles, messages, keys and every value
of the capacities and bounds, from the named `ASSUME`s of the modules
(`ConstantsAssumption`: `CLEAVE` is positive and at most `THRESHOLD`, which
the assertion `remaining_count > 0` of `chat_auto_archive` requires and 1000 and
2000 satisfy; `BusAssumption`: window and capacities are positive;
`TriggersAssumption`: the re-check window is at most the first delay and that at
most the interval, as in `trigger_defs.h`, and a sidecar takes less than half of
the first delay between its look at a missing time stamp and its seed;
`ScribeAssumption`: failures and appends in a second are together fewer than a
cleave, see section 2; `SessionLogsAssumption`: pattern and chunks are sequences;
`Base64Assumption`: the buffer of a line is a multiple of four, as 1 MB is;
`ScreenAssumption`: at least one row and one column, as `ts_render_create` asserts,
and two parameters, where `NBS_TS_RENDER_MAX_PARAMS` is 16; `LineEditorAssumption`: commands are texts;
`ChatEditAssumption`: an archive takes at least one message and not more than there
are;
the rest says that bounds are numbers and that model values such as `NoProc` are
not ordinary values).

* `ChatFileProofs`: `Invariance` (`IInv`), `TypeCorrect`, `IndexStability`,
  `NoLostUpdate`. That a rename undoes nobody's work is not inductive by
  itself: it needs that the temporary file is still derived from the current
  chat. `IInv` says so: at a locked point the process holds the lock
  (`LockInv`), and then `buf`, `tmp` and `ctab` are the current chat or cursor
  file with exactly its own change (`SendOK`, `TruncOK`, `CursorOK`). Stamps are
  bounded by the clock (`StampInv`) so that an appended message is the newest.
* `BusProofs`: `Invariance` (`IInv`), `DedupCorrect` (`DedupWindow`) and
  `QueueRefinement` (`QueueSpec`). The invariant says that the lock is held from
  the scan to the rename (`LockInv`), that an event which passed the scan is more
  than the window later than every pending event of its key (`WindowInv`), and
  that an unpublished event is different from all others (`FreshInv`), which the
  refinement needs.
* `ChatLogProofs`, on top of `IInv`: `HeaderCorrect` (`HeaderCoversLines`),
  `LogRefinement` (`LogSpec`) and `ReaderCursorCorrect` (`ReaderCursorDelivered`).
  The header is right because every file image on its way to a rename has a
  right one (`HeaderInv`). The refinement needs that lines are in the order of
  their stamps (`SortedInv`) and that the archives are older than every line
  that is not in them (`ArchiveInv`): what an interrupted archive left in the
  chat file is then exactly what the archive has, and the union is a log. For
  the cursor, each command carries the promise its snapshot made (`ReaderInv`):
  the messages up to the index it is about to store were shown, or the file will
  never again start with the first messages sent. The theorem assumes that
  `cursor-set` and reads with a filter are not used, as `chat_core` does; both
  move a cursor over what was not shown, as they are meant to.
* `SessionsProofs`: `ExitCodeCorrect` (`ExitCodeLast`) and `RemovalCorrect`
  (`RemovalSound`) from `SInv`, which says in which order the daemon drains,
  reaps and writes (`ExitInv`), which files exist at which point of `cmd_create`
  (`StartInv`, `FilesInv`) and what kill and gc have seen (`KillInv`, `GcInv`);
  `ReadNewCorrect` (`NoOutputLost`), `WaitCompleteCorrect` (`CompletionsOnce`) and
  `WaitPatternCorrect` (`WholePatternFound`) from `LInv`: what was behind the
  cursor when a call read it has been delivered, so that a late write of an old
  cursor loses nothing (`ReadInv`); nothing reported is ahead of the saved
  completion cursor (`WaitInv`); a pattern that one write held and that is not
  found yet begins at or behind the offset of the next look, unless the limit cut
  a look within it and the caller is the command, or no look can hold it
  (`MatchInv`). `LSpec` lets all three clients
  run at once, the run takes one of them.
* `TeamProofs`, about the mechanisms around the team:
  * Triggers: `TriggersInvariance` (`TInv`) and `RunsApart` (`ClaimsApart`). That
    two claims lie apart needs that the sidecar at its claim holds the lock and
    has looked again (`LockHeld`, `Rechecked`), that the stamp on disc is the last
    claim or leaves the oracle due only after the window (`StampKept`), and that
    a seed still on its way to the disc, which is written without the lock,
    cannot make the oracle due at once (`SeedSoon`).
  * Registry: `InboxDecidesTheorem` (`InboxDecides`) from `RInv`. A pass over the
    inbox has a batch that is the rest of what it read (`BatchInv`), and a line
    that is done and is the last one for its chat has its effect (`LastInv`). The
    latter is not about the present position alone: after a restart the lines
    are done once more, from the first, over a registry that already has their
    effects, and a chat that is listed is not listed twice.
  * Agents and workers: `PidfileCorrect` (`OwnPidfile`) and `MonitorCorrect`
    (`MonitorKillsOwn`). Launches of a handle come in order, the last one under
    the eyes of its script (`OrderInv`); `nbs-team-kill` runs only while no launch
    is under way (`TeamKillInv`); so the last launch has its PID file from its
    first step to the end of its poll, until a script removes it that is about
    to launch again or has removed the session (`PidfileInv`). An older launch is
    named in the file only as long as no later one has written (`WrittenInv`), so
    that a later launch has still to write when a cleanup finds its own PID, and is
    in `torn` if it does so before the removal (`TornInv`). The sessions a
    monitor found under its name are its own launch or none (`TargetInv`).
  * Hub: `RegistryCorrect` (`DocReadsBack`), `PhaseGateCorrect`
    (`PhasePassedOnce`) and `AuditGateCorrect` (`SpawnGated`), for one supervisor
    (`OneSupervisor`): `state_write` has no lock, and two commands at once undo
    each other's writes (section 5). A command is a list of writes it still has
    to do; `HubInv` says for each place of each command what the files hold
    already and what the list still brings: how far `audit_counter` is behind the
    results shown, how often the gate of the current phase has been passed and how
    far `phase_num` is behind the gates, give or take what hit them (`PhaseInv`),
    which slot of the registry the document gets, that the copy
    which `state_write` made is the file (`CopyOK`).
* `ScribeLogProofs`: `LogCorrect` (`DecisionsKept`) from `ScribeInv`. One process
  at a time is between lock and unlock and what it read is the log (`HolderInv`);
  the log exceeds the threshold by at most the failures and one (`CountInv`); the
  archive of the current second is in the log, too, or the log is too short for
  another archive in this second (`SecondInv`); at the rewrite some archive holds
  what goes (`KeptInv`); without failures nothing is twice (`SingleInv`). The
  attempt showed that the former assumption, `PerSecond` below the cleave, was
  too weak, which instances with four decisions had not reached.
* `TerminalProofs`, about the client, the list of messages and the encoding:
  * `NothingSteppedOverTheorem` (`NothingSteppedOver`) from `SeenInv`: while nothing
    was archived and no scrollback is open, every counted message is the
    person's own, displayed or excused, in each of the views. The open scrollback
    has to be told apart from the live view although both have `view = "live"`: in
    it the count is already the length of the file while only a screenful was
    displayed, and it is the paint on leaving it that makes up for this.
  * `ChildOutputKeptTheorem` (`ChildOutputKept`) from `PipesInv`, a conservation law
    over a table of open slots: what was written is what was emitted, what is too
    long for its line, and what the bytes in the pipes will still bring
    (`Coming`); and it is at least what was emitted and what is held (`Waiting`).
    How much of a pipe is dropped depends on where its lines end, so that
    `WaitingComing` compares the two by an induction over the bytes. Both are sums
    over a table that `child_pipe_compact` shortens while it is drained; lemmas say
    how a sum changes when one slot changes, goes or is added.
  * `LineReadsBackTheorem` (`LineReadsBack`) from `LineInv`, which says what became
    of the line. The decoder inverts the encoder because it does so group by
    group (three octets are four sextets and back); a line that was cut or in
    which something foreign stands decodes to a beginning of the message or is
    refused. Messages have any length and any octets but 0. A line that fits the
    buffer is its own only piece (`WholeReads`). Of a longer one, only the last
    piece can be a message, the end of this one (`ReadsEnd`): all others have
    `LINE_BUF` - 1 characters, which is no multiple of four, and `chat_read` passes
    over them.
  * `EditSoundTheorem` (`EditSound`) from `CInv`. Taking back all marks leaves none
    because every flagged position has an entry and the oldest entry of a
    position says that it was not flagged (`UnwoundInv`); that the entries are
    positions of the list and the stack within its bound is `MarksInv`. That the
    first write loses nothing is a case for each of its steps (`StoreInv`): before
    it, the file holds all; after the rename, the backup; in the loop the backup,
    and the file or the archive what has been sent again; after the removal of
    the backup the loop was through. What a sender read before the rename holds
    all, too, so that its late rename over the new file loses nothing.
    `ModeInv` is about the terminal's mode and the one that was saved.
* `ScreenProofs`:
  * `ScreenSoundTheorem` (`ScreenSound`): every operation of the emulator maps a
    good state to a good one (`Good`), for every size of the screen from one row and
    one column on; in one column only a wide character leaves the parser's states,
    for `"ABORTED"`, and in one row the scrolling region is that row. The halves of
    wide characters are the hard part: clearing a cell clears its other half,
    and a row is whole after a write at any column but the last.
  * `EditorSoundTheorem` (`EditorSound`) from `EditorInv`. The reference for the
    arrows counts line ends; the code scans for them. The lemmas between the two
    say that the scan finds the bounds of a line (`StartFacts`, `EndFacts`), that
    the positions between such bounds are exactly those with the same count, and
    that columns count from the start (`OnLine`); an arrow is then arithmetic
    (`ArrowLands`).

Induction. The library's induction theorems take an operator as a parameter,
which none of the provers can use. The proofs that need an induction over
numbers argue by a least counterexample instead: `LeastNatural` (from the
well-foundedness of finite sets under inclusion) and `UpTo`, which is the
induction step for a set. `RecursionExists` gives the recursive functions of the
models (loops of the code) a value. Sums and loops of the models are written as
recursive functions for that reason, and not with the folds of the community
modules, which rest on recursive operators.

Only model-checked: liveness, which the prover cannot do: `EveryCommandEnds`,
`EveryEventConsumed`, `EveryMessageRead`, `NoNotificationStorm`, `DueTriggerFires`,
`AgentServed`, `WatchedWorkerEnds`, `ExitCodeComes`, `WaitWakes`, `DestroyReturns`,
`MessageAppears`. Every invariant and every action property that a passing run
checks is proved.

## 5. Known deviations that no property claims

Met while modelling, reproduced by the models unless said otherwise, and too
many for a run each.

Chat, bus, hub, workers:

* A cursor may move backwards or past undelivered messages: `send` sets the
  sender's cursor to its own message, whatever came before
  (`chat_file.c:1199`), after it has unlocked, so that an archive in between
  leaves it past the end; `delete` leaves cursors where they are.
  `ReaderCursorDelivered` is therefore about handles that only read.
* After an archive the participants counts stay cumulative (`chat_file.c:391`);
  `docs/chat-architecture/archive.md:58` says that they reflect the remaining
  messages. `HeaderCoversLines` states what holds: they are never too small.
* `chat_auto_archive` fails after the main file was rewritten if the cursor file
  cannot be written (`chat_file.c:513`); its comment (line 243) says that the
  main file is unchanged then.
* `delete` computes the position before it takes the lock for the truncation
  (`main.c:1093`), so that after an archive it cuts other messages, and its
  postcondition (`main.c:1127`) fails when somebody has sent meanwhile. `poll`
  compares with its first count (`chat_file.c:1502`) and can time out over a new
  message after an archive.
* `ack-all` and `prune` see at most `BUS_MAX_EVENTS` files (`bus.c:909`, `:961`),
  so prune need not start with the oldest; a file that another prune removed is
  not subtracted (`bus.c:1018`).
* The hub's gate counts results, `docs/tools/nbs-hub.md:9` says spawns. Its
  commands undo each other's writes when they run at the same time (two members
  registering a document at once lose one), so its properties are about one
  supervisor.
* `nbs-workers status` and `dismiss` never find the session of a worker: they
  look for a name (`worker.c:234`) that no launch uses, so that a live worker is
  reported as died and a dismissed one ends only by its monitor. A monitor that
  finds no session after 15 seconds gives up and leaves a late one alone.

Sidecar, triggers, agents:

* A sidecar takes `@team` events of others by a substring match and, after a
  notification, acknowledges every event on the bus (`sidecar.c:1330`). The
  notification it owes others survives because unread messages are counted in
  the chat as well; that is what `EveryMessageRead` shows.
* The mention is cleared before the second capture (`sidecar.c:443`); if the
  prompt is gone, the cooldown runs although nothing was typed. The first
  message of a chat never counts as unread for a handle without a cursor, so
  `EveryMessageRead` begins at the second.
* A failed write of the time stamp is not noticed, and the oracle is spawned
  again; the claim comes before the spawn, so a kill between the two skips an
  interval.
* `nbs-claude` compares the PID file with its own PID and removes it in separate
  commands (`nbs-claude:152-155`; the comment at 148 calls this fixed). A kick that
  removes the file and the launch that writes it anew fit in between, and then
  the file of the new agent goes; `OwnPidfile` excepts exactly these launches. The
  session metadata is removed whoever wrote it (`nbs-claude:159`). Scripts of the operator
  that run while a kick is under way, or while two sessions of a handle live,
  can leave a live session without a sidecar. `AgentServed` therefore assumes
  that an operator waits until the last launch has settled (`Settled`).

Terminal sessions:

* wait-pattern of the command line misses every pattern split across two reads,
  also one that a single write held when the limit of 1 MB ends a look within it.
  What lies behind that limit is looked at only after the next output, by the
  library too, so that a pattern in it may time out although it is there;
  a session whose helper did not tell the PID looks dead and cannot be killed;
  `gc` can remove a session whose metadata is not written yet; a kill before the
  daemon's PID is written can leave a directory with only an exit code.
  Concurrent `read-new` calls may both print the same output. A `send` to a
  session whose daemon was killed with SIGKILL blocks.
* The exit code of an interactive shell of the helper is that of its last
  command, and the first prompt is never reported as a completion.
* The library: `nbs_ts_destroy` joins a thread whose read does not end while
  somebody holds the terminal. It waits for ever for a background process, and
  for a shell of the helper, which ignores SIGTERM and for which `waitpid` fails
  before SIGKILL is tried (`session.c:382`); `DestroyReturns` excepts both. A
  working directory with a quote makes `nbs_ts_create` fail and leave its
  directory (`session.c:267`). The PROMPT_COMMAND of the library reads `$?`
  after an assignment, so that its completion log never shows a failure
  (`session.c:278`).

Terminal client, editor, emulator:

* Messages posted between the last poll and an archive are never displayed
  (`terminal.c:725` says "New messages from others appear automatically"), nor
  are more than `REDISPLAY` messages that arrive during a viewer;
  `NothingSteppedOver` and `MessageAppears` except archives for that reason. A
  grandchild that holds a captured pipe keeps its slot, and with all slots taken
  `/restart`, `/kick` and `/sidecar` do nothing.
* `nbs-chat-edit`: messages sent by others between the load and `w` are lost
  with the backup (`editor.c:32` calls the rewrite atomic); the backup is
  restored only when the creation fails; a second `w` after a failed one
  replaces the good backup by the partial file, so `EditSound` speaks of the
  first write; Escape, and any unknown escape sequence, quits without asking.
  A failing `pipe()` makes the terminal stay raw after quitting. Page Down on an
  empty list puts the cursor at index -1, and a search then starts there.
* `/bash` drops blank lines.
* `child_pipe_drain` drops what a line of a child has beyond 511 bytes
  (`terminal.c:924`), and `ChildOutputKept` excepts that.
* `chat_send` refuses no message whose line is longer than the buffer of
  `chat_read` (1 MB): its pieces but the last are skipped, and the last reads as an
  end of the message or not at all. Pieces of such a line that is damaged, too,
  may decode to anything; `LineReadsBack` is silent about them.
* The emulator: ESC E leaves the pending wrap set; inserting and deleting
  characters inside a row, and a wide character at the last column, can split a
  wide pair, which `ScreenSound` excepts (`split`). A wide character on a screen of
  one column, which `ts_render_create` accepts, fails the assertion of `cell_at`
  (`nbs_ts_render.c:218`) and ends the program.

Scribe log:

* Two archives of one second share a name, and the second replaces the first:
  250 appends within a second, or two after 250 failed archives, lose decisions
  (`ScribeAssumption` excludes it; TLC finds the loss without it). Two
  decisions of one second share an id; an entry longer than `SCRIBE_MAX_ENTRY`
  aborts with the lock held; after a failed rewrite decisions are in both files;
  the header's "Decision count" changes only with an archive.

## 6. Plan

The core, the sidecar and the mechanisms around it, terminal sessions, the
client and the editors are modelled. What remains, most useful first:

1. Safety properties of `SessionLib`, so far only implied by `DestroyReturns`,
   and of `Sidecar` (what a cooldown and the failure counters promise), with
   their proofs.
2. Damaged lines among others, and repair, in the chat file (`Base64` has a
   single line).
3. Time parsing against a reference definition.

## 7. Not modelled

Drawing and layout (dashboard, file browser, Markdown viewer, help, the rows of
the chat view), the terminal emulator's colours, snapshot and Unicode tables,
`ssh` and installation scripts: they keep no shared state. Pure functions on
strings (time parsing, prompt detection, escaping, hashes) are left to
their unit tests. Message texts, log lines and the wording of output are
abstracted everywhere. `PROJECT.json` lists every component with the reason.
