------------------------------ MODULE Sessions ------------------------------
(***************************************************************************)
(* The life of one nbs-ts session: cmd_create and the daemon it forks, the *)
(* command in the terminal, and the calls that end it, cmd_kill and        *)
(* cmd_gc.  The processes know each other by the files of the session's    *)
(* directory.                                                              *)
(***************************************************************************)
EXTENDS Naturals, FiniteSets

CONSTANTS
    Codes,          \* exit codes of the command
    MaxOutput,      \* bound on the chunks of output
    MaxInput        \* bound on the sends

ASSUME SessionsAssumption ==
    /\ MaxOutput \in Nat /\ MaxInput \in Nat
    /\ 0 \in Codes /\ Codes \subseteq 0..127

SIGNALLED == 143    \* 128 + SIGTERM
Unset == 128        \* no exit code yet

VARIABLES
    files,      \* the files of the session that exist, "dir" is the directory
    create,     \* where cmd_create is
    mode,       \* who forked the command: "direct", "helper", or "nopid", the
                \* helper without its answer about the PID
    interactive,    \* the command is a shell with prompts
    child,      \* "none", "running", "exited" by itself, "killed"
    code,       \* its exit status
    produced,   \* chunks of output it has written ...
    logged,     \* ... and those in output.log
    completion, \* the exit code of the last line of completion.log, or Unset
    daemon,     \* where the daemon is
    idled,      \* the daemon ended by the idle timeout
    exit_code,  \* the content of that file
    fifo, sent, \* input in the FIFO, and all that was sent
    killer,     \* where cmd_kill is
    gc,         \* where cmd_gc is
    old         \* the session began more than max_age_hours ago

creating == <<create, mode, interactive>>
process == <<child, code, produced>>
relayed == <<logged, daemon, idled, exit_code>>
ended == <<killer, gc, old>>
svars == <<files, create, mode, interactive, child, code, produced, logged, completion,
           daemon, idled, exit_code, fifo, sent, killer, gc, old>>

SInit ==
    /\ files = {} /\ create = "mkdir" /\ mode = "direct" /\ interactive \in BOOLEAN
    /\ child = "none" /\ code = 0 /\ produced = 0
    /\ logged = 0 /\ completion = Unset /\ daemon = "none" /\ idled = FALSE /\ exit_code = Unset
    /\ fifo = 0 /\ sent = 0
    /\ killer = "idle" /\ gc = "idle" /\ old = FALSE

\* A file is created if the directory is still there.
Write(f) == IF "dir" \in files THEN files \cup {f} ELSE files

session_exists == "pid" \in files
session_is_alive == "pid" \in files /\ mode # "nopid" /\ child = "running"
cmd_exit_code == IF session_exists /\ "exit_code" \in files THEN {exit_code} ELSE {}
----------------------------------------------------------------------------
(* cmd_create *)

Creates(from, to) == create = from /\ create' = to

MakeDir ==
    /\ Creates("mkdir", "logs")
    /\ files' = {"dir"}
    /\ UNCHANGED <<mode, interactive, process, completion, relayed, fifo, sent, ended>>

\* Name, logs and rcfile; without a directory the call fails.
CreateLogs ==
    /\ Creates("logs", IF "dir" \in files THEN "pty" ELSE "failed")
    /\ files' = Write("logs")
    /\ UNCHANGED <<mode, interactive, process, completion, relayed, fifo, sent, ended>>

\* The helper forks the command; its answer holds the terminal and the PID.
handle_client == mode' \in {"helper", "nopid"} /\ child' = "running"

\* Without a helper the daemon will fork.
helper_request_pty ==
    /\ Creates("pty", "meta")
    /\ handle_client \/ (mode' = "direct" /\ UNCHANGED child)
    /\ UNCHANGED <<files, interactive, code, produced, completion, relayed, fifo, sent, ended>>

\* The slave's name and the metadata; without a directory the call fails and
\* closes the terminal of a command that the helper has started.
WriteMetadata ==
    /\ Creates("meta", IF "dir" \in files THEN "fork" ELSE "failed")
    /\ files' = Write("meta")
    /\ IF "dir" \notin files /\ child = "running"
       THEN child' = "killed" /\ code' = SIGNALLED ELSE UNCHANGED <<child, code>>
    /\ UNCHANGED <<mode, interactive, produced, completion, relayed, fifo, sent, ended>>

ForkDaemon ==
    /\ Creates("fork", "daemon_pid")
    /\ daemon' = "fork"
    /\ UNCHANGED <<files, mode, interactive, process, completion, logged, idled, exit_code, fifo, sent, ended>>

WriteDaemonPid ==
    /\ Creates("daemon_pid", "done")
    /\ files' = Write("daemon_pid")
    /\ UNCHANGED <<mode, interactive, process, completion, relayed, fifo, sent, ended>>

cmd_create == MakeDir \/ CreateLogs \/ helper_request_pty \/ WriteMetadata \/ ForkDaemon \/ WriteDaemonPid
----------------------------------------------------------------------------
(* The daemon *)

Daemon(from, to) == daemon = from /\ daemon' = to

ForkChild ==
    /\ Daemon("fork", "pid")
    /\ child' = IF mode = "direct" THEN "running" ELSE child
    /\ UNCHANGED <<files, creating, code, produced, completion, logged, idled, exit_code, fifo, sent, ended>>

WritePid ==
    /\ Daemon("pid", "open")
    /\ files' = Write("pid")
    /\ UNCHANGED <<creating, process, completion, logged, idled, exit_code, fifo, sent, ended>>

\* daemon_relay opens the log and makes the FIFO, or gives up.
OpenRelay ==
    /\ Daemon("open", IF "dir" \in files THEN "relay" ELSE "gone")
    /\ files' = IF "dir" \in files THEN files \cup {"logs", "fifo"} ELSE files
    /\ UNCHANGED <<creating, process, completion, logged, idled, exit_code, fifo, sent, ended>>

RelayOutput ==
    /\ daemon = "relay" /\ logged < produced
    /\ logged' = logged + 1
    /\ UNCHANGED <<files, creating, process, completion, daemon, idled, exit_code, fifo, sent, ended>>

RelayInput ==
    /\ daemon = "relay" /\ fifo > 0
    /\ fifo' = fifo - 1
    /\ UNCHANGED <<files, creating, process, completion, relayed, sent, ended>>

\* Mutant: a hangup ends the relay at once.
RelayHangupAtOnce ==
    /\ child \in {"exited", "killed"}
    /\ Daemon("relay", "unlink")
    /\ UNCHANGED <<files, creating, process, completion, logged, idled, exit_code, fifo, sent, ended>>

\* Mutant: a hangup counts only together with output.
RelayHangupWithOutput ==
    /\ child \in {"exited", "killed"} /\ logged < produced
    /\ Daemon("relay", "unlink")
    /\ logged' = produced
    /\ UNCHANGED <<files, creating, process, completion, idled, exit_code, fifo, sent, ended>>

\* The terminal hangs up when the command has ended: the rest is drained.
RelayHangup ==
    /\ child \in {"exited", "killed"}
    /\ Daemon("relay", "unlink")
    /\ logged' = produced
    /\ UNCHANGED <<files, creating, process, completion, idled, exit_code, fifo, sent, ended>>

\* Nothing happened for idle_timeout_secs: the command gets SIGTERM, which an
\* interactive shell ignores.
RelayIdle ==
    /\ child = "running" /\ logged = produced /\ fifo = 0
    /\ Daemon("relay", "unlink")
    /\ idled' = TRUE
    /\ IF mode = "nopid" \/ interactive THEN UNCHANGED <<child, code>>
       ELSE child' = "killed" /\ code' = SIGNALLED
    /\ UNCHANGED <<files, creating, produced, completion, logged, exit_code, fifo, sent, ended>>

UnlinkFifo ==
    /\ Daemon("unlink", "reap")
    /\ files' = files \ {"fifo"}
    /\ UNCHANGED <<creating, process, completion, logged, idled, exit_code, fifo, sent, ended>>

\* The exit code of the daemon's own child comes from waitpid, that of the
\* helper's from the last line of the completion log, or it is 0.
Reap ==
    /\ Daemon("reap", "close")
    /\ mode = "direct" => child \in {"exited", "killed"}
    /\ IF mode = "nopid" THEN UNCHANGED <<exit_code, files>>
       ELSE /\ exit_code' = IF mode = "direct" THEN code
                            ELSE IF completion = Unset THEN 0 ELSE completion
            /\ files' = Write("exit_code")
    /\ UNCHANGED <<creating, process, completion, logged, idled, fifo, sent, ended>>

\* The daemon closes the terminal and exits; SIGHUP ends what still runs.
CloseTerminal ==
    /\ Daemon("close", "gone")
    /\ IF child = "running" THEN child' = "killed" /\ code' = SIGNALLED ELSE UNCHANGED <<child, code>>
    /\ UNCHANGED <<files, creating, produced, completion, logged, idled, exit_code, fifo, sent, ended>>

daemon_relay ==
    \/ ForkChild \/ WritePid \/ OpenRelay \/ RelayOutput \/ RelayInput \/ RelayHangup
    \/ UnlinkFifo \/ Reap \/ CloseTerminal
----------------------------------------------------------------------------
(* The command *)

Produce ==
    /\ child = "running" /\ produced < MaxOutput
    /\ produced' = produced + 1
    /\ UNCHANGED <<files, creating, child, code, completion, relayed, fifo, sent, ended>>

\* PROMPT_COMMAND notes the exit code of every command of a shell.
PromptCommand(c) ==
    /\ child = "running" /\ interactive
    /\ completion' = c
    /\ UNCHANGED <<files, creating, process, relayed, fifo, sent, ended>>

\* The trap that cmd_create gives to the helper's commands notes their own.
Exit(c) ==
    /\ child = "running"
    /\ child' = "exited" /\ code' = c
    /\ completion' = IF mode # "direct" /\ ~ interactive THEN c ELSE completion
    /\ UNCHANGED <<files, creating, produced, relayed, fifo, sent, ended>>

cmd_send ==
    /\ session_exists /\ "fifo" \in files /\ sent < MaxInput
    /\ sent' = sent + 1 /\ fifo' = fifo + 1
    /\ UNCHANGED <<files, creating, process, completion, relayed, ended>>
----------------------------------------------------------------------------
(* cmd_kill *)

Kills(from, to) == killer = from /\ killer' = to

KillChild ==
    /\ session_exists
    /\ Kills("idle", "daemon")
    /\ IF session_is_alive THEN child' = "killed" /\ code' = SIGNALLED ELSE UNCHANGED <<child, code>>
    /\ UNCHANGED <<files, creating, produced, completion, relayed, fifo, sent, gc, old>>

\* Mutant: the daemon is left to find the hangup.
KillNoDaemon ==
    /\ Kills("daemon", IF "daemon_pid" \in files THEN "unlink_all" ELSE "unlink")
    /\ UNCHANGED <<files, creating, process, completion, relayed, fifo, sent, gc, old>>

\* SIGTERM, and SIGKILL 50 ms later: the daemon is gone when the files are
\* removed, if cmd_create has written its PID.
KillDaemon ==
    /\ Kills("daemon", IF "daemon_pid" \in files THEN "unlink_all" ELSE "unlink")
    /\ daemon' = IF "daemon_pid" \in files THEN "gone" ELSE daemon
    /\ UNCHANGED <<files, creating, process, completion, logged, idled, exit_code, fifo, sent, gc, old>>

KillUnlink ==
    /\ Kills("unlink_all", "rmdir_all") \/ Kills("unlink", "rmdir")
    /\ files' = files \cap {"dir"}
    /\ UNCHANGED <<creating, process, completion, relayed, fifo, sent, gc, old>>

\* rmdir fails when a file has come back.
KillRmdir ==
    /\ Kills("rmdir_all", "done_all") \/ Kills("rmdir", "done")
    /\ files' = IF files = {"dir"} THEN {} ELSE files
    /\ UNCHANGED <<creating, process, completion, relayed, fifo, sent, gc, old>>

cmd_kill == KillChild \/ KillDaemon \/ KillUnlink \/ KillRmdir
----------------------------------------------------------------------------
(* cmd_gc *)

GcLook ==
    /\ gc = "idle" /\ "dir" \in files /\ ~ session_is_alive
    /\ gc' = "age"
    /\ UNCHANGED <<files, creating, process, completion, relayed, fifo, sent, killer, old>>

\* A missing metadata file counts as one of 1970.
GcAge ==
    /\ gc = "age"
    /\ gc' = IF "meta" \notin files THEN "epoch" ELSE IF old THEN "remove" ELSE "idle"
    /\ UNCHANGED <<files, creating, process, completion, relayed, fifo, sent, killer, old>>

remove_session_dir ==
    /\ gc \in {"remove", "epoch"}
    /\ gc' = IF gc = "remove" THEN "removed" ELSE "removed_epoch"
    /\ files' = {}
    /\ UNCHANGED <<creating, process, completion, relayed, fifo, sent, killer, old>>

cmd_gc == GcLook \/ GcAge \/ remove_session_dir

\* Hours pass, more than a gc takes: whatever was being created has been
\* created.
Ages ==
    /\ gc # "age"
    /\ create \in {"done", "failed"} /\ daemon \notin {"fork", "pid", "open"}
    /\ old' = TRUE
    /\ UNCHANGED <<files, creating, process, completion, relayed, fifo, sent, killer, gc>>

SNext ==
    \/ cmd_create \/ daemon_relay \/ RelayIdle
    \/ Produce \/ (\E c \in Codes : PromptCommand(c) \/ Exit(c)) \/ cmd_send
    \/ cmd_kill \/ cmd_gc \/ Ages

SSpec == SInit /\ [][SNext]_svars
----------------------------------------------------------------------------

\* The exit code appears after all output is in the log: a caller that sees
\* it has the whole output, except after an idle timeout; and it is the code
\* of the command, except for a shell of the helper, whose last command it is.
ExitCodeLast ==
    \A c \in cmd_exit_code : child = "exited" /\ ~ idled =>
        /\ logged = produced
        /\ c = code \/ (mode # "direct" /\ interactive)

\* After the command has ended, its exit code can be read unless the session
\* was removed or the helper did not tell the PID.
ExitCodeComes ==
    (child = "exited" /\ daemon = "relay") ~>
        (cmd_exit_code # {} \/ killer # "idle" \/ gc # "idle" \/ mode = "nopid")

\* A kill that finds the PID of the daemon leaves no process and no file,
\* whatever the daemon was doing; one that does not find it leaves the daemon
\* to end by itself.
KillLeavesNothing ==
    killer = "done_all" =>
        /\ child \in {"exited", "killed"} \/ mode = "nopid"
        /\ daemon = "gone" /\ files = {}

\* gc removes no session with metadata whose command runs, unless its PID is
\* unknown, although it looks at the process and at the age in two steps.
GcSparesLive == gc \in {"remove", "removed"} /\ child = "running" => mode = "nopid"

\* What a removal may take away and what it must: kill leaves nothing, and gc
\* spares the living.
RemovalSound == KillLeavesNothing /\ GcSparesLive
=============================================================================
