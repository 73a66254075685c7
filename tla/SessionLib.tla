----------------------------- MODULE SessionLib -----------------------------
(***************************************************************************)
(* A session that a program opens with the library of nbs-ts, without a    *)
(* daemon: nbs_ts_create, the thread that captures the output,             *)
(* nbs_ts_status and nbs_ts_destroy, against the command in the terminal.  *)
(* A read of the terminal that has begun keeps it open, also when another  *)
(* thread closes the descriptor.                                           *)
(***************************************************************************)
EXTENDS Naturals

CONSTANT MaxLibOutput   \* bound on the chunks of output

ASSUME SessionLibAssumption == MaxLibOutput \in Nat

VARIABLES
    at,         \* where the calls of the program are
    how,        \* who forked the command: "direct", "helper", or "nopid", the
                \* helper without its answer about the PID
    cmd,        \* the command: "none", "running", "ended"
    ignores,    \* it is a shell with prompts, which ignores SIGTERM
    background, \* a process it has started holds the terminal
    unread,     \* chunks of output in the terminal
    written,    \* chunks of output so far
    thread,     \* "none", "next" (about to read), "read", "write" or "ended"
    master,     \* the descriptor of the terminal is open
    child_exited,
    libfiles    \* the files of the session

call == <<at, libfiles>>
command == <<how, cmd, ignores, background>>
relay == <<unread, written, thread>>
libvars == <<at, how, cmd, ignores, background, unread, written, thread, master,
             child_exited, libfiles>>

LibInit ==
    /\ at = "new" /\ how = "direct" /\ cmd = "none" /\ ignores \in BOOLEAN
    /\ background = FALSE /\ unread = 0 /\ written = 0
    /\ thread = "none" /\ master = FALSE /\ child_exited = FALSE /\ libfiles = {}

Held == cmd = "running" \/ background
Calls(from, to) == at = from /\ at' = to

\* Nobody has the terminal any more: its processes are hung up.
HangUp == cmd' = "ended" /\ background' = FALSE

-----------------------------------------------------------------------------
(* nbs_ts_create *)

CreateDir ==
    /\ Calls("new", "pty")
    /\ libfiles' = {"dir", "logs"}
    /\ UNCHANGED <<command, relay, master, child_exited>>

\* A working directory with a quote in its name: the files stay.
RefuseCwd ==
    /\ Calls("pty", "failed")
    /\ UNCHANGED <<command, relay, master, child_exited, libfiles>>

\* Without a helper the library forks the command itself, or fails to.
OpenTerminal ==
    \/ /\ Calls("pty", "files")
       /\ how' \in {"direct", "helper", "nopid"}
       /\ cmd' = "running" /\ master' = TRUE
       /\ UNCHANGED <<ignores, background, relay, child_exited, libfiles>>
    \/ /\ Calls("pty", "failed")
       /\ libfiles' = {}
       /\ UNCHANGED <<command, relay, master, child_exited>>

\* The thread ends at once when it cannot open the log.
StartThread ==
    /\ Calls("files", "run")
    /\ libfiles' = libfiles \cup {"pid", "meta"}
    /\ thread' \in {"next", "ended"}
    /\ UNCHANGED <<command, unread, written, master, child_exited>>

nbs_ts_create == CreateDir \/ RefuseCwd \/ OpenTerminal \/ StartThread

-----------------------------------------------------------------------------
(* The command *)

CommandWrites ==
    /\ Held /\ written < MaxLibOutput
    /\ unread' = unread + 1 /\ written' = written + 1
    /\ UNCHANGED <<call, command, thread, master, child_exited>>

CommandForks ==
    /\ cmd = "running" /\ background' = TRUE
    /\ UNCHANGED <<call, how, cmd, ignores, relay, master, child_exited>>

CommandEnds ==
    /\ \/ cmd = "running" /\ cmd' = "ended" /\ UNCHANGED background
       \/ background /\ background' = FALSE /\ UNCHANGED cmd
    /\ UNCHANGED <<call, how, ignores, relay, master, child_exited>>

-----------------------------------------------------------------------------
(* capture_thread_fn *)

ThreadCalls ==
    /\ thread = "next"
    /\ thread' = IF master THEN "read" ELSE "ended"
    /\ UNCHANGED <<call, command, unread, written, master, child_exited>>

\* A read ends with output, or with an error when nobody holds the terminal.
ThreadReads ==
    /\ thread = "read"
    /\ \/ unread > 0 /\ unread' = unread - 1 /\ thread' = "write"
       \/ unread = 0 /\ ~Held /\ UNCHANGED unread /\ thread' = "ended"
    /\ IF master THEN UNCHANGED <<cmd, background>> ELSE HangUp
    /\ UNCHANGED <<call, how, ignores, written, master, child_exited>>

\* A write that fails ends the thread.
ThreadWrites ==
    /\ thread = "write" /\ thread' \in {"next", "ended"}
    /\ UNCHANGED <<call, command, unread, written, master, child_exited>>

capture_thread_fn == ThreadCalls \/ ThreadReads \/ ThreadWrites

-----------------------------------------------------------------------------
(* nbs_ts_status and nbs_ts_destroy *)

\* waitpid knows only a child of the program's own.
nbs_ts_status ==
    /\ at = "run" /\ ~child_exited
    /\ how = "direct" /\ cmd = "ended"
    /\ child_exited' = TRUE
    /\ UNCHANGED <<call, command, relay, master>>

DestroyKill ==
    /\ Calls("run", IF how = "nopid" \/ child_exited THEN "close" ELSE "wait")
    /\ cmd' = IF at' = "wait" /\ ~ignores THEN "ended" ELSE cmd
    /\ UNCHANGED <<how, ignores, background, relay, master, child_exited, libfiles>>

\* Mutant: the wait is over after ten tries, without SIGKILL.
DestroyWaitOnly ==
    /\ Calls("wait", "close")
    /\ UNCHANGED <<command, relay, master, child_exited, libfiles>>

\* SIGKILL after ten tries; waitpid fails at once for a child of the helper.
DestroyWait ==
    /\ Calls("wait", "close")
    /\ cmd' = IF how = "direct" THEN "ended" ELSE cmd
    /\ UNCHANGED <<how, ignores, background, relay, master, child_exited, libfiles>>

DestroyClose ==
    /\ Calls("close", "join")
    /\ master' = FALSE
    /\ IF thread = "read" THEN UNCHANGED <<cmd, background>> ELSE HangUp
    /\ UNCHANGED <<how, ignores, relay, child_exited, libfiles>>

DestroyJoin ==
    /\ thread = "ended"
    /\ Calls("join", "unlink")
    /\ UNCHANGED <<command, relay, master, child_exited, libfiles>>

DestroyFiles ==
    /\ Calls("unlink", "gone")
    /\ libfiles' = {}
    /\ UNCHANGED <<command, relay, master, child_exited>>

nbs_ts_destroy == DestroyKill \/ DestroyWait \/ DestroyClose \/ DestroyJoin \/ DestroyFiles

LibNext ==
    \/ nbs_ts_create \/ nbs_ts_status \/ nbs_ts_destroy \/ capture_thread_fn
    \/ CommandWrites \/ CommandForks \/ CommandEnds

-----------------------------------------------------------------------------
\* nbs_ts_destroy does not wait for ever for its capture thread: it ends, and
\* the command with it, unless a background process keeps the terminal open
\* or the command is the helper's and does not end on SIGTERM.
DestroyReturns ==
    (at = "wait" /\ (how = "helper" => ~ignores))
        ~> ((at = "gone" /\ cmd = "ended" /\ libfiles = {}) \/ background)
=============================================================================
