----------------------------- MODULE MCSessions -----------------------------
(***************************************************************************)
(* The life of a session, and its clients, or a session of the library.    *)
(* The clients of the logs do not influence each other, so that an         *)
(* instance runs one kind of them, or the life of a session, chosen in the *)
(* initial state.                                                          *)
(***************************************************************************)
EXTENDS Sessions, SessionLogs, SessionLib

CONSTANT MaxReadLog     \* bound on the output that the calls of read-new share

VARIABLE part

sessionvars == <<part, svars, lvars, libvars>>

\* "done" is what the caller waits for, "x" is any other byte.
MCChunks == {<<"d">>, <<"o", "n">>, <<"x", "d", "o">>, <<"n", "e">>, <<"d", "o", "n", "e">>}
MCPattern == <<"d", "o", "n", "e">>

SessionInit ==
    /\ part \in {"life", "read", "complete", "pattern", "lib"}
    /\ SInit /\ LInit /\ LibInit
    /\ part # "life" => interactive
    /\ part # "pattern" => wp.by = "cli"
    /\ part # "lib" => ~ignores

SessionNext ==
    /\ UNCHANGED part
    /\ \/ part = "life" /\ SNext /\ UNCHANGED <<lvars, libvars>>
       \/ part = "read" /\ Reading /\ Len(out') =< MaxReadLog /\ UNCHANGED <<svars, libvars>>
       \/ part = "complete" /\ Waiting /\ UNCHANGED <<svars, libvars>>
       \/ part = "pattern" /\ Matching /\ UNCHANGED <<svars, libvars>>
       \/ part = "lib" /\ LibNext /\ UNCHANGED <<svars, lvars>>

\* Processes run; a call of wait-complete or nbs_ts_destroy goes on, and so
\* does the thread that captures.
SessionFairness ==
    /\ WF_svars(part = "life" /\ cmd_create)
    /\ WF_svars(part = "life" /\ daemon_relay)
    /\ WF_svars(part = "life" /\ cmd_kill /\ killer # "idle")
    /\ WF_lvars(part = "complete" /\ WaitComplete)
    /\ WF_libvars(part = "lib" /\ at # "run" /\ nbs_ts_destroy)
    /\ WF_libvars(part = "lib" /\ capture_thread_fn)

SessionSpec == SessionInit /\ [][SessionNext]_sessionvars /\ SessionFairness
=============================================================================
