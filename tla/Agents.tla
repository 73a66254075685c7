------------------------------- MODULE Agents -------------------------------
(***************************************************************************)
(* The processes behind one agent handle of one project: nbs-claude, the   *)
(* terminal session it creates, the loop that restarts the sidecar, the    *)
(* sidecar, and the scripts of the operator that kill and start them.      *)
(* They find each other through files only: the PID file, the session      *)
(* metadata, the sidecar's PID marker and the lock file of a loop.         *)
(*                                                                         *)
(* The launch a of nbs-claude has the session a and the loop a.  Other     *)
(* loops are started by nbs-sidecar-restart; they take the lock file.  A   *)
(* loop has at most one sidecar, named after the loop, which survives when *)
(* the loop is killed.                                                     *)
(***************************************************************************)
EXTENDS Integers, FiniteSets

CONSTANTS
    Launches,       \* the launches of nbs-claude, in their order
    Respawns,       \* the loops of nbs-sidecar-restart that may run at once
    MaxCommands,    \* bound on the commands of the operator
    MaxAgentFaults  \* bound on processes that die by themselves

Loops == Launches \cup Respawns

None == 0       \* a file that does not exist
Stale == -1     \* a marker that names a process that is gone

ASSUME AgentsAssumption ==
    /\ Loops \subseteq Nat \ {0} /\ Launches # {}
    /\ Launches \cap Respawns = {}
    /\ MaxCommands \in Nat /\ MaxAgentFaults \in Nat

VARIABLES
    claude,     \* where each launch of nbs-claude is
    session,    \* "none", "alive", "dead", or "removed" with its directory
    pidfile,    \* .nbs/pids/<handle>.pid
    meta,       \* .nbs/sessions/<handle>.honest
    loop,       \* where each loop is
    current,    \* CURRENT_SESSION of each loop
    named,      \* the loops that know the name of their session
    sidecar,    \* the sidecar of each loop
    marker,     \* .nbs/pids/sidecar-<handle>.pid: a sidecar, None or Stale
    lockfile,   \* .nbs/locks/sidecar-<handle>.lock
    torn,       \* the launches that wrote their PID between the cat and the rm of
                \* an earlier cleanup
    op,         \* the script of the operator and its next step
    collected,  \* the sidecars that nbs-sidecar-restart found
    commands, afaults

procs == <<claude, session, pidfile, meta, torn>>
loops == <<loop, current, named, lockfile>>
script == <<op, collected, commands>>
avars == <<claude, session, pidfile, meta, torn, loop, current, named, lockfile,
           sidecar, marker, op, collected, commands, afaults>>

AInit ==
    /\ claude = [a \in Launches |-> "none"]
    /\ session = [a \in Launches |-> "none"]
    /\ pidfile = None /\ meta = None
    /\ loop = [l \in Loops |-> "ended"]
    /\ current = [l \in Loops |-> CHOOSE a \in Launches : \A b \in Launches : a =< b]
    /\ named = Launches
    /\ sidecar = [l \in Loops |-> "off"]
    /\ marker = None /\ lockfile = None
    /\ torn = {} /\ op = "idle" /\ collected = {}
    /\ commands = 0 /\ afaults = 0

Live(l) == loop[l] \in {"lock", "locked", "start", "wait"}
nbs_sc_lock_check == \E l \in Loops : lockfile = l /\ Live(l)
Serving == {l \in Loops : sidecar[l] = "run"}
Alive(a) == session[a] = "alive"
AFault == afaults < MaxAgentFaults /\ afaults' = afaults + 1
----------------------------------------------------------------------------
(* nbs-claude *)

Stage(a, from, to) == claude[a] = from /\ claude' = [claude EXCEPT ![a] = to]

WritePidfile(a) ==
    /\ Stage(a, "launched", "meta")
    /\ pidfile' = a
    /\ torn' = IF \E b \in Launches : claude[b] = "clean_pid" THEN torn \cup {a} ELSE torn
    /\ UNCHANGED <<session, meta, loops, sidecar, marker, script, afaults>>

WriteMeta(a) ==
    /\ Stage(a, "meta", "create")
    /\ meta' = a
    /\ UNCHANGED <<session, pidfile, torn, loops, sidecar, marker, script, afaults>>

\* The metadata is written again, with the handle of the session.
CreateSession(a) ==
    /\ Stage(a, "create", "loop")
    /\ session' = [session EXCEPT ![a] = "alive"]
    /\ meta' = a
    /\ UNCHANGED <<pidfile, torn, loops, sidecar, marker, script, afaults>>

StartLoop(a) ==
    /\ Stage(a, "loop", "poll")
    /\ loop' = [loop EXCEPT ![a] = "start"]
    /\ current' = [current EXCEPT ![a] = a]
    /\ UNCHANGED <<session, pidfile, meta, torn, named, lockfile, sidecar, marker, script, afaults>>

\* The poll ends when nbs-ts no longer says "alive", and the cleanup begins:
\* the PID file is read, and removed in a second step if it was the own one.
\* Mutant: it is removed whoever wrote it.
PollEndsAlways(a) ==
    /\ ~ Alive(a) /\ Stage(a, "poll", "clean_pid")
    /\ UNCHANGED <<session, pidfile, meta, torn, loops, sidecar, marker, script, afaults>>

PollEnds(a) ==
    /\ ~ Alive(a)
    /\ Stage(a, "poll", IF pidfile = a THEN "clean_pid" ELSE "clean_meta")
    /\ UNCHANGED <<session, pidfile, meta, torn, loops, sidecar, marker, script, afaults>>

\* By now the file may be that of a later launch.
RemovePidfile(a) ==
    /\ Stage(a, "clean_pid", "clean_meta")
    /\ pidfile' = None
    /\ UNCHANGED <<session, meta, torn, loops, sidecar, marker, script, afaults>>

CleanMeta(a) ==
    /\ Stage(a, "clean_meta", "clean_loop")
    /\ meta' = None
    /\ UNCHANGED <<session, pidfile, torn, loops, sidecar, marker, script, afaults>>

\* SIDECAR_PID is the loop: the sidecar itself gets no signal.
CleanLoop(a) ==
    /\ Stage(a, "clean_loop", "clean_session")
    /\ loop' = [loop EXCEPT ![a] = "ended"]
    /\ UNCHANGED <<session, pidfile, meta, torn, current, named, lockfile, sidecar, marker, script, afaults>>

CleanSession(a) ==
    /\ Stage(a, "clean_session", "gone")
    /\ session' = [session EXCEPT ![a] = "removed"]
    /\ UNCHANGED <<pidfile, meta, torn, loops, sidecar, marker, script, afaults>>

NbsClaude(a) ==
    \/ WritePidfile(a) \/ WriteMeta(a) \/ CreateSession(a) \/ StartLoop(a)
    \/ PollEnds(a) \/ RemovePidfile(a) \/ CleanMeta(a) \/ CleanLoop(a) \/ CleanSession(a)
----------------------------------------------------------------------------
(* The loop: nbs-claude's own has no lock, nbs_sc_generate_loop's has one. *)

LockRead(l) ==
    /\ loop[l] = "lock"
    /\ loop' = [loop EXCEPT ![l] =
                  IF lockfile # l /\ nbs_sc_lock_check THEN "ended" ELSE "locked"]
    /\ UNCHANGED <<procs, current, named, lockfile, sidecar, marker, script, afaults>>

LockWrite(l) ==
    /\ loop[l] = "locked"
    /\ lockfile' = l
    /\ loop' = [loop EXCEPT ![l] = "start"]
    /\ UNCHANGED <<procs, current, named, sidecar, marker, script, afaults>>

StartSidecar(l) ==
    /\ loop[l] = "start"
    /\ loop' = [loop EXCEPT ![l] = "wait"]
    /\ sidecar' = [sidecar EXCEPT ![l] = "check"]
    /\ UNCHANGED <<procs, current, named, lockfile, marker, script, afaults>>

\* The EXIT trap of a locked loop removes the lock file.
Unlock(l) == IF l \in Respawns THEN None ELSE lockfile

\* The sidecar has exited.  A session that is alive gets a new one; otherwise
\* a session with the same name is looked for, and without one the loop ends.
SidecarExited(l) ==
    /\ loop[l] = "wait" /\ sidecar[l] = "off"
    /\ LET others == {a \in Launches : Alive(a) /\ l \in named} IN
       \/ Alive(current[l]) /\ loop' = [loop EXCEPT ![l] = "start"]
          /\ UNCHANGED <<current, lockfile>>
       \/ /\ ~ Alive(current[l])
          /\ \E a \in others : current' = [current EXCEPT ![l] = a]
          /\ loop' = [loop EXCEPT ![l] = "start"] /\ UNCHANGED lockfile
       \/ /\ ~ Alive(current[l]) /\ others = {}
          /\ loop' = [loop EXCEPT ![l] = "ended"] /\ lockfile' = Unlock(l)
          /\ UNCHANGED current
    /\ UNCHANGED <<procs, named, sidecar, marker, script, afaults>>

Loop(l) == LockRead(l) \/ LockWrite(l) \/ StartSidecar(l) \/ SidecarExited(l)
----------------------------------------------------------------------------
(* The sidecar and its marker *)

Sidecar(l, s) == sidecar' = [sidecar EXCEPT ![l] = s]

\* A sidecar of the same handle that lives and is named in the marker.
Conflict(l) == marker \in Loops \ {l} /\ sidecar[marker] # "off"

\* Mutant: only a missing marker disturbs a sidecar that runs.
pid_marker_check_once(l) ==
    /\ sidecar[l] \in {"check", "run"}
    /\ Sidecar(l, IF sidecar[l] = "run" /\ marker # None THEN "run"
                  ELSE IF Conflict(l) THEN "off" ELSE "claim")
    /\ UNCHANGED <<procs, loops, marker, script, afaults>>

\* pid_marker_check, at the start and with every heartbeat: the marker is
\* read; a conflict ends the sidecar and leaves the marker.
pid_marker_check(l) ==
    /\ sidecar[l] \in {"check", "run"}
    /\ Sidecar(l, IF Conflict(l) THEN "off" ELSE IF marker = l THEN "run" ELSE "claim")
    /\ UNCHANGED <<procs, loops, marker, script, afaults>>

\* ... and a missing or stale one is written, in a second step.
pid_marker_write(l) ==
    /\ sidecar[l] = "claim"
    /\ marker' = l
    /\ Sidecar(l, "run")
    /\ UNCHANGED <<procs, loops, script, afaults>>

\* The session is dead, or its directory has been gone for 60 ticks: the
\* main loop ends, and the sidecar removes the marker if it is its own.
SidecarEnds(l) ==
    /\ sidecar[l] = "run" /\ ~ Alive(current[l])
    /\ Sidecar(l, "off")
    /\ marker' = IF marker = l THEN None ELSE marker
    /\ UNCHANGED <<procs, loops, script, afaults>>

Killed(S) ==
    /\ sidecar' = [l \in Loops |-> IF l \in S THEN "off" ELSE sidecar[l]]
    /\ marker' = IF marker \in S THEN Stale ELSE marker

SidecarStep(l) == pid_marker_check(l) \/ pid_marker_write(l) \/ SidecarEnds(l)
----------------------------------------------------------------------------
(* The operator: one script at a time *)

Begin(p) == op = "idle" /\ commands < MaxCommands /\ commands' = commands + 1 /\ op' = p
Step(p, q) == op = p /\ op' = q /\ UNCHANGED commands

Launch ==
    \E a \in Launches :
        /\ claude[a] = "none" /\ \A b \in Launches : b < a => claude[b] # "none"
        /\ claude' = [claude EXCEPT ![a] = "launched"]

\* nbs-chat-terminal-restart.sh launches the agent for the first time.
FirstLaunch ==
    /\ \A a \in Launches : claude[a] = "none"
    /\ op = "idle" /\ op' = "verify"
    /\ Launch
    /\ UNCHANGED <<session, pidfile, meta, torn, loops, sidecar, marker, collected, commands, afaults>>

\* nbs-kick-agent kills the first session of that name, alive or dead,
\* removes PID file and marker, and launches nbs-claude anew.
KickSession ==
    /\ Begin("kick_clean")
    /\ \E a \in Launches : claude[a] = "none"
    /\ \/ \E a \in Launches : session[a] \in {"alive", "dead"}
             /\ session' = [session EXCEPT ![a] = "removed"]
       \/ /\ \A a \in Launches : session[a] \notin {"alive", "dead"}
          /\ UNCHANGED session
    /\ UNCHANGED <<claude, pidfile, meta, torn, loops, sidecar, marker, collected, afaults>>

KickClean ==
    /\ Step("kick_clean", "kick_launch")
    /\ pidfile' = None /\ marker' = None
    /\ UNCHANGED <<claude, session, meta, torn, loops, sidecar, collected, afaults>>

KickLaunch ==
    /\ Step("kick_launch", "verify")
    /\ Launch
    /\ UNCHANGED <<session, pidfile, meta, torn, loops, sidecar, marker, collected, afaults>>

\* What the operator is told to wait for: no launch is under way, one
\* session lives, and no process of an earlier one is left.
Settled ==
    /\ \A a \in Launches : claude[a] \in {"none", "poll", "gone"}
    /\ \A a \in Launches : claude[a] = "poll" => Alive(a)
    /\ Cardinality({a \in Launches : Alive(a)}) =< 1
    /\ \A l \in Loops : sidecar[l] # "off" \/ Live(l) => Alive(current[l])

\* nbs-workers continue kills the session that the metadata names, and then
\* removes a PID file if the process of the metadata is gone; it launches
\* nbs-claude with the same conversation.
ContinueKill ==
    /\ Settled /\ Begin("continue_clean")
    /\ \E a \in Launches : claude[a] = "none"
    /\ meta # None /\ session[meta] # "none"
    /\ session' = IF Alive(meta) THEN [session EXCEPT ![meta] = "removed"] ELSE session
    /\ collected' = {meta}
    /\ UNCHANGED <<claude, pidfile, meta, torn, loops, sidecar, marker, afaults>>

ContinueClean ==
    /\ Step("continue_clean", "kick_launch")
    /\ pidfile' = IF \A a \in collected : claude[a] = "gone" THEN None ELSE pidfile
    /\ collected' = {}
    /\ UNCHANGED <<claude, session, meta, torn, loops, sidecar, marker, afaults>>

\* The script looks for a live session every 5 seconds, for half a minute;
\* nbs-claude has written its PID file by then.
Verify ==
    /\ \A a \in Launches : claude[a] # "launched"
    /\ Step("verify", "idle")
    /\ UNCHANGED <<procs, loops, sidecar, marker, collected, afaults>>

\* nbs-sidecar-restart: restart_running collects the sidecars; with none,
\* respawn_missing begins.
Collect ==
    /\ Settled /\ Begin(IF \A l \in Loops : sidecar[l] = "off" THEN "respawn" ELSE "kill_loops")
    /\ collected' = {l \in Loops : sidecar[l] # "off"}
    /\ UNCHANGED <<procs, loops, sidecar, marker, afaults>>

\* The trap of a killed loop removes the lock file.
KillLoops ==
    /\ Step("kill_loops", "kill_sidecars")
    /\ loop' = [l \in Loops |-> "ended"]
    /\ lockfile' = None
    /\ UNCHANGED <<procs, current, named, sidecar, marker, collected, afaults>>

KillSidecars ==
    /\ Step("kill_sidecars", "spawn")
    /\ Killed(collected)
    /\ UNCHANGED <<procs, loops, collected, afaults>>

\* nbs_sc_spawn: nothing when a live loop has the lock; otherwise the marker
\* is removed and a loop is started for session a.  A session that nbs-ts
\* does not list any more gives the loop no name to look for.
nbs_sc_spawn(a) ==
    \/ nbs_sc_lock_check /\ UNCHANGED <<loops, marker>>
    \/ /\ ~ nbs_sc_lock_check
       /\ \E l \in Respawns :
            /\ ~ Live(l) /\ sidecar[l] = "off"
            /\ loop' = [loop EXCEPT ![l] = "lock"]
            /\ current' = [current EXCEPT ![l] = a]
            /\ named' = IF session[a] \in {"alive", "dead"} THEN named \cup {l} ELSE named \ {l}
       /\ marker' = None /\ UNCHANGED lockfile

\* One loop with the session of one of the sidecars; --respawn goes on.
SpawnOne ==
    /\ Step("spawn", "idle") \/ Step("spawn", "respawn")
    /\ \E l \in collected : nbs_sc_spawn(current[l])
    /\ UNCHANGED <<procs, sidecar, collected, afaults>>

\* respawn_missing, for the first session that nbs-ts lists: the count of its
\* sidecars filters by a root that is not set yet and is always 0.
RespawnFirst ==
    /\ Step("respawn", "idle")
    /\ \/ \E a \in Launches : Alive(a) /\ nbs_sc_spawn(a)
       \/ (\A a \in Launches : ~ Alive(a)) /\ UNCHANGED <<loops, marker>>
    /\ UNCHANGED <<procs, sidecar, collected, afaults>>

\* For a later session the root is the one of the session before it: a single
\* sidecar with a loop is left alone, an orphan and duplicates are killed,
\* and then, or when there is none, a loop is started.
SidecarsOf(a) == {l \in Loops : sidecar[l] # "off" /\ current[l] = a}

RespawnHealthy ==
    /\ Step("respawn", "idle")
    /\ \E a \in Launches, l \in Loops : Alive(a) /\ SidecarsOf(a) = {l} /\ loop[l] = "wait"
    /\ UNCHANGED <<procs, loops, sidecar, marker, collected, afaults>>

RespawnKills ==
    /\ Step("respawn", "respawn_one")
    /\ \E a \in Launches :
         /\ Alive(a) /\ SidecarsOf(a) # {}
         /\ \A l \in Loops : SidecarsOf(a) = {l} => loop[l] = "ended"
         /\ Killed(SidecarsOf(a)) /\ collected' = SidecarsOf(a)
    /\ UNCHANGED <<procs, loops, afaults>>

RespawnOne ==
    /\ Step("respawn_one", "idle")
    /\ \E l \in collected : nbs_sc_spawn(current[l])
    /\ UNCHANGED <<procs, sidecar, collected, afaults>>

Respawn == RespawnFirst \/ RespawnHealthy \/ RespawnKills \/ RespawnOne

\* nbs-team-kill: loops, sidecars, sessions, PID files, loops again.
TeamKillLoops ==
    /\ Settled /\ Begin("team_sidecars")
    /\ loop' = [l \in Loops |-> "ended"]
    /\ lockfile' = None
    /\ UNCHANGED <<procs, current, named, sidecar, marker, collected, afaults>>

TeamKillSidecars ==
    /\ Step("team_sidecars", "team_sessions")
    /\ Killed(Loops)
    /\ UNCHANGED <<procs, loops, collected, afaults>>

TeamKillSessions ==
    /\ Step("team_sessions", "team_loops")
    /\ session' = [a \in Launches |-> IF session[a] = "none" THEN "none" ELSE "removed"]
    /\ pidfile' = None
    /\ UNCHANGED <<claude, meta, torn, loops, sidecar, marker, collected, afaults>>

TeamKillLoopsAgain ==
    /\ Step("team_loops", "idle")
    /\ loop' = [l \in Loops |-> "ended"]
    /\ UNCHANGED <<procs, current, named, lockfile, sidecar, marker, collected, afaults>>

Script ==
    \/ KickClean \/ ContinueClean \/ KickLaunch \/ Verify \/ KillLoops \/ KillSidecars
    \/ SpawnOne \/ Respawn
    \/ TeamKillSidecars \/ TeamKillSessions \/ TeamKillLoopsAgain
----------------------------------------------------------------------------

\* An agent's program ends, a sidecar or nbs-claude crashes.
SessionDies(a) ==
    /\ Alive(a) /\ AFault
    /\ session' = [session EXCEPT ![a] = "dead"]
    /\ UNCHANGED <<claude, pidfile, meta, torn, loops, sidecar, marker, script>>

SidecarCrashes(l) ==
    /\ sidecar[l] # "off" /\ AFault
    /\ Killed({l})
    /\ UNCHANGED <<procs, loops, script>>

\* nbs-claude is killed, and cleans up nothing.
ClaudeKilled(a) ==
    /\ Stage(a, "poll", "gone") /\ AFault
    /\ UNCHANGED <<session, pidfile, meta, torn, loops, sidecar, marker, script>>

ANext ==
    \/ \E a \in Launches : NbsClaude(a) \/ SessionDies(a) \/ ClaudeKilled(a)
    \/ \E l \in Loops : Loop(l) \/ SidecarStep(l) \/ SidecarCrashes(l)
    \/ FirstLaunch \/ KickSession \/ ContinueKill \/ Collect \/ TeamKillLoops \/ Script

\* Every process runs: a loop, which waits while its sidecar runs, and that
\* sidecar take turns.
AFairness ==
    /\ \A a \in Launches : WF_avars(NbsClaude(a))
    /\ \A l \in Loops : WF_avars(Loop(l) \/ SidecarStep(l))
    /\ WF_avars(Script)
ASpec == AInit /\ [][ANext]_avars /\ AFairness
----------------------------------------------------------------------------

\* Past its launch nbs-claude has its PID file, although an earlier one of
\* the handle cleans up at any later time; only the operator removes it.  The
\* exception is a launch that wrote its PID between the cat and the rm of such
\* a cleanup: its file may go.
OwnPidfile ==
    \A a \in Launches :
        /\ claude[a] \in {"meta", "create", "loop", "poll"}
        /\ \A b \in Launches : b > a => claude[b] = "none"
        /\ op \in {"idle", "verify", "kill_loops", "kill_sidecars", "spawn", "respawn", "respawn_one"}
        /\ Alive(a) /\ a \notin torn
        => pidfile = a

\* When the team is left alone, the agent's live session ends up with exactly one
\* sidecar, and it is attached to a session that lives: duplicates of a
\* check and a write that interleave, of a marker the scripts remove or of a
\* loop that finds the replacement session are resolved by the heartbeats,
\* and an orphan is as good as a child.
Served == Cardinality(Serving) = 1 /\ \A l \in Serving : Alive(current[l])
AgentServed == <>[]((\E a \in Launches : Alive(a)) => Served)
=============================================================================
