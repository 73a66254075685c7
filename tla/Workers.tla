------------------------------- MODULE Workers ------------------------------
(***************************************************************************)
(* The life of a worker: nbs-workers spawn, status and dismiss, the script *)
(* nbs-spawn-worker that launches the agent and leaves a monitor behind,   *)
(* and nbs-oracle-reaper.                                                  *)
(*                                                                         *)
(* A launch is known under two names.  nbs-workers makes up <slug>-<4hex>  *)
(* and a task file of that name; the script makes up <slug>-<8hex>, wraps  *)
(* the first task file into a second one, and starts nbs-claude under the  *)
(* second name.  The agent itself (what it writes, when it stops) and the  *)
(* terminal session it runs in are outside these programs.                 *)
(***************************************************************************)
EXTENDS Naturals, FiniteSets

CONSTANTS
    Procs,          \* slots in which nbs-workers commands run
    Tasks,          \* launches 1 .. n
    Direct,         \* the launches that call the script without nbs-workers
    Roles,          \* slugs
    OracleRoles,    \* ORACLE_ROLES of nbs-oracle-reaper
    POLLS,          \* polls of the monitor before it gives up on the worker
    MaxFaults       \* bound on the number of killed or failing commands

ASSUME WorkersAssumption ==
    /\ OracleRoles \subseteq Roles
    /\ Tasks \subseteq Nat
    /\ Direct \subseteq Tasks
    /\ POLLS \in Nat \ {0}
    /\ MaxFaults \in Nat

VARIABLES
    role,       \* slug of each launch
    task,       \* State of the task file of nbs-workers
    stamped,    \* its Completed field is filled in
    wrapped,    \* State in the copy that the script's task file wraps
    own,        \* State of the script's task file itself
    sess,       \* the agent's terminal session
    due,        \* the session is older than ORACLE_TIMEOUT, or its role posted
                \* to the chat since the session started
    mon,        \* where the monitor of each launch is
    target,     \* the launches whose session it discovered
    polls,      \* its polls so far
    pc,         \* where each nbs-workers command is
    arg,        \* the launch it works on, 0 if none
    alive,      \* what it found out about the session
    event,      \* the last bus event published
    faults

taskfiles == <<task, stamped, wrapped, own>>
agent == <<sess, due>>
monitor == <<mon, target, polls>>
command == <<pc, arg, alive>>
vars  == <<role, taskfiles, agent, monitor, command, event, faults>>

\* completed, done, failed and escalated, which the monitor handles alike.
Final  == {"final"}
States == {"none", "running", "dismissed"} \cup Final

Init ==
    /\ role = [i \in Tasks |-> "none"]
    /\ task = [i \in Tasks |-> "none"]
    /\ stamped = [i \in Tasks |-> FALSE]
    /\ wrapped = [i \in Tasks |-> "none"]
    /\ own = [i \in Tasks |-> "none"]
    /\ sess = [i \in Tasks |-> "none"]
    /\ due = [i \in Tasks |-> FALSE]
    /\ mon = [i \in Tasks |-> "none"]
    /\ target = [i \in Tasks |-> {}]
    /\ polls = [i \in Tasks |-> 0]
    /\ pc = [p \in Procs |-> "idle"]
    /\ arg = [p \in Procs |-> 0]
    /\ alive = [p \in Procs |-> FALSE]
    /\ event = <<"none", 0>>
    /\ faults = 0

\* A session name: nbs-<slug>-worker-<4hex> is what build_session_name makes of
\* a worker name, nbs-<slug>-<8hex>-<tag> is what nbs-claude makes of its
\* handle.  Random suffixes are taken to be distinct.
SessionName(i) == [slug |-> role[i], suffix |-> i, form |-> "agent"]
LookupName(i)  == [slug |-> role[i], suffix |-> i, form |-> "worker"]

\* nbs-ts find, then nbs-ts status.
HasNamedSession(n) == {i \in Tasks : sess[i] = "alive" /\ SessionName(i) = n}

\* generate_name: no launch has the suffix yet.
Fresh(i) == role[i] = "none"

\* The State line of a task file of nbs-workers.
get_state_field(i) == IF task[i] = "none" THEN "not found" ELSE task[i]

\* A field of a task file gets a value, if the file is there.  The file is
\* read and renamed in one step: whoever else rewrites it sets the same values.
update_field_in_file(field, i, value) ==
    [field EXCEPT ![i] = IF task[i] = "none" THEN @ ELSE value]

Goto(p, point) == pc' = [pc EXCEPT ![p] = point]

Finish(p) ==
    /\ Goto(p, "idle")
    /\ arg' = [arg EXCEPT ![p] = 0]
    /\ alive' = [alive EXCEPT ![p] = FALSE]

-----------------------------------------------------------------------------
(***************************************************************************)
(* nbs-workers spawn, and the script used on its own.                      *)
(***************************************************************************)

SpawnFile(p, i, r) ==
    /\ pc[p] = "idle"
    /\ i \notin Direct
    /\ Fresh(i)
    /\ role' = [role EXCEPT ![i] = r]
    /\ task' = [task EXCEPT ![i] = "running"]
    /\ arg' = [arg EXCEPT ![p] = i]
    /\ Goto(p, "launch")
    /\ UNCHANGED <<stamped, wrapped, own, agent, monitor, alive, event, faults>>

\* nbs-spawn-worker: the second task file, the agent, the monitor.
StartSession(i, inside) ==
    /\ wrapped' = [wrapped EXCEPT ![i] = inside]
    /\ own' = [own EXCEPT ![i] = "running"]
    /\ sess' = [sess EXCEPT ![i] = "starting"]
    /\ mon' = [mon EXCEPT ![i] = "wait"]
    /\ UNCHANGED <<stamped, due, target, polls, faults>>

SpawnLaunch(p) ==
    /\ pc[p] = "launch"
    /\ StartSession(arg[p], task[arg[p]])
    /\ event' = <<"spawned", arg[p]>>
    /\ Finish(p)
    /\ UNCHANGED <<role, task>>

\* The skill file of a direct call has no State line.
SpawnDirect(i, r) ==
    /\ i \in Direct
    /\ Fresh(i)
    /\ role' = [role EXCEPT ![i] = r]
    /\ StartSession(i, "none")
    /\ UNCHANGED <<task, command, event>>

-----------------------------------------------------------------------------
(***************************************************************************)
(* The agent.                                                              *)
(***************************************************************************)

AgentStart(i) ==
    /\ sess[i] = "starting"
    /\ sess' = [sess EXCEPT ![i] = "alive"]
    /\ UNCHANGED <<role, taskfiles, due, monitor, command, event, faults>>

AgentStop(i) ==
    /\ sess[i] \in {"starting", "alive"}
    /\ sess' = [sess EXCEPT ![i] = "dead"]
    /\ UNCHANGED <<role, taskfiles, due, monitor, command, event, faults>>

\* The agent edits the Status section of its task file, or the one in the
\* wrapped copy above it.
AgentReport(i, s) ==
    /\ sess[i] = "alive"
    /\ \/ own[i] = "running" /\ own' = [own EXCEPT ![i] = s] /\ wrapped' = wrapped
       \/ wrapped[i] = "running" /\ wrapped' = [wrapped EXCEPT ![i] = s] /\ own' = own
    /\ UNCHANGED <<role, task, stamped, agent, monitor, command, event, faults>>

AgentPost(i) ==
    /\ sess[i] = "alive"
    /\ due' = [j \in Tasks |-> due[j] \/ (sess[j] = "alive" /\ role[j] = role[i])]
    /\ UNCHANGED <<role, taskfiles, sess, monitor, command, event, faults>>

Age(i) ==
    /\ sess[i] = "alive"
    /\ ~due[i]
    /\ due' = [due EXCEPT ![i] = TRUE]
    /\ UNCHANGED <<role, taskfiles, sess, monitor, command, event, faults>>

-----------------------------------------------------------------------------
(***************************************************************************)
(* The monitor of nbs-spawn-worker, and nbs-oracle-reaper.                 *)
(***************************************************************************)

\* Mutant: discovery by role, as in a name shared by all launches of a role.
MatchingRole(i) == {j \in Tasks : sess[j] = "alive" /\ role[j] = role[i]}

\* nbs-ts list | grep nbs-<handle> | grep alive.
Matching(i) == {j \in Tasks : sess[j] = "alive" /\ SessionName(j) = SessionName(i)}

\* Whatever matched first, the monitor stays with it; without a match it ends.
MonitorDiscover(i) ==
    /\ mon[i] = "wait"
    /\ \/ \E j \in Matching(i) : /\ target' = [target EXCEPT ![i] = {j}]
                                 /\ mon' = [mon EXCEPT ![i] = "poll"]
       \/ /\ Matching(i) = {}
          /\ mon' = [mon EXCEPT ![i] = "gone"]
          /\ target' = target
    /\ UNCHANGED <<role, taskfiles, agent, polls, command, event, faults>>

\* grep -m1 '^State:' finds the first State line of the file.
FirstState(i) == IF wrapped[i] # "none" THEN wrapped[i] ELSE own[i]

TargetAlive(i) == \E j \in target[i] : sess[j] = "alive"

Kill(S) == sess' = [j \in Tasks |-> IF j \in S THEN "dead" ELSE sess[j]]

MonitorEnd(i) ==
    /\ mon' = [mon EXCEPT ![i] = "gone"]
    /\ UNCHANGED <<role, taskfiles, due, target, polls, command, event, faults>>

MonitorPoll(i) ==
    /\ mon[i] = "poll"
    /\ polls[i] < POLLS
    /\ \/ ~TargetAlive(i) /\ MonitorEnd(i) /\ sess' = sess
       \/ TargetAlive(i) /\ FirstState(i) \in Final /\ MonitorEnd(i) /\ Kill(target[i])
       \/ /\ TargetAlive(i)
          /\ FirstState(i) \notin Final
          /\ polls' = [polls EXCEPT ![i] = @ + 1]
          /\ UNCHANGED <<role, taskfiles, agent, mon, target, command, event, faults>>

\* Mutant: the monitor gives up without killing the session.
MonitorTimeoutLeaves(i) ==
    /\ mon[i] = "poll"
    /\ polls[i] = POLLS
    /\ MonitorEnd(i)
    /\ sess' = sess

MonitorTimeout(i) ==
    /\ mon[i] = "poll"
    /\ polls[i] = POLLS
    /\ MonitorEnd(i)
    /\ Kill(target[i])

\* One session of one round of the reaper.
Reap(i) ==
    /\ sess[i] = "alive"
    /\ role[i] \in OracleRoles
    /\ due[i]
    /\ Kill({i})
    /\ UNCHANGED <<role, taskfiles, due, monitor, command, event, faults>>

-----------------------------------------------------------------------------
(***************************************************************************)
(* nbs-workers status and dismiss.  Only names of nbs-workers itself pass  *)
(* validate_worker_name.                                                   *)
(***************************************************************************)

StatusCall(p, i) ==
    /\ pc[p] = "idle"
    /\ task[i] # "none"
    /\ arg' = [arg EXCEPT ![p] = i]
    /\ alive' = [alive EXCEPT ![p] = HasNamedSession(LookupName(i)) # {}]
    /\ Goto(p, "report")
    /\ UNCHANGED <<role, taskfiles, agent, monitor, event, faults>>

\* Session dead and state running is reported as died.
StatusReport(p) ==
    /\ pc[p] = "report"
    /\ event' = IF ~alive[p] /\ get_state_field(arg[p]) = "running"
                THEN <<"died", arg[p]>> ELSE event
    /\ Finish(p)
    /\ UNCHANGED <<role, taskfiles, agent, monitor, faults>>

DismissCall(p, i) ==
    /\ pc[p] = "idle"
    /\ task[i] # "none"
    /\ arg' = [arg EXCEPT ![p] = i]
    /\ Goto(p, "kill")
    /\ UNCHANGED <<role, taskfiles, agent, monitor, alive, event, faults>>

DismissKill(p) ==
    /\ pc[p] = "kill"
    /\ Kill(HasNamedSession(LookupName(arg[p])))
    /\ Goto(p, "state")
    /\ UNCHANGED <<role, taskfiles, due, monitor, arg, alive, event, faults>>

DismissState(p) ==
    /\ pc[p] = "state"
    /\ task' = update_field_in_file(task, arg[p], "dismissed")
    /\ Goto(p, "stamp")
    /\ UNCHANGED <<role, stamped, wrapped, own, agent, monitor, arg, alive, event,
                   faults>>

DismissStamp(p) ==
    /\ pc[p] = "stamp"
    /\ stamped' = update_field_in_file(stamped, arg[p], TRUE)
    /\ event' = <<"dismissed", arg[p]>>
    /\ Finish(p)
    /\ UNCHANGED <<role, task, wrapped, own, agent, monitor, faults>>

-----------------------------------------------------------------------------
Fault == faults < MaxFaults /\ faults' = faults + 1

\* nbs-claude is not there (the task file is removed again), or the script
\* fails before it writes its own (the task file stays).
SpawnFail(p) ==
    /\ pc[p] = "launch"
    /\ Fault
    /\ \/ task' = [task EXCEPT ![arg[p]] = "none"]
       \/ task' = task
    /\ Finish(p)
    /\ UNCHANGED <<role, stamped, wrapped, own, agent, monitor, event>>

\* A command is killed between two of its steps.
Crash(p) ==
    /\ pc[p] # "idle"
    /\ Fault
    /\ Finish(p)
    /\ UNCHANGED <<role, taskfiles, agent, monitor, event>>

Agent(i) ==
    \/ AgentStart(i) \/ AgentStop(i) \/ AgentPost(i) \/ Age(i)
    \/ \E s \in Final : AgentReport(i, s)

Watch(i) == MonitorDiscover(i) \/ MonitorPoll(i) \/ MonitorTimeout(i)

Cli(p) ==
    \/ SpawnLaunch(p) \/ StatusReport(p)
    \/ DismissKill(p) \/ DismissState(p) \/ DismissStamp(p)

Next ==
    \/ \E i \in Tasks : \/ Agent(i) \/ Watch(i) \/ Reap(i)
                          \/ \E r \in Roles : SpawnDirect(i, r)
    \/ \E p \in Procs : \/ Cli(p) \/ SpawnFail(p) \/ Crash(p)
                       \/ \E i \in Tasks : \/ StatusCall(p, i)
                                             \/ DismissCall(p, i)
                                             \/ \E r \in Roles : SpawnFile(p, i, r)

\* The monitors keep polling; agents, commands and the reaper may stop.
Spec == Init /\ [][Next]_vars /\ \A i \in Tasks : WF_vars(Watch(i))

-----------------------------------------------------------------------------
(***************************************************************************)
(* Properties.                                                             *)
(***************************************************************************)

\* The comment in nbs-spawn-worker: the unique handle "prevents monitors from
\* different launches killing each other's sessions".  A session that a
\* monitor ends belongs to a launch whose own file reports a final state or
\* whose own polls are over, whichever sessions of the role come and go.
MonitorKillsOwn ==
    [][\A i \in Tasks : Watch(i) =>
          \A j \in Tasks : sess[j] = "alive" /\ sess'[j] = "dead" =>
              FirstState(j) \in Final \/ polls[j] = POLLS]_vars

\* A worker whose monitor has found its session does not run for ever, even
\* if it never reports and nobody dismisses it.
WatchedWorkerEnds ==
    \A i \in Tasks : mon[i] = "poll" ~> sess[i] = "dead"
=============================================================================
