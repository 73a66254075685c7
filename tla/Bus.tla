-------------------------------- MODULE Bus ---------------------------------
(***************************************************************************)
(* The nbs-bus event queue: a directory of event files.                    *)
(*                                                                         *)
(* There is no daemon.  Every operation is a process of its own working on *)
(* the directory with rename() and unlink(); only bus_publish_dedup takes  *)
(* a lock, and only against other deduplicating publishers.  A process can *)
(* be killed between any two of its steps.                                 *)
(*                                                                         *)
(* An event file is the record of what its name and its content say.  The  *)
(* pid in the name makes names unique, so an event stands for its file.    *)
(* Every file counts one unit of size.                                     *)
(***************************************************************************)
EXTENDS Naturals, FiniteSets

CONSTANTS
    Procs,          \* slots in which nbs-bus commands run
    Sources,        \* publishing handles
    Types,          \* event types
    Priorities,     \* 0 is critical, 3 is low
    NoProc,         \* the lock is free
    NoEvent,        \* no event in hand
    Commands,       \* the commands issued: "publish", "dedup", "consume",
                    \* "ack-all", "prune"
    WINDOW,         \* dedup window, in clock ticks
    MAX_EVENTS,     \* BUS_MAX_EVENTS, capacity of the fixed scan arrays
    MAX_SIZE,       \* retention limit of processed/, in files
    MaxPublish,     \* bound on the number of publishes
    MaxTime,        \* bound on the clock
    MaxFaults       \* bound on the number of crashes and failed operations

ASSUME BusAssumption ==
    /\ NoProc \notin Procs
    /\ Priorities \subseteq 0 .. 3
    /\ WINDOW \in Nat \ {0}
    /\ MAX_EVENTS \in Nat \ {0}
    /\ MAX_SIZE \in Nat \ {0}
    /\ MaxPublish \in Nat
    /\ MaxTime \in Nat
    /\ MaxFaults \in Nat

VARIABLES
    pending,    \* events in the events directory
    processed,  \* events in processed/
    dlock,      \* holder of .dedup.lock
    now,        \* the microsecond clock
    pc,         \* where each command is
    ev,         \* the event it is publishing or acknowledging
    list,       \* the directory entries it scanned and has still to handle
    size,       \* bus_prune's total_size
    count,      \* number of publishes so far
    faults,     \* number of crashes and failed operations so far
    pruned      \* history: events bus_prune deleted

shared == <<pending, processed, dlock, now, pruned>>
local  == <<pc, ev, list, size>>
vars   == <<pending, processed, dlock, now, pc, ev, list, size, count, faults,
            pruned>>

\* dd tells an event that passed the dedup scan.
Event == [id : Nat, src : Sources, typ : Types, prio : Priorities, ts : Nat,
          dd : BOOLEAN]

ASSUME NoEventAssumption == NoEvent \notin Event

Points == {"idle", "d_lock", "p_stamp", "p_rename", "consume", "c_rename",
           "sweep", "s_rename", "prune"}

TypeOK ==
    /\ pending \in SUBSET Event
    /\ processed \in SUBSET Event
    /\ dlock \in Procs \cup {NoProc}
    /\ now \in Nat
    /\ pc \in [Procs -> Points]
    /\ ev \in [Procs -> Event \cup {NoEvent}]
    /\ list \in [Procs -> SUBSET Event]
    /\ size \in [Procs -> Nat]
    /\ count \in Nat
    /\ faults \in Nat
    /\ pruned \in SUBSET Event

Init ==
    /\ pending = {}
    /\ processed = {}
    /\ dlock = NoProc
    /\ now = 1
    /\ pc = [p \in Procs |-> "idle"]
    /\ ev = [p \in Procs |-> NoEvent]
    /\ list = [p \in Procs |-> {}]
    /\ size = [p \in Procs |-> 0]
    /\ count = 0
    /\ faults = 0
    /\ pruned = {}

Goto(p, point) == pc' = [pc EXCEPT ![p] = point]

\* The process ends; closing its descriptors releases the dedup lock.
Exit(p) ==
    /\ Goto(p, "idle")
    /\ ev' = [ev EXCEPT ![p] = NoEvent]
    /\ list' = [list EXCEPT ![p] = {}]
    /\ size' = [size EXCEPT ![p] = 0]
    /\ dlock' = IF dlock = p THEN NoProc ELSE dlock

-----------------------------------------------------------------------------
(***************************************************************************)
(* bus_publish and bus_publish_dedup.                                      *)
(***************************************************************************)

PublishCall(p, s, t, prio, dedup) ==
    /\ pc[p] = "idle"
    /\ (IF dedup THEN "dedup" ELSE "publish") \in Commands
    /\ count < MaxPublish
    /\ count' = count + 1
    /\ ev' = [ev EXCEPT ![p] = [id |-> count, src |-> s, typ |-> t,
                                prio |-> prio, ts |-> 0, dd |-> FALSE]]
    /\ Goto(p, IF dedup THEN "d_lock" ELSE "p_stamp")
    /\ UNCHANGED <<shared, list, size, faults>>

\* Start of the dedup window, not before the epoch.
Cutoff == IF now > WINDOW THEN now - WINDOW ELSE 0

SameKey(e, f) == e.src = f.src /\ e.typ = f.typ

\* Mutant: an event exactly WINDOW old no longer counts.
DuplicateExclusive(e) == \E f \in pending : f.ts > Cutoff /\ SameKey(e, f)

Duplicate(e) == \E f \in pending : f.ts >= Cutoff /\ SameKey(e, f)

\* A duplicate is dropped with exit code 5; the lock comes and goes.
DedupDrop(p) ==
    /\ pc[p] = "d_lock"
    /\ dlock = NoProc
    /\ Duplicate(ev[p])
    /\ Exit(p)
    /\ UNCHANGED <<pending, processed, now, count, faults, pruned>>

\* Mutant: the lock covers the scan only.
DedupPassUnlocked(p) ==
    /\ pc[p] = "d_lock"
    /\ dlock = NoProc
    /\ ~Duplicate(ev[p])
    /\ ev' = [ev EXCEPT ![p].dd = TRUE]
    /\ Goto(p, "p_stamp")
    /\ UNCHANGED <<shared, list, size, count, faults>>

\* No duplicate: the lock is held until the event is published.
DedupPass(p) ==
    /\ pc[p] = "d_lock"
    /\ dlock = NoProc
    /\ ~Duplicate(ev[p])
    /\ dlock' = p
    /\ ev' = [ev EXCEPT ![p].dd = TRUE]
    /\ Goto(p, "p_stamp")
    /\ UNCHANGED <<pending, processed, now, list, size, count, faults, pruned>>

\* bus_publish takes its timestamp and writes the hidden temporary file.
PublishStamp(p) ==
    /\ pc[p] = "p_stamp"
    /\ ev' = [ev EXCEPT ![p].ts = now]
    /\ Goto(p, "p_rename")
    /\ UNCHANGED <<shared, list, size, count, faults>>

PublishRename(p) ==
    /\ pc[p] = "p_rename"
    /\ pending' = pending \cup {ev[p]}
    /\ Exit(p)
    /\ UNCHANGED <<processed, now, count, faults, pruned>>

-----------------------------------------------------------------------------
(***************************************************************************)
(* bus_check and bus_ack: an agent lists the queue and acknowledges the    *)
(* listed events in the order of the listing.                              *)
(***************************************************************************)

\* event_compare: urgent first, then oldest.
Before(e, f) == e.prio < f.prio \/ (e.prio = f.prio /\ e.ts <= f.ts)

\* Mutant: low-priority events are left out of the listing.
ConsumeCallUrgent(p) ==
    /\ pc[p] = "idle"
    /\ "consume" \in Commands
    /\ pending # {}
    /\ list' = [list EXCEPT ![p] = {e \in pending : e.prio < 3}]
    /\ Goto(p, "consume")
    /\ UNCHANGED <<shared, ev, size, count, faults>>

\* scan_events_dynamic reads every event, whatever their number.
ConsumeCall(p) ==
    /\ pc[p] = "idle"
    /\ "consume" \in Commands
    /\ pending # {}
    /\ list' = [list EXCEPT ![p] = pending]
    /\ Goto(p, "consume")
    /\ UNCHANGED <<shared, ev, size, count, faults>>

\* bus_ack finds the file gone (exit code 3) and the agent goes on; else it
\* goes to rename it.
Ack(p, e, next, here) ==
    /\ list' = [list EXCEPT ![p] = @ \ {e}]
    /\ \/ /\ e \in pending
          /\ ev' = [ev EXCEPT ![p] = e]
          /\ Goto(p, next)
       \/ /\ e \notin pending
          /\ ev' = ev
          /\ Goto(p, here)
    /\ UNCHANGED <<shared, size, count, faults>>

\* Mutant: the file is copied into processed/ although it may have gone.
AckCopy(p, here) ==
    /\ pending' = pending \ {ev[p]}
    /\ processed' = processed \cup {ev[p]}
    /\ ev' = [ev EXCEPT ![p] = NoEvent]
    /\ Goto(p, here)
    /\ UNCHANGED <<dlock, now, list, size, count, faults, pruned>>

\* The rename into processed/ succeeds for whoever comes first.
AckRename(p, here) ==
    /\ IF ev[p] \in pending
       THEN /\ pending' = pending \ {ev[p]}
            /\ processed' = processed \cup {ev[p]}
       ELSE UNCHANGED <<pending, processed>>
    /\ ev' = [ev EXCEPT ![p] = NoEvent]
    /\ Goto(p, here)
    /\ UNCHANGED <<dlock, now, list, size, count, faults, pruned>>

ConsumeAck(p) ==
    /\ pc[p] = "consume"
    /\ \E e \in list[p] :
          /\ \A f \in list[p] : Before(e, f)
          /\ Ack(p, e, "c_rename", "consume")

ConsumeRename(p) == pc[p] = "c_rename" /\ AckRename(p, "consume")

ConsumeEnd(p) ==
    /\ pc[p] = "consume"
    /\ list[p] = {}
    /\ Exit(p)
    /\ UNCHANGED <<pending, processed, now, count, faults, pruned>>

-----------------------------------------------------------------------------
(***************************************************************************)
(* bus_ack_all: a scan of at most MAX_EVENTS files in directory order,     *)
(* filtered by publishing handle, then bus_ack on each.                    *)
(***************************************************************************)

\* What a scan into an array of MAX_EVENTS entries can find in directory d.
Scans(d) == IF Cardinality(d) <= MAX_EVENTS THEN {d}
            ELSE {s \in SUBSET d : Cardinality(s) = MAX_EVENTS}

\* sources is every handle when no --handle is given.
AckAllCall(p, sources) ==
    /\ pc[p] = "idle"
    /\ "ack-all" \in Commands
    /\ pending # {}
    /\ \E s \in Scans(pending) :
          list' = [list EXCEPT ![p] = {e \in s : e.src \in sources}]
    /\ Goto(p, "sweep")
    /\ UNCHANGED <<shared, ev, size, count, faults>>

AckAllOne(p) ==
    /\ pc[p] = "sweep"
    /\ \E e \in list[p] : Ack(p, e, "s_rename", "sweep")

AckAllRename(p) == pc[p] = "s_rename" /\ AckRename(p, "sweep")

AckAllEnd(p) ==
    /\ pc[p] = "sweep"
    /\ list[p] = {}
    /\ Exit(p)
    /\ UNCHANGED <<pending, processed, now, count, faults, pruned>>

-----------------------------------------------------------------------------
(***************************************************************************)
(* bus_prune: the oldest of the files scanned go until total_size is down  *)
(* to the limit.                                                           *)
(***************************************************************************)

PruneCall(p) ==
    /\ pc[p] = "idle"
    /\ "prune" \in Commands
    /\ \E s \in Scans(processed) :
          /\ Cardinality(s) > MAX_SIZE
          /\ list' = [list EXCEPT ![p] = s]
          /\ size' = [size EXCEPT ![p] = Cardinality(s)]
    /\ Goto(p, "prune")
    /\ UNCHANGED <<shared, ev, count, faults>>

\* A file that is already gone is not subtracted from total_size.
PruneOne(p) ==
    /\ pc[p] = "prune"
    /\ size[p] > MAX_SIZE
    /\ \E e \in list[p] :
          /\ \A f \in list[p] : e.ts <= f.ts
          /\ list' = [list EXCEPT ![p] = @ \ {e}]
          /\ IF e \in processed
             THEN /\ processed' = processed \ {e}
                  /\ pruned' = pruned \cup {e}
                  /\ size' = [size EXCEPT ![p] = @ - 1]
             ELSE UNCHANGED <<processed, pruned, size>>
    /\ UNCHANGED <<pending, dlock, now, pc, ev, count, faults>>

PruneEnd(p) ==
    /\ pc[p] = "prune"
    /\ size[p] <= MAX_SIZE \/ list[p] = {}
    /\ Exit(p)
    /\ UNCHANGED <<pending, processed, now, count, faults, pruned>>

-----------------------------------------------------------------------------
Tick ==
    /\ now < MaxTime
    /\ now' = now + 1
    /\ UNCHANGED <<pending, processed, dlock, local, count, faults, pruned>>

Fault == faults < MaxFaults /\ faults' = faults + 1

\* The lock file cannot be opened or locked: publish without dedup.
DedupLockFail(p) ==
    /\ pc[p] = "d_lock"
    /\ Fault
    /\ Goto(p, "p_stamp")
    /\ UNCHANGED <<shared, ev, list, size, count>>

\* bus_ack fails on a file that is there; the caller goes on to the next.
AckFail(p) ==
    /\ pc[p] \in {"c_rename", "s_rename"}
    /\ Fault
    /\ ev' = [ev EXCEPT ![p] = NoEvent]
    /\ Goto(p, IF pc[p] = "c_rename" THEN "consume" ELSE "sweep")
    /\ UNCHANGED <<shared, list, size, count>>

\* The process is killed, or gives up on an error: what it renamed stays.
Crash(p) ==
    /\ pc[p] # "idle"
    /\ Fault
    /\ Exit(p)
    /\ UNCHANGED <<pending, processed, now, count, pruned>>

Call(p) ==
    \/ \E s \in Sources, t \in Types, prio \in Priorities, dd \in BOOLEAN :
          PublishCall(p, s, t, prio, dd)
    \/ \E sources \in {Sources} \cup {{s} : s \in Sources} :
          AckAllCall(p, sources)
    \/ PruneCall(p)

Step(p) ==
    \/ DedupDrop(p) \/ DedupPass(p) \/ PublishStamp(p) \/ PublishRename(p)
    \/ ConsumeAck(p) \/ ConsumeRename(p) \/ ConsumeEnd(p)
    \/ AckAllOne(p) \/ AckAllRename(p) \/ AckAllEnd(p)
    \/ PruneOne(p) \/ PruneEnd(p)

Next ==
    \/ Tick
    \/ \E p \in Procs : \/ Call(p) \/ ConsumeCall(p) \/ Step(p)
                        \/ DedupLockFail(p) \/ AckFail(p) \/ Crash(p)

Spec == Init /\ [][Next]_vars

\* Running commands go on, a publisher waiting for the dedup lock gets it if
\* it keeps coming free, and there is always again an agent that checks.
FairSpec ==
    /\ Spec
    /\ \A p \in Procs : SF_vars(Step(p))
    /\ \A p \in Procs : SF_vars(ConsumeCall(p))

-----------------------------------------------------------------------------
(***************************************************************************)
(* Properties.                                                             *)
(***************************************************************************)

\* Commands that have an event not yet in the queue, and those whose event has
\* passed the dedup scan.
Publishing(p) == pc[p] \in {"d_lock", "p_stamp", "p_rename"}
Passed(p)     == pc[p] \in {"p_stamp", "p_rename"} /\ ev[p].dd

Known == pending \cup processed \cup pruned

\* The dedup lock is held from the scan to the rename.
LockInv == \A p \in Procs : dlock = p <=> Passed(p)

\* No event counts as deduplicated before the scan.
PlainInv == \A p \in Procs : pc[p] = "d_lock" => ev[p].dd = FALSE

\* Scans count files.
FiniteInv == IsFiniteSet(Known)

\* An event not yet in the queue differs from every other.
FreshInv ==
    /\ \A e \in Known : e.id < count
    /\ \A p \in Procs : Publishing(p) =>
          /\ ev[p] \in Event
          /\ ev[p].id < count
          /\ \A e \in Known : e.id # ev[p].id
          /\ \A q \in Procs : Publishing(q) /\ q # p => ev[q].id # ev[p].id

\* The clock is not behind any stamp, and an event that passed the scan is
\* more than the window later than every pending one of its key.
WindowInv ==
    /\ \A e \in pending : e.ts <= now
    /\ \A p \in Procs : pc[p] = "p_rename" => ev[p].ts <= now
    /\ \A p \in Procs : Passed(p) =>
          \A f \in pending : f.dd /\ SameKey(ev[p], f) =>
              f.ts + WINDOW < IF pc[p] = "p_stamp" THEN now ELSE ev[p].ts

\* Seen from the outside an event is published once, acknowledged at most
\* once and deleted at most once, in that order, and every file is in exactly
\* one place, however the commands interleave and wherever they are killed.
Queue == INSTANCE BusQueue WITH gone <- pruned

QueueSpec == Queue!Spec

\* Two pending events of one key that both passed the dedup scan are more
\* than the window apart: the lock closes the gap between scan and rename.
DedupWindow ==
    \A e, f \in pending :
        e.dd /\ f.dd /\ SameKey(e, f) /\ e.id # f.id
            => e.ts + WINDOW < f.ts \/ f.ts + WINDOW < e.ts

\* The inductive invariant behind DedupWindow and QueueSpec.
IInv ==
    /\ TypeOK
    /\ LockInv
    /\ PlainInv
    /\ FiniteInv
    /\ FreshInv
    /\ WindowInv
    /\ DedupWindow

\* Every event put in the queue is acknowledged eventually, whatever else is
\* in the queue and whoever else acknowledges.
EveryEventConsumed ==
    \A i \in 0 .. MaxPublish :
        (\E e \in pending : e.id = i) ~> (\A e \in pending : e.id # i)

=============================================================================
