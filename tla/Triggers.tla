------------------------------ MODULE Triggers ------------------------------
(***************************************************************************)
(* The periodic triggers of nbs-sidecar, for one oracle role: every        *)
(* sidecar of the team looks at the same timestamp file once a minute and  *)
(* one of them starts the worker.                                          *)
(*                                                                         *)
(* Time is counted in ticks and begins at INTERVAL, so that no seed is 0,  *)
(* the value read_last_run gives for a missing file.                       *)
(***************************************************************************)
EXTENDS Naturals

CONSTANTS
    Sidecars,
    INTERVAL,       \* the interval of the role
    FIRST_DELAY,    \* first_delay_secs
    RECHECK,        \* the 120 seconds of trigger_periodic_spawn
    LAG,            \* ticks between the read of a missing file and its seed, at most
    MaxTime,        \* bound on the clock
    MaxTriggerFaults \* bound on killed sidecars, failed writes and restarts

ASSUME TriggersAssumption ==
    /\ {INTERVAL, FIRST_DELAY, RECHECK, LAG, MaxTime, MaxTriggerFaults} \subseteq Nat
    /\ 0 < RECHECK /\ RECHECK =< FIRST_DELAY /\ FIRST_DELAY =< INTERVAL
    /\ 0 < LAG /\ 2 * LAG < FIRST_DELAY
    /\ "free" \notin Sidecars

VARIABLES
    now,
    stamp,      \* the timestamp file, 0 when it is missing
    holder,     \* who holds the fcntl lock of the role, or "free"
    step,       \* where each sidecar is in trigger_periodic_check
    read,       \* the time at which it read the timestamp
    claimed,    \* the last time that was written under the lock, 0 if none (history)
    tfaults

tvars == <<now, stamp, holder, step, read, claimed, tfaults>>

Steps == {"idle", "seed", "try", "recheck", "claim", "spawn"}

TInit ==
    /\ now = INTERVAL
    /\ stamp = 0 /\ holder = "free"
    /\ step = [s \in Sidecars |-> "idle"]
    /\ read = [s \in Sidecars |-> 0]
    /\ claimed = 0
    /\ tfaults = 0

TFault == tfaults < MaxTriggerFaults /\ tfaults' = tfaults + 1
Goes(s, p) == step' = [step EXCEPT ![s] = p]
Elapsed(t) == now - stamp >= t

\* trigger_periodic_check: the file is read without the lock.  A missing one
\* is seeded in the next step; before the interval is over nothing happens.
trigger_periodic_check(s) ==
    /\ step[s] = "idle"
    /\ stamp = 0 \/ Elapsed(INTERVAL)
    /\ Goes(s, IF stamp = 0 THEN "seed" ELSE "try")
    /\ read' = [read EXCEPT ![s] = now]
    /\ UNCHANGED <<now, stamp, holder, claimed, tfaults>>

\* Mutant: the first run counts as a run that was long ago.
SeedPast(s) ==
    /\ step[s] = "seed"
    /\ stamp' = read[s] + 1 - INTERVAL
    /\ Goes(s, "idle")
    /\ UNCHANGED <<now, holder, read, claimed, tfaults>>

\* The seed lets the first run happen FIRST_DELAY after the read.
Seed(s) ==
    /\ step[s] = "seed"
    /\ stamp' = read[s] + FIRST_DELAY - INTERVAL
    /\ Goes(s, "idle")
    /\ UNCHANGED <<now, holder, read, claimed, tfaults>>

\* F_SETLK does not wait: a busy lock means that another sidecar won.
TryLock(s) ==
    /\ step[s] = "try"
    /\ IF holder = "free" THEN holder' = s /\ Goes(s, "recheck")
                          ELSE Goes(s, "idle") /\ UNCHANGED holder
    /\ UNCHANGED <<now, stamp, read, claimed, tfaults>>

\* Mutant: the timestamp is not read again under the lock.
RecheckNothing(s) ==
    /\ step[s] = "recheck"
    /\ Goes(s, "claim")
    /\ UNCHANGED <<now, stamp, holder, read, claimed, tfaults>>

\* Mutant: the early return keeps the lock.
RecheckKeepsLock(s) ==
    /\ step[s] = "recheck"
    /\ IF stamp > 0 /\ ~ Elapsed(RECHECK) THEN Goes(s, "idle") ELSE Goes(s, "claim")
    /\ UNCHANGED <<now, stamp, holder, read, claimed, tfaults>>

\* Under the lock the timestamp is read again, and a run in the last RECHECK
\* ticks is left alone.
Recheck(s) ==
    /\ step[s] = "recheck"
    /\ IF stamp > 0 /\ ~ Elapsed(RECHECK)
       THEN Goes(s, "idle") /\ holder' = "free"
       ELSE Goes(s, "claim") /\ UNCHANGED holder
    /\ UNCHANGED <<now, stamp, read, claimed, tfaults>>

\* worker_session_active: a session with the name of a worker of the role
\* is alive.  The launch scripts use other names, so that it takes a session
\* that somebody created by hand.
WorkerSessionActive(s) ==
    /\ step[s] = "claim"
    /\ TFault
    /\ Goes(s, "idle") /\ holder' = "free"
    /\ UNCHANGED <<now, stamp, read, claimed>>

\* write_last_run renames a temporary file.  A failure is not reported and
\* the worker is started all the same.
Claim(s) ==
    /\ step[s] = "claim"
    /\ Goes(s, "spawn")
    /\ stamp' = now /\ claimed' = now
    /\ UNCHANGED <<now, holder, read, tfaults>>

ClaimFails(s) ==
    /\ step[s] = "claim"
    /\ TFault
    /\ Goes(s, "spawn")
    /\ UNCHANGED <<now, stamp, holder, read, claimed>>

\* nbs-workers spawn is run, with success or without, and the lock is
\* released.
Spawn(s) ==
    /\ step[s] = "spawn"
    /\ Goes(s, "idle") /\ holder' = "free"
    /\ UNCHANGED <<now, stamp, read, claimed, tfaults>>

\* A killed sidecar loses the lock and is started again by its loop.
KillSidecar(s) ==
    /\ step[s] # "idle"
    /\ TFault
    /\ Goes(s, "idle")
    /\ holder' = IF holder = s THEN "free" ELSE holder
    /\ UNCHANGED <<now, stamp, read, claimed>>

\* nbs-chat-terminal-restart.sh kills every sidecar and removes the
\* timestamps, so that the first delay counts again.
RestartTeam ==
    /\ TFault
    /\ step' = [s \in Sidecars |-> "idle"]
    /\ holder' = "free" /\ stamp' = 0
    /\ UNCHANGED <<now, read, claimed>>

\* A sidecar is not held up for longer than LAG before it writes a seed.
TTick ==
    /\ now < MaxTime
    /\ \A s \in Sidecars : step[s] = "seed" => now < read[s] + LAG
    /\ now' = now + 1
    /\ UNCHANGED <<stamp, holder, step, read, claimed, tfaults>>

Check(s) ==
    \/ trigger_periodic_check(s) \/ Seed(s) \/ TryLock(s) \/ Recheck(s)
    \/ Claim(s) \/ Spawn(s)

TNext ==
    \/ \E s \in Sidecars :
         \/ Check(s)
         \/ WorkerSessionActive(s) \/ ClaimFails(s) \/ KillSidecar(s)
    \/ RestartTeam \/ TTick

TFairness == \A s \in Sidecars : WF_tvars(Check(s))
TSpec == TInit /\ [][TNext]_tvars /\ TFairness
----------------------------------------------------------------------------

TTypeOK ==
    /\ now \in Nat /\ stamp \in Nat /\ claimed \in Nat /\ tfaults \in Nat
    /\ holder \in Sidecars \cup {"free"}
    /\ step \in [Sidecars -> Steps]
    /\ read \in [Sidecars -> Nat]

\* The inductive invariant.  The lock has its holder between try and idle;
\* times lie in the past; whoever passed the check under the lock may claim;
\* a seed that is still to be written is recent, no run was claimed since it
\* was read, and until it is written nobody finds the interval over.
LockHeld == \A s \in Sidecars : step[s] \in {"recheck", "claim", "spawn"} <=> holder = s
Past == claimed =< now /\ stamp =< now /\ INTERVAL =< now /\ \A s \in Sidecars : read[s] =< now
Due(t) == claimed = 0 \/ t >= claimed + RECHECK
StampKept == stamp = 0 \/ stamp = claimed \/ Due(stamp + INTERVAL)
Rechecked ==
    \A s \in Sidecars :
        /\ step[s] \in {"try", "recheck"} => stamp = claimed \/ now >= stamp + INTERVAL
        /\ step[s] = "claim" => Due(now)
        /\ stamp = 0 => step[s] \in {"idle", "seed"}
SeedSoon ==
    \A s \in Sidecars : step[s] = "seed" =>
        /\ now =< read[s] + LAG /\ claimed =< read[s] /\ INTERVAL =< read[s]
        /\ stamp = 0 \/ stamp + INTERVAL + LAG >= read[s] + FIRST_DELAY
        /\ \A r \in Sidecars : step[r] \in {"idle", "seed"}
TInv == TTypeOK /\ LockHeld /\ Past /\ Rechecked /\ StampKept /\ SeedSoon

\* "The first winner writes the timestamp; subsequent winners must re-read
\* and bail": however many sidecars find the interval over at once, and
\* whatever is killed or restarted, two recorded runs of an oracle lie at
\* least RECHECK apart.
ClaimsApart == [][claimed' # claimed /\ claimed # 0 => claimed' >= claimed + RECHECK]_tvars

\* A due oracle is claimed by somebody as long as sidecars run, although the
\* lock is not waited for.
DueTriggerFires == (stamp > 0 /\ Elapsed(INTERVAL)) ~> (stamp = 0 \/ ~ Elapsed(INTERVAL))
=============================================================================
