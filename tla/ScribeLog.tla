----------------------------- MODULE ScribeLog ------------------------------
(***************************************************************************)
(* The decision log: nbs-scribe-log appends one decision under a lock,     *)
(* moves the oldest decisions to an archive file when there are too many,  *)
(* and announces the decision on the bus after it has unlocked.            *)
(*                                                                         *)
(* The log is a header and a sequence of blocks.  A block is the text of   *)
(* one append; `heading' says that its line "### D-<time>" got into the    *)
(* file, `whole' that all of it did.  An archive is named after the second *)
(* in which it is written.                                                 *)
(***************************************************************************)
EXTENDS Naturals, Sequences, FiniteSets

CONSTANTS
    Scribes,                    \* processes that run nbs-scribe-log
    SCRIBE_ARCHIVE_THRESHOLD,
    SCRIBE_ARCHIVE_CLEAVE,
    MaxDecisions,               \* bound on the number of commands
    MaxSecond,                  \* bound on the clock
    PerSecond,                  \* appends in one second
    MaxScribeFaults             \* bound on killed and failing commands

Nobody == 0     \* the lock is free

\* A second archive of one second replaces the first.  It comes after a cleave
\* of decisions, less those that failed archives and torn appends have left in
\* the log: these and the appends of a second are fewer than a cleave.
ASSUME ScribeAssumption ==
    /\ Nobody \notin Scribes
    /\ SCRIBE_ARCHIVE_CLEAVE \in Nat \ {0}
    /\ SCRIBE_ARCHIVE_THRESHOLD \in Nat
    /\ SCRIBE_ARCHIVE_CLEAVE =< SCRIBE_ARCHIVE_THRESHOLD
    /\ MaxDecisions \in Nat /\ MaxSecond \in Nat
    /\ MaxScribeFaults \in Nat /\ PerSecond \in Nat
    /\ PerSecond + MaxScribeFaults < SCRIBE_ARCHIVE_CLEAVE

VARIABLES
    header,     \* "absent", "torn" or "whole"
    counted,    \* its "Decision count"
    blocks,     \* the rest of the log
    archives,   \* the blocks of the archive of each second
    loglock,    \* who holds <log>.lock
    at,         \* the next step of each process
    decision,   \* the decision it logs
    content,    \* the blocks it read for the archive
    second,     \* the clock
    rate,       \* appends in this second, torn ones included
    called,     \* commands so far
    logged,     \* decisions whose append has been closed without an error
    announced,  \* decisions published on the bus
    scribefaults

disk == <<header, counted, blocks, archives>>
clock == <<second, rate>>
scribevars == <<disk, loglock, at, decision, content, clock, called, logged,
                announced, scribefaults>>

ScribeInit ==
    /\ header = "absent" /\ counted = 0 /\ blocks = <<>>
    /\ archives = [s \in 0 .. MaxSecond |-> <<>>]
    /\ loglock = Nobody
    /\ at = [w \in Scribes |-> "idle"]
    /\ decision = [w \in Scribes |-> 0]
    /\ content = [w \in Scribes |-> <<>>]
    /\ second = 0 /\ rate = 0 /\ called = 0
    /\ logged = {} /\ announced = {}
    /\ scribefaults = 0

To(w, point) == at' = [at EXCEPT ![w] = point]
From(w, here, there) == at[w] = here /\ To(w, there)

\* The process ends, and with it its hold on the lock.
ScribeEnds(w) ==
    /\ To(w, "idle")
    /\ decision' = [decision EXCEPT ![w] = 0]
    /\ content' = [content EXCEPT ![w] = <<>>]
    /\ loglock' = IF loglock = w THEN Nobody ELSE loglock

ScribeFault == scribefaults < MaxScribeFaults /\ scribefaults' = scribefaults + 1

-----------------------------------------------------------------------------
(* The arguments. *)

\* What was given: the required fields, whether one of the fields has a
\* newline in it or is longer than its buffer, and whether the fields, each
\* within its own bound, exceed SCRIBE_MAX_ENTRY together.
Arguments ==
    [fields : {{"summary", "participants", "rationale"}, {"summary", "rationale"}},
     newline : BOOLEAN, truncated : BOOLEAN, long : BOOLEAN]

Accepted(a) ==
    /\ {"summary", "participants", "rationale"} \subseteq a.fields
    /\ ~ a.newline
    /\ ~ a.truncated

\* Commands with arguments that are not accepted touch nothing.
Call(w, a) ==
    /\ called < MaxDecisions
    /\ Accepted(a)
    /\ From(w, "idle", IF a.long THEN "lock_long" ELSE "lock")
    /\ called' = called + 1
    /\ decision' = [decision EXCEPT ![w] = called + 1]
    /\ UNCHANGED <<disk, loglock, content, clock, logged, announced, scribefaults>>

-----------------------------------------------------------------------------
(* scribe_log_append. *)

\* Mutant: no lock.
lock_acquire_not(w) ==
    /\ From(w, "lock", "header") \/ From(w, "lock_long", "header_long")
    /\ UNCHANGED <<disk, loglock, decision, content, clock, called, logged, announced, scribefaults>>

lock_acquire(w) ==
    /\ loglock = Nobody
    /\ loglock' = w
    /\ From(w, "lock", "header") \/ From(w, "lock_long", "header_long")
    /\ UNCHANGED <<disk, decision, content, clock, called, logged, announced, scribefaults>>

\* A log that is not there is created with its header; on a failed write the
\* file is unlinked and the command ends with an error.
write_log_header(w) ==
    /\ From(w, "header", "append") \/ From(w, "header_long", "abort")
    /\ header' = IF header = "absent" THEN "whole" ELSE header
    /\ UNCHANGED <<counted, blocks, archives, loglock, decision, content, clock, called, logged,
                   announced, scribefaults>>

HeaderFails(w) ==
    /\ at[w] \in {"header", "header_long"} /\ header = "absent" /\ ScribeFault
    /\ ScribeEnds(w)
    /\ UNCHANGED <<disk, clock, called, logged, announced>>

\* The assertion on the length of the entry, with the lock held.
EntryTooLong(w) ==
    /\ at[w] = "abort"
    /\ ScribeEnds(w)
    /\ UNCHANGED <<disk, clock, called, logged, announced, scribefaults>>

\* Text is added to the log.
WriteBlock(w, heading, whole) ==
    /\ rate < PerSecond /\ rate' = rate + 1
    /\ blocks' = Append(blocks, [decision |-> decision[w], time |-> second,
                                heading |-> heading, whole |-> whole])
    /\ UNCHANGED <<second, archives, counted>>

\* A write that stops in the middle leaves what it has written.
Torn(w) == \E heading \in BOOLEAN : WriteBlock(w, heading, FALSE)

\* The time stamp is taken under the lock.
AppendEntry(w) ==
    /\ From(w, "append", "count")
    /\ WriteBlock(w, TRUE, TRUE)
    /\ logged' = logged \cup {decision[w]}
    /\ UNCHANGED <<header, loglock, decision, content, called, announced, scribefaults>>

AppendFails(w) ==
    /\ at[w] = "append" /\ ScribeFault
    /\ ScribeEnds(w) /\ Torn(w)
    /\ UNCHANGED <<header, called, logged, announced>>

-----------------------------------------------------------------------------
(* scribe_log_auto_archive, with the lock of the append. *)

Headings(s) == {i \in 1 .. Len(s) : s[i].heading}

CountDecisions(w) ==
    /\ at[w] = "count"
    /\ IF Cardinality(Headings(blocks)) > SCRIBE_ARCHIVE_THRESHOLD
       THEN To(w, "archive") /\ content' = [content EXCEPT ![w] = blocks]
       ELSE To(w, "unlock") /\ UNCHANGED content
    /\ UNCHANGED <<disk, loglock, decision, clock, called, logged, announced, scribefaults>>

\* The number of blocks before the block of the heading after the cleave.
CleaveOffset(s) ==
    (CHOOSE i \in Headings(s) :
        Cardinality({j \in Headings(s) : j < i}) = SCRIBE_ARCHIVE_CLEAVE) - 1

WriteArchive(w) ==
    /\ From(w, "archive", "trim")
    /\ archives' = [archives EXCEPT ![second] =
                      SubSeq(content[w], 1, CleaveOffset(content[w]))]
    /\ UNCHANGED <<header, counted, blocks, loglock, decision, content, clock, called, logged,
                   announced, scribefaults>>

\* What is before the first heading passes for the header and stays.
HeaderEnd(s) == CHOOSE n \in 0 .. Len(s) - 1 : n + 1 \in Headings(s) /\ \A j \in 1 .. n : j \notin Headings(s)

\* The header is copied with the new count, where it has the line for it.
RewriteMain(w) ==
    /\ From(w, "trim", "unlock")
    /\ blocks' = SubSeq(content[w], 1, HeaderEnd(content[w])) \o
                 SubSeq(content[w], CleaveOffset(content[w]) + 1, Len(content[w]))
    /\ counted' = IF header = "whole"
                  THEN Cardinality(Headings(content[w])) - SCRIBE_ARCHIVE_CLEAVE
                  ELSE counted
    /\ UNCHANGED <<header, archives, loglock, decision, content, clock, called, logged,
                   announced, scribefaults>>

\* Neither failure is an error of the command.
ArchiveFails(w) ==
    /\ ScribeFault
    /\ From(w, "archive", "unlock") \/ From(w, "trim", "unlock")
    /\ UNCHANGED <<disk, loglock, decision, content, clock, called, logged, announced>>

lock_release(w) ==
    /\ From(w, "unlock", "publish")
    /\ loglock' = Nobody
    /\ content' = [content EXCEPT ![w] = <<>>]
    /\ UNCHANGED <<disk, decision, clock, called, logged, announced, scribefaults>>

\* nbs-bus runs without the lock; when it fails, the command still succeeds.
bus_publish(w) ==
    /\ at[w] = "publish"
    /\ \/ announced' = announced \cup {decision[w]} /\ UNCHANGED scribefaults
       \/ ScribeFault /\ UNCHANGED announced
    /\ ScribeEnds(w)
    /\ UNCHANGED <<disk, clock, called, logged>>

Scribe(w) ==
    \/ lock_acquire(w) \/ write_log_header(w) \/ EntryTooLong(w) \/ AppendEntry(w)
    \/ CountDecisions(w) \/ WriteArchive(w) \/ RewriteMain(w)
    \/ lock_release(w) \/ bus_publish(w)

-----------------------------------------------------------------------------

\* A command is killed; a header or an entry may be torn by it.
ScribeKilled(w) ==
    /\ at[w] # "idle" /\ ScribeFault
    /\ ScribeEnds(w)
    /\ \/ UNCHANGED <<disk, clock>>
       \/ at[w] \in {"header", "header_long"} /\ header = "absent" /\ header' = "torn"
          /\ UNCHANGED <<counted, blocks, archives, clock>>
       \/ at[w] = "append" /\ Torn(w) /\ UNCHANGED header
    /\ UNCHANGED <<called, logged, announced>>

SecondPasses ==
    /\ second < MaxSecond
    /\ second' = second + 1 /\ rate' = 0
    /\ UNCHANGED <<disk, loglock, at, decision, content, called, logged, announced, scribefaults>>

ScribeNext ==
    \/ \E w \in Scribes :
          \/ Scribe(w) \/ HeaderFails(w) \/ AppendFails(w) \/ ArchiveFails(w)
          \/ ScribeKilled(w)
          \/ \E a \in Arguments : Call(w, a)
    \/ SecondPasses

ScribeSpec == ScribeInit /\ [][ScribeNext]_scribevars

-----------------------------------------------------------------------------

Whole(s) == {i \in 1 .. Len(s) : s[i].whole}

\* The files that hold decision d, the log itself as number MaxSecond + 1.
File(f) == IF f > MaxSecond THEN blocks ELSE archives[f]
Places(d) ==
    {f \in 0 .. MaxSecond + 1 : \E i \in Whole(File(f)) : File(f)[i].decision = d}

\* No append, archive, failure or crash of another process loses a decision
\* that has been logged: it is in the log or in an archive, whole.  It is in
\* one of them only, once the lock is free and if nothing has failed, and the
\* ids in the log, which are times, do not run backwards.
DecisionsKept ==
    /\ \A d \in logged : Places(d) # {}
    /\ loglock = Nobody /\ scribefaults = 0 =>
          \A d \in logged : Cardinality(Places(d)) = 1
    /\ \A i, j \in 1 .. Len(blocks) : i < j => blocks[i].time =< blocks[j].time
=============================================================================
