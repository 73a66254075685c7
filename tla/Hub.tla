--------------------------------- MODULE Hub --------------------------------
(***************************************************************************)
(* nbs-hub: the audit gate before spawns, the phase gate and the document  *)
(* registry.  Every command is a process of its own; it reads key=value    *)
(* files and changes them one key at a time with state_write, which copies *)
(* the whole file and renames the copy over it, without a lock.            *)
(***************************************************************************)
EXTENDS Integers, Sequences, FiniteSets

CONSTANTS
    HubProcs,              \* slots in which commands run
    Phases,             \* phase names
    Docs,               \* document names
    DocPaths,              \* document paths
    AUDIT_THRESHOLD,    \* results without an audit that close the gate
    MAX_DOCS,           \* slots of the registry
    MaxUnaudited,       \* bound on the results shown without an audit
    MaxPhase,           \* bound on the phase number
    MaxHubFaults           \* bound on killed commands and failed writes

ASSUME HubAssumption ==
    /\ AUDIT_THRESHOLD \in Nat \ {0}
    /\ MAX_DOCS \in Nat
    /\ MaxUnaudited \in Nat
    /\ MaxPhase \in Nat
    /\ MaxHubFaults \in Nat
    /\ {"PLANNING", "UNNAMED"} \subseteq Phases
    /\ "none" \notin Phases \cup Docs \cup DocPaths

VARIABLES
    made,       \* the directory .nbs/hub exists
    stored,      \* the files state and manifest
    todo,       \* the writes that a command still has to do
    copy,       \* the content that state_write read, while it runs
    doc,        \* the document a command registers
    gate,       \* the phase whose gate a command passes
    unaudited,  \* results shown since the last accepted audit
    passed,     \* how often the gate of each phase was passed since it was named
    hit,        \* how many faults hit the writes of these gates
    gates, hits,\* all the gates that were passed, and the faults that hit them
    registered, \* the path under which each document was last reported registered
    crashes,    \* commands that were killed
    failures    \* writes that failed

history == <<passed, hit, gates, hits>>
hubvars == <<made, stored, todo, copy, doc, gate, unaudited, passed, hit, gates, hits,
             registered, crashes, failures>>

Slots == 0 .. MAX_DOCS - 1

\* A key that is not in the file reads as its default.
State0 == [phase_num |-> 0, phase_name |-> "none", audit_counter |-> 0,
           audit_required |-> 0, last_spawn_time |-> 0]
Manifest0 == [k \in Slots \X {"name", "path"} |-> "none"]
NoCopy == <<>>
NoDoc  == [name |-> "none", path |-> "none"]

\* One call of state_write.
Write(file, key, value) == <<file, key, value>>

HubInit ==
    /\ made = FALSE
    /\ stored = [state |-> State0, manifest |-> Manifest0]
    /\ todo = [p \in HubProcs |-> <<>>]
    /\ copy = [p \in HubProcs |-> NoCopy]
    /\ doc = [p \in HubProcs |-> NoDoc]
    /\ unaudited = 0
    /\ gate = [p \in HubProcs |-> "none"]
    /\ passed = [phase \in Phases |-> 0] /\ hit = [phase \in Phases |-> 0]
    /\ gates = 0 /\ hits = 0
    /\ registered = [d \in Docs |-> "none"]
    /\ crashes = 0
    /\ failures = 0

Idle(p) == todo[p] = <<>>
Queue(p, writes) == todo' = [todo EXCEPT ![p] = writes]
Faults == crashes + failures

\* A fault hits the command that runs in slot p: when it passes a gate, one of
\* its two writes, or both, are not done.
HitGate(p) ==
    /\ hits' = IF gate[p] = "none" THEN hits ELSE hits + 1
    /\ hit' = IF gate[p] = "none" THEN hit ELSE [hit EXCEPT ![gate[p]] = @ + 1]

-----------------------------------------------------------------------------
(***************************************************************************)
(* state_write, and the end of the command when it was the last one.  Its  *)
(* result is ignored everywhere.                                           *)
(***************************************************************************)

StateWriteRead(p) ==
    /\ ~Idle(p)
    /\ copy[p] = NoCopy
    /\ copy' = [copy EXCEPT ![p] = stored[Head(todo[p])[1]]]
    /\ UNCHANGED <<made, stored, todo, doc, gate, unaudited, history, registered,
                   crashes, failures>>

WriteDone(p) ==
    /\ Queue(p, Tail(todo[p]))
    /\ copy' = [copy EXCEPT ![p] = NoCopy]
    /\ IF Len(todo[p]) = 1 /\ doc[p] # NoDoc
       THEN /\ registered' = [registered EXCEPT ![doc[p].name] = doc[p].path]
            /\ doc' = [doc EXCEPT ![p] = NoDoc]
       ELSE UNCHANGED <<registered, doc>>
    /\ gate' = IF Len(todo[p]) = 1 THEN [gate EXCEPT ![p] = "none"] ELSE gate
    /\ UNCHANGED <<made, unaudited, passed, gates, crashes>>

StateWriteRename(p) ==
    /\ copy[p] # NoCopy
    /\ LET w == Head(todo[p])
       IN  stored' = [stored EXCEPT ![w[1]] = [copy[p] EXCEPT ![w[2]] = w[3]]]
    /\ WriteDone(p)
    /\ UNCHANGED <<hit, hits, failures>>

\* The temporary file cannot be written or renamed.
StateWriteFail(p) ==
    /\ copy[p] # NoCopy
    /\ Faults < MaxHubFaults
    /\ failures' = failures + 1
    /\ WriteDone(p)
    /\ HitGate(p)
    /\ UNCHANGED stored

HubCrash(p) ==
    /\ ~Idle(p)
    /\ Faults < MaxHubFaults
    /\ crashes' = crashes + 1
    /\ Queue(p, <<>>)
    /\ copy' = [copy EXCEPT ![p] = NoCopy]
    /\ doc' = [doc EXCEPT ![p] = NoDoc]
    /\ gate' = [gate EXCEPT ![p] = "none"]
    /\ HitGate(p)
    /\ UNCHANGED <<made, stored, unaudited, passed, gates, registered, failures>>

-----------------------------------------------------------------------------
(***************************************************************************)
(* The commands, up to their first write.                                  *)
(***************************************************************************)

CmdInit(p) ==
    /\ Idle(p)
    /\ ~made
    /\ made' = TRUE
    /\ Queue(p, <<Write("state", "phase_num", 0),
                  Write("state", "phase_name", "PLANNING"),
                  Write("state", "audit_counter", 0),
                  Write("state", "audit_required", 0),
                  Write("state", "last_spawn_time", 0)>>)
    /\ UNCHANGED <<stored, copy, doc, gate, unaudited, history, registered, crashes, failures>>

CmdSpawn(p) ==
    /\ Idle(p)
    /\ made
    /\ stored.state.audit_required = 0
    /\ Queue(p, <<Write("state", "last_spawn_time", 0)>>)
    /\ UNCHANGED <<made, stored, copy, doc, gate, unaudited, history, registered, crashes,
                   failures>>

\* Mutant: the gate closes one result too late.
CmdResultLate(p) ==
    /\ Idle(p)
    /\ made
    /\ unaudited < MaxUnaudited
    /\ unaudited' = unaudited + 1
    /\ LET counter == stored.state.audit_counter + 1
       IN  Queue(p, <<Write("state", "audit_counter", counter)>> \o
                    IF counter > AUDIT_THRESHOLD
                    THEN <<Write("state", "audit_required", 1)>> ELSE <<>>)
    /\ UNCHANGED <<made, stored, copy, doc, gate, history, registered, crashes, failures>>

CmdResult(p) ==
    /\ Idle(p)
    /\ made
    /\ unaudited < MaxUnaudited
    /\ unaudited' = unaudited + 1
    /\ LET counter == stored.state.audit_counter + 1
       IN  Queue(p, <<Write("state", "audit_counter", counter)>> \o
                    IF counter >= AUDIT_THRESHOLD
                    THEN <<Write("state", "audit_required", 1)>> ELSE <<>>)
    /\ UNCHANGED <<made, stored, copy, doc, gate, history, registered, crashes, failures>>

\* The audit has its three sections and was copied to the archive.
CmdAudit(p) ==
    /\ Idle(p)
    /\ made
    /\ unaudited' = 0
    /\ Queue(p, <<Write("state", "audit_counter", 0), Write("state", "audit_required", 0)>>)
    /\ UNCHANGED <<made, stored, copy, doc, gate, history, registered, crashes, failures>>

\* Mutant: the phase keeps its name.
CmdGateKeepsName(p, phase) ==
    /\ Idle(p)
    /\ made
    /\ phase = stored.state.phase_name
    /\ stored.state.phase_num < MaxPhase
    /\ gate' = [gate EXCEPT ![p] = phase]
    /\ passed' = [passed EXCEPT ![phase] = @ + 1]
    /\ gates' = gates + 1
    /\ Queue(p, <<Write("state", "phase_num", stored.state.phase_num + 1)>>)
    /\ UNCHANGED <<made, stored, copy, doc, unaudited, hit, hits, registered, crashes,
                   failures>>

\* Both files are there and not empty; what cmd_gate copies to the archive
\* afterwards changes no state.
CmdGate(p, phase) ==
    /\ Idle(p)
    /\ made
    /\ phase = stored.state.phase_name
    /\ stored.state.phase_num < MaxPhase
    /\ gate' = [gate EXCEPT ![p] = phase]
    /\ passed' = [passed EXCEPT ![phase] = @ + 1]
    /\ gates' = gates + 1
    /\ Queue(p, <<Write("state", "phase_num", stored.state.phase_num + 1),
                  Write("state", "phase_name", "UNNAMED")>>)
    /\ UNCHANGED <<made, stored, copy, doc, unaudited, hit, hits, registered, crashes,
                   failures>>

CmdPhaseName(p, phase) ==
    /\ Idle(p)
    /\ made
    /\ passed' = [passed EXCEPT ![phase] = 0]
    /\ hit' = [hit EXCEPT ![phase] = 0]
    /\ Queue(p, <<Write("state", "phase_name", phase)>>)
    /\ UNCHANGED <<made, stored, copy, doc, gate, unaudited, gates, hits, registered,
                   crashes, failures>>

DocName(i) == stored.manifest[<<i, "name">>]
DocPath(i) == stored.manifest[<<i, "path">>]

\* Mutant: the first free slot, also for a document that has one already.
SlotsForFree(d) ==
    {i \in Slots : DocName(i) = "none" /\ \A j \in Slots : j < i => DocName(j) # "none"}

\* The slot that holds the name, if no free slot comes before it; else the
\* first free slot; none when the registry is full.
SlotsFor(d) ==
    {i \in Slots : /\ DocName(i) \in {d, "none"}
                   /\ \A j \in Slots : j < i => DocName(j) \notin {d, "none"}}

CmdDocRegister(p, d, path) ==
    /\ Idle(p)
    /\ made
    /\ \E i \in SlotsFor(d) :
          Queue(p, <<Write("manifest", <<i, "name">>, d),
                     Write("manifest", <<i, "path">>, path)>>)
    /\ doc' = [doc EXCEPT ![p] = [name |-> d, path |-> path]]
    /\ UNCHANGED <<made, stored, copy, gate, unaudited, history, registered, crashes, failures>>

\* What doc read answers: the first slot with the name, before the first free
\* one; a slot without a path ends the search.
CmdDocRead(d) ==
    LET found == {i \in Slots : /\ DocName(i) = d
                                /\ \A j \in Slots : j < i => DocName(j) \notin {d, "none"}}
    IN  IF found = {} THEN "none" ELSE DocPath(CHOOSE i \in found : TRUE)

HubNext ==
    \E p \in HubProcs :
        \/ CmdInit(p) \/ CmdSpawn(p) \/ CmdResult(p) \/ CmdAudit(p)
        \/ \E phase \in Phases : CmdGate(p, phase) \/ CmdPhaseName(p, phase)
        \/ \E d \in Docs, path \in DocPaths : CmdDocRegister(p, d, path)
        \/ StateWriteRead(p) \/ StateWriteRename(p) \/ StateWriteFail(p) \/ HubCrash(p)

HubSpec == HubInit /\ [][HubNext]_hubvars

-----------------------------------------------------------------------------
(***************************************************************************)
(* Properties of one supervisor whose commands may be killed or fail to    *)
(* write (HubProcs has one element).                                       *)
(***************************************************************************)

\* The gate of cmd_spawn: a spawn is let through only if fewer than
\* AUDIT_THRESHOLD results were shown since the last audit, give or take one
\* for every command that was killed and every write that failed.
SpawnGated ==
    [][\A p \in HubProcs : CmdSpawn(p) => unaudited < AUDIT_THRESHOLD + Faults]_hubvars

\* cmd_gate, "No skipping phases": the gate of a phase is passed once after it
\* was named, and once more for every fault that hit the two writes of that
\* gate; between two commands the current phase still has a passage to come.
\* The number never runs ahead of the gates passed, and between two commands it
\* is behind by at most the faults that hit a gate.  The phase "UNNAMED" has no
\* name of its own.
PhasePassedOnce ==
    /\ \A phase \in Phases \ {"UNNAMED"} : passed[phase] <= 1 + hit[phase]
    /\ stored.state.phase_num <= gates
    /\ (\A p \in HubProcs : Idle(p)) =>
           /\ \A phase \in Phases \ {"UNNAMED"} :
                 stored.state.phase_name = phase => passed[phase] <= hit[phase]
           /\ gates <= stored.state.phase_num + hits

\* The registry: a document reported as registered is found under the path
\* last registered, whatever registrations were killed on the way and
\* whatever they left in their slots, as long as no write failed.
DocReadsBack ==
    failures = 0 =>
        \A d \in Docs : registered[d] # "none" => CmdDocRead(d) = registered[d]
=============================================================================
