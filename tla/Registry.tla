------------------------------ MODULE Registry ------------------------------
(***************************************************************************)
(* The control registry of a sidecar: the list of chats (and, with the     *)
(* same code, the bus) it watches.  It is seeded from the files at every   *)
(* start and changed by the commands that the agent appends to the inbox.  *)
(* The number of inbox lines that were processed is kept in memory only,   *)
(* so that a restart processes all of them again.                          *)
(***************************************************************************)
EXTENDS Naturals, Sequences, SequencesExt

CONSTANTS
    Paths,
    MaxInbox,       \* bound on the lines of the inbox
    MaxRegistryFaults \* bound on restarts, failed writes and removed files

\* A line that is a comment, empty, incomplete or has an unknown verb
\* changes nothing.
Commands == [verb : {"register", "unregister"}, path : Paths] \cup {[verb |-> "none"]}

ASSUME RegistryAssumption == MaxInbox \in Nat /\ MaxRegistryFaults \in Nat

VARIABLES
    files,      \* the paths that exist
    registry,   \* the lines of the registry file
    inbox,      \* the lines of the inbox file
    control_inbox_line,
    batch,      \* the lines that this call of registry_process_inbox has still to do
    total,      \* the lines it has read
    rpc,        \* "seed" at the start, "idle" between calls, "work" in a call
    rfaults

rvars == <<files, registry, inbox, control_inbox_line, batch, total, rpc, rfaults>>

RInit ==
    /\ files \in SUBSET Paths
    /\ registry = <<>> /\ inbox = <<>>
    /\ control_inbox_line = 0 /\ batch = <<>> /\ total = 0
    /\ rpc = "seed"
    /\ rfaults = 0

RFault == rfaults < MaxRegistryFaults /\ rfaults' = rfaults + 1

registry_contains(p) == \E i \in DOMAIN registry : registry[i] = p
registry_append(p) == Append(registry, p)

\* The lines that are in S, taken one after the other.
LinesIn(s, S) ==
    LET copy[i \in 0 .. Len(s)] ==
            IF i = 0 THEN <<>>
            ELSE IF s[i] \in S THEN Append(copy[i - 1], s[i]) ELSE copy[i - 1]
    IN  copy[Len(s)]

\* All other lines are copied to a new file, which is renamed over the old one.
registry_remove(p) == LinesIn(registry, Paths \ {p})

\* registry_seed: every chat that exists and is not in the registry is
\* appended, in the order of the directory.
registry_seed ==
    /\ rpc = "seed"
    /\ \/ \E p \in files : ~ registry_contains(p) /\ registry' = registry_append(p)
          /\ UNCHANGED <<rpc, rfaults>>
       \/ /\ \A p \in files : registry_contains(p)
          /\ rpc' = "idle" /\ UNCHANGED <<registry, rfaults>>
       \/ /\ RFault     \* an append fails: the sidecar goes on with what there is
          /\ rpc' = "idle" /\ UNCHANGED registry
    /\ UNCHANGED <<files, inbox, control_inbox_line, batch, total>>

\* registry_process_inbox reads the whole file.
ReadInbox ==
    /\ rpc = "idle" /\ Len(inbox) > control_inbox_line
    /\ batch' = SubSeq(inbox, control_inbox_line + 1, Len(inbox))
    /\ total' = Len(inbox)
    /\ rpc' = "work"
    /\ UNCHANGED <<files, registry, inbox, control_inbox_line, rfaults>>

\* One line: a path is appended once, or removed.
process_control_command ==
    /\ rpc = "work" /\ batch # <<>>
    /\ LET c == Head(batch) IN
         registry' = CASE c.verb = "register" ->
                            IF registry_contains(c.path) THEN registry
                            ELSE registry_append(c.path)
                       [] c.verb = "unregister" -> registry_remove(c.path)
                       [] OTHER -> registry
    /\ batch' = Tail(batch)
    /\ UNCHANGED <<files, inbox, control_inbox_line, total, rpc, rfaults>>

\* Mutant: the counter follows the inbox and not what was read of it.
InboxDoneLate ==
    /\ rpc = "work" /\ batch = <<>>
    /\ control_inbox_line' = Len(inbox)
    /\ rpc' = "idle"
    /\ UNCHANGED <<files, registry, inbox, batch, total, rfaults>>

InboxDone ==
    /\ rpc = "work" /\ batch = <<>>
    /\ control_inbox_line' = total
    /\ rpc' = "idle"
    /\ UNCHANGED <<files, registry, inbox, batch, total, rfaults>>

\* A write fails: the call ends, the counter stays, and the next tick does
\* the lines before the failure again.
InboxFails ==
    /\ rpc = "work" /\ batch # <<>>
    /\ Head(batch).verb # "none"
    /\ RFault
    /\ rpc' = "idle" /\ batch' = <<>>
    /\ UNCHANGED <<files, registry, inbox, control_inbox_line, total>>

----------------------------------------------------------------------------

\* The agent appends one line.
Command(c) ==
    /\ Len(inbox) < MaxInbox
    /\ inbox' = Append(inbox, c)
    /\ UNCHANGED <<files, registry, control_inbox_line, batch, total, rpc, rfaults>>

\* The sidecar is killed at any point and started again.
RestartSidecar ==
    /\ RFault
    /\ rpc' = "seed" /\ control_inbox_line' = 0 /\ batch' = <<>> /\ total' = 0
    /\ UNCHANGED <<files, registry, inbox>>

\* A chat is created or removed; the registry is not told.
FileChanges(p) ==
    /\ RFault
    /\ files' = IF p \in files THEN files \ {p} ELSE files \cup {p}
    /\ UNCHANGED <<registry, inbox, control_inbox_line, batch, total, rpc>>

RStep == registry_seed \/ ReadInbox \/ process_control_command \/ InboxDone
RNext ==
    \/ RStep \/ InboxFails \/ RestartSidecar
    \/ \E c \in Commands : Command(c)
    \/ \E p \in Paths : FileChanges(p)

RSpec == RInit /\ [][RNext]_rvars

\* registry_for_each visits the entries whose file exists, registry_find_first
\* takes the first entry of all.
registry_for_each == LinesIn(registry, files)
registry_find_first == IF registry = <<>> THEN {} ELSE {registry[1]}
----------------------------------------------------------------------------

\* The last command for a path.
LastFor(p) ==
    LET at == {i \in DOMAIN inbox : inbox[i].verb # "none" /\ inbox[i].path = p}
    IN  IF at = {} THEN "none" ELSE inbox[CHOOSE i \in at : \A j \in at : j =< i].verb

\* When the inbox has been worked off, the sidecar visits an existing chat if
\* its last command registers it, and neither visits nor posts to one whose
\* last command unregisters it, whatever was processed twice after a restart
\* or a failed write, and although each start seeds every file again; and no
\* chat is visited twice.
InboxDecides ==
    rpc = "idle" /\ control_inbox_line = Len(inbox) =>
        /\ \A p \in files : LastFor(p) = "register" => Contains(registry_for_each, p)
        /\ \A p \in Paths : LastFor(p) = "unregister" =>
              ~ Contains(registry_for_each, p) /\ p \notin registry_find_first
        /\ IsInjective(registry_for_each)
=============================================================================
