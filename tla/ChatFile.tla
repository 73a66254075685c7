------------------------------ MODULE ChatFile ------------------------------
(***************************************************************************)
(* One chat file of nbs-chat and the processes that work on it.            *)
(*                                                                         *)
(* The chat file, its <path>.tmp, its archives and its <path>.cursors are  *)
(* shared by unrelated processes, one nbs-chat command each.  Writers      *)
(* serialise on the fcntl lock of <path>.lock; readers take no lock and    *)
(* rely on rename() replacing the file in one step.  A process can be      *)
(* killed at any point (the kernel then drops its lock and the temporary   *)
(* file stays) and a file operation can fail.                              *)
(*                                                                         *)
(* Each message is the pair of its handle and the order in which chat_send *)
(* took its time under the lock; the text plays no part.  Lines that do    *)
(* not decode are outside this module.                                     *)
(***************************************************************************)
EXTENDS Integers, Sequences, FiniteSets

CONSTANTS
    Procs,          \* slots in which nbs-chat commands run
    Handles,        \* chat handles
    NoProc,         \* the lock is free
    NoFile,         \* <path>.tmp does not exist
    NoHandle,       \* last-writer of a chat nobody wrote to
    Commands,       \* the commands issued: "send", "read", "filter",
                    \* "delete", "poll", "cursor-set"
    Senders,        \* handles used by send
    Readers,        \* handles used by read --unread, poll and cursor-set
    THRESHOLD,      \* ARCHIVE_THRESHOLD
    CLEAVE,         \* ARCHIVE_CLEAVE
    MAX_MESSAGES,   \* most lines chat_send reads back
    PARTS_CAP,      \* most participants parts_str[4096] is asserted to hold
    CURSORS_CAP,    \* most entries chat_cursor_write keeps
    MaxSends,       \* bound on the number of sends
    MaxFaults       \* bound on the number of crashes and failed operations

ASSUME ConstantsAssumption ==
    /\ NoProc \notin Procs
    /\ NoHandle \notin Handles
    /\ Senders \subseteq Handles
    /\ Readers \subseteq Handles
    /\ CLEAVE \in Nat \ {0}
    /\ THRESHOLD \in Nat
    /\ CLEAVE <= THRESHOLD
    /\ MAX_MESSAGES \in Nat
    /\ PARTS_CAP \in Nat
    /\ CURSORS_CAP \in Nat
    /\ MaxSends \in Nat
    /\ MaxFaults \in Nat

VARIABLES
    main,       \* contents of the chat file
    tmp,        \* contents of <path>.tmp, shared by every writer
    archives,   \* contents of the archive files
    cursors,    \* the cursor file: last-read index per handle, -1 if absent
    lock,       \* holder of the fcntl write lock
    pc,         \* where each command is
    hnd,        \* its handle
    buf,        \* the file image it has in memory
    idx,        \* the index it works with: cursor, keep_count, initial_count
    ctab,       \* the cursor table it read and is about to write back
    sent,       \* number of messages stamped so far
    faults,     \* number of crashes and failed operations so far
    seen        \* history: message stamps displayed to or written by a handle

files  == <<main, tmp, archives, cursors>>
locals == <<pc, hnd, buf, idx, ctab>>
vars   == <<main, tmp, archives, cursors, lock, pc, hnd, buf, idx, ctab,
            sent, faults, seen>>

Msg     == [h : Handles, n : Nat]
Content == [lines  : Seq(Msg),
            parts  : [Handles -> Nat],
            writer : Handles \cup {NoHandle}]

ASSUME NoFileAssumption == NoFile \notin Content

\* Program points at which a process holds the lock.
SendPoints    == {"s_write", "s_rename", "a_archive", "a_write", "a_rename",
                  "a_cursors", "s_unlock"}
TruncPoints   == {"t_rename"}
LockedPoints  == SendPoints \cup TruncPoints \cup {"w_rename"}
WaitPoints    == {"s_lock", "t_lock", "w_lock"}
OtherPoints   == {"idle", "r_cursor", "p_wait", "t_verify", "aborted"}

TypeOK ==
    /\ main \in Content
    /\ tmp \in Content \cup {NoFile}
    /\ archives \in SUBSET Seq(Msg)
    /\ cursors \in [Handles -> Nat \cup {-1}]
    /\ lock \in Procs \cup {NoProc}
    /\ pc \in [Procs -> LockedPoints \cup WaitPoints \cup OtherPoints]
    /\ hnd \in [Procs -> Handles \cup {NoHandle}]
    /\ buf \in [Procs -> Content]
    /\ idx \in [Procs -> Nat]
    /\ ctab \in [Procs -> [Handles -> Nat \cup {-1}]]
    /\ sent \in Nat
    /\ faults \in Nat
    /\ seen \in [Handles -> SUBSET Nat]

-----------------------------------------------------------------------------
(***************************************************************************)
(* The data the commands compute.                                          *)
(***************************************************************************)

Elems(s) == {s[i] : i \in DOMAIN s}

\* update_participants: one more message of handle h in the header.
UpdateParticipants(parts, h) == [parts EXCEPT ![h] = @ + 1]

Participants(parts) == {h \in Handles : parts[h] > 0}

\* The participants chat_truncate recomputes from the lines it keeps.
CountParticipants(lines) ==
    [h \in Handles |-> Cardinality({i \in DOMAIN lines : lines[i].h = h})]

\* The cursor table after an archive: every entry goes down, not below 0.
AdjustCursor(c) == IF c = -1 THEN -1
                   ELSE IF c < CLEAVE THEN 0 ELSE c - CLEAVE

\* The sender's cursor after a send that left count lines before its own.
ArchivedIndex(count) == IF count < CLEAVE THEN 0 ELSE count - CLEAVE

\* The cursor table c with the entry of h set to v; a new entry that does not
\* fit is left out.
CursorTable(c, h, v) ==
    IF c[h] = -1 /\ Cardinality({g \in Handles : c[g] # -1}) >= CURSORS_CAP
    THEN c ELSE [c EXCEPT ![h] = v]

EmptyChat == [lines |-> << >>, parts |-> [h \in Handles |-> 0],
              writer |-> NoHandle]

NoCursors == [h \in Handles |-> -1]

\* chat_read: the state a reader decodes, at most MAX_MESSAGES messages.
ChatRead ==
    [main EXCEPT !.lines =
        SubSeq(@, 1, IF Len(@) > MAX_MESSAGES THEN MAX_MESSAGES ELSE Len(@))]

Init ==
    /\ main = EmptyChat
    /\ tmp = NoFile
    /\ archives = {}
    /\ cursors = NoCursors
    /\ lock = NoProc
    /\ pc = [p \in Procs |-> "idle"]
    /\ hnd = [p \in Procs |-> NoHandle]
    /\ buf = [p \in Procs |-> EmptyChat]
    /\ idx = [p \in Procs |-> 0]
    /\ ctab = [p \in Procs |-> NoCursors]
    /\ sent = 0
    /\ faults = 0
    /\ seen = [h \in Handles |-> {}]

Goto(p, point) == pc' = [pc EXCEPT ![p] = point]

\* The process ends, and what it had in memory with it.
Exit(p, point) ==
    /\ Goto(p, point)
    /\ hnd' = [hnd EXCEPT ![p] = NoHandle]
    /\ buf' = [buf EXCEPT ![p] = EmptyChat]
    /\ idx' = [idx EXCEPT ![p] = 0]
    /\ ctab' = [ctab EXCEPT ![p] = NoCursors]

Acquire(p) == lock = NoProc /\ lock' = p
Release(p) == lock' = IF lock = p THEN NoProc ELSE lock

-----------------------------------------------------------------------------
(***************************************************************************)
(* chat_send and chat_auto_archive.                                        *)
(***************************************************************************)

SendCall(p, h) ==
    /\ pc[p] = "idle"
    /\ "send" \in Commands
    /\ sent + Cardinality({q \in Procs : pc[q] = "s_lock"}) < MaxSends
    /\ hnd' = [hnd EXCEPT ![p] = h]
    /\ Goto(p, "s_lock")
    /\ UNCHANGED <<files, lock, buf, idx, ctab, sent, faults, seen>>

\* The message with its stamp, appended to the lines read back under the lock.
Appended(p) ==
    [lines  |-> Append(main.lines, [h |-> hnd[p], n |-> sent + 1]),
     parts  |-> UpdateParticipants(main.parts, hnd[p]),
     writer |-> hnd[p]]

\* An assertion of chat_send fails: too many participants for parts_str, or
\* too many lines.  abort() drops the lock.
SendOverflows(p) ==
    \/ Cardinality(Participants(Appended(p).parts)) > PARTS_CAP
    \/ Len(main.lines) > MAX_MESSAGES

\* Mutant: the lock is not taken.
SendReadUnlocked(p) ==
    /\ pc[p] = "s_lock"
    /\ ~SendOverflows(p)
    /\ buf' = [buf EXCEPT ![p] = Appended(p)]
    /\ sent' = sent + 1
    /\ Goto(p, "s_write")
    /\ UNCHANGED <<files, lock, hnd, idx, ctab, faults, seen>>

SendRead(p) ==
    /\ pc[p] = "s_lock"
    /\ ~SendOverflows(p)
    /\ Acquire(p)
    /\ buf' = [buf EXCEPT ![p] = Appended(p)]
    /\ sent' = sent + 1
    /\ Goto(p, "s_write")
    /\ UNCHANGED <<files, hnd, idx, ctab, faults, seen>>

SendAbort(p) ==
    /\ pc[p] = "s_lock"
    /\ lock = NoProc
    /\ SendOverflows(p)
    /\ Exit(p, "aborted")
    /\ UNCHANGED <<files, lock, sent, faults, seen>>

SendWrite(p) ==
    /\ pc[p] = "s_write"
    /\ tmp' = buf[p]
    /\ Goto(p, "s_rename")
    /\ UNCHANGED <<main, archives, cursors, lock, hnd, buf, idx, ctab, sent,
                   faults, seen>>

SendRename(p) ==
    /\ pc[p] = "s_rename"
    /\ main' = tmp
    /\ tmp' = NoFile
    /\ idx' = [idx EXCEPT ![p] = Len(buf[p].lines) - 1]
    /\ seen' = [seen EXCEPT ![hnd[p]] =
                    @ \cup {buf[p].lines[Len(buf[p].lines)].n}]
    /\ Goto(p, IF Len(buf[p].lines) > THRESHOLD THEN "a_archive"
                                                ELSE "s_unlock")
    /\ UNCHANGED <<archives, cursors, lock, hnd, buf, ctab, sent, faults>>

\* The archive file appears under a name of its own: two archives of one chat
\* are taken to have different timestamps.
ArchiveWrite(p) ==
    /\ pc[p] = "a_archive"
    /\ archives' = archives \cup {SubSeq(buf[p].lines, 1, CLEAVE)}
    /\ Goto(p, "a_write")
    /\ UNCHANGED <<main, tmp, cursors, lock, hnd, buf, idx, ctab, sent,
                   faults, seen>>

\* Mutant: one line too many is cut off.
TrimmedTooFar(c) == [c EXCEPT !.lines = SubSeq(@, CLEAVE + 2, Len(@))]

\* The header keeps its cumulative participants.
Trimmed(c) == [c EXCEPT !.lines = SubSeq(@, CLEAVE + 1, Len(@))]

ArchiveRewrite(p) ==
    /\ pc[p] = "a_write"
    /\ tmp' = Trimmed(buf[p])
    /\ Goto(p, "a_rename")
    /\ UNCHANGED <<main, archives, cursors, lock, hnd, buf, idx, ctab, sent,
                   faults, seen>>

ArchiveRename(p) ==
    /\ pc[p] = "a_rename"
    /\ main' = tmp
    /\ tmp' = NoFile
    /\ Goto(p, "a_cursors")
    /\ UNCHANGED <<archives, cursors, lock, hnd, buf, idx, ctab, sent, faults,
                   seen>>

ArchiveCursors(p) ==
    /\ pc[p] = "a_cursors"
    /\ cursors' = [h \in Handles |-> AdjustCursor(cursors[h])]
    /\ idx' = [idx EXCEPT ![p] = ArchivedIndex(Len(buf[p].lines) - 1)]
    /\ Goto(p, "s_unlock")
    /\ UNCHANGED <<main, tmp, archives, lock, hnd, buf, ctab, sent, faults,
                   seen>>

SendUnlock(p) ==
    /\ pc[p] = "s_unlock"
    /\ Release(p)
    /\ Goto(p, "w_lock")
    /\ UNCHANGED <<files, hnd, buf, idx, ctab, sent, faults, seen>>

-----------------------------------------------------------------------------
(***************************************************************************)
(* chat_cursor_write, called by chat_send, cmd_read and cmd_cursor_set.    *)
(***************************************************************************)

\* Mutant: the table is read without the lock.
CursorReadUnlocked(p) ==
    /\ pc[p] = "w_lock"
    /\ ctab' = [ctab EXCEPT ![p] = CursorTable(cursors, hnd[p], idx[p])]
    /\ Goto(p, "w_rename")
    /\ UNCHANGED <<files, lock, hnd, buf, idx, sent, faults, seen>>

CursorRead(p) ==
    /\ pc[p] = "w_lock"
    /\ Acquire(p)
    /\ ctab' = [ctab EXCEPT ![p] = CursorTable(cursors, hnd[p], idx[p])]
    /\ Goto(p, "w_rename")
    /\ UNCHANGED <<files, hnd, buf, idx, sent, faults, seen>>

CursorRename(p) ==
    /\ pc[p] = "w_rename"
    /\ cursors' = ctab[p]
    /\ Release(p)
    /\ Exit(p, "idle")
    /\ UNCHANGED <<main, tmp, archives, sent, faults, seen>>

CursorSet(p, h, v) ==
    /\ pc[p] = "idle"
    /\ "cursor-set" \in Commands
    /\ hnd' = [hnd EXCEPT ![p] = h]
    /\ idx' = [idx EXCEPT ![p] = v]
    /\ Goto(p, "w_lock")
    /\ UNCHANGED <<files, lock, buf, ctab, sent, faults, seen>>

-----------------------------------------------------------------------------
(***************************************************************************)
(* cmd_read --unread: a snapshot of the chat, then the cursor, both        *)
(* without the lock; the cursor is written back at the end.                *)
(***************************************************************************)

ReadCall(p, h) ==
    /\ pc[p] = "idle"
    /\ "read" \in Commands
    /\ hnd' = [hnd EXCEPT ![p] = h]
    /\ buf' = [buf EXCEPT ![p] = ChatRead]
    /\ Goto(p, "r_cursor")
    /\ UNCHANGED <<files, lock, idx, ctab, sent, faults, seen>>

\* Mutant: the cursor is left one past the last message printed.
ShowOffByOne(p, first, last) ==
    /\ seen' = [seen EXCEPT ![hnd[p]] =
                    @ \cup {buf[p].lines[i].n : i \in (first + 1) .. last}]
    /\ \/ /\ first < last
          /\ idx' = [idx EXCEPT ![p] = last]
          /\ Goto(p, "w_lock")
          /\ UNCHANGED <<hnd, buf, ctab>>
       \/ first = last /\ Exit(p, "idle")

\* The messages first+1 .. last of the snapshot are printed; the cursor is
\* written only when there are any.
Show(p, first, last) ==
    /\ seen' = [seen EXCEPT ![hnd[p]] =
                    @ \cup {buf[p].lines[i].n : i \in (first + 1) .. last}]
    /\ \/ /\ first < last
          /\ idx' = [idx EXCEPT ![p] = last - 1]
          /\ Goto(p, "w_lock")
          /\ UNCHANGED <<hnd, buf, ctab>>
       \/ first = last /\ Exit(p, "idle")

\* The chat has fewer messages than the cursor says: nothing is printed and
\* the cursor is clamped.
Clamp(p, end) ==
    /\ idx' = [idx EXCEPT ![p] = IF end > 0 THEN end - 1 ELSE 0]
    /\ Goto(p, "w_lock")
    /\ UNCHANGED <<hnd, buf, ctab, seen>>

\* --after, --before, --offset and --last ("filter") narrow the range.
ReadShow(p) ==
    /\ pc[p] = "r_cursor"
    /\ LET start == cursors[hnd[p]] + 1
           end   == Len(buf[p].lines)
       IN  \/ start <= end /\ Show(p, start, end)
           \/ /\ "filter" \in Commands
              /\ \E first, last \in start .. end :
                    first <= last /\ Show(p, first, last)
           \/ start > end /\ Clamp(p, end)
    /\ UNCHANGED <<files, lock, sent, faults>>

-----------------------------------------------------------------------------
(***************************************************************************)
(* cmd_delete: the cut-off index is found without the lock, chat_truncate  *)
(* applies it under the lock, and the result is verified without it.       *)
(***************************************************************************)

\* Index k is the first message at or after the time given.
DeleteCall(p, k) ==
    /\ pc[p] = "idle"
    /\ "delete" \in Commands
    /\ buf' = [buf EXCEPT ![p] = ChatRead]
    /\ idx' = [idx EXCEPT ![p] = k]
    /\ Goto(p, "t_lock")
    /\ UNCHANGED <<files, lock, hnd, ctab, sent, faults, seen>>

\* Mutant: last-writer is left as it was.
TruncatedStaleWriter(k) ==
    LET kept == SubSeq(main.lines, 1, k)
    IN  [lines  |-> kept,
         parts  |-> CountParticipants(kept),
         writer |-> main.writer]

Truncated(k) ==
    LET kept == SubSeq(main.lines, 1, k)
    IN  [lines  |-> kept,
         parts  |-> CountParticipants(kept),
         writer |-> IF k = 0 THEN NoHandle ELSE kept[k].h]

\* Nothing to do when the chat is no longer than keep_count.
TruncateSkip(p) ==
    /\ pc[p] = "t_lock"
    /\ lock = NoProc
    /\ idx[p] >= Len(ChatRead.lines)
    /\ Goto(p, "t_verify")
    /\ UNCHANGED <<files, lock, hnd, buf, idx, ctab, sent, faults, seen>>

TruncateWrite(p) ==
    /\ pc[p] = "t_lock"
    /\ idx[p] < Len(ChatRead.lines)
    /\ Acquire(p)
    /\ tmp' = Truncated(idx[p])
    /\ Goto(p, "t_rename")
    /\ UNCHANGED <<main, archives, cursors, hnd, buf, idx, ctab, sent, faults,
                   seen>>

TruncateRename(p) ==
    /\ pc[p] = "t_rename"
    /\ main' = tmp
    /\ tmp' = NoFile
    /\ Release(p)
    /\ Goto(p, "t_verify")
    /\ UNCHANGED <<archives, cursors, hnd, buf, idx, ctab, sent, faults, seen>>

DeleteVerify(p) ==
    /\ pc[p] = "t_verify"
    /\ Exit(p, IF Len(ChatRead.lines) <= idx[p] THEN "idle" ELSE "aborted")
    /\ UNCHANGED <<files, lock, sent, faults, seen>>

-----------------------------------------------------------------------------
(***************************************************************************)
(* chat_poll: wait for the message count to grow past its initial value.   *)
(***************************************************************************)

PollCall(p, h) ==
    /\ pc[p] = "idle"
    /\ "poll" \in Commands
    /\ hnd' = [hnd EXCEPT ![p] = h]
    /\ buf' = [buf EXCEPT ![p] = ChatRead]
    /\ idx' = [idx EXCEPT ![p] = Len(ChatRead.lines)]
    /\ Goto(p, "p_wait")
    /\ UNCHANGED <<files, lock, ctab, sent, faults, seen>>

PollHit(p) == \E i \in (idx[p] + 1) .. Len(ChatRead.lines) :
                  ChatRead.lines[i].h # hnd[p]

PollReturn(p) ==
    /\ pc[p] = "p_wait"
    /\ PollHit(p)
    /\ Exit(p, "idle")
    /\ UNCHANGED <<files, lock, sent, faults, seen>>

\* Mutant: the deadline is tested only while the count has not gone down.
PollTimeoutNotAfterDelete(p) ==
    /\ pc[p] = "p_wait"
    /\ ~PollHit(p)
    /\ Len(ChatRead.lines) >= idx[p]
    /\ Exit(p, "idle")
    /\ UNCHANGED <<files, lock, sent, faults, seen>>

\* The last check of the loop finds nothing and chat_poll returns 3.
PollTimeout(p) ==
    /\ pc[p] = "p_wait"
    /\ ~PollHit(p)
    /\ Exit(p, "idle")
    /\ UNCHANGED <<files, lock, sent, faults, seen>>

-----------------------------------------------------------------------------
(***************************************************************************)
(* Failed operations and killed processes.                                 *)
(***************************************************************************)

Fault == faults < MaxFaults /\ faults' = faults + 1

\* An error return before the rename: <path>.tmp is unlinked unless opening
\* it is what failed, the lock is released, the chat file is as it was.
WriteFail(p) ==
    /\ pc[p] \in {"s_lock", "s_write", "s_rename", "t_lock", "t_rename"}
    /\ Fault
    /\ \/ pc[p] \in {"s_write", "s_rename", "t_rename"} /\ tmp' = NoFile
       \/ pc[p] \in {"s_lock", "s_write", "t_lock"} /\ tmp' = tmp
    /\ Release(p)
    /\ Exit(p, "idle")
    /\ UNCHANGED <<main, archives, cursors, sent, seen>>

\* chat_auto_archive returns -1 before the trimmed file is in place.
ArchiveFail(p) ==
    /\ pc[p] \in {"a_archive", "a_write", "a_rename"}
    /\ Fault
    /\ tmp' = IF pc[p] = "a_rename" THEN NoFile ELSE tmp
    /\ Goto(p, "s_unlock")
    /\ UNCHANGED <<main, archives, cursors, lock, hnd, buf, idx, ctab, sent,
                   seen>>

\* The adjusted cursors cannot be written: chat_auto_archive returns -1 when
\* the write fails, but 0 when opening or renaming the temporary file fails.
ArchiveCursorsFail(p) ==
    /\ pc[p] = "a_cursors"
    /\ Fault
    /\ \/ idx' = idx
       \/ idx' = [idx EXCEPT ![p] = ArchivedIndex(Len(buf[p].lines) - 1)]
    /\ Goto(p, "s_unlock")
    /\ UNCHANGED <<main, tmp, archives, cursors, lock, hnd, buf, ctab, sent,
                   seen>>

\* chat_cursor_write fails; its callers go on.
CursorFail(p) ==
    /\ pc[p] \in {"w_lock", "w_rename"}
    /\ Fault
    /\ Release(p)
    /\ Exit(p, "idle")
    /\ UNCHANGED <<files, sent, seen>>

\* The process is killed: the kernel drops its lock, nothing else changes.
Crash(p) ==
    /\ pc[p] # "idle"
    /\ Fault
    /\ Release(p)
    /\ Exit(p, "idle")
    /\ UNCHANGED <<files, sent, seen>>

\* The shell collects a process that failed an assertion.
Reap(p) ==
    /\ pc[p] = "aborted"
    /\ Goto(p, "idle")
    /\ UNCHANGED <<files, lock, hnd, buf, idx, ctab, sent, faults, seen>>

-----------------------------------------------------------------------------
Call(p) ==
    \/ \E h \in Senders : SendCall(p, h)
    \/ \E h \in Readers : ReadCall(p, h)
    \/ \E h \in Readers : PollCall(p, h)
    \/ \E h \in Readers, v \in 0 .. THRESHOLD : CursorSet(p, h, v)
    \/ \E k \in 0 .. Len(ChatRead.lines) - 1 : DeleteCall(p, k)

\* What a running command does next when nothing goes wrong.
Step(p) ==
    \/ SendRead(p) \/ SendAbort(p) \/ SendWrite(p) \/ SendRename(p)
    \/ ArchiveWrite(p) \/ ArchiveRewrite(p) \/ ArchiveRename(p)
    \/ ArchiveCursors(p) \/ SendUnlock(p)
    \/ CursorRead(p) \/ CursorRename(p)
    \/ ReadShow(p)
    \/ TruncateSkip(p) \/ TruncateWrite(p) \/ TruncateRename(p)
    \/ DeleteVerify(p)
    \/ PollReturn(p) \/ PollTimeout(p)
    \/ Reap(p)

Disturb(p) ==
    \/ WriteFail(p) \/ ArchiveFail(p) \/ ArchiveCursorsFail(p)
    \/ CursorFail(p) \/ Crash(p)

Next == \E p \in Procs : Call(p) \/ Step(p) \/ Disturb(p)

Spec == Init /\ [][Next]_vars

-----------------------------------------------------------------------------
(***************************************************************************)
(* Fairness: a running command goes on, and a process blocked in F_SETLKW  *)
(* gets the lock if the lock keeps being released.  Nobody is obliged to   *)
(* issue a command, and no fault is obliged to happen.                     *)
(***************************************************************************)

FairSpec == Spec /\ \A p \in Procs : SF_vars(Step(p))

-----------------------------------------------------------------------------
(***************************************************************************)
(* Properties.                                                             *)
(***************************************************************************)

\* The process at a locked point is the one that holds the lock.
LockInv == \A p \in Procs : lock = p <=> pc[p] \in LockedPoints

\* A command that works for a handle has one.
HandleOK(p) ==
    pc[p] \in SendPoints \cup {"s_lock", "w_lock", "w_rename", "r_cursor"}
        => hnd[p] \in Handles

\* What chat_send has in memory and in <path>.tmp is the chat file with one
\* message added, later the chat file itself.
SendOK(p) ==
    /\ pc[p] \in SendPoints => buf[p].lines # << >>
    /\ pc[p] \in {"s_write", "s_rename"} =>
          LET m == buf[p].lines[Len(buf[p].lines)]
          IN  /\ buf[p].lines = Append(main.lines, m)
              /\ \A i \in DOMAIN main.lines : main.lines[i].n < m.n
              /\ m.n <= sent
    /\ pc[p] = "s_rename" => tmp = buf[p]
    /\ pc[p] \in {"a_archive", "a_write", "a_rename"} =>
          main = buf[p] /\ Len(main.lines) > THRESHOLD
    /\ pc[p] \in {"a_write", "a_rename"} =>
          SubSeq(main.lines, 1, CLEAVE) \in archives
    /\ pc[p] = "a_rename" => tmp = Trimmed(main)

\* What chat_truncate is about to rename is a proper prefix of the chat file.
TruncOK(p) ==
    pc[p] = "t_rename" =>
        tmp = Truncated(idx[p]) /\ idx[p] < Len(main.lines)

\* The table chat_cursor_write is about to rename differs from the cursor file
\* in its own entry only.
CursorOK(p) ==
    pc[p] = "w_rename" => ctab[p] = CursorTable(cursors, hnd[p], idx[p])

OwnOK(p) == HandleOK(p) /\ SendOK(p) /\ TruncOK(p) /\ CursorOK(p)

StampInv == \A i \in DOMAIN main.lines : main.lines[i].n <= sent

\* The inductive invariant: while a writer is at work nobody else changes what
\* it read under the lock, so the temporary file it renames into place is
\* derived from the current chat file and the current cursors.
IInv ==
    /\ TypeOK
    /\ LockInv
    /\ StampInv
    /\ \A p \in Procs : OwnOK(p)

Archived == UNION {Elems(a) : a \in archives}
Stored   == Elems(main.lines) \cup Archived

\* Seen from the outside the chat is a log: a message enters it when chat_send
\* renames the new file into place, leaves it only by a delete, and archiving,
\* failed writes and crashes at any point change nothing.
Log == INSTANCE ChatLog WITH stored <- Stored, clock <- sent

LogSpec == Log!Spec

\* Every index into the chat file stays good: a step adds one line, later than
\* all others, at the end, or drops exactly the CLEAVE first lines once an
\* archive has them (the shift the cursors are adjusted by), or cuts off the
\* end.  No writer ever puts back lines another writer changed meanwhile.
IndexStep ==
    LET old == main.lines
        new == main'.lines
    IN  \/ /\ Len(new) = Len(old) + 1
           /\ SubSeq(new, 1, Len(old)) = old
           /\ \A i \in 1 .. Len(old) : old[i].n < new[Len(new)].n
        \/ /\ CLEAVE <= Len(old)
           /\ new = SubSeq(old, CLEAVE + 1, Len(old))
           /\ SubSeq(old, 1, CLEAVE) \in archives
        \/ Len(new) < Len(old) /\ new = SubSeq(old, 1, Len(new))

IndexStable == [][IndexStep]_main

\* The participants header never counts fewer messages of a handle than the
\* chat file has, and last-writer is the handle of the last line, whichever
\* writers and archives got interrupted.
HeaderCoversLines ==
    /\ \A h \in Handles :
          main.parts[h] >= CountParticipants(main.lines)[h]
    /\ main.lines # << >> =>
          main.writer = main.lines[Len(main.lines)].h

\* A handle's cursor changes only to the index its own command computed or by
\* the adjustment of an archive: the table written back never reverts the
\* update another handle made meanwhile.
CursorStep ==
    \/ \A h \in Handles : cursors'[h] = AdjustCursor(cursors[h])
    \/ \E p \in Procs :
          /\ pc[p] = "w_rename"
          /\ \A h \in Handles :
                cursors'[h] # cursors[h] => h = hnd[p] /\ cursors'[h] = idx[p]

NoLostCursorUpdate == [][CursorStep]_cursors

\* docs/chat-architecture/cursors.md: "A cursor value of N means messages 0
\* through N have been delivered to the agent's terminal."  It does for a
\* handle that only reads, although it takes the snapshot, the cursor and the
\* lock for writing the cursor at three different times, as long as no message
\* before the last one was archived or deleted or failed to be sent.
ReaderCursorDelivered ==
    (\A i \in DOMAIN main.lines : main.lines[i].n = i) =>
        \A h \in Handles \ Senders : \A i \in DOMAIN main.lines :
            i <= cursors[h] + 1 => main.lines[i].n \in seen[h]

\* docs/chat-architecture/archive.md: after an archive an agent "will re-read
\* from the beginning of the shortened file": the adjustment of the cursors
\* makes no unread message read.
ArchiveKeepsUnread ==
    [][\A p \in Procs : ArchiveCursors(p) =>
          \A h \in Handles : \A i \in DOMAIN main.lines :
              i + CLEAVE > cursors[h] + 1 => i > cursors'[h] + 1]_vars

\* Every command ends, even when lock holders are killed and writes fail.
EveryCommandEnds == \A p \in Procs : pc[p] # "idle" ~> pc[p] = "idle"

=============================================================================
