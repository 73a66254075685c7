--------------------------- MODULE SessionsProofs ---------------------------
(***************************************************************************)
(* Proofs about the life of an nbs-ts session and about the clients of its *)
(* logs, for every number of readers, size of the output and of a read,    *)
(* set of exit codes and pattern.                                          *)
(***************************************************************************)
EXTENDS Sessions, SessionLogs, SequenceTheorems, TLAPS

-----------------------------------------------------------------------------
(***************************************************************************)
(* The life of a session.                                                  *)
(***************************************************************************)

STypeOK ==
    /\ files \subseteq {"dir", "logs", "meta", "daemon_pid", "pid", "fifo", "exit_code"}
    /\ create \in {"mkdir", "logs", "pty", "meta", "fork", "daemon_pid", "done", "failed"}
    /\ mode \in {"direct", "helper", "nopid"}
    /\ interactive \in BOOLEAN /\ idled \in BOOLEAN /\ old \in BOOLEAN
    /\ child \in {"none", "running", "exited", "killed"}
    /\ daemon \in {"none", "fork", "pid", "open", "relay", "unlink", "reap", "close", "gone"}
    /\ killer \in {"idle", "daemon", "unlink_all", "unlink", "rmdir_all", "rmdir",
                   "done_all", "done"}
    /\ gc \in {"idle", "age", "epoch", "remove", "removed", "removed_epoch"}

Over == child \in {"exited", "killed"}

\* Who has started when: cmd_create forks the daemon, and the command is
\* started by the helper before that or by the daemon.
StartInv ==
    /\ daemon = "none" <=> create \in {"mkdir", "logs", "pty", "meta", "fork", "failed"}
    /\ create \in {"mkdir", "logs", "pty"} => child = "none"
    /\ create \in {"meta", "fork", "daemon_pid", "done"} /\ mode # "direct" =>
           child # "none"
    /\ daemon \notin {"none", "fork"} => child # "none"

\* The files: who has written them, and that nothing is left without the
\* directory.
FilesInv ==
    /\ "dir" \notin files => files = {}
    /\ create = "mkdir" \/ create = "failed" => files = {}
    /\ "meta" \in files => create \in {"fork", "daemon_pid", "done"}
    /\ "daemon_pid" \in files => create = "done"
    /\ "pid" \in files => daemon \notin {"none", "fork", "pid"}
    /\ "meta" \in files /\ daemon \notin {"none", "fork", "pid"} => "pid" \in files
    /\ "exit_code" \in files => daemon \in {"close", "gone"}

\* The end of the relay, and what the exit code is.
ExitInv ==
    /\ (daemon \in {"unlink", "reap", "close"} \/ "exit_code" \in files) /\ ~idled =>
           Over /\ logged = produced
    /\ mode # "direct" /\ ~interactive /\ child = "exited" =>
           completion = code /\ code \in Codes
    /\ "exit_code" \in files /\ child = "exited" /\ ~idled =>
           exit_code = code \/ (mode # "direct" /\ interactive)

\* A kill that goes on has found a command that had started.
KillInv ==
    /\ killer # "idle" => daemon \notin {"none", "fork", "pid"}
    /\ killer # "idle" => Over \/ mode = "nopid"
    /\ killer \in {"unlink_all", "rmdir_all", "done_all"} =>
           create = "done" /\ daemon = "gone"
    /\ killer = "rmdir_all" => files \subseteq {"dir"}
    /\ killer = "done_all" => files = {}

\* A session that is old has been created, and a gc that looks at its age has
\* not seen its command.
GcInv ==
    /\ old => create \in {"done", "failed"} /\ daemon \notin {"fork", "pid", "open"}
    /\ gc = "age" /\ old /\ child = "running" /\ "meta" \in files => mode = "nopid"
    /\ gc \in {"remove", "removed"} => old /\ (child = "running" => mode = "nopid")

SInv == STypeOK /\ StartInv /\ FilesInv /\ ExitInv /\ KillInv /\ GcInv

\* Every step keeps the invariant.
LEMMA SStep ==
    ASSUME SInv, [SNext]_svars
    PROVE  SInv'
  <1> USE DEF SInv, STypeOK, StartInv, FilesInv, ExitInv, KillInv, GcInv, Over,
              creating, process, relayed, ended
  <1>1. CASE MakeDir
    BY <1>1 DEF MakeDir, Creates
  <1>2. CASE CreateLogs
    BY <1>2 DEF CreateLogs, Creates, Write
  <1>3. CASE helper_request_pty
    BY <1>3 DEF helper_request_pty, Creates, handle_client
  <1>4. CASE WriteMetadata
    BY <1>4 DEF WriteMetadata, Creates, Write
  <1>5. CASE ForkDaemon
    BY <1>5 DEF ForkDaemon, Creates
  <1>6. CASE WriteDaemonPid
    BY <1>6 DEF WriteDaemonPid, Creates, Write
  <1>7. CASE ForkChild
    BY <1>7 DEF ForkChild, Daemon
  <1>8. CASE WritePid
    BY <1>8 DEF WritePid, Daemon, Write
  <1>9. CASE OpenRelay
    BY <1>9 DEF OpenRelay, Daemon
  <1>10. CASE RelayOutput
    BY <1>10 DEF RelayOutput, Daemon
  <1>11. CASE RelayInput
    BY <1>11 DEF RelayInput
  <1>12. CASE RelayHangup
    BY <1>12 DEF RelayHangup, Daemon
  <1>13. CASE UnlinkFifo
    BY <1>13 DEF UnlinkFifo, Daemon
  <1>14. CASE Reap
    <2>1. STypeOK' /\ StartInv' /\ FilesInv' /\ KillInv' /\ GcInv'
      <3>1. /\ files' = files \/ ("dir" \in files /\ files' = files \cup {"exit_code"})
            /\ daemon = "reap" /\ daemon' = "close"
            /\ UNCHANGED <<creating, process, idled, ended>>
        BY <1>14 DEF Reap, Daemon, Write
      <3>2. STypeOK'
        <4> HIDE DEF StartInv, FilesInv, ExitInv, KillInv, GcInv
        <4>1. /\ create' = create /\ mode' = mode /\ interactive' = interactive
              /\ child' = child /\ idled' = idled
              /\ killer' = killer /\ gc' = gc /\ old' = old
          BY <3>1
        <4>2. files' \subseteq {"dir", "logs", "meta", "daemon_pid", "pid", "fifo",
                                "exit_code"}
          BY <3>1
        <4> QED BY <3>1, <4>1, <4>2
      <3>3. StartInv'
        BY <3>1
      <3>4. FilesInv'
        BY <3>1
      <3>5. KillInv' /\ GcInv'
        BY <3>1
      <3> QED BY <3>2, <3>3, <3>4, <3>5
    <2>2. CASE mode = "nopid"
      BY <1>14, <2>1, <2>2 DEF Reap, Daemon
    <2>3. CASE mode = "direct"
      BY <1>14, <2>1, <2>3 DEF Reap, Daemon
    <2>4. CASE mode = "helper"
      <3>1. ~interactive /\ child = "exited" => exit_code' = code
        BY <1>14, <2>4, SessionsAssumption DEF Reap, Unset
      <3> QED BY <1>14, <2>1, <2>4, <3>1 DEF Reap, Daemon
    <2> QED BY <2>2, <2>3, <2>4
  <1>15. CASE CloseTerminal
    BY <1>15 DEF CloseTerminal, Daemon
  <1>16. CASE RelayIdle
    BY <1>16 DEF RelayIdle, Daemon
  <1>17. CASE Produce
    BY <1>17 DEF Produce
  <1>18. CASE cmd_send
    BY <1>18 DEF cmd_send, session_exists
  <1>19. CASE KillChild
    BY <1>19 DEF KillChild, Kills, session_exists, session_is_alive
  <1>20. CASE KillDaemon
    BY <1>20 DEF KillDaemon, Kills
  <1>21. CASE KillUnlink
    BY <1>21 DEF KillUnlink, Kills
  <1>22. CASE KillRmdir
    <2>1. CASE files = {"dir"}
      BY <1>22, <2>1 DEF KillRmdir, Kills
    <2>2. CASE files # {"dir"}
      <3>1. killer = "rmdir_all" => files = {}
        BY <2>2
      <3> QED BY <1>22, <2>2, <3>1 DEF KillRmdir, Kills
    <2> QED BY <2>1, <2>2
  <1>23. CASE GcLook
    BY <1>23 DEF GcLook, session_is_alive
  <1>24. CASE GcAge
    BY <1>24 DEF GcAge
  <1>25. CASE remove_session_dir
    BY <1>25 DEF remove_session_dir
  <1>26. CASE Ages
    BY <1>26 DEF Ages
  <1>27. ASSUME NEW c \in Codes, PromptCommand(c) PROVE SInv'
    BY <1>27, SessionsAssumption DEF PromptCommand
  <1>28. ASSUME NEW c \in Codes, Exit(c) PROVE SInv'
    BY <1>28, SessionsAssumption DEF Exit
  <1>29. CASE UNCHANGED svars
    BY <1>29 DEF svars
  <1> QED BY <1>1, <1>2, <1>3, <1>4, <1>5, <1>6, <1>7, <1>8, <1>9, <1>10, <1>11, <1>12, <1>13, <1>14, <1>15, <1>16, <1>17, <1>18, <1>19, <1>20, <1>21, <1>22, <1>23, <1>24, <1>25, <1>26, <1>27, <1>28, <1>29
      DEF SNext, cmd_create, daemon_relay, cmd_kill, cmd_gc

\* The invariant of a session.
THEOREM SInvariant == SSpec => []SInv
  <1>1. SInit => SInv
    BY DEF SInit, SInv, STypeOK, StartInv, FilesInv, ExitInv, KillInv, GcInv
  <1>2. SInv /\ [SNext]_svars => SInv'
    BY SStep
  <1> QED BY <1>1, <1>2, PTL DEF SSpec

\* The exit code appears after all output is in the log, and it is the code of
\* the command: the daemon drains the terminal before it reaps, in every
\* interleaving with the command, the sends, kill and gc.
THEOREM ExitCodeCorrect == SSpec => []ExitCodeLast
  <1>1. SInv => ExitCodeLast
    BY DEF SInv, ExitInv, ExitCodeLast, cmd_exit_code, session_exists
  <1> QED BY <1>1, SInvariant, PTL

\* kill leaves nothing behind once it knows the daemon, and gc removes no
\* session whose command it could see running.
THEOREM RemovalCorrect == SSpec => []RemovalSound
  <1>1. SInv => RemovalSound
    BY DEF SInv, KillInv, GcInv, Over, RemovalSound, KillLeavesNothing, GcSparesLive
  <1> QED BY <1>1, SInvariant, PTL

-----------------------------------------------------------------------------
(***************************************************************************)
(* The clients of the logs.                                                *)
(***************************************************************************)

Bytes == Range(Pattern) \cup UNION {Range(c) : c \in Chunks}

Calls == [by : {"cli", "lib"}, at : {"look", "poll"}, offset : Nat, seen : Nat,
          found : BOOLEAN, event : BOOLEAN]

LTypeOK ==
    /\ out \in Seq(Bytes)
    /\ whole \in SUBSET Nat
    /\ comp \in Nat
    /\ read_cursor \in Nat
    /\ rd \in [Readers -> [at : {"idle", "pread", "write", "print"}, from : Nat, to : Nat]]
    /\ completion_cursor \in Nat
    /\ wc \in [at : {"idle", "watch", "scan", "poll", "write", "print"},
               cursor : Nat, watch : BOOLEAN, event : BOOLEAN]
    /\ reported \in Seq(Nat)
    /\ wp \in Calls
    /\ cuts \in SUBSET Nat

\* A byte that has been printed or is about to be.
Delivered(i) ==
    i \in printed \/ \E r \in Readers : rd[r].at = "print" /\ i > rd[r].from /\ i =< rd[r].to

\* What is behind the cursor is delivered, and so is what was behind it when a
\* call read it: a call that writes an old cursor loses nothing.
ReadInv ==
    /\ \A i \in 1..read_cursor : Delivered(i)
    /\ \A r \in Readers : rd[r].at # "idle" => \A i \in 1..rd[r].from : Delivered(i)

\* The cursor of wait-complete is ahead of the saved one only between the scan
\* and the save, and what was reported is not ahead of the saved one.
WaitInv ==
    /\ wc.at \in {"watch", "scan", "poll", "print"} => wc.cursor = completion_cursor
    /\ wc.at = "write" => wc.cursor > completion_cursor
    /\ \A i \in DOMAIN reported :
          /\ reported[i] <= completion_cursor
          /\ wc.at = "print" => reported[i] < completion_cursor
    /\ CompletionsOnce

\* The cap of a look cut through the pattern at i, for a caller who cannot
\* make up for it.
Excused(i) ==
    /\ wp.by = "cli" \/ LOOK_MAX < Len(Pattern)
    /\ \E c \in cuts : i < c /\ c < i + Len(Pattern)

\* A pattern that one write held is in the log. If a look has ended behind it,
\* it is found, else the next look takes it from its first byte on.
MatchInv ==
    /\ wp.offset <= Len(out) /\ wp.seen <= Len(out)
    /\ \A i \in whole :
          /\ i + Len(Pattern) <= Len(out)
          /\ \A k \in 1..Len(Pattern) : out[i + k] = Pattern[k]
          /\ \/ Excused(i)
             \/ i + Len(Pattern) <= wp.seen /\ wp.found
             \/ i + Len(Pattern) > wp.seen /\ i >= wp.offset

LInv == LTypeOK /\ ReadInv /\ WaitInv /\ MatchInv

\* Output and pattern are sequences of bytes, and the pattern is not empty.
LEMMA BytesType ==
    /\ Chunks \subseteq Seq(Bytes)
    /\ Pattern \in Seq(Bytes) /\ Len(Pattern) \in Nat \ {0}
  <1>1. ASSUME NEW S, S \subseteq Bytes PROVE Seq(S) \subseteq Seq(Bytes)
    <2>1. ASSUME NEW s \in Seq(S) PROVE s \in Seq(Bytes)
      BY <1>1, SeqDef
    <2> QED BY <2>1
  <1>2. Pattern \in Seq(Bytes)
    BY <1>1, SessionLogsAssumption DEF Bytes
  <1>3. Chunks \subseteq Seq(Bytes)
    BY <1>1, SessionLogsAssumption DEF Bytes
  <1>4. Len(Pattern) \in Nat \ {0}
    BY <1>2, SessionLogsAssumption, EmptySeq, LenProperties
  <1> QED BY <1>2, <1>3, <1>4

\* The pattern is in a sequence where it is there byte by byte.
LEMMA PositionsBytes ==
    ASSUME NEW s \in Seq(Bytes)
    PROVE  Positions(s) = {i \in 0..Len(s) :
                              /\ i + Len(Pattern) =< Len(s)
                              /\ \A k \in 1..Len(Pattern) : s[i + k] = Pattern[k]}
  <1> DEFINE n == Len(Pattern)
  <1>1. Pattern \in Seq(Bytes) /\ n \in Nat \ {0} /\ Len(s) \in Nat
    BY BytesType, LenProperties
  <1>2. ASSUME NEW i \in 0..Len(s), i + n =< Len(s)
        PROVE  SubSeq(s, i + 1, i + n) = Pattern <=>
                  \A k \in 1..n : s[i + k] = Pattern[k]
    <2> DEFINE t == SubSeq(s, i + 1, i + n)
    <2> HIDE DEF n
    <2>1. /\ t \in Seq(Bytes) /\ Len(t) = n
          /\ \A k \in 1..n : t[k] = s[i + k]
      <3>1. /\ i + 1 \in Int /\ i + n \in Int
            /\ \A k \in i + 1 .. i + n : s[k] \in Bytes
        <4>1. \A k \in i + 1 .. i + n : k \in 1 .. Len(s)
          BY <1>1, <1>2
        <4>2. \A k \in 1 .. Len(s) : s[k] \in Bytes
          BY ElementOfSeq
        <4> QED BY <1>1, <1>2, <4>1, <4>2
      <3>2. /\ t \in Seq(Bytes)
            /\ Len(t) = IF i + 1 <= i + n THEN (i + n) - (i + 1) + 1 ELSE 0
            /\ \A k \in 1 .. (i + n) - (i + 1) + 1 : t[k] = s[(i + 1) + k - 1]
        BY <3>1, SubSeqProperties
      <3>3. (i + n) - (i + 1) + 1 = n /\ i + 1 <= i + n
        BY <1>1
      <3>4. \A k \in 1..n : (i + 1) + k - 1 = i + k
        BY <1>1
      <3> HIDE DEF t
      <3> QED BY <3>2, <3>3, <3>4
    <2> HIDE DEF t
    <2>2. t = Pattern => \A k \in 1..n : s[i + k] = Pattern[k]
      BY <2>1
    <2>3. (\A k \in 1..n : s[i + k] = Pattern[k]) => t = Pattern
      BY <1>1, <2>1, SeqEqual DEF n
    <2> QED BY <2>2, <2>3 DEF t
  <1> HIDE DEF n
  <1>3. Positions(s) = {i \in 0..Len(s) : i + n =< Len(s) /\ SubSeq(s, i + 1, i + n) = Pattern}
    BY DEF Positions, n
  <1> QED BY <1>2, <1>3 DEF n

\* What a look takes, byte by byte.
LEMMA TakenBytes ==
    ASSUME NEW s \in Seq(Bytes), NEW e \in 0..Len(s), NEW o \in 0..e
    PROVE  /\ SubSeq(s, o + 1, e) \in Seq(Bytes)
           /\ Len(SubSeq(s, o + 1, e)) = e - o
           /\ \A k \in 1..(e - o) : SubSeq(s, o + 1, e)[k] = s[o + k]
  <1> DEFINE t == SubSeq(s, o + 1, e)
  <1>1. Len(s) \in Nat
    BY LenProperties
  <1>2. /\ o + 1 \in Int /\ e \in Int
        /\ \A k \in o + 1 .. e : s[k] \in Bytes
    <2>1. \A k \in o + 1 .. e : k \in 1 .. Len(s)
      BY <1>1
    <2>2. \A k \in 1 .. Len(s) : s[k] \in Bytes
      BY ElementOfSeq
    <2> QED BY <1>1, <2>1, <2>2
  <1>3. /\ t \in Seq(Bytes)
        /\ Len(t) = IF o + 1 <= e THEN e - (o + 1) + 1 ELSE 0
        /\ \A k \in 1 .. e - (o + 1) + 1 : t[k] = s[(o + 1) + k - 1]
    BY <1>2, SubSeqProperties
  <1>4. /\ e - (o + 1) + 1 = e - o
        /\ ~(o + 1 <= e) => e - o = 0
        /\ \A k \in 1..(e - o) : (o + 1) + k - 1 = o + k
    BY <1>1
  <1> HIDE DEF t
  <1>5. t \in Seq(Bytes) /\ Len(t) = e - o /\ \A k \in 1..(e - o) : t[k] = s[o + k]
    BY <1>3, <1>4
  <1> QED BY <1>5 DEF t

\* A look that takes the bytes of a pattern finds it.
LEMMA TakenHolds ==
    ASSUME NEW s \in Seq(Bytes), NEW e \in 0..Len(s), NEW o \in 0..e,
           NEW i \in Nat, o <= i, i + Len(Pattern) <= e,
           \A k \in 1..Len(Pattern) : s[i + k] = Pattern[k]
    PROVE  HoldsPattern(SubSeq(s, o + 1, e))
  <1> DEFINE t == SubSeq(s, o + 1, e)
             n == Len(Pattern)
             j == i - o
  <1>1. t \in Seq(Bytes) /\ Len(t) = e - o /\ \A k \in 1..(e - o) : t[k] = s[o + k]
    BY TakenBytes
  <1>2. n \in Nat \ {0}
    BY BytesType
  <1>3. Positions(t) = {p \in 0..Len(t) : p + n =< Len(t) /\ \A k \in 1..n : t[p + k] = Pattern[k]}
    BY <1>1, PositionsBytes
  <1>4. Len(s) \in Nat
    BY LenProperties
  <1> HIDE DEF t, n
  <1>5. j \in 0..Len(t) /\ j + n <= Len(t)
    BY <1>1, <1>2, <1>4 DEF n
  <1>6. ASSUME NEW k \in 1..n PROVE t[j + k] = Pattern[k]
    <2>1. j + k \in 1..(e - o) /\ o + (j + k) = i + k
      BY <1>2, <1>4 DEF n
    <2>2. t[j + k] = s[i + k]
      BY <1>1, <2>1
    <2> QED BY <2>2 DEF n
  <1> HIDE DEF j
  <1>7. j \in Positions(t)
    BY <1>3, <1>5, <1>6
  <1> QED BY <1>7 DEF HoldsPattern, t

\* Where a look ends.
LEMMA LookedRange ==
    ASSUME LTypeOK, wp.offset <= Len(out)
    PROVE  /\ Looked \in wp.offset..Len(out)
           /\ Looked < Len(out) => Looked = wp.offset + LOOK_MAX
  <1>1. wp.offset \in Nat /\ Len(out) \in Nat /\ LOOK_MAX \in Nat
    BY LenProperties, SessionLogsAssumption DEF LTypeOK, Calls
  <1> QED BY <1>1 DEF Looked

\* What read-new does keeps the rest.
ReadStepOf(r) == ReadCursor(r) \/ PRead(r) \/ WriteCursor(r) \/ PrintOutput(r)

\* The steps, sorted.
LEMMA LSteps ==
    ASSUME [Reading \/ Waiting \/ Matching]_lvars
    PROVE  \/ \E c \in Chunks : AppendOutput(c)
           \/ Prompt
           \/ \E r \in Readers : ReadStepOf(r)
           \/ WaitStart \/ AddWatch \/ Scan \/ Poll \/ SaveCompletion
           \/ PrintCompletion \/ WaitEnds
           \/ cmd_wait_pattern \/ nbs_ts_wait_pattern \/ PollPattern
           \/ UNCHANGED lvars
  BY DEF Reading, Waiting, Matching, Output, WaitComplete, ReadStepOf

\* Types.
LEMMA LTypeStep ==
    ASSUME LInv, [Reading \/ Waiting \/ Matching]_lvars
    PROVE  LTypeOK'
  <1> USE DEF LTypeOK
  <1>0. LTypeOK /\ wp.offset <= Len(out) /\ Len(out) \in Nat
    BY LenProperties DEF LInv, MatchInv
  <1>1. ASSUME NEW c \in Chunks, AppendOutput(c) PROVE LTypeOK'
    <2>1. c \in Seq(Bytes)
      BY BytesType
    <2>2. out' \in Seq(Bytes)
      BY <1>0, <1>1, <2>1, ConcatProperties DEF AppendOutput
    <2>3. whole' \in SUBSET Nat
      <3>1. Len(out) \in Nat /\ Len(c) \in Nat /\ whole \in SUBSET Nat
        BY <1>0, <2>1, LenProperties
      <3>2. whole' = whole \cup {Len(out) + i : i \in Positions(c)} /\ Positions(c) \subseteq 0..Len(c)
        BY <1>1 DEF AppendOutput, Positions
      <3>3. ASSUME NEW i \in Positions(c) PROVE Len(out) + i \in Nat
        BY <3>1, <3>2
      <3>4. {Len(out) + i : i \in Positions(c)} \subseteq Nat
        BY <3>3, Zenon
      <3> QED BY <3>1, <3>2, <3>4
    <2>4. wp' \in Calls
      BY <1>0, <1>1 DEF AppendOutput, Calls
    <2> QED BY <1>0, <1>1, <2>2, <2>3, <2>4 DEF AppendOutput
  <1>2. CASE Prompt
    <2>1. wc' \in [at : {"idle", "watch", "scan", "poll", "write", "print"},
                   cursor : Nat, watch : BOOLEAN, event : BOOLEAN]
      <3>1. wc' = [wc EXCEPT !.event = wc.watch] /\ wc.watch \in BOOLEAN
        BY <1>0, <1>2 DEF Prompt
      <3> QED BY <1>0, <3>1, Zenon
    <2> QED BY <1>0, <1>2, <2>1 DEF Prompt
  <1>3. ASSUME NEW r \in Readers, ReadStepOf(r) PROVE LTypeOK'
    <2>1. CASE ReadCursor(r)
      BY <1>0, <2>1 DEF ReadCursor, Reader
    <2>2. CASE PRead(r)
      <3> DEFINE to == IF Len(out) - rd[r].from > READ_MAX
                       THEN rd[r].from + READ_MAX ELSE Len(out)
      <3>1. to \in Nat /\ rd[r].from \in Nat
        BY <1>0, SessionLogsAssumption
      <3>2. rd' = [rd EXCEPT ![r] = [at |-> "write", from |-> rd[r].from, to |-> to]]
        BY <2>2 DEF PRead, Reader
      <3> HIDE DEF to
      <3>3. rd' \in [Readers -> [at : {"idle", "pread", "write", "print"},
                                 from : Nat, to : Nat]]
        BY <1>0, <3>1, <3>2
      <3> QED BY <1>0, <2>2, <3>3 DEF PRead
    <2>3. CASE WriteCursor(r)
      BY <1>0, <2>3 DEF WriteCursor, Reader
    <2>4. CASE PrintOutput(r)
      BY <1>0, <2>4 DEF PrintOutput, Reader
    <2> QED BY <1>3, <2>1, <2>2, <2>3, <2>4 DEF ReadStepOf
  <1>4. CASE WaitStart
    BY <1>0, <1>4 DEF WaitStart
  <1>5. CASE AddWatch
    BY <1>0, <1>5 DEF AddWatch
  <1>6. CASE Scan
    <2>1. Completed => comp - 1 \in Nat
      BY <1>0 DEF Completed
    <2>2. wc' \in [at : {"idle", "watch", "scan", "poll", "write", "print"},
                   cursor : Nat, watch : BOOLEAN, event : BOOLEAN]
      BY <1>0, <1>6, <2>1 DEF Scan
    <2> QED BY <1>0, <1>6, <2>2 DEF Scan
  <1>7. CASE Poll
    BY <1>0, <1>7 DEF Poll
  <1>8. CASE SaveCompletion
    BY <1>0, <1>8 DEF SaveCompletion, Waiter
  <1>9. CASE PrintCompletion
    <2>1. reported' \in Seq(Nat)
      BY <1>0, <1>9, AppendProperties DEF PrintCompletion
    <2> QED BY <1>0, <1>9, <2>1 DEF PrintCompletion
  <1>10. CASE WaitEnds
    BY <1>0, <1>10 DEF WaitEnds
  <1>20. ASSUME NEW o \in Nat, Look(HoldsPattern(Taken), o) PROVE LTypeOK'
    <2>1. HoldsPattern(Taken) \in BOOLEAN
      BY DEF HoldsPattern
    <2>2. Looked \in Nat
      BY <1>0, LookedRange DEF Calls
    <2>3. wp' = [wp EXCEPT !.at = "poll", !.found = HoldsPattern(Taken), !.offset = o, !.seen = Looked]
      BY <1>20 DEF Look
    <2>4. wp' \in Calls
      BY <1>0, <2>1, <2>2, <2>3 DEF Calls
    <2>5. cuts' \in SUBSET Nat
      BY <1>0, <1>20, <2>2 DEF Look
    <2> QED BY <1>0, <1>20, <2>4, <2>5 DEF Look
  <1>11. CASE cmd_wait_pattern
    <2>1. Looked \in Nat
      BY <1>0, LookedRange DEF Calls
    <2> QED BY <1>11, <1>20, <2>1 DEF cmd_wait_pattern
  <1>12. CASE nbs_ts_wait_pattern
    <2> DEFINE o == IF Looked - wp.offset >= Len(Pattern) THEN Looked - (Len(Pattern) - 1) ELSE Looked
    <2>1. o \in Nat
      <3>1. Looked \in Nat /\ wp.offset \in Nat /\ Len(Pattern) \in Nat /\ Len(Pattern) > 0
        BY <1>0, LookedRange, BytesType DEF Calls
      <3> QED BY <3>1
    <2>2. Look(HoldsPattern(Taken), o)
      BY <1>12 DEF nbs_ts_wait_pattern
    <2> HIDE DEF o
    <2> QED BY <2>1, <2>2, <1>20
  <1>14. CASE PollPattern
    <2>1. wp' \in Calls
      BY <1>0, <1>14 DEF PollPattern, Calls
    <2> QED BY <1>0, <1>14, <2>1 DEF PollPattern
  <1>13. CASE UNCHANGED lvars
    BY <1>0, <1>13 DEF lvars
  <1> QED BY LSteps, <1>1, <1>2, <1>3, <1>4, <1>5, <1>6, <1>7, <1>8, <1>9, <1>10,
             <1>11, <1>12, <1>13, <1>14


\* A byte that is delivered stays so.
LEMMA DeliveredStays ==
    ASSUME LTypeOK, NEW r \in Readers, ReadStepOf(r), NEW i \in Nat, Delivered(i)
    PROVE  Delivered(i)'
  <1>1. rd \in [Readers -> [at : {"idle", "pread", "write", "print"}, from : Nat, to : Nat]]
    BY DEF LTypeOK
  <1>2. CASE PrintOutput(r)
    <2>1. /\ printed' = printed \cup (rd[r].from + 1)..rd[r].to
          /\ \A q \in Readers : q # r => rd'[q] = rd[q]
      BY <1>1, <1>2 DEF PrintOutput, Reader
    <2>2. CASE i \in printed
      BY <2>1, <2>2 DEF Delivered
    <2>3. ASSUME NEW q \in Readers, rd[q].at = "print", i > rd[q].from, i =< rd[q].to
          PROVE  Delivered(i)'
      <3>1. CASE q = r
        <4>1. i \in printed'
          BY <1>1, <2>1, <2>3, <3>1
        <4> QED BY <4>1 DEF Delivered
      <3>2. CASE q # r
        BY <2>1, <2>3, <3>2 DEF Delivered
      <3> QED BY <3>1, <3>2
    <2> QED BY <2>2, <2>3 DEF Delivered
  <1>3. CASE ReadCursor(r) \/ PRead(r) \/ WriteCursor(r)
    <2>1. /\ printed' = printed /\ rd[r].at # "print"
          /\ \A q \in Readers : q # r => rd'[q] = rd[q]
      BY <1>1, <1>3 DEF ReadCursor, PRead, WriteCursor, Reader
    <2> QED BY <2>1 DEF Delivered
  <1> QED BY <1>2, <1>3 DEF ReadStepOf

\* The cursor of read-new.
LEMMA ReadStep ==
    ASSUME LInv, [Reading \/ Waiting \/ Matching]_lvars
    PROVE  ReadInv'
  <1>1. LTypeOK /\ ReadInv
    BY DEF LInv
  <1>2. CASE UNCHANGED <<read_cursor, rd, printed>>
    BY <1>1, <1>2 DEF ReadInv, Delivered
  <1>3. ASSUME NEW r \in Readers, ReadStepOf(r) PROVE ReadInv'
    <2>1. /\ rd \in [Readers -> [at : {"idle", "pread", "write", "print"}, from : Nat, to : Nat]]
          /\ read_cursor \in Nat
      BY <1>1 DEF LTypeOK
    <2>2. /\ \A i \in 1..read_cursor : Delivered(i)'
          /\ \A q \in Readers : rd[q].at # "idle" => \A i \in 1..rd[q].from : Delivered(i)'
      BY <1>1, <1>3, DeliveredStays DEF ReadInv
    <2>3. \A q \in Readers : q # r => rd'[q] = rd[q]
      BY <1>3, <2>1 DEF ReadStepOf, ReadCursor, PRead, WriteCursor, PrintOutput, Reader
    <2>4. \A i \in 1..read_cursor' : Delivered(i)'
      <3>1. CASE WriteCursor(r)
        <4>1. /\ read_cursor' = rd[r].to /\ rd[r].at # "idle"
              /\ rd'[r] = [at |-> "print", from |-> rd[r].from, to |-> rd[r].to]
          BY <2>1, <3>1 DEF WriteCursor, Reader
        <4>2. ASSUME NEW i \in 1..read_cursor' PROVE Delivered(i)'
          <5>1. CASE i <= rd[r].from
            BY <2>1, <2>2, <4>1, <5>1
          <5>2. CASE i > rd[r].from
            BY <2>1, <4>1, <5>2 DEF Delivered
          <5> QED BY <2>1, <4>1, <5>1, <5>2
        <4> QED BY <4>2
      <3>2. CASE ~WriteCursor(r)
        BY <1>3, <2>2, <3>2 DEF ReadStepOf, ReadCursor, PRead, PrintOutput
      <3> QED BY <3>1, <3>2
    <2>5. rd'[r].at # "idle" => \A i \in 1..rd'[r].from : Delivered(i)'
      <3>1. CASE ReadCursor(r)
        BY <2>1, <2>2, <3>1 DEF ReadCursor, Reader
      <3>2. CASE PRead(r)
        BY <2>1, <2>2, <3>2 DEF PRead, Reader
      <3>3. CASE WriteCursor(r)
        BY <2>1, <2>2, <3>3 DEF WriteCursor, Reader
      <3>4. CASE PrintOutput(r)
        BY <2>1, <3>4 DEF PrintOutput, Reader
      <3> QED BY <1>3, <3>1, <3>2, <3>3, <3>4 DEF ReadStepOf
    <2> QED BY <2>2, <2>3, <2>4, <2>5 DEF ReadInv
  <1> QED BY LSteps, <1>2, <1>3 DEF AppendOutput, Prompt, WaitStart, AddWatch, Scan,
             Poll, SaveCompletion, PrintCompletion, WaitEnds, cmd_wait_pattern,
             nbs_ts_wait_pattern, Look, PollPattern, lvars

\* The cursor of wait-complete.
LEMMA WaitStep ==
    ASSUME LInv, [Reading \/ Waiting \/ Matching]_lvars
    PROVE  WaitInv'
  <1>1. /\ WaitInv /\ completion_cursor \in Nat /\ comp \in Nat
        /\ reported \in Seq(Nat) /\ wc.cursor \in Nat
        /\ wc \in [at : {"idle", "watch", "scan", "poll", "write", "print"},
                   cursor : Nat, watch : BOOLEAN, event : BOOLEAN]
    BY DEF LInv, LTypeOK
  <1>2. CASE UNCHANGED <<completion_cursor, wc, reported>>
    BY <1>1, <1>2 DEF WaitInv, CompletionsOnce
  <1>3. CASE Prompt
    BY <1>1, <1>3 DEF Prompt, WaitInv, CompletionsOnce
  <1>4. CASE WaitStart
    BY <1>1, <1>4 DEF WaitStart, WaitInv, CompletionsOnce
  <1>5. CASE AddWatch
    BY <1>1, <1>5 DEF AddWatch, WaitInv, CompletionsOnce
  <1>6. CASE Scan
    <2>1. CASE Completed
      <3>1. /\ wc'.at = "write" /\ wc'.cursor = comp - 1
            /\ UNCHANGED <<completion_cursor, reported>> /\ wc.cursor = completion_cursor
        BY <1>1, <1>6, <2>1 DEF Scan, WaitInv
      <3>2. wc'.cursor > completion_cursor
        BY <1>1, <2>1, <3>1 DEF Completed
      <3> QED BY <1>1, <3>1, <3>2 DEF WaitInv, CompletionsOnce
    <2>2. CASE ~Completed
      <3>1. /\ wc'.at = "poll" /\ wc'.cursor = wc.cursor
            /\ UNCHANGED <<completion_cursor, reported>> /\ wc.cursor = completion_cursor
        BY <1>1, <1>6, <2>2 DEF Scan, WaitInv
      <3> QED BY <1>1, <3>1 DEF WaitInv, CompletionsOnce
    <2> QED BY <2>1, <2>2
  <1>7. CASE Poll
    BY <1>1, <1>7 DEF Poll, WaitInv, CompletionsOnce
  <1>8. CASE SaveCompletion
    <2>1. /\ wc.at = "write" /\ wc'.at = "print" /\ wc'.cursor = wc.cursor
          /\ completion_cursor' = wc.cursor /\ reported' = reported
      BY <1>1, <1>8 DEF SaveCompletion, Waiter
    <2>2. \A i \in DOMAIN reported : reported[i] \in Nat
      BY <1>1, ElementOfSeq, LenProperties
    <2> QED BY <1>1, <2>1, <2>2 DEF WaitInv, CompletionsOnce
  <1>9. CASE PrintCompletion
    <2> DEFINE n == Len(reported)
    <2>1. /\ wc.at = "print" /\ wc'.at = "idle" /\ wc.cursor = completion_cursor
          /\ completion_cursor' = completion_cursor
      BY <1>1, <1>9 DEF PrintCompletion, WaitInv
    <2>2. /\ DOMAIN reported = 1..n /\ DOMAIN reported' = 1..(n + 1) /\ n \in Nat
          /\ \A i \in 1..n : reported'[i] = reported[i]
          /\ reported'[n + 1] = completion_cursor
      BY <1>1, <1>9, <2>1, AppendProperties, LenProperties DEF PrintCompletion
    <2>3. \A i \in 1..n : reported[i] < completion_cursor
      BY <1>1, <2>1, <2>2 DEF WaitInv
    <2>4. \A i, j \in 1..n : i < j => reported[i] < reported[j]
      BY <1>1, <2>2 DEF WaitInv, CompletionsOnce
    <2> HIDE DEF n
    <2>5. \A i \in DOMAIN reported' : reported'[i] <= completion_cursor
      BY <1>1, <2>2, <2>3
    <2>6. CompletionsOnce'
      BY <2>2, <2>3, <2>4 DEF CompletionsOnce
    <2> QED BY <2>1, <2>5, <2>6 DEF WaitInv
  <1>10. CASE WaitEnds
    BY <1>1, <1>10 DEF WaitEnds, WaitInv, CompletionsOnce
  <1> QED BY LSteps, <1>2, <1>3, <1>4, <1>5, <1>6, <1>7, <1>8, <1>9, <1>10
          DEF AppendOutput, ReadStepOf, ReadCursor, PRead, WriteCursor, PrintOutput,
              cmd_wait_pattern, nbs_ts_wait_pattern, Look, PollPattern, lvars

\* A look keeps the invariant, whatever offset it leaves, if it leaves none
\* behind the first byte of a pattern that it did not take whole.
LEMMA LookStep ==
    ASSUME LInv, ~ wp.found, NEW o \in Nat, o <= Looked, Look(HoldsPattern(Taken), o),
           \A i \in whole : i + Len(Pattern) > Looked => Excused(i)' \/ i >= o
    PROVE  MatchInv'
  <1>1. /\ LTypeOK /\ MatchInv /\ out \in Seq(Bytes) /\ Len(out) \in Nat /\ Len(Pattern) \in Nat
        /\ wp \in Calls /\ whole \in SUBSET Nat /\ wp.offset \in Nat /\ wp.seen \in Nat
    BY LenProperties, BytesType DEF LInv, LTypeOK, Calls
  <1>2. Looked \in wp.offset..Len(out)
    BY <1>1, LookedRange DEF MatchInv
  <1>3. /\ out' = out /\ whole' = whole /\ cuts \subseteq cuts'
        /\ wp'.by = wp.by /\ wp'.seen = Looked /\ wp'.offset = o
        /\ wp'.found = HoldsPattern(Taken)
    BY <1>1 DEF Look, Calls
  <1>4. wp'.offset <= Len(out) /\ wp'.seen <= Len(out)
    BY <1>1, <1>2, <1>3
  <1>5. ASSUME NEW i \in whole
        PROVE  \/ Excused(i)'
               \/ i + Len(Pattern) <= wp'.seen /\ wp'.found
               \/ i + Len(Pattern) > wp'.seen /\ i >= wp'.offset
    <2>1. i \in Nat
      BY <1>1
    <2>2. Excused(i) => Excused(i)'
      BY <1>3 DEF Excused
    <2>3. CASE i + Len(Pattern) > Looked
      BY <1>3, <2>3
    <2>4. CASE i + Len(Pattern) <= Looked /\ ~ Excused(i)
      <3>1. i >= wp.offset
        BY <1>1, <2>4 DEF MatchInv
      <3>2. \A k \in 1..Len(Pattern) : out[i + k] = Pattern[k]
        BY <1>1 DEF MatchInv
      <3>3. Looked \in 0..Len(out) /\ wp.offset \in 0..Looked
        BY <1>1, <1>2
      <3>4. HoldsPattern(Taken)
        BY <1>1, <2>1, <2>4, <3>1, <3>2, <3>3, TakenHolds DEF Taken
      <3> QED BY <1>3, <2>4, <3>4
    <2>5. i + Len(Pattern) > Looked \/ i + Len(Pattern) <= Looked
      BY <1>1, <1>2, <2>1
    <2> QED BY <2>2, <2>3, <2>4, <2>5
  <1>6. \A i \in whole :
            /\ i + Len(Pattern) <= Len(out)
            /\ \A k \in 1..Len(Pattern) : out[i + k] = Pattern[k]
    BY <1>1 DEF MatchInv
  <1> QED BY <1>3, <1>4, <1>5, <1>6 DEF MatchInv

\* The offset of wait-pattern.
LEMMA MatchStep ==
    ASSUME LInv, [Reading \/ Waiting \/ Matching]_lvars
    PROVE  MatchInv'
  <1>1. /\ LTypeOK /\ MatchInv /\ out \in Seq(Bytes) /\ Len(out) \in Nat
        /\ Len(Pattern) \in Nat \ {0} /\ LOOK_MAX \in Nat
        /\ wp \in Calls /\ whole \in SUBSET Nat
        /\ wp.offset \in 0..Len(out) /\ wp.seen \in 0..Len(out)
    BY LenProperties, BytesType, SessionLogsAssumption DEF LInv, LTypeOK, MatchInv, Calls
  <1>2. CASE UNCHANGED <<out, whole, wp, cuts>>
    BY <1>1, <1>2 DEF MatchInv, Excused
  <1>3. ASSUME NEW c \in Chunks, AppendOutput(c) PROVE MatchInv'
    <2> DEFINE a == Len(out)
               b == Len(c)
               n == Len(Pattern)
    <2>1. c \in Seq(Bytes) /\ b \in Nat
      BY BytesType, LenProperties
    <2>2. /\ wp'.by = wp.by /\ wp'.offset = wp.offset /\ wp'.seen = wp.seen
          /\ wp'.found = wp.found /\ cuts' = cuts
          /\ whole' = whole \cup {a + i : i \in Positions(c)}
      BY <1>1, <1>3 DEF AppendOutput, Calls
    <2>3. /\ Len(out') = a + b
          /\ \A k \in 1..(a + b) : out'[k] = IF k <= a THEN out[k] ELSE c[k - a]
      <3>1. out' = out \o c
        BY <1>3 DEF AppendOutput
      <3> QED BY <1>1, <2>1, <3>1, ConcatProperties
    <2>4. Positions(c) = {i \in 0..b : i + n =< b /\ \A k \in 1..n : c[i + k] = Pattern[k]}
      BY <2>1, PositionsBytes
    <2>5. \A i : Excused(i) => Excused(i)'
      BY <2>2 DEF Excused
    <2>6. a \in Nat /\ b \in Nat /\ n \in Nat /\ n > 0 /\ wp.offset \in 0..a /\ wp.seen \in 0..a
      BY <1>1, <2>1
    <2>7. /\ \A i \in whole :
                /\ i + n <= a
                /\ \A k \in 1..n : out[i + k] = Pattern[k]
                /\ \/ Excused(i)
                   \/ i + n <= wp.seen /\ wp.found
                   \/ i + n > wp.seen /\ i >= wp.offset
          /\ whole \in SUBSET Nat
      BY <1>1 DEF MatchInv
    <2> HIDE DEF a, b, n
    <2>8. ASSUME NEW i \in whole
          PROVE  /\ i + n <= a + b
                 /\ \A k \in 1..n : out'[i + k] = Pattern[k]
      <3>1. i \in Nat /\ i + n <= a
        BY <2>7
      <3>2. ASSUME NEW k \in 1..n PROVE out'[i + k] = Pattern[k]
        <4>1. i + k \in 1..(a + b) /\ i + k <= a
          BY <2>6, <3>1
        <4>2. out'[i + k] = out[i + k]
          BY <2>3, <4>1
        <4> QED BY <2>7, <4>2
      <3>3. i + n <= a + b
        BY <2>6, <3>1
      <3> QED BY <3>2, <3>3
    <2>9. ASSUME NEW j \in Positions(c)
          PROVE  /\ (a + j) + n <= a + b
                 /\ \A k \in 1..n : out'[(a + j) + k] = Pattern[k]
                 /\ (a + j) + n > wp.seen /\ a + j >= wp.offset
      <3>1. j \in Nat /\ j + n <= b /\ \A k \in 1..n : c[j + k] = Pattern[k]
        BY <2>4, <2>6
      <3>2. ASSUME NEW k \in 1..n PROVE out'[(a + j) + k] = Pattern[k]
        <4>1. /\ (a + j) + k \in 1..(a + b) /\ ~((a + j) + k <= a)
              /\ ((a + j) + k) - a = j + k
          BY <2>6, <3>1
        <4>2. out'[(a + j) + k] = c[j + k]
          BY <2>3, <4>1
        <4> QED BY <3>1, <4>2
      <3>3. (a + j) + n <= a + b /\ (a + j) + n > wp.seen /\ a + j >= wp.offset
        BY <2>6, <3>1
      <3> QED BY <3>2, <3>3
    <2>10. wp'.offset <= a + b /\ wp'.seen <= a + b
      BY <2>2, <2>6
    <2>11. ASSUME NEW i \in whole'
           PROVE  /\ i + n <= a + b
                  /\ \A k \in 1..n : out'[i + k] = Pattern[k]
                  /\ \/ Excused(i)'
                     \/ i + n <= wp'.seen /\ wp'.found
                     \/ i + n > wp'.seen /\ i >= wp'.offset
      <3>1. CASE i \in whole
        <4>1. Excused(i)' \/ (i + n <= wp.seen /\ wp.found) \/ (i + n > wp.seen /\ i >= wp.offset)
          <5>1. Excused(i) => Excused(i)'
            BY <2>5, Zenon
          <5>2. Excused(i) \/ (i + n <= wp.seen /\ wp.found) \/ (i + n > wp.seen /\ i >= wp.offset)
            BY <2>7, <3>1
          <5> QED BY <5>1, <5>2, Zenon
        <4> QED BY <2>2, <2>8, <3>1, <4>1
      <3>2. CASE i \in {a + j : j \in Positions(c)}
        BY <2>2, <2>9, <3>2
      <3> QED BY <2>2, <3>1, <3>2
    <2> QED BY <2>3, <2>10, <2>11 DEF MatchInv, n
  <1>4. Looked \in wp.offset..Len(out) /\ (Looked < Len(out) => Looked = wp.offset + LOOK_MAX)
    BY <1>1, LookedRange
  <1>5. ASSUME Look(HoldsPattern(Taken), Looked),
               wp.by = "cli" \/ Looked - wp.offset < Len(Pattern),
               NEW i \in whole, i + Len(Pattern) > Looked
        PROVE  Excused(i)' \/ i >= Looked
    <2>1. i \in Nat /\ i + Len(Pattern) <= Len(out) /\ Looked \in Nat /\ wp.offset \in Nat
      BY <1>1, <1>4 DEF MatchInv
    <2>2. Looked < Len(out)
      BY <1>1, <1>5, <2>1
    <2>3. Looked \in cuts' /\ wp'.by = wp.by
      BY <1>1, <1>5, <2>2 DEF Look, Calls
    <2>4. wp.by = "cli" \/ LOOK_MAX < Len(Pattern)
      BY <1>1, <1>4, <1>5, <2>1, <2>2
    <2>5. i < Looked => Excused(i)'
      BY <1>5, <2>3, <2>4 DEF Excused
    <2> QED BY <2>1, <2>5
  <1>6. CASE cmd_wait_pattern
    <2>1. Look(HoldsPattern(Taken), Looked) /\ wp.by = "cli" /\ ~ wp.found
      BY <1>6 DEF cmd_wait_pattern, Looking
    <2>2. Looked \in Nat /\ Looked <= Looked
      BY <1>1, <1>4
    <2> QED BY <1>5, <2>1, <2>2, LookStep
  <1>7. CASE nbs_ts_wait_pattern
    <2>1. ~ wp.found
      BY <1>7 DEF nbs_ts_wait_pattern, Looking
    <2>2. CASE Looked - wp.offset >= Len(Pattern)
      <3> DEFINE o == Looked - (Len(Pattern) - 1)
      <3>1. Look(HoldsPattern(Taken), o)
        BY <1>7, <2>2 DEF nbs_ts_wait_pattern
      <3>2. o \in Nat /\ o <= Looked
        BY <1>1, <1>4, <2>2
      <3>3. \A i \in whole : i + Len(Pattern) > Looked => i >= o
        BY <1>1, <1>4
      <3> HIDE DEF o
      <3> QED BY <2>1, <3>1, <3>2, <3>3, LookStep
    <2>3. CASE ~ (Looked - wp.offset >= Len(Pattern))
      <3>1. Look(HoldsPattern(Taken), Looked)
        BY <1>7, <2>3 DEF nbs_ts_wait_pattern
      <3>2. Looked \in Nat /\ Looked <= Looked /\ Looked - wp.offset < Len(Pattern)
        BY <1>1, <1>4, <2>3
      <3> QED BY <1>5, <2>1, <3>1, <3>2, LookStep
    <2> QED BY <2>2, <2>3
  <1>8. CASE PollPattern
    <2>1. /\ UNCHANGED <<out, whole, cuts>>
          /\ wp'.by = wp.by /\ wp'.offset = wp.offset /\ wp'.seen = wp.seen /\ wp'.found = wp.found
      BY <1>1, <1>8 DEF PollPattern, Calls
    <2> QED BY <1>1, <2>1 DEF MatchInv, Excused
  <1> QED BY LSteps, <1>2, <1>3, <1>6, <1>7, <1>8 DEF Prompt, ReadStepOf, ReadCursor, PRead,
             WriteCursor, PrintOutput, WaitStart, AddWatch, Scan, Poll, SaveCompletion,
             PrintCompletion, WaitEnds, lvars

\* The invariant of the clients.
THEOREM LInvariant == LSpec => []LInv
  <1>1. LInit => LInv
    <2> SUFFICES ASSUME LInit PROVE LInv
      OBVIOUS
    <2>1. out = <<>> /\ reported = <<>> /\ Len(out) = 0 /\ DOMAIN reported = {}
      BY DEF LInit
    <2>2. LTypeOK
      <3>1. wp \in Calls
        <4>1. wp \in [by : {"cli", "lib"}, at : {"look"}, offset : {0}, seen : {0},
                      found : {FALSE}, event : {FALSE}]
          BY DEF LInit
        <4>2. {0} \subseteq Nat /\ {FALSE} \subseteq BOOLEAN /\ {"look"} \subseteq {"look", "poll"}
          OBVIOUS
        <4> QED BY <4>1, <4>2, Zenon DEF Calls
      <3>2. out \in Seq(Bytes) /\ reported \in Seq(Nat)
        BY <2>1
      <3>3. wc \in [at : {"idle", "watch", "scan", "poll", "write", "print"},
                   cursor : Nat, watch : BOOLEAN, event : BOOLEAN]
        BY DEF LInit
      <3> QED BY <3>1, <3>2, <3>3 DEF LInit, LTypeOK
    <2>3. ReadInv /\ WaitInv
      BY <2>1 DEF LInit, ReadInv, WaitInv, CompletionsOnce
    <2>4. MatchInv
      <3>1. wp.offset = 0 /\ wp.seen = 0 /\ whole = {}
        BY DEF LInit
      <3> QED BY <2>1, <3>1 DEF MatchInv
    <2> QED BY <2>2, <2>3, <2>4 DEF LInv
  <1>2. LInv /\ [Reading \/ Waiting \/ Matching]_lvars => LInv'
    BY LTypeStep, ReadStep, WaitStep, MatchStep DEF LInv
  <1> QED BY <1>1, <1>2, PTL DEF LSpec

\* read-new: every byte behind the cursor has been printed or is about to be,
\* for any number of concurrent calls and every size of a read.
THEOREM ReadNewCorrect == LSpec => []NoOutputLost
  <1>1. LInv => NoOutputLost
    BY DEF LInv, ReadInv, Delivered, NoOutputLost
  <1> QED BY <1>1, LInvariant, PTL

\* wait-complete: no completion is reported twice and none after a later one,
\* whatever call was killed or timed out in between.
THEOREM WaitCompleteCorrect == LSpec => []CompletionsOnce
  <1>1. LInv => CompletionsOnce
    BY DEF LInv, WaitInv
  <1> QED BY <1>1, LInvariant, PTL

\* wait-pattern, of the command and of the library: a pattern that one write of
\* the daemon holds is found by the look that ends behind it, for every pattern,
\* every output and every cap of a look. The exceptions are those of the
\* property: the command does not find a pattern that the cap cut through.
THEOREM WaitPatternCorrect == LSpec => []WholePatternFound
  <1>1. LInv => WholePatternFound
    <2> SUFFICES ASSUME LInv, NEW i \in whole, i + Len(Pattern) <= wp.seen
                 PROVE  wp.found \/ Excused(i)
      BY DEF WholePatternFound, Excused
    <2>1. i \in Nat /\ wp.seen \in Nat /\ Len(Pattern) \in Nat
      BY BytesType DEF LInv, LTypeOK, Calls
    <2> QED BY <2>1 DEF LInv, MatchInv
  <1> QED BY <1>1, LInvariant, PTL

=============================================================================
