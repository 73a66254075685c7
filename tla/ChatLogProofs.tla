--------------------------- MODULE ChatLogProofs ----------------------------
(***************************************************************************)
(* What the users of a chat rely on, for every number of processes,        *)
(* handles and messages: the header agrees with the lines, the chat with   *)
(* its archives is a log, and a reader's cursor covers only what the       *)
(* reader was shown.                                                       *)
(***************************************************************************)
EXTENDS ChatFileProofs, WellFoundedInduction

-----------------------------------------------------------------------------
(***************************************************************************)
(* The invariants, all of them on top of IInv.                             *)
(***************************************************************************)

\* chat_send is between stamping its message and renaming it into place.
SendingPoints == {"s_write", "s_rename"}

\* The message it is about to add.
Pending(p) == buf[p].lines[Len(buf[p].lines)]

\* The header of a file image agrees with its lines.
Covers(c) ==
    /\ \A h \in Handles : c.parts[h] >= CountParticipants(c.lines)[h]
    /\ c.lines # << >> => c.writer = c.lines[Len(c.lines)].h

HeaderInv ==
    /\ Covers(main)
    /\ \A p \in Procs : pc[p] \in SendingPoints => Covers(buf[p])

\* The lines are in the order of their stamps, and no stamp is used twice.
SortedInv ==
    /\ \A i \in DOMAIN main.lines : main.lines[i].n >= i
    /\ \A i, j \in DOMAIN main.lines :
          i < j => main.lines[i].n < main.lines[j].n
    /\ \A p \in Procs : pc[p] \in SendingPoints => Pending(p).n >= 1

\* The archives are older than everything that is not in them: what is left of
\* an interrupted archive in the chat file is exactly what the archive has.
ArchiveInv ==
    /\ \A a \in Archived : a \in Msg /\ a.n <= sent
    /\ \A a \in Archived : \A i \in DOMAIN main.lines :
          main.lines[i] \in Archived \/ a.n < main.lines[i].n
    /\ \A p \in Procs : pc[p] \in SendingPoints =>
          \A a \in Archived : a.n < Pending(p).n

LogInv == SortedInv /\ ArchiveInv

\* The first i lines are the first i messages ever stamped.
Pristine(i) == \A j \in 1 .. i : j \in DOMAIN main.lines /\ main.lines[j].n = j

\* The chat file will never again start with the first i messages: message i
\* was stamped, nobody is about to add it, and the file does not start so.
Lost(i) ==
    /\ i <= sent
    /\ \A p \in Procs : pc[p] \in SendingPoints => Pending(p).n # i
    /\ ~Pristine(i)

\* Handle h may have c as its cursor.
Delivered(h, c) == \A i \in 1 .. c + 1 : i \in seen[h] \/ Lost(i)

\* Every value a reader's cursor has, or is about to get, covers messages it was
\* shown; the snapshot a reader is about to print has message i at index i.
ReaderInv ==
    /\ \A p \in Procs : pc[p] \in SendPoints \cup {"s_lock"} => hnd[p] \in Senders
    /\ \A h \in Handles \ Senders : Delivered(h, cursors[h])
    /\ \A p \in Procs :
          pc[p] \in {"w_lock", "w_rename"} /\ hnd[p] \in Handles \ Senders
             => Delivered(hnd[p], idx[p])
    /\ \A p \in Procs : pc[p] = "r_cursor" =>
          \A i \in DOMAIN buf[p].lines : buf[p].lines[i].n = i \/ Lost(i)

-----------------------------------------------------------------------------
(***************************************************************************)
(* What a step leaves alone.                                               *)
(***************************************************************************)

\* A step of p touches the local variables of p only.
LEMMA OthersKeep ==
    ASSUME TypeOK, NEW p \in Procs, Call(p) \/ Step(p) \/ Disturb(p),
           NEW q \in Procs, q # p
    PROVE  /\ pc'[q] = pc[q] /\ hnd'[q] = hnd[q] /\ buf'[q] = buf[q]
           /\ idx'[q] = idx[q] /\ ctab'[q] = ctab[q]
  <1> USE DEF Goto, Exit
  <1>1. CASE Call(p)
    BY <1>1 DEF TypeOK, Call, SendCall, ReadCall, PollCall, CursorSet, DeleteCall
  <1>2. CASE Disturb(p)
    BY <1>2 DEF TypeOK, Disturb, WriteFail, ArchiveFail, ArchiveCursorsFail,
                CursorFail, Crash
  <1>3. CASE SendRead(p) \/ SendAbort(p) \/ SendWrite(p) \/ SendRename(p)
    BY <1>3 DEF TypeOK, SendRead, SendAbort, SendWrite, SendRename
  <1>4. CASE \/ ArchiveWrite(p) \/ ArchiveRewrite(p) \/ ArchiveRename(p)
             \/ ArchiveCursors(p) \/ SendUnlock(p)
    BY <1>4 DEF TypeOK, ArchiveWrite, ArchiveRewrite, ArchiveRename,
                ArchiveCursors, SendUnlock
  <1>5. CASE CursorRead(p) \/ CursorRename(p) \/ ReadShow(p)
    BY <1>5 DEF TypeOK, CursorRead, CursorRename, ReadShow, Show, Clamp
  <1>6. CASE \/ TruncateSkip(p) \/ TruncateWrite(p) \/ TruncateRename(p)
             \/ DeleteVerify(p) \/ PollReturn(p) \/ PollTimeout(p) \/ Reap(p)
    BY <1>6 DEF TypeOK, TruncateSkip, TruncateWrite, TruncateRename,
                DeleteVerify, PollReturn, PollTimeout, Reap
  <1> QED BY <1>1, <1>2, <1>3, <1>4, <1>5, <1>6 DEF Step

\* A process that is sending after a step was sending before, with the same
\* message, or has just stamped it.
LEMMA SendingKeep ==
    ASSUME TypeOK, [Next]_vars, NEW q \in Procs, pc'[q] \in SendingPoints
    PROVE  \/ SendRead(q)
           \/ /\ pc[q] \in SendingPoints /\ buf'[q] = buf[q]
              /\ hnd'[q] = hnd[q]
  <1> SUFFICES ASSUME ~UNCHANGED vars, ~SendRead(q)
               PROVE  /\ pc[q] \in SendingPoints /\ buf'[q] = buf[q]
                      /\ hnd'[q] = hnd[q]
    BY DEF vars
  <1>1. PICK p \in Procs : Call(p) \/ Step(p) \/ Disturb(p)
    BY DEF Next
  <1>2. CASE p # q
    BY <1>1, <1>2, OthersKeep
  <1>3. CASE p = q
    <2> USE <1>3 DEF Goto, Exit, SendingPoints
    <2>1. ~Call(p)
      BY DEF TypeOK, Call, SendCall, ReadCall, PollCall, CursorSet, DeleteCall
    <2>2. ~Disturb(p)
      BY DEF TypeOK, Disturb, WriteFail, ArchiveFail, ArchiveCursorsFail,
             CursorFail, Crash
    <2>3. ~(SendAbort(p) \/ SendRename(p))
      BY DEF TypeOK, SendAbort, SendRename
    <2>4. ~(\/ ArchiveWrite(p) \/ ArchiveRewrite(p) \/ ArchiveRename(p)
            \/ ArchiveCursors(p) \/ SendUnlock(p))
      BY DEF TypeOK, ArchiveWrite, ArchiveRewrite, ArchiveRename,
             ArchiveCursors, SendUnlock
    <2>5. ~(CursorRead(p) \/ CursorRename(p) \/ ReadShow(p))
      BY DEF TypeOK, CursorRead, CursorRename, ReadShow, Show, Clamp
    <2>6. ~(\/ TruncateSkip(p) \/ TruncateWrite(p) \/ TruncateRename(p)
            \/ DeleteVerify(p) \/ PollReturn(p) \/ PollTimeout(p) \/ Reap(p))
      BY DEF TypeOK, TruncateSkip, TruncateWrite, TruncateRename,
             DeleteVerify, PollReturn, PollTimeout, Reap
    <2>7. SendWrite(p)
      BY <1>1, <2>1, <2>2, <2>3, <2>4, <2>5, <2>6 DEF Step
    <2> QED BY <2>7 DEF SendWrite
  <1> QED BY <1>2, <1>3

\* Only three actions put a new chat file in place.
LEMMA ChatWriters ==
    ASSUME [Next]_vars, main' # main
    PROVE  \E p \in Procs :
              SendRename(p) \/ ArchiveRename(p) \/ TruncateRename(p)
  <1>1. PICK p \in Procs : Call(p) \/ Step(p) \/ Disturb(p)
    BY DEF Next, vars
  <1>2. ~Call(p)
    BY DEF Call, SendCall, ReadCall, PollCall, CursorSet, DeleteCall, files
  <1>3. ~Disturb(p)
    BY DEF Disturb, WriteFail, ArchiveFail, ArchiveCursorsFail, CursorFail,
           Crash, files
  <1> QED BY <1>1, <1>2, <1>3
          DEF Step, SendRead, SendAbort, SendWrite, ArchiveWrite, ArchiveRewrite,
              ArchiveCursors, SendUnlock, CursorRead, CursorRename, ReadShow,
              TruncateSkip, TruncateWrite, DeleteVerify, PollReturn, PollTimeout,
              Reap, files

\* Only chat_send takes a stamp, and only chat_auto_archive adds an archive.
LEMMA StampsAndArchives ==
    ASSUME [Next]_vars, sent' # sent \/ archives' # archives
    PROVE  \E p \in Procs : SendRead(p) \/ ArchiveWrite(p)
  <1>1. PICK p \in Procs : Call(p) \/ Step(p) \/ Disturb(p)
    BY DEF Next, vars
  <1>2. ~Call(p)
    BY DEF Call, SendCall, ReadCall, PollCall, CursorSet, DeleteCall, files
  <1>3. ~Disturb(p)
    BY DEF Disturb, WriteFail, ArchiveFail, ArchiveCursorsFail, CursorFail,
           Crash, files
  <1> QED BY <1>1, <1>2, <1>3
          DEF Step, SendAbort, SendWrite, SendRename, ArchiveRewrite,
              ArchiveRename, ArchiveCursors, SendUnlock, CursorRead,
              CursorRename, ReadShow, TruncateSkip, TruncateWrite,
              TruncateRename, DeleteVerify, PollReturn, PollTimeout, Reap, files

-----------------------------------------------------------------------------
(***************************************************************************)
(* The header.                                                             *)
(***************************************************************************)

LinesOf(s, h) == {i \in DOMAIN s : s[i].h = h}

\* The number of lines of a handle is a number.
LEMMA CountType ==
    ASSUME NEW s \in Seq(Msg), NEW h \in Handles
    PROVE  /\ IsFiniteSet(LinesOf(s, h))
           /\ CountParticipants(s)[h] = Cardinality(LinesOf(s, h))
           /\ CountParticipants(s)[h] \in Nat
  <1>1. Len(s) \in Nat /\ DOMAIN s = 1 .. Len(s)
    BY LenProperties
  <1>2. IsFiniteSet(1 .. Len(s))
    BY <1>1, FS_Interval
  <1>3. IsFiniteSet(LinesOf(s, h))
    BY <1>1, <1>2, FS_Subset DEF LinesOf
  <1>4. CountParticipants(s)[h] = Cardinality(LinesOf(s, h))
    BY DEF CountParticipants, LinesOf
  <1> QED BY <1>3, <1>4, FS_CardinalityType

\* A message more counts for its handle only.
LEMMA CountAppend ==
    ASSUME NEW s \in Seq(Msg), NEW m \in Msg, NEW h \in Handles
    PROVE  CountParticipants(Append(s, m))[h] =
              IF m.h = h THEN CountParticipants(s)[h] + 1
                         ELSE CountParticipants(s)[h]
  <1> DEFINE t == Append(s, m)
  <1>1. /\ t \in Seq(Msg) /\ Len(t) = Len(s) + 1 /\ t[Len(s) + 1] = m
        /\ \A i \in 1 .. Len(s) : t[i] = s[i]
    BY AppendProperties
  <1>2. /\ Len(s) \in Nat /\ DOMAIN s = 1 .. Len(s)
        /\ DOMAIN t = 1 .. Len(s) + 1
    BY <1>1, LenProperties
  <1> HIDE DEF t
  <1>3. Len(s) + 1 \notin LinesOf(s, h)
    BY <1>2 DEF LinesOf
  <1>4. CASE m.h = h
    <2>1. LinesOf(t, h) = LinesOf(s, h) \cup {Len(s) + 1}
      BY <1>1, <1>2, <1>4 DEF LinesOf
    <2>2. Cardinality(LinesOf(t, h)) = Cardinality(LinesOf(s, h)) + 1
      BY <2>1, <1>3, CountType, FS_AddElement
    <2> QED BY <1>1, <1>4, <2>2, CountType DEF t
  <1>5. CASE m.h # h
    <2>1. LinesOf(t, h) = LinesOf(s, h)
      BY <1>1, <1>2, <1>5 DEF LinesOf
    <2> QED BY <1>1, <1>5, <2>1, CountType DEF t
  <1> QED BY <1>4, <1>5

\* What is left when the first k lines are cut off.
LEMMA SuffixLines ==
    ASSUME NEW s \in Seq(Msg), NEW k \in Nat, k <= Len(s)
    PROVE  LET t == SubSeq(s, k + 1, Len(s))
           IN  /\ t \in Seq(Msg) /\ Len(t) = Len(s) - k
               /\ \A i \in 1 .. Len(s) - k : t[i] = s[i + k]
  <1> DEFINE n == Len(s)
             t == SubSeq(s, k + 1, n)
  <1>1. n \in Nat /\ DOMAIN s = 1 .. n /\ k <= n
    BY LenProperties
  <1>2. \A i \in k + 1 .. n : s[i] \in Msg
    BY <1>1, LenProperties
  <1> HIDE DEF n
  <1>3. /\ t \in Seq(Msg)
        /\ Len(t) = IF k + 1 <= n THEN n - (k + 1) + 1 ELSE 0
        /\ \A i \in 1 .. n - (k + 1) + 1 : t[i] = s[(k + 1) + i - 1]
    BY <1>1, <1>2, SubSeqProperties
  <1> HIDE DEF t
  <1>4. Len(t) = n - k
    BY <1>1, <1>3
  <1>5. ASSUME NEW i \in 1 .. n - k PROVE t[i] = s[i + k]
    <2>1. i \in 1 .. n - (k + 1) + 1 /\ (k + 1) + i - 1 = i + k
      BY <1>1
    <2> QED BY <1>3, <2>1
  <1> QED BY <1>3, <1>4, <1>5 DEF t, n

\* What is left after the first k lines are cut off has no more lines of a
\* handle than there were.
LEMMA CountTail ==
    ASSUME NEW s \in Seq(Msg), NEW k \in Nat, k <= Len(s), NEW h \in Handles
    PROVE  CountParticipants(SubSeq(s, k + 1, Len(s)))[h]
              <= CountParticipants(s)[h]
  <1> DEFINE t == SubSeq(s, k + 1, Len(s))
             S == LinesOf(t, h)
             T == LinesOf(s, h)
             f == [i \in S |-> i + k]
  <1>1. Len(s) \in Nat /\ DOMAIN s = 1 .. Len(s)
    BY LenProperties
  <1>2. /\ t \in Seq(Msg) /\ Len(t) = Len(s) - k
        /\ \A i \in 1 .. Len(s) - k : t[i] = s[i + k]
    BY SuffixLines
  <1>3. DOMAIN t = 1 .. Len(s) - k
    BY <1>2, LenProperties
  <1> HIDE DEF t
  <1>4. \A i \in S : i \in Nat /\ i + k \in T
    BY <1>1, <1>2, <1>3 DEF LinesOf
  <1>5. f \in Injection(S, T)
    <2>1. f \in [S -> T]
      BY <1>4
    <2>2. \A a, b \in S : f[a] = f[b] => a = b
      BY <1>4
    <2> QED BY <2>1, <2>2 DEF Injection, IsInjective
  <1> HIDE DEF f
  <1>6. Cardinality(S) <= Cardinality(T)
    BY <1>5, CountType, FS_Injection
  <1> QED BY <1>2, <1>6, CountType DEF t

\* chat_send's image agrees with its header if the file it read does.
LEMMA AppendedCovers ==
    ASSUME NEW p \in Procs, main \in Content, hnd[p] \in Handles, sent \in Nat,
           Covers(main)
    PROVE  Covers(Appended(p))
  <1> DEFINE m == [h |-> hnd[p], n |-> sent + 1]
             c == Appended(p)
  <1>1. main.lines \in Seq(Msg) /\ main.parts \in [Handles -> Nat]
    BY ContentParts
  <1>2. m \in Msg /\ m.h = hnd[p]
    BY DEF Msg
  <1>3. /\ c.lines = Append(main.lines, m)
        /\ Len(c.lines) = Len(main.lines) + 1
        /\ c.lines[Len(main.lines) + 1] = m
    BY AppendedType
  <1>4. c.parts = UpdateParticipants(main.parts, hnd[p]) /\ c.writer = hnd[p]
    BY DEF Appended
  <1> HIDE DEF c, m
  <1>5. ASSUME NEW h \in Handles
        PROVE  c.parts[h] >= CountParticipants(c.lines)[h]
    <2>1. main.parts[h] >= CountParticipants(main.lines)[h]
      BY DEF Covers
    <2>2. c.parts[h] = IF h = hnd[p] THEN main.parts[h] + 1 ELSE main.parts[h]
      BY <1>1, <1>4 DEF UpdateParticipants
    <2>3. CountParticipants(c.lines)[h] =
             IF h = hnd[p] THEN CountParticipants(main.lines)[h] + 1
                           ELSE CountParticipants(main.lines)[h]
      BY <1>1, <1>2, <1>3, CountAppend
    <2>4. CountParticipants(main.lines)[h] \in Nat /\ main.parts[h] \in Nat
      BY <1>1, CountType
    <2> QED BY <2>1, <2>2, <2>3, <2>4
  <1>6. c.writer = c.lines[Len(c.lines)].h
    BY <1>2, <1>3, <1>4
  <1> QED BY <1>5, <1>6 DEF Covers, c

\* chat_auto_archive keeps the cumulative header and cuts off lines at the
\* beginning, never all of them.
LEMMA TrimmedCovers ==
    ASSUME NEW c \in Content, CLEAVE <= Len(c.lines), Covers(c)
    PROVE  Covers(Trimmed(c))
  <1> DEFINE t == Trimmed(c)
  <1>1. /\ c.lines \in Seq(Msg) /\ Len(c.lines) \in Nat
        /\ c.parts \in [Handles -> Nat] /\ CLEAVE \in Nat \ {0}
    BY ContentParts, LenProperties, ConstantsAssumption
  <1>2. t.lines = SubSeq(c.lines, CLEAVE + 1, Len(c.lines))
    BY TrimmedType
  <1>3. t.parts = c.parts /\ t.writer = c.writer
    BY DEF Trimmed, Content
  <1> HIDE DEF t
  <1>4. ASSUME NEW h \in Handles
        PROVE  t.parts[h] >= CountParticipants(t.lines)[h]
    <2>1. CountParticipants(t.lines)[h] <= CountParticipants(c.lines)[h]
      BY <1>1, <1>2, CountTail
    <2>2. t.lines \in Seq(Msg)
      BY <1>1, <1>2
    <2>3. /\ CountParticipants(t.lines)[h] \in Nat
          /\ CountParticipants(c.lines)[h] \in Nat
          /\ c.parts[h] \in Nat
      BY <1>1, <2>2, CountType
    <2> QED BY <1>3, <2>1, <2>3 DEF Covers
  <1>5. ASSUME t.lines # << >> PROVE t.writer = t.lines[Len(t.lines)].h
    <2>1. \A i \in CLEAVE + 1 .. Len(c.lines) : c.lines[i] \in Msg
      BY <1>1, LenProperties
    <2>2. /\ t.lines \in Seq(Msg)
          /\ Len(t.lines) = IF CLEAVE + 1 <= Len(c.lines)
                            THEN Len(c.lines) - CLEAVE ELSE 0
          /\ \A i \in 1 .. Len(c.lines) - CLEAVE :
                t.lines[i] = c.lines[CLEAVE + i]
      BY <1>1, <1>2, <2>1, SubSeqProperties
    <2>3. Len(t.lines) \in Nat \ {0}
      BY <1>5, <2>2, EmptySeq
    <2>4. t.lines[Len(t.lines)] = c.lines[Len(c.lines)]
      BY <1>1, <2>2, <2>3
    <2>5. c.lines # << >>
      BY <1>1, <2>2, <2>3, EmptySeq
    <2> QED BY <1>3, <2>4, <2>5 DEF Covers
  <1> QED BY <1>4, <1>5 DEF Covers, t

\* chat_truncate recomputes the header.
LEMMA TruncatedCovers ==
    ASSUME NEW k \in Nat, main \in Content, k <= Len(main.lines)
    PROVE  Covers(Truncated(k))
  <1> DEFINE kept == SubSeq(main.lines, 1, k)
  <1>1. main.lines \in Seq(Msg)
    BY ContentParts
  <1>2. kept \in Seq(Msg) /\ Len(kept) = k
    BY <1>1
  <1> HIDE DEF kept
  <1>3. Truncated(k) = [lines  |-> kept, parts |-> CountParticipants(kept),
                        writer |-> IF k = 0 THEN NoHandle ELSE kept[k].h]
    BY DEF Truncated, kept
  <1>4. kept # << >> => k # 0
    BY <1>2, EmptySeq
  <1>5. \A h \in Handles : CountParticipants(kept)[h] \in Nat
    BY <1>2, CountType
  <1> QED BY <1>2, <1>3, <1>4, <1>5 DEF Covers

\* The header is right in the file and in every image about to replace it.
LEMMA HeaderStep == IInv /\ HeaderInv /\ [Next]_vars => HeaderInv'
  <1> SUFFICES ASSUME IInv, HeaderInv, [Next]_vars PROVE HeaderInv'
    OBVIOUS
  <1>1. main \in Content /\ sent \in Nat /\ TypeOK
    BY DEF IInv, TypeOK
  <1>2. Covers(main)'
    <2>1. CASE main' = main
      BY <2>1 DEF HeaderInv, Covers
    <2>2. CASE main' # main
      <3>1. PICK p \in Procs :
               SendRename(p) \/ ArchiveRename(p) \/ TruncateRename(p)
        BY <2>2, ChatWriters
      <3>2. CASE SendRename(p)
        <4>1. main' = buf[p] /\ Covers(buf[p])
          BY <3>2 DEF IInv, OwnOK, SendOK, SendRename, HeaderInv, SendingPoints
        <4> QED BY <4>1 DEF Covers
      <3>3. CASE ArchiveRename(p)
        <4>1. main' = Trimmed(main) /\ CLEAVE <= Len(main.lines)
          BY <3>3, Archiving DEF IInv, OwnOK, SendOK, ArchiveRename
        <4>2. Covers(Trimmed(main))
          BY <1>1, <4>1, TrimmedCovers DEF HeaderInv
        <4> QED BY <4>1, <4>2 DEF Covers
      <3>4. CASE TruncateRename(p)
        <4>1. /\ main' = Truncated(idx[p]) /\ idx[p] \in Nat
              /\ idx[p] < Len(main.lines)
          BY <3>4 DEF IInv, TypeOK, OwnOK, TruncOK, TruncateRename
        <4>2. Len(main.lines) \in Nat
          BY <1>1, ContentParts, LenProperties
        <4>3. Covers(Truncated(idx[p]))
          BY <1>1, <4>1, <4>2, TruncatedCovers
        <4> QED BY <4>1, <4>3 DEF Covers
      <3> QED BY <3>1, <3>2, <3>3, <3>4
    <2> QED BY <2>1, <2>2
  <1>3. ASSUME NEW q \in Procs, pc'[q] \in SendingPoints
        PROVE  Covers(buf[q])'
    <2>1. CASE SendRead(q)
      <3>1. buf'[q] = Appended(q)
        BY <1>1, <2>1 DEF TypeOK, SendRead
      <3>2. hnd[q] \in Handles
        BY <2>1 DEF IInv, OwnOK, HandleOK, SendRead
      <3>3. Covers(Appended(q))
        BY <1>1, <3>2, AppendedCovers DEF HeaderInv
      <3> QED BY <3>1, <3>3 DEF Covers
    <2>2. CASE pc[q] \in SendingPoints /\ buf'[q] = buf[q]
      BY <2>2 DEF HeaderInv, Covers
    <2> QED BY <1>1, <1>3, <2>1, <2>2, SendingKeep
  <1> QED BY <1>2, <1>3 DEF HeaderInv

\* The participants header never counts fewer messages of a handle than the
\* chat file has, and last-writer is the handle of the last line: for every
\* interleaving of senders, archives and deletes, whatever fails.  The header
\* is written by chat_send, kept by chat_auto_archive and recomputed by
\* chat_truncate.
THEOREM HeaderCorrect == Spec => []HeaderCoversLines
  <1>1. Init => HeaderInv
    <2> SUFFICES ASSUME Init PROVE HeaderInv
      OBVIOUS
    <2>1. main = EmptyChat /\ main.lines = << >>
      BY DEF Init, EmptyChat
    <2>2. ASSUME NEW h \in Handles
          PROVE  main.parts[h] >= CountParticipants(main.lines)[h]
      <3>1. LinesOf(main.lines, h) = {}
        BY <2>1 DEF LinesOf
      <3>2. Cardinality({}) = 0
        BY FS_EmptySet
      <3>3. CountParticipants(main.lines)[h] = 0
        BY <3>1, <3>2 DEF CountParticipants, LinesOf
      <3> QED BY <2>1, <3>3 DEF EmptyChat
    <2> QED BY <2>1, <2>2 DEF HeaderInv, Covers, Init, SendingPoints
  <1>2. HeaderInv => HeaderCoversLines
    BY DEF HeaderInv, Covers, HeaderCoversLines
  <1> QED BY <1>1, <1>2, HeaderStep, Invariance, PTL DEF Spec

-----------------------------------------------------------------------------
(***************************************************************************)
(* The log.                                                                *)
(***************************************************************************)

\* A nonempty set of natural numbers has a least element.
LEMMA LeastNumber ==
    ASSUME NEW S \in SUBSET Nat, S # {}
    PROVE  \E m \in S : \A x \in S : m <= x
  <1>1. PICK m \in S : \A y \in S : <<y, m>> \notin OpToRel(<, Nat)
    BY NatLessThanWellFounded, WFMin
  <1>2. \A y \in S : ~(y < m)
    BY <1>1 DEF OpToRel
  <1> QED BY <1>2

\* The chat file as a sequence of stamped messages.
LEMMA ChatLines ==
    ASSUME IInv
    PROVE  /\ TypeOK /\ main \in Content /\ main.lines \in Seq(Msg)
           /\ Len(main.lines) \in Nat
           /\ DOMAIN main.lines = 1 .. Len(main.lines)
           /\ \A i \in 1 .. Len(main.lines) :
                 /\ main.lines[i] \in Msg /\ main.lines[i].n \in Nat
                 /\ main.lines[i].h \in Handles /\ main.lines[i].n <= sent
           /\ sent \in Nat
  <1>1. TypeOK /\ main \in Content /\ sent \in Nat
    BY DEF IInv, TypeOK
  <1>2. main.lines \in Seq(Msg)
    BY <1>1, ContentParts
  <1>3. Len(main.lines) \in Nat /\ DOMAIN main.lines = 1 .. Len(main.lines)
    BY <1>2, LenProperties
  <1> QED BY <1>1, <1>2, <1>3, LineStamp DEF IInv, StampInv

\* What a process that is sending has in hand.
LEMMA SendingMessage ==
    ASSUME IInv, NEW p \in Procs, pc[p] \in SendingPoints
    PROVE  /\ Pending(p) \in Msg /\ Pending(p).n \in Nat
           /\ Pending(p).h \in Handles
           /\ Pending(p) = [h |-> Pending(p).h, n |-> Pending(p).n]
           /\ buf[p].lines = Append(main.lines, Pending(p))
           /\ Pending(p).n <= sent
           /\ \A i \in 1 .. Len(main.lines) : main.lines[i].n < Pending(p).n
  <1>1. /\ buf[p].lines # << >> /\ buf[p] \in Content
        /\ buf[p].lines = Append(main.lines, Pending(p))
        /\ Pending(p).n <= sent
        /\ \A i \in DOMAIN main.lines : main.lines[i].n < Pending(p).n
    BY DEF IInv, TypeOK, OwnOK, SendOK, SendPoints, SendingPoints, Pending
  <1>2. buf[p].lines \in Seq(Msg) /\ Len(buf[p].lines) \in Nat \ {0}
    BY <1>1, ContentParts, EmptySeq
  <1>3. Len(buf[p].lines) \in DOMAIN buf[p].lines
    BY <1>2, LenProperties
  <1>4. Pending(p) \in Msg
    BY <1>2, <1>3, LineStamp DEF Pending
  <1>5. DOMAIN main.lines = 1 .. Len(main.lines)
    BY ChatLines
  <1> QED BY <1>1, <1>4, <1>5 DEF Msg

\* chat_send puts its message at the end of the chat file.
LEMMA SendRenamed ==
    ASSUME IInv, NEW p \in Procs, SendRename(p)
    PROVE  /\ pc[p] \in SendingPoints
           /\ main'.lines = Append(main.lines, Pending(p))
           /\ Len(main'.lines) = Len(main.lines) + 1
           /\ DOMAIN main'.lines = 1 .. Len(main.lines) + 1
           /\ \A i \in 1 .. Len(main.lines) : main'.lines[i] = main.lines[i]
           /\ main'.lines[Len(main.lines) + 1] = Pending(p)
           /\ UNCHANGED <<archives, sent>>
  <1>1. /\ pc[p] \in SendingPoints /\ main' = buf[p]
        /\ UNCHANGED <<archives, sent>>
    BY DEF IInv, OwnOK, SendOK, SendRename, SendingPoints
  <1>2. main'.lines = Append(main.lines, Pending(p)) /\ Pending(p) \in Msg
    BY <1>1, SendingMessage
  <1>3. main.lines \in Seq(Msg)
    BY ChatLines
  <1> QED BY <1>1, <1>2, <1>3, AppendProperties, LenProperties

\* chat_auto_archive leaves the lines after the first CLEAVE, and the archive
\* has the others.
LEMMA ArchiveRenamed ==
    ASSUME IInv, NEW p \in Procs, ArchiveRename(p)
    PROVE  /\ CLEAVE \in Nat \ {0} /\ CLEAVE <= Len(main.lines)
           /\ Len(main'.lines) = Len(main.lines) - CLEAVE
           /\ DOMAIN main'.lines = 1 .. Len(main.lines) - CLEAVE
           /\ \A i \in 1 .. Len(main.lines) - CLEAVE :
                 main'.lines[i] = main.lines[i + CLEAVE]
           /\ \A i \in 1 .. CLEAVE : main.lines[i] \in Archived
           /\ UNCHANGED <<archives, sent>>
  <1>1. /\ main' = Trimmed(main) /\ CLEAVE <= Len(main.lines)
        /\ SubSeq(main.lines, 1, CLEAVE) \in archives
        /\ UNCHANGED <<archives, sent>>
    BY Archiving DEF IInv, OwnOK, SendOK, ArchiveRename
  <1>2. CLEAVE \in Nat \ {0}
    BY ConstantsAssumption
  <1>3. main'.lines = SubSeq(main.lines, CLEAVE + 1, Len(main.lines))
    BY <1>1, ChatLines, TrimmedType
  <1>4. /\ main'.lines \in Seq(Msg)
        /\ Len(main'.lines) = Len(main.lines) - CLEAVE
        /\ \A i \in 1 .. Len(main.lines) - CLEAVE :
              main'.lines[i] = main.lines[i + CLEAVE]
    BY <1>1, <1>2, <1>3, ChatLines, SuffixLines
  <1>5. ASSUME NEW i \in 1 .. CLEAVE PROVE main.lines[i] \in Archived
    <2> DEFINE s == SubSeq(main.lines, 1, CLEAVE)
    <2>1. s \in Seq(Msg) /\ Len(s) = CLEAVE /\ s[i] = main.lines[i]
      BY <1>1, <1>2, ChatLines
    <2>2. s \in archives
      BY <1>1
    <2> HIDE DEF s
    <2>3. main.lines[i] \in Elems(s)
      BY <2>1, LenProperties DEF Elems
    <2> QED BY <2>2, <2>3 DEF Archived
  <1> QED BY <1>1, <1>2, <1>4, <1>5, LenProperties

\* chat_truncate leaves a prefix.
LEMMA TruncateRenamed ==
    ASSUME IInv, NEW p \in Procs, TruncateRename(p)
    PROVE  /\ idx[p] \in Nat /\ idx[p] < Len(main.lines)
           /\ Len(main'.lines) = idx[p]
           /\ DOMAIN main'.lines = 1 .. idx[p]
           /\ \A i \in 1 .. idx[p] : main'.lines[i] = main.lines[i]
           /\ UNCHANGED <<archives, sent>>
  <1>1. /\ main' = Truncated(idx[p]) /\ idx[p] \in Nat
        /\ idx[p] < Len(main.lines) /\ UNCHANGED <<archives, sent>>
    BY DEF IInv, TypeOK, OwnOK, TruncOK, TruncateRename
  <1>2. /\ main \in Content /\ main.lines \in Seq(Msg)
        /\ Len(main.lines) \in Nat
    BY ChatLines
  <1>3. main'.lines = SubSeq(main.lines, 1, idx[p])
    BY <1>1, <1>2, TruncatedType
  <1>4. /\ SubSeq(main.lines, 1, idx[p]) \in Seq(Msg)
        /\ Len(SubSeq(main.lines, 1, idx[p])) = idx[p]
        /\ \A i \in 1 .. idx[p] :
              SubSeq(main.lines, 1, idx[p])[i] = main.lines[i]
    BY <1>1, <1>2
  <1> QED BY <1>1, <1>3, <1>4, LenProperties

\* chat_auto_archive adds the first CLEAVE lines to what is archived.
LEMMA ArchiveWritten ==
    ASSUME IInv, NEW p \in Procs, ArchiveWrite(p)
    PROVE  /\ CLEAVE \in Nat \ {0} /\ CLEAVE <= Len(main.lines)
           /\ Archived' = Archived \cup {main.lines[i] : i \in 1 .. CLEAVE}
           /\ lock = p /\ pc[p] = "a_archive"
           /\ UNCHANGED <<main, sent>>
  <1> DEFINE s == SubSeq(main.lines, 1, CLEAVE)
  <1>1. /\ archives' = archives \cup {s} /\ CLEAVE <= Len(main.lines)
        /\ lock = p /\ pc[p] = "a_archive" /\ UNCHANGED <<main, sent>>
    BY Archiving DEF ArchiveWrite
  <1>2. CLEAVE \in Nat \ {0}
    BY ConstantsAssumption
  <1>3. /\ s \in Seq(Msg) /\ Len(s) = CLEAVE
        /\ \A i \in 1 .. CLEAVE : s[i] = main.lines[i]
    BY <1>1, <1>2, ChatLines
  <1>4. Elems(s) = {main.lines[i] : i \in 1 .. CLEAVE}
    BY <1>3, LenProperties DEF Elems
  <1> HIDE DEF s
  <1>5. Archived' = Archived \cup Elems(s)
    BY <1>1 DEF Archived, Elems
  <1> QED BY <1>1, <1>2, <1>4, <1>5

\* The stamp chat_send takes under the lock.
LEMMA SendStamped ==
    ASSUME IInv, NEW p \in Procs, SendRead(p)
    PROVE  /\ Pending(p)' = [h |-> hnd[p], n |-> sent + 1]
           /\ sent' = sent + 1 /\ UNCHANGED <<main, archives>> /\ lock = NoProc
  <1>1. /\ buf'[p] = Appended(p) /\ hnd[p] \in Handles /\ sent' = sent + 1
        /\ UNCHANGED <<main, archives>> /\ lock = NoProc
    BY DEF IInv, TypeOK, OwnOK, HandleOK, SendRead, Acquire, files
  <1> QED BY <1>1, ChatLines, AppendedType DEF Pending

\* The lines stay in the order of their stamps.
LEMMA SortedStep == IInv /\ SortedInv /\ [Next]_vars => SortedInv'
  <1> SUFFICES ASSUME IInv, SortedInv, [Next]_vars PROVE SortedInv'
    OBVIOUS
  <1> DEFINE L == Len(main.lines)
  <1>0. /\ L \in Nat /\ DOMAIN main.lines = 1 .. L
        /\ \A i \in 1 .. L : main.lines[i].n \in Nat
    BY ChatLines
  <1>1. ASSUME NEW q \in Procs, pc'[q] \in SendingPoints
        PROVE  Pending(q)'.n >= 1
    <2>1. CASE SendRead(q)
      BY <2>1, SendStamped, ChatLines
    <2>2. CASE pc[q] \in SendingPoints /\ buf'[q] = buf[q]
      BY <2>2 DEF SortedInv, Pending
    <2> QED BY <1>1, <2>1, <2>2, SendingKeep, ChatLines
  <1>2. /\ \A i \in DOMAIN main'.lines : main'.lines[i].n >= i
        /\ \A i, j \in DOMAIN main'.lines :
              i < j => main'.lines[i].n < main'.lines[j].n
    <2>1. CASE main' = main
      BY <2>1 DEF SortedInv
    <2>2. CASE main' # main
      <3>1. PICK p \in Procs :
               SendRename(p) \/ ArchiveRename(p) \/ TruncateRename(p)
        BY <2>2, ChatWriters
      <3>2. CASE SendRename(p)
        <4>1. /\ DOMAIN main'.lines = 1 .. L + 1
              /\ \A i \in 1 .. L : main'.lines[i] = main.lines[i]
              /\ main'.lines[L + 1] = Pending(p)
              /\ pc[p] \in SendingPoints
          BY <3>2, SendRenamed
        <4>2. /\ \A i \in 1 .. L : main.lines[i].n < Pending(p).n
              /\ Pending(p).n \in Nat
          BY <4>1, SendingMessage
        <4>3. Pending(p).n >= L + 1
          <5>1. CASE L = 0
            BY <4>1, <5>1 DEF SortedInv
          <5>2. CASE L # 0
            BY <1>0, <4>2, <5>2 DEF SortedInv
          <5> QED BY <5>1, <5>2
        <4> HIDE DEF L
        <4>4. ASSUME NEW i \in 1 .. L + 1 PROVE main'.lines[i].n >= i
          BY <1>0, <4>1, <4>3 DEF SortedInv
        <4>5. ASSUME NEW i \in 1 .. L + 1, NEW j \in 1 .. L + 1, i < j
              PROVE  main'.lines[i].n < main'.lines[j].n
          <5>1. i \in 1 .. L
            BY <1>0, <4>5
          <5>2. CASE j = L + 1
            BY <4>1, <4>2, <5>1, <5>2
          <5>3. CASE j \in 1 .. L
            BY <1>0, <4>1, <4>5, <5>1, <5>3 DEF SortedInv
          <5> QED BY <1>0, <5>2, <5>3
        <4> QED BY <4>1, <4>4, <4>5
      <3>3. CASE ArchiveRename(p)
        <4>1. /\ CLEAVE \in Nat \ {0} /\ CLEAVE <= L
              /\ DOMAIN main'.lines = 1 .. L - CLEAVE
              /\ \A i \in 1 .. L - CLEAVE :
                    main'.lines[i] = main.lines[i + CLEAVE]
          BY <3>3, ArchiveRenamed
        <4> HIDE DEF L
        <4>2. \A i \in 1 .. L - CLEAVE : i + CLEAVE \in 1 .. L
          BY <1>0, <4>1
        <4>3. ASSUME NEW i \in 1 .. L - CLEAVE PROVE main'.lines[i].n >= i
          <5>1. main'.lines[i] = main.lines[i + CLEAVE]
            BY <4>1
          <5>2. main.lines[i + CLEAVE].n >= i + CLEAVE
            BY <1>0, <4>2 DEF SortedInv
          <5>3. main.lines[i + CLEAVE].n \in Nat
            BY <1>0, <4>2
          <5> QED BY <4>1, <5>1, <5>2, <5>3
        <4>4. ASSUME NEW i \in 1 .. L - CLEAVE, NEW j \in 1 .. L - CLEAVE, i < j
              PROVE  main'.lines[i].n < main'.lines[j].n
          <5>1. /\ i + CLEAVE \in 1 .. L /\ j + CLEAVE \in 1 .. L
                /\ i + CLEAVE < j + CLEAVE
            BY <4>1, <4>2, <4>4
          <5>2. main.lines[i + CLEAVE].n < main.lines[j + CLEAVE].n
            BY <1>0, <5>1 DEF SortedInv
          <5> QED BY <4>1, <5>2
        <4> QED BY <4>1, <4>3, <4>4
      <3>4. CASE TruncateRename(p)
        <4>1. /\ idx[p] \in Nat /\ idx[p] < L
              /\ DOMAIN main'.lines = 1 .. idx[p]
              /\ \A i \in 1 .. idx[p] : main'.lines[i] = main.lines[i]
          BY <3>4, TruncateRenamed
        <4>2. \A i \in 1 .. idx[p] : i \in 1 .. L
          BY <1>0, <4>1
        <4>3. \A i \in 1 .. idx[p] : main'.lines[i].n >= i
          BY <1>0, <4>1, <4>2 DEF SortedInv
        <4>4. \A i, j \in 1 .. idx[p] :
                 i < j => main'.lines[i].n < main'.lines[j].n
          BY <1>0, <4>1, <4>2 DEF SortedInv
        <4> QED BY <4>1, <4>3, <4>4
      <3> QED BY <3>1, <3>2, <3>3, <3>4
    <2> QED BY <2>1, <2>2
  <1> QED BY <1>1, <1>2 DEF SortedInv

\* The archives stay older than everything that is not in them.
LEMMA ArchiveStep == IInv /\ LogInv /\ [Next]_vars => ArchiveInv'
  <1> SUFFICES ASSUME IInv, LogInv, [Next]_vars PROVE ArchiveInv'
    OBVIOUS
  <1> DEFINE L == Len(main.lines)
  <1>0. /\ L \in Nat /\ DOMAIN main.lines = 1 .. L /\ sent \in Nat
        /\ \A i \in 1 .. L : /\ main.lines[i] \in Msg
                             /\ main.lines[i].n \in Nat /\ main.lines[i].n <= sent
        /\ TypeOK
    BY ChatLines
  <1>1. \A a \in Archived : a \in Msg /\ a.n \in Nat /\ a.n <= sent
    BY DEF LogInv, ArchiveInv, Msg
  <1>2. CASE archives' # archives
    <2>1. PICK p \in Procs : ArchiveWrite(p)
      BY <1>2, StampsAndArchives DEF SendRead, files
    <2>2. /\ CLEAVE \in Nat \ {0} /\ CLEAVE <= L
          /\ Archived' = Archived \cup {main.lines[i] : i \in 1 .. CLEAVE}
          /\ lock = p /\ pc[p] = "a_archive" /\ UNCHANGED <<main, sent>>
      BY <2>1, ArchiveWritten
    <2> HIDE DEF L
    <2>3. \A i \in 1 .. CLEAVE : i \in 1 .. L
      BY <1>0, <2>2
    <2>4. \A a \in Archived' : a \in Msg /\ a.n <= sent'
      BY <1>0, <1>1, <2>2, <2>3
    <2>5. ASSUME NEW a \in Archived', NEW i \in DOMAIN main'.lines
          PROVE  main'.lines[i] \in Archived' \/ a.n < main'.lines[i].n
      <3>1. i \in 1 .. L
        BY <1>0, <2>2
      <3>2. CASE i \in 1 .. CLEAVE
        BY <2>2, <3>2
      <3>3. CASE i \notin 1 .. CLEAVE /\ a \in Archived
        BY <1>0, <2>2, <3>1, <3>3 DEF LogInv, ArchiveInv
      <3>4. CASE i \notin 1 .. CLEAVE /\ a \notin Archived
        <4>1. PICK k \in 1 .. CLEAVE : a = main.lines[k]
          BY <2>2, <3>4
        <4>2. k \in 1 .. L /\ k < i
          BY <1>0, <2>2, <2>3, <3>1, <3>4
        <4> QED BY <1>0, <2>2, <3>1, <4>1, <4>2 DEF LogInv, SortedInv
      <3> QED BY <3>2, <3>3, <3>4
    <2>6. ASSUME NEW q \in Procs, pc'[q] \in SendingPoints PROVE FALSE
      <3>1. ~SendRead(q)
        BY <1>2 DEF SendRead, files
      <3>2. pc[q] \in SendingPoints
        BY <1>0, <2>6, <3>1, SendingKeep
      <3> QED BY <2>2, <3>2, Exclusive
              DEF IInv, SendingPoints, LockedPoints, SendPoints
    <2> QED BY <2>4, <2>5, <2>6 DEF ArchiveInv
  <1>3. CASE archives' = archives
    <2>1. Archived' = Archived
      BY <1>3 DEF Archived, Elems
    <2>2. sent' >= sent /\ sent' \in Nat
      <3>1. CASE sent' = sent
        BY <1>0, <3>1
      <3>2. CASE sent' # sent
        <4>1. PICK p \in Procs : SendRead(p)
          BY <3>2, StampsAndArchives DEF ArchiveWrite
        <4> QED BY <1>0, <4>1 DEF SendRead
      <3> QED BY <3>1, <3>2
    <2>3. \A a \in Archived' : a \in Msg /\ a.n <= sent'
      BY <1>0, <1>1, <2>1, <2>2
    <2>4. ASSUME NEW q \in Procs, pc'[q] \in SendingPoints, NEW a \in Archived'
          PROVE  a.n < Pending(q)'.n
      <3>1. CASE SendRead(q)
        BY <1>0, <1>1, <2>1, <3>1, SendStamped
      <3>2. CASE pc[q] \in SendingPoints /\ buf'[q] = buf[q]
        BY <2>1, <3>2 DEF LogInv, ArchiveInv, Pending
      <3> QED BY <1>0, <2>4, <3>1, <3>2, SendingKeep
    <2>5. ASSUME NEW a \in Archived', NEW i \in DOMAIN main'.lines
          PROVE  main'.lines[i] \in Archived' \/ a.n < main'.lines[i].n
      <3>0. \A j \in 1 .. L : main.lines[j] \in Archived \/ a.n < main.lines[j].n
        BY <1>0, <2>1 DEF LogInv, ArchiveInv
      <3>1. CASE main' = main
        BY <1>0, <2>1, <3>0, <3>1
      <3>2. CASE main' # main
        <4>1. PICK p \in Procs :
                 SendRename(p) \/ ArchiveRename(p) \/ TruncateRename(p)
          BY <3>2, ChatWriters
        <4>2. CASE SendRename(p)
          <5>1. a.n < Pending(p).n
            BY <2>1, <4>2, SendRenamed DEF LogInv, ArchiveInv
          <5>2. i \in 1 .. L + 1
            BY <4>2, SendRenamed
          <5>3. CASE i = L + 1
            BY <4>2, <5>1, <5>3, SendRenamed
          <5>4. CASE i \in 1 .. L
            BY <2>1, <3>0, <4>2, <5>4, SendRenamed
          <5> HIDE DEF L
          <5> QED BY <1>0, <5>2, <5>3, <5>4
        <4>3. CASE ArchiveRename(p)
          <5>1. /\ CLEAVE \in Nat \ {0} /\ CLEAVE <= L
                /\ i \in 1 .. L - CLEAVE /\ main'.lines[i] = main.lines[i + CLEAVE]
            BY <4>3, ArchiveRenamed
          <5> HIDE DEF L
          <5>2. i + CLEAVE \in 1 .. L
            BY <1>0, <5>1
          <5> QED BY <2>1, <3>0, <5>1, <5>2
        <4>4. CASE TruncateRename(p)
          <5>1. /\ idx[p] \in Nat /\ idx[p] < L
                /\ i \in 1 .. idx[p] /\ main'.lines[i] = main.lines[i]
            BY <4>4, TruncateRenamed
          <5> HIDE DEF L
          <5>2. i \in 1 .. L
            BY <1>0, <5>1
          <5> QED BY <2>1, <3>0, <5>1, <5>2
        <4> QED BY <4>1, <4>2, <4>3, <4>4
      <3> QED BY <3>1, <3>2
    <2> QED BY <2>3, <2>4, <2>5 DEF ArchiveInv
  <1> QED BY <1>2, <1>3

\* The chat starts empty.
LEMMA LogInit == Init => LogInv
  <1> SUFFICES ASSUME Init PROVE LogInv
    OBVIOUS
  <1>1. main.lines = << >> /\ Archived = {}
    BY DEF Init, EmptyChat, Archived
  <1>2. \A p \in Procs : pc[p] \notin SendingPoints
    BY DEF Init, SendingPoints
  <1> QED BY <1>1, <1>2 DEF LogInv, SortedInv, ArchiveInv

\* Together with the inductive invariant of the files, the order of the stamps
\* and the age of the archives hold always.
LEMMA LogInvariance == Spec => [](IInv /\ LogInv)
  <1>1. IInv /\ LogInv /\ [Next]_vars => LogInv'
    BY SortedStep, ArchiveStep DEF LogInv
  <1> QED BY <1>1, LogInit, Invariance, PTL DEF Spec

\* chat_send's rename adds its message to the log.
LEMMA AppendStep ==
    ASSUME IInv, LogInv, NEW p \in Procs, SendRename(p)
    PROVE  Log!Next
  <1> DEFINE m == Pending(p)
             L == Len(main.lines)
  <1>1. /\ pc[p] \in SendingPoints
        /\ DOMAIN main'.lines = 1 .. L + 1
        /\ \A i \in 1 .. L : main'.lines[i] = main.lines[i]
        /\ main'.lines[L + 1] = m
        /\ UNCHANGED <<archives, sent>>
    BY SendRenamed
  <1>2. /\ m.n \in Nat /\ m.h \in Handles /\ m = [h |-> m.h, n |-> m.n]
        /\ m.n <= sent /\ \A i \in 1 .. L : main.lines[i].n < m.n
    BY <1>1, SendingMessage
  <1>3. m.n >= 1 /\ \A a \in Archived : a.n < m.n
    BY <1>1 DEF LogInv, SortedInv, ArchiveInv
  <1>4. L \in Nat /\ DOMAIN main.lines = 1 .. L /\ sent \in Nat
    BY ChatLines
  <1> HIDE DEF m, L
  <1>5. Archived' = Archived
    BY <1>1 DEF Archived, Elems
  <1>6. Elems(main.lines)' = Elems(main.lines) \cup {m}
    BY <1>1, <1>4 DEF Elems
  <1>7. Stored' = Stored \cup {[h |-> m.h, n |-> m.n]}
    BY <1>2, <1>5, <1>6 DEF Stored
  <1>8. \A x \in Stored : x.n < m.n
    BY <1>2, <1>3, <1>4 DEF Stored, Elems
  <1>9. Log!Append(m.h, m.n)
    BY <1>1, <1>7, <1>8 DEF Log!Append
  <1>10. m.n \in 1 .. sent
    BY <1>2, <1>3, <1>4
  <1> QED BY <1>2, <1>9, <1>10 DEF Log!Next

\* An archive's rename takes away only lines an archive has.
LEMMA ArchiveKeepsStored ==
    ASSUME IInv, NEW p \in Procs, ArchiveRename(p)
    PROVE  UNCHANGED <<Stored, sent>>
  <1> DEFINE L == Len(main.lines)
  <1>1. /\ CLEAVE \in Nat \ {0} /\ CLEAVE <= L
        /\ DOMAIN main'.lines = 1 .. L - CLEAVE
        /\ \A i \in 1 .. L - CLEAVE : main'.lines[i] = main.lines[i + CLEAVE]
        /\ \A i \in 1 .. CLEAVE : main.lines[i] \in Archived
        /\ UNCHANGED <<archives, sent>>
    BY ArchiveRenamed
  <1>2. L \in Nat /\ DOMAIN main.lines = 1 .. L
    BY ChatLines
  <1> HIDE DEF L
  <1>3. Archived' = Archived
    BY <1>1 DEF Archived, Elems
  <1>4. ASSUME NEW i \in 1 .. L - CLEAVE
        PROVE  main'.lines[i] \in Elems(main.lines)
    <2>1. i + CLEAVE \in 1 .. L
      BY <1>1, <1>2
    <2> QED BY <1>1, <1>2, <2>1 DEF Elems
  <1>5. Elems(main.lines)' \subseteq Elems(main.lines)
    BY <1>1, <1>4 DEF Elems
  <1>6. ASSUME NEW i \in 1 .. L
        PROVE  main.lines[i] \in Elems(main.lines)' \cup Archived
    <2>1. CASE i \in 1 .. CLEAVE
      BY <1>1, <2>1
    <2>2. CASE i \notin 1 .. CLEAVE
      <3> DEFINE j == i - CLEAVE
      <3>1. j \in 1 .. L - CLEAVE /\ j + CLEAVE = i
        BY <1>1, <1>2, <2>2
      <3> HIDE DEF j
      <3> QED BY <1>1, <3>1 DEF Elems
    <2> QED BY <2>1, <2>2
  <1>7. Elems(main.lines) \subseteq Elems(main.lines)' \cup Archived
    BY <1>2, <1>6 DEF Elems
  <1> QED BY <1>1, <1>3, <1>5, <1>7 DEF Stored

\* A delete takes the latest messages out of the log.  Where the cut is: right
\* before the first line it removes that no archive has, for a line that an
\* interrupted archive copied stays in the log.
LEMMA TruncateStep ==
    ASSUME IInv, LogInv, NEW p \in Procs, TruncateRename(p)
    PROVE  Log!Next
  <1> DEFINE L == Len(main.lines)
             k == idx[p]
             Gone == {i \in k + 1 .. L : main.lines[i] \notin Archived}
  <1>1. /\ k \in Nat /\ k < L /\ DOMAIN main'.lines = 1 .. k
        /\ \A i \in 1 .. k : main'.lines[i] = main.lines[i]
        /\ UNCHANGED <<archives, sent>>
    BY TruncateRenamed
  <1>2. /\ L \in Nat /\ DOMAIN main.lines = 1 .. L /\ sent \in Nat
        /\ \A i \in 1 .. L : main.lines[i].n \in Nat /\ main.lines[i].n <= sent
    BY ChatLines
  <1> HIDE DEF L, k
  <1>3. Archived' = Archived
    BY <1>1 DEF Archived, Elems
  <1>4. Stored' = {main.lines[i] : i \in 1 .. k} \cup Archived
    BY <1>1, <1>3 DEF Stored, Elems
  <1>5. Stored = {main.lines[i] : i \in 1 .. L} \cup Archived
    BY <1>2 DEF Stored, Elems
  <1>6. \A a \in Archived : a.n \in Nat /\ a.n <= sent
    BY DEF LogInv, ArchiveInv, Msg
  <1>7. CASE Gone = {}
    <2>1. \A i \in 1 .. L : i \in 1 .. k \/ main.lines[i] \in Archived
      BY <1>1, <1>2, <1>7
    <2>2. Stored' = Stored
      BY <1>1, <1>2, <1>4, <1>5, <2>1
    <2>3. \A x \in Stored : x.n <= sent
      BY <1>2, <1>5, <1>6
    <2>4. Log!Truncate(sent)
      BY <1>1, <2>2, <2>3 DEF Log!Truncate
    <2> QED BY <1>2, <2>4 DEF Log!Next
  <1>8. CASE Gone # {}
    <2>1. Gone \in SUBSET Nat
      BY <1>1, <1>2
    <2>2. PICK g \in Gone : \A x \in Gone : g <= x
      BY <1>8, <2>1, LeastNumber
    <2> DEFINE c == main.lines[g].n - 1
    <2>3. /\ g \in 1 .. L /\ g > k /\ main.lines[g] \notin Archived
          /\ main.lines[g].n \in Nat
      BY <1>1, <1>2, <2>2
    <2>4. main.lines[g].n >= 1 /\ main.lines[g].n <= sent
      BY <1>2, <2>3 DEF LogInv, SortedInv
    <2>5. c \in 0 .. sent
      BY <1>2, <2>3, <2>4
    <2>6. \A a \in Archived : a.n <= c
      <3>1. \A a \in Archived : a.n < main.lines[g].n
        BY <1>2, <2>3 DEF LogInv, ArchiveInv
      <3> QED BY <1>6, <2>3, <3>1
    <2>7. ASSUME NEW i \in 1 .. L
          PROVE  IF i < g THEN main.lines[i].n <= c
                          ELSE main.lines[i].n > c
      <3>1. CASE i < g
        <4>1. main.lines[i].n < main.lines[g].n
          BY <1>2, <2>3, <3>1 DEF LogInv, SortedInv
        <4> QED BY <1>2, <2>3, <3>1, <4>1
      <3>2. CASE i = g
        BY <1>2, <2>3, <3>2
      <3>3. CASE i > g
        <4>1. main.lines[g].n < main.lines[i].n
          BY <1>2, <2>3, <3>3 DEF LogInv, SortedInv
        <4> QED BY <1>2, <2>3, <3>3, <4>1
      <3> QED BY <1>2, <2>3, <3>1, <3>2, <3>3
    <2> HIDE DEF c
    <2>8. \A i \in 1 .. L : i > k /\ i < g => main.lines[i] \in Archived
      <3> SUFFICES ASSUME NEW i \in 1 .. L, i > k, i < g,
                          main.lines[i] \notin Archived
                   PROVE  FALSE
        OBVIOUS
      <3>1. i \in Gone
        BY <1>1, <1>2
      <3> QED BY <1>2, <2>2, <2>3, <3>1
    <2>9. Stored' \subseteq {x \in Stored : x.n <= c}
      <3>1. \A i \in 1 .. k : i \in 1 .. L /\ i < g
        BY <1>1, <1>2, <2>3
      <3> QED BY <1>4, <1>5, <2>6, <2>7, <3>1
    <2>10. {x \in Stored : x.n <= c} \subseteq Stored'
      <3> SUFFICES ASSUME NEW x \in Stored, x.n <= c, x \notin Archived
                   PROVE  x \in Stored'
        BY <1>4
      <3>1. PICK i \in 1 .. L : x = main.lines[i]
        BY <1>5
      <3>2. c \in Int /\ main.lines[i].n \in Nat
        BY <1>2, <2>5
      <3>3. i < g
        BY <2>7, <3>1, <3>2
      <3>4. i \in 1 .. k
        BY <1>1, <1>2, <2>8, <3>1, <3>3
      <3> QED BY <1>4, <3>1, <3>4
    <2>11. Log!Truncate(c)
      BY <1>1, <2>9, <2>10 DEF Log!Truncate
    <2> QED BY <2>5, <2>11 DEF Log!Next
  <1> QED BY <1>7, <1>8

\* Every step of the chat is a step of the log or leaves it alone.
LEMMA LogStep ==
    ASSUME IInv, LogInv, [Next]_vars
    PROVE  [Log!Next]_(Log!vars)
  <1>1. CASE main' # main
    <2>1. PICK p \in Procs :
             SendRename(p) \/ ArchiveRename(p) \/ TruncateRename(p)
      BY <1>1, ChatWriters
    <2>2. CASE ArchiveRename(p)
      BY <2>2, ArchiveKeepsStored DEF Log!vars
    <2> QED BY <2>1, <2>2, AppendStep, TruncateStep
  <1>2. CASE main' = main /\ (sent' # sent \/ archives' # archives)
    <2>1. PICK p \in Procs : SendRead(p) \/ ArchiveWrite(p)
      BY <1>2, StampsAndArchives
    <2>2. CASE SendRead(p)
      <3>1. sent' = sent + 1 /\ UNCHANGED <<main, archives>>
        BY <2>2, SendStamped
      <3>2. Stored' = Stored
        BY <3>1 DEF Stored, Archived, Elems
      <3>3. Log!Tick
        BY <3>1, <3>2 DEF Log!Tick
      <3> QED BY <3>3 DEF Log!Next
    <2>3. CASE ArchiveWrite(p)
      <3>1. /\ CLEAVE \in Nat \ {0} /\ CLEAVE <= Len(main.lines)
            /\ Archived' = Archived \cup {main.lines[i] : i \in 1 .. CLEAVE}
            /\ UNCHANGED <<main, sent>>
        BY <2>3, ArchiveWritten
      <3>2. Elems(main.lines)' = Elems(main.lines)
        BY <3>1 DEF Elems
      <3>3. {main.lines[i] : i \in 1 .. CLEAVE} \subseteq Elems(main.lines)
        BY <3>1, ChatLines DEF Elems
      <3>4. Stored' = Stored
        BY <3>1, <3>2, <3>3 DEF Stored
      <3> QED BY <3>1, <3>4 DEF Log!vars
    <2> QED BY <2>1, <2>2, <2>3
  <1>3. CASE UNCHANGED <<main, sent, archives>>
    <2>1. Stored' = Stored
      BY <1>3 DEF Stored, Archived, Elems
    <2> QED BY <1>3, <2>1 DEF Log!vars
  <1> QED BY <1>1, <1>2, <1>3

\* The chat implements the log: with any number of writers, whatever fails and
\* whoever is killed between two renames, a message enters the chat once, later
\* than all others, and only a delete takes messages out, always the latest
\* ones.  chat_auto_archive, which moves lines from one file to another in
\* several steps, is invisible.
THEOREM LogRefinement == Spec => LogSpec
  <1>1. Init => Log!Init
    <2> SUFFICES ASSUME Init PROVE Log!Init
      OBVIOUS
    <2>1. Stored = {}
      BY DEF Init, EmptyChat, Stored, Archived, Elems
    <2> QED BY <2>1 DEF Init, Log!Init
  <1>2. IInv /\ LogInv /\ [Next]_vars => [Log!Next]_(Log!vars)
    BY LogStep
  <1> QED BY <1>1, <1>2, LogInvariance, PTL DEF Spec, LogSpec, Log!Spec

-----------------------------------------------------------------------------
(***************************************************************************)
(* The cursor of a reader.                                                 *)
(***************************************************************************)

\* How a process gets to the points where a send, a cursor write or a read has
\* a handle, an index or a snapshot in hand.
LEMMA PointsKeep ==
    ASSUME TypeOK, [Next]_vars, NEW q \in Procs
    PROVE  /\ pc'[q] \in SendPoints \cup {"s_lock"} =>
                 \/ \E h \in Senders : SendCall(q, h)
                 \/ /\ pc[q] \in SendPoints \cup {"s_lock"}
                    /\ hnd'[q] = hnd[q]
           /\ pc'[q] \in {"w_lock", "w_rename"} =>
                 \/ \E h \in Readers, v \in 0 .. THRESHOLD : CursorSet(q, h, v)
                 \/ SendUnlock(q)
                 \/ ReadShow(q)
                 \/ /\ pc[q] \in {"w_lock", "w_rename"}
                    /\ hnd'[q] = hnd[q] /\ idx'[q] = idx[q]
           /\ pc'[q] = "r_cursor" =>
                 \/ \E h \in Readers : ReadCall(q, h)
                 \/ pc[q] = "r_cursor" /\ buf'[q] = buf[q]
  <1>1. CASE UNCHANGED vars
    BY <1>1 DEF vars
  <1>2. ASSUME NEW p \in Procs, Call(p) \/ Step(p) \/ Disturb(p), p # q
        PROVE  /\ pc'[q] = pc[q] /\ hnd'[q] = hnd[q] /\ buf'[q] = buf[q]
               /\ idx'[q] = idx[q]
    BY <1>2, OthersKeep
  <1> DEFINE Concl ==
        /\ pc'[q] \in SendPoints \cup {"s_lock"} =>
              \/ \E h \in Senders : SendCall(q, h)
              \/ pc[q] \in SendPoints \cup {"s_lock"} /\ hnd'[q] = hnd[q]
        /\ pc'[q] \in {"w_lock", "w_rename"} =>
              \/ \E h \in Readers, v \in 0 .. THRESHOLD : CursorSet(q, h, v)
              \/ SendUnlock(q)
              \/ ReadShow(q)
              \/ /\ pc[q] \in {"w_lock", "w_rename"}
                 /\ hnd'[q] = hnd[q] /\ idx'[q] = idx[q]
        /\ pc'[q] = "r_cursor" =>
              \/ \E h \in Readers : ReadCall(q, h)
              \/ pc[q] = "r_cursor" /\ buf'[q] = buf[q]
  <1>3. ASSUME Call(q) PROVE Concl
    <2>1. CASE \E h \in Senders : SendCall(q, h)
      <3>1. pc'[q] = "s_lock"
        BY <2>1 DEF TypeOK, SendCall, Goto
      <3> QED BY <2>1, <3>1
    <2>2. CASE \E h \in Readers : ReadCall(q, h)
      <3>1. pc'[q] = "r_cursor"
        BY <2>2 DEF TypeOK, ReadCall, Goto
      <3> QED BY <2>2, <3>1 DEF SendPoints
    <2>3. CASE \E h \in Readers : PollCall(q, h)
      <3>1. pc'[q] = "p_wait"
        BY <2>3 DEF TypeOK, PollCall, Goto
      <3> QED BY <3>1 DEF SendPoints
    <2>4. CASE \E h \in Readers, v \in 0 .. THRESHOLD : CursorSet(q, h, v)
      <3>1. pc'[q] = "w_lock"
        BY <2>4 DEF TypeOK, CursorSet, Goto
      <3> QED BY <2>4, <3>1 DEF SendPoints
    <2>5. CASE \E k \in 0 .. Len(ChatRead.lines) - 1 : DeleteCall(q, k)
      <3>1. pc'[q] = "t_lock"
        BY <2>5 DEF TypeOK, DeleteCall, Goto
      <3> QED BY <3>1 DEF SendPoints
    <2> QED BY <1>3, <2>1, <2>2, <2>3, <2>4, <2>5 DEF Call
  <1>4. ASSUME Step(q) PROVE Concl
    <2>1. CASE SendRead(q) \/ SendWrite(q) \/ SendRename(q)
      BY <2>1 DEF TypeOK, SendRead, SendWrite, SendRename, Goto, SendPoints
    <2>2. CASE \/ ArchiveWrite(q) \/ ArchiveRewrite(q) \/ ArchiveRename(q)
               \/ ArchiveCursors(q)
      BY <2>2 DEF TypeOK, ArchiveWrite, ArchiveRewrite, ArchiveRename,
                  ArchiveCursors, Goto, SendPoints
    <2>3. CASE SendUnlock(q)
      <3>1. pc'[q] = "w_lock"
        BY <2>3 DEF TypeOK, SendUnlock, Goto
      <3> QED BY <2>3, <3>1 DEF SendPoints
    <2>4. CASE CursorRead(q)
      BY <2>4 DEF TypeOK, CursorRead, Goto, SendPoints
    <2>5. CASE ReadShow(q)
      <3>1. pc'[q] \in {"w_lock", "idle"}
        BY <2>5 DEF TypeOK, ReadShow, Show, Clamp, Goto, Exit
      <3> QED BY <2>5, <3>1 DEF SendPoints
    <2>6. CASE \/ SendAbort(q) \/ CursorRename(q) \/ DeleteVerify(q)
               \/ PollReturn(q) \/ PollTimeout(q) \/ Reap(q)
      <3>1. pc'[q] \in {"idle", "aborted"}
        BY <2>6 DEF TypeOK, SendAbort, CursorRename, DeleteVerify, PollReturn,
                    PollTimeout, Reap, Goto, Exit
      <3> QED BY <3>1 DEF SendPoints
    <2>7. CASE TruncateSkip(q) \/ TruncateWrite(q) \/ TruncateRename(q)
      <3>1. pc'[q] \in {"t_verify", "t_rename"}
        BY <2>7 DEF TypeOK, TruncateSkip, TruncateWrite, TruncateRename, Goto
      <3> QED BY <3>1 DEF SendPoints
    <2> QED BY <1>4, <2>1, <2>2, <2>3, <2>4, <2>5, <2>6, <2>7 DEF Step
  <1>5. ASSUME Disturb(q) PROVE Concl
    <2>1. CASE WriteFail(q) \/ CursorFail(q) \/ Crash(q)
      <3>1. pc'[q] = "idle"
        BY <2>1 DEF TypeOK, WriteFail, CursorFail, Crash, Goto, Exit
      <3> QED BY <3>1 DEF SendPoints
    <2>2. CASE ArchiveFail(q) \/ ArchiveCursorsFail(q)
      BY <2>2 DEF TypeOK, ArchiveFail, ArchiveCursorsFail, Goto, SendPoints
    <2> QED BY <1>5, <2>1, <2>2 DEF Disturb
  <1>6. CASE Next
    <2>1. PICK p \in Procs : Call(p) \/ Step(p) \/ Disturb(p)
      BY <1>6 DEF Next
    <2>2. CASE p = q
      BY <1>3, <1>4, <1>5, <2>1, <2>2
    <2>3. CASE p # q
      BY <1>2, <2>1, <2>3
    <2> QED BY <2>2, <2>3
  <1> QED BY <1>1, <1>6

\* Only an archive's adjustment and the end of chat_cursor_write change the
\* cursor file.
LEMMA CursorWriters ==
    ASSUME [Next]_vars, cursors' # cursors
    PROVE  \E p \in Procs : ArchiveCursors(p) \/ CursorRename(p)
  <1>1. PICK p \in Procs : Call(p) \/ Step(p) \/ Disturb(p)
    BY DEF Next, vars
  <1>2. ~Call(p)
    BY DEF Call, SendCall, ReadCall, PollCall, CursorSet, DeleteCall, files
  <1>3. ~Disturb(p)
    BY DEF Disturb, WriteFail, ArchiveFail, ArchiveCursorsFail, CursorFail,
           Crash, files
  <1> QED BY <1>1, <1>2, <1>3
          DEF Step, SendRead, SendAbort, SendWrite, SendRename, ArchiveWrite,
              ArchiveRewrite, ArchiveRename, SendUnlock, CursorRead, ReadShow,
              TruncateSkip, TruncateWrite, TruncateRename, DeleteVerify,
              PollReturn, PollTimeout, Reap, files

\* Nothing is ever unseen.
LEMMA SeenGrows ==
    ASSUME TypeOK, [Next]_vars, NEW h \in Handles
    PROVE  seen[h] \subseteq seen'[h]
  <1> SUFFICES ASSUME seen' # seen PROVE seen[h] \subseteq seen'[h]
    OBVIOUS
  <1>1. PICK p \in Procs : Call(p) \/ Step(p) \/ Disturb(p)
    BY DEF Next, vars
  <1>2. ~Call(p)
    BY DEF Call, SendCall, ReadCall, PollCall, CursorSet, DeleteCall
  <1>3. ~Disturb(p)
    BY DEF Disturb, WriteFail, ArchiveFail, ArchiveCursorsFail, CursorFail,
           Crash
  <1>4. SendRename(p) \/ ReadShow(p)
    BY <1>1, <1>2, <1>3
       DEF Step, SendRead, SendAbort, SendWrite, ArchiveWrite, ArchiveRewrite,
           ArchiveRename, ArchiveCursors, SendUnlock, CursorRead, CursorRename,
           TruncateSkip, TruncateWrite, TruncateRename, DeleteVerify,
           PollReturn, PollTimeout, Reap
  <1>5. CASE SendRename(p)
    BY <1>5 DEF TypeOK, SendRename
  <1>6. CASE ReadShow(p)
    <2>1. \E first, last : Show(p, first, last)
      BY <1>6 DEF ReadShow, Clamp
    <2>2. PICK first, last : Show(p, first, last)
      BY <2>1
    <2>3. seen \in [Handles -> SUBSET Nat]
      BY DEF TypeOK
    <2> QED BY <2>2, <2>3 DEF Show
  <1> QED BY <1>4, <1>5, <1>6

\* What the chat file has lost it never has again.
LEMMA LostStays ==
    ASSUME IInv, LogInv, [Next]_vars, NEW i \in Nat \ {0}, Lost(i)
    PROVE  Lost(i)'
  <1> DEFINE L == Len(main.lines)
  <1>0. /\ L \in Nat /\ DOMAIN main.lines = 1 .. L /\ sent \in Nat /\ TypeOK
        /\ \A j \in 1 .. L : main.lines[j].n \in Nat
    BY ChatLines
  <1>1. i <= sent'
    <2>1. CASE sent' = sent
      BY <2>1 DEF Lost
    <2>2. CASE sent' # sent
      <3>1. PICK p \in Procs : SendRead(p)
        BY <2>2, StampsAndArchives DEF ArchiveWrite
      <3> QED BY <1>0, <3>1 DEF Lost, SendRead
    <2> QED BY <2>1, <2>2
  <1>2. ASSUME NEW q \in Procs, pc'[q] \in SendingPoints
        PROVE  Pending(q)'.n # i
    <2>1. CASE SendRead(q)
      BY <1>0, <2>1, SendStamped DEF Lost
    <2>2. CASE pc[q] \in SendingPoints /\ buf'[q] = buf[q]
      BY <2>2 DEF Lost, Pending
    <2> QED BY <1>0, <1>2, <2>1, <2>2, SendingKeep
  <1>3. ~Pristine(i)'
    <2>0. ~Pristine(i)
      BY DEF Lost
    <2>1. CASE main' = main
      BY <2>0, <2>1 DEF Pristine
    <2>2. CASE main' # main
      <3> SUFFICES ASSUME \A j \in 1 .. i :
                             j \in DOMAIN main'.lines /\ main'.lines[j].n = j
                   PROVE  FALSE
        BY DEF Pristine
      <3>1. PICK p \in Procs :
               SendRename(p) \/ ArchiveRename(p) \/ TruncateRename(p)
        BY <2>2, ChatWriters
      <3>2. CASE SendRename(p)
        <4>1. /\ DOMAIN main'.lines = 1 .. L + 1
              /\ \A j \in 1 .. L : main'.lines[j] = main.lines[j]
              /\ main'.lines[L + 1] = Pending(p)
              /\ pc[p] \in SendingPoints
          BY <3>2, SendRenamed
        <4>2. Pending(p).n # i
          BY <4>1 DEF Lost
        <4> HIDE DEF L
        <4>3. i \in 1 .. L
          BY <1>0, <4>1, <4>2
        <4>4. \A j \in 1 .. i : j \in 1 .. L
          BY <1>0, <4>3
        <4> QED BY <1>0, <2>0, <4>1, <4>4 DEF Pristine
      <3>3. CASE ArchiveRename(p)
        <4>1. /\ CLEAVE \in Nat \ {0} /\ CLEAVE <= L
              /\ DOMAIN main'.lines = 1 .. L - CLEAVE
              /\ \A j \in 1 .. L - CLEAVE :
                    main'.lines[j] = main.lines[j + CLEAVE]
          BY <3>3, ArchiveRenamed
        <4> HIDE DEF L
        <4>2. 1 \in 1 .. i
          OBVIOUS
        <4>3. 1 \in 1 .. L - CLEAVE /\ main.lines[1 + CLEAVE].n = 1
          BY <4>1, <4>2
        <4>4. 1 + CLEAVE \in 1 .. L
          BY <1>0, <4>1, <4>3
        <4>5. main.lines[1 + CLEAVE].n >= 1 + CLEAVE
          BY <1>0, <4>4 DEF LogInv, SortedInv
        <4> QED BY <4>1, <4>3, <4>5
      <3>4. CASE TruncateRename(p)
        <4>1. /\ idx[p] \in Nat /\ idx[p] < L
              /\ DOMAIN main'.lines = 1 .. idx[p]
              /\ \A j \in 1 .. idx[p] : main'.lines[j] = main.lines[j]
          BY <3>4, TruncateRenamed
        <4> HIDE DEF L
        <4>2. \A j \in 1 .. idx[p] : j \in 1 .. L
          BY <1>0, <4>1
        <4> QED BY <1>0, <2>0, <4>1, <4>2 DEF Pristine
      <3> QED BY <3>1, <3>2, <3>3, <3>4
    <2> QED BY <2>1, <2>2
  <1> QED BY <1>1, <1>2, <1>3 DEF Lost

\* A snapshot has the lines of the file.
LEMMA SnapshotLines ==
    ASSUME IInv, NEW i \in DOMAIN ChatRead.lines
    PROVE  i \in 1 .. Len(main.lines) /\ ChatRead.lines[i] = main.lines[i]
  <1> DEFINE L == Len(main.lines)
             n == IF L > MAX_MESSAGES THEN MAX_MESSAGES ELSE L
             s == SubSeq(main.lines, 1, n)
  <1>1. main \in Content /\ main.lines \in Seq(Msg) /\ L \in Nat
    BY ChatLines
  <1>2. n \in Nat /\ n <= L
    BY <1>1, ConstantsAssumption
  <1> HIDE DEF n
  <1>3. /\ s \in Seq(Msg) /\ Len(s) = n
        /\ \A j \in 1 .. n : s[j] = main.lines[j]
    BY <1>1, <1>2
  <1> HIDE DEF s
  <1>4. ChatRead = [main EXCEPT !.lines = s]
    BY DEF ChatRead, s, n
  <1>5. ChatRead.lines = s
    BY <1>1, <1>3, <1>4, WithLines
  <1>6. i \in 1 .. n
    BY <1>3, <1>5, LenProperties
  <1> HIDE DEF L
  <1> QED BY <1>1, <1>2, <1>3, <1>5, <1>6 DEF L

\* Line i of the chat file is message i, or the file is past starting with the
\* first i messages.
LEMMA LineOrLost ==
    ASSUME IInv, LogInv, NEW i \in 1 .. Len(main.lines)
    PROVE  main.lines[i].n = i \/ Lost(i)
  <1>0. /\ Len(main.lines) \in Nat /\ DOMAIN main.lines = 1 .. Len(main.lines)
        /\ main.lines[i].n \in Nat /\ main.lines[i].n <= sent /\ sent \in Nat
    BY ChatLines
  <1> SUFFICES ASSUME main.lines[i].n # i PROVE Lost(i)
    OBVIOUS
  <1>1. main.lines[i].n >= i
    BY <1>0 DEF LogInv, SortedInv
  <1>2. i <= sent
    BY <1>0, <1>1
  <1>3. ASSUME NEW q \in Procs, pc[q] \in SendingPoints PROVE Pending(q).n # i
    <2>1. main.lines[i].n < Pending(q).n /\ Pending(q).n \in Nat
      BY <1>3, SendingMessage
    <2> QED BY <1>0, <1>1, <2>1
  <1>4. ~Pristine(i)
    <2>1. i \in 1 .. i
      BY <1>0
    <2> QED BY <2>1 DEF Pristine
  <1> QED BY <1>2, <1>3, <1>4 DEF Lost

\* What a cursor value covers stays covered.
LEMMA DeliveredStays ==
    ASSUME IInv, LogInv, [Next]_vars, NEW h \in Handles, NEW c \in Int,
           Delivered(h, c), NEW i \in 1 .. c + 1
    PROVE  i \in seen'[h] \/ Lost(i)'
  <1>1. i \in seen[h] \/ Lost(i)
    BY DEF Delivered
  <1>2. i \in Nat \ {0}
    OBVIOUS
  <1>3. TypeOK
    BY DEF IInv
  <1> QED BY <1>1, <1>2, <1>3, SeenGrows, LostStays

\* cmd_read computes the cursor from a snapshot and a cursor it read at another
\* time: what it covers was covered before, or was printed.
LEMMA ShowDelivers ==
    ASSUME IInv, LogInv, ReaderInv, [Next]_vars, "filter" \notin Commands,
           NEW q \in Procs, ReadShow(q), pc'[q] # "idle",
           hnd[q] \in Handles \ Senders
    PROVE  /\ hnd'[q] = hnd[q]
           /\ \A i \in 1 .. idx'[q] + 1 : i \in seen'[hnd[q]] \/ Lost(i)'
  <1> DEFINE h     == hnd[q]
             start == cursors[h] + 1
             end   == Len(buf[q].lines)
  <1>1. /\ TypeOK /\ cursors[h] \in Nat \cup {-1} /\ buf[q] \in Content
        /\ pc[q] = "r_cursor" /\ h \in Handles
    BY DEF IInv, TypeOK, ReadShow
  <1>2. start \in Nat
    BY <1>1
  <1>3. end \in Nat /\ DOMAIN buf[q].lines = 1 .. end
    BY <1>1, ContentParts, LenProperties
  <1>4. \A i \in 1 .. start : i \in seen'[h] \/ Lost(i)'
    <2>1. Delivered(h, cursors[h]) /\ cursors[h] \in Int
      BY <1>1 DEF ReaderInv
    <2> QED BY <1>1, <2>1, DeliveredStays
  <1>5. CASE start <= end /\ Show(q, start, end)
    <2>1. /\ start < end /\ idx'[q] = end - 1 /\ hnd'[q] = hnd[q]
          /\ seen' = [seen EXCEPT ![h] =
                         @ \cup {buf[q].lines[i].n : i \in (start + 1) .. end}]
      BY <1>1, <1>5 DEF Show, Exit, Goto, TypeOK
    <2>2. \A i \in (start + 1) .. end : buf[q].lines[i].n \in seen'[h]
      BY <1>1, <2>1 DEF TypeOK
    <2> HIDE DEF start, end
    <2>3. ASSUME NEW i \in 1 .. end PROVE i \in seen'[h] \/ Lost(i)'
      <3>1. CASE i \in 1 .. start
        BY <1>4, <3>1
      <3>2. CASE i \notin 1 .. start
        <4>1. i \in (start + 1) .. end /\ i \in Nat \ {0}
          BY <1>2, <1>3, <3>2
        <4>2. buf[q].lines[i].n = i \/ Lost(i)
          BY <1>1, <1>3 DEF ReaderInv
        <4>3. CASE buf[q].lines[i].n = i
          BY <2>2, <4>1, <4>3
        <4>4. CASE Lost(i)
          BY <4>1, <4>4, LostStays
        <4> QED BY <4>2, <4>3, <4>4
      <3> QED BY <3>1, <3>2
    <2>4. idx'[q] + 1 = end
      BY <1>3, <2>1
    <2> QED BY <2>1, <2>3, <2>4
  <1>6. CASE start > end /\ Clamp(q, end)
    <2>1. /\ hnd'[q] = hnd[q]
          /\ idx'[q] = IF end > 0 THEN end - 1 ELSE 0
      BY <1>1, <1>6 DEF Clamp, Goto, TypeOK
    <2> HIDE DEF start, end
    <2>2. \A i \in 1 .. idx'[q] + 1 : i \in 1 .. start
      BY <1>2, <1>3, <1>6, <2>1
    <2> QED BY <1>4, <2>1, <2>2
  <1> QED BY <1>5, <1>6 DEF ReadShow

\* The parts of the readers' invariant that a step can disturb, one by one.
LEMMA ReaderStep ==
    ASSUME "cursor-set" \notin Commands, "filter" \notin Commands,
           IInv, LogInv, ReaderInv, [Next]_vars
    PROVE  ReaderInv'
  <1>0. TypeOK /\ TypeOK'
    BY NextInv DEF IInv
  <1>1. ASSUME NEW q \in Procs, pc'[q] \in SendPoints \cup {"s_lock"}
        PROVE  hnd'[q] \in Senders
    <2>1. CASE \E h \in Senders : SendCall(q, h)
      BY <1>0, <2>1 DEF TypeOK, SendCall
    <2>2. CASE pc[q] \in SendPoints \cup {"s_lock"} /\ hnd'[q] = hnd[q]
      BY <2>2 DEF ReaderInv
    <2> QED BY <1>0, <1>1, <2>1, <2>2, PointsKeep
  <1>2. ASSUME NEW h \in Handles \ Senders, NEW i \in 1 .. cursors'[h] + 1
        PROVE  i \in seen'[h] \/ Lost(i)'
    <2>0. Delivered(h, cursors[h]) /\ cursors[h] \in Nat \cup {-1}
      BY <1>0 DEF ReaderInv, TypeOK
    <2>1. CASE i \in 1 .. cursors[h] + 1
      BY <2>0, <2>1, DeliveredStays
    <2>2. CASE i \notin 1 .. cursors[h] + 1
      <3>1. PICK p \in Procs : ArchiveCursors(p) \/ CursorRename(p)
        <4>1. cursors' # cursors
          BY <1>2, <2>2
        <4> QED BY <4>1, CursorWriters
      <3>2. CASE ArchiveCursors(p)
        <4>1. cursors'[h] = AdjustCursor(cursors[h])
          BY <3>2 DEF ArchiveCursors
        <4>2. cursors'[h] <= cursors[h] /\ cursors'[h] \in Nat \cup {-1}
          BY <2>0, <4>1, ConstantsAssumption DEF AdjustCursor
        <4> QED BY <2>0, <2>2, <4>2
      <3>3. CASE CursorRename(p)
        <4>1. /\ pc[p] = "w_rename" /\ hnd[p] \in Handles /\ idx[p] \in Nat
              /\ cursors' = CursorTable(cursors, hnd[p], idx[p])
              /\ cursors \in [Handles -> Nat \cup {-1}]
          BY <3>3 DEF IInv, TypeOK, OwnOK, HandleOK, CursorOK, CursorRename
        <4>2. hnd[p] = h /\ cursors'[h] = idx[p]
          BY <1>2, <2>2, <4>1 DEF CursorTable
        <4>3. Delivered(h, idx[p])
          BY <4>1, <4>2 DEF ReaderInv
        <4> QED BY <1>2, <4>1, <4>2, <4>3, DeliveredStays
      <3> QED BY <3>1, <3>2, <3>3
    <2> QED BY <2>1, <2>2
  <1>3. ASSUME NEW q \in Procs, pc'[q] \in {"w_lock", "w_rename"},
               hnd'[q] \in Handles \ Senders, NEW i \in 1 .. idx'[q] + 1
        PROVE  i \in seen'[hnd'[q]] \/ Lost(i)'
    <2>1. ~\E h \in Readers, v \in 0 .. THRESHOLD : CursorSet(q, h, v)
      BY DEF CursorSet
    <2>2. CASE SendUnlock(q)
      <3>1. hnd'[q] = hnd[q] /\ hnd[q] \in Senders
        BY <2>2 DEF SendUnlock, ReaderInv, SendPoints
      <3> QED BY <1>3, <3>1
    <2>3. CASE ReadShow(q)
      <3>1. hnd[q] \in Handles /\ pc'[q] # "idle"
        BY <1>3, <2>3 DEF IInv, OwnOK, HandleOK, ReadShow
      <3>2. hnd'[q] = hnd[q]
        BY <1>0, <2>3, <3>1 DEF TypeOK, ReadShow, Show, Clamp, Exit, Goto
      <3> QED BY <1>3, <2>3, <3>1, <3>2, ShowDelivers
    <2>4. CASE /\ pc[q] \in {"w_lock", "w_rename"}
               /\ hnd'[q] = hnd[q] /\ idx'[q] = idx[q]
      <3>1. Delivered(hnd[q], idx[q]) /\ idx[q] \in Int /\ hnd[q] \in Handles
        BY <1>0, <1>3, <2>4 DEF ReaderInv, TypeOK
      <3> QED BY <1>3, <2>4, <3>1, DeliveredStays
    <2> QED BY <1>0, <1>3, <2>1, <2>2, <2>3, <2>4, PointsKeep
  <1>4. ASSUME NEW q \in Procs, pc'[q] = "r_cursor",
               NEW i \in DOMAIN buf'[q].lines
        PROVE  buf'[q].lines[i].n = i \/ Lost(i)'
    <2>0. i \in Nat \ {0}
      <3>1. buf'[q] \in Content
        BY <1>0 DEF TypeOK
      <3>2. buf'[q].lines \in Seq(Msg)
        BY <3>1, ContentParts
      <3> QED BY <3>2, LenProperties
    <2>1. CASE \E h \in Readers : ReadCall(q, h)
      <3>1. buf'[q] = ChatRead
        BY <1>0, <2>1 DEF TypeOK, ReadCall
      <3>2. /\ i \in 1 .. Len(main.lines)
            /\ buf'[q].lines[i] = main.lines[i]
        BY <3>1, SnapshotLines
      <3> QED BY <2>0, <3>2, LineOrLost, LostStays
    <2>2. CASE pc[q] = "r_cursor" /\ buf'[q] = buf[q]
      <3>1. buf[q].lines[i].n = i \/ Lost(i)
        BY <1>4, <2>2 DEF ReaderInv
      <3> QED BY <2>0, <2>2, <3>1, LostStays
    <2> QED BY <1>0, <1>4, <2>1, <2>2, PointsKeep
  <1> QED BY <1>1, <1>2, <1>3, <1>4 DEF ReaderInv, Delivered

\* No cursor exists when the chat is created.
LEMMA ReaderInit == Init => ReaderInv
  <1> SUFFICES ASSUME Init PROVE ReaderInv
    OBVIOUS
  <1>1. \A p \in Procs : pc[p] = "idle"
    BY DEF Init
  <1>2. ASSUME NEW h \in Handles PROVE Delivered(h, cursors[h])
    <2>1. cursors[h] = -1
      BY DEF Init, NoCursors
    <2> QED BY <2>1 DEF Delivered
  <1> QED BY <1>1, <1>2 DEF ReaderInv, SendPoints

\* The invariant is what the property says of a file nothing was lost from.
LEMMA ReaderInvSuffices == IInv /\ ReaderInv => ReaderCursorDelivered
  <1> SUFFICES ASSUME IInv, ReaderInv,
                      \A i \in DOMAIN main.lines : main.lines[i].n = i,
                      NEW h \in Handles \ Senders, NEW i \in DOMAIN main.lines,
                      i <= cursors[h] + 1
               PROVE  main.lines[i].n \in seen[h]
    BY DEF ReaderCursorDelivered
  <1>1. Len(main.lines) \in Nat /\ DOMAIN main.lines = 1 .. Len(main.lines)
    BY ChatLines
  <1>2. cursors[h] \in Nat \cup {-1}
    BY DEF IInv, TypeOK
  <1>3. i \in 1 .. cursors[h] + 1
    BY <1>1, <1>2
  <1>4. Pristine(i)
    BY <1>1 DEF Pristine
  <1> QED BY <1>3, <1>4 DEF ReaderInv, Delivered, Lost

\* docs/chat-architecture/cursors.md: a cursor of N means that the messages up
\* to index N were delivered.  For every handle that only reads, with the
\* commands read, send, delete and poll, and as long as the file starts with the
\* first messages ever sent: the snapshot, the cursor and the lock for writing
\* the cursor are taken at three different times, other readers of the same
\* handle, archives and deletes happen in between, and still no cursor covers a
\* message its handle was not shown.  The two commands left out set a cursor to
\* a value the user gives (cursor-set) or print part of what they cover
\* (read with --after, --before, --offset or --last).
THEOREM ReaderCursorCorrect ==
    ASSUME "cursor-set" \notin Commands, "filter" \notin Commands
    PROVE  Spec => []ReaderCursorDelivered
  <1>1. IInv /\ LogInv /\ ReaderInv /\ [Next]_vars => ReaderInv'
    BY ReaderStep
  <1> QED BY <1>1, ReaderInit, ReaderInvSuffices, LogInvariance, PTL DEF Spec

=============================================================================
