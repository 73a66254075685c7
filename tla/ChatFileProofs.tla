--------------------------- MODULE ChatFileProofs ---------------------------
(***************************************************************************)
(* Proofs about ChatFile for every number of processes, handles and        *)
(* messages and every value of the limits.                                 *)
(***************************************************************************)
EXTENDS ChatFile, SequenceTheorems, FiniteSetTheorems, TLAPS

-----------------------------------------------------------------------------
(***************************************************************************)
(* The operators keep to their types.                                      *)
(***************************************************************************)

\* What a file image is made of.
LEMMA ContentParts ==
    ASSUME NEW c \in Content
    PROVE  /\ c.lines \in Seq(Msg)
           /\ c.parts \in [Handles -> Nat]
           /\ c.writer \in Handles \cup {NoHandle}
           /\ c = [lines |-> c.lines, parts |-> c.parts, writer |-> c.writer]
  BY DEF Content

\* The lines of a file image are stamped messages.
LEMMA LineStamp ==
    ASSUME NEW s \in Seq(Msg), NEW i \in DOMAIN s
    PROVE  s[i] \in Msg /\ s[i].n \in Nat /\ s[i].h \in Handles
  <1>1. s[i] \in Msg
    BY LenProperties
  <1> QED BY <1>1 DEF Msg

\* A file image with other lines is one.
LEMMA WithLines ==
    ASSUME NEW c \in Content, NEW s \in Seq(Msg)
    PROVE  /\ [c EXCEPT !.lines = s] \in Content
           /\ [c EXCEPT !.lines = s].lines = s
  BY DEF Content

\* Init's chat file, what chat_create writes, is a file image.
LEMMA EmptyChatType == EmptyChat \in Content
  <1>1. << >> \in Seq(Msg)
    OBVIOUS
  <1>2. [h \in Handles |-> 0] \in [Handles -> Nat]
    OBVIOUS
  <1> QED BY <1>1, <1>2 DEF EmptyChat, Content

\* chat_send's image: the file with one message more.
LEMMA AppendedType ==
    ASSUME NEW p \in Procs, main \in Content, hnd[p] \in Handles, sent \in Nat
    PROVE  /\ Appended(p) \in Content
           /\ Appended(p).lines =
                 Append(main.lines, [h |-> hnd[p], n |-> sent + 1])
           /\ Len(Appended(p).lines) = Len(main.lines) + 1
           /\ Appended(p).lines[Len(main.lines) + 1] =
                 [h |-> hnd[p], n |-> sent + 1]
  <1> DEFINE m == [h |-> hnd[p], n |-> sent + 1]
  <1>1. m \in Msg
    BY DEF Msg
  <1>2. main.lines \in Seq(Msg) /\ main.parts \in [Handles -> Nat]
    BY ContentParts
  <1>3. /\ Append(main.lines, m) \in Seq(Msg)
        /\ Len(Append(main.lines, m)) = Len(main.lines) + 1
        /\ Append(main.lines, m)[Len(main.lines) + 1] = m
    BY <1>1, <1>2, AppendProperties
  <1>4. UpdateParticipants(main.parts, hnd[p]) \in [Handles -> Nat]
    BY <1>2 DEF UpdateParticipants
  <1> HIDE DEF m
  <1>5. Appended(p) = [lines  |-> Append(main.lines, m),
                       parts  |-> UpdateParticipants(main.parts, hnd[p]),
                       writer |-> hnd[p]]
    BY DEF Appended, m
  <1>6. Appended(p) \in Content
    BY <1>3, <1>4, <1>5 DEF Content
  <1> QED BY <1>3, <1>5, <1>6 DEF m

\* The trimmed image of chat_auto_archive.
LEMMA TrimmedType ==
    ASSUME NEW c \in Content, CLEAVE <= Len(c.lines)
    PROVE  /\ Trimmed(c) \in Content
           /\ Trimmed(c).lines = SubSeq(c.lines, CLEAVE + 1, Len(c.lines))
  <1>1. c.lines \in Seq(Msg) /\ Len(c.lines) \in Nat /\ CLEAVE \in Nat
    BY ContentParts, LenProperties, ConstantsAssumption
  <1>2. SubSeq(c.lines, CLEAVE + 1, Len(c.lines)) \in Seq(Msg)
    BY <1>1
  <1> QED BY <1>2, WithLines DEF Trimmed

\* The image chat_truncate writes.
LEMMA TruncatedType ==
    ASSUME NEW k \in Nat, main \in Content, k <= Len(main.lines)
    PROVE  /\ Truncated(k) \in Content
           /\ Truncated(k).lines = SubSeq(main.lines, 1, k)
  <1> DEFINE kept == SubSeq(main.lines, 1, k)
  <1>1. main.lines \in Seq(Msg)
    BY ContentParts
  <1>2. kept \in Seq(Msg) /\ Len(kept) = k
    BY <1>1
  <1>3. CountParticipants(kept) \in [Handles -> Nat]
    <2>1. SUFFICES ASSUME NEW h \in Handles
                   PROVE  Cardinality({i \in DOMAIN kept : kept[i].h = h}) \in Nat
      BY DEF CountParticipants
    <2>2. DOMAIN kept = 1 .. k
      BY <1>2
    <2>3. IsFiniteSet(1 .. k)
      BY FS_Interval
    <2>4. IsFiniteSet({i \in DOMAIN kept : kept[i].h = h})
      BY <2>2, <2>3, FS_Subset
    <2> QED BY <2>4, FS_CardinalityType
  <1>4. (IF k = 0 THEN NoHandle ELSE kept[k].h) \in Handles \cup {NoHandle}
    <2>1. CASE k = 0
      BY <2>1
    <2>2. CASE k # 0
      <3>1. kept[k] \in Msg
        BY <1>2, <2>2
      <3> QED BY <3>1, <2>2 DEF Msg
    <2> QED BY <2>1, <2>2
  <1> HIDE DEF kept
  <1>5. Truncated(k) = [lines  |-> kept, parts |-> CountParticipants(kept),
                        writer |-> IF k = 0 THEN NoHandle ELSE kept[k].h]
    BY DEF Truncated, kept
  <1> QED BY <1>2, <1>3, <1>4, <1>5 DEF Content, kept

\* A reader's snapshot is no longer than the file.
LEMMA ChatReadType ==
    ASSUME main \in Content
    PROVE  /\ ChatRead \in Content
           /\ ChatRead.lines \in Seq(Msg)
           /\ Len(ChatRead.lines) <= Len(main.lines)
  <1> DEFINE n == IF Len(main.lines) > MAX_MESSAGES THEN MAX_MESSAGES
                                                    ELSE Len(main.lines)
             s == SubSeq(main.lines, 1, n)
  <1>1. main.lines \in Seq(Msg) /\ MAX_MESSAGES \in Nat
    BY ContentParts, ConstantsAssumption
  <1>2. n \in Nat /\ n <= Len(main.lines)
    BY <1>1
  <1>3. s \in Seq(Msg) /\ Len(s) = n
    BY <1>1, <1>2
  <1> HIDE DEF s
  <1>4. ChatRead = [main EXCEPT !.lines = s]
    BY DEF ChatRead, s
  <1> QED BY <1>2, <1>3, <1>4, WithLines

-----------------------------------------------------------------------------
(***************************************************************************)
(* The inductive invariant.                                                *)
(***************************************************************************)

\* The lock is exclusive: at most one process is at a locked point.
LEMMA Exclusive ==
    ASSUME LockInv, NEW p \in Procs, NEW q \in Procs,
           pc[p] \in LockedPoints, pc[q] \in LockedPoints
    PROVE  p = q
  BY DEF LockInv

\* A step of p leaves what another process q has in hand consistent, if p only
\* touches the files and the clock when it holds the lock or the lock is free.
LEMMA OthersOK ==
    ASSUME IInv, NEW p \in Procs, NEW q \in Procs, q # p,
           pc'[q] = pc[q], hnd'[q] = hnd[q], buf'[q] = buf[q],
           idx'[q] = idx[q], ctab'[q] = ctab[q],
           \/ UNCHANGED <<main, tmp, archives, cursors, sent>>
           \/ lock \in {p, NoProc}
    PROVE  OwnOK(q)'
  <1>1. HandleOK(q)'
    BY DEF IInv, OwnOK, HandleOK
  <1>2. CASE UNCHANGED <<main, tmp, archives, cursors, sent>>
    <2>1. SendOK(q)'
      BY <1>2 DEF IInv, OwnOK, SendOK, Trimmed
    <2>2. TruncOK(q)'
      BY <1>2 DEF IInv, OwnOK, TruncOK, Truncated
    <2>3. CursorOK(q)'
      BY <1>2 DEF IInv, OwnOK, CursorOK
    <2> QED BY <1>1, <2>1, <2>2, <2>3 DEF OwnOK
  <1>3. CASE lock \in {p, NoProc}
    <2>1. pc[q] \notin LockedPoints
      BY <1>3, ConstantsAssumption DEF IInv, LockInv
    <2>2. SendOK(q)' /\ TruncOK(q)' /\ CursorOK(q)'
      BY <2>1 DEF SendOK, TruncOK, CursorOK, LockedPoints, SendPoints,
                  TruncPoints
    <2> QED BY <1>1, <2>2 DEF OwnOK
  <1> QED BY <1>2, <1>3

\* Init establishes the invariant.
LEMMA InitInv == Init => IInv
  <1> SUFFICES ASSUME Init PROVE IInv
    OBVIOUS
  <1>1. TypeOK
    BY EmptyChatType, ConstantsAssumption
       DEF Init, TypeOK, NoCursors, OtherPoints
  <1>2. LockInv
    BY ConstantsAssumption
       DEF Init, LockInv, LockedPoints, SendPoints, TruncPoints
  <1>3. StampInv
    BY DEF Init, StampInv, EmptyChat
  <1>4. ASSUME NEW p \in Procs PROVE OwnOK(p)
    BY DEF Init, OwnOK, HandleOK, SendOK, TruncOK, CursorOK, SendPoints
  <1> QED BY <1>1, <1>2, <1>3, <1>4 DEF IInv

\* A step of p that touches nothing shared and neither starts nor ends at a
\* locked point.
LEMMA LocalStep ==
    ASSUME IInv, NEW p \in Procs, TypeOK', UNCHANGED <<files, lock, sent>>,
           pc[p] \notin LockedPoints, pc'[p] \notin LockedPoints, HandleOK(p)',
           \A q \in Procs \ {p} :
              /\ pc'[q] = pc[q] /\ hnd'[q] = hnd[q] /\ buf'[q] = buf[q]
              /\ idx'[q] = idx[q] /\ ctab'[q] = ctab[q]
    PROVE  IInv'
  <1>1. LockInv'
    BY DEF IInv, LockInv
  <1>2. StampInv'
    BY DEF IInv, StampInv, files
  <1>3. OwnOK(p)'
    BY DEF OwnOK, SendOK, TruncOK, CursorOK, LockedPoints, SendPoints,
           TruncPoints
  <1>4. ASSUME NEW q \in Procs, q # p PROVE OwnOK(q)'
    BY <1>4, OthersOK DEF files
  <1> QED BY <1>1, <1>2, <1>3, <1>4 DEF IInv

\* A step of p after which it is at a locked point: nobody else is.
LEMMA LockedStep ==
    ASSUME IInv, NEW p \in Procs, TypeOK', StampInv', OwnOK(p)',
           lock \in {p, NoProc}, lock' = p, pc'[p] \in LockedPoints,
           \A q \in Procs \ {p} :
              /\ pc'[q] = pc[q] /\ hnd'[q] = hnd[q] /\ buf'[q] = buf[q]
              /\ idx'[q] = idx[q] /\ ctab'[q] = ctab[q]
    PROVE  IInv'
  <1>1. LockInv'
    BY ConstantsAssumption DEF IInv, LockInv
  <1>2. ASSUME NEW q \in Procs, q # p PROVE OwnOK(q)'
    BY <1>2, OthersOK
  <1> QED BY <1>1, <1>2 DEF IInv

\* A step of p after which it is not at a locked point and does not hold the
\* lock; it touched the shared files at most while it held the lock.
LEMMA UnlockedStep ==
    ASSUME IInv, NEW p \in Procs, TypeOK', StampInv', HandleOK(p)',
           Release(p), pc'[p] \notin LockedPoints,
           \/ UNCHANGED <<main, tmp, archives, cursors, sent>>
           \/ pc[p] \in LockedPoints,
           \A q \in Procs \ {p} :
              /\ pc'[q] = pc[q] /\ hnd'[q] = hnd[q] /\ buf'[q] = buf[q]
              /\ idx'[q] = idx[q] /\ ctab'[q] = ctab[q]
    PROVE  IInv'
  <1>1. LockInv'
    BY ConstantsAssumption DEF IInv, LockInv, Release
  <1>2. OwnOK(p)'
    BY DEF OwnOK, SendOK, TruncOK, CursorOK, LockedPoints, SendPoints,
           TruncPoints
  <1>3. ASSUME NEW q \in Procs, q # p PROVE OwnOK(q)'
    BY <1>3, OthersOK DEF IInv, LockInv
  <1> QED BY <1>1, <1>2, <1>3 DEF IInv

\* The end of a command keeps the local variables in their types.
LEMMA ExitType ==
    ASSUME TypeOK, NEW p \in Procs, NEW point \in {"idle", "aborted"},
           Exit(p, point)
    PROVE  /\ pc' \in [Procs -> LockedPoints \cup WaitPoints \cup OtherPoints]
           /\ hnd' \in [Procs -> Handles \cup {NoHandle}]
           /\ buf' \in [Procs -> Content]
           /\ idx' \in [Procs -> Nat]
           /\ ctab' \in [Procs -> [Handles -> Nat \cup {-1}]]
           /\ pc'[p] = point
           /\ \A q \in Procs \ {p} :
                 /\ pc'[q] = pc[q] /\ hnd'[q] = hnd[q] /\ buf'[q] = buf[q]
                 /\ idx'[q] = idx[q] /\ ctab'[q] = ctab[q]
  <1>1. NoCursors \in [Handles -> Nat \cup {-1}]
    BY DEF NoCursors
  <1> QED BY <1>1, EmptyChatType DEF TypeOK, Exit, Goto, OtherPoints

-----------------------------------------------------------------------------
(***************************************************************************)
(* One lemma per action.                                                   *)
(***************************************************************************)

\* A send is issued.
LEMMA SendCallInv ==
    ASSUME IInv, NEW p \in Procs, NEW h \in Senders, SendCall(p, h)
    PROVE  IInv'
  <1>1. TypeOK'
    BY ConstantsAssumption
       DEF IInv, TypeOK, SendCall, Goto, files, WaitPoints
  <1>2. HandleOK(p)'
    BY ConstantsAssumption DEF IInv, TypeOK, SendCall, HandleOK
  <1> QED BY <1>1, <1>2, LocalStep
          DEF IInv, TypeOK, SendCall, Goto, LockedPoints, SendPoints,
              TruncPoints

\* A read takes its snapshot.
LEMMA ReadCallInv ==
    ASSUME IInv, NEW p \in Procs, NEW h \in Readers, ReadCall(p, h)
    PROVE  IInv'
  <1>1. TypeOK'
    BY ConstantsAssumption, ChatReadType
       DEF IInv, TypeOK, ReadCall, Goto, files, OtherPoints
  <1>2. HandleOK(p)'
    BY ConstantsAssumption DEF IInv, TypeOK, ReadCall, HandleOK
  <1> QED BY <1>1, <1>2, LocalStep
          DEF IInv, TypeOK, ReadCall, Goto, LockedPoints, SendPoints,
              TruncPoints

\* A poll takes its initial count.
LEMMA PollCallInv ==
    ASSUME IInv, NEW p \in Procs, NEW h \in Readers, PollCall(p, h)
    PROVE  IInv'
  <1>1. Len(ChatRead.lines) \in Nat
    BY ChatReadType, LenProperties DEF IInv, TypeOK
  <1>2. TypeOK'
    BY <1>1, ConstantsAssumption, ChatReadType
       DEF IInv, TypeOK, PollCall, Goto, files, OtherPoints
  <1>3. HandleOK(p)'
    BY ConstantsAssumption DEF IInv, TypeOK, PollCall, HandleOK
  <1> QED BY <1>2, <1>3, LocalStep
          DEF IInv, TypeOK, PollCall, Goto, LockedPoints, SendPoints,
              TruncPoints

\* A cursor-set is issued.
LEMMA CursorSetInv ==
    ASSUME IInv, NEW p \in Procs, NEW h \in Readers,
           NEW v \in 0 .. THRESHOLD, CursorSet(p, h, v)
    PROVE  IInv'
  <1>1. TypeOK'
    BY ConstantsAssumption
       DEF IInv, TypeOK, CursorSet, Goto, files, WaitPoints
  <1>2. HandleOK(p)'
    BY ConstantsAssumption DEF IInv, TypeOK, CursorSet, HandleOK
  <1> QED BY <1>1, <1>2, LocalStep
          DEF IInv, TypeOK, CursorSet, Goto, LockedPoints, SendPoints,
              TruncPoints

\* A delete finds its cut-off index.
LEMMA DeleteCallInv ==
    ASSUME IInv, NEW p \in Procs,
           NEW k \in 0 .. Len(ChatRead.lines) - 1, DeleteCall(p, k)
    PROVE  IInv'
  <1>1. k \in Nat
    BY ChatReadType, LenProperties DEF IInv, TypeOK
  <1>2. TypeOK'
    BY <1>1, ChatReadType
       DEF IInv, TypeOK, DeleteCall, Goto, files, WaitPoints
  <1>3. HandleOK(p)'
    BY DEF IInv, TypeOK, DeleteCall, Goto, HandleOK, SendPoints
  <1> QED BY <1>2, <1>3, LocalStep
          DEF IInv, TypeOK, DeleteCall, Goto, LockedPoints, SendPoints,
              TruncPoints

\* chat_send has the lock and the image of the new file.
LEMMA SendReadInv ==
    ASSUME IInv, NEW p \in Procs, SendRead(p)
    PROVE  IInv'
  <1> DEFINE m == [h |-> hnd[p], n |-> sent + 1]
  <1>1. hnd[p] \in Handles /\ main \in Content /\ sent \in Nat
    BY DEF IInv, TypeOK, OwnOK, HandleOK, SendRead
  <1>2. main.lines \in Seq(Msg) /\ Len(main.lines) \in Nat
    BY <1>1, ContentParts, LenProperties
  <1>3. /\ Appended(p) \in Content
        /\ Appended(p).lines = Append(main.lines, m)
        /\ Len(Appended(p).lines) = Len(main.lines) + 1
        /\ Appended(p).lines[Len(Appended(p).lines)] = m
    BY <1>1, <1>2, AppendedType
  <1>4. buf'[p] = Appended(p) /\ pc'[p] = "s_write" /\ sent' = sent + 1
    BY DEF IInv, TypeOK, SendRead, Goto
  <1>5. TypeOK'
    BY <1>1, <1>3
       DEF IInv, TypeOK, SendRead, Acquire, Goto, files, LockedPoints, SendPoints
  <1>6. StampInv'
    BY <1>1, <1>2, LineStamp DEF IInv, StampInv, SendRead, files
  <1>7. OwnOK(p)'
    <2>1. HandleOK(p)'
      BY <1>1 DEF HandleOK, SendRead
    <2>2. Appended(p).lines # << >>
      BY <1>2, <1>3, EmptySeq, LenProperties DEF Content
    <2>3. \A i \in DOMAIN main.lines : main.lines[i].n < m.n
      BY <1>1, <1>2, LineStamp DEF IInv, StampInv
    <2>4. main' = main
      BY DEF SendRead, files
    <2>5. m.n <= sent'
      BY <1>1, <1>4
    <2> HIDE DEF m
    <2>6. SendOK(p)'
      BY <1>3, <1>4, <2>2, <2>3, <2>4, <2>5 DEF SendOK, SendPoints
    <2>7. TruncOK(p)' /\ CursorOK(p)'
      BY <1>4 DEF TruncOK, CursorOK
    <2> QED BY <2>1, <2>6, <2>7 DEF OwnOK
  <1> QED BY <1>4, <1>5, <1>6, <1>7, LockedStep
          DEF IInv, TypeOK, SendRead, Acquire, Goto, LockedPoints, SendPoints

\* An assertion of chat_send fails.
LEMMA SendAbortInv ==
    ASSUME IInv, NEW p \in Procs, SendAbort(p)
    PROVE  IInv'
  <1>1. Exit(p, "aborted") /\ pc[p] = "s_lock"
    BY DEF SendAbort
  <1>2. TypeOK'
    BY <1>1, ExitType DEF IInv, TypeOK, SendAbort, files
  <1>3. HandleOK(p)'
    BY <1>1, ExitType DEF IInv, HandleOK, SendPoints
  <1> QED BY <1>1, <1>2, <1>3, LocalStep, ExitType
          DEF IInv, SendAbort, LockedPoints, SendPoints, TruncPoints

\* chat_send writes <path>.tmp.
LEMMA SendWriteInv ==
    ASSUME IInv, NEW p \in Procs, SendWrite(p)
    PROVE  IInv'
  <1>1. /\ pc[p] = "s_write" /\ pc'[p] = "s_rename" /\ tmp' = buf[p]
        /\ lock = p /\ lock' = p
        /\ UNCHANGED <<main, archives, cursors, hnd, buf, idx, ctab, sent>>
    BY DEF IInv, TypeOK, LockInv, SendWrite, Goto, LockedPoints, SendPoints
  <1>2. TypeOK'
    BY DEF IInv, TypeOK, SendWrite, Goto, LockedPoints, SendPoints
  <1>3. StampInv'
    BY <1>1 DEF IInv, StampInv
  <1>4. OwnOK(p)'
    BY <1>1 DEF IInv, OwnOK, HandleOK, SendOK, TruncOK, CursorOK, SendPoints
  <1> QED BY <1>1, <1>2, <1>3, <1>4, LockedStep
          DEF IInv, TypeOK, SendWrite, Goto, LockedPoints, SendPoints

\* chat_send renames <path>.tmp over the chat file.
LEMMA SendRenameInv ==
    ASSUME IInv, NEW p \in Procs, SendRename(p)
    PROVE  IInv'
  <1> DEFINE m == buf[p].lines[Len(buf[p].lines)]
  <1>1. /\ pc[p] = "s_rename" /\ pc'[p] \in {"a_archive", "s_unlock"}
        /\ pc'[p] = "a_archive" => Len(buf[p].lines) > THRESHOLD
        /\ lock = p /\ lock' = p /\ main' = buf[p] /\ tmp' = NoFile
        /\ UNCHANGED <<archives, cursors, hnd, buf, ctab, sent>>
        /\ buf[p] \in Content
    BY DEF IInv, TypeOK, LockInv, OwnOK, SendOK, SendRename, Goto,
           LockedPoints, SendPoints
  <1>2. /\ hnd[p] \in Handles /\ buf[p].lines # << >>
        /\ buf[p].lines = Append(main.lines, m)
        /\ m.n <= sent
    BY <1>1 DEF IInv, OwnOK, HandleOK, SendOK, SendPoints
  <1>3. /\ buf[p].lines \in Seq(Msg) /\ main.lines \in Seq(Msg)
        /\ Len(buf[p].lines) \in Nat \ {0}
    BY <1>1, <1>2, ContentParts, LenProperties, EmptySeq DEF IInv, TypeOK
  <1>4. m \in Msg /\ m.n \in Nat
    <2>1. Len(buf[p].lines) \in DOMAIN buf[p].lines
      BY <1>3, LenProperties
    <2> QED BY <2>1, <1>3, LineStamp
  <1>5. TypeOK'
    <2>1. Len(buf[p].lines) - 1 \in Nat
      BY <1>3
    <2>2. idx' \in [Procs -> Nat]
      BY <2>1 DEF IInv, TypeOK, SendRename
    <2>3. seen' \in [Handles -> SUBSET Nat]
      BY <1>2, <1>4 DEF IInv, TypeOK, SendRename
    <2>4. pc' \in [Procs -> LockedPoints \cup WaitPoints \cup OtherPoints]
      BY DEF IInv, TypeOK, SendRename, Goto, LockedPoints, SendPoints
    <2> QED BY <1>1, <2>2, <2>3, <2>4 DEF IInv, TypeOK, SendRename
  <1>6. StampInv'
    <2>1. \A i \in DOMAIN buf[p].lines : buf[p].lines[i].n <= sent
      <3> SUFFICES ASSUME NEW i \in DOMAIN buf[p].lines
                   PROVE  buf[p].lines[i].n <= sent
        OBVIOUS
      <3>1. CASE i = Len(buf[p].lines)
        BY <3>1, <1>2
      <3>2. CASE i # Len(buf[p].lines)
        <4>1. i \in DOMAIN main.lines /\ buf[p].lines[i] = main.lines[i]
          BY <3>2, <1>2, <1>3, <1>4, AppendProperties, LenProperties
        <4> QED BY <4>1 DEF IInv, StampInv
      <3> QED BY <3>1, <3>2
    <2> QED BY <2>1, <1>1 DEF StampInv
  <1>7. OwnOK(p)'
    BY <1>1, <1>2 DEF OwnOK, HandleOK, SendOK, TruncOK, CursorOK, SendPoints
  <1> QED BY <1>1, <1>5, <1>6, <1>7, LockedStep
          DEF IInv, TypeOK, SendRename, Goto, LockedPoints, SendPoints

\* What a process at an archiving point can rely on: the file it is cutting is
\* its own and longer than the part to cut off.
LEMMA Archiving ==
    ASSUME IInv, NEW p \in Procs, pc[p] \in {"a_archive", "a_write", "a_rename"}
    PROVE  /\ lock = p /\ main = buf[p] /\ buf[p] \in Content
           /\ main.lines \in Seq(Msg) /\ Len(main.lines) \in Nat
           /\ CLEAVE < Len(main.lines) /\ CLEAVE \in Nat \ {0}
           /\ hnd[p] \in Handles
  <1>1. lock = p
    BY DEF IInv, LockInv, LockedPoints, SendPoints
  <1>2. main = buf[p] /\ Len(main.lines) > THRESHOLD /\ hnd[p] \in Handles
    BY DEF IInv, OwnOK, SendOK, HandleOK, SendPoints
  <1>3. main \in Content /\ main.lines \in Seq(Msg) /\ Len(main.lines) \in Nat
    BY ContentParts, LenProperties DEF IInv, TypeOK
  <1> QED BY <1>1, <1>2, <1>3, ConstantsAssumption

\* chat_auto_archive puts the archive file in place.
LEMMA ArchiveWriteInv ==
    ASSUME IInv, NEW p \in Procs, ArchiveWrite(p)
    PROVE  IInv'
  <1>1. /\ pc[p] = "a_archive" /\ pc'[p] = "a_write" /\ lock' = lock
        /\ archives' = archives \cup {SubSeq(buf[p].lines, 1, CLEAVE)}
        /\ UNCHANGED <<main, tmp, cursors, hnd, buf, idx, ctab, sent>>
    BY DEF IInv, TypeOK, ArchiveWrite, Goto
  <1>2. SubSeq(main.lines, 1, CLEAVE) \in Seq(Msg)
    BY <1>1, Archiving
  <1>3. TypeOK'
    BY <1>1, <1>2, Archiving
       DEF IInv, TypeOK, ArchiveWrite, Goto, LockedPoints, SendPoints
  <1>4. StampInv'
    BY <1>1 DEF IInv, StampInv
  <1>5. OwnOK(p)'
    BY <1>1, Archiving
       DEF IInv, OwnOK, HandleOK, SendOK, TruncOK, CursorOK, SendPoints
  <1> QED BY <1>1, <1>3, <1>4, <1>5, Archiving, LockedStep
          DEF IInv, TypeOK, ArchiveWrite, Goto, LockedPoints, SendPoints

\* chat_auto_archive writes the shortened file to <path>.tmp.
LEMMA ArchiveRewriteInv ==
    ASSUME IInv, NEW p \in Procs, ArchiveRewrite(p)
    PROVE  IInv'
  <1>1. /\ pc[p] = "a_write" /\ pc'[p] = "a_rename" /\ lock' = lock
        /\ tmp' = Trimmed(buf[p])
        /\ UNCHANGED <<main, archives, cursors, hnd, buf, idx, ctab, sent>>
    BY DEF IInv, TypeOK, ArchiveRewrite, Goto
  <1>2. tmp' \in Content
    BY <1>1, Archiving, TrimmedType
  <1>3. TypeOK'
    BY <1>1, <1>2
       DEF IInv, TypeOK, ArchiveRewrite, Goto, LockedPoints, SendPoints
  <1>4. StampInv'
    BY <1>1 DEF IInv, StampInv
  <1>5. OwnOK(p)'
    BY <1>1, Archiving
       DEF IInv, OwnOK, HandleOK, SendOK, TruncOK, CursorOK, SendPoints
  <1> QED BY <1>1, <1>3, <1>4, <1>5, Archiving, LockedStep
          DEF IInv, TypeOK, ArchiveRewrite, Goto, LockedPoints, SendPoints

\* The lines left by an archive are lines of the file.
LEMMA TrimmedLines ==
    ASSUME NEW c \in Content, CLEAVE < Len(c.lines),
           NEW i \in DOMAIN Trimmed(c).lines
    PROVE  /\ i + CLEAVE \in DOMAIN c.lines
           /\ Trimmed(c).lines[i] = c.lines[i + CLEAVE]
  <1>1. c.lines \in Seq(Msg) /\ Len(c.lines) \in Nat /\ CLEAVE \in Nat \ {0}
    BY ContentParts, LenProperties, ConstantsAssumption
  <1>2. Trimmed(c).lines = SubSeq(c.lines, CLEAVE + 1, Len(c.lines))
    BY <1>1, TrimmedType
  <1>3. /\ Len(SubSeq(c.lines, CLEAVE + 1, Len(c.lines))) = Len(c.lines) - CLEAVE
        /\ SubSeq(c.lines, CLEAVE + 1, Len(c.lines)) \in Seq(Msg)
    BY <1>1, SubSeqProperties
  <1>4. i \in 1 .. Len(c.lines) - CLEAVE
    BY <1>2, <1>3, LenProperties
  <1> QED BY <1>1, <1>2, <1>4, SubSeqProperties, LenProperties

\* chat_auto_archive renames the shortened file into place.
LEMMA ArchiveRenameInv ==
    ASSUME IInv, NEW p \in Procs, ArchiveRename(p)
    PROVE  IInv'
  <1>1. /\ pc[p] = "a_rename" /\ pc'[p] = "a_cursors" /\ lock' = lock
        /\ main' = Trimmed(main) /\ tmp' = NoFile
        /\ UNCHANGED <<archives, cursors, hnd, buf, idx, ctab, sent>>
    BY DEF IInv, TypeOK, OwnOK, SendOK, ArchiveRename, Goto
  <1>2. main' \in Content
    BY <1>1, Archiving, TrimmedType
  <1>3. TypeOK'
    BY <1>1, <1>2
       DEF IInv, TypeOK, ArchiveRename, Goto, LockedPoints, SendPoints
  <1>4. StampInv'
    BY <1>1, Archiving, TrimmedLines DEF IInv, StampInv
  <1>5. OwnOK(p)'
    BY <1>1
       DEF IInv, OwnOK, HandleOK, SendOK, TruncOK, CursorOK, SendPoints
  <1> QED BY <1>1, <1>3, <1>4, <1>5, Archiving, LockedStep
          DEF IInv, TypeOK, ArchiveRename, Goto, LockedPoints, SendPoints

\* The index of the sender's message after an archive.
LEMMA ArchivedIndexType ==
    ASSUME IInv, NEW p \in Procs, pc[p] \in SendPoints
    PROVE  /\ Len(buf[p].lines) - 1 \in Nat
           /\ ArchivedIndex(Len(buf[p].lines) - 1) \in Nat
  <1>1. buf[p].lines \in Seq(Msg) /\ buf[p].lines # << >>
    BY ContentParts DEF IInv, TypeOK, OwnOK, SendOK
  <1>2. Len(buf[p].lines) \in Nat \ {0}
    BY <1>1, LenProperties, EmptySeq
  <1> QED BY <1>2, ConstantsAssumption DEF ArchivedIndex

\* chat_auto_archive adjusts the cursors.
LEMMA ArchiveCursorsInv ==
    ASSUME IInv, NEW p \in Procs, ArchiveCursors(p)
    PROVE  IInv'
  <1>1. /\ pc[p] = "a_cursors" /\ pc'[p] = "s_unlock" /\ lock' = lock
        /\ lock = p /\ pc[p] \in SendPoints
        /\ UNCHANGED <<main, tmp, archives, hnd, buf, ctab, sent>>
    BY DEF IInv, TypeOK, LockInv, ArchiveCursors, Goto, LockedPoints,
           SendPoints
  <1>2. cursors' \in [Handles -> Nat \cup {-1}]
    BY ConstantsAssumption DEF IInv, TypeOK, ArchiveCursors, AdjustCursor
  <1>3. idx' \in [Procs -> Nat]
    BY <1>1, ArchivedIndexType DEF IInv, TypeOK, ArchiveCursors
  <1>4. TypeOK'
    BY <1>1, <1>2, <1>3
       DEF IInv, TypeOK, ArchiveCursors, Goto, LockedPoints, SendPoints
  <1>5. StampInv'
    BY <1>1 DEF IInv, StampInv
  <1>6. OwnOK(p)'
    BY <1>1
       DEF IInv, OwnOK, HandleOK, SendOK, TruncOK, CursorOK, SendPoints
  <1> QED BY <1>1, <1>4, <1>5, <1>6, LockedStep
          DEF IInv, TypeOK, ArchiveCursors, Goto, LockedPoints, SendPoints

\* chat_send releases the lock.
LEMMA SendUnlockInv ==
    ASSUME IInv, NEW p \in Procs, SendUnlock(p)
    PROVE  IInv'
  <1>1. /\ pc[p] = "s_unlock" /\ pc'[p] = "w_lock" /\ Release(p)
        /\ UNCHANGED <<main, tmp, archives, cursors, hnd, buf, idx, ctab, sent>>
    BY DEF IInv, TypeOK, SendUnlock, Goto, files
  <1>2. TypeOK'
    BY <1>1 DEF IInv, TypeOK, SendUnlock, Release, Goto, WaitPoints
  <1>3. StampInv' /\ HandleOK(p)'
    BY <1>1 DEF IInv, StampInv, OwnOK, HandleOK, SendPoints
  <1> QED BY <1>1, <1>2, <1>3, UnlockedStep
          DEF IInv, TypeOK, SendUnlock, Goto, LockedPoints, SendPoints,
              TruncPoints

\* The table chat_cursor_write writes is a cursor table.
LEMMA CursorTableType ==
    ASSUME NEW c \in [Handles -> Nat \cup {-1}], NEW h \in Handles, NEW v \in Nat
    PROVE  CursorTable(c, h, v) \in [Handles -> Nat \cup {-1}]
  BY DEF CursorTable

\* chat_cursor_write has the lock and the table.
LEMMA CursorReadInv ==
    ASSUME IInv, NEW p \in Procs, CursorRead(p)
    PROVE  IInv'
  <1>1. /\ pc[p] = "w_lock" /\ pc'[p] = "w_rename"
        /\ lock = NoProc /\ lock' = p
        /\ ctab'[p] = CursorTable(cursors, hnd[p], idx[p])
        /\ UNCHANGED <<main, tmp, archives, cursors, hnd, buf, idx, sent>>
    BY DEF IInv, TypeOK, CursorRead, Acquire, Goto, files
  <1>2. hnd[p] \in Handles
    BY <1>1 DEF IInv, OwnOK, HandleOK
  <1>3. ctab' \in [Procs -> [Handles -> Nat \cup {-1}]]
    BY <1>2, CursorTableType DEF IInv, TypeOK, CursorRead
  <1>4. TypeOK'
    BY <1>1, <1>3 DEF IInv, TypeOK, CursorRead, Goto, LockedPoints
  <1>5. StampInv'
    BY <1>1 DEF IInv, StampInv
  <1>6. OwnOK(p)'
    BY <1>1, <1>2
       DEF IInv, OwnOK, HandleOK, SendOK, TruncOK, CursorOK, SendPoints
  <1> QED BY <1>1, <1>4, <1>5, <1>6, LockedStep
          DEF IInv, TypeOK, CursorRead, Goto, LockedPoints

\* chat_cursor_write renames the table into place.
LEMMA CursorRenameInv ==
    ASSUME IInv, NEW p \in Procs, CursorRename(p)
    PROVE  IInv'
  <1>1. /\ pc[p] = "w_rename" /\ Release(p) /\ Exit(p, "idle")
        /\ cursors' = ctab[p] /\ UNCHANGED <<main, tmp, archives, sent>>
    BY DEF CursorRename
  <1>2. TypeOK'
    BY <1>1, ExitType DEF IInv, TypeOK, CursorRename, Release
  <1>3. StampInv' /\ HandleOK(p)'
    BY <1>1, ExitType DEF IInv, StampInv, HandleOK, SendPoints
  <1> QED BY <1>1, <1>2, <1>3, ExitType, UnlockedStep
          DEF IInv, LockedPoints, SendPoints, TruncPoints

\* cmd_read prints the unread messages.
LEMMA ReadShowInv ==
    ASSUME IInv, NEW p \in Procs, ReadShow(p)
    PROVE  IInv'
  <1> DEFINE start == cursors[hnd[p]] + 1
             end   == Len(buf[p].lines)
  <1>1. pc[p] = "r_cursor" /\ UNCHANGED <<files, lock, sent, faults>>
    BY DEF ReadShow
  <1>2. hnd[p] \in Handles
    BY <1>1 DEF IInv, OwnOK, HandleOK
  <1>3. start \in Nat
    <2>1. cursors[hnd[p]] \in Nat \/ cursors[hnd[p]] = -1
      BY <1>2 DEF IInv, TypeOK
    <2> QED BY <2>1
  <1>4. buf[p].lines \in Seq(Msg) /\ end \in Nat
    BY ContentParts, LenProperties DEF IInv, TypeOK
  <1> HIDE DEF start, end
  <1>5. ASSUME NEW first \in Nat, NEW last \in Nat, first <= last, last <= end,
               Show(p, first, last)
        PROVE  IInv'
    <2>1. {buf[p].lines[i].n : i \in (first + 1) .. last} \subseteq Nat
      <3> SUFFICES ASSUME NEW i \in (first + 1) .. last
                   PROVE  buf[p].lines[i].n \in Nat
        OBVIOUS
      <3>1. i \in DOMAIN buf[p].lines
        BY <1>4, <1>5, LenProperties DEF end
      <3> QED BY <3>1, <1>4, LineStamp
    <2>2. seen' \in [Handles -> SUBSET Nat]
      BY <2>1, <1>2, <1>5 DEF IInv, TypeOK, Show
    <2>3. CASE first = last /\ Exit(p, "idle")
      <3>1. TypeOK'
        BY <1>1, <2>2, <2>3, ExitType DEF IInv, TypeOK, files
      <3>2. HandleOK(p)'
        BY <2>3, ExitType DEF IInv, HandleOK, SendPoints
      <3> QED BY <1>1, <2>3, <3>1, <3>2, ExitType, LocalStep
              DEF IInv, LockedPoints, SendPoints, TruncPoints
    <2>4. CASE /\ first < last
               /\ idx' = [idx EXCEPT ![p] = last - 1]
               /\ Goto(p, "w_lock")
               /\ UNCHANGED <<hnd, buf, ctab>>
      <3>1. last - 1 \in Nat
        BY <2>4
      <3>2. TypeOK'
        BY <1>1, <2>2, <2>4, <3>1 DEF IInv, TypeOK, files, Goto, WaitPoints
      <3>3. HandleOK(p)'
        BY <1>2, <2>4 DEF HandleOK
      <3> QED BY <1>1, <2>4, <3>2, <3>3, LocalStep
              DEF IInv, TypeOK, Goto, LockedPoints, SendPoints, TruncPoints
    <2> QED BY <2>3, <2>4, <1>5 DEF Show
  <1>6. ASSUME Clamp(p, end)
        PROVE  IInv'
    <2>1. (IF end > 0 THEN end - 1 ELSE 0) \in Nat
      BY <1>4
    <2>2. TypeOK'
      BY <1>1, <1>6, <2>1 DEF IInv, TypeOK, Clamp, files, Goto, WaitPoints
    <2>3. HandleOK(p)'
      BY <1>2, <1>6 DEF HandleOK, Clamp
    <2> QED BY <1>1, <1>6, <2>2, <2>3, LocalStep
            DEF IInv, TypeOK, Clamp, Goto, LockedPoints, SendPoints, TruncPoints
  <1>7. \/ start <= end /\ Show(p, start, end)
        \/ \E first, last \in start .. end : first <= last /\ Show(p, first, last)
        \/ Clamp(p, end)
    BY DEF ReadShow, start, end
  <1>8. CASE start <= end /\ Show(p, start, end)
    BY <1>3, <1>4, <1>5, <1>8
  <1>9. CASE \E first, last \in start .. end :
                first <= last /\ Show(p, first, last)
    <2>1. PICK first \in start .. end, last \in start .. end :
                first <= last /\ Show(p, first, last)
      BY <1>9
    <2>2. first \in Nat /\ last \in Nat /\ last <= end
      BY <1>3, <1>4
    <2> QED BY <2>1, <2>2, <1>5
  <1> QED BY <1>6, <1>7, <1>8, <1>9

\* chat_truncate finds nothing to do.
LEMMA TruncateSkipInv ==
    ASSUME IInv, NEW p \in Procs, TruncateSkip(p)
    PROVE  IInv'
  <1>1. TypeOK'
    BY DEF IInv, TypeOK, TruncateSkip, Goto, files, OtherPoints
  <1>2. HandleOK(p)'
    BY DEF IInv, TypeOK, TruncateSkip, Goto, HandleOK, SendPoints
  <1> QED BY <1>1, <1>2, LocalStep
          DEF IInv, TypeOK, TruncateSkip, Goto, LockedPoints, SendPoints,
              TruncPoints

\* chat_truncate writes the prefix to <path>.tmp under the lock.
LEMMA TruncateWriteInv ==
    ASSUME IInv, NEW p \in Procs, TruncateWrite(p)
    PROVE  IInv'
  <1>1. /\ pc[p] = "t_lock" /\ pc'[p] = "t_rename"
        /\ lock = NoProc /\ lock' = p /\ tmp' = Truncated(idx[p])
        /\ idx[p] < Len(ChatRead.lines) /\ idx[p] \in Nat
        /\ UNCHANGED <<main, archives, cursors, hnd, buf, idx, ctab, sent>>
    BY DEF IInv, TypeOK, TruncateWrite, Acquire, Goto
  <1>2. main \in Content /\ idx[p] < Len(main.lines)
    <2>1. main \in Content
      BY DEF IInv, TypeOK
    <2>2. /\ Len(ChatRead.lines) <= Len(main.lines)
          /\ Len(ChatRead.lines) \in Nat /\ Len(main.lines) \in Nat
      BY <2>1, ChatReadType, ContentParts, LenProperties
    <2> QED BY <1>1, <2>1, <2>2
  <1>3. tmp' \in Content
    <2>1. Len(main.lines) \in Nat
      BY <1>2, ContentParts, LenProperties
    <2> QED BY <1>1, <1>2, <2>1, TruncatedType
  <1>4. TypeOK'
    BY <1>1, <1>3
       DEF IInv, TypeOK, TruncateWrite, Goto, LockedPoints, TruncPoints
  <1>5. StampInv'
    BY <1>1 DEF IInv, StampInv
  <1>6. OwnOK(p)'
    <2>1. TruncOK(p)'
      BY <1>1, <1>2 DEF TruncOK, Truncated
    <2> QED BY <1>1, <2>1 DEF OwnOK, HandleOK, SendOK, CursorOK, SendPoints
  <1> QED BY <1>1, <1>4, <1>5, <1>6, LockedStep
          DEF IInv, TypeOK, TruncateWrite, Goto, LockedPoints, TruncPoints

\* chat_truncate renames the prefix into place.
LEMMA TruncateRenameInv ==
    ASSUME IInv, NEW p \in Procs, TruncateRename(p)
    PROVE  IInv'
  <1>1. /\ pc[p] = "t_rename" /\ pc'[p] = "t_verify" /\ Release(p)
        /\ main' = Truncated(idx[p]) /\ tmp' = NoFile
        /\ idx[p] \in Nat /\ idx[p] < Len(main.lines)
        /\ UNCHANGED <<archives, cursors, hnd, buf, idx, ctab, sent>>
    BY DEF IInv, TypeOK, OwnOK, TruncOK, TruncateRename, Goto
  <1>2. main \in Content /\ main.lines \in Seq(Msg) /\ Len(main.lines) \in Nat
    BY ContentParts, LenProperties DEF IInv, TypeOK
  <1>3. main' \in Content /\ main'.lines = SubSeq(main.lines, 1, idx[p])
    BY <1>1, <1>2, TruncatedType
  <1>4. TypeOK'
    BY <1>1, <1>3 DEF IInv, TypeOK, TruncateRename, Release, Goto, OtherPoints
  <1>5. StampInv'
    <2>1. \A i \in DOMAIN main'.lines :
             i \in DOMAIN main.lines /\ main'.lines[i] = main.lines[i]
      BY <1>1, <1>2, <1>3, SubSeqProperties, LenProperties
    <2> QED BY <1>1, <2>1 DEF IInv, StampInv
  <1>6. HandleOK(p)'
    BY <1>1 DEF HandleOK, SendPoints
  <1> QED BY <1>1, <1>4, <1>5, <1>6, UnlockedStep
          DEF IInv, TypeOK, TruncateRename, Goto, LockedPoints, SendPoints,
              TruncPoints

\* cmd_delete verifies the result.
LEMMA DeleteVerifyInv ==
    ASSUME IInv, NEW p \in Procs, DeleteVerify(p)
    PROVE  IInv'
  <1>1. (Exit(p, "idle") \/ Exit(p, "aborted")) /\ pc[p] = "t_verify"
    BY DEF DeleteVerify
  <1>2. TypeOK'
    BY <1>1, ExitType DEF IInv, TypeOK, DeleteVerify, files
  <1>3. HandleOK(p)'
    BY <1>1, ExitType DEF IInv, HandleOK, SendPoints
  <1> QED BY <1>1, <1>2, <1>3, LocalStep, ExitType
          DEF IInv, DeleteVerify, LockedPoints, SendPoints, TruncPoints

\* chat_poll returns because of a message.
LEMMA PollReturnInv ==
    ASSUME IInv, NEW p \in Procs, PollReturn(p)
    PROVE  IInv'
  <1>1. Exit(p, "idle") /\ pc[p] = "p_wait"
    BY DEF PollReturn
  <1>2. TypeOK'
    BY <1>1, ExitType DEF IInv, TypeOK, PollReturn, files
  <1>3. HandleOK(p)'
    BY <1>1, ExitType DEF IInv, HandleOK, SendPoints
  <1> QED BY <1>1, <1>2, <1>3, LocalStep, ExitType
          DEF IInv, PollReturn, LockedPoints, SendPoints, TruncPoints

\* chat_poll times out.
LEMMA PollTimeoutInv ==
    ASSUME IInv, NEW p \in Procs, PollTimeout(p)
    PROVE  IInv'
  <1>1. Exit(p, "idle") /\ pc[p] = "p_wait"
    BY DEF PollTimeout
  <1>2. TypeOK'
    BY <1>1, ExitType DEF IInv, TypeOK, PollTimeout, files
  <1>3. HandleOK(p)'
    BY <1>1, ExitType DEF IInv, HandleOK, SendPoints
  <1> QED BY <1>1, <1>2, <1>3, LocalStep, ExitType
          DEF IInv, PollTimeout, LockedPoints, SendPoints, TruncPoints

\* The shell collects an aborted command.
LEMMA ReapInv ==
    ASSUME IInv, NEW p \in Procs, Reap(p)
    PROVE  IInv'
  <1>1. TypeOK'
    BY DEF IInv, TypeOK, Reap, Goto, files, OtherPoints
  <1>2. HandleOK(p)'
    BY DEF IInv, TypeOK, Reap, Goto, HandleOK, SendPoints
  <1> QED BY <1>1, <1>2, LocalStep
          DEF IInv, TypeOK, Reap, Goto, LockedPoints, SendPoints, TruncPoints

\* A write fails before the rename.
LEMMA WriteFailInv ==
    ASSUME IInv, NEW p \in Procs, WriteFail(p)
    PROVE  IInv'
  <1>1. /\ Release(p) /\ Exit(p, "idle") /\ tmp' \in {tmp, NoFile}
        /\ UNCHANGED <<main, archives, cursors, sent, seen>>
        /\ tmp' = tmp \/ pc[p] \in LockedPoints
        /\ faults' = faults + 1
    BY DEF WriteFail, Fault, LockedPoints, SendPoints, TruncPoints
  <1>2. TypeOK'
    BY <1>1, ExitType DEF IInv, TypeOK, Release
  <1>3. StampInv' /\ HandleOK(p)'
    BY <1>1, ExitType DEF IInv, StampInv, HandleOK, SendPoints
  <1> QED BY <1>1, <1>2, <1>3, ExitType, UnlockedStep
          DEF IInv, LockedPoints, SendPoints, TruncPoints

\* chat_auto_archive fails before the shortened file is in place.
LEMMA ArchiveFailInv ==
    ASSUME IInv, NEW p \in Procs, ArchiveFail(p)
    PROVE  IInv'
  <1>1. /\ pc[p] \in SendPoints /\ pc'[p] = "s_unlock" /\ lock = p /\ lock' = p
        /\ tmp' \in {tmp, NoFile}
        /\ UNCHANGED <<main, archives, cursors, hnd, buf, idx, ctab, sent, seen>>
        /\ faults' = faults + 1
    BY DEF IInv, TypeOK, LockInv, ArchiveFail, Fault, Goto, LockedPoints,
           SendPoints
  <1>2. TypeOK'
    BY <1>1 DEF IInv, TypeOK, ArchiveFail, Goto, LockedPoints, SendPoints
  <1>3. StampInv'
    BY <1>1 DEF IInv, StampInv
  <1>4. OwnOK(p)'
    BY <1>1
       DEF IInv, OwnOK, HandleOK, SendOK, TruncOK, CursorOK, SendPoints
  <1> QED BY <1>1, <1>2, <1>3, <1>4, LockedStep
          DEF IInv, TypeOK, ArchiveFail, Goto, LockedPoints, SendPoints

\* The adjusted cursors cannot be written.
LEMMA ArchiveCursorsFailInv ==
    ASSUME IInv, NEW p \in Procs, ArchiveCursorsFail(p)
    PROVE  IInv'
  <1>1. /\ pc[p] = "a_cursors" /\ pc'[p] = "s_unlock" /\ lock = p /\ lock' = p
        /\ UNCHANGED <<main, tmp, archives, cursors, hnd, buf, ctab, sent, seen>>
        /\ faults' = faults + 1
    BY DEF IInv, TypeOK, LockInv, ArchiveCursorsFail, Fault, Goto, LockedPoints,
           SendPoints
  <1>2. idx' \in [Procs -> Nat]
    BY <1>1, ArchivedIndexType DEF IInv, TypeOK, ArchiveCursorsFail, SendPoints
  <1>3. TypeOK'
    <2>1. pc' \in [Procs -> LockedPoints \cup WaitPoints \cup OtherPoints]
      BY DEF IInv, TypeOK, ArchiveCursorsFail, Goto, LockedPoints, SendPoints
    <2> QED BY <1>1, <1>2, <2>1 DEF IInv, TypeOK
  <1>4. StampInv'
    BY <1>1 DEF IInv, StampInv
  <1>5. OwnOK(p)'
    BY <1>1
       DEF IInv, OwnOK, HandleOK, SendOK, TruncOK, CursorOK, SendPoints
  <1>6. \A q \in Procs \ {p} : pc'[q] = pc[q] /\ idx'[q] = idx[q]
    BY DEF IInv, TypeOK, ArchiveCursorsFail, Goto
  <1> QED BY <1>1, <1>3, <1>4, <1>5, <1>6, LockedStep
          DEF LockedPoints, SendPoints

\* chat_cursor_write fails.
LEMMA CursorFailInv ==
    ASSUME IInv, NEW p \in Procs, CursorFail(p)
    PROVE  IInv'
  <1>1. /\ Release(p) /\ Exit(p, "idle")
        /\ UNCHANGED <<main, tmp, archives, cursors, sent, seen>>
        /\ faults' = faults + 1
    BY DEF CursorFail, Fault, files
  <1>2. TypeOK'
    BY <1>1, ExitType DEF IInv, TypeOK, Release
  <1>3. StampInv' /\ HandleOK(p)'
    BY <1>1, ExitType DEF IInv, StampInv, HandleOK, SendPoints
  <1> QED BY <1>1, <1>2, <1>3, ExitType, UnlockedStep
          DEF IInv, LockedPoints, SendPoints, TruncPoints

\* A command is killed.
LEMMA CrashInv ==
    ASSUME IInv, NEW p \in Procs, Crash(p)
    PROVE  IInv'
  <1>1. /\ Release(p) /\ Exit(p, "idle")
        /\ UNCHANGED <<main, tmp, archives, cursors, sent, seen>>
        /\ faults' = faults + 1
    BY DEF Crash, Fault, files
  <1>2. TypeOK'
    BY <1>1, ExitType DEF IInv, TypeOK, Release
  <1>3. StampInv' /\ HandleOK(p)'
    BY <1>1, ExitType DEF IInv, StampInv, HandleOK, SendPoints
  <1> QED BY <1>1, <1>2, <1>3, ExitType, UnlockedStep
          DEF IInv, LockedPoints, SendPoints, TruncPoints

-----------------------------------------------------------------------------
(***************************************************************************)
(* The theorems.                                                           *)
(***************************************************************************)

\* No step of any command, failure or crash breaks the inductive invariant.
LEMMA NextInv == IInv /\ [Next]_vars => IInv'
  <1> SUFFICES ASSUME IInv, [Next]_vars PROVE IInv'
    OBVIOUS
  <1>1. CASE UNCHANGED vars
    <2>1. TypeOK'
      BY <1>1 DEF IInv, TypeOK, vars
    <2>2. LockInv' /\ StampInv'
      BY <1>1 DEF IInv, LockInv, StampInv, vars
    <2>3. ASSUME NEW p \in Procs PROVE OwnOK(p)'
      BY <1>1 DEF IInv, OwnOK, HandleOK, SendOK, TruncOK, CursorOK, Truncated,
                  vars
    <2> QED BY <2>1, <2>2, <2>3 DEF IInv
  <1>2. ASSUME NEW p \in Procs, Call(p) PROVE IInv'
    BY <1>2, SendCallInv, ReadCallInv, PollCallInv, CursorSetInv, DeleteCallInv
       DEF Call
  <1>3. ASSUME NEW p \in Procs, Step(p) PROVE IInv'
    BY <1>3, SendReadInv, SendAbortInv, SendWriteInv, SendRenameInv,
       ArchiveWriteInv, ArchiveRewriteInv, ArchiveRenameInv, ArchiveCursorsInv,
       SendUnlockInv, CursorReadInv, CursorRenameInv, ReadShowInv,
       TruncateSkipInv, TruncateWriteInv, TruncateRenameInv, DeleteVerifyInv,
       PollReturnInv, PollTimeoutInv, ReapInv
       DEF Step
  <1>4. ASSUME NEW p \in Procs, Disturb(p) PROVE IInv'
    BY <1>4, WriteFailInv, ArchiveFailInv, ArchiveCursorsFailInv, CursorFailInv,
       CrashInv
       DEF Disturb
  <1> QED BY <1>1, <1>2, <1>3, <1>4 DEF Next

\* The inductive invariant holds always: whatever the commands do, and wherever
\* one fails or is killed, the lock is exclusive and the image a writer is
\* about to rename into place is derived from the current file.
THEOREM Invariance == Spec => []IInv
  <1> QED BY InitInv, NextInv, PTL DEF Spec

\* Every variable keeps its type.  In particular no rename ever finds
\* <path>.tmp missing: it is shared by all writers, and only the lock keeps one
\* from unlinking or renaming the file another has written.
THEOREM TypeCorrect == Spec => []TypeOK
  <1>1. IInv => TypeOK
    BY DEF IInv
  <1> QED BY <1>1, Invariance, PTL

\* Only three actions put a new chat file in place, and each relates it to the
\* old one as IndexStep says.
LEMMA RenamesKeepIndex ==
    ASSUME IInv, NEW p \in Procs,
           SendRename(p) \/ ArchiveRename(p) \/ TruncateRename(p)
    PROVE  IndexStep
  <1>0. main \in Content /\ main.lines \in Seq(Msg) /\ Len(main.lines) \in Nat
    BY ContentParts, LenProperties DEF IInv, TypeOK
  <1>1. CASE SendRename(p)
    <2> DEFINE m == buf[p].lines[Len(buf[p].lines)]
    <2>1. /\ main' = buf[p] /\ buf[p] \in Content
          /\ buf[p].lines = Append(main.lines, m)
          /\ buf[p].lines # << >>
          /\ \A i \in DOMAIN main.lines : main.lines[i].n < m.n
      BY <1>1 DEF IInv, TypeOK, OwnOK, SendOK, SendRename, SendPoints
    <2>2. buf[p].lines \in Seq(Msg) /\ Len(buf[p].lines) \in Nat \ {0}
      BY <2>1, ContentParts, LenProperties, EmptySeq
    <2>3. m \in Msg
      BY <2>2, LenProperties
    <2>4. Len(buf[p].lines) = Len(main.lines) + 1
      BY <2>1, <2>3, <1>0, AppendProperties
    <2>5. SubSeq(buf[p].lines, 1, Len(main.lines)) = main.lines
      <3> HIDE DEF m
      <3>1. SubSeq(Append(main.lines, m), 1, Len(main.lines)) = main.lines
        BY <1>0, <2>3
      <3> QED BY <3>1, <2>1
    <2>6. DOMAIN main.lines = 1 .. Len(main.lines)
      BY <1>0, LenProperties
    <2> QED BY <2>1, <2>4, <2>5, <2>6 DEF IndexStep
  <1>2. CASE ArchiveRename(p)
    <2>1. /\ pc[p] = "a_rename" /\ main' = Trimmed(main)
          /\ SubSeq(main.lines, 1, CLEAVE) \in archives
      BY <1>2 DEF IInv, OwnOK, SendOK, ArchiveRename
    <2>2. CLEAVE <= Len(main.lines)
      BY <2>1, Archiving
    <2>3. main'.lines = SubSeq(main.lines, CLEAVE + 1, Len(main.lines))
      BY <1>0, <2>1, <2>2, TrimmedType
    <2> QED BY <2>1, <2>2, <2>3 DEF IndexStep
  <1>3. CASE TruncateRename(p)
    <2>1. /\ main' = Truncated(idx[p]) /\ idx[p] \in Nat
          /\ idx[p] < Len(main.lines)
      BY <1>3 DEF IInv, TypeOK, OwnOK, TruncOK, TruncateRename
    <2>2. main'.lines = SubSeq(main.lines, 1, idx[p])
      BY <1>0, <2>1, TruncatedType
    <2>3. Len(main'.lines) = idx[p]
      BY <1>0, <2>1, <2>2, SubSeqProperties
    <2> QED BY <2>1, <2>2, <2>3 DEF IndexStep
  <1> QED BY <1>1, <1>2, <1>3

\* Indices into the chat file stay good: every step that changes it appends one
\* later line, drops exactly CLEAVE archived lines, or cuts off the end, for any
\* number of writers, whatever fails and whoever is killed.
THEOREM IndexStability == Spec => IndexStable
  <1>1. IInv /\ [Next]_vars => [IndexStep]_main
    <2> SUFFICES ASSUME IInv, [Next]_vars, main' # main PROVE IndexStep
      OBVIOUS
    <2>1. PICK p \in Procs : Call(p) \/ Step(p) \/ Disturb(p)
      BY DEF Next, vars
    <2>2. ~Call(p)
      BY DEF Call, SendCall, ReadCall, PollCall, CursorSet, DeleteCall, files
    <2>3. ~Disturb(p)
      BY DEF Disturb, WriteFail, ArchiveFail, ArchiveCursorsFail, CursorFail,
             Crash, files
    <2>4. SendRename(p) \/ ArchiveRename(p) \/ TruncateRename(p)
      BY <2>1, <2>2, <2>3
         DEF Step, SendRead, SendAbort, SendWrite, ArchiveWrite, ArchiveRewrite,
             ArchiveCursors, SendUnlock, CursorRead, CursorRename, ReadShow,
             TruncateSkip, TruncateWrite, DeleteVerify, PollReturn, PollTimeout,
             Reap, files
    <2> QED BY <2>4, RenamesKeepIndex
  <1> QED BY <1>1, Invariance, PTL DEF Spec, IndexStable

\* No cursor update is lost: a step that changes the cursor file is an archive's
\* adjustment of all entries or changes the entry of one command's own handle to
\* the index that command computed.
THEOREM NoLostUpdate == Spec => NoLostCursorUpdate
  <1>1. IInv /\ [Next]_vars => [CursorStep]_cursors
    <2> SUFFICES ASSUME IInv, [Next]_vars, cursors' # cursors PROVE CursorStep
      OBVIOUS
    <2>1. PICK p \in Procs : Call(p) \/ Step(p) \/ Disturb(p)
      BY DEF Next, vars
    <2>2. ~Call(p)
      BY DEF Call, SendCall, ReadCall, PollCall, CursorSet, DeleteCall, files
    <2>3. ~Disturb(p)
      BY DEF Disturb, WriteFail, ArchiveFail, ArchiveCursorsFail, CursorFail,
             Crash, files
    <2>4. ArchiveCursors(p) \/ CursorRename(p)
      BY <2>1, <2>2, <2>3
         DEF Step, SendRead, SendAbort, SendWrite, SendRename, ArchiveWrite,
             ArchiveRewrite, ArchiveRename, SendUnlock, CursorRead, ReadShow,
             TruncateSkip, TruncateWrite, TruncateRename, DeleteVerify,
             PollReturn, PollTimeout, Reap, files
    <2>5. CASE ArchiveCursors(p)
      BY <2>5 DEF CursorStep, ArchiveCursors
    <2>6. CASE CursorRename(p)
      <3>1. /\ pc[p] = "w_rename" /\ hnd[p] \in Handles
            /\ cursors' = CursorTable(cursors, hnd[p], idx[p])
            /\ cursors \in [Handles -> Nat \cup {-1}]
        BY <2>6 DEF IInv, TypeOK, OwnOK, HandleOK, CursorOK, CursorRename
      <3>2. \A h \in Handles :
               cursors'[h] # cursors[h] => h = hnd[p] /\ cursors'[h] = idx[p]
        BY <3>1 DEF CursorTable
      <3> QED BY <3>1, <3>2 DEF CursorStep
    <2> QED BY <2>4, <2>5, <2>6
  <1> QED BY <1>1, Invariance, PTL DEF Spec, NoLostCursorUpdate

=============================================================================
