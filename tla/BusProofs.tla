----------------------------- MODULE BusProofs ------------------------------
(***************************************************************************)
(* Proofs about Bus for every number of processes and events and every     *)
(* value of the limits.                                                    *)
(***************************************************************************)
EXTENDS Bus, FiniteSetTheorems, TLAPS

-----------------------------------------------------------------------------
(***************************************************************************)
(* The inductive invariant.                                                *)
(***************************************************************************)

\* Init establishes the invariant.
LEMMA InitInv == Init => IInv
  <1> SUFFICES ASSUME Init PROVE IInv
    OBVIOUS
  <1>1. TypeOK
    BY DEF Init, TypeOK, Points
  <1>2. LockInv
    BY BusAssumption DEF Init, LockInv, Passed
  <1>3. FreshInv
    BY DEF Init, FreshInv, Publishing, Known
  <1>4. WindowInv
    BY DEF Init, WindowInv, Passed
  <1>5. DedupWindow
    BY DEF Init, DedupWindow
  <1>6. FiniteInv
    BY FS_EmptySet DEF Init, FiniteInv, Known
  <1>7. PlainInv
    BY DEF Init, PlainInv
  <1> QED BY <1>1, <1>2, <1>3, <1>4, <1>5, <1>6, <1>7 DEF IInv

\* A step of p that publishes nothing and is not part of publishing: events may
\* move on from pending to processed to pruned, everything else about the
\* publishers stays.
LEMMA OtherStep ==
    ASSUME IInv, NEW p \in Procs, TypeOK', ~Publishing(p), ~Publishing(p)',
           pending' \subseteq pending, Known' \subseteq Known,
           now' = now, count' = count,
           dlock' = IF dlock = p THEN NoProc ELSE dlock,
           \A q \in Procs \ {p} : pc'[q] = pc[q] /\ ev'[q] = ev[q]
    PROVE  IInv'
  <1>1. \A q \in Procs : Publishing(q)' => q # p /\ Publishing(q)
    BY DEF Publishing
  <1>2. \A q \in Procs : Passed(q)' <=> Passed(q)
    BY DEF Publishing, Passed
  <1>3. LockInv'
    BY <1>2, BusAssumption DEF IInv, LockInv, Passed, Publishing
  <1>4. FreshInv'
    <2>1. \A e \in Known' : e.id < count'
      BY DEF IInv, FreshInv
    <2>2. ASSUME NEW q \in Procs, Publishing(q)'
          PROVE  /\ ev'[q] \in Event
                 /\ ev'[q].id < count'
                 /\ \A e \in Known' : e.id # ev'[q].id
                 /\ \A r \in Procs :
                       Publishing(r)' /\ r # q => ev'[r].id # ev'[q].id
      BY <1>1, <2>2 DEF IInv, FreshInv
    <2> QED BY <2>1, <2>2 DEF FreshInv
  <1>5. WindowInv'
    <2>1. \A e \in pending' : e.ts <= now'
      BY DEF IInv, WindowInv
    <2>2. \A q \in Procs : pc'[q] = "p_rename" => ev'[q].ts <= now'
      BY <1>1 DEF IInv, WindowInv, Publishing
    <2>3. ASSUME NEW q \in Procs, Passed(q)', NEW f \in pending', f.dd,
                 SameKey(ev'[q], f)
          PROVE  f.ts + WINDOW < IF pc'[q] = "p_stamp" THEN now' ELSE ev'[q].ts
      <3>1. q # p /\ Passed(q)
        BY <1>1, <1>2, <2>3 DEF Passed, Publishing
      <3> QED BY <2>3, <3>1 DEF IInv, WindowInv
    <2> QED BY <2>1, <2>2, <2>3 DEF WindowInv
  <1>6. DedupWindow'
    BY DEF IInv, DedupWindow
  <1>7. FiniteInv'
    BY FS_Subset DEF IInv, FiniteInv
  <1>8. PlainInv'
    BY DEF IInv, PlainInv, Publishing
  <1> QED BY <1>3, <1>4, <1>5, <1>6, <1>7, <1>8 DEF IInv

\* The end of a command keeps the types and releases the lock.
LEMMA ExitType ==
    ASSUME TypeOK, NEW p \in Procs, Exit(p)
    PROVE  /\ pc' \in [Procs -> Points]
           /\ ev' \in [Procs -> Event \cup {NoEvent}]
           /\ list' \in [Procs -> SUBSET Event]
           /\ size' \in [Procs -> Nat]
           /\ dlock' \in Procs \cup {NoProc}
           /\ dlock' = IF dlock = p THEN NoProc ELSE dlock
           /\ pc'[p] = "idle"
           /\ \A q \in Procs \ {p} : pc'[q] = pc[q] /\ ev'[q] = ev[q]
  BY DEF TypeOK, Exit, Goto, Points

\* An agent lists the queue.
LEMMA ConsumeCallInv ==
    ASSUME IInv, NEW p \in Procs, ConsumeCall(p)
    PROVE  IInv'
  <1>1. TypeOK'
    BY DEF IInv, TypeOK, ConsumeCall, Goto, shared, Points
  <1> QED BY <1>1, OtherStep
          DEF IInv, TypeOK, LockInv, Passed, Publishing, Known, ConsumeCall, Goto, shared

\* bus_ack looks for the file.
LEMMA ConsumeAckInv ==
    ASSUME IInv, NEW p \in Procs, ConsumeAck(p)
    PROVE  IInv'
  <1>1. TypeOK'
    BY DEF IInv, TypeOK, ConsumeAck, Ack, Goto, shared, Points
  <1> QED BY <1>1, OtherStep
          DEF IInv, TypeOK, LockInv, Passed, Publishing, Known, ConsumeAck, Ack, Goto, shared

\* bus_ack renames the file.
LEMMA ConsumeRenameInv ==
    ASSUME IInv, NEW p \in Procs, ConsumeRename(p)
    PROVE  IInv'
  <1>1. TypeOK'
    BY DEF IInv, TypeOK, ConsumeRename, AckRename, Goto, shared, Points
  <1> QED BY <1>1, OtherStep
          DEF IInv, TypeOK, LockInv, Passed, Publishing, Known, ConsumeRename, AckRename, Goto, shared

\* The agent is through its listing.
LEMMA ConsumeEndInv ==
    ASSUME IInv, NEW p \in Procs, ConsumeEnd(p)
    PROVE  IInv'
  <1>1. /\ Exit(p) /\ pc[p] = "consume"
        /\ UNCHANGED <<pending, processed, now, count, faults, pruned>>
    BY DEF ConsumeEnd
  <1>2. TypeOK'
    BY <1>1, ExitType DEF IInv, TypeOK
  <1> QED BY <1>1, <1>2, ExitType, OtherStep
          DEF IInv, LockInv, Passed, Publishing, Known

\* What a scan returns is a part of the directory.
LEMMA ScansSubset ==
    ASSUME NEW d, NEW s \in Scans(d)
    PROVE  s \subseteq d
  BY DEF Scans

\* bus_ack_all scans the queue.
LEMMA AckAllCallInv ==
    ASSUME IInv, NEW p \in Procs, NEW sources, AckAllCall(p, sources)
    PROVE  IInv'
  <1>1. TypeOK'
    BY ScansSubset DEF IInv, TypeOK, AckAllCall, Goto, shared, Points
  <1> QED BY <1>1, OtherStep
          DEF IInv, TypeOK, LockInv, Passed, Publishing, Known, AckAllCall, Goto, shared

\* bus_ack_all goes to the next file.
LEMMA AckAllOneInv ==
    ASSUME IInv, NEW p \in Procs, AckAllOne(p)
    PROVE  IInv'
  <1>1. TypeOK'
    BY DEF IInv, TypeOK, AckAllOne, Ack, Goto, shared, Points
  <1> QED BY <1>1, OtherStep
          DEF IInv, TypeOK, LockInv, Passed, Publishing, Known, AckAllOne, Ack, Goto, shared

\* bus_ack_all renames a file.
LEMMA AckAllRenameInv ==
    ASSUME IInv, NEW p \in Procs, AckAllRename(p)
    PROVE  IInv'
  <1>1. TypeOK'
    BY DEF IInv, TypeOK, AckAllRename, AckRename, Goto, shared, Points
  <1> QED BY <1>1, OtherStep
          DEF IInv, TypeOK, LockInv, Passed, Publishing, Known, AckAllRename, AckRename, Goto, shared

\* bus_ack_all is through its list.
LEMMA AckAllEndInv ==
    ASSUME IInv, NEW p \in Procs, AckAllEnd(p)
    PROVE  IInv'
  <1>1. /\ Exit(p) /\ pc[p] = "sweep"
        /\ UNCHANGED <<pending, processed, now, count, faults, pruned>>
    BY DEF AckAllEnd
  <1>2. TypeOK'
    BY <1>1, ExitType DEF IInv, TypeOK
  <1> QED BY <1>1, <1>2, ExitType, OtherStep
          DEF IInv, LockInv, Passed, Publishing, Known

\* A rename of bus_ack fails.
LEMMA AckFailInv ==
    ASSUME IInv, NEW p \in Procs, AckFail(p)
    PROVE  IInv'
  <1>1. TypeOK'
    BY DEF IInv, TypeOK, AckFail, Fault, Goto, shared, Points
  <1> QED BY <1>1, OtherStep
          DEF IInv, TypeOK, LockInv, Passed, Publishing, Known, AckFail, Fault, Goto, shared

\* bus_prune is done.
LEMMA PruneEndInv ==
    ASSUME IInv, NEW p \in Procs, PruneEnd(p)
    PROVE  IInv'
  <1>1. /\ Exit(p) /\ pc[p] = "prune"
        /\ UNCHANGED <<pending, processed, now, count, faults, pruned>>
    BY DEF PruneEnd
  <1>2. TypeOK'
    BY <1>1, ExitType DEF IInv, TypeOK
  <1> QED BY <1>1, <1>2, ExitType, OtherStep
          DEF IInv, LockInv, Passed, Publishing, Known

\* bus_prune deletes a file.
LEMMA PruneOneInv ==
    ASSUME IInv, NEW p \in Procs, PruneOne(p)
    PROVE  IInv'
  <1>1. /\ pc[p] = "prune" /\ size[p] > MAX_SIZE /\ size[p] \in Nat
        /\ UNCHANGED <<pending, dlock, now, pc, ev, count, faults>>
    BY DEF IInv, TypeOK, PruneOne
  <1>2. PICK e \in list[p] :
          /\ list' = [list EXCEPT ![p] = @ \ {e}]
          /\ IF e \in processed
             THEN /\ processed' = processed \ {e}
                  /\ pruned' = pruned \cup {e}
                  /\ size' = [size EXCEPT ![p] = @ - 1]
             ELSE UNCHANGED <<processed, pruned, size>>
    BY DEF PruneOne
  <1>3. size[p] - 1 \in Nat
    BY <1>1, BusAssumption
  <1>4. TypeOK'
    BY <1>1, <1>2, <1>3 DEF IInv, TypeOK
  <1>5. Known' \subseteq Known
    BY <1>1, <1>2 DEF Known
  <1> QED BY <1>1, <1>4, <1>5, OtherStep
          DEF IInv, TypeOK, LockInv, Passed, Publishing

\* bus_prune scans processed/.
LEMMA PruneCallInv ==
    ASSUME IInv, NEW p \in Procs, PruneCall(p)
    PROVE  IInv'
  <1>1. PICK s \in Scans(processed) :
          /\ list' = [list EXCEPT ![p] = s]
          /\ size' = [size EXCEPT ![p] = Cardinality(s)]
    BY DEF PruneCall
  <1>2. s \subseteq processed
    BY <1>1, ScansSubset
  <1>3. Cardinality(s) \in Nat
    BY <1>2, FS_Subset, FS_CardinalityType DEF IInv, FiniteInv, Known
  <1>4. TypeOK'
    BY <1>1, <1>2, <1>3 DEF IInv, TypeOK, PruneCall, Goto, shared, Points
  <1> QED BY <1>4, OtherStep
          DEF IInv, TypeOK, LockInv, Passed, Publishing, Known, PruneCall, Goto,
              shared

\* The clock moves on.
LEMMA TickInv ==
    ASSUME IInv, Tick
    PROVE  IInv'
  <1>1. /\ now \in Nat /\ now' = now + 1
        /\ UNCHANGED <<pending, processed, dlock, pc, ev, list, size, count,
                       faults, pruned>>
    BY DEF IInv, TypeOK, Tick, local
  <1>2. TypeOK'
    BY <1>1 DEF IInv, TypeOK
  <1>3. LockInv' /\ PlainInv' /\ FiniteInv' /\ FreshInv' /\ DedupWindow'
    BY <1>1 DEF IInv, LockInv, PlainInv, Passed, FiniteInv, Known, FreshInv, Publishing,
                DedupWindow
  <1>4. WindowInv'
    <2>1. \A e \in pending : e.ts \in Nat /\ e.ts <= now
      BY DEF IInv, TypeOK, WindowInv, Event
    <2>2. \A e \in pending' : e.ts <= now'
      BY <1>1, <2>1
    <2>3. ASSUME NEW q \in Procs, pc'[q] = "p_rename" PROVE ev'[q].ts <= now'
      <3>1. ev[q] \in Event /\ ev[q].ts <= now
        BY <1>1, <2>3 DEF IInv, FreshInv, Publishing, WindowInv
      <3> QED BY <1>1, <3>1 DEF Event
    <2>4. ASSUME NEW q \in Procs, Passed(q)', NEW f \in pending', f.dd,
                 SameKey(ev'[q], f)
          PROVE  f.ts + WINDOW < IF pc'[q] = "p_stamp" THEN now' ELSE ev'[q].ts
      <3>1. f.ts + WINDOW < IF pc[q] = "p_stamp" THEN now ELSE ev[q].ts
        BY <1>1, <2>4 DEF IInv, WindowInv, Passed
      <3>2. f.ts + WINDOW \in Nat
        BY <1>1, <2>1, BusAssumption
      <3> QED BY <1>1, <3>1, <3>2
    <2> QED BY <2>2, <2>3, <2>4 DEF WindowInv
  <1> QED BY <1>2, <1>3, <1>4 DEF IInv

\* The steps of publishing before the event is in the queue: the event of p, if
\* it goes on, keeps its id and its key.
LEMMA PublisherStep ==
    ASSUME IInv, NEW p \in Procs, TypeOK', LockInv', Publishing(p), pc'[p] # "d_lock",
           UNCHANGED <<pending, processed, now, count, pruned>>,
           Publishing(p)' => ev'[p] \in Event /\ ev'[p].id = ev[p].id,
           pc'[p] = "p_rename" => ev'[p].ts <= now,
           Passed(p)' => \A f \in pending : f.dd /\ SameKey(ev'[p], f) =>
              f.ts + WINDOW < IF pc'[p] = "p_stamp" THEN now ELSE ev'[p].ts,
           \A q \in Procs \ {p} : pc'[q] = pc[q] /\ ev'[q] = ev[q]
    PROVE  IInv'
  <1>1. \A q \in Procs \ {p} :
          (Publishing(q)' <=> Publishing(q)) /\ (Passed(q)' <=> Passed(q))
    BY DEF Publishing, Passed
  <1>2. FiniteInv' /\ DedupWindow' /\ PlainInv'
    BY DEF IInv, FiniteInv, Known, DedupWindow, PlainInv
  <1>3. FreshInv'
    <2>1. Known' = Known
      BY DEF Known
    <2>2. ASSUME NEW q \in Procs, Publishing(q)'
          PROVE  Publishing(q) /\ ev'[q] \in Event /\ ev'[q].id = ev[q].id
      BY <1>1, <2>2 DEF IInv, FreshInv
    <2> QED BY <2>1, <2>2 DEF IInv, FreshInv
  <1>4. WindowInv'
    <2>1. \A q \in Procs : pc'[q] = "p_rename" => ev'[q].ts <= now'
      BY DEF IInv, WindowInv
    <2>2. ASSUME NEW q \in Procs, Passed(q)', NEW f \in pending', f.dd,
                 SameKey(ev'[q], f)
          PROVE  f.ts + WINDOW < IF pc'[q] = "p_stamp" THEN now' ELSE ev'[q].ts
      BY <1>1, <2>2 DEF IInv, WindowInv
    <2> QED BY <2>1, <2>2 DEF IInv, WindowInv
  <1> QED BY <1>2, <1>3, <1>4 DEF IInv

\* A duplicate is dropped.
LEMMA DedupDropInv ==
    ASSUME IInv, NEW p \in Procs, DedupDrop(p)
    PROVE  IInv'
  <1>1. /\ Exit(p) /\ pc[p] = "d_lock"
        /\ UNCHANGED <<pending, processed, now, count, faults, pruned>>
    BY DEF DedupDrop
  <1>2. TypeOK'
    BY <1>1, ExitType DEF IInv, TypeOK
  <1>3. LockInv'
    BY <1>1, ExitType, BusAssumption DEF IInv, LockInv, Passed
  <1> QED BY <1>1, <1>2, <1>3, ExitType, PublisherStep
          DEF IInv, Passed, Publishing

\* The scan finds no duplicate and the lock stays held: every pending event of
\* the key is from before the window.
LEMMA DedupPassInv ==
    ASSUME IInv, NEW p \in Procs, DedupPass(p)
    PROVE  IInv'
  <1>1. /\ pc[p] = "d_lock" /\ pc'[p] = "p_stamp"
        /\ dlock = NoProc /\ dlock' = p /\ ~Duplicate(ev[p])
        /\ ev[p] \in Event /\ ev'[p] = [ev[p] EXCEPT !.dd = TRUE]
        /\ UNCHANGED <<pending, processed, now, list, size, count, faults,
                       pruned>>
        /\ \A q \in Procs \ {p} : pc'[q] = pc[q] /\ ev'[q] = ev[q]
    BY DEF IInv, TypeOK, FreshInv, Publishing, DedupPass, Goto
  <1>2. /\ ev'[p] \in Event /\ ev'[p].id = ev[p].id /\ ev'[p].dd
        /\ ev'[p].src = ev[p].src /\ ev'[p].typ = ev[p].typ
    BY <1>1 DEF Event
  <1>3. TypeOK'
    BY <1>1, <1>2 DEF IInv, TypeOK, DedupPass, Goto, Points
  <1>4. LockInv'
    BY <1>1, <1>2, BusAssumption DEF IInv, LockInv, Passed
  <1>5. ASSUME NEW f \in pending, SameKey(ev'[p], f)
        PROVE  f.ts + WINDOW < now
    <2>1. f.ts < Cutoff
      <3>1. SameKey(ev[p], f)
        BY <1>2, <1>5 DEF SameKey
      <3>2. ~(f.ts >= Cutoff)
        BY <1>1, <3>1 DEF Duplicate
      <3>3. f.ts \in Nat /\ Cutoff \in Int
        BY BusAssumption DEF IInv, TypeOK, Event, Cutoff
      <3> QED BY <3>2, <3>3
    <2>2. f.ts \in Nat /\ now \in Nat
      BY DEF IInv, TypeOK, Event
    <2> QED BY <2>1, <2>2, BusAssumption DEF Cutoff
  <1> QED BY <1>1, <1>2, <1>3, <1>4, <1>5, PublisherStep DEF Publishing

\* bus_publish takes the timestamp.
LEMMA PublishStampInv ==
    ASSUME IInv, NEW p \in Procs, PublishStamp(p)
    PROVE  IInv'
  <1>1. /\ pc[p] = "p_stamp" /\ pc'[p] = "p_rename"
        /\ ev[p] \in Event /\ ev'[p] = [ev[p] EXCEPT !.ts = now]
        /\ UNCHANGED <<pending, processed, dlock, now, list, size, count, faults,
                       pruned>>
        /\ \A q \in Procs \ {p} : pc'[q] = pc[q] /\ ev'[q] = ev[q]
    BY DEF IInv, TypeOK, FreshInv, Publishing, PublishStamp, Goto, shared
  <1>2. /\ ev'[p] \in Event /\ ev'[p].id = ev[p].id /\ ev'[p].dd = ev[p].dd
        /\ ev'[p].src = ev[p].src /\ ev'[p].typ = ev[p].typ /\ ev'[p].ts = now
        /\ now \in Nat
    BY <1>1 DEF Event, IInv, TypeOK
  <1>3. TypeOK'
    BY <1>1, <1>2 DEF IInv, TypeOK, PublishStamp, Goto, Points
  <1>4. LockInv'
    BY <1>1, <1>2 DEF IInv, LockInv, Passed
  <1>5. Passed(p)' => \A f \in pending : f.dd /\ SameKey(ev'[p], f) =>
            f.ts + WINDOW < IF pc'[p] = "p_stamp" THEN now ELSE ev'[p].ts
    BY <1>1, <1>2 DEF IInv, WindowInv, Passed, SameKey
  <1>6. Publishing(p) /\ ev'[p].ts <= now /\ pc'[p] # "d_lock"
    BY <1>1, <1>2 DEF Publishing
  <1> QED BY <1>1, <1>2, <1>3, <1>4, <1>5, <1>6, PublisherStep

\* The dedup lock cannot be had: the event goes on without the scan.
LEMMA DedupLockFailInv ==
    ASSUME IInv, NEW p \in Procs, DedupLockFail(p)
    PROVE  IInv'
  <1>1. /\ pc[p] = "d_lock" /\ pc'[p] = "p_stamp"
        /\ UNCHANGED <<pending, processed, dlock, now, ev, list, size, count,
                       pruned>>
        /\ ev[p] \in Event
        /\ \A q \in Procs \ {p} : pc'[q] = pc[q] /\ ev'[q] = ev[q]
    BY DEF IInv, TypeOK, FreshInv, Publishing, DedupLockFail, Goto, shared
  <1>2. TypeOK'
    BY <1>1 DEF IInv, TypeOK, DedupLockFail, Fault, Goto, Points
  <1>3. LockInv'
    BY <1>1 DEF IInv, LockInv, PlainInv, Passed
  <1>4. ev[p].dd = FALSE
    BY <1>1 DEF IInv, PlainInv
  <1> QED BY <1>1, <1>2, <1>3, <1>4, PublisherStep DEF Publishing, Passed

\* A publish is issued: its event gets an id of its own.
LEMMA PublishCallInv ==
    ASSUME IInv, NEW p \in Procs, NEW s \in Sources, NEW t \in Types,
           NEW prio \in Priorities, NEW dedup \in BOOLEAN,
           PublishCall(p, s, t, prio, dedup)
    PROVE  IInv'
  <1> DEFINE e == [id |-> count, src |-> s, typ |-> t, prio |-> prio,
                   ts |-> 0, dd |-> FALSE]
  <1>1. /\ pc[p] = "idle" /\ pc'[p] \in {"d_lock", "p_stamp"}
        /\ ev'[p] = e /\ count' = count + 1 /\ count \in Nat
        /\ UNCHANGED <<pending, processed, dlock, now, list, size, faults,
                       pruned>>
        /\ \A q \in Procs \ {p} : pc'[q] = pc[q] /\ ev'[q] = ev[q]
    BY DEF IInv, TypeOK, PublishCall, Goto, shared
  <1>2. e \in Event /\ e.id = count /\ e.dd = FALSE
    BY <1>1 DEF Event
  <1> HIDE DEF e
  <1>3. TypeOK'
    BY <1>1, <1>2 DEF IInv, TypeOK, PublishCall, Goto, Points, e
  <1>4. LockInv'
    BY <1>1, <1>2 DEF IInv, LockInv, Passed
  <1>5. FiniteInv' /\ DedupWindow' /\ PlainInv'
    BY <1>1, <1>2 DEF IInv, FiniteInv, Known, DedupWindow, PlainInv
  <1>6. Known' = Known /\ \A f \in Known : f.id \in Nat /\ f.id < count
    BY <1>1 DEF IInv, TypeOK, Known, FreshInv, Event
  <1>7. \A q \in Procs \ {p} : Publishing(q)' => Publishing(q)
    BY <1>1 DEF Publishing
  <1>8. \A q \in Procs : Publishing(q) =>
           ev[q] \in Event /\ ev[q].id \in Nat /\ ev[q].id < count
    BY DEF IInv, FreshInv, Event
  <1>9. FreshInv'
    <2>1. \A f \in Known' : f.id < count'
      BY <1>1, <1>6
    <2>2. ASSUME NEW q \in Procs, Publishing(q)'
          PROVE  /\ ev'[q] \in Event
                 /\ ev'[q].id < count'
                 /\ \A f \in Known' : f.id # ev'[q].id
                 /\ \A r \in Procs :
                       Publishing(r)' /\ r # q => ev'[r].id # ev'[q].id
      <3>1. CASE q = p
        BY <1>1, <1>2, <1>6, <1>7, <1>8, <3>1
      <3>2. CASE q # p
        <4>1. Publishing(q) /\ ev'[q] = ev[q]
          BY <1>1, <1>7, <2>2, <3>2
        <4>2. ev'[q] \in Event /\ ev'[q].id < count'
          BY <1>1, <1>8, <4>1
        <4>3. \A f \in Known' : f.id # ev'[q].id
          BY <1>6, <4>1 DEF IInv, FreshInv
        <4>4. ASSUME NEW r \in Procs, Publishing(r)', r # q
              PROVE  ev'[r].id # ev'[q].id
          <5>1. CASE r = p
            BY <1>1, <1>2, <1>8, <4>1, <5>1
          <5>2. CASE r # p
            BY <1>1, <1>7, <4>1, <4>4, <5>2 DEF IInv, FreshInv
          <5> QED BY <5>1, <5>2
        <4> QED BY <4>2, <4>3, <4>4
      <3> QED BY <3>1, <3>2
    <2> QED BY <2>1, <2>2 DEF FreshInv
  <1>10. WindowInv'
    <2>1. ASSUME NEW q \in Procs, Passed(q)' PROVE q # p /\ Passed(q)
      BY <1>1, <1>2, <2>1 DEF Passed
    <2>2. ASSUME NEW q \in Procs, pc'[q] = "p_rename" PROVE q # p
      BY <1>1, <2>2
    <2> QED BY <1>1, <2>1, <2>2 DEF IInv, WindowInv
  <1> QED BY <1>3, <1>4, <1>5, <1>9, <1>10 DEF IInv

\* The event appears in the queue: it is later by more than the window than
\* every pending event of its key that passed the scan.
LEMMA PublishRenameInv ==
    ASSUME IInv, NEW p \in Procs, PublishRename(p)
    PROVE  IInv'
  <1>1. /\ pc[p] = "p_rename" /\ Exit(p) /\ pending' = pending \cup {ev[p]}
        /\ UNCHANGED <<processed, now, count, faults, pruned>>
        /\ ev[p] \in Event /\ ev[p].ts <= now
    BY DEF IInv, FreshInv, Publishing, WindowInv, PublishRename
  <1>2. TypeOK'
    BY <1>1, ExitType DEF IInv, TypeOK
  <1>3. LockInv'
    BY <1>1, ExitType, BusAssumption DEF IInv, LockInv, Passed
  <1>4. Known' = Known \cup {ev[p]}
    BY <1>1 DEF Known
  <1>5. FiniteInv'
    BY <1>4, FS_AddElement DEF IInv, FiniteInv
  <1>6. \A q \in Procs : Publishing(q)' => q # p /\ Publishing(q)
    BY <1>1, ExitType DEF IInv, Publishing
  <1>7. FreshInv'
    BY <1>1, <1>4, <1>6, ExitType DEF IInv, FreshInv, Publishing
  <1>8. WindowInv'
    <2>1. ASSUME NEW q \in Procs, Passed(q)', NEW f \in pending', f.dd,
                 SameKey(ev'[q], f)
          PROVE  f.ts + WINDOW < IF pc'[q] = "p_stamp" THEN now' ELSE ev'[q].ts
      <3>1. q # p /\ Passed(q) /\ pc'[q] = pc[q] /\ ev'[q] = ev[q]
        BY <1>1, <2>1, ExitType DEF IInv, Passed
      <3>2. ~Passed(p)
        BY <3>1 DEF IInv, LockInv
      <3>3. f \in pending
        BY <1>1, <2>1, <3>2 DEF Passed
      <3> QED BY <1>1, <2>1, <3>1, <3>3 DEF IInv, WindowInv
    <2>2. \A q \in Procs : pc'[q] = "p_rename" => ev'[q].ts <= now'
      BY <1>1, ExitType DEF IInv, WindowInv
    <2> QED BY <1>1, <2>1, <2>2 DEF IInv, WindowInv
  <1>9. DedupWindow'
    <2>1. ASSUME NEW f \in pending, f.dd, ev[p].dd, SameKey(ev[p], f)
          PROVE  f.ts + WINDOW < ev[p].ts
      BY <1>1, <2>1 DEF IInv, WindowInv, Passed
    <2> QED BY <1>1, <2>1 DEF IInv, DedupWindow, SameKey
  <1>10. PlainInv'
    BY <1>1, ExitType DEF IInv, PlainInv
  <1> QED BY <1>2, <1>3, <1>5, <1>7, <1>8, <1>9, <1>10 DEF IInv

\* A command is killed.
LEMMA CrashInv ==
    ASSUME IInv, NEW p \in Procs, Crash(p)
    PROVE  IInv'
  <1>1. /\ Exit(p) /\ UNCHANGED <<pending, processed, now, count, pruned>>
        /\ faults' = faults + 1
    BY DEF Crash, Fault
  <1>2. TypeOK'
    BY <1>1, ExitType DEF IInv, TypeOK
  <1>3. LockInv'
    BY <1>1, ExitType, BusAssumption DEF IInv, LockInv, Passed
  <1>4. CASE Publishing(p)
    BY <1>1, <1>2, <1>3, <1>4, ExitType, PublisherStep
       DEF IInv, Passed, Publishing
  <1>5. CASE ~Publishing(p)
    BY <1>1, <1>2, <1>5, ExitType, OtherStep DEF IInv, Publishing, Known
  <1> QED BY <1>4, <1>5

-----------------------------------------------------------------------------
(***************************************************************************)
(* The theorems.                                                           *)
(***************************************************************************)

\* No step of any command, failure or crash breaks the inductive invariant.
LEMMA NextInv == IInv /\ [Next]_vars => IInv'
  <1> SUFFICES ASSUME IInv, [Next]_vars PROVE IInv'
    OBVIOUS
  <1>1. CASE UNCHANGED vars
    BY <1>1 DEF vars, IInv, TypeOK, LockInv, PlainInv, FiniteInv, FreshInv, WindowInv,
                DedupWindow, Passed, Publishing, Known
  <1>2. CASE Tick
    BY <1>2, TickInv
  <1>3. ASSUME NEW p \in Procs, Call(p) PROVE IInv'
    BY <1>3, PublishCallInv, AckAllCallInv, PruneCallInv DEF Call
  <1>4. ASSUME NEW p \in Procs, Step(p) PROVE IInv'
    BY <1>4, DedupDropInv, DedupPassInv, PublishStampInv, PublishRenameInv,
       ConsumeAckInv, ConsumeRenameInv, ConsumeEndInv, AckAllOneInv,
       AckAllRenameInv, AckAllEndInv, PruneOneInv, PruneEndInv
       DEF Step
  <1>5. ASSUME NEW p \in Procs,
               ConsumeCall(p) \/ DedupLockFail(p) \/ AckFail(p) \/ Crash(p)
        PROVE  IInv'
    BY <1>5, ConsumeCallInv, DedupLockFailInv, AckFailInv, CrashInv
  <1> QED BY <1>1, <1>2, <1>3, <1>4, <1>5 DEF Next

\* The inductive invariant holds always.
THEOREM Invariance == Spec => []IInv
  <1> QED BY InitInv, NextInv, PTL DEF Spec

\* bus_publish_dedup keeps its promise for every number of publishers: two
\* pending events of one key that both passed the scan are more than the window
\* apart.  The proof needs that the lock is held from the scan to the rename.
THEOREM DedupCorrect == Spec => []DedupWindow
  <1>1. IInv => DedupWindow
    BY DEF IInv
  <1> QED BY <1>1, Invariance, PTL

\* Every step of the bus is a step of the abstract queue or leaves it alone.
LEMMA QueueStep ==
    ASSUME IInv, [Next]_vars
    PROVE  [Queue!Next]_(Queue!vars)
  <1> SUFFICES ASSUME Next, ~UNCHANGED <<pending, processed, pruned>>
               PROVE  Queue!Next
    BY DEF vars, Queue!vars
  <1>1. PICK p \in Procs : \/ PublishRename(p) \/ ConsumeRename(p)
                           \/ AckAllRename(p) \/ PruneOne(p)
    BY DEF Next, Tick, Call, PublishCall, AckAllCall, PruneCall, ConsumeCall,
           Step, DedupDrop, DedupPass, PublishStamp, ConsumeAck, Ack, ConsumeEnd,
           AckAllOne, AckAllEnd, PruneEnd, DedupLockFail, AckFail, Crash, shared
  <1>2. CASE PublishRename(p)
    <2>1. ev[p] \notin Known
      BY <1>2 DEF IInv, FreshInv, Publishing, PublishRename
    <2>2. Queue!Publish
      BY <1>2, <2>1 DEF PublishRename, Queue!Publish, Queue!Known, Known
    <2> QED BY <2>2 DEF Queue!Next
  <1>3. CASE ConsumeRename(p) \/ AckAllRename(p)
    <2>1. Queue!Acknowledge
      BY <1>3 DEF ConsumeRename, AckAllRename, AckRename, Queue!Acknowledge
    <2> QED BY <2>1 DEF Queue!Next
  <1>4. CASE PruneOne(p)
    <2>1. Queue!Discard
      BY <1>4 DEF PruneOne, Queue!Discard
    <2> QED BY <2>1 DEF Queue!Next
  <1> QED BY <1>1, <1>2, <1>3, <1>4

\* The bus implements the abstract queue: an event is published once,
\* acknowledged at most once and discarded at most once, whatever the number of
\* processes and wherever they are killed.
THEOREM QueueRefinement == Spec => QueueSpec
  <1>1. Init => Queue!Init
    BY DEF Init, Queue!Init
  <1>2. IInv /\ [Next]_vars => [Queue!Next]_(Queue!vars)
    BY QueueStep
  <1> QED BY <1>1, <1>2, Invariance, PTL DEF Spec, QueueSpec, Queue!Spec

=============================================================================
