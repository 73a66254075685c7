---------------------------- MODULE TerminalProofs ----------------------------
(***************************************************************************)
(* The person's terminal: no message is stepped over, no output of a child *)
(* is lost but what is too long for its line, a line of the chat file      *)
(* reads back, and the editor of messages loses none that is to survive,   *)
(* for chats, tables, buffers and messages of every length.                *)
(***************************************************************************)
EXTENDS Terminal, Base64, ChatEdit, FiniteSetTheorems, WellFoundedInduction, TLAPS

\* A nonempty set of naturals has a least element.
LEMMA LeastNatural ==
    ASSUME NEW T \in SUBSET Nat, T # {}
    PROVE  \E n \in T : \A m \in T : n =< m
  <1> DEFINE U == {1 .. n : n \in T}
  <1>1. U \subseteq FiniteSubsetsOf(Nat)
    <2>1. \A n \in T : IsFiniteSet(1 .. n) /\ 1 .. n \subseteq Nat
      BY FS_Interval
    <2> QED BY <2>1 DEF FiniteSubsetsOf
  <1>2. U # {}
    OBVIOUS
  <1>3. IsWellFoundedOn(StrictSubsetOrdering(Nat), FiniteSubsetsOf(Nat))
    BY FS_StrictSubsetOrderingWellFounded
  <1>4. \E x \in U : \A y \in U : ~ (<<y, x>> \in StrictSubsetOrdering(Nat))
    <2> HIDE DEF U
    <2> QED BY <1>1, <1>2, <1>3, WFMin
  <1>5. PICK n \in T : \A m \in T : ~ (<<1 .. m, 1 .. n>> \in StrictSubsetOrdering(Nat))
    BY <1>4
  <1>6. ASSUME NEW m \in T, m < n PROVE FALSE
    <2>1. 1 .. m \subseteq 1 .. n /\ 1 .. m # 1 .. n
      BY <1>6
    <2>2. 1 .. m \in SUBSET Nat /\ 1 .. n \in SUBSET Nat
      OBVIOUS
    <2> QED BY <1>5, <2>1, <2>2 DEF StrictSubsetOrdering
  <1> QED BY <1>6

\* A set of numbers up to n that holds 0, and with each number the next, holds all.
LEMMA UpTo ==
    ASSUME NEW n \in Nat, NEW T, 0 \in T, \A i \in 1 .. n : i - 1 \in T => i \in T
    PROVE  \A i \in 0 .. n : i \in T
  <1> DEFINE F == {i \in 0 .. n : i \notin T}
  <1>1. SUFFICES ASSUME F # {} PROVE FALSE
    OBVIOUS
  <1>2. F \in SUBSET Nat
    OBVIOUS
  <1>3. PICK i \in F : \A m \in F : i =< m
    <2> HIDE DEF F
    <2> QED BY <1>1, <1>2, LeastNatural
  <1>4. i \in 1 .. n
    OBVIOUS
  <1>5. i - 1 \notin F
    BY <1>3, <1>4
  <1>6. i - 1 \in T
    BY <1>4, <1>5
  <1> QED BY <1>4, <1>6

-----------------------------------------------------------------------------
\* f begins with v, and g takes each of its values in V to the next.
Recursion(f, n, V, v, g) ==
    f \in [0 .. n -> V] /\ f[0] = v /\ \A i \in 1 .. n : f[i] = g[<<i, f[i - 1]>>]

\* Such a function exists.
LEMMA RecursionExists ==
    ASSUME NEW n \in Nat, NEW V, NEW v \in V, NEW g \in [(1 .. n) \X V -> V]
    PROVE  \E f : Recursion(f, n, V, v, g)
  <1> DEFINE Good(f, k) == /\ f \in [0 .. k -> V] /\ f[0] = v
                           /\ \A i \in 1 .. k : f[i] = g[<<i, f[i - 1]>>]
             T == {k \in 0 .. n : \E f : Good(f, k)}
  <1>1. 0 \in T
    <2> DEFINE f == [i \in 0 .. 0 |-> v]
    <2>1. Good(f, 0)
      OBVIOUS
    <2>2. 0 \in 0 .. n
      OBVIOUS
    <2> HIDE DEF Good, f
    <2> QED BY <2>1, <2>2
  <1>2. ASSUME NEW k \in 1 .. n, k - 1 \in T PROVE k \in T
    <2>1. PICK f : Good(f, k - 1)
      BY <1>2
    <2>2. f[k - 1] \in V
      BY <2>1
    <2>3. g[<<k, f[k - 1]>>] \in V
      BY <2>2
    <2> DEFINE h == [i \in 0 .. k |-> IF i = k THEN g[<<k, f[k - 1]>>] ELSE f[i]]
    <2>4. \A i \in 0 .. k - 1 : h[i] = f[i] /\ f[i] \in V
      BY <2>1
    <2>5. h \in [0 .. k -> V] /\ h[0] = v /\ h[k] = g[<<k, f[k - 1]>>]
      BY <2>1, <2>3, <2>4
    <2> HIDE DEF h
    <2>6. ASSUME NEW i \in 1 .. k PROVE h[i] = g[<<i, h[i - 1]>>]
      <3>1. h[i - 1] = f[i - 1]
        BY <2>4
      <3>2. CASE i = k
        BY <3>1, <3>2, <2>5
      <3>3. CASE i # k
        <4>1. i \in 1 .. k - 1 /\ i \in 0 .. k - 1
          BY <3>3
        <4> QED BY <3>1, <4>1, <2>1, <2>4
      <3> QED BY <3>2, <3>3
    <2>7. Good(h, k)
      BY <2>5, <2>6
    <2> HIDE DEF Good
    <2> QED BY <2>7
  <1> HIDE DEF T, Good
  <1>3. n \in 0 .. n
    OBVIOUS
  <1>4. n \in T
    BY <1>1, <1>2, <1>3, UpTo
  <1> QED BY <1>4 DEF T, Good, Recursion

(***************************************************************************)
(* The messages of the terminal.                                           *)
(***************************************************************************)

\* Of the first n of some messages each is the person's own or in seen.
AllSeen(msgs, n, seen) == \A i \in 1 .. n : msgs[i].by = Me \/ msgs[i].n \in seen

TtyTypeOK ==
    /\ chat \in Seq(Message) /\ posts \in Nat /\ archived \in BOOLEAN
    /\ count \in Nat /\ off \in Nat

\* Outside the live view there is no scrollback; outside the scrollback every
\* counted message is accounted for, in each view.
SeenInv ==
    /\ TtyTypeOK
    /\ view # "live" => off = 0
    /\ ~archived => count =< Len(chat)
    /\ ~archived /\ off = 0 => AllSeen(chat, count, shown \cup excused)

\* The file holds what it held, with more at its end, or was archived.
Grows ==
    /\ chat' \in Seq(Message) /\ posts' \in Nat /\ archived' \in BOOLEAN
    /\ ~archived' => /\ ~archived /\ Len(chat) =< Len(chat')
                     /\ \A i \in 1 .. Len(chat) : chat'[i] = chat[i]

LEMMA StaysGrows ==
    ASSUME TtyTypeOK, UNCHANGED <<chat, posts, archived>>
    PROVE  Grows
  BY DEF TtyTypeOK, Grows

LEMMA AppendGrows ==
    ASSUME TtyTypeOK, NEW by \in Others \cup {Me}, NEW at \in BOOLEAN, NEW read,
           AppendMessage(by, at, read)
    PROVE  Grows
  <1> DEFINE m == [n |-> posts + 1, by |-> by, at |-> at]
             all == Append(chat, m)
  <1>1. /\ posts < MaxPosts /\ posts' = posts + 1
        /\ chat' = IF Len(all) > THRESHOLD THEN SubSeq(all, CLEAVE + 1, Len(all)) ELSE all
        /\ archived' = (archived \/ Len(all) > THRESHOLD)
    BY DEF AppendMessage
  <1>2. m \in Message /\ posts' \in Nat
    BY <1>1, TerminalAssumption DEF Message, TtyTypeOK
  <1> HIDE DEF m
  <1>3. /\ all \in Seq(Message) /\ Len(all) = Len(chat) + 1
        /\ \A i \in 1 .. Len(chat) : all[i] = chat[i]
    BY <1>2 DEF TtyTypeOK
  <1> HIDE DEF all
  <1>4. CASE Len(all) > THRESHOLD
    <2>1. SubSeq(all, CLEAVE + 1, Len(all)) \in Seq(Message)
      <3>1. CLEAVE \in Nat
        BY TerminalAssumption
      <3> QED BY <3>1, <1>3
    <2> QED BY <2>1, <1>1, <1>2, <1>4 DEF Grows
  <1>5. CASE ~(Len(all) > THRESHOLD)
    <2>1. chat' = all /\ archived' = archived
      BY <1>1, <1>5 DEF TtyTypeOK
    <2>2. Len(chat) =< Len(chat')
      BY <2>1, <1>3 DEF TtyTypeOK
    <2> QED BY <2>1, <2>2, <1>2, <1>3 DEF Grows, TtyTypeOK
  <1> QED BY <1>4, <1>5

LEMMA SendGrows ==
    ASSUME TtyTypeOK, do_send
    PROVE  Grows
  BY StaysGrows, AppendGrows DEF do_send, ChatSend, chatvars

\* A step that counts nothing keeps the invariant.
LEMMA CountsNothing ==
    ASSUME SeenInv, Grows, UNCHANGED <<count, off>>, view' # "live" => off = 0,
           shown \subseteq shown', excused \subseteq excused'
    PROVE  SeenInv'
  <1>1. Len(chat) \in Nat /\ Len(chat') \in Nat /\ count \in Nat
    BY DEF SeenInv, TtyTypeOK, Grows
  <1>2. TtyTypeOK'
    BY DEF SeenInv, TtyTypeOK, Grows
  <1>3. ~archived' => ~archived /\ count =< Len(chat) /\ count' =< Len(chat')
    BY <1>1 DEF SeenInv, Grows
  <1>4. ASSUME ~archived', off' = 0 PROVE AllSeen(chat', count', shown' \cup excused')
    <2>1. AllSeen(chat, count, shown \cup excused) /\ count =< Len(chat)
      BY <1>3, <1>4 DEF SeenInv
    <2> SUFFICES ASSUME NEW i \in 1 .. count
                 PROVE  chat'[i].by = Me \/ chat'[i].n \in shown' \cup excused'
      BY DEF AllSeen
    <2>2. i \in 1 .. Len(chat)
      BY <2>1, <1>1
    <2>3. chat'[i] = chat[i]
      BY <2>2, <1>4 DEF Grows
    <2> QED BY <2>1, <2>3 DEF AllSeen
  <1> QED BY <1>2, <1>3, <1>4 DEF SeenInv

\* What is counted now is accounted for.
LEMMA CountsSeen ==
    ASSUME SeenInv, Grows, off' \in Nat, view' # "live" => off' = 0, count' = Len(chat'),
           ~archived' /\ off' = 0 => AllSeen(chat', count', shown' \cup excused')
    PROVE  SeenInv'
  BY DEF SeenInv, TtyTypeOK, Grows

\* A poll after a step of the file.
LEMMA PollSeen ==
    ASSUME SeenInv, Grows, poll_and_display(chat'), UNCHANGED off, view' = "live", off = 0
    PROVE  SeenInv'
  <1>1. /\ count' = Len(chat')
        /\ \A i \in count + 1 .. Len(chat') : chat'[i].by = Me \/ chat'[i].n \in shown' \cup excused'
        /\ shown \subseteq shown' /\ excused \subseteq excused'
    BY DEF poll_and_display, Ids
  <1>2. Len(chat) \in Nat /\ Len(chat') \in Nat /\ count \in Nat
    BY DEF SeenInv, TtyTypeOK, Grows
  <1>3. ASSUME ~archived' PROVE AllSeen(chat', count', shown' \cup excused')
    <2>1. AllSeen(chat, count, shown \cup excused) /\ count =< Len(chat)
      BY <1>3 DEF SeenInv, Grows
    <2> SUFFICES ASSUME NEW i \in 1 .. Len(chat')
                 PROVE  chat'[i].by = Me \/ chat'[i].n \in shown' \cup excused'
      BY <1>1 DEF AllSeen
    <2>2. CASE i > count
      <3>1. i \in count + 1 .. Len(chat')
        BY <2>2, <1>2
      <3> QED BY <3>1, <1>1
    <2>3. CASE i =< count
      <3>1. i \in 1 .. count /\ i \in 1 .. Len(chat)
        BY <2>1, <2>3, <1>2
      <3>2. chat'[i] = chat[i]
        BY <3>1, <1>3 DEF Grows
      <3> QED BY <3>1, <3>2, <2>1, <1>1 DEF AllSeen
    <2> QED BY <2>2, <2>3, <1>2
  <1>4. off' \in Nat /\ view' = "live"
    BY DEF SeenInv, TtyTypeOK
  <1> QED BY <1>1, <1>3, <1>4, CountsSeen

\* A repaint accounts for all of the file, or for all that was counted.
LEMMA RedrawSeen ==
    ASSUME SeenInv, UNCHANGED <<chat, posts, archived>>, Redraw, off' = 0
    PROVE  SeenInv'
  <1>1. Grows /\ Len(chat) \in Nat /\ count \in Nat /\ DOMAIN chat = 1 .. Len(chat)
    BY StaysGrows DEF SeenInv, TtyTypeOK
  <1>2. CASE count' = Len(chat) /\ Ids(Range(chat)) \subseteq shown' \cup excused'
    <2>1. AllSeen(chat', count', shown' \cup excused')
      BY <1>1, <1>2 DEF AllSeen, Ids, Range
    <2> QED BY <2>1, <1>1, <1>2, CountsSeen
  <1>3. CASE /\ UNCHANGED <<count, shown>>
             /\ excused' = excused \cup {chat[i].n : i \in (1 .. count) \cap DOMAIN chat}
    <2>1. ASSUME ~archived PROVE AllSeen(chat, count, shown' \cup excused')
      <3>1. count =< Len(chat)
        BY <2>1 DEF SeenInv
      <3>2. \A i \in 1 .. count : i \in (1 .. count) \cap DOMAIN chat
        BY <3>1, <1>1
      <3> QED BY <3>2, <1>3 DEF AllSeen
    <2> QED BY <2>1, <1>1, <1>3 DEF SeenInv, TtyTypeOK
  <1>4. \/ count' = Len(chat) /\ Ids(Range(chat)) \subseteq shown' \cup excused'
        \/ /\ UNCHANGED <<count, shown>>
           /\ excused' = excused \cup {chat[i].n : i \in (1 .. count) \cap DOMAIN chat}
    <2> DEFINE visible == {m \in Range(Recent(chat, SHOW)) : Passes(m)}
    <2>1. CASE /\ count' = Len(chat) /\ shown' = shown \cup Ids(visible)
               /\ excused' = excused \cup (Ids(Range(chat)) \ Ids(visible))
      <3> HIDE DEF visible
      <3> QED BY <2>1, Zenon
    <2> QED BY <2>1 DEF Redraw
  <1> QED BY <1>2, <1>3, <1>4

\* When all lines fit the screen all of them are displayed; otherwise the
\* terminal is in the scrollback.
LEMMA ScrollSeen ==
    ASSUME SeenInv, UNCHANGED <<chat, posts, archived>>, NEW o \in Nat \ {0},
           scrollback_render(o), view' = "live"
    PROVE  SeenInv'
  <1> DEFINE visible == {i \in DOMAIN chat : Passes(chat[i])}
             lines == Cardinality(visible)
             lineof(i) == Cardinality({k \in visible : k =< i})
             top == IF lines > SCROLLROWS THEN lines - SCROLLROWS ELSE 0
             at == IF o > top THEN top ELSE o
             first == top - at
  <1>1. Grows /\ Len(chat) \in Nat /\ count \in Nat /\ DOMAIN chat = 1 .. Len(chat)
    BY StaysGrows DEF SeenInv, TtyTypeOK
  <1>2. CASE off' = o /\ UNCHANGED seenvars
    BY <1>1, <1>2 DEF SeenInv, TtyTypeOK, seenvars
  <1>3. CASE /\ count' = Len(chat) /\ off' = at
             /\ shown' = shown \cup {chat[i].n : i \in {k \in visible :
                                        lineof(k) > first /\ lineof(k) =< first + SCROLLROWS}}
             /\ excused' = excused \cup {chat[i].n : i \in DOMAIN chat \ visible}
    <2>1. IsFiniteSet(visible)
      <3>1. IsFiniteSet(DOMAIN chat)
        BY <1>1, FS_Interval
      <3> QED BY <3>1, FS_Subset
    <2>2. ASSUME NEW i \in visible PROVE lineof(i) \in 1 .. lines
      <3> DEFINE upto == {k \in visible : k =< i}
      <3>1. upto \subseteq visible /\ i \in upto
        BY <1>1
      <3>2. IsFiniteSet(upto) /\ Cardinality(upto) =< lines
        BY <2>1, <3>1, FS_Subset
      <3>3. Cardinality(upto) # 0
        BY <3>1, <3>2, FS_EmptySet
      <3>4. Cardinality(upto) \in Nat /\ lines \in Nat
        BY <2>1, <3>2, FS_CardinalityType
      <3> QED BY <3>2, <3>3, <3>4
    <2>3. lines \in Nat /\ SCROLLROWS \in Nat
      BY <2>1, FS_CardinalityType, TerminalAssumption
    <2> HIDE DEF visible, lines, lineof
    <2>4. at \in Nat
      BY <2>3
    <2>5. ASSUME at = 0 PROVE AllSeen(chat', count', shown' \cup excused')
      <3>1. lines =< SCROLLROWS /\ first = 0
        BY <2>3, <2>5
      <3>2. \A i \in visible : lineof(i) > first /\ lineof(i) =< first + SCROLLROWS
        BY <3>1, <2>2, <2>3
      <3> HIDE DEF first, at
      <3>3. \A i \in DOMAIN chat : chat[i].n \in shown' \cup excused'
        BY <3>2, <1>3, Zenon
      <3> QED BY <3>3, <1>1, <1>3 DEF AllSeen
    <2> HIDE DEF at
    <2> QED BY <2>4, <2>5, <1>1, <1>3, CountsSeen
  <1> QED BY <1>2, <1>3 DEF scrollback_render

LEMMA SeenInit == Init => SeenInv
  <1> SUFFICES ASSUME Init PROVE SeenInv
    OBVIOUS
  <1>1. chat = <<>> /\ posts = 0 /\ archived = FALSE /\ count = 0 /\ off = 0
    BY DEF Init
  <1>2. TtyTypeOK
    <2>1. chat \in Seq(Message)
      BY <1>1
    <2>2. archived \in BOOLEAN
      BY <1>1, Zenon
    <2>3. posts \in Nat /\ count \in Nat /\ off \in Nat
      BY <1>1
    <2> QED BY <2>1, <2>2, <2>3 DEF TtyTypeOK
  <1>4. count =< Len(chat)
    BY <1>1
  <1>3. AllSeen(chat, count, shown \cup excused)
    BY <1>1 DEF AllSeen
  <1> QED BY <1>1, <1>2, <1>3, <1>4 DEF SeenInv

LEMMA SeenStep == SeenInv /\ [ChatNext \/ TeamNext]_ttyvars => SeenInv'
  <1> SUFFICES ASSUME SeenInv, [ChatNext \/ TeamNext]_ttyvars PROVE SeenInv'
    OBVIOUS
  <1>0. TtyTypeOK /\ (view # "live" => off = 0) /\ off \in Nat
    BY DEF SeenInv, TtyTypeOK
  <1>1. ASSUME UNCHANGED <<chat, posts, archived, count, off>>, view' # "live" => off = 0,
               shown \subseteq shown', excused \subseteq excused'
        PROVE  SeenInv'
    BY <1>0, <1>1, StaysGrows, CountsNothing
  <1>2. ASSUME do_send, UNCHANGED <<seenvars, off>>, view' # "live" => off = 0 PROVE SeenInv'
    BY <1>0, <1>2, SendGrows, CountsNothing DEF seenvars
  <1>3. ASSUME SendThenPoll, off = 0, UNCHANGED off, view' = "live" PROVE SeenInv'
    BY <1>0, <1>3, SendGrows, PollSeen DEF SendThenPoll
  <1>4. ASSUME UNCHANGED chatvars, poll_and_display(chat), off = 0, UNCHANGED off, view' = "live"
        PROVE  SeenInv'
    <2>1. poll_and_display(chat') /\ Grows
      BY <1>0, <1>4, StaysGrows DEF chatvars
    <2> QED BY <2>1, <1>4, PollSeen
  <1>5. ASSUME NEW text, EditorText(text), off = 0, UNCHANGED off, view' = "live" PROVE SeenInv'
    BY <1>3, <1>4, <1>5 DEF EditorText
  <1> USE DEF Live, chatvars, seenvars, modevars
  <1>10. CASE UNCHANGED ttyvars
    BY <1>1, <1>0, <1>10 DEF ttyvars
  <1>11. CASE InjectGoal
    <2>1. CASE UNCHANGED chatvars
      BY <1>1, <1>0, <1>11, <2>1 DEF InjectGoal
    <2>2. CASE ChatSend(Me, FALSE)
      BY <1>2, <1>0, <1>11, <2>2 DEF InjectGoal, do_send
    <2> QED BY <2>1, <2>2, <1>11 DEF InjectGoal
  <1>12. CASE ConfirmRestart
    BY <1>1, <1>0, <1>12 DEF ConfirmRestart
  <1>13. CASE ShowExisting
    <2>1. CASE count' = Len(chat) /\ shown' = shown \cup Ids(Range(chat))
      <3>1. Grows /\ UNCHANGED <<chat, off>> /\ view' = "live"
        BY <1>0, <1>13, StaysGrows DEF ShowExisting
      <3>2. Len(chat) \in Nat /\ DOMAIN chat = 1 .. Len(chat)
        BY <1>0 DEF TtyTypeOK
      <3>3. AllSeen(chat', count', shown' \cup excused')
        BY <2>1, <3>1, <3>2 DEF AllSeen, Ids, Range
      <3> QED BY <2>1, <3>1, <3>3, <1>0, CountsSeen
    <2>2. CASE UNCHANGED <<count, shown>>
      BY <2>2, <1>1, <1>0, <1>13 DEF ShowExisting
    <2> QED BY <2>1, <2>2, <1>13 DEF ShowExisting
  <1>14. CASE Poll
    BY <1>4, <1>14 DEF Poll
  <1>15. CASE PageUp
    <2>1. scrollback_render(off + 1) /\ view' = "live" /\ UNCHANGED <<chat, posts, archived>>
      BY <1>15 DEF PageUp
    <2>2. off + 1 \in Nat \ {0}
      BY <1>0
    <2> QED BY <2>1, <2>2, ScrollSeen
  <1>16. CASE PageDown
    <2>1. UNCHANGED <<chat, posts, archived>> /\ view' = "live"
      BY <1>16 DEF PageDown
    <2>2. CASE off > 1 /\ scrollback_render(off - 1)
      <3>1. off - 1 \in Nat \ {0}
        BY <2>2, <1>0
      <3> QED BY <2>1, <2>2, <3>1, ScrollSeen
    <2>3. CASE off' = 0 /\ Redraw
      BY <2>1, <2>3, RedrawSeen
    <2> QED BY <2>2, <2>3, <1>16 DEF PageDown
  <1>17. CASE ScrollEscape
    BY <1>17, RedrawSeen DEF ScrollEscape
  <1>18. CASE SendLine
    BY <1>3, <1>18 DEF SendLine
  <1>19. CASE Leave
    BY <1>2, <1>19 DEF Leave
  <1>20. CASE CmdEdit \/ CmdPaste
    BY <1>1, <1>20 DEF CmdEdit, CmdPaste, EditorOpens
  <1>21. CASE EditReturns
    BY <1>5, <1>0, <1>21 DEF EditReturns
  <1>22. CASE PasteReturns
    BY <1>5, <1>0, <1>22 DEF PasteReturns
  <1>23. CASE CmdBash \/ CmdBrowse \/ CmdDashboard \/ CmdFile
    BY <1>1, <1>23 DEF CmdBash, CmdBrowse, CmdDashboard, CmdFile, OpenView
  <1>24. CASE ViewReturns
    BY <1>0, <1>24, RedrawSeen DEF ViewReturns
  <1>25. CASE CmdRedraw
    BY <1>25, RedrawSeen DEF CmdRedraw
  <1>26. ASSUME NEW h, CmdFilter(h) PROVE SeenInv'
    <2>1. shown \subseteq shown'
      BY <1>26, Zenon DEF CmdFilter
    <2> QED BY <1>1, <1>26, <2>1 DEF CmdFilter
  <1>27. CASE CmdMention
    <2>1. shown \subseteq shown'
      BY <1>27, Zenon DEF CmdMention
    <2> QED BY <1>1, <1>27, <2>1 DEF CmdMention
  <1>28. CASE CmdUnfilter
    <2>1. shown \subseteq shown'
      BY <1>28, Zenon DEF CmdUnfilter
    <2> QED BY <1>1, <1>28, <2>1 DEF CmdUnfilter
  <1>29. CASE CmdUnmention
    <2>1. shown \subseteq shown'
      BY <1>29, Zenon DEF CmdUnmention
    <2> QED BY <1>1, <1>29, <2>1 DEF CmdUnmention
  <1>30. CASE CmdSearch
    <2>1. shown \subseteq shown'
      BY <1>30, Zenon DEF CmdSearch
    <2> QED BY <1>1, <1>30, <2>1 DEF CmdSearch
  <1>31. CASE Post
    <2>1. PICK h \in Others, at \in BOOLEAN : ChatSend(h, at)
      BY <1>31 DEF Post
    <2>2. Grows
      BY <2>1, <1>0, AppendGrows DEF ChatSend
    <2> QED BY <2>2, <1>31, <1>0, CountsNothing DEF Post
  <1>32. CASE DrainPipes \/ Reaper \/ SidecarWatchdog
    BY <1>1, <1>0, <1>32 DEF DrainPipes, Reaper, SidecarWatchdog
  <1>33. CASE CmdPause
    BY <1>2, <1>33 DEF CmdPause, Command, Announce
  <1>34. CASE CmdResume
    <2>1. UNCHANGED <<count, shown, excused, off, view>> /\ off = 0
      BY <1>34 DEF CmdResume, Command
    <2>2. Grows
      BY <1>34, <1>0, StaysGrows, AppendGrows DEF CmdResume
    <2> QED BY <2>1, <2>2, CountsNothing
  <1>35. CASE CmdShutdown
    BY <1>2, <1>35 DEF CmdShutdown, Command, Announce
  <1>36. CASE ShutdownSweep
    BY <1>1, <1>0, <1>36 DEF ShutdownSweep
  <1>37. CASE CmdRestart \/ CmdKick \/ CmdHealth \/ CmdSidecar
    BY <1>1, <1>0, <1>37 DEF CmdRestart, CmdKick, CmdHealth, CmdSidecar, CmdChild, Command
  <1>38. CASE CmdOracle \/ PeriodicOracle \/ IntervalOver \/ AgentReads
    BY <1>1, <1>0, <1>38 DEF CmdOracle, PeriodicOracle, IntervalOver, AgentReads, Command
  <1>39. CASE ChildWrites \/ ChildEnds \/ Corruption
    BY <1>1, <1>0, <1>39 DEF ChildWrites, ChildEnds, Corruption
  <1> QED
    BY <1>10, <1>11, <1>12, <1>13, <1>14, <1>15, <1>16, <1>17, <1>18, <1>19, <1>20, <1>21,
       <1>22, <1>23, <1>24, <1>25, <1>26, <1>27, <1>28, <1>29, <1>30, <1>31, <1>32, <1>33,
       <1>34, <1>35, <1>36, <1>37, <1>38, <1>39 DEF ChatNext, TeamNext

\* No message is counted that was neither displayed nor hidden for a reason, in
\* chats of any length, with any archive threshold and screen (poll_and_display,
\* scrollback_render and the repaints).
THEOREM NothingSteppedOverTheorem == TtySpec => []NothingSteppedOver
  <1>1. SeenInv => NothingSteppedOver
    BY DEF SeenInv, NothingSteppedOver, AllSeen, Accounted, Live
  <1> QED BY <1>1, SeenInit, SeenStep, PTL DEF TtySpec

-----------------------------------------------------------------------------
(***************************************************************************)
(* Sums.                                                                   *)
(***************************************************************************)

\* g[i] is the sum of f[1] to f[i].
Sums(g, f, n) == g = [i \in 0 .. n |-> IF i = 0 THEN 0 ELSE g[i - 1] + f[i]]

LEMMA SumsExist ==
    ASSUME NEW f, NEW n \in Nat
    PROVE  \E g : Sums(g, f, n)
  <1> DEFINE T == {k \in Nat : \E g : Sums(g, f, k)}
  <1>1. 0 \in T
    <2> DEFINE g == [i \in 0 .. 0 |-> 0]
    <2>1. Sums(g, f, 0)
      BY DEF Sums
    <2> QED BY <2>1
  <1>2. ASSUME NEW i \in 1 .. n, i - 1 \in T PROVE i \in T
    <2>1. PICK g : Sums(g, f, i - 1)
      BY <1>2
    <2> DEFINE h == [j \in 0 .. i |-> IF j = i THEN g[i - 1] + f[i] ELSE g[j]]
    <2>2. \A j \in 0 .. i - 1 : h[j] = g[j]
      OBVIOUS
    <2>3. \A j \in 0 .. i : h[j] = IF j = 0 THEN 0 ELSE h[j - 1] + f[j]
      <3> TAKE j \in 0 .. i
      <3>1. CASE j = i
        <4>1. h[j] = g[i - 1] + f[i] /\ j # 0 /\ j - 1 \in 0 .. i - 1
          BY <3>1
        <4>2. h[j - 1] = g[i - 1]
          BY <3>1, <4>1, <2>2
        <4> HIDE DEF h
        <4> QED BY <3>1, <4>1, <4>2
      <3>2. CASE j # i
        <4>1. j \in 0 .. i - 1
          BY <3>2
        <4>2. h[j] = g[j]
          BY <4>1, <2>2
        <4>3. j # 0 => h[j - 1] = g[j - 1]
          <5>1. j # 0 => j - 1 \in 0 .. i - 1
            BY <4>1
          <5> QED BY <5>1, <2>2
        <4> HIDE DEF h
        <4>4. g[j] = IF j = 0 THEN 0 ELSE g[j - 1] + f[j]
          BY <4>1, <2>1 DEF Sums
        <4> QED BY <4>2, <4>3, <4>4
      <3> QED BY <3>1, <3>2
    <2>4. h = [j \in 0 .. i |-> h[j]]
      OBVIOUS
    <2> HIDE DEF h
    <2>5. Sums(h, f, i)
      BY <2>3, <2>4 DEF Sums
    <2> QED BY <2>5
  <1> HIDE DEF T
  <1>3. n \in 0 .. n
    OBVIOUS
  <1>4. n \in T
    BY <1>1, <1>2, <1>3, UpTo
  <1> QED BY <1>4 DEF T

LEMMA SumToIs ==
    ASSUME NEW f, NEW n \in Nat
    PROVE  \E g : Sums(g, f, n) /\ SumTo(f, n) = g[n]
  <1> DEFINE g == CHOOSE g : Sums(g, f, n)
  <1>1. Sums(g, f, n)
    BY SumsExist
  <1>2. SumTo(f, n) = g[n]
    BY DEF SumTo, Sums
  <1> QED BY <1>1, <1>2

\* Two of them agree where the summands do.
LEMMA SumsAgree ==
    ASSUME NEW f, NEW g, NEW p, NEW q, NEW m \in Nat, NEW n \in Nat, m =< n,
           Sums(p, f, m), Sums(q, g, n), \A i \in 1 .. m : f[i] = g[i]
    PROVE  \A i \in 0 .. m : p[i] = q[i]
  <1> DEFINE T == {i \in 0 .. m : p[i] = q[i]}
  <1>1. 0 \in T
    BY DEF Sums
  <1>2. ASSUME NEW i \in 1 .. m, i - 1 \in T PROVE i \in T
    <2>1. i \in 0 .. m /\ i \in 0 .. n /\ i # 0
      OBVIOUS
    <2>2. p[i] = p[i - 1] + f[i]
      BY <2>1, Zenon DEF Sums
    <2>3. q[i] = q[i - 1] + g[i]
      BY <2>1, Zenon DEF Sums
    <2> QED BY <1>2, <2>1, <2>2, <2>3
  <1> HIDE DEF T
  <1>3. \A i \in 0 .. m : i \in T
    BY <1>1, <1>2, UpTo
  <1> QED BY <1>3 DEF T

LEMMA SumToAgrees ==
    ASSUME NEW f, NEW g, NEW n \in Nat, \A i \in 1 .. n : f[i] = g[i]
    PROVE  SumTo(f, n) = SumTo(g, n)
  <1>1. PICK p : Sums(p, f, n) /\ SumTo(f, n) = p[n]
    BY SumToIs
  <1>2. PICK q : Sums(q, g, n) /\ SumTo(g, n) = q[n]
    BY SumToIs
  <1>3. \A i \in 0 .. n : p[i] = q[i]
    BY <1>1, <1>2, SumsAgree
  <1>4. n \in 0 .. n
    OBVIOUS
  <1> QED BY <1>1, <1>2, <1>3, <1>4

LEMMA SumToNext ==
    ASSUME NEW f, NEW n \in Nat
    PROVE  /\ SumTo(f, 0) = 0
           /\ SumTo(f, n + 1) = SumTo(f, n) + f[n + 1]
  <1>1. PICK p : Sums(p, f, n) /\ SumTo(f, n) = p[n]
    BY SumToIs
  <1>2. PICK q : Sums(q, f, n + 1) /\ SumTo(f, n + 1) = q[n + 1]
    <2>1. n + 1 \in Nat
      OBVIOUS
    <2> QED BY <2>1, SumToIs
  <1>3. p[n] = q[n]
    <2>1. n + 1 \in Nat /\ n =< n + 1 /\ n \in 0 .. n
      OBVIOUS
    <2> QED BY <2>1, <1>1, <1>2, SumsAgree
  <1>4. q[n + 1] = q[n] + f[n + 1]
    <2>1. n + 1 \in 0 .. n + 1 /\ n + 1 # 0 /\ (n + 1) - 1 = n
      OBVIOUS
    <2> QED BY <2>1, <1>2, Zenon DEF Sums
  <1>5. SumTo(f, 0) = 0
    <2>1. PICK r : Sums(r, f, 0) /\ SumTo(f, 0) = r[0]
      BY SumToIs
    <2> QED BY <2>1 DEF Sums
  <1> QED BY <1>1, <1>2, <1>3, <1>4, <1>5

LEMMA SumToInt ==
    ASSUME NEW f, NEW n \in Nat, \A i \in 1 .. n : f[i] \in Int
    PROVE  SumTo(f, n) \in Int
  <1> DEFINE T == {i \in 0 .. n : SumTo(f, i) \in Int}
  <1>1. 0 \in T
    BY SumToNext
  <1>2. ASSUME NEW i \in 1 .. n, i - 1 \in T PROVE i \in T
    <2>1. i - 1 \in Nat /\ (i - 1) + 1 = i
      OBVIOUS
    <2>2. SumTo(f, (i - 1) + 1) = SumTo(f, i - 1) + f[(i - 1) + 1]
      BY <2>1, SumToNext
    <2> QED BY <1>2, <2>1, <2>2
  <1> HIDE DEF T
  <1>3. \A i \in 0 .. n : i \in T
    BY <1>1, <1>2, UpTo
  <1> QED BY <1>3 DEF T

\* The sum of two sums.
LEMMA SumToPlus ==
    ASSUME NEW f, NEW g, NEW h, NEW n \in Nat,
           \A i \in 1 .. n : f[i] \in Int /\ g[i] \in Int /\ h[i] = f[i] + g[i]
    PROVE  SumTo(h, n) = SumTo(f, n) + SumTo(g, n)
  <1> DEFINE T == {i \in 0 .. n : /\ SumTo(f, i) \in Int /\ SumTo(g, i) \in Int
                                  /\ SumTo(h, i) = SumTo(f, i) + SumTo(g, i)}
  <1>1. 0 \in T
    <2>1. SumTo(f, 0) = 0 /\ SumTo(g, 0) = 0 /\ SumTo(h, 0) = 0
      BY SumToNext
    <2> QED BY <2>1
  <1>2. ASSUME NEW i \in 1 .. n, i - 1 \in T PROVE i \in T
    <2>1. i - 1 \in Nat /\ (i - 1) + 1 = i
      OBVIOUS
    <2>2. SumTo(f, i) = SumTo(f, i - 1) + f[i]
      BY <2>1, SumToNext
    <2>3. SumTo(g, i) = SumTo(g, i - 1) + g[i]
      BY <2>1, SumToNext
    <2>4. SumTo(h, i) = SumTo(h, i - 1) + h[i]
      BY <2>1, SumToNext
    <2> QED BY <1>2, <2>2, <2>3, <2>4
  <1> HIDE DEF T
  <1>3. \A i \in 0 .. n : i \in T
    BY <1>1, <1>2, UpTo
  <1> QED BY <1>3 DEF T

\* Smaller summands have a smaller sum.
LEMMA SumToMonotone ==
    ASSUME NEW f, NEW g, NEW n \in Nat,
           \A i \in 1 .. n : f[i] \in Int /\ g[i] \in Int /\ f[i] =< g[i]
    PROVE  SumTo(f, n) =< SumTo(g, n)
  <1> DEFINE T == {i \in 0 .. n : /\ SumTo(f, i) \in Int /\ SumTo(g, i) \in Int
                                  /\ SumTo(f, i) =< SumTo(g, i)}
  <1>1. 0 \in T
    <2>1. SumTo(f, 0) = 0 /\ SumTo(g, 0) = 0
      BY SumToNext
    <2> QED BY <2>1
  <1>2. ASSUME NEW i \in 1 .. n, i - 1 \in T PROVE i \in T
    <2>1. i - 1 \in Nat /\ (i - 1) + 1 = i
      OBVIOUS
    <2>2. SumTo(f, i) = SumTo(f, i - 1) + f[i]
      BY <2>1, SumToNext
    <2>3. SumTo(g, i) = SumTo(g, i - 1) + g[i]
      BY <2>1, SumToNext
    <2> QED BY <1>2, <2>1, <2>2, <2>3
  <1> HIDE DEF T
  <1>3. \A i \in 0 .. n : i \in T
    BY <1>1, <1>2, UpTo
  <1> QED BY <1>3 DEF T

\* One summand grows.
LEMMA SumToOne ==
    ASSUME NEW f, NEW g, NEW n \in Nat, NEW k \in 1 .. n, NEW d \in Int,
           \A i \in 1 .. n : f[i] \in Int /\ g[i] = IF i = k THEN f[i] + d ELSE f[i]
    PROVE  SumTo(g, n) = SumTo(f, n) + d
  <1> DEFINE T == {i \in 0 .. n : /\ SumTo(f, i) \in Int
                                  /\ SumTo(g, i) = SumTo(f, i) + (IF i >= k THEN d ELSE 0)}
  <1>1. 0 \in T
    <2>1. SumTo(f, 0) = 0 /\ SumTo(g, 0) = 0
      BY SumToNext
    <2> QED BY <2>1
  <1>2. ASSUME NEW i \in 1 .. n, i - 1 \in T PROVE i \in T
    <2>1. i - 1 \in Nat /\ (i - 1) + 1 = i
      OBVIOUS
    <2>2. SumTo(f, i) = SumTo(f, i - 1) + f[i]
      BY <2>1, SumToNext
    <2>3. SumTo(g, i) = SumTo(g, i - 1) + g[i]
      BY <2>1, SumToNext
    <2> QED BY <1>2, <2>2, <2>3
  <1> HIDE DEF T
  <1>3. \A i \in 0 .. n : i \in T
    BY <1>1, <1>2, UpTo
  <1> QED BY <1>3 DEF T

-----------------------------------------------------------------------------
(***************************************************************************)
(* The output of the children.                                             *)
(***************************************************************************)

Slot == [label : {"repair", "restart", "script"}, open : BOOLEAN, out : Seq({"x", "nl"}),
         part : Nat, closed : BOOLEAN, line : Nat]

LEMMA TextsTyped ==
    ASSUME NEW s \in Seq({"x", "nl"})
    PROVE  Texts(s) \in Nat
  <1>1. DOMAIN s = 1 .. Len(s) /\ Len(s) \in Nat
    OBVIOUS
  <1>2. IsFiniteSet(DOMAIN s)
    BY <1>1, FS_Interval
  <1>3. IsFiniteSet({i \in DOMAIN s : s[i] = "x"})
    BY <1>2, FS_Subset
  <1> QED BY <1>3, FS_CardinalityType DEF Texts

LEMMA TextsAppend ==
    ASSUME NEW s \in Seq({"x", "nl"}), NEW b \in {"x", "nl"}
    PROVE  Texts(Append(s, b)) = Texts(s) + Texts(<<b>>) /\ Texts(<<b>>) \in Nat
  <1> DEFINE S == {i \in DOMAIN s : s[i] = "x"}
             t == Append(s, b)
             R == {i \in DOMAIN t : t[i] = "x"}
             n == Len(s) + 1
  <1>1. DOMAIN s = 1 .. Len(s) /\ Len(s) \in Nat
    OBVIOUS
  <1>2. IsFiniteSet(S)
    <2>1. IsFiniteSet(DOMAIN s)
      BY <1>1, FS_Interval
    <2> QED BY <2>1, FS_Subset
  <1>3. DOMAIN t = (1 .. Len(s)) \cup {n} /\ t[n] = b /\ \A i \in 1 .. Len(s) : t[i] = s[i]
    BY <1>1
  <1>4. n \notin S
    BY <1>1
  <1>5. Cardinality(S) \in Nat
    BY <1>2, FS_CardinalityType
  <1>6. DOMAIN <<b>> = {1} /\ <<b>>[1] = b
    OBVIOUS
  <1>7. CASE b = "x"
    <2>1. R = S \cup {n}
      <3> HIDE DEF t, n
      <3> QED BY <1>1, <1>3, <1>7
    <2>2. Cardinality(S \cup {n}) = Cardinality(S) + 1
      <3> HIDE DEF S, n
      <3> QED BY <1>2, <1>4, FS_AddElement
    <2>3. {i \in DOMAIN <<b>> : <<b>>[i] = "x"} = {1}
      BY <1>6, <1>7
    <2>4. Texts(<<b>>) = 1
      <3>1. Cardinality({1}) = 1
        BY FS_Singleton
      <3> QED BY <2>3, <3>1 DEF Texts
    <2>5. Texts(t) = Cardinality(R) /\ Texts(s) = Cardinality(S)
      BY DEF Texts
    <2> HIDE DEF R, S, t, n
    <2> QED BY <2>1, <2>2, <2>4, <2>5 DEF t
  <1>8. CASE b = "nl"
    <2>1. R = S
      <3> HIDE DEF t, n
      <3> QED BY <1>1, <1>3, <1>8
    <2>3. {i \in DOMAIN <<b>> : <<b>>[i] = "x"} = {}
      BY <1>6, <1>8
    <2>4. Texts(<<b>>) = 0
      BY <2>3, FS_EmptySet DEF Texts
    <2>5. Texts(t) = Cardinality(R) /\ Texts(s) = Cardinality(S)
      BY DEF Texts
    <2> HIDE DEF R, S, t, n
    <2> QED BY <2>1, <2>4, <2>5, <1>5 DEF t
  <1> QED BY <1>7, <1>8

\* The line under construction and the text shown, while a pipe is read.
LineState == [part : Nat, text : Nat]

\* f[i] is what reading has made of the first i bytes.
Reads(f, part, out, n) ==
    f = [i \in 0 .. n |-> IF i = 0 THEN [part |-> part, text |-> 0]
                          ELSE ReadByte(f[i - 1], out[i])]

\* A byte of text makes the line longer or is dropped, a line end shows it.
LEMMA ReadByteIs ==
    ASSUME NEW s \in LineState, NEW b \in {"x", "nl"}
    PROVE  /\ ReadByte(s, b) \in LineState
           /\ b = "nl" => ReadByte(s, b).part = 0 /\ ReadByte(s, b).text = s.text + s.part
           /\ b = "x" => /\ ReadByte(s, b).text = s.text
                         /\ ReadByte(s, b).part = IF s.part < INFO_MAX THEN s.part + 1 ELSE s.part
  <1>1. s.part \in Nat /\ s.text \in Nat /\ s = [part |-> s.part, text |-> s.text]
    BY DEF LineState
  <1>2. CASE b = "nl"
    <2>1. ReadByte(s, b) = [part |-> 0, text |-> s.text + s.part]
      BY <1>2 DEF ReadByte
    <2> QED BY <1>1, <1>2, <2>1 DEF LineState
  <1>3. CASE b = "x" /\ s.part < INFO_MAX
    <2>1. ReadByte(s, b) = [s EXCEPT !.part = s.part + 1]
      BY <1>3 DEF ReadByte
    <2>2. [s EXCEPT !.part = s.part + 1] = [part |-> s.part + 1, text |-> s.text]
      BY <1>1
    <2> QED BY <1>1, <1>3, <2>1, <2>2 DEF LineState
  <1>4. CASE b = "x" /\ ~(s.part < INFO_MAX)
    <2>1. ReadByte(s, b) = s
      BY <1>4 DEF ReadByte
    <2> QED BY <1>1, <1>4, <2>1
  <1> QED BY <1>2, <1>3, <1>4

LEMMA ReadsExist ==
    ASSUME NEW part \in Nat, NEW out \in Seq({"x", "nl"})
    PROVE  \E f : /\ Reads(f, part, out, Len(out)) /\ f \in [0 .. Len(out) -> LineState]
                  /\ ReadAll(part, out) = f[Len(out)]
  <1> DEFINE n == Len(out)
             v == [part |-> part, text |-> 0]
             g == [x \in (1 .. n) \X LineState |-> ReadByte(x[2], out[x[1]])]
  <1>1. n \in Nat /\ v \in LineState /\ \A i \in 1 .. n : out[i] \in {"x", "nl"}
    BY DEF LineState
  <1>2. g \in [(1 .. n) \X LineState -> LineState]
    <2>1. ASSUME NEW x \in (1 .. n) \X LineState PROVE ReadByte(x[2], out[x[1]]) \in LineState
      <3>1. x[1] \in 1 .. n /\ x[2] \in LineState
        BY SMT
      <3>2. out[x[1]] \in {"x", "nl"}
        BY <1>1, <3>1
      <3> QED BY <3>1, <3>2, ReadByteIs
    <2> HIDE DEF n
    <2> QED BY <2>1
  <1>3. \A i \in 1 .. n, y \in LineState : g[<<i, y>>] = ReadByte(y, out[i])
    BY SMT
  <1> HIDE DEF g, v, n
  <1>4. PICK f : Recursion(f, n, LineState, v, g)
    BY <1>1, <1>2, RecursionExists
  <1>5. f \in [0 .. n -> LineState] /\ f[0] = v /\ \A i \in 1 .. n : f[i] = g[<<i, f[i - 1]>>]
    BY <1>4 DEF Recursion
  <1>6. \A i \in 0 .. n : f[i] = IF i = 0 THEN v ELSE ReadByte(f[i - 1], out[i])
    <2> TAKE i \in 0 .. n
    <2>1. CASE i = 0
      BY <2>1, <1>5
    <2>2. CASE i # 0
      <3>1. i \in 1 .. n /\ i - 1 \in 0 .. n
        BY <1>1, <2>2
      <3>2. f[i - 1] \in LineState
        BY <3>1, <1>5
      <3>3. f[i] = ReadByte(f[i - 1], out[i])
        BY <3>1, <3>2, <1>3, <1>5, Zenon
      <3> QED BY <2>2, <3>3
    <2> QED BY <2>1, <2>2
  <1>7. Reads(f, part, out, n)
    <2>1. f = [i \in 0 .. n |-> f[i]]
      BY <1>5
    <2> QED BY <1>6, <2>1, Zenon DEF Reads, v
  <1> DEFINE h == CHOOSE h : Reads(h, part, out, n)
  <1>8. Reads(h, part, out, n)
    BY <1>7
  <1>9. ReadAll(part, out) = h[n]
    BY DEF ReadAll, Reads, n
  <1> HIDE DEF h
  <1> DEFINE T == {i \in 0 .. n : h[i] = f[i]}
  <1>10. 0 \in T
    BY <1>1, <1>7, <1>8 DEF Reads
  <1>11. ASSUME NEW i \in 1 .. n, i - 1 \in T PROVE i \in T
    <2>1. i \in 0 .. n /\ i # 0
      BY <1>1
    <2>2. f[i] = ReadByte(f[i - 1], out[i])
      BY <2>1, <1>7, Zenon DEF Reads
    <2>3. h[i] = ReadByte(h[i - 1], out[i])
      BY <2>1, <1>8, Zenon DEF Reads
    <2> QED BY <1>11, <2>1, <2>2, <2>3
  <1>12. n \in T
    <2> HIDE DEF T
    <2>1. n \in 0 .. n
      BY <1>1
    <2> QED BY <1>1, <1>10, <1>11, <2>1, UpTo
  <1> QED BY <1>5, <1>7, <1>9, <1>12 DEF n

\* Nothing is read from an empty pipe.
LEMMA ReadNothing ==
    ASSUME NEW part \in Nat
    PROVE  ReadAll(part, <<>>) = [part |-> part, text |-> 0]
  <1>1. <<>> \in Seq({"x", "nl"}) /\ Len(<<>>) = 0
    OBVIOUS
  <1>2. PICK f : Reads(f, part, <<>>, 0) /\ ReadAll(part, <<>>) = f[0]
    BY <1>1, ReadsExist
  <1> QED BY <1>2 DEF Reads

\* One more byte in the pipe is read after the others.
LEMMA ReadOneMore ==
    ASSUME NEW part \in Nat, NEW out \in Seq({"x", "nl"}), NEW b \in {"x", "nl"}
    PROVE  ReadAll(part, Append(out, b)) = ReadByte(ReadAll(part, out), b)
  <1> DEFINE n == Len(out)
             all == Append(out, b)
  <1>1. /\ n \in Nat /\ all \in Seq({"x", "nl"}) /\ Len(all) = n + 1
        /\ all[n + 1] = b /\ \A i \in 1 .. n : all[i] = out[i]
    OBVIOUS
  <1> HIDE DEF n, all
  <1>2. PICK f : Reads(f, part, out, n) /\ ReadAll(part, out) = f[n]
    BY ReadsExist DEF n
  <1>3. PICK h : Reads(h, part, all, n + 1) /\ ReadAll(part, all) = h[n + 1]
    BY <1>1, ReadsExist
  <1> DEFINE T == {i \in 0 .. n : h[i] = f[i]}
  <1>4. 0 \in T
    <2>1. 0 \in 0 .. n /\ 0 \in 0 .. n + 1
      BY <1>1
    <2> QED BY <2>1, <1>2, <1>3 DEF Reads
  <1>5. ASSUME NEW i \in 1 .. n, i - 1 \in T PROVE i \in T
    <2>1. i \in 0 .. n /\ i \in 0 .. n + 1 /\ i # 0
      BY <1>1
    <2>2. f[i] = ReadByte(f[i - 1], out[i])
      BY <2>1, <1>2, Zenon DEF Reads
    <2>3. h[i] = ReadByte(h[i - 1], all[i])
      BY <2>1, <1>3, Zenon DEF Reads
    <2> QED BY <1>1, <1>5, <2>1, <2>2, <2>3
  <1>6. n \in T
    <2> HIDE DEF T
    <2>1. n \in 0 .. n
      BY <1>1
    <2> QED BY <1>1, <1>4, <1>5, <2>1, UpTo
  <1>7. h[n + 1] = ReadByte(h[n], all[n + 1])
    <2>1. n + 1 \in 0 .. n + 1 /\ n + 1 # 0 /\ (n + 1) - 1 = n
      BY <1>1
    <2> QED BY <2>1, <1>3, Zenon DEF Reads
  <1> QED BY <1>1, <1>2, <1>3, <1>6, <1>7 DEF all

\* What the line buffer takes of a line of n bytes.
Room(n) == IF n < INFO_MAX THEN n ELSE INFO_MAX

\* The slots of which reading displays no more than there is, and whose line,
\* while a child writes, is as long as the line buffer takes.
ReadSlot ==
    {p \in Slot : /\ ReadAll(p.part, p.out) \in LineState
                  /\ ReadAll(p.part, p.out).part + ReadAll(p.part, p.out).text
                        =< p.part + Texts(p.out)
                  /\ p.open => ReadAll(p.part, p.out).part = Room(p.line)}

\* The text that is still in a slot, and what of it will be displayed.
Waiting == [p \in ReadSlot |-> p.part + Texts(p.out)]
Coming == [p \in ReadSlot |-> ReadAll(p.part, p.out).part + ReadAll(p.part, p.out).text]

LEMMA WaitingComing ==
    /\ Waiting \in [ReadSlot -> Int] /\ Coming \in [ReadSlot -> Int]
    /\ \A p \in ReadSlot : Coming[p] =< Waiting[p]
  <1>1. ASSUME NEW p \in ReadSlot
        PROVE  /\ Waiting[p] \in Int /\ Coming[p] \in Int /\ Coming[p] =< Waiting[p]
    <2>1. p.part \in Nat /\ p.out \in Seq({"x", "nl"})
      BY DEF ReadSlot, Slot
    <2>2. Texts(p.out) \in Nat
      BY <2>1, TextsTyped
    <2>3. ReadAll(p.part, p.out).part \in Nat /\ ReadAll(p.part, p.out).text \in Nat
      BY DEF ReadSlot, LineState
    <2>4. ReadAll(p.part, p.out).part + ReadAll(p.part, p.out).text =< p.part + Texts(p.out)
      BY DEF ReadSlot
    <2>5. /\ Waiting[p] = p.part + Texts(p.out)
          /\ Coming[p] = ReadAll(p.part, p.out).part + ReadAll(p.part, p.out).text
      BY Zenon DEF Waiting, Coming
    <2> QED BY <2>1, <2>2, <2>3, <2>4, <2>5
  <1>2. /\ Waiting = [p \in ReadSlot |-> Waiting[p]]
        /\ Coming = [p \in ReadSlot |-> Coming[p]]
    BY Zenon DEF Waiting, Coming
  <1> QED BY <1>1, <1>2

\* The sum of a table's slots, each weighed by w.
Weights(w, ps) == [i \in DOMAIN ps |-> w[ps[i]]]
Total(w, ps) == SumTo(Weights(w, ps), Len(ps))

LEMMA WeightsAre ==
    ASSUME NEW w \in [ReadSlot -> Int], NEW ps \in Seq(ReadSlot)
    PROVE  /\ Len(ps) \in Nat /\ Total(w, ps) = SumTo(Weights(w, ps), Len(ps))
           /\ \A i \in 1 .. Len(ps) : /\ ps[i] \in ReadSlot /\ Weights(w, ps)[i] = w[ps[i]]
                                      /\ Weights(w, ps)[i] \in Int
           /\ Total(w, ps) \in Int
  <1>1. Len(ps) \in Nat /\ DOMAIN ps = 1 .. Len(ps) /\ \A i \in 1 .. Len(ps) : ps[i] \in ReadSlot
    OBVIOUS
  <1>2. \A i \in 1 .. Len(ps) : Weights(w, ps)[i] = w[ps[i]] /\ Weights(w, ps)[i] \in Int
    BY <1>1 DEF Weights
  <1>3. SumTo(Weights(w, ps), Len(ps)) \in Int
    BY <1>1, <1>2, SumToInt
  <1> QED BY <1>1, <1>2, <1>3 DEF Total

LEMMA TotalEmpty ==
    ASSUME NEW w
    PROVE  Total(w, <<>>) = 0
  <1>1. Len(<<>>) = 0
    OBVIOUS
  <1>2. \A f : SumTo(f, 0) = 0
    BY SumToNext
  <1> QED BY <1>1, <1>2 DEF Total

LEMMA TotalAppend ==
    ASSUME NEW w \in [ReadSlot -> Int], NEW c \in Seq(ReadSlot), NEW x \in ReadSlot
    PROVE  Total(w, Append(c, x)) = Total(w, c) + w[x]
  <1> DEFINE d == Append(c, x)
             f == Weights(w, c)
             g == Weights(w, d)
             n == Len(c)
  <1>1. /\ n \in Nat /\ Len(d) = n + 1 /\ d \in Seq(ReadSlot)
        /\ d[n + 1] = x /\ \A i \in 1 .. n : d[i] = c[i]
    OBVIOUS
  <1> HIDE DEF d
  <1>2. /\ Total(w, d) = SumTo(g, n + 1) /\ Total(w, c) = SumTo(f, n)
        /\ \A i \in 1 .. n : f[i] = w[c[i]]
        /\ \A i \in 1 .. n + 1 : g[i] = w[d[i]]
    <2>1. Total(w, c) = SumTo(f, n) /\ \A i \in 1 .. n : f[i] = w[c[i]]
      BY WeightsAre
    <2>2. Total(w, d) = SumTo(g, n + 1) /\ \A i \in 1 .. n + 1 : g[i] = w[d[i]]
      <3>1. Total(w, d) = SumTo(g, Len(d)) /\ \A i \in 1 .. Len(d) : g[i] = w[d[i]]
        BY <1>1, WeightsAre
      <3>2. Len(d) = n + 1
        BY <1>1
      <3> QED BY <3>1, <3>2, Zenon
    <2> QED BY <2>1, <2>2
  <1> HIDE DEF f, g, n
  <1>3. \A i \in 1 .. n : g[i] = f[i]
    <2> SUFFICES ASSUME NEW i \in 1 .. n PROVE g[i] = f[i]
      OBVIOUS
    <2>1. n \in Nat
      BY <1>1
    <2>2. i \in 1 .. n + 1
      BY <2>1
    <2>3. g[i] = w[d[i]] /\ f[i] = w[c[i]] /\ d[i] = c[i]
      BY <2>2, <1>1, <1>2, Zenon
    <2> QED BY <2>3, Zenon
  <1>4. g[n + 1] = w[x]
    BY <1>1, <1>2
  <1>5. SumTo(g, n + 1) = SumTo(g, n) + g[n + 1]
    BY <1>1, SumToNext
  <1>6. SumTo(g, n) = SumTo(f, n)
    BY <1>1, <1>3, SumToAgrees
  <1> QED BY <1>2, <1>4, <1>5, <1>6 DEF d

\* One slot is replaced.
LEMMA TotalReplace ==
    ASSUME NEW w \in [ReadSlot -> Int], NEW ps \in Seq(ReadSlot), NEW i \in 1 .. Len(ps),
           NEW q \in ReadSlot
    PROVE  /\ [ps EXCEPT ![i] = q] \in Seq(ReadSlot)
           /\ Total(w, [ps EXCEPT ![i] = q]) = Total(w, ps) + (w[q] - w[ps[i]])
  <1> DEFINE n == Len(ps)
             qs == [ps EXCEPT ![i] = q]
             f == Weights(w, ps)
             g == Weights(w, qs)
             d == w[q] - w[ps[i]]
  <1>1. /\ n \in Nat /\ qs \in Seq(ReadSlot) /\ Len(qs) = n /\ qs[i] = q
        /\ \A j \in 1 .. n : j # i => qs[j] = ps[j]
    OBVIOUS
  <1> HIDE DEF qs
  <1>2. /\ Total(w, ps) = SumTo(f, n) /\ Total(w, qs) = SumTo(g, n)
        /\ \A j \in 1 .. n : f[j] = w[ps[j]] /\ f[j] \in Int /\ g[j] = w[qs[j]]
    <2>1. Total(w, ps) = SumTo(f, n) /\ \A j \in 1 .. n : f[j] = w[ps[j]] /\ f[j] \in Int
      BY WeightsAre
    <2>2. Total(w, qs) = SumTo(g, n) /\ \A j \in 1 .. n : g[j] = w[qs[j]]
      <3>1. /\ Total(w, qs) = SumTo(g, Len(qs))
            /\ \A j \in 1 .. Len(qs) : g[j] = w[qs[j]]
        BY <1>1, WeightsAre
      <3> HIDE DEF g, n
      <3> QED BY <1>1, <3>1
    <2> QED BY <2>1, <2>2
  <1>3. w[q] \in Int /\ w[ps[i]] \in Int /\ d \in Int
    <2>1. ps[i] \in ReadSlot
      OBVIOUS
    <2> QED BY <2>1
  <1> HIDE DEF f, g
  <1>4. \A j \in 1 .. n : f[j] \in Int /\ g[j] = IF j = i THEN f[j] + d ELSE f[j]
    <2> TAKE j \in 1 .. n
    <2>1. CASE j = i
      BY <2>1, <1>1, <1>2, <1>3
    <2>2. CASE j # i
      BY <2>2, <1>1, <1>2
    <2> QED BY <2>1, <2>2
  <1> HIDE DEF d
  <1>5. SumTo(g, n) = SumTo(f, n) + d
    <2>1. i \in 1 .. n /\ n \in Nat /\ d \in Int
      BY <1>1, <1>3
    <2> HIDE DEF n
    <2> QED BY <1>4, <2>1, SumToOne
  <1> QED BY <1>1, <1>2, <1>5 DEF d, qs

\* k[i] is what compaction keeps of the first i slots.
Keeps(k, ps, n) ==
    k = [i \in 0 .. n |-> IF i = 0 THEN <<>>
                          ELSE IF ps[i].open THEN Append(k[i - 1], ps[i]) ELSE k[i - 1]]

LEMMA KeepsExist ==
    ASSUME NEW ps, NEW n \in Nat
    PROVE  \E k : Keeps(k, ps, n)
  <1> DEFINE T == {m \in Nat : \E k : Keeps(k, ps, m)}
  <1>1. 0 \in T
    <2> DEFINE k == [i \in 0 .. 0 |-> <<>>]
    <2>1. Keeps(k, ps, 0)
      BY DEF Keeps
    <2> QED BY <2>1
  <1>2. ASSUME NEW i \in 1 .. n, i - 1 \in T PROVE i \in T
    <2>1. PICK k : Keeps(k, ps, i - 1)
      BY <1>2
    <2> DEFINE x == IF ps[i].open THEN Append(k[i - 1], ps[i]) ELSE k[i - 1]
               g == [j \in 0 .. i |-> IF j = i THEN x ELSE k[j]]
    <2>2. \A j \in 0 .. i - 1 : g[j] = k[j]
      OBVIOUS
    <2>3. \A j \in 0 .. i : g[j] = IF j = 0 THEN <<>>
                       ELSE IF ps[j].open THEN Append(g[j - 1], ps[j]) ELSE g[j - 1]
      <3> TAKE j \in 0 .. i
      <3>1. CASE j = i
        <4>1. g[j] = x /\ j # 0 /\ j - 1 \in 0 .. i - 1
          BY <3>1
        <4>2. g[j - 1] = k[i - 1]
          BY <3>1, <4>1, <2>2
        <4> HIDE DEF g
        <4> QED BY <3>1, <4>1, <4>2
      <3>2. CASE j # i
        <4>1. j \in 0 .. i - 1
          BY <3>2
        <4>2. g[j] = k[j]
          BY <4>1, <2>2
        <4>3. j # 0 => g[j - 1] = k[j - 1]
          <5>1. j # 0 => j - 1 \in 0 .. i - 1
            BY <4>1
          <5> QED BY <5>1, <2>2
        <4> HIDE DEF g
        <4>4. k[j] = IF j = 0 THEN <<>>
                     ELSE IF ps[j].open THEN Append(k[j - 1], ps[j]) ELSE k[j - 1]
          BY <4>1, <2>1 DEF Keeps
        <4> QED BY <4>2, <4>3, <4>4
      <3> QED BY <3>1, <3>2
    <2>4. g = [j \in 0 .. i |-> g[j]]
      OBVIOUS
    <2> HIDE DEF g
    <2>5. Keeps(g, ps, i)
      BY <2>3, <2>4 DEF Keeps
    <2> QED BY <2>5
  <1> HIDE DEF T
  <1>3. n \in 0 .. n
    OBVIOUS
  <1>4. n \in T
    BY <1>1, <1>2, <1>3, UpTo
  <1> QED BY <1>4 DEF T

LEMMA CompactKeeps ==
    ASSUME NEW ps, Len(ps) \in Nat
    PROVE  \E k : Keeps(k, ps, Len(ps)) /\ child_pipe_compact(ps) = k[Len(ps)]
  <1> DEFINE k == CHOOSE k : Keeps(k, ps, Len(ps))
  <1>1. Keeps(k, ps, Len(ps))
    <2>1. \E g : Keeps(g, ps, Len(ps))
      BY KeepsExist
    <2> QED BY <2>1
  <1>2. child_pipe_compact(ps) = k[Len(ps)]
    BY DEF child_pipe_compact, Keeps
  <1> QED BY <1>1, <1>2

\* The table of open slots.
Table(c) == c \in Seq(ReadSlot) /\ \A i \in 1 .. Len(c) : c[i].open

LEMMA TableAppend ==
    ASSUME NEW c, Table(c), NEW x \in ReadSlot, x.open
    PROVE  Table(Append(c, x))
  <1>1. c \in Seq(ReadSlot) /\ Len(c) \in Nat
    BY DEF Table
  <1>2. /\ Append(c, x) \in Seq(ReadSlot) /\ Len(Append(c, x)) = Len(c) + 1
        /\ \A i \in 1 .. Len(c) : Append(c, x)[i] = c[i]
        /\ Append(c, x)[Len(c) + 1] = x
    BY <1>1
  <1>3. 1 .. Len(c) + 1 = (1 .. Len(c)) \cup {Len(c) + 1}
    BY <1>1
  <1> QED BY <1>2, <1>3, Zenon DEF Table

\* Compaction keeps the sum when the slots it drops weigh nothing.
LEMMA CompactHolds ==
    ASSUME NEW w \in [ReadSlot -> Int], NEW ps \in Seq(ReadSlot),
           \A i \in 1 .. Len(ps) : ps[i].open \/ w[ps[i]] = 0
    PROVE  /\ Table(child_pipe_compact(ps))
           /\ Total(w, child_pipe_compact(ps)) = Total(w, ps)
  <1> DEFINE n == Len(ps)
             W == Weights(w, ps)
  <1>1. /\ n \in Nat /\ Total(w, ps) = SumTo(W, n)
        /\ \A i \in 1 .. n : ps[i] \in ReadSlot /\ W[i] = w[ps[i]] /\ W[i] \in Int
    BY WeightsAre
  <1>2. PICK k : Keeps(k, ps, n) /\ child_pipe_compact(ps) = k[n]
    BY <1>1, CompactKeeps
  <1> DEFINE T == {i \in 0 .. n : /\ Table(k[i]) /\ Total(w, k[i]) = SumTo(W, i)
                                  /\ SumTo(W, i) \in Int}
  <1> HIDE DEF n, W
  <1>3. 0 \in T
    <2>1. 0 \in 0 .. n
      BY <1>1
    <2>2. k[0] = <<>>
      BY <2>1, <1>2 DEF Keeps
    <2>3. <<>> \in Seq(ReadSlot) /\ Len(<<>>) = 0
      OBVIOUS
    <2>4. Table(k[0])
      BY <2>2, <2>3 DEF Table
    <2>5. SumTo(W, 0) = 0
      BY SumToNext
    <2>6. Total(w, k[0]) = 0
      BY <2>2, TotalEmpty
    <2> QED BY <2>1, <2>4, <2>5, <2>6
  <1>4. ASSUME NEW i \in 1 .. n, i - 1 \in T PROVE i \in T
    <2>1. i \in 0 .. n /\ i # 0 /\ i - 1 \in Nat /\ (i - 1) + 1 = i
      BY <1>1
    <2>2. k[i] = IF ps[i].open THEN Append(k[i - 1], ps[i]) ELSE k[i - 1]
      BY <1>2, <2>1, Zenon DEF Keeps
    <2>3. SumTo(W, (i - 1) + 1) = SumTo(W, i - 1) + W[(i - 1) + 1]
      BY <2>1, SumToNext
    <2>4. Table(k[i - 1]) /\ Total(w, k[i - 1]) = SumTo(W, i - 1) /\ SumTo(W, i - 1) \in Int
      BY <1>4
    <2>5. SumTo(W, i) = SumTo(W, i - 1) + w[ps[i]] /\ ps[i] \in ReadSlot /\ w[ps[i]] \in Int
      BY <2>1, <2>3, <1>1
    <2>6. CASE ps[i].open
      <3>1. Table(k[i])
        BY <2>2, <2>4, <2>5, <2>6, TableAppend
      <3>2. Total(w, k[i]) = Total(w, k[i - 1]) + w[ps[i]]
        <4>1. k[i - 1] \in Seq(ReadSlot) /\ k[i] = Append(k[i - 1], ps[i])
          BY <2>2, <2>4, <2>6 DEF Table
        <4>2. Total(w, Append(k[i - 1], ps[i])) = Total(w, k[i - 1]) + w[ps[i]]
          BY <4>1, <2>5, TotalAppend
        <4> QED BY <4>1, <4>2
      <3> QED BY <2>1, <2>4, <2>5, <3>1, <3>2
    <2>7. CASE ~ps[i].open
      <3>1. k[i] = k[i - 1] /\ w[ps[i]] = 0
        BY <2>2, <2>7 DEF n
      <3> QED BY <2>1, <2>4, <2>5, <3>1
    <2> QED BY <2>6, <2>7
  <1> HIDE DEF T
  <1>5. n \in T
    <2>1. n \in 0 .. n
      BY <1>1
    <2> QED BY <1>1, <1>3, <1>4, <2>1, UpTo
  <1> QED BY <1>1, <1>2, <1>5 DEF T

-----------------------------------------------------------------------------
\* A slot with an empty pipe.
LEMMA EmptySlot ==
    ASSUME NEW q \in Slot, q.out = <<>>, q.open => q.part = Room(q.line)
    PROVE  q \in ReadSlot /\ Waiting[q] = q.part /\ Coming[q] = q.part
  <1>1. q.part \in Nat
    BY DEF Slot
  <1>2. ReadAll(q.part, q.out) = [part |-> q.part, text |-> 0]
    BY <1>1, ReadNothing
  <1>3. Texts(q.out) = 0
    <2>1. {i \in DOMAIN <<>> : <<>>[i] = "x"} = {}
      OBVIOUS
    <2> QED BY <2>1, FS_EmptySet DEF Texts
  <1>4. /\ ReadAll(q.part, q.out).part = q.part /\ ReadAll(q.part, q.out).text = 0
        /\ ReadAll(q.part, q.out) \in LineState
    BY <1>1, <1>2 DEF LineState
  <1>5. q \in ReadSlot
    BY <1>1, <1>3, <1>4 DEF ReadSlot
  <1>6. /\ Waiting[q] = q.part + Texts(q.out)
        /\ Coming[q] = ReadAll(q.part, q.out).part + ReadAll(q.part, q.out).text
    BY <1>5, Zenon DEF Waiting, Coming
  <1> QED BY <1>1, <1>3, <1>4, <1>5, <1>6

\* Draining a slot moves what of its text the line buffer took to the screen,
\* but for an unfinished line.
LEMMA DrainedFacts ==
    ASSUME NEW p \in ReadSlot, p.open
    PROVE  LET q == Drained(p).pipe
               t == Drained(p).text
           IN  /\ q \in ReadSlot /\ t \in Int
               /\ Coming[p] = t + Coming[q] /\ Waiting[p] >= t + Waiting[q]
               /\ q.open \/ (Coming[q] = 0 /\ Waiting[q] = 0)
  <1> DEFINE all == ReadAll(p.part, p.out)
             part == IF p.closed THEN 0 ELSE all.part
             q == [p EXCEPT !.out = <<>>, !.part = part, !.open = ~p.closed]
             t == all.text + (IF p.closed THEN all.part ELSE 0)
  <1>1. p \in Slot /\ all \in LineState /\ all.part = Room(p.line)
    BY DEF ReadSlot
  <1>2. all.part \in Nat /\ all.text \in Nat
    BY <1>1 DEF LineState
  <1>3. Drained(p).pipe = q /\ Drained(p).text = t
    BY DEF Drained
  <1>4. /\ Coming[p] = all.part + all.text /\ Coming[p] =< Waiting[p]
        /\ Coming[p] \in Int /\ Waiting[p] \in Int
    BY WaitingComing DEF Coming
  <1> HIDE DEF all
  <1>0. part \in Nat /\ (p.closed => part = 0) /\ (~p.closed => part = all.part)
    BY <1>2
  <1> HIDE DEF part
  <1>5. /\ q.part = part /\ q.out = <<>> /\ q.open = ~p.closed
        /\ q.label = p.label /\ q.closed = p.closed /\ q.line = p.line
    BY <1>1 DEF Slot
  <1>6. q \in Slot
    <2>1. <<>> \in Seq({"x", "nl"}) /\ 0 \in Nat
      OBVIOUS
    <2>2. (~p.closed) \in BOOLEAN
      BY Zenon
    <2> QED BY <2>1, <2>2, <1>0, <1>1 DEF Slot
  <1> HIDE DEF q
  <1>7. q.open => q.part = Room(q.line)
    <2>1. q.open => ~p.closed
      BY <1>5, Zenon
    <2> QED BY <2>1, <1>0, <1>1, <1>5
  <1>8. q \in ReadSlot /\ Waiting[q] = q.part /\ Coming[q] = q.part
    BY <1>5, <1>6, <1>7, EmptySlot
  <1>9. t \in Int /\ all.part + all.text = t + q.part /\ (q.open \/ q.part = 0) /\ q.part \in Int
    <2>1. CASE p.closed
      BY <2>1, <1>0, <1>2, <1>5
    <2>2. CASE ~p.closed
      <3>1. q.open
        BY <2>2, <1>5, Zenon
      <3>2. t = all.text + 0 /\ q.part = all.part
        BY <2>2, <1>0, <1>5
      <3> HIDE DEF t
      <3> QED BY <3>1, <3>2, <1>2
    <2> QED BY <2>1, <2>2
  <1> HIDE DEF t
  <1>10. Coming[p] = t + Coming[q] /\ Waiting[p] >= t + Waiting[q]
    BY <1>4, <1>8, <1>9
  <1> QED BY <1>3, <1>8, <1>9, <1>10

\* What a child writes.
LEMMA WrittenFacts ==
    ASSUME NEW p \in ReadSlot, p.open, NEW b \in {"x", "nl"}
    PROVE  LET q == [p EXCEPT !.out = Append(p.out, b),
                              !.line = IF b = "nl" THEN 0 ELSE p.line + 1]
               d == IF b = "x" /\ p.line >= INFO_MAX THEN 1 ELSE 0
           IN  /\ q \in ReadSlot /\ q.open
               /\ Waiting[q] = Waiting[p] + Texts(<<b>>)
               /\ Coming[q] = Coming[p] + Texts(<<b>>) - d
               /\ Texts(<<b>>) \in Nat
  <1> DEFINE q == [p EXCEPT !.out = Append(p.out, b),
                            !.line = IF b = "nl" THEN 0 ELSE p.line + 1]
             d == IF b = "x" /\ p.line >= INFO_MAX THEN 1 ELSE 0
             all == ReadAll(p.part, p.out)
             nxt == ReadByte(all, b)
             one == Texts(<<b>>)
  <1>1. /\ p \in Slot /\ all \in LineState /\ all.part = Room(p.line)
        /\ all.part + all.text =< p.part + Texts(p.out)
    BY DEF ReadSlot
  <1>2. /\ p.part \in Nat /\ p.out \in Seq({"x", "nl"}) /\ p.line \in Nat
        /\ all.part \in Nat /\ all.text \in Nat
    BY <1>1 DEF LineState, Slot
  <1>3. q.out = Append(p.out, b) /\ q.part = p.part /\ q.open /\ q \in Slot
        /\ q.line = (IF b = "nl" THEN 0 ELSE p.line + 1)
    <2>1. Append(p.out, b) \in Seq({"x", "nl"})
      BY <1>2
    <2>2. (IF b = "nl" THEN 0 ELSE p.line + 1) \in Nat
      BY <1>2
    <2> QED BY <2>1, <2>2, <1>1 DEF Slot
  <1> HIDE DEF q
  <1>4. ReadAll(q.part, q.out) = nxt
    BY <1>2, <1>3, ReadOneMore
  <1>5. Texts(q.out) = Texts(p.out) + one /\ one \in Nat /\ Texts(p.out) \in Nat
    BY <1>2, <1>3, TextsAppend, TextsTyped
  <1>6. one = IF b = "x" THEN 1 ELSE 0
    <2>1. DOMAIN <<b>> = {1} /\ <<b>>[1] = b
      OBVIOUS
    <2>2. CASE b = "x"
      <3>1. {i \in DOMAIN <<b>> : <<b>>[i] = "x"} = {1}
        BY <2>1, <2>2
      <3> QED BY <3>1, <2>2, FS_Singleton DEF Texts
    <2>3. CASE b # "x"
      <3>1. {i \in DOMAIN <<b>> : <<b>>[i] = "x"} = {}
        BY <2>1, <2>3
      <3> QED BY <3>1, <2>3, FS_EmptySet DEF Texts
    <2> QED BY <2>2, <2>3
  <1> HIDE DEF one
  <1>7. /\ nxt \in LineState
        /\ b = "nl" => nxt.part = 0 /\ nxt.text = all.text + all.part
        /\ b = "x" => /\ nxt.text = all.text
                      /\ nxt.part = IF all.part < INFO_MAX THEN all.part + 1 ELSE all.part
    BY <1>1, ReadByteIs
  <1> HIDE DEF nxt, all
  <1>8. nxt.part = Room(q.line) /\ nxt.part + nxt.text = all.part + all.text + one - d
    <2>0. INFO_MAX \in Nat
      BY TerminalAssumption
    <2>1. CASE b = "nl"
      <3>1. b # "x" /\ one = 0 /\ d = 0 /\ q.line = 0
        BY <2>1, <1>3, <1>6
      <3>2. Room(0) = 0
        BY <2>0 DEF Room
      <3> HIDE DEF d
      <3> QED BY <2>1, <3>1, <3>2, <1>2, <1>7
    <2>2. CASE b = "x" /\ p.line < INFO_MAX
      <3>1. one = 1 /\ d = 0 /\ q.line = p.line + 1 /\ all.part = p.line
        BY <2>2, <2>0, <1>1, <1>2, <1>3, <1>6 DEF Room
      <3>2. Room(p.line + 1) = p.line + 1
        BY <2>0, <2>2, <1>2 DEF Room
      <3> HIDE DEF d
      <3> QED BY <2>2, <3>1, <3>2, <1>2, <1>7
    <2>3. CASE b = "x" /\ ~(p.line < INFO_MAX)
      <3>1. one = 1 /\ d = 1 /\ q.line = p.line + 1 /\ all.part = INFO_MAX
        BY <2>3, <2>0, <1>1, <1>2, <1>3, <1>6 DEF Room
      <3>2. Room(p.line + 1) = INFO_MAX
        BY <2>0, <2>3, <1>2 DEF Room
      <3> HIDE DEF d
      <3> QED BY <2>0, <2>3, <3>1, <3>2, <1>2, <1>7
    <2> QED BY <2>1, <2>2, <2>3
  <1>9. d \in {0, 1} /\ nxt.part \in Nat /\ nxt.text \in Nat
    BY <1>7 DEF LineState
  <1> HIDE DEF d
  <1>10. nxt.part + nxt.text =< q.part + Texts(q.out)
    <2>1. \A x, y, z, u \in Int : x =< y /\ u >= 0 => x + z - u =< y + z
      OBVIOUS
    <2>2. all.part + all.text =< p.part + Texts(p.out)
      BY <1>1 DEF all
    <2>3. (all.part + all.text) + one - d =< (p.part + Texts(p.out)) + one
      <3>1. /\ all.part + all.text \in Int /\ p.part + Texts(p.out) \in Int
            /\ one \in Int /\ d \in Int /\ d >= 0
        BY <1>2, <1>5, <1>9
      <3> QED BY <2>1, <2>2, <3>1, Zenon
    <2>4. (p.part + Texts(p.out)) + one = q.part + Texts(q.out)
      BY <1>2, <1>3, <1>5
    <2> QED BY <1>8, <2>3, <2>4, Zenon
  <1>11. q \in ReadSlot
    BY <1>3, <1>4, <1>7, <1>8, <1>10 DEF ReadSlot
  <1>12. /\ Waiting[q] = q.part + Texts(q.out) /\ Waiting[p] = p.part + Texts(p.out)
         /\ Coming[q] = nxt.part + nxt.text /\ Coming[p] = all.part + all.text
    BY <1>4, <1>11, Zenon DEF Waiting, Coming, all
  <1>13. Waiting[q] = Waiting[p] + one
    BY <1>2, <1>3, <1>5, <1>12
  <1>14. Coming[q] = Coming[p] + one - d
    BY <1>8, <1>12
  <1> QED BY <1>3, <1>5, <1>11, <1>13, <1>14 DEF q, d, one

-----------------------------------------------------------------------------
\* Of what was written everything is displayed, still to be displayed, or was
\* too long for its line; and no more than was written waits in the pipes.
PipesInv ==
    /\ Table(pipes) /\ wrote \in Int /\ emitted \in Int /\ toolong \in Int
    /\ wrote = emitted + toolong + Total(Coming, pipes)
    /\ wrote >= emitted + Total(Waiting, pipes)

LEMMA TotalsTyped ==
    ASSUME PipesInv
    PROVE  /\ pipes \in Seq(ReadSlot) /\ Total(Coming, pipes) \in Int /\ Total(Waiting, pipes) \in Int
  BY WeightsAre, WaitingComing DEF PipesInv, Table

\* A new child starts with an empty pipe, or there is no slot for it.
LEMMA SpawnHolds ==
    ASSUME PipesInv, NEW label \in {"repair", "restart", "script"},
           spawn_with_capture(label) \/ UNCHANGED pipes, UNCHANGED <<wrote, toolong, emitted>>
    PROVE  PipesInv'
  <1>1. CASE UNCHANGED pipes
    BY <1>1 DEF PipesInv
  <1>2. CASE pipes' = Append(pipes, Pipe(label))
    <2> DEFINE x == Pipe(label)
    <2>1. x \in Slot /\ x.open /\ x.part = 0 /\ x.out = <<>> /\ x.line = 0
      <3>1. <<>> \in Seq({"x", "nl"}) /\ 0 \in Nat
        OBVIOUS
      <3>2. TRUE \in BOOLEAN /\ FALSE \in BOOLEAN
        BY Zenon
      <3> QED BY <3>1, <3>2 DEF Pipe, Slot
    <2> HIDE DEF x
    <2>2. Room(0) = 0
      BY TerminalAssumption DEF Room
    <2>3. x \in ReadSlot /\ Waiting[x] = 0 /\ Coming[x] = 0
      BY <2>1, <2>2, EmptySlot
    <2>4. Table(pipes') /\ pipes \in Seq(ReadSlot)
      BY <1>2, <2>1, <2>3, TableAppend DEF PipesInv, Table, x
    <2>5. /\ Total(Coming, pipes') = Total(Coming, pipes) + 0
          /\ Total(Waiting, pipes') = Total(Waiting, pipes) + 0
      BY <1>2, <2>3, <2>4, TotalAppend, WaitingComing DEF x
    <2>6. Total(Coming, pipes) \in Int /\ Total(Waiting, pipes) \in Int
      BY TotalsTyped
    <2> QED BY <2>4, <2>5, <2>6 DEF PipesInv
  <1> QED BY <1>1, <1>2 DEF spawn_with_capture

LEMMA RepairHolds ==
    ASSUME PipesInv, AutoRepair, UNCHANGED <<wrote, toolong, emitted>>
    PROVE  PipesInv'
  BY SpawnHolds DEF AutoRepair

\* What is read is displayed, kept for the rest of its line, or dropped.
LEMMA DrainHolds ==
    ASSUME PipesInv, DrainPipes
    PROVE  PipesInv'
  <1> DEFINE ready(i) == ReadyPipe(pipes[i])
             qs == [i \in DOMAIN pipes |-> IF ready(i) THEN Drained(pipes[i]).pipe ELSE pipes[i]]
             ts == [i \in DOMAIN pipes |-> IF ready(i) THEN Drained(pipes[i]).text ELSE 0]
             n == Len(pipes)
  <1>1. /\ pipes' = child_pipe_compact(qs) /\ emitted' = emitted + SumTo(ts, n)
        /\ wrote' = wrote /\ toolong' = toolong
    BY DEF DrainPipes
  <1>2. /\ pipes \in Seq(ReadSlot) /\ n \in Nat /\ DOMAIN pipes = 1 .. n
        /\ \A i \in 1 .. n : pipes[i] \in ReadSlot /\ pipes[i].open
    BY DEF PipesInv, Table
  <1>3. ASSUME NEW i \in 1 .. n
        PROVE  /\ qs[i] \in ReadSlot /\ ts[i] \in Int
               /\ Coming[pipes[i]] = ts[i] + Coming[qs[i]]
               /\ Waiting[pipes[i]] >= ts[i] + Waiting[qs[i]]
               /\ qs[i].open \/ (Coming[qs[i]] = 0 /\ Waiting[qs[i]] = 0)
    <2>1. CASE ready(i)
      <3>1. qs[i] = Drained(pipes[i]).pipe /\ ts[i] = Drained(pipes[i]).text
        BY <1>2, <2>1
      <3>2. pipes[i] \in ReadSlot /\ pipes[i].open
        BY <1>2
      <3> HIDE DEF qs, ts, ready
      <3> QED BY <3>1, <3>2, DrainedFacts, Zenon
    <2>2. CASE ~ready(i)
      <3>1. qs[i] = pipes[i] /\ ts[i] = 0
        BY <1>2, <2>2
      <3>2. pipes[i] \in ReadSlot /\ pipes[i].open
        BY <1>2
      <3>3. Coming[pipes[i]] \in Int /\ Waiting[pipes[i]] \in Int
        BY <3>2, WaitingComing
      <3> HIDE DEF qs, ts, ready
      <3> QED BY <3>1, <3>2, <3>3
    <2> QED BY <2>1, <2>2
  <1>4. qs \in Seq(ReadSlot) /\ Len(qs) = n
    <2>1. qs = [i \in 1 .. n |-> qs[i]]
      BY <1>2
    <2> HIDE DEF qs, n
    <2> QED BY <2>1, <1>2, <1>3
  <1> HIDE DEF qs, ts, n
  <1>5. /\ Table(pipes') /\ Total(Coming, pipes') = Total(Coming, qs)
        /\ Total(Waiting, pipes') = Total(Waiting, qs)
    <2>1. Table(pipes') /\ Total(Coming, pipes') = Total(Coming, qs)
      BY <1>1, <1>3, <1>4, CompactHolds, WaitingComing
    <2>2. Total(Waiting, pipes') = Total(Waiting, qs)
      BY <1>1, <1>3, <1>4, CompactHolds, WaitingComing
    <2> QED BY <2>1, <2>2
  <1>6. ASSUME NEW w \in [ReadSlot -> Int]
        PROVE  /\ Total(w, pipes) = SumTo(Weights(w, pipes), n)
               /\ Total(w, qs) = SumTo(Weights(w, qs), n)
               /\ \A i \in 1 .. n : /\ Weights(w, pipes)[i] = w[pipes[i]] /\ w[pipes[i]] \in Int
                                    /\ Weights(w, qs)[i] = w[qs[i]] /\ w[qs[i]] \in Int
               /\ Total(w, qs) \in Int
    <2>1. /\ Total(w, pipes) = SumTo(Weights(w, pipes), n)
          /\ \A i \in 1 .. n : Weights(w, pipes)[i] = w[pipes[i]] /\ Weights(w, pipes)[i] \in Int
      BY <1>2, WeightsAre DEF n
    <2>2. /\ Total(w, qs) = SumTo(Weights(w, qs), n) /\ Total(w, qs) \in Int
          /\ \A i \in 1 .. n : Weights(w, qs)[i] = w[qs[i]] /\ Weights(w, qs)[i] \in Int
      BY <1>4, WeightsAre
    <2> QED BY <2>1, <2>2
  <1>7. SumTo(ts, n) \in Int
    BY <1>2, <1>3, SumToInt
  <1>8. Total(Coming, pipes) = SumTo(ts, n) + Total(Coming, qs)
    <2>1. \A i \in 1 .. n : /\ ts[i] \in Int /\ Weights(Coming, qs)[i] \in Int
                           /\ Weights(Coming, pipes)[i] = ts[i] + Weights(Coming, qs)[i]
      BY <1>3, <1>6, WaitingComing
    <2>2. SumTo(Weights(Coming, pipes), n) = SumTo(ts, n) + SumTo(Weights(Coming, qs), n)
      BY <2>1, <1>2, SumToPlus
    <2> QED BY <2>2, <1>6, WaitingComing
  <1>9. Total(Waiting, pipes) >= SumTo(ts, n) + Total(Waiting, qs)
    <2> DEFINE less == [i \in 1 .. n |-> ts[i] + Weights(Waiting, qs)[i]]
    <2>1. \A i \in 1 .. n : /\ ts[i] \in Int /\ Weights(Waiting, qs)[i] \in Int
                           /\ less[i] = ts[i] + Weights(Waiting, qs)[i]
                           /\ less[i] \in Int /\ Weights(Waiting, pipes)[i] \in Int
                           /\ less[i] =< Weights(Waiting, pipes)[i]
      BY <1>3, <1>6, WaitingComing
    <2> HIDE DEF less
    <2>2. SumTo(less, n) = SumTo(ts, n) + SumTo(Weights(Waiting, qs), n)
      BY <2>1, <1>2, SumToPlus
    <2>3. SumTo(less, n) =< SumTo(Weights(Waiting, pipes), n)
      BY <2>1, <1>2, SumToMonotone
    <2>4. SumTo(less, n) \in Int
      BY <2>1, <1>2, SumToInt
    <2> QED BY <2>2, <2>3, <2>4, <1>6, WaitingComing
  <1>10. Total(Coming, qs) \in Int /\ Total(Waiting, qs) \in Int
    BY <1>6, WaitingComing
  <1>11. Total(Coming, pipes) \in Int /\ Total(Waiting, pipes) \in Int
    BY TotalsTyped
  <1>12. /\ wrote \in Int /\ emitted \in Int /\ toolong \in Int
         /\ wrote = emitted + toolong + Total(Coming, pipes)
         /\ wrote >= emitted + Total(Waiting, pipes)
    BY DEF PipesInv
  <1>13. wrote' = emitted' + toolong' + Total(Coming, pipes')
    BY <1>1, <1>5, <1>7, <1>8, <1>10, <1>12
  <1>14. wrote' >= emitted' + Total(Waiting, pipes')
    BY <1>1, <1>5, <1>7, <1>9, <1>10, <1>11, <1>12
  <1>15. wrote' \in Int /\ emitted' \in Int /\ toolong' \in Int
    BY <1>1, <1>7, <1>12
  <1> QED BY <1>5, <1>13, <1>14, <1>15 DEF PipesInv

\* What a child writes is in its pipe, or too long for its line.
LEMMA WriteHolds ==
    ASSUME PipesInv, ChildWrites
    PROVE  PipesInv'
  <1>1. PICK i \in DOMAIN pipes, b \in {"x", "nl"} :
          /\ pipes' = [pipes EXCEPT ![i].out = Append(@, b),
                                    ![i].line = IF b = "nl" THEN 0 ELSE @ + 1]
          /\ wrote' = wrote + Texts(<<b>>) /\ emitted' = emitted
          /\ toolong' = toolong + (IF b = "x" /\ pipes[i].line >= INFO_MAX THEN 1 ELSE 0)
    BY Zenon DEF ChildWrites
  <1> DEFINE n == Len(pipes)
             p == pipes[i]
             one == Texts(<<b>>)
             q == [p EXCEPT !.out = Append(p.out, b),
                            !.line = IF b = "nl" THEN 0 ELSE p.line + 1]
             d == IF b = "x" /\ p.line >= INFO_MAX THEN 1 ELSE 0
  <1>2. /\ pipes \in Seq(ReadSlot) /\ n \in Nat /\ DOMAIN pipes = 1 .. n /\ p \in ReadSlot /\ p.open
        /\ i \in 1 .. n /\ \A j \in 1 .. n : pipes[j].open
    BY DEF PipesInv, Table
  <1>3. /\ q \in ReadSlot /\ q.open /\ Waiting[q] = Waiting[p] + one
        /\ Coming[q] = Coming[p] + one - d /\ one \in Nat
    <2> HIDE DEF p
    <2> QED BY <1>2, WrittenFacts
  <1>4. pipes' = [pipes EXCEPT ![i] = q]
    BY <1>1, <1>2
  <1>5. d \in Int /\ toolong' = toolong + d /\ wrote' = wrote + one
    BY <1>1
  <1> HIDE DEF q, d, one
  <1>6. /\ pipes' \in Seq(ReadSlot)
        /\ Total(Coming, pipes') = Total(Coming, pipes) + (Coming[q] - Coming[p])
        /\ Total(Waiting, pipes') = Total(Waiting, pipes) + (Waiting[q] - Waiting[p])
    BY <1>2, <1>3, <1>4, TotalReplace, WaitingComing
  <1>7. Table(pipes')
    <2>1. Len(pipes') = n /\ pipes'[i] = q /\ \A j \in 1 .. n : j # i => pipes'[j] = pipes[j]
      BY <1>2, <1>4
    <2>2. \A j \in 1 .. n : pipes'[j].open
      BY <2>1, <1>2, <1>3, Zenon
    <2> QED BY <2>1, <2>2, <1>6 DEF Table
  <1>8. /\ Total(Coming, pipes) \in Int /\ Total(Waiting, pipes) \in Int
        /\ Coming[p] \in Int /\ Waiting[p] \in Int
    <2> HIDE DEF p
    <2> QED BY <1>2, TotalsTyped, WaitingComing
  <1> HIDE DEF p
  <1>9. /\ wrote \in Int /\ emitted \in Int /\ toolong \in Int
        /\ wrote = emitted + toolong + Total(Coming, pipes)
        /\ wrote >= emitted + Total(Waiting, pipes)
    BY DEF PipesInv
  <1>10. emitted' = emitted
    BY <1>1
  <1>11. /\ Total(Coming, pipes') = Total(Coming, pipes) + one - d
         /\ Total(Waiting, pipes') = Total(Waiting, pipes) + one
    BY <1>3, <1>5, <1>6, <1>8
  <1>12. wrote' \in Int /\ toolong' \in Int /\ wrote' = emitted' + toolong' + Total(Coming, pipes')
    BY <1>3, <1>5, <1>8, <1>9, <1>10, <1>11
  <1>13. wrote' >= emitted' + Total(Waiting, pipes')
    BY <1>3, <1>5, <1>8, <1>9, <1>10, <1>11
  <1> QED BY <1>7, <1>9, <1>10, <1>12, <1>13 DEF PipesInv

LEMMA EndHolds ==
    ASSUME PipesInv, ChildEnds
    PROVE  PipesInv'
  <1>1. PICK i \in DOMAIN pipes :
          /\ pipes' = [pipes EXCEPT ![i].closed = TRUE]
          /\ wrote' = wrote /\ emitted' = emitted /\ toolong' = toolong
    BY Zenon DEF ChildEnds
  <1> DEFINE n == Len(pipes)
             p == pipes[i]
             q == [p EXCEPT !.closed = TRUE]
  <1>2. /\ pipes \in Seq(ReadSlot) /\ n \in Nat /\ DOMAIN pipes = 1 .. n /\ p \in ReadSlot /\ p.open
        /\ i \in 1 .. n /\ \A j \in 1 .. n : pipes[j].open
    BY DEF PipesInv, Table
  <1>3. /\ q.part = p.part /\ q.out = p.out /\ q.open = p.open /\ q.line = p.line /\ q \in Slot
    <2>1. TRUE \in BOOLEAN
      BY Zenon
    <2>2. p \in Slot
      BY <1>2 DEF ReadSlot
    <2> HIDE DEF p
    <2> QED BY <2>1, <2>2 DEF Slot
  <1>4. pipes' = [pipes EXCEPT ![i] = q]
    BY <1>1, <1>2
  <1> HIDE DEF q, p
  <1>5. q \in ReadSlot
    BY <1>2, <1>3 DEF ReadSlot
  <1>6. Waiting[q] = Waiting[p] /\ Coming[q] = Coming[p]
    <2>1. \A x \in ReadSlot :
             /\ Waiting[x] = x.part + Texts(x.out)
             /\ Coming[x] = ReadAll(x.part, x.out).part + ReadAll(x.part, x.out).text
      BY Zenon DEF Waiting, Coming
    <2>2. /\ q.part + Texts(q.out) = p.part + Texts(p.out)
          /\ ReadAll(q.part, q.out).part + ReadAll(q.part, q.out).text
                = ReadAll(p.part, p.out).part + ReadAll(p.part, p.out).text
      BY <1>3, Zenon
    <2> QED BY <1>2, <1>5, <2>1, <2>2, Zenon
  <1>7. /\ pipes' \in Seq(ReadSlot)
        /\ Total(Coming, pipes') = Total(Coming, pipes) + (Coming[q] - Coming[p])
        /\ Total(Waiting, pipes') = Total(Waiting, pipes) + (Waiting[q] - Waiting[p])
    <2>1. \A w \in [ReadSlot -> Int] :
             /\ [pipes EXCEPT ![i] = q] \in Seq(ReadSlot)
             /\ Total(w, [pipes EXCEPT ![i] = q]) = Total(w, pipes) + (w[q] - w[pipes[i]])
      <3> HIDE DEF n
      <3>1. i \in 1 .. Len(pipes)
        BY <1>2 DEF n
      <3> QED BY <1>2, <1>5, <3>1, TotalReplace
    <2> QED BY <1>4, <2>1, WaitingComing, Zenon DEF p
  <1>8. Table(pipes')
    <2>1. Len(pipes') = n /\ pipes'[i] = q /\ \A j \in 1 .. n : j # i => pipes'[j] = pipes[j]
      BY <1>2, <1>4
    <2>2. \A j \in 1 .. n : pipes'[j].open
      BY <2>1, <1>2, <1>3, Zenon
    <2> QED BY <2>1, <2>2, <1>7 DEF Table
  <1>9. /\ Total(Coming, pipes) \in Int /\ Total(Waiting, pipes) \in Int
        /\ Coming[p] \in Int /\ Waiting[p] \in Int
    BY <1>2, TotalsTyped, WaitingComing
  <1>10. /\ Total(Coming, pipes') = Total(Coming, pipes)
         /\ Total(Waiting, pipes') = Total(Waiting, pipes)
    BY <1>6, <1>7, <1>9
  <1> QED BY <1>1, <1>8, <1>10 DEF PipesInv

LEMMA PipesInit == Init => PipesInv
  <1> SUFFICES ASSUME Init PROVE PipesInv
    OBVIOUS
  <1>1. pipes = <<>> /\ wrote = 0 /\ emitted = 0 /\ toolong = 0
    BY DEF Init
  <1>2. <<>> \in Seq(ReadSlot) /\ Len(<<>>) = 0
    OBVIOUS
  <1>3. Table(pipes)
    BY <1>1, <1>2 DEF Table
  <1>4. Total(Coming, pipes) = 0 /\ Total(Waiting, pipes) = 0
    BY <1>1, TotalEmpty
  <1> QED BY <1>1, <1>3, <1>4 DEF PipesInv

LEMMA PipesStep == PipesInv /\ [ChatNext \/ TeamNext]_ttyvars => PipesInv'
  <1> SUFFICES ASSUME PipesInv, [ChatNext \/ TeamNext]_ttyvars PROVE PipesInv'
    OBVIOUS
  <1>1. ASSUME UNCHANGED pipevars PROVE PipesInv'
    BY <1>1 DEF pipevars, PipesInv
  <1>2. CASE UNCHANGED ttyvars
    BY <1>1, <1>2 DEF ttyvars
  <1>3. CASE InjectGoal \/ ConfirmRestart \/ ShowExisting \/ PageUp \/ PageDown \/ ScrollEscape
    BY <1>1, <1>3 DEF InjectGoal, ConfirmRestart, ShowExisting, PageUp, PageDown, ScrollEscape
  <1>4. CASE Poll \/ SendLine \/ EditReturns \/ PasteReturns
    <2>1. AutoRepair /\ UNCHANGED <<wrote, toolong, emitted>>
      BY <1>4 DEF Poll, SendLine, EditReturns, PasteReturns, EditorText, SendThenPoll
    <2> QED BY <2>1, RepairHolds
  <1>5. CASE Leave \/ CmdEdit \/ CmdPaste
    BY <1>1, <1>5 DEF Leave, CmdEdit, CmdPaste, EditorOpens
  <1>6. CASE CmdBash \/ CmdBrowse \/ CmdDashboard \/ CmdFile \/ ViewReturns \/ CmdRedraw
    BY <1>1, <1>6 DEF CmdBash, CmdBrowse, CmdDashboard, CmdFile, OpenView, ViewReturns, CmdRedraw
  <1>7. CASE \/ \E h \in Others \cup {Me} : CmdFilter(h)
             \/ CmdMention \/ CmdUnfilter \/ CmdUnmention \/ CmdSearch \/ Post
    BY <1>1, <1>7 DEF CmdFilter, CmdMention, CmdUnfilter, CmdUnmention, CmdSearch, Post
  <1>8. CASE DrainPipes
    BY <1>8, DrainHolds
  <1>9. CASE Reaper \/ SidecarWatchdog \/ CmdPause \/ CmdResume \/ CmdShutdown \/ ShutdownSweep
    BY <1>1, <1>9 DEF Reaper, SidecarWatchdog, CmdPause, CmdResume, CmdShutdown, ShutdownSweep
  <1>10. CASE CmdRestart \/ CmdKick \/ CmdHealth \/ CmdSidecar
    BY <1>10, SpawnHolds DEF CmdRestart, CmdKick, CmdHealth, CmdSidecar, CmdChild
  <1>11. CASE CmdOracle \/ PeriodicOracle \/ IntervalOver \/ AgentReads \/ Corruption
    BY <1>1, <1>11 DEF CmdOracle, PeriodicOracle, IntervalOver, AgentReads, Corruption
  <1>12. CASE ChildWrites
    BY <1>12, WriteHolds
  <1>13. CASE ChildEnds
    BY <1>13, EndHolds
  <1> QED
    BY <1>2, <1>3, <1>4, <1>5, <1>6, <1>7, <1>8, <1>9, <1>10, <1>11, <1>12, <1>13
       DEF ChatNext, TeamNext

\* Every byte of text of a captured child is displayed once, or is still in its
\* pipe or in the line under construction, but for those beyond the length of
\* the line buffer: with any number of slots, any line buffer and any number of
\* children one after another (child_pipe_drain, child_pipe_compact).
THEOREM ChildOutputKeptTheorem == TtySpec => []ChildOutputKept
  <1>1. PipesInv => ChildOutputKept
    <2> SUFFICES ASSUME PipesInv PROVE ChildOutputKept
      OBVIOUS
    <2> DEFINE f == [i \in DOMAIN pipes |-> pipes[i].part + Texts(pipes[i].out)]
               n == Len(pipes)
    <2>1. pipes \in Seq(ReadSlot) /\ Total(Coming, pipes) \in Int /\ Total(Waiting, pipes) \in Int
      BY TotalsTyped
    <2>2. n \in Nat /\ DOMAIN pipes = 1 .. n /\ \A i \in 1 .. n : pipes[i] \in ReadSlot
      BY <2>1
    <2>3. \A i \in 1 .. n : f[i] = Weights(Waiting, pipes)[i]
      <3> TAKE i \in 1 .. n
      <3>1. Weights(Waiting, pipes)[i] = Waiting[pipes[i]]
        BY <2>2 DEF Weights
      <3>2. Waiting[pipes[i]] = pipes[i].part + Texts(pipes[i].out)
        BY <2>2, Zenon DEF Waiting
      <3> QED BY <2>2, <3>1, <3>2
    <2> HIDE DEF f
    <2>4. SumTo(f, n) = Total(Waiting, pipes)
      BY <2>2, <2>3, SumToAgrees DEF Total
    <2>5. Total(Coming, pipes) =< Total(Waiting, pipes)
      <3>1. \A i \in 1 .. n : /\ Weights(Coming, pipes)[i] \in Int /\ Weights(Waiting, pipes)[i] \in Int
                             /\ Weights(Coming, pipes)[i] =< Weights(Waiting, pipes)[i]
        <4>1. \A i \in 1 .. n : /\ Weights(Coming, pipes)[i] = Coming[pipes[i]]
                               /\ Weights(Coming, pipes)[i] \in Int
          BY <2>1, WeightsAre, WaitingComing
        <4>2. \A i \in 1 .. n : /\ Weights(Waiting, pipes)[i] = Waiting[pipes[i]]
                               /\ Weights(Waiting, pipes)[i] \in Int
          BY <2>1, WeightsAre, WaitingComing
        <4> QED BY <4>1, <4>2, <2>2, WaitingComing
      <3> QED BY <3>1, <2>2, SumToMonotone DEF Total
    <2>6. /\ wrote \in Int /\ emitted \in Int /\ toolong \in Int
          /\ wrote = emitted + toolong + Total(Coming, pipes)
          /\ wrote >= emitted + Total(Waiting, pipes)
      BY DEF PipesInv
    <2> DEFINE gone == (wrote - emitted) - SumTo(f, n)
    <2>7. gone >= 0 /\ gone =< toolong
      BY <2>1, <2>4, <2>5, <2>6
    <2> QED BY <2>7 DEF ChildOutputKept, f
  <1> QED BY <1>1, PipesInit, PipesStep, PTL DEF TtySpec

-----------------------------------------------------------------------------
(***************************************************************************)
(* The lines of the chat file: the bytes of a block are regained from its  *)
(* sextets, a byte depends on two neighbouring characters only, and        *)
(* padding is where decoding expects it.                                   *)
(***************************************************************************)

Octets == 0 .. 255
Sextets == 0 .. 63

\* The sextets of three bytes.
LEMMA SextetsOfBytes ==
    ASSUME NEW x \in Octets, NEW y \in Octets, NEW z \in Octets
    PROVE  /\ SextetOf(FromBytes(x, y, z), 0) = x \div 4
           /\ SextetOf(FromBytes(x, y, z), 1) = (x % 4) * 16 + (y \div 16)
           /\ SextetOf(FromBytes(x, y, z), 2) = (y % 16) * 4 + (z \div 64)
           /\ SextetOf(FromBytes(x, y, z), 3) = z % 64
  <1> USE DEF Octets
  <1> DEFINE t == x * 65536 + y * 256 + z
  <1>1. FromBytes(x, y, z) = t
    BY SMT DEF FromBytes
  <1>2. PICK e \in 0 .. 63, f \in 0 .. 3 : x = 4 * e + f /\ x \div 4 = e /\ x % 4 = f
    BY SMT
  <1>3. PICK g \in 0 .. 15, h \in 0 .. 15 : y = 16 * g + h /\ y \div 16 = g /\ y % 16 = h
    BY SMT
  <1>4. PICK i \in 0 .. 3, l \in 0 .. 63 : z = 64 * i + l /\ z \div 64 = i /\ z % 64 = l
    BY SMT
  <1>5. /\ t \div 262144 = e
        /\ t \div 4096 = 64 * e + (f * 16 + g)
        /\ t \div 64 = 64 * (64 * e + f * 16 + g) + (h * 4 + i)
        /\ t \div 1 = 64 * (1024 * x + 4 * y + i) + l
    <2>1. t \div 262144 = e
      BY <1>2, SMT
    <2>2. t \div 4096 = 64 * e + (f * 16 + g)
      BY <1>2, <1>3, SMT
    <2>3. t \div 64 = 64 * (64 * e + f * 16 + g) + (h * 4 + i)
      BY <1>2, <1>3, <1>4, SMT
    <2>4. t \div 1 = 64 * (1024 * x + 4 * y + i) + l
      BY <1>4, SMT
    <2> QED BY <2>1, <2>2, <2>3, <2>4
  <1>7. e % 64 = e
    BY SMT
  <1>8. (64 * e + (f * 16 + g)) % 64 = f * 16 + g
    BY SMT
  <1>9. (64 * (64 * e + f * 16 + g) + (h * 4 + i)) % 64 = h * 4 + i
    BY SMT
  <1>10. (64 * (1024 * x + 4 * y + i) + l) % 64 = l
    BY SMT
  <1>6. /\ SextetOf(t, 0) = (t \div 262144) % 64 /\ SextetOf(t, 1) = (t \div 4096) % 64
        /\ SextetOf(t, 2) = (t \div 64) % 64 /\ SextetOf(t, 3) = (t \div 1) % 64
    <2> HIDE DEF t
    <2> QED BY SMT DEF SextetOf
  <1> HIDE DEF t
  <1> QED BY <1>1, <1>2, <1>3, <1>4, <1>5, <1>6, <1>7, <1>8, <1>9, <1>10, SMT

\* The bytes of four sextets.
LEMMA BytesOfSextets ==
    ASSUME NEW a \in Sextets, NEW b \in Sextets, NEW c \in Sextets, NEW d \in Sextets
    PROVE  /\ ByteOf(FromSextets(a, b, c, d), 0) = a * 4 + (b \div 16)
           /\ ByteOf(FromSextets(a, b, c, d), 1) = (b % 16) * 16 + (c \div 4)
           /\ ByteOf(FromSextets(a, b, c, d), 2) = (c % 4) * 64 + d
  <1> USE DEF Sextets
  <1> DEFINE t == a * 262144 + b * 4096 + c * 64 + d
  <1>1. FromSextets(a, b, c, d) = t
    BY SMT DEF FromSextets
  <1>2. PICK e \in 0 .. 3, f \in 0 .. 15 : b = 16 * e + f /\ b \div 16 = e /\ b % 16 = f
    BY SMT
  <1>3. PICK g \in 0 .. 15, h \in 0 .. 3 : c = 4 * g + h /\ c \div 4 = g /\ c % 4 = h
    BY SMT
  <1>4. t \div 65536 = a * 4 + e
    BY <1>2, SMT
  <1>5. t \div 256 = 256 * (a * 4 + e) + (f * 16 + g)
    BY <1>2, <1>3, SMT
  <1>6. t = 256 * (1024 * a + 16 * b + g) + (h * 64 + d)
    BY <1>3, SMT
  <1>7. (a * 4 + e) % 256 = a * 4 + e
    BY SMT
  <1>8. (256 * (a * 4 + e) + (f * 16 + g)) % 256 = f * 16 + g
    BY SMT
  <1>9. (256 * (1024 * a + 16 * b + g) + (h * 64 + d)) % 256 = h * 64 + d
    BY SMT
  <1>10. t \in Int
    BY SMT
  <1>11. /\ ByteOf(t, 0) = (t \div 65536) % 256 /\ ByteOf(t, 1) = (t \div 256) % 256
         /\ ByteOf(t, 2) = t % 256
    <2> HIDE DEF t
    <2> QED BY <1>10, SMT DEF ByteOf
  <1> HIDE DEF t
  <1>12. ByteOf(t, 0) = a * 4 + (b \div 16)
    BY <1>2, <1>4, <1>7, <1>11, SMT
  <1>13. ByteOf(t, 1) = (b % 16) * 16 + (c \div 4)
    BY <1>2, <1>3, <1>5, <1>8, <1>11, SMT
  <1>14. ByteOf(t, 2) = (c % 4) * 64 + d
    BY <1>3, <1>6, <1>9, <1>11, SMT
  <1> QED BY <1>1, <1>12, <1>13, <1>14

\* A sextet's character is a valid one, no padding and no space, and decodes
\* to the sextet.
LEMMA Tables ==
    ASSUME NEW v \in Sextets
    PROVE  /\ encode_table[v] \in Nat /\ base64_is_valid_char(encode_table[v])
           /\ encode_table[v] # PAD /\ encode_table[v] \notin White
           /\ decode_table[encode_table[v]] = v
  BY DEF Sextets, encode_table, decode_table, base64_is_valid_char, PAD, White, SPACE

LEMMA ValidDecodes ==
    ASSUME NEW c, base64_is_valid_char(c)
    PROVE  decode_table[c] % 64 \in Sextets
  <1>1. decode_table[c] \in 0 .. 64
    BY DEF decode_table, base64_is_valid_char, PAD
  <1>2. \A v \in 0 .. 64 : v % 64 \in Sextets
    BY SMT DEF Sextets
  <1> QED BY <1>1, <1>2

LEMMA SextetKept ==
    ASSUME NEW v \in Sextets
    PROVE  v % 64 = v
  BY DEF Sextets

LEMMA PadDecodes ==
    decode_table[PAD] % 64 = 0 /\ PAD \notin White /\ base64_is_valid_char(PAD)
  BY DEF decode_table, PAD, White, SPACE, base64_is_valid_char

LEMMA ElementOf ==
    ASSUME NEW S, NEW s \in Seq(S), NEW i \in 1 .. Len(s)
    PROVE  s[i] \in S
  OBVIOUS

-----------------------------------------------------------------------------
(***************************************************************************)
(* The encoded line.                                                       *)
(***************************************************************************)

\* Sextet k of block b of a message.
Sextet(s, b, k) ==
    SextetOf(FromBytes(ByteAt(s, 3 * b + 1), ByteAt(s, 3 * b + 2), ByteAt(s, 3 * b + 3)), k)

Blocks(s) == (Len(s) + 2) \div 3

LEMMA BlocksFacts ==
    ASSUME NEW s \in Seq(Octets)
    PROVE  /\ Blocks(s) \in Nat /\ Len(s) \in Nat
           /\ 3 * Blocks(s) >= Len(s) /\ 3 * Blocks(s) =< Len(s) + 2
           /\ base64_encoded_size(Len(s)) - 1 = 4 * Blocks(s)
  <1>1. Len(s) \in Nat
    OBVIOUS
  <1> QED BY <1>1 DEF Blocks, base64_encoded_size

LEMMA BytesTyped ==
    ASSUME NEW s \in Seq(Octets), NEW i \in Nat \ {0}
    PROVE  ByteAt(s, i) \in Octets
  <1>1. CASE i =< Len(s)
    <2>1. i \in 1 .. Len(s)
      BY <1>1
    <2>2. s[i] \in Octets
      BY <2>1, ElementOf
    <2> QED BY <1>1, <2>2 DEF ByteAt
  <1>2. CASE ~(i =< Len(s))
    BY <1>2 DEF ByteAt, Octets
  <1> QED BY <1>1, <1>2

LEMMA SextetRange ==
    ASSUME NEW x \in Octets, NEW y \in Octets, NEW z \in Octets, NEW k \in 0 .. 3
    PROVE  SextetOf(FromBytes(x, y, z), k) \in Sextets
  <1>1. (x \div 4) \in Sextets
    BY SMT DEF Octets, Sextets
  <1>2. (x % 4) * 16 + (y \div 16) \in Sextets
    BY SMT DEF Octets, Sextets
  <1>3. (y % 16) * 4 + (z \div 64) \in Sextets
    BY SMT DEF Octets, Sextets
  <1>4. (z % 64) \in Sextets
    BY SMT DEF Octets, Sextets
  <1>5. k = 0 \/ k = 1 \/ k = 2 \/ k = 3
    BY SMT DEF Octets, Sextets
  <1> QED BY <1>1, <1>2, <1>3, <1>4, <1>5, SextetsOfBytes

\* What the sextets of a block are, and that a sextet of missing bytes is 0.
LEMMA SextetValues ==
    ASSUME NEW s \in Seq(Octets), NEW b \in Nat
    PROVE  /\ ByteAt(s, 3 * b + 1) \in Octets /\ ByteAt(s, 3 * b + 2) \in Octets
           /\ ByteAt(s, 3 * b + 3) \in Octets
           /\ Sextet(s, b, 0) = ByteAt(s, 3 * b + 1) \div 4
           /\ Sextet(s, b, 1) = (ByteAt(s, 3 * b + 1) % 4) * 16 + (ByteAt(s, 3 * b + 2) \div 16)
           /\ Sextet(s, b, 2) = (ByteAt(s, 3 * b + 2) % 16) * 4 + (ByteAt(s, 3 * b + 3) \div 64)
           /\ Sextet(s, b, 3) = ByteAt(s, 3 * b + 3) % 64
           /\ \A k \in 0 .. 3 : Sextet(s, b, k) \in Sextets
  <1> DEFINE x == ByteAt(s, 3 * b + 1)
             y == ByteAt(s, 3 * b + 2)
             z == ByteAt(s, 3 * b + 3)
  <1>1. x \in Octets /\ y \in Octets /\ z \in Octets
    <2>1. 3 * b + 1 \in Nat \ {0} /\ 3 * b + 2 \in Nat \ {0} /\ 3 * b + 3 \in Nat \ {0}
      OBVIOUS
    <2> QED BY <2>1, BytesTyped
  <1>2. \A k : Sextet(s, b, k) = SextetOf(FromBytes(x, y, z), k)
    BY DEF Sextet
  <1> HIDE DEF x, y, z
  <1>3. \A k \in 0 .. 3 : Sextet(s, b, k) \in Sextets
    BY <1>1, <1>2, SextetRange
  <1>4. SextetOf(FromBytes(x, y, z), 0) = x \div 4
    BY <1>1, SextetsOfBytes
  <1>5. SextetOf(FromBytes(x, y, z), 1) = (x % 4) * 16 + (y \div 16)
    BY <1>1, SextetsOfBytes
  <1>6. SextetOf(FromBytes(x, y, z), 2) = (y % 16) * 4 + (z \div 64)
    BY <1>1, SextetsOfBytes
  <1>7. SextetOf(FromBytes(x, y, z), 3) = z % 64
    BY <1>1, SextetsOfBytes
  <1>8. /\ Sextet(s, b, 0) = x \div 4
        /\ Sextet(s, b, 1) = (x % 4) * 16 + (y \div 16)
        /\ Sextet(s, b, 2) = (y % 16) * 4 + (z \div 64)
        /\ Sextet(s, b, 3) = z % 64
    BY <1>2, <1>4, <1>5, <1>6, <1>7, Zenon
  <1> QED BY <1>1, <1>3, <1>8, Zenon DEF x, y, z

\* A padded place stands for a sextet that is 0.
LEMMA PaddedSextet ==
    ASSUME NEW s \in Seq(Octets), NEW b \in Nat, NEW k \in 0 .. 3,
           3 * b + k > Len(s), 3 * b < Len(s)
    PROVE  Sextet(s, b, k) = 0
  <1>1. Len(s) \in Nat
    OBVIOUS
  <1>2. k = 2 \/ k = 3
    BY <1>1
  <1>3. ByteAt(s, 3 * b + 3) = 0 /\ (k = 2 => ByteAt(s, 3 * b + 2) = 0)
    BY <1>1, <1>2 DEF ByteAt
  <1>4. /\ Sextet(s, b, 2) = (ByteAt(s, 3 * b + 2) % 16) * 4 + (ByteAt(s, 3 * b + 3) \div 64)
        /\ Sextet(s, b, 3) = ByteAt(s, 3 * b + 3) % 64
    BY SextetValues, Zenon
  <1>5. (0 % 16) * 4 + (0 \div 64) = 0 /\ 0 % 64 = 0
    BY SMT
  <1> QED BY <1>2, <1>3, <1>4, <1>5

\* The character at place k of block b.
LEMMA EncodedChar ==
    ASSUME NEW s \in Seq(Octets), NEW b \in 0 .. Blocks(s) - 1, NEW k \in 0 .. 3
    PROVE  /\ 4 * b + k + 1 \in 1 .. 4 * Blocks(s)
           /\ base64_encode(s)[4 * b + k + 1] =
                 IF 3 * b + k > Len(s) THEN PAD ELSE encode_table[Sextet(s, b, k)]
  <1> DEFINE j == 4 * b + k + 1
  <1>1. Blocks(s) \in Nat /\ base64_encoded_size(Len(s)) - 1 = 4 * Blocks(s)
    BY BlocksFacts
  <1>2. b \in Nat /\ b < Blocks(s)
    BY <1>1
  <1>3. (j - 1) \div 4 = b /\ (j - 1) % 4 = k
    BY <1>2
  <1>4. j \in 1 .. 4 * Blocks(s)
    BY <1>1, <1>2
  <1>5. base64_encode(s)[j] =
           IF 3 * b + k > Len(s) THEN PAD ELSE encode_table[Sextet(s, b, k)]
    <2> HIDE DEF j
    <2> QED BY <1>1, <1>3, <1>4 DEF base64_encode, Sextet
  <1> QED BY <1>4, <1>5

\* Every place of the line is one of a block.
LEMMA PlaceOf ==
    ASSUME NEW n \in Nat, NEW i \in 1 .. 4 * n
    PROVE  \E b \in 0 .. n - 1, k \in 0 .. 3 : i = 4 * b + k + 1
  <1>1. (i - 1) \div 4 \in 0 .. n - 1 /\ (i - 1) % 4 \in 0 .. 3
    BY SMT
  <1>2. i = 4 * ((i - 1) \div 4) + ((i - 1) % 4) + 1
    BY SMT
  <1> QED BY <1>1, <1>2, Zenon

LEMMA EncodedLine ==
    ASSUME NEW s \in Seq(Octets)
    PROVE  /\ base64_encode(s) \in Seq(Nat)
           /\ Len(base64_encode(s)) = 4 * Blocks(s)
  <1> DEFINE e == base64_encode(s)
  <1>1. Blocks(s) \in Nat /\ base64_encoded_size(Len(s)) - 1 = 4 * Blocks(s)
    BY BlocksFacts
  <1>2. e = [j \in 1 .. 4 * Blocks(s) |-> e[j]]
    BY <1>1 DEF base64_encode
  <1>3. ASSUME NEW i \in 1 .. 4 * Blocks(s) PROVE e[i] \in Nat
    <2>1. PICK b \in 0 .. Blocks(s) - 1, k \in 0 .. 3 : i = 4 * b + k + 1
      BY <1>1, PlaceOf
    <2>2. b \in Nat
      BY <1>1
    <2>3. Sextet(s, b, k) \in Sextets
      BY <2>2, SextetValues, Zenon
    <2>4. e[i] = PAD \/ e[i] = encode_table[Sextet(s, b, k)]
      BY <2>1, EncodedChar, Zenon
    <2>5. encode_table[Sextet(s, b, k)] \in Nat
      BY <2>3, Tables
    <2> HIDE DEF e
    <2> QED BY <2>4, <2>5 DEF PAD
  <1> HIDE DEF e
  <1>4. 4 * Blocks(s) \in Nat
    BY <1>1
  <1>5. e \in Seq(Nat) /\ Len(e) = 4 * Blocks(s)
    BY <1>2, <1>3, <1>4
  <1> QED BY <1>5 DEF e

\* A character of the line is valid, no space, and decodes to its sextet; it
\* is padding exactly where there is no byte.
LEMMA EncodedPlace ==
    ASSUME NEW s \in Seq(Octets), NEW b \in 0 .. Blocks(s) - 1, NEW k \in 0 .. 3,
           NEW i, i = 4 * b + k + 1
    PROVE  /\ base64_is_valid_char(base64_encode(s)[i]) /\ base64_encode(s)[i] \notin White
           /\ base64_encode(s)[i] = PAD <=> 3 * b + k > Len(s)
           /\ SextetAt(base64_encode(s), i) = Sextet(s, b, k)
  <1> DEFINE e == base64_encode(s)
  <1>1. /\ Blocks(s) \in Nat /\ Len(s) \in Nat /\ 3 * Blocks(s) =< Len(s) + 2
    BY BlocksFacts
  <1>2. b \in Nat /\ 3 * b < Len(s)
    BY <1>1
  <1>3. e[i] = IF 3 * b + k > Len(s) THEN PAD ELSE encode_table[Sextet(s, b, k)]
    BY EncodedChar, Zenon
  <1>4. Sextet(s, b, k) \in Sextets
    BY <1>2, SextetValues, Zenon
  <1>5. SextetAt(e, i) = decode_table[e[i]] % 64
    BY DEF SextetAt
  <1> HIDE DEF e
  <1>6. CASE 3 * b + k > Len(s)
    <2>1. Sextet(s, b, k) = 0
      BY <1>2, <1>6, PaddedSextet, Zenon
    <2>2. e[i] = PAD
      BY <1>3, <1>6
    <2> QED BY <2>1, <2>2, <1>5, <1>6, PadDecodes, Zenon DEF e
  <1>7. CASE ~(3 * b + k > Len(s))
    <2>1. e[i] = encode_table[Sextet(s, b, k)]
      BY <1>3, <1>7
    <2>2. /\ base64_is_valid_char(e[i]) /\ e[i] # PAD /\ e[i] \notin White
          /\ decode_table[e[i]] = Sextet(s, b, k)
      BY <1>4, <2>1, Tables, Zenon
    <2>3. Sextet(s, b, k) % 64 = Sextet(s, b, k)
      BY <1>4, SextetKept
    <2> QED BY <2>2, <2>3, <1>5, <1>7, Zenon DEF e
  <1> QED BY <1>6, <1>7, Zenon

LEMMA EncodedNotWhite ==
    ASSUME NEW s \in Seq(Octets), NEW i \in 1 .. 4 * Blocks(s)
    PROVE  base64_encode(s)[i] \notin White
  <1>1. Blocks(s) \in Nat
    BY BlocksFacts
  <1>2. PICK b \in 0 .. Blocks(s) - 1, k \in 0 .. 3 : i = 4 * b + k + 1
    BY <1>1, PlaceOf
  <1> QED BY <1>2, EncodedPlace, Zenon

-----------------------------------------------------------------------------
(***************************************************************************)
(* Decoding.                                                               *)
(***************************************************************************)

\* Byte r of block b.
DecodedByte(l, b, r) ==
    ByteOf(FromSextets(SextetAt(l, 4 * b + 1), SextetAt(l, 4 * b + 2),
                       SextetAt(l, 4 * b + 3), SextetAt(l, 4 * b + 4)), r)

\* The two halves of a byte.
LEMMA Halves ==
    ASSUME NEW x \in Octets, NEW y \in Octets, NEW z \in Octets
    PROVE  /\ (x \div 4) * 4 + (((x % 4) * 16 + (y \div 16)) \div 16) = x
           /\ (((x % 4) * 16 + (y \div 16)) % 16) * 16
                 + (((y % 16) * 4 + (z \div 64)) \div 4) = y
           /\ (((y % 16) * 4 + (z \div 64)) % 4) * 64 + (z % 64) = z
  <1> USE DEF Octets
  <1>1. PICK e \in 0 .. 63, f \in 0 .. 3 : x = 4 * e + f /\ x \div 4 = e /\ x % 4 = f
    BY SMT
  <1>2. PICK g \in 0 .. 15, h \in 0 .. 15 : y = 16 * g + h /\ y \div 16 = g /\ y % 16 = h
    BY SMT
  <1>3. PICK i \in 0 .. 3, m \in 0 .. 63 : z = 64 * i + m /\ z \div 64 = i /\ z % 64 = m
    BY SMT
  <1>4. (f * 16 + g) \div 16 = f /\ (f * 16 + g) % 16 = g
    BY SMT
  <1>5. (h * 4 + i) \div 4 = h /\ (h * 4 + i) % 4 = i
    BY SMT
  <1> QED BY <1>1, <1>2, <1>3, <1>4, <1>5, SMT

\* A byte is decoded from two neighbouring characters: where they are those
\* of the encoded message, it is the byte of the message.
LEMMA ByteRegained ==
    ASSUME NEW s \in Seq(Octets), NEW b \in Nat, NEW r \in 0 .. 2, NEW l,
           \A k \in 0 .. 3 : SextetAt(l, 4 * b + k + 1) \in Sextets,
           SextetAt(l, 4 * b + r + 1) = Sextet(s, b, r),
           SextetAt(l, 4 * b + r + 2) = Sextet(s, b, r + 1)
    PROVE  DecodedByte(l, b, r) = ByteAt(s, 3 * b + r + 1)
  <1> SUFFICES ASSUME NEW x, x = ByteAt(s, 3 * b + 1), NEW y, y = ByteAt(s, 3 * b + 2),
                      NEW z, z = ByteAt(s, 3 * b + 3),
                      NEW c, c = SextetAt(l, 4 * b + 1), NEW d, d = SextetAt(l, 4 * b + 2),
                      NEW e, e = SextetAt(l, 4 * b + 3), NEW f, f = SextetAt(l, 4 * b + 4)
               PROVE  DecodedByte(l, b, r) = ByteAt(s, 3 * b + r + 1)
    BY Zenon
  <1>1. c \in Sextets /\ d \in Sextets /\ e \in Sextets /\ f \in Sextets
    <2>1. /\ 4 * b + 0 + 1 = 4 * b + 1 /\ 4 * b + 1 + 1 = 4 * b + 2
          /\ 4 * b + 2 + 1 = 4 * b + 3 /\ 4 * b + 3 + 1 = 4 * b + 4
      BY SMT
    <2>2. 0 \in 0 .. 3 /\ 1 \in 0 .. 3 /\ 2 \in 0 .. 3 /\ 3 \in 0 .. 3
      BY SMT
    <2> QED BY <2>1, <2>2
  <1>2. \A q : DecodedByte(l, b, q) = ByteOf(FromSextets(c, d, e, f), q)
    BY DEF DecodedByte
  <1>3. /\ x \in Octets /\ y \in Octets /\ z \in Octets
        /\ Sextet(s, b, 0) = x \div 4
        /\ Sextet(s, b, 1) = (x % 4) * 16 + (y \div 16)
        /\ Sextet(s, b, 2) = (y % 16) * 4 + (z \div 64)
        /\ Sextet(s, b, 3) = z % 64
    BY SextetValues, Zenon
  <1>4. r = 0 \/ r = 1 \/ r = 2
    BY SMT
  <1>8. /\ (x \div 4) * 4 + (((x % 4) * 16 + (y \div 16)) \div 16) = x
        /\ (((x % 4) * 16 + (y \div 16)) % 16) * 16
              + (((y % 16) * 4 + (z \div 64)) \div 4) = y
        /\ (((y % 16) * 4 + (z \div 64)) % 4) * 64 + (z % 64) = z
    <2>1. x \in Octets /\ y \in Octets /\ z \in Octets
      BY <1>3, Zenon
    <2> QED BY <2>1, Halves
  <1>5. CASE r = 0
    <2>1. c = x \div 4 /\ d = (x % 4) * 16 + (y \div 16)
      BY <1>3, <1>5, SMT
    <2>2. ByteOf(FromSextets(c, d, e, f), 0) = c * 4 + (d \div 16)
      BY <1>1, BytesOfSextets
    <2>3. c * 4 + (d \div 16) = x
      BY <2>1, <1>8
    <2>4. 3 * b + r + 1 = 3 * b + 1
      BY <1>5, SMT
    <2> QED BY <2>2, <2>3, <2>4, <1>2, <1>5, Zenon
  <1>6. CASE r = 1
    <2>1. d = (x % 4) * 16 + (y \div 16) /\ e = (y % 16) * 4 + (z \div 64)
      BY <1>3, <1>6, SMT
    <2>2. ByteOf(FromSextets(c, d, e, f), 1) = (d % 16) * 16 + (e \div 4)
      BY <1>1, BytesOfSextets
    <2>3. (d % 16) * 16 + (e \div 4) = y
      BY <2>1, <1>8
    <2>4. 3 * b + r + 1 = 3 * b + 2
      BY <1>6, SMT
    <2> QED BY <2>2, <2>3, <2>4, <1>2, <1>6, Zenon
  <1>7. CASE r = 2
    <2>1. e = (y % 16) * 4 + (z \div 64) /\ f = z % 64
      BY <1>3, <1>7, SMT
    <2>2. ByteOf(FromSextets(c, d, e, f), 2) = (e % 4) * 64 + f
      BY <1>1, BytesOfSextets
    <2>3. (e % 4) * 64 + f = z
      BY <2>1, <1>8
    <2>4. 3 * b + r + 1 = 3 * b + 3
      BY <1>7, SMT
    <2> QED BY <2>2, <2>3, <2>4, <1>2, <1>7, Zenon
  <1> QED BY <1>4, <1>5, <1>6, <1>7, Zenon

\* Of a valid line, the last none, one or two characters are padding.
LEMMA PaddingCount ==
    ASSUME NEW l \in Seq(Nat), NEW m \in Nat \ {0}, Len(l) = 4 * m, ValidBase64(l)
    PROVE  \E p \in 0 .. 2 : /\ OutLen(l) = 3 * m - p
                             /\ \A i \in 1 .. 4 * m : l[i] = PAD <=> i > 4 * m - p
  <1> DEFINE P == {i \in {4 * m - 1, 4 * m} : l[i] = PAD}
  <1>1. (4 * m) \div 4 = m
    BY SMT
  <1>2. OutLen(l) = m * 3 - Cardinality(P)
    BY <1>1 DEF OutLen
  <1>3. \A i \in 1 .. 4 * m : l[i] = PAD => i > 4 * m - 2 /\ \A k \in i .. 4 * m : l[k] = PAD
    BY DEF ValidBase64
  <1>4. CASE l[4 * m] # PAD
    <2>1. P = {}
      BY <1>3, <1>4
    <2>2. Cardinality(P) = 0
      BY <2>1, FS_EmptySet
    <2>3. \A i \in 1 .. 4 * m : l[i] = PAD <=> i > 4 * m - 0
      BY <1>3, <1>4
    <2> HIDE DEF P
    <2>4. OutLen(l) = 3 * m - 0
      BY <1>2, <2>2
    <2> QED BY <2>3, <2>4
  <1>5. CASE l[4 * m] = PAD /\ l[4 * m - 1] # PAD
    <2>1. P = {4 * m}
      BY <1>3, <1>5
    <2>2. Cardinality(P) = 1
      BY <2>1, FS_Singleton
    <2>3. \A i \in 1 .. 4 * m : l[i] = PAD <=> i > 4 * m - 1
      BY <1>3, <1>5
    <2> HIDE DEF P
    <2>4. OutLen(l) = 3 * m - 1
      BY <1>2, <2>2
    <2> QED BY <2>3, <2>4
  <1>6. CASE l[4 * m] = PAD /\ l[4 * m - 1] = PAD
    <2>1. P = {4 * m} \cup {4 * m - 1}
      BY <1>6
    <2>2. ASSUME NEW x, NEW y, x # y PROVE Cardinality({x} \cup {y}) = 2
      <3>1. IsFiniteSet({x}) /\ Cardinality({x}) = 1
        BY FS_Singleton, Zenon
      <3>2. y \notin {x}
        BY <2>2
      <3>3. Cardinality({x} \cup {y}) = Cardinality({x}) + 1
        BY <3>1, <3>2, FS_AddElement, Zenon
      <3>4. 1 + 1 = 2
        OBVIOUS
      <3> QED BY <3>1, <3>3, <3>4, Zenon
    <2>3. Cardinality(P) = 2
      <3>1. 4 * m # 4 * m - 1
        BY SMT
      <3> HIDE DEF P
      <3> QED BY <2>1, <2>2, <3>1, Zenon
    <2>4. \A i \in 1 .. 4 * m : l[i] = PAD <=> i > 4 * m - 2
      BY <1>3, <1>6
    <2> HIDE DEF P
    <2>5. OutLen(l) = 3 * m - 2
      BY <1>2, <2>3
    <2> QED BY <2>4, <2>5
  <1> QED BY <1>4, <1>5, <1>6

\* The block and the place in it of position j, by division.
LEMMA DivisionByThree ==
    ASSUME NEW i \in Nat
    PROVE  i \div 3 \in Nat /\ i % 3 \in 0 .. 2 /\ i = 3 * (i \div 3) + (i % 3)
  BY SMT

LEMMA PlaceByThree ==
    ASSUME NEW j \in Nat \ {0}
    PROVE  /\ (j - 1) \div 3 \in Nat /\ (j - 1) % 3 \in 0 .. 2
           /\ j = 3 * ((j - 1) \div 3) + ((j - 1) % 3) + 1
  <1> DEFINE i == j - 1
  <1>1. i \in Nat /\ j = i + 1
    BY SMT
  <1> HIDE DEF i
  <1> DEFINE b == i \div 3
             r == i % 3
  <1>2. b \in Nat /\ r \in 0 .. 2 /\ i = 3 * b + r
    BY <1>1, DivisionByThree, Zenon
  <1> HIDE DEF b, r
  <1>3. j = 3 * b + r + 1
    BY <1>1, <1>2, SMT
  <1> QED BY <1>2, <1>3, Zenon DEF b, r, i

\* What is decoded of a line that holds characters of the encoded message, or
\* padding, is a beginning of the message.
LEMMA DecodesPrefix ==
    ASSUME NEW s \in Seq(Octets), NEW m \in Nat \ {0}, m =< Blocks(s),
           NEW l \in Seq(Nat), Len(l) = 4 * m, ValidBase64(l),
           \A i \in 1 .. 4 * m : l[i] = base64_encode(s)[i] \/ l[i] = PAD,
           NEW j \in 1 .. OutLen(l)
    PROVE  /\ j \in 1 .. Len(s)
           /\ DecodedByte(l, (j - 1) \div 3, (j - 1) % 3) = s[j]
  <1> DEFINE e == base64_encode(s)
  <1>1. PICK p \in 0 .. 2 : /\ OutLen(l) = 3 * m - p
                            /\ \A i \in 1 .. 4 * m : l[i] = PAD <=> i > 4 * m - p
    BY PaddingCount
  <1>2. PICK b \in 0 .. m - 1, r \in 0 .. 2 :
           j = 3 * b + r + 1 /\ (j - 1) \div 3 = b /\ (j - 1) % 3 = r
    <2>1. j \in 1 .. 3 * m
      BY <1>1
    <2>2. j \in Nat \ {0} /\ j =< 3 * m
      BY <2>1, SMT
    <2> DEFINE b == (j - 1) \div 3
               r == (j - 1) % 3
    <2>3. b \in Nat /\ r \in 0 .. 2 /\ j = 3 * b + r + 1
      BY <2>2, PlaceByThree, Zenon
    <2>4. (j - 1) \div 3 = b /\ (j - 1) % 3 = r
      BY Zenon
    <2> HIDE DEF b, r
    <2>5. b \in 0 .. m - 1
      BY <2>2, <2>3, SMT
    <2> QED BY <2>3, <2>4, <2>5, Zenon
  <1>3. 4 * b + r + 2 =< 4 * m - p /\ 4 * b + r + 1 \in 1 .. 4 * m /\ 4 * b + r + 2 \in 1 .. 4 * m
    BY <1>1, <1>2, SMT
  <1>4. Blocks(s) \in Nat /\ Len(s) \in Nat
    BY BlocksFacts
  <1>5. b \in 0 .. Blocks(s) - 1 /\ b \in Nat /\ r \in 0 .. 3 /\ r + 1 \in 0 .. 3
    <2>1. b \in 0 .. Blocks(s) - 1
      <3>1. m =< Blocks(s) /\ m \in Nat
        OBVIOUS
      <3> QED BY <3>1, <1>4, SMT
    <2>2. b \in Nat
      BY SMT
    <2>3. r \in 0 .. 3 /\ r + 1 \in 0 .. 3
      BY SMT
    <2> QED BY <2>1, <2>2, <2>3
  <1>6. l[4 * b + r + 1] # PAD /\ l[4 * b + r + 2] # PAD
    BY <1>1, <1>3
  <1>7. l[4 * b + r + 1] = e[4 * b + r + 1] /\ l[4 * b + r + 2] = e[4 * b + r + 2]
    BY <1>3, <1>6
  <1>8. SextetAt(e, 4 * b + r + 1) = Sextet(s, b, r)
    BY <1>5, EncodedPlace, Zenon
  <1>14. /\ SextetAt(e, 4 * b + r + 2) = Sextet(s, b, r + 1)
         /\ ~(3 * b + (r + 1) > Len(s))
    <2>1. 4 * b + r + 2 = 4 * b + (r + 1) + 1
      BY SMT
    <2>2. e[4 * b + r + 2] # PAD
      BY <1>6, <1>7
    <2> HIDE DEF e
    <2>3. e[4 * b + (r + 1) + 1] # PAD
      BY <2>1, <2>2, Zenon
    <2>4. SextetAt(e, 4 * b + (r + 1) + 1) = Sextet(s, b, r + 1)
      BY <1>5, EncodedPlace, Zenon DEF e
    <2>5. ~(3 * b + (r + 1) > Len(s))
      BY <2>3, <1>5, EncodedPlace, Zenon DEF e
    <2> QED BY <2>1, <2>4, <2>5, Zenon
  <1>9. /\ SextetAt(l, 4 * b + r + 1) = Sextet(s, b, r)
        /\ SextetAt(l, 4 * b + r + 2) = Sextet(s, b, r + 1)
    <2> HIDE DEF e
    <2> QED BY <1>7, <1>8, <1>14 DEF SextetAt
  <1>10. \A k \in 0 .. 3 : SextetAt(l, 4 * b + k + 1) \in Sextets
    <2> TAKE k \in 0 .. 3
    <2>1. 4 * b + k + 1 \in 1 .. Len(l)
      BY SMT
    <2>2. base64_is_valid_char(l[4 * b + k + 1])
      BY <2>1 DEF ValidBase64
    <2> QED BY <2>2, ValidDecodes DEF SextetAt
  <1>11. DecodedByte(l, b, r) = ByteAt(s, 3 * b + r + 1)
    BY <1>5, <1>9, <1>10, ByteRegained
  <1>12. j \in 1 .. Len(s)
    <2>1. 3 * b + r + 1 =< Len(s)
      <3>1. \A x, y \in Nat, z \in 0 .. 2 : ~(3 * x + (z + 1) > y) => 3 * x + z + 1 =< y
        BY SMT
      <3> QED BY <1>4, <1>5, <1>14, <3>1
    <2> QED BY <2>1, <1>2, <1>4, SMT
  <1>13. ByteAt(s, j) = s[j]
    BY <1>12, <1>4 DEF ByteAt
  <1> QED BY <1>2, <1>11, <1>12, <1>13, Zenon

\* The encoded line is valid, and as many bytes are decoded as were encoded.
LEMMA EncodedValid ==
    ASSUME NEW s \in Seq(Octets), s # <<>>
    PROVE  /\ Blocks(s) \in Nat \ {0}
           /\ ValidBase64(base64_encode(s)) /\ OutLen(base64_encode(s)) = Len(s)
  <1> DEFINE e == base64_encode(s)
             n == Blocks(s)
  <1>1. /\ n \in Nat /\ Len(s) \in Nat /\ 3 * n >= Len(s) /\ 3 * n =< Len(s) + 2
    BY BlocksFacts
  <1>2. Len(s) > 0
    BY <1>1
  <1>3. e \in Seq(Nat) /\ Len(e) = 4 * n
    BY EncodedLine
  <1>4. \A i \in 1 .. 4 * n : base64_is_valid_char(e[i])
    <2> TAKE i \in 1 .. 4 * n
    <2>1. PICK b \in 0 .. n - 1, q \in 0 .. 3 : i = 4 * b + q + 1
      BY <1>1, PlaceOf
    <2> QED BY <2>1, EncodedPlace, Zenon
  <1>5. ASSUME NEW i \in 1 .. 4 * n, e[i] = PAD, NEW k \in i .. 4 * n
        PROVE  i > 4 * n - 2 /\ e[k] = PAD
    <2>1. PICK b \in 0 .. n - 1, q \in 0 .. 3 : i = 4 * b + q + 1
      BY <1>1, PlaceOf
    <2>2. 3 * b + q > Len(s)
      BY <2>1, <1>5, EncodedPlace, Zenon
    <2> HIDE DEF e, n
    <2>3. b = n - 1 /\ q > 1
      BY <2>2, <1>1, SMT
    <2>4. PICK c \in 0 .. n - 1, r \in 0 .. 3 : k = 4 * c + r + 1
      <3>1. k \in 1 .. 4 * n
        BY <1>1
      <3> QED BY <3>1, <1>1, PlaceOf
    <2>5. c = n - 1 /\ r >= q
      BY <2>1, <2>3, <2>4, <1>1, SMT
    <2>6. 3 * c + r > Len(s)
      BY <2>2, <2>3, <2>5, <1>1, SMT
    <2>7. e[k] = PAD
      BY <2>4, <2>6, EncodedPlace, Zenon DEF e, n
    <2>8. i > 4 * n - 2
      BY <2>1, <2>3, <1>1, SMT
    <2> QED BY <2>7, <2>8
  <1> HIDE DEF n
  <1>6. n \in Nat \ {0}
    BY <1>1, <1>2
  <1>7. ValidBase64(e)
    <2>1. Len(e) % 4 = 0
      BY <1>1, <1>3
    <2> HIDE DEF e
    <2>2. \A i \in 1 .. 4 * n : e[i] = PAD => i > 4 * n - 2 /\ \A k \in i .. 4 * n : e[k] = PAD
      <3>1. ASSUME NEW i \in 1 .. 4 * n, e[i] = PAD
            PROVE  i > 4 * n - 2 /\ \A k \in i .. 4 * n : e[k] = PAD
        <4>1. i \in i .. 4 * n
          BY <1>1
        <4> QED BY <3>1, <4>1, <1>5, Zenon
      <3> QED BY <3>1
    <2> QED BY <2>1, <2>2, <1>3, <1>4 DEF ValidBase64
  <1>8. OutLen(e) = Len(s)
    <2>1. PICK p \in 0 .. 2 : /\ OutLen(e) = 3 * n - p
                              /\ \A i \in 1 .. 4 * n : e[i] = PAD <=> i > 4 * n - p
      <3> HIDE DEF e
      <3> QED BY <1>3, <1>6, <1>7, PaddingCount
    <2>2. n - 1 \in 0 .. n - 1 /\ 4 * n = 4 * (n - 1) + 3 + 1 /\ 4 * n - 1 = 4 * (n - 1) + 2 + 1
          /\ 2 \in 0 .. 3 /\ 3 \in 0 .. 3
      BY <1>6, SMT
    <2>3. /\ e[4 * n] = PAD <=> 3 * (n - 1) + 3 > Len(s)
          /\ e[4 * n - 1] = PAD <=> 3 * (n - 1) + 2 > Len(s)
      BY <2>2, EncodedPlace, Zenon DEF n
    <2>4. /\ e[4 * n] = PAD <=> 4 * n > 4 * n - p
          /\ e[4 * n - 1] = PAD <=> 4 * n - 1 > 4 * n - p
      <3>1. 4 * n \in 1 .. 4 * n /\ 4 * n - 1 \in 1 .. 4 * n
        BY <1>6, SMT
      <3> HIDE DEF e
      <3> QED BY <2>1, <3>1
    <2>5. /\ 4 * n > 4 * n - p <=> 3 * (n - 1) + 3 > Len(s)
          /\ 4 * n - 1 > 4 * n - p <=> 3 * (n - 1) + 2 > Len(s)
      BY <2>3, <2>4, Zenon
    <2>6. 3 * n - p = Len(s)
      BY <2>5, <1>1, <1>6, SMT
    <2> QED BY <2>1, <2>6
  <1> QED BY <1>6, <1>7, <1>8 DEF n

LEMMA StrippedKept ==
    ASSUME NEW l \in Seq(Nat), l # <<>>, l[Len(l)] \notin White
    PROVE  Stripped(l) = l
  <1> DEFINE S == {n \in 0 .. Len(l) : \A i \in n + 1 .. Len(l) : l[i] \in White}
  <1>1. Len(l) \in Nat \ {0}
    OBVIOUS
  <1>2. S = {Len(l)}
    BY <1>1
  <1>3. Min(S) = Len(l)
    <2>1. \A x \in Int : (CHOOSE y \in {x} : \A z \in {x} : y =< z) = x
      OBVIOUS
    <2> HIDE DEF S
    <2> QED BY <1>1, <1>2, <2>1 DEF Min
  <1>4. SubSeq(l, 1, Len(l)) = l
    BY <1>1
  <1> HIDE DEF S
  <1>5. Stripped(l) = SubSeq(l, 1, Min(S))
    BY DEF Stripped, S
  <1> QED BY <1>3, <1>4, <1>5

\* A space at the end leaves a length that is no multiple of 4.
LEMMA StrippedOne ==
    ASSUME NEW l \in Seq(Nat), NEW m \in Nat \ {0}, Len(l) = 4 * m,
           l[4 * m] \in White, l[4 * m - 1] \notin White
    PROVE  Stripped(l) # <<>> /\ ~ValidBase64(Stripped(l))
  <1> DEFINE S == {n \in 0 .. Len(l) : \A i \in n + 1 .. Len(l) : l[i] \in White}
  <1>1. S = {4 * m - 1, 4 * m}
    <2>1. 4 * m - 1 \in S /\ 4 * m \in S
      BY SMT
    <2>2. ASSUME NEW n \in S PROVE n >= 4 * m - 1
      <3>1. n < 4 * m - 1 => 4 * m - 1 \in n + 1 .. Len(l)
        BY SMT
      <3> QED BY <3>1
    <2> QED BY <2>1, <2>2
  <1>2. Min(S) = 4 * m - 1
    <2>1. (CHOOSE y \in {4 * m - 1, 4 * m} : \A z \in {4 * m - 1, 4 * m} : y =< z) = 4 * m - 1
      OBVIOUS
    <2> HIDE DEF S
    <2> QED BY <1>1, <2>1 DEF Min
  <1>3. Stripped(l) = SubSeq(l, 1, 4 * m - 1)
    BY <1>2 DEF Stripped
  <1>4. Len(Stripped(l)) = 4 * m - 1
    BY <1>3
  <1>5. (4 * m - 1) % 4 # 0
    BY SMT
  <1>6. Stripped(l) # <<>>
    <2>1. Len(<<>>) = 0 /\ 4 * m - 1 # 0
      BY SMT
    <2> QED BY <2>1, <1>4
  <1>7. ~ValidBase64(Stripped(l))
    BY <1>4, <1>5 DEF ValidBase64
  <1> QED BY <1>6, <1>7

-----------------------------------------------------------------------------
(***************************************************************************)
(* Reading a line.                                                         *)
(***************************************************************************)

\* What reading does with a line that is as long as full blocks, when
\* stripping changes nothing.
LEMMA ReadsValid ==
    ASSUME NEW l \in Seq(Nat), NEW m \in Nat \ {0}, Len(l) = 4 * m, l[4 * m] \notin White
    PROVE  /\ ~ValidBase64(l) => ReadLine(l) = Refused
           /\ ValidBase64(l) =>
                 ReadLine(l) = [j \in 1 .. OutLen(l) |->
                                   DecodedByte(l, (j - 1) \div 3, (j - 1) % 3)]
  <1>1. l # <<>> /\ l[Len(l)] \notin White
    BY SMT
  <1>2. Stripped(l) = l
    BY <1>1, StrippedKept
  <1>3. Range(l) # {SPACE}
    <2>1. l[4 * m] \in Range(l)
      BY SMT DEF Range
    <2> QED BY <2>1 DEF White
  <1>4. Len(l) % 4 = 0
    BY SMT
  <1>5. ReadLine(l) = base64_decode(l, base64_decoded_size(Len(l)))
    BY <1>3, <1>4 DEF ReadLine
  <1>6. CASE ~ValidBase64(l)
    BY <1>1, <1>2, <1>5, <1>6 DEF base64_decode
  <1>7. CASE ValidBase64(l)
    <2>1. PICK p \in 0 .. 2 : OutLen(l) = 3 * m - p
      BY <1>7, PaddingCount
    <2>2. base64_decoded_size(Len(l)) = m * 3 + 3
      BY SMT DEF base64_decoded_size
    <2>3. ~(base64_decoded_size(Len(l)) < OutLen(l))
      BY <2>1, <2>2
    <2> QED BY <1>1, <1>2, <1>5, <1>7, <2>3 DEF base64_decode, DecodedByte
  <1> QED BY <1>6, <1>7

\* The line of a message reads back as the message.
LEMMA ReadsBack ==
    ASSUME NEW s \in Seq(Octets), s # <<>>
    PROVE  ReadLine(base64_encode(s)) = s
  <1> DEFINE e == base64_encode(s)
             m == Blocks(s)
  <1>1. m \in Nat \ {0} /\ ValidBase64(e) /\ OutLen(e) = Len(s)
    BY EncodedValid
  <1>2. e \in Seq(Nat) /\ Len(e) = 4 * m
    BY EncodedLine
  <1>3. e[4 * m] \notin White
    <2>1. m - 1 \in 0 .. m - 1 /\ 3 \in 0 .. 3 /\ 4 * m = 4 * (m - 1) + 3 + 1
      BY <1>1, SMT
    <2> QED BY <2>1, EncodedPlace, Zenon
  <1> HIDE DEF e, m
  <1>4. ReadLine(e) = [j \in 1 .. Len(s) |-> DecodedByte(e, (j - 1) \div 3, (j - 1) % 3)]
    BY <1>1, <1>2, <1>3, ReadsValid
  <1>5. \A j \in 1 .. Len(s) : DecodedByte(e, (j - 1) \div 3, (j - 1) % 3) = s[j]
    <2>1. \A i \in 1 .. 4 * m : e[i] = base64_encode(s)[i] \/ e[i] = PAD
      BY DEF e
    <2>2. m =< Blocks(s)
      BY <1>1 DEF m
    <2> QED BY <1>1, <1>2, <2>1, <2>2, DecodesPrefix
  <1>6. s = [j \in 1 .. Len(s) |-> s[j]]
    OBVIOUS
  <1> QED BY <1>4, <1>5, <1>6 DEF e

\* A line of characters of the message's line, in their places, and padding
\* is refused or reads as a beginning of the message.
LEMMA ReadsPrefix ==
    ASSUME NEW s \in Seq(Octets), NEW m \in Nat \ {0}, m =< Blocks(s),
           NEW l \in Seq(Nat), Len(l) = 4 * m,
           \A i \in 1 .. 4 * m : l[i] = base64_encode(s)[i] \/ l[i] = PAD
    PROVE  ReadLine(l) = Refused \/ IsPrefix(ReadLine(l), s)
  <1>1. Blocks(s) \in Nat /\ Len(s) \in Nat
    BY BlocksFacts
  <1>2. l[4 * m] \notin White
    <2>1. m - 1 \in 0 .. Blocks(s) - 1 /\ 3 \in 0 .. 3 /\ 4 * m = 4 * (m - 1) + 3 + 1
          /\ 4 * m \in 1 .. 4 * m
      BY <1>1, SMT
    <2>2. base64_encode(s)[4 * m] \notin White
      BY <2>1, EncodedPlace, Zenon
    <2>3. l[4 * m] = base64_encode(s)[4 * m] \/ l[4 * m] = PAD
      BY <2>1
    <2> QED BY <2>2, <2>3, PadDecodes
  <1>3. CASE ValidBase64(l)
    <2> DEFINE d == [j \in 1 .. OutLen(l) |-> DecodedByte(l, (j - 1) \div 3, (j - 1) % 3)]
    <2>1. ReadLine(l) = d
      BY <1>2, <1>3, ReadsValid
    <2>2. \A j \in 1 .. OutLen(l) : /\ j \in 1 .. Len(s)
                                    /\ DecodedByte(l, (j - 1) \div 3, (j - 1) % 3) = s[j]
      BY <1>3, DecodesPrefix
    <2>3. OutLen(l) \in Nat \ {0}
      <3>1. PICK p \in 0 .. 2 : OutLen(l) = 3 * m - p
        BY <1>3, PaddingCount
      <3>2. \A q \in 0 .. 2 : 3 * m - q \in Nat \ {0}
        BY SMT
      <3> QED BY <3>1, <3>2
    <2>4. OutLen(l) =< Len(s)
      BY <2>2, <2>3, <1>1
    <2>5. d = [j \in 1 .. OutLen(l) |-> s[j]]
      BY <2>2
    <2> HIDE DEF d
    <2>6. Len(d) = OutLen(l) /\ SubSeq(d, 1, Len(d)) = SubSeq(s, 1, Len(d))
      BY <2>3, <2>4, <2>5
    <2> QED BY <2>1, <2>4, <2>6 DEF IsPrefix
  <1>4. CASE ~ValidBase64(l)
    BY <1>2, <1>4, ReadsValid
  <1> QED BY <1>3, <1>4

-----------------------------------------------------------------------------
(***************************************************************************)
(* The pieces in which chat_read takes a line.                             *)
(***************************************************************************)

\* A part of a sequence.
LEMMA Slice ==
    ASSUME NEW V, NEW s \in Seq(V), NEW i \in Nat, NEW z \in Nat, i =< z, z =< Len(s)
    PROVE  /\ SubSeq(s, i + 1, z) \in Seq(V) /\ Len(SubSeq(s, i + 1, z)) = z - i
           /\ \A k \in 1 .. z - i : SubSeq(s, i + 1, z)[k] = s[i + k]
  OBVIOUS

\* Of the line of a message, what is behind whole blocks is the line of an end
\* of the message.
LEMMA EncodedEnd ==
    ASSUME NEW s \in Seq(Octets), NEW m \in Nat, m < Blocks(s)
    PROVE  LET t == SubSeq(s, 3 * m + 1, Len(s))
           IN  /\ t \in Seq(Octets) /\ t # <<>>
               /\ SubSeq(base64_encode(s), 4 * m + 1, 4 * Blocks(s)) = base64_encode(t)
  <1> DEFINE t == SubSeq(s, 3 * m + 1, Len(s))
             e == base64_encode(s)
             n == Blocks(s)
             u == SubSeq(e, 4 * m + 1, 4 * n)
  <1>1. /\ n \in Nat /\ Len(s) \in Nat /\ 3 * n >= Len(s) /\ 3 * n =< Len(s) + 2
        /\ e \in Seq(Nat) /\ Len(e) = 4 * n
    BY BlocksFacts, EncodedLine
  <1>2. 3 * m < Len(s) /\ m < n
    <2>1. \A x, y, z \in Nat : x < y /\ 3 * y =< z + 2 => 3 * x < z
      BY SMT
    <2>2. m < n
      OBVIOUS
    <2>3. m \in Nat /\ n \in Nat /\ Len(s) \in Nat /\ 3 * n =< Len(s) + 2
      BY <1>1, Zenon
    <2> QED BY <2>1, <2>2, <2>3, Zenon
  <1>3. /\ t \in Seq(Octets) /\ Len(t) = Len(s) - 3 * m
        /\ \A i \in 1 .. Len(s) - 3 * m : t[i] = s[3 * m + i]
    <2>1. 3 * m \in Nat /\ 3 * m =< Len(s) /\ Len(s) =< Len(s)
      <3> HIDE DEF t, e, n, u
      <3>1. \A x, y \in Nat : 3 * x < y => 3 * x \in Nat /\ 3 * x =< y /\ y =< y
        BY SMT
      <3>2. m \in Nat /\ Len(s) \in Nat /\ 3 * m < Len(s)
        BY <1>1, <1>2, Zenon
      <3> QED BY <3>1, <3>2, Zenon
    <2>2. Len(s) \in Nat
      OBVIOUS
    <2> QED BY <2>1, <2>2, Slice
  <1>4. /\ u \in Seq(Nat) /\ Len(u) = 4 * n - 4 * m
        /\ \A i \in 1 .. 4 * n - 4 * m : u[i] = e[4 * m + i]
    <2>1. 4 * m \in Nat /\ 4 * n \in Nat /\ 4 * m =< 4 * n /\ 4 * n =< Len(e)
      BY <1>1, <1>2
    <2> HIDE DEF e, n
    <2> QED BY <2>1, <1>1, Slice
  <1> HIDE DEF t, e, n, u
  <1>5. Blocks(t) = n - m
    <2>1. Len(t) \in Nat /\ 3 * Blocks(t) >= Len(t) /\ 3 * Blocks(t) =< Len(t) + 2 /\ Blocks(t) \in Nat
      BY <1>3, BlocksFacts
    <2>2. Len(t) = Len(s) - 3 * m
      BY <1>3
    <2>3. \A b, c, d, k \in Nat :
             (3 * c >= d /\ 3 * c =< d + 2 /\ 3 * b >= d - 3 * k /\ 3 * b =< (d - 3 * k) + 2)
             => b = c - k
      BY SMT
    <2>4. 3 * Blocks(t) >= Len(s) - 3 * m /\ 3 * Blocks(t) =< (Len(s) - 3 * m) + 2
      BY <2>1, <2>2, Zenon
    <2>5. /\ Blocks(t) \in Nat /\ n \in Nat /\ Len(s) \in Nat /\ m \in Nat
          /\ 3 * n >= Len(s) /\ 3 * n =< Len(s) + 2
      BY <1>1, <2>1
    <2> QED BY <2>3, <2>4, <2>5, Zenon
  <1>6. base64_encode(t) \in Seq(Nat) /\ Len(base64_encode(t)) = 4 * n - 4 * m
    <2>1. base64_encode(t) \in Seq(Nat) /\ Len(base64_encode(t)) = 4 * Blocks(t)
      BY <1>3, EncodedLine
    <2> QED BY <1>1, <1>2, <1>5, <2>1
  <1>7. ASSUME NEW i \in Nat \ {0} PROVE ByteAt(t, i) = ByteAt(s, 3 * m + i)
    <2>1. CASE i =< Len(t)
      <3>1. t[i] = s[3 * m + i] /\ 3 * m + i =< Len(s)
        BY <1>1, <1>2, <1>3, <2>1
      <3> QED BY <2>1, <3>1 DEF ByteAt
    <2>2. CASE ~(i =< Len(t))
      <3>1. ~(3 * m + i =< Len(s))
        BY <1>1, <1>2, <1>3, <2>2
      <3> QED BY <2>2, <3>1 DEF ByteAt
    <2> QED BY <2>1, <2>2
  <1>8. ASSUME NEW b \in Nat, NEW k \in 0 .. 3 PROVE Sextet(t, b, k) = Sextet(s, m + b, k)
    <2>1. /\ 3 * b + 1 \in Nat \ {0} /\ 3 * b + 2 \in Nat \ {0} /\ 3 * b + 3 \in Nat \ {0}
          /\ 3 * (m + b) + 1 = 3 * m + (3 * b + 1)
          /\ 3 * (m + b) + 2 = 3 * m + (3 * b + 2)
          /\ 3 * (m + b) + 3 = 3 * m + (3 * b + 3)
      OBVIOUS
    <2>2. /\ ByteAt(t, 3 * b + 1) = ByteAt(s, 3 * (m + b) + 1)
          /\ ByteAt(t, 3 * b + 2) = ByteAt(s, 3 * (m + b) + 2)
          /\ ByteAt(t, 3 * b + 3) = ByteAt(s, 3 * (m + b) + 3)
      <3>1. ByteAt(t, 3 * b + 1) = ByteAt(s, 3 * m + (3 * b + 1))
        BY <1>7, <2>1
      <3>2. ByteAt(t, 3 * b + 2) = ByteAt(s, 3 * m + (3 * b + 2))
        BY <1>7, <2>1
      <3>3. ByteAt(t, 3 * b + 3) = ByteAt(s, 3 * m + (3 * b + 3))
        BY <1>7, <2>1
      <3> QED BY <2>1, <3>1, <3>2, <3>3
    <2> QED BY <2>2, Zenon DEF Sextet
  <1>9. ASSUME NEW i \in 1 .. 4 * n - 4 * m PROVE u[i] = base64_encode(t)[i]
    <2>1. n - m \in Nat /\ i \in 1 .. 4 * (n - m)
      BY <1>1, <1>2
    <2>2. PICK b \in 0 .. (n - m) - 1, k \in 0 .. 3 : i = 4 * b + k + 1
      <3> HIDE DEF n
      <3> QED BY <2>1, PlaceOf
    <2>3. b \in Nat /\ b \in 0 .. Blocks(t) - 1 /\ m + b \in 0 .. n - 1
      BY <1>1, <1>2, <1>5, <2>1
    <2>4. base64_encode(t)[4 * b + k + 1] =
             IF 3 * b + k > Len(t) THEN PAD ELSE encode_table[Sextet(t, b, k)]
      BY <1>3, <2>3, EncodedChar
    <2>5. e[4 * (m + b) + k + 1] =
             IF 3 * (m + b) + k > Len(s) THEN PAD ELSE encode_table[Sextet(s, m + b, k)]
      BY <2>3, EncodedChar DEF e, n
    <2>6. 4 * (m + b) + k + 1 = 4 * m + i /\ (3 * (m + b) + k > Len(s) <=> 3 * b + k > Len(t))
      <3>1. 4 * (m + b) + k + 1 = 4 * m + i
        BY <2>2, <2>3
      <3>2. \A x, y, z, w \in Nat : 3 * (x + y) + z > w <=> 3 * y + z > w - 3 * x
        BY SMT
      <3>3. Len(t) = Len(s) - 3 * m /\ Len(s) \in Nat
        BY <1>1, <1>3
      <3>4. 3 * (m + b) + k > Len(s) <=> 3 * b + k > Len(s) - 3 * m
        <4>1. m \in Nat /\ b \in Nat /\ k \in Nat
          BY <2>3
        <4> QED BY <3>2, <3>3, <4>1, Zenon
      <3> QED BY <3>1, <3>3, <3>4, Zenon
    <2>7. Sextet(t, b, k) = Sextet(s, m + b, k)
      BY <1>8, <2>3
    <2>8. u[i] = e[4 * m + i]
      BY <1>4
    <2>9. e[4 * m + i] = base64_encode(t)[i]
      BY <2>2, <2>4, <2>5, <2>6, <2>7, Zenon
    <2> QED BY <2>8, <2>9
  <1>10. u = base64_encode(t)
    <2>1. /\ u = [i \in 1 .. 4 * n - 4 * m |-> u[i]]
          /\ base64_encode(t) = [i \in 1 .. 4 * n - 4 * m |-> base64_encode(t)[i]]
      BY <1>4, <1>6
    <2> QED BY <1>9, <2>1
  <1>11. t # <<>>
    BY <1>1, <1>2, <1>3
  <1> QED BY <1>3, <1>10, <1>11 DEF t, u, e, n

LEMMA EndIsSuffix ==
    ASSUME NEW s \in Seq(Octets), NEW m \in Nat, m < Len(s)
    PROVE  IsSuffix(SubSeq(s, m + 1, Len(s)), s)
  <1> DEFINE t == SubSeq(s, m + 1, Len(s))
             n == Len(s)
             q == Reverse(t)
             p == Reverse(s)
  <1>1. /\ n \in Nat /\ Len(t) = n - m
        /\ \A i \in 1 .. n - m : t[i] = s[m + i]
    OBVIOUS
  <1> HIDE DEF t, n
  <1>2. q = [i \in 1 .. n - m |-> t[((n - m) - i) + 1]] /\ p = [i \in 1 .. n |-> s[(n - i) + 1]]
    BY <1>1 DEF Reverse, n
  <1>3. \A i \in 1 .. n - m : q[i] = p[i]
    <2> TAKE i \in 1 .. n - m
    <2>1. /\ ((n - m) - i) + 1 \in 1 .. n - m /\ m + (((n - m) - i) + 1) = (n - i) + 1 /\ i \in 1 .. n
      BY <1>1 DEF n
    <2> HIDE DEF q, p
    <2> QED BY <1>1, <1>2, <2>1
  <1>4. /\ n - m \in Nat /\ n - m =< n /\ Len(q) = n - m /\ Len(p) = n
        /\ DOMAIN q = 1 .. n - m /\ DOMAIN p = 1 .. n
    <2>1. n - m \in Nat /\ n - m =< n
      BY <1>1 DEF n
    <2> QED BY <1>1, <1>2, <2>1
  <1> HIDE DEF q, p
  <1>5. SubSeq(q, 1, n - m) = SubSeq(p, 1, n - m)
    <2>1. q \in Seq(Octets) /\ p \in Seq(Octets)
      <3>1. q = [i \in 1 .. n - m |-> q[i]] /\ p = [i \in 1 .. n |-> p[i]]
        BY <1>2, <1>4
      <3>2. \A i \in 1 .. n : p[i] \in Octets
        <4> TAKE i \in 1 .. n
        <4>1. (n - i) + 1 \in 1 .. n
          BY <1>1
        <4>2. s[(n - i) + 1] \in Octets
          BY <4>1, ElementOf DEF n
        <4> QED BY <4>2, <1>2
      <3>3. \A i \in 1 .. n - m : q[i] \in Octets
        <4> TAKE i \in 1 .. n - m
        <4>1. i \in 1 .. n
          BY <1>1, <1>4
        <4> QED BY <4>1, <3>2, <1>3
      <3>4. q \in Seq(Octets)
        <4>1. [i \in 1 .. n - m |-> q[i]] \in Seq(Octets)
          BY <1>4, <3>3
        <4> QED BY <4>1, <3>1
      <3>5. p \in Seq(Octets)
        <4>1. [i \in 1 .. n |-> p[i]] \in Seq(Octets)
          BY <1>1, <3>2
        <4> QED BY <4>1, <3>1
      <3> QED BY <3>4, <3>5
    <2>2. /\ SubSeq(q, 1, n - m) = [i \in 1 .. n - m |-> q[i]]
          /\ SubSeq(p, 1, n - m) = [i \in 1 .. n - m |-> p[i]]
      BY <2>1, <1>4
    <2> QED BY <1>3, <2>2
  <1>6. Len(q) =< Len(p) /\ SubSeq(q, 1, Len(q)) = SubSeq(p, 1, Len(q))
    BY <1>4, <1>5
  <1> QED BY <1>6 DEF IsSuffix, IsPrefix, q, p, t, n

\* The characters of a piece of the buffer's width.
Width == LINE_BUF - 1

LEMMA WidthIs == Width \in Nat \ {0} /\ Width % 4 = 3
  BY Base64Assumption DEF Width

\* A line that fits the buffer is its only piece.
LEMMA PieceOne ==
    ASSUME NEW l \in Seq(Nat), l # <<>>, Len(l) < LINE_BUF
    PROVE  Pieces(l) = {l}
  <1> DEFINE K == {i \in 0 .. Len(l) : i * (LINE_BUF - 1) < Len(l)}
  <1>1. Len(l) \in Nat \ {0} /\ LINE_BUF \in Nat \ {0}
    BY Base64Assumption
  <1>2. ASSUME NEW k \in K PROVE k = 0
    <2>1. k \in Nat /\ k * (LINE_BUF - 1) < Len(l)
      BY <1>1
    <2> SUFFICES ASSUME k > 0 PROVE FALSE
      BY <2>1
    <2>2. k * (LINE_BUF - 1) = (k - 1) * (LINE_BUF - 1) + (LINE_BUF - 1)
      BY <1>1, <2>1
    <2>3. (k - 1) * (LINE_BUF - 1) >= 0
      <3>1. k - 1 \in Nat /\ LINE_BUF - 1 \in Nat
        BY <1>1, <2>1
      <3>2. \A x, y \in Nat : x * y >= 0
        BY SMT
      <3> QED BY <3>1, <3>2
    <2>4. (k - 1) * (LINE_BUF - 1) \in Int
      BY <1>1, <2>1
    <2> HIDE DEF K
    <2> QED BY <1>1, <2>1, <2>2, <2>3, <2>4
  <1>3. 0 \in K
    <2>1. 0 * (LINE_BUF - 1) = 0
      BY <1>1
    <2> QED BY <1>1, <2>1
  <1>4. K = {0}
    BY <1>2, <1>3
  <1> HIDE DEF K
  <1>5. Pieces(l) = {Piece(l, k) : k \in K}
    BY DEF Pieces, K
  <1>6. Piece(l, 0) = l
    <2>1. 0 * (LINE_BUF - 1) = 0
      BY <1>1
    <2>2. Piece(l, 0) = SubSeq(l, 0 + 1, IF Len(l) > 0 + LINE_BUF - 1 THEN 0 + LINE_BUF - 1 ELSE Len(l))
      BY <2>1 DEF Piece
    <2>3. ~(Len(l) > 0 + LINE_BUF - 1) /\ 0 + 1 = 1
      BY <1>1
    <2>4. Piece(l, 0) = SubSeq(l, 1, Len(l))
      BY <2>2, <2>3
    <2>5. SubSeq(l, 1, Len(l)) = l
      BY <1>1
    <2> QED BY <2>4, <2>5
  <1> QED BY <1>4, <1>5, <1>6

\* Any other line has pieces of the buffer's width, which are passed over, and
\* a last one.
LEMMA PieceIs ==
    ASSUME NEW l \in Seq(Nat), NEW p \in Pieces(l)
    PROVE  \E first \in Nat :
              /\ first < Len(l)
              /\ \/ Len(p) = Width /\ ReadLine(p) = Refused
                 \/ p = SubSeq(l, first + 1, Len(l))
              /\ p \in Seq(Nat) /\ p # <<>> /\ \A i \in 1 .. Len(p) : p[i] = l[first + i]
              /\ first + Len(p) =< Len(l)
  <1>1. PICK k \in 0 .. Len(l) : k * (LINE_BUF - 1) < Len(l) /\ p = Piece(l, k)
    BY DEF Pieces
  <1> DEFINE f == k * (LINE_BUF - 1)
             z == IF Len(l) > f + LINE_BUF - 1 THEN f + LINE_BUF - 1 ELSE Len(l)
  <1>2. Len(l) \in Nat /\ LINE_BUF \in Nat /\ Width = LINE_BUF - 1 /\ Width \in Nat \ {0}
    BY Base64Assumption, WidthIs DEF Width
  <1>3. f \in Nat /\ f < Len(l)
    <2>1. \A x, y \in Nat : x * y \in Nat
      BY SMT
    <2>2. k \in Nat /\ LINE_BUF - 1 \in Nat
      BY <1>2
    <2> QED BY <1>1, <2>1, <2>2
  <1>4. p = SubSeq(l, f + 1, z)
    BY <1>1 DEF Piece
  <1> HIDE DEF f
  <1>5. z \in Nat /\ f < z /\ z =< Len(l) /\ (z = f + Width \/ z = Len(l))
    BY <1>2, <1>3
  <1> HIDE DEF z
  <1>6. /\ p \in Seq(Nat) /\ Len(p) = z - f /\ \A i \in 1 .. z - f : p[i] = l[f + i]
    <2>1. f =< z
      BY <1>3, <1>5
    <2> QED BY <2>1, <1>3, <1>4, <1>5, Slice
  <1>7. p # <<>> /\ f + Len(p) =< Len(l) /\ \A i \in 1 .. Len(p) : p[i] = l[f + i]
    BY <1>3, <1>5, <1>6
  <1>8. CASE z = f + Width
    <2>1. Len(p) = Width
      BY <1>2, <1>3, <1>6, <1>8
    <2>2. Len(p) % 4 # 0
      BY <2>1, WidthIs
    <2>3. ReadLine(p) = Refused
      BY <2>2 DEF ReadLine
    <2> QED BY <1>3, <1>6, <1>7, <2>1, <2>3
  <1>9. CASE z = Len(l)
    BY <1>3, <1>4, <1>6, <1>7, <1>9
  <1> QED BY <1>5, <1>8, <1>9

\* What chat_read makes of an undamaged line is an end of the message.
LEMMA ReadsEnd ==
    ASSUME NEW s \in Seq(Octets), NEW m \in chat_read(base64_encode(s))
    PROVE  IsSuffix(m, s)
  <1> DEFINE e == base64_encode(s)
             n == Blocks(s)
  <1>1. e \in Seq(Nat) /\ Len(e) = 4 * n /\ n \in Nat /\ Len(s) \in Nat /\ 3 * n =< Len(s) + 2
    BY BlocksFacts, EncodedLine
  <1>2. PICK p \in Pieces(e) : m = ReadLine(p) /\ m # Refused
    BY DEF chat_read
  <1> HIDE DEF e
  <1>3. PICK f \in Nat : f < Len(e) /\ (ReadLine(p) = Refused \/ p = SubSeq(e, f + 1, Len(e)))
    BY <1>1, <1>2, PieceIs
  <1>4. p = SubSeq(e, f + 1, 4 * n)
    BY <1>1, <1>2, <1>3
  <1>5. Len(p) = 4 * n - f /\ f < 4 * n
    BY <1>1, <1>3, <1>4
  <1>6. Len(p) % 4 = 0
    BY <1>2 DEF ReadLine
  <1>7. PICK b \in Nat : f = 4 * b /\ b < n
    <2> HIDE DEF n
    <2>1. f = 4 * (f \div 4) /\ f \div 4 \in Nat /\ f \div 4 < n
      BY <1>1, <1>5, <1>6, SMT
    <2> QED BY <2>1
  <1> DEFINE t == SubSeq(s, 3 * b + 1, Len(s))
  <1>8. t \in Seq(Octets) /\ t # <<>> /\ p = base64_encode(t)
    BY <1>4, <1>7, EncodedEnd DEF e
  <1>9. m = t
    <2> HIDE DEF t
    <2> QED BY <1>2, <1>8, ReadsBack
  <1>10. 3 * b \in Nat /\ 3 * b < Len(s)
    BY <1>1, <1>7
  <1>11. IsSuffix(t, s)
    BY <1>10, EndIsSuffix
  <1> QED BY <1>9, <1>11

-----------------------------------------------------------------------------
(***************************************************************************)
(* The line of the file.                                                   *)
(***************************************************************************)

\* Of line e, something foreign stands in l.
Foreign(l, e) == \E i \in 1 .. Len(e), c \in {PAD, SPACE, 45, 255} : l = [e EXCEPT ![i] = c]

\* What became of the line.
LineInv ==
    /\ raw \in Seq(RawBytes)
    /\ damage \in {"none", "cut", "foreign", "blank"}
    /\ damage = "none" => line = base64_encode(raw)
    /\ damage = "cut" => \E n \in 1 .. Len(base64_encode(raw)) - 1 :
                            line = SubSeq(base64_encode(raw), 1, n)
    /\ damage = "foreign" => Foreign(line, base64_encode(raw))
    /\ damage = "blank" => /\ line \in Seq(Nat) /\ line # <<>>
                           /\ line = [i \in 1 .. Len(line) |-> SPACE]

LEMMA RawTyped ==
    ASSUME NEW s \in Seq(RawBytes)
    PROVE  s \in Seq(Octets)
  <1>1. \A i \in 1 .. Len(s) : s[i] \in Octets
    <2> TAKE i \in 1 .. Len(s)
    <2>1. s[i] \in RawBytes
      BY ElementOf
    <2>2. \A x \in RawBytes : x \in 1 .. 255
      BY Base64Assumption
    <2>3. \A x \in 1 .. 255 : x \in Octets
      BY DEF Octets
    <2> QED BY <2>1, <2>2, <2>3
  <1>2. s = [i \in 1 .. Len(s) |-> s[i]] /\ Len(s) \in Nat
    OBVIOUS
  <1> QED BY <1>1, <1>2

LEMMA LineInvInit == B64Init => LineInv
  <1> SUFFICES ASSUME B64Init PROVE LineInv
    OBVIOUS
  <1>1. raw \in Seq(RawBytes) /\ raw \in Seq(Octets) /\ Len(raw) = 0
    BY DEF B64Init
  <1>2. base64_encode(raw) \in Seq(Nat) /\ Len(base64_encode(raw)) = 4 * Blocks(raw)
    BY <1>1, EncodedLine
  <1>3. Blocks(raw) = 0
    BY <1>1 DEF Blocks
  <1>4. base64_encode(raw) = <<>>
    BY <1>2, <1>3
  <1> QED BY <1>1, <1>4 DEF B64Init, LineInv

LEMMA LineInvStep == LineInv /\ [B64Next]_b64vars => LineInv'
  <1> SUFFICES ASSUME LineInv, [B64Next]_b64vars PROVE LineInv'
    OBVIOUS
  <1>1. CASE UNCHANGED b64vars
    BY <1>1 DEF b64vars, LineInv
  <1>2. ASSUME NEW s \in Raws, EncodeLine(s) PROVE LineInv'
    BY <1>2, Base64Assumption DEF EncodeLine, LineInv
  <1>3. CASE CutLine
    BY <1>3 DEF CutLine, LineInv
  <1>4. CASE SpoilLine
    <2>1. line = base64_encode(raw) /\ raw' = raw /\ damage' = "foreign" /\ raw \in Seq(RawBytes)
      BY <1>4 DEF SpoilLine, LineInv
    <2>2. Foreign(line', line)
      BY <1>4 DEF SpoilLine, Foreign
    <2>3. Foreign(line', base64_encode(raw'))
      BY <2>1, <2>2, Zenon
    <2> QED BY <2>1, <2>3, Zenon DEF LineInv
  <1>5. CASE BlankLine
    <2>1. raw \in Seq(Octets)
      BY RawTyped DEF LineInv
    <2>2. line = base64_encode(raw)
      BY <1>5 DEF BlankLine, LineInv
    <2>3. line \in Seq(Nat) /\ line # <<>>
      BY <2>1, <2>2, <1>5, EncodedLine DEF BlankLine
    <2>4. Len(line) \in Nat \ {0}
      BY <2>3
    <2>5. line' = [i \in 1 .. Len(line) |-> SPACE] /\ Len(line') = Len(line) /\ line' # <<>>
      BY <2>4, <1>5 DEF BlankLine
    <2>6. line' \in Seq(Nat)
      <3>1. SPACE \in Nat
        BY DEF SPACE
      <3> QED BY <3>1, <2>4, <2>5
    <2> QED BY <2>5, <2>6, <1>5 DEF BlankLine, LineInv
  <1> QED BY <1>1, <1>2, <1>3, <1>4, <1>5 DEF B64Next

\* What decoding makes of the line as one piece.
WholeReads ==
    /\ line \in Seq(Nat)
    /\ IF damage = "none" THEN ReadLine(line) = raw
       ELSE ReadLine(line) = Refused \/ (damage # "blank" /\ IsPrefix(ReadLine(line), raw))

LEMMA LineInvReads ==
    ASSUME LineInv, line # <<>>
    PROVE  WholeReads
  <1> DEFINE e == base64_encode(raw)
             n == Blocks(raw)
  <1>1. raw \in Seq(Octets)
    BY RawTyped DEF LineInv
  <1>2. e \in Seq(Nat) /\ Len(e) = 4 * n
    BY <1>1, EncodedLine
  <1>3. n \in Nat /\ 3 * n =< Len(raw) + 2 /\ 3 * n >= Len(raw) /\ Len(raw) \in Nat
    BY <1>1, BlocksFacts
  <1>4. CASE damage = "none"
    <2>1. line = e
      BY <1>4 DEF LineInv
    <2>2. raw # <<>>
      BY <2>1, <1>2, <1>3 DEF Blocks
    <2> HIDE DEF e
    <2>3. ReadLine(e) = raw
      BY <2>2, <1>1, ReadsBack DEF e
    <2> QED BY <1>2, <1>4, <2>1, <2>3 DEF WholeReads
  <1> HIDE DEF e, n
  <1>5. CASE damage = "cut"
    <2>1. PICK k \in 1 .. Len(e) - 1 : line = SubSeq(e, 1, k)
      BY <1>5 DEF LineInv, e
    <2>2. /\ line \in Seq(Nat) /\ Len(line) = k
          /\ \A i \in 1 .. k : line[i] = e[i]
      BY <2>1, <1>2
    <2>3. CASE k % 4 # 0
      BY <2>2, <2>3, <1>5 DEF ReadLine, WholeReads
    <2>4. CASE k % 4 = 0
      <3>1. PICK m \in Nat \ {0} : k = 4 * m /\ m =< n
        <4>1. k = 4 * (k \div 4) /\ k \div 4 \in Nat \ {0} /\ k \div 4 =< n
          BY <2>4, <1>2, <1>3, SMT
        <4> QED BY <4>1
      <3>2. ReadLine(line) = Refused \/ IsPrefix(ReadLine(line), raw)
        BY <3>1, <2>2, <1>1, ReadsPrefix DEF e, n
      <3> QED BY <3>2, <2>2, <1>5 DEF WholeReads
    <2> QED BY <2>3, <2>4
  <1>6. CASE damage = "foreign"
    <2>1. PICK i \in 1 .. Len(e), c \in {PAD, SPACE, 45, 255} : line = [e EXCEPT ![i] = c]
      <3>1. Foreign(line, e)
        BY <1>6 DEF LineInv, e
      <3> QED BY <3>1 DEF Foreign
    <2>2. c \in Nat
      BY DEF PAD, SPACE
    <2>3. /\ line \in Seq(Nat) /\ Len(line) = 4 * n /\ line[i] = c
          /\ \A k \in 1 .. 4 * n : k # i => line[k] = e[k]
      BY <2>1, <2>2, <1>2
    <2>4. n \in Nat \ {0} /\ i \in 1 .. 4 * n
      BY <1>2, <1>3
    <2>5. \A k \in 1 .. 4 * n : e[k] \notin White
      BY <1>1, EncodedNotWhite DEF e, n
    <2>6. CASE c = PAD
      <3>1. \A k \in 1 .. 4 * n : line[k] = e[k] \/ line[k] = PAD
        BY <2>3, <2>6
      <3>2. n =< Blocks(raw)
        BY <1>3 DEF n
      <3>3. ReadLine(line) = Refused \/ IsPrefix(ReadLine(line), raw)
        <4>1. \A k \in 1 .. 4 * n : line[k] = base64_encode(raw)[k] \/ line[k] = PAD
          BY <3>1 DEF e
        <4> QED BY <4>1, <3>2, <2>3, <2>4, <1>1, ReadsPrefix
      <3> QED BY <3>3, <2>3, <1>6 DEF WholeReads
    <2>7. CASE c # PAD /\ (c # SPACE \/ i # 4 * n)
      <3>1. ~base64_is_valid_char(c) /\ (c # SPACE => c \notin White)
        BY <2>7 DEF base64_is_valid_char, White, SPACE, PAD
      <3>2. ~ValidBase64(line)
        BY <3>1, <2>3, <2>4 DEF ValidBase64
      <3>3. 4 * n \in 1 .. 4 * n
        BY <2>4
      <3>4. line[4 * n] \notin White
        BY <3>1, <3>3, <2>3, <2>5, <2>7
      <3>5. ReadLine(line) = Refused
        BY <3>2, <3>4, <2>3, <2>4, ReadsValid
      <3> QED BY <3>5, <2>3, <1>6 DEF WholeReads
    <2>8. CASE c = SPACE /\ i = 4 * n
      <3>1. 4 * n - 1 \in 1 .. 4 * n /\ 4 * n - 1 # i
        BY <2>4, <2>8, SMT
      <3>2. line[4 * n] \in White /\ line[4 * n - 1] \notin White
        BY <3>1, <2>3, <2>5, <2>8 DEF White
      <3>3. Stripped(line) # <<>> /\ ~ValidBase64(Stripped(line))
        BY <3>2, <2>3, <2>4, StrippedOne
      <3>4. base64_decode(line, base64_decoded_size(Len(line))) = Refused
        BY <3>3 DEF base64_decode
      <3>5. ReadLine(line) = Refused
        BY <3>4 DEF ReadLine
      <3> QED BY <3>5, <2>3, <1>6 DEF WholeReads
    <2> QED BY <2>6, <2>7, <2>8
  <1>7. CASE damage = "blank"
    <2>1. line = [i \in 1 .. Len(line) |-> SPACE]
      BY <1>7 DEF LineInv
    <2>2. DOMAIN line = 1 .. Len(line)
      BY <2>1, Zenon
    <2>4. DOMAIN line # {}
      BY <2>1
    <2>3. Range(line) = {SPACE}
      BY <2>1, <2>2, <2>4 DEF Range
    <2>5. ReadLine(line) = Refused
      BY <2>3 DEF ReadLine
    <2> QED BY <2>5, <1>7, Zenon DEF LineInv, WholeReads
  <1> QED BY <1>4, <1>5, <1>6, <1>7 DEF LineInv

\* A blanked line is blank in each piece.
LEMMA BlankReads ==
    ASSUME LineInv, damage = "blank"
    PROVE  chat_read(line) = {}
  <1>1. line # <<>> /\ line = [i \in 1 .. Len(line) |-> SPACE]
    BY DEF LineInv
  <1>2. WholeReads
    BY <1>1, LineInvReads
  <1>3. line \in Seq(Nat)
    BY <1>2 DEF WholeReads
  <1>4. ASSUME NEW p \in Pieces(line) PROVE ReadLine(p) = Refused
    <2>1. PICK f \in Nat : /\ p \in Seq(Nat) /\ p # <<>> /\ f + Len(p) =< Len(line)
                            /\ \A i \in 1 .. Len(p) : p[i] = line[f + i]
      BY <1>3, PieceIs
    <2>2. Len(p) \in Nat \ {0} /\ DOMAIN p = 1 .. Len(p) /\ Len(line) \in Nat
      BY <1>3, <2>1
    <2>3. \A i \in 1 .. Len(p) : f + i \in 1 .. Len(line)
      BY <2>1, <2>2
    <2>4. \A i \in 1 .. Len(line) : line[i] = SPACE
      BY <1>1
    <2>5. \A i \in 1 .. Len(p) : p[i] = SPACE
      BY <2>1, <2>3, <2>4
    <2>6. 1 \in 1 .. Len(p)
      BY <2>2
    <2>7. Range(p) = {SPACE}
      BY <2>2, <2>5, <2>6 DEF Range
    <2> QED BY <2>7 DEF ReadLine
  <1> QED BY <1>4, Zenon DEF chat_read

LEMMA LineInvSound == LineInv => LineReadsBack
  <1> SUFFICES ASSUME LineInv, line # <<>> PROVE LineReadsBack
    BY DEF LineReadsBack
  <1>1. WholeReads /\ raw \in Seq(Octets)
    BY LineInvReads, RawTyped DEF LineInv
  <1>2. damage = "blank" => chat_read(line) = {}
    BY BlankReads
  <1>3. ASSUME damage = "none" PROVE \A m \in chat_read(line) : IsSuffix(m, raw)
    <2>1. line = base64_encode(raw)
      BY <1>3 DEF LineInv
    <2> QED BY <1>1, <2>1, ReadsEnd
  <1>4. ASSUME Len(line) < LINE_BUF PROVE chat_read(line) = {ReadLine(line)} \ {Refused}
    <2>1. Pieces(line) = {line}
      BY <1>1, <1>4, PieceOne DEF WholeReads
    <2> QED BY <2>1 DEF chat_read
  <1>5. raw # Refused /\ IsPrefix(raw, raw)
    <2>1. \A i \in 1 .. Len(raw) : raw[i] \in Octets
      BY <1>1, ElementOf
    <2>2. Refused = <<-1>> /\ Len(<<-1>>) = 1 /\ <<-1>>[1] = -1 /\ -1 \notin Octets
      BY DEF Refused, Octets
    <2>3. raw # Refused
      BY <2>1, <2>2
    <2>4. IsPrefix(raw, raw)
      BY <1>1 DEF IsPrefix
    <2> QED BY <2>3, <2>4
  <1>6. ASSUME Len(line) < LINE_BUF, damage = "none" PROVE chat_read(line) = {raw}
    <2>1. ReadLine(line) = raw
      BY <1>1, <1>6 DEF WholeReads
    <2> QED BY <1>4, <1>5, <1>6, <2>1
  <1>7. ASSUME Len(line) < LINE_BUF, NEW m \in chat_read(line) PROVE IsPrefix(m, raw)
    <2>1. m = ReadLine(line) /\ m # Refused
      BY <1>4, <1>7
    <2> QED BY <1>1, <1>5, <2>1 DEF WholeReads
  <1> QED BY <1>2, <1>3, <1>6, <1>7 DEF LineReadsBack

\* A message of any bytes whose line fits the buffer of chat_read is read back
\* as it was sent, and such a line that was cut, in which something foreign
\* stands or that was blanked reads as a beginning of the message or as
\* nothing; a longer line reads as an end of the message or as nothing.
THEOREM LineReadsBackTheorem == B64Spec => []LineReadsBack
  BY LineInvInit, LineInvStep, LineInvSound, PTL DEF B64Spec

-----------------------------------------------------------------------------
(***************************************************************************)
(* The list of messages and its editor: the cursor, the marks, the file    *)
(* and the mode of the terminal.                                           *)
(***************************************************************************)
Entries == [pos : Nat, was : BOOLEAN]

CTypeOK ==
    /\ file \in Seq(Int) /\ backup \in Seq(Int) /\ sending \in Seq(Int) /\ list \in Seq(Int)
    /\ taken \subseteq Int /\ posted \in Nat /\ flags \subseteq Nat
    /\ browsing \in BOOLEAN /\ dirty \in BOOLEAN /\ overflow \in BOOLEAN
    /\ stage \in {"keys", "viewing", "create", "send", "reload", "gone"}
    /\ cur \in Nat /\ scroll_top \in Nat \ {0} /\ height \in Nat \ {0}
    /\ undo \in Seq(Entries) /\ redo \in Seq(Entries)
    /\ next \in Nat \ {0} /\ keys \in Nat /\ editfaults \in Nat
    /\ writes \in {"never", "first", "done", "again"}

\* Every flagged position has an entry, and an entry that says its position was
\* flagged comes after another of this position.
UnwoundInv ==
    /\ \A p \in flags : \E i \in 1 .. Len(undo) : undo[i].pos = p
    /\ \A i \in 1 .. Len(undo) :
          undo[i].was => \E j \in 1 .. i - 1 : undo[j].pos = undo[i].pos

MarksInv ==
    /\ Len(undo) =< MAX_UNDO
    /\ \A i \in 1 .. Len(undo) : undo[i].pos \in 1 .. Count
    /\ \A i \in 1 .. Len(redo) : redo[i].pos \in 1 .. Count
    /\ writes \in {"never", "first"} =>
          (~overflow => UnwoundInv) /\ (flags # {} => dirty) /\ flags \subseteq 1 .. Count

\* The messages of the positions in S are in the file or in an archive, and
\* stay there when a sender writes what it has read.
HeldBy(S, s) == \A p \in S : list[p] \in Range(s) \cup taken
Safe(S) == HeldBy(S, file) /\ (sending # NoSender => HeldBy(S, sending))

\* Until the first write everything is in the file; from the backup on in the
\* backup; what is sent again is in the file again.
StoreInv ==
    /\ writes = "never" =>
          /\ stage \notin {"create", "send", "reload"}
          /\ sending \in {NoSender, file} /\ Safe(1 .. Count)
    /\ writes = "first" =>
          /\ stage # "reload"
          /\ stage \in {"create", "send"} => HeldBy(1 .. Count, backup)
          /\ stage = "create" => /\ next = 1
                                 /\ file # Absent => HeldBy(1 .. Count, file)
                                 /\ sending # NoSender => HeldBy(1 .. Count, sending)
          /\ stage = "send" => Safe({p \in 1 .. next - 1 : p =< Count /\ p \notin flags})
          /\ HeldBy(1 .. Count, backup) \/ Safe(1 .. Count)
    /\ writes = "done" =>
          /\ stage \notin {"create", "send"}
          /\ stage = "reload" => Safe(Unflagged(1))

\* Without a failure the terminal is raw while keys are read.
ModeInv ==
    editfaults = 0 =>
        /\ orig = "cooked"
        /\ stage = "viewing" => mode = "cooked"
        /\ stage = "gone" => mode = "cooked" \/ ReadsOutside(TRUE) \/ ReadsOutside(FALSE)
        /\ stage \notin {"viewing", "gone"} => mode = "raw"

CInv ==
    /\ CTypeOK /\ CursorOnMessage
    /\ browsing => flags = {} /\ undo = <<>> /\ redo = <<>> /\ writes = "never"
    /\ MarksInv
    /\ StoreInv /\ ModeInv

\* The greater and the smaller of two numbers.
LEMMA TwoNumbers ==
    ASSUME NEW a \in Int, NEW b \in Int
    PROVE  /\ Max({a, b}) = IF a >= b THEN a ELSE b
           /\ Min({a, b}) = IF a =< b THEN a ELSE b
  <1>1. \A x \in {a, b} : (\A y \in {a, b} : x >= y) => x = IF a >= b THEN a ELSE b
    OBVIOUS
  <1>2. \A x \in {a, b} : (\A y \in {a, b} : x =< y) => x = IF a =< b THEN a ELSE b
    OBVIOUS
  <1>3. \E x \in {a, b} : \A y \in {a, b} : x >= y
    OBVIOUS
  <1>4. \E x \in {a, b} : \A y \in {a, b} : x =< y
    OBVIOUS
  <1>5. Max({a, b}) = CHOOSE x \in {a, b} : \A y \in {a, b} : x >= y
    BY DEF Max
  <1>6. Min({a, b}) = CHOOSE x \in {a, b} : \A y \in {a, b} : x =< y
    BY DEF Min
  <1>7. Max({a, b}) = IF a >= b THEN a ELSE b
    BY <1>1, <1>3, <1>5
  <1>8. Min({a, b}) = IF a =< b THEN a ELSE b
    BY <1>2, <1>4, <1>6
  <1> QED BY <1>7, <1>8

\* The least and the greatest of some positions of a list.
LEMMA EndsOf ==
    ASSUME NEW n \in Nat, NEW S \in SUBSET (1 .. n), S # {}
    PROVE  /\ Min(S) \in S /\ \A y \in S : Min(S) =< y
           /\ Max(S) \in S /\ \A y \in S : Max(S) >= y
  <1>1. \E x \in S : \A y \in S : x =< y
    <2>1. S \in SUBSET Nat
      OBVIOUS
    <2> QED BY <2>1, LeastNatural
  <1>2. \E x \in S : \A y \in S : x >= y
    <2> DEFINE R == {n - y : y \in S}
    <2>1. R \in SUBSET Nat /\ R # {}
      <3>1. \A y \in S : y \in Int /\ n - y \in Nat
        OBVIOUS
      <3> QED BY <3>1, Zenon
    <2>2. PICK r \in R : \A q \in R : r =< q
      <3> HIDE DEF R
      <3> QED BY <2>1, LeastNatural
    <2>3. PICK x \in S : r = n - x
      BY <2>2
    <2>4. ASSUME NEW y \in S PROVE x >= y
      <3>1. n - y \in R
        OBVIOUS
      <3>2. r =< n - y
        BY <3>1, <2>2
      <3> QED BY <3>2, <2>3
    <2> QED BY <2>3, <2>4
  <1>3. Min(S) \in S /\ \A y \in S : Min(S) =< y
    BY <1>1, Zenon DEF Min
  <1>4. Max(S) \in S /\ \A y \in S : Max(S) >= y
    BY <1>2, Zenon DEF Max
  <1> QED BY <1>3, <1>4

\* The loop keeps the cursor in view.
LEMMA ScrolledShows ==
    ASSUME NEW c \in Nat, NEW t \in Nat \ {0}, NEW h \in Nat \ {0}
    PROVE  /\ Scrolled(c, t, h) \in Nat \ {0}
           /\ c >= 1 => Scrolled(c, t, h) \in 1 .. c /\ c < Scrolled(c, t, h) + h
  <1> DEFINE up == Min({t, c})
             x == IF c >= up + h THEN c - h + 1 ELSE up
  <1>1. up = IF t =< c THEN t ELSE c
    BY TwoNumbers
  <1> HIDE DEF up
  <1>2. x \in Int
    BY <1>1
  <1>3. Scrolled(c, t, h) = Max({1, x})
    BY DEF Scrolled, up
  <1>4. Max({1, x}) = IF 1 >= x THEN 1 ELSE x
    <2> HIDE DEF x
    <2> QED BY <1>2, TwoNumbers
  <1> QED BY <1>1, <1>3, <1>4

LEMMA ScrollKeeps ==
    ASSUME CTypeOK, NEW c \in Nat, NEW t \in Nat \ {0}, height' \in Nat \ {0},
           ScrollTo(c, t), Len(list') \in Nat, Len(list') > 0 => c \in 1 .. Len(list')
    PROVE  /\ cur' = c /\ cur' \in Nat /\ scroll_top' \in Nat \ {0}
           /\ CursorOnMessage'
  <1> DEFINE h == height'
             q == Scrolled(c, t, h)
             n == Len(list')
  <1>1. h \in Nat \ {0} /\ n \in Nat /\ (n > 0 => c \in 1 .. n)
    OBVIOUS
  <1>2. cur' = c /\ scroll_top' = q
    BY DEF ScrollTo
  <1>3. CursorOnMessage' <=> (n > 0 => cur' \in 1 .. n /\ scroll_top' \in 1 .. cur' /\ cur' < scroll_top' + h)
    BY DEF CursorOnMessage, Count
  <1> HIDE DEF h, n
  <1>4. q \in Nat \ {0} /\ (c >= 1 => q \in 1 .. c /\ c < q + h)
    BY <1>1, ScrolledShows
  <1> HIDE DEF q
  <1>5. n > 0 => c \in 1 .. n /\ q \in 1 .. c /\ c < q + h
    BY <1>1, <1>4
  <1> QED BY <1>2, <1>3, <1>4, <1>5

\* A search leaves the cursor or moves it to a message.
LEMMA SearchFinds ==
    ASSUME CTypeOK, CursorOnMessage, NEW P, NEW from \in Int
    PROVE  /\ search_forward(P, from) \in Nat /\ search_backward(P, from) \in Nat
           /\ Count > 0 => /\ search_forward(P, from) \in 1 .. Count
                           /\ search_backward(P, from) \in 1 .. Count
           /\ Count = 0 => search_forward(P, from) = cur /\ search_backward(P, from) = cur
  <1>1. Count \in Nat /\ cur \in Nat /\ (Count > 0 => cur \in 1 .. Count)
    BY DEF CTypeOK, Count, CursorOnMessage
  <1>2. Hits(P) \in SUBSET (1 .. Count)
    BY DEF Hits
  <1> DEFINE after == {p \in Hits(P) : p >= from}
             before == {p \in Hits(P) : p =< from}
             H == Hits(P)
  <1>3. after \in SUBSET (1 .. Count) /\ before \in SUBSET (1 .. Count)
    BY <1>2
  <1>4. /\ search_forward(P, from) = IF after # {} THEN Min(after) ELSE IF H # {} THEN Min(H) ELSE cur
        /\ search_backward(P, from) = IF before # {} THEN Max(before) ELSE IF H # {} THEN Max(H) ELSE cur
    BY DEF search_forward, search_backward
  <1> HIDE DEF after, before, H
  <1>5. after # {} => Min(after) \in 1 .. Count
    BY <1>1, <1>3, EndsOf
  <1>6. before # {} => Max(before) \in 1 .. Count
    BY <1>1, <1>3, EndsOf
  <1>7. H # {} => Min(H) \in 1 .. Count /\ Max(H) \in 1 .. Count
    BY <1>1, <1>2, EndsOf DEF H
  <1>8. Count = 0 => after = {} /\ before = {} /\ H = {}
    BY <1>2, <1>3 DEF H
  <1>9. \A x \in 1 .. Count : x \in Nat /\ Count > 0
    BY <1>1
  <1> HIDE DEF Count
  <1> QED BY <1>1, <1>4, <1>5, <1>6, <1>7, <1>8, <1>9

\* chat_send loses nothing: what it archives is taken.
LEMMA SentKeeps ==
    ASSUME NEW s \in Seq(Int), NEW m \in Int, taken \subseteq Int, Sent(s, m)
    PROVE  /\ file' \in Seq(Int) /\ taken' \subseteq Int
           /\ Range(s) \cup taken \cup {m} \subseteq Range(file') \cup taken'
           /\ taken \subseteq taken'
  <1> DEFINE t == Append(s, m)
  <1>1. t \in Seq(Int) /\ Len(t) = Len(s) + 1 /\ Len(s) \in Nat /\ t[Len(t)] = m
        /\ \A i \in 1 .. Len(s) : t[i] = s[i]
    OBVIOUS
  <1>2. /\ file' = IF Len(t) > ARCHIVE_AT THEN SubSeq(t, ARCHIVE_OFF + 1, Len(t)) ELSE t
        /\ taken' = IF Len(t) > ARCHIVE_AT
                       THEN taken \cup Range(SubSeq(t, 1, ARCHIVE_OFF)) ELSE taken
    BY DEF Sent
  <1>3. Range(s) \cup {m} \subseteq Range(t)
    <2>1. DOMAIN s = 1 .. Len(s) /\ DOMAIN t = 1 .. Len(t) /\ Len(t) \in 1 .. Len(t)
      BY <1>1
    <2>2. \A i \in 1 .. Len(s) : i \in 1 .. Len(t)
      BY <1>1
    <2> HIDE DEF t
    <2> QED BY <1>1, <2>1, <2>2, Zenon DEF Range
  <1> HIDE DEF t
  <1>4. CASE Len(t) > ARCHIVE_AT
    <2> DEFINE o == ARCHIVE_OFF
               x == SubSeq(t, o + 1, Len(t))
               y == SubSeq(t, 1, o)
    <2>1. o \in 1 .. Len(t) /\ o \in Nat
      BY <1>1, <1>4, ChatEditAssumption
    <2> HIDE DEF o
    <2>2. /\ x \in Seq(Int) /\ Len(x) = Len(t) - o /\ DOMAIN x = 1 .. Len(t) - o
          /\ \A i \in 1 .. Len(t) - o : x[i] = t[o + i]
      BY <1>1, <2>1
    <2>3. y \in Seq(Int) /\ Len(y) = o /\ DOMAIN y = 1 .. o /\ \A i \in 1 .. o : y[i] = t[i]
      BY <1>1, <2>1
    <2>4. ASSUME NEW i \in 1 .. Len(t) PROVE t[i] \in Range(x) \cup Range(y)
      <3>1. CASE i =< o
        <4>1. i \in 1 .. o /\ y[i] = t[i]
          BY <3>1, <2>1, <2>3
        <4> HIDE DEF x, y
        <4> QED BY <4>1, <2>3 DEF Range
      <3>2. CASE i > o
        <4>1. i - o \in 1 .. Len(t) - o /\ o + (i - o) = i
          BY <3>2, <2>1, <1>1
        <4>2. x[i - o] = t[i]
          BY <4>1, <2>2
        <4> HIDE DEF x, y
        <4> QED BY <4>1, <4>2, <2>2 DEF Range
      <3> QED BY <3>1, <3>2, <2>1
    <2> HIDE DEF x, y
    <2>5. Range(t) \subseteq Range(x) \cup Range(y)
      BY <2>4, <1>1 DEF Range
    <2>6. Range(y) \subseteq Int
      BY <2>3 DEF Range
    <2>7. file' = x /\ taken' = taken \cup Range(y)
      BY <1>2, <1>4 DEF x, y, o
    <2> QED BY <1>3, <2>2, <2>5, <2>6, <2>7
  <1>5. CASE ~(Len(t) > ARCHIVE_AT)
    BY <1>1, <1>2, <1>3, <1>5
  <1> QED BY <1>4, <1>5

\* Putting back every entry of the undo stack leaves no flag.
Unwinds(f) ==
    f = [n \in 0 .. Len(undo) |->
            IF n = 0 THEN flags
            ELSE LET e == undo[Len(undo) + 1 - n]
                 IN  IF e.was THEN f[n - 1] \cup {e.pos} ELSE f[n - 1] \ {e.pos}]

LEMMA UnwindsExists == CTypeOK => \E f : Unwinds(f)
  <1> SUFFICES ASSUME CTypeOK PROVE \E f : Unwinds(f)
    OBVIOUS
  <1> DEFINE L == Len(undo)
             e(n) == undo[L + 1 - n]
             V == SUBSET Nat
             g == [x \in (1 .. L) \X V |->
                      IF e(x[1]).was THEN x[2] \cup {e(x[1]).pos} ELSE x[2] \ {e(x[1]).pos}]
  <1>1. L \in Nat /\ flags \in V
    BY DEF CTypeOK
  <1>2. \A n \in 1 .. L : e(n).pos \in Nat
    <2>1. \A n \in 1 .. L : L + 1 - n \in 1 .. L
      BY <1>1
    <2>2. undo \in Seq(Entries)
      BY DEF CTypeOK
    <2>3. \A i \in 1 .. L : undo[i] \in Entries
      BY <2>2
    <2>4. \A x \in Entries : x.pos \in Nat
      BY DEF Entries
    <2> QED BY <2>1, <2>3, <2>4
  <1> HIDE DEF L, e
  <1>3. g \in [(1 .. L) \X V -> V]
    BY <1>2
  <1>4. \A n \in 1 .. L : \A x \in V :
           g[<<n, x>>] = IF e(n).was THEN x \cup {e(n).pos} ELSE x \ {e(n).pos}
    OBVIOUS
  <1> HIDE DEF V, g
  <1>50. PICK f : Recursion(f, L, V, flags, g)
    BY <1>1, <1>3, RecursionExists
  <1>5. /\ f \in [0 .. L -> V] /\ f[0] = flags
        /\ \A i \in 1 .. L : f[i] = g[<<i, f[i - 1]>>]
    BY <1>50 DEF Recursion
  <1>6. \A n \in 0 .. L : f[n] = IF n = 0 THEN flags
                                 ELSE IF e(n).was THEN f[n - 1] \cup {e(n).pos}
                                      ELSE f[n - 1] \ {e(n).pos}
    <2> TAKE n \in 0 .. L
    <2>1. CASE n = 0
      BY <1>5, <2>1
    <2>2. CASE n # 0
      <3>1. n \in 1 .. L /\ n - 1 \in 0 .. L
        BY <1>1, <2>2
      <3>2. f[n - 1] \in V
        BY <3>1, <1>5
      <3> QED BY <3>1, <3>2, <2>2, <1>4, <1>5
    <2> QED BY <2>1, <2>2
  <1>7. Unwinds(f)
    <2>1. f = [n \in 0 .. L |-> f[n]]
      BY <1>5
    <2> QED BY <2>1, <1>6, Zenon DEF Unwinds, L, e
  <1> QED BY <1>7

LEMMA UnwoundEmpty == CTypeOK /\ UnwoundInv => Unwound = {}
  <1> SUFFICES ASSUME CTypeOK, UnwoundInv PROVE Unwound = {}
    OBVIOUS
  <1> DEFINE f == CHOOSE f : Unwinds(f)
             L == Len(undo)
             Older(n) == \A p \in f[n] : \E i \in 1 .. L - n : undo[i].pos = p
             T == {n \in 0 .. L : Older(n)}
  <1>1. Unwinds(f)
    <2>1. \E g : Unwinds(g)
      BY UnwindsExists
    <2> QED BY <2>1
  <1>2. Unwound = f[L]
    BY DEF Unwound, Unwinds
  <1>3. L \in Nat
    BY DEF CTypeOK
  <1>4. f[0] = flags
    <2>1. 0 \in 0 .. L
      BY <1>3
    <2> QED BY <1>1, <2>1, Zenon DEF Unwinds
  <1>5. ASSUME NEW n \in 1 .. L
        PROVE  LET e == undo[L + 1 - n]
               IN  f[n] = IF e.was THEN f[n - 1] \cup {e.pos} ELSE f[n - 1] \ {e.pos}
    <2>1. n \in 0 .. L /\ n # 0
      BY <1>3
    <2> QED BY <2>1, <1>1, Zenon DEF Unwinds
  <1> HIDE DEF f
  <1>6. 0 \in T
    <2>1. 0 \in 0 .. L /\ L - 0 = L
      BY <1>3
    <2>2. Older(0)
      BY <2>1, <1>4 DEF UnwoundInv
    <2> QED BY <2>1, <2>2
  <1>7. ASSUME NEW n \in 1 .. L, n - 1 \in T PROVE n \in T
    <2> DEFINE k == L + 1 - n
    <2>1. k \in 1 .. L /\ L - (n - 1) = k /\ L - n = k - 1 /\ n \in 0 .. L
      BY <1>3
    <2>2. \A p \in f[n - 1] : \E i \in 1 .. k : undo[i].pos = p
      BY <1>7, <2>1
    <2>3. f[n] = IF undo[k].was THEN f[n - 1] \cup {undo[k].pos} ELSE f[n - 1] \ {undo[k].pos}
      BY <1>5
    <2>4. undo[k].was => \E j \in 1 .. k - 1 : undo[j].pos = undo[k].pos
      BY <2>1 DEF UnwoundInv
    <2>5. 1 .. k = (1 .. k - 1) \cup {k}
      BY <2>1
    <2> HIDE DEF k, L
    <2>6. ASSUME NEW p \in f[n] PROVE \E i \in 1 .. k - 1 : undo[i].pos = p
      <3>1. CASE p = undo[k].pos
        <4>1. undo[k].was
          BY <3>1, <2>3, <2>6
        <4> QED BY <3>1, <4>1, <2>4
      <3>2. CASE p # undo[k].pos
        <4>1. p \in f[n - 1]
          BY <3>2, <2>3, <2>6
        <4> QED BY <3>2, <4>1, <2>2, <2>5
      <3> QED BY <3>1, <3>2
    <2> QED BY <2>1, <2>6 DEF L
  <1> HIDE DEF T
  <1>8. L \in 0 .. L
    BY <1>3
  <1>9. L \in T
    BY <1>3, <1>6, <1>7, <1>8, UpTo
  <1>10. Older(L) /\ 1 .. L - L = {}
    BY <1>3, <1>9 DEF T
  <1> QED BY <1>2, <1>10

\* What Ascending has put in order.
Rows(f, S) ==
    f = [i \in 0 .. Count |->
            IF i = 0 THEN <<>> ELSE IF i \in S THEN Append(f[i - 1], i) ELSE f[i - 1]]

LEMMA RowsExists ==
    ASSUME CTypeOK, NEW S
    PROVE  \E f \in [0 .. Count -> Seq(Nat)] : Rows(f, S)
  <1> DEFINE V == Seq(Nat)
             n == Count
             g == [x \in (1 .. n) \X V |-> IF x[1] \in S THEN Append(x[2], x[1]) ELSE x[2]]
  <1>1. n \in Nat /\ <<>> \in V
    BY DEF CTypeOK, Count
  <1> HIDE DEF n
  <1>2. g \in [(1 .. n) \X V -> V]
    OBVIOUS
  <1>3. \A i \in 1 .. n : \A x \in V : g[<<i, x>>] = IF i \in S THEN Append(x, i) ELSE x
    OBVIOUS
  <1> HIDE DEF V, g
  <1>4. PICK f : Recursion(f, n, V, <<>>, g)
    BY <1>1, <1>2, RecursionExists
  <1>5. /\ f \in [0 .. n -> V] /\ f[0] = <<>>
        /\ \A i \in 1 .. n : f[i] = g[<<i, f[i - 1]>>]
    BY <1>4 DEF Recursion
  <1>6. \A i \in 0 .. n : f[i] = IF i = 0 THEN <<>>
                                 ELSE IF i \in S THEN Append(f[i - 1], i) ELSE f[i - 1]
    <2> TAKE i \in 0 .. n
    <2>1. CASE i = 0
      BY <1>5, <2>1
    <2>2. CASE i # 0
      <3>1. i \in 1 .. n /\ i - 1 \in 0 .. n
        BY <1>1, <2>2
      <3>2. f[i - 1] \in V
        BY <3>1, <1>5
      <3> QED BY <3>1, <3>2, <2>2, <1>3, <1>5
    <2> QED BY <2>1, <2>2
  <1>7. f = [i \in 0 .. n |-> f[i]]
    BY <1>5
  <1>8. Rows(f, S)
    BY <1>7, <1>6, Zenon DEF Rows, n
  <1> QED BY <1>5, <1>8 DEF V, n

LEMMA AscendingFacts ==
    ASSUME CTypeOK, NEW S \in SUBSET (1 .. Count)
    PROVE  /\ Ascending(S) \in Seq(Nat)
           /\ \A p \in Nat : p \in S <=> \E i \in 1 .. Len(Ascending(S)) : Ascending(S)[i] = p
  <1> DEFINE f == CHOOSE f : Rows(f, S)
             n == Count
             Lists(k) == /\ f[k] \in Seq(Nat)
                         /\ \A p \in Nat : p \in S /\ p =< k
                                           <=> \E i \in 1 .. Len(f[k]) : f[k][i] = p
             T == {k \in 0 .. n : Lists(k)}
  <1>1. Rows(f, S)
    <2>1. \E g : Rows(g, S)
      BY RowsExists
    <2> QED BY <2>1
  <1>2. Ascending(S) = f[n]
    BY DEF Ascending, Rows
  <1>3. n \in Nat
    BY DEF CTypeOK, Count
  <1>4. f[0] = <<>>
    <2>1. 0 \in 0 .. n
      BY <1>3
    <2> QED BY <1>1, <2>1, Zenon DEF Rows
  <1>5. ASSUME NEW k \in 1 .. n
        PROVE  f[k] = IF k \in S THEN Append(f[k - 1], k) ELSE f[k - 1]
    <2>1. k \in 0 .. n /\ k # 0
      BY <1>3
    <2> QED BY <2>1, <1>1, Zenon DEF Rows
  <1> HIDE DEF f
  <1>6. 0 \in T
    <2>1. 0 \in 0 .. n
      BY <1>3
    <2>2. f[0] \in Seq(Nat) /\ Len(f[0]) = 0
      BY <1>4
    <2>3. \A p \in S : ~(p =< 0)
      BY <1>3
    <2>4. Lists(0)
      BY <2>2, <2>3
    <2> QED BY <2>1, <2>4
  <1>7. ASSUME NEW k \in 1 .. n, k - 1 \in T PROVE k \in T
    <2> DEFINE c == f[k - 1]
               d == f[k]
    <2>1. k \in 0 .. n /\ k \in Nat
      BY <1>3
    <2>2. c \in Seq(Nat) /\ \A p \in Nat : p \in S /\ p =< k - 1 <=> \E i \in 1 .. Len(c) : c[i] = p
      BY <1>7
    <2>3. d = IF k \in S THEN Append(c, k) ELSE c
      BY <1>5
    <2>4. \A p \in Nat : p =< k <=> p =< k - 1 \/ p = k
      BY <2>1
    <2> SUFFICES d \in Seq(Nat) /\ \A p \in Nat : p \in S /\ p =< k <=> \E i \in 1 .. Len(d) : d[i] = p
      BY <2>1
    <2> HIDE DEF c, d, T
    <2>5. CASE k \in S
      <3>1. d \in Seq(Nat) /\ Len(d) = Len(c) + 1 /\ d[Len(c) + 1] = k
            /\ \A i \in 1 .. Len(c) : d[i] = c[i]
        BY <2>1, <2>2, <2>3, <2>5
      <3>2. Len(c) \in Nat
        BY <2>2
      <3>3. 1 .. Len(d) = (1 .. Len(c)) \cup {Len(c) + 1}
        BY <3>1, <3>2
      <3>4. \A p \in Nat : (\E i \in 1 .. Len(d) : d[i] = p) <=> p = k \/ \E i \in 1 .. Len(c) : c[i] = p
        BY <3>1, <3>3, Zenon
      <3> QED BY <3>1, <3>4, <2>2, <2>4, <2>5
    <2>6. CASE k \notin S
      <3>1. d = c
        BY <2>3, <2>6
      <3>2. ASSUME NEW p \in Nat PROVE p \in S /\ p =< k <=> p \in S /\ p =< k - 1
        BY <2>4, <2>6
      <3> QED BY <3>1, <3>2, <2>2
    <2> QED BY <2>5, <2>6
  <1> HIDE DEF T
  <1>8. n \in 0 .. n
    BY <1>3
  <1>9. n \in T
    BY <1>3, <1>6, <1>7, <1>8, UpTo
  <1>10. Lists(n)
    BY <1>9 DEF T
  <1>11. \A p \in S : p \in Nat /\ p =< n
    BY <1>3
  <1> QED BY <1>2, <1>10, <1>11

LEMMA PushedFacts ==
    ASSUME NEW u \in Seq(Entries), NEW s \in Seq(Entries)
    PROVE  /\ Pushed(u, s) \in Seq(Entries) /\ Len(Pushed(u, s)) =< Len(u) + Len(s)
           /\ Len(Pushed(u, s)) =< MAX_UNDO
           /\ \A i \in 1 .. Len(Pushed(u, s)) :
                 Pushed(u, s)[i] = IF i =< Len(u) THEN u[i] ELSE s[i - Len(u)]
           /\ Len(u \o s) = Len(u) + Len(s)
           /\ Len(u) + Len(s) =< MAX_UNDO => Len(Pushed(u, s)) = Len(u) + Len(s)
  <1> DEFINE t == u \o s
             m == Min({Len(t), MAX_UNDO})
  <1>1. t \in Seq(Entries) /\ Len(t) = Len(u) + Len(s) /\ Len(u) \in Nat /\ Len(s) \in Nat
        /\ \A i \in 1 .. Len(t) : t[i] = IF i =< Len(u) THEN u[i] ELSE s[i - Len(u)]
    OBVIOUS
  <1>2. Pushed(u, s) = SubSeq(t, 1, m)
    BY DEF Pushed
  <1> HIDE DEF t
  <1>3. m = IF Len(t) =< MAX_UNDO THEN Len(t) ELSE MAX_UNDO
    <2>1. Len(t) \in Int /\ MAX_UNDO \in Int
      BY <1>1, ChatEditAssumption
    <2> QED BY <2>1, TwoNumbers
  <1> HIDE DEF m
  <1>4. m \in Nat /\ m =< Len(t)
    BY <1>1, <1>3, ChatEditAssumption
  <1>5. SubSeq(t, 1, m) \in Seq(Entries) /\ Len(SubSeq(t, 1, m)) = m
        /\ \A i \in 1 .. m : SubSeq(t, 1, m)[i] = t[i]
    BY <1>1, <1>4
  <1>6. \A i \in 1 .. m : i \in 1 .. Len(t)
    BY <1>1, <1>4
  <1>7. Len(u \o s) = Len(t)
    BY DEF t
  <1>8. ASSUME NEW i \in 1 .. m PROVE SubSeq(t, 1, m)[i] = IF i =< Len(u) THEN u[i] ELSE s[i - Len(u)]
    BY <1>1, <1>5, <1>6
  <1> QED BY <1>1, <1>2, <1>3, <1>4, <1>5, <1>7, <1>8, ChatEditAssumption

\* Entries on top that tell the truth keep the stack sound.
LEMMA PushUnwinds ==
    ASSUME CTypeOK, ~overflow => UnwoundInv, NEW s \in Seq(Entries),
           \A i \in 1 .. Len(s) : s[i].was => s[i].pos \in flags,
           undo' = Pushed(undo, s), overflow' = (overflow \/ Len(undo \o s) > MAX_UNDO),
           \A p \in flags' : p \in flags \/ \E i \in 1 .. Len(s) : s[i].pos = p
    PROVE  ~overflow' => UnwoundInv'
  <1> SUFFICES ASSUME ~overflow' PROVE UnwoundInv'
    OBVIOUS
  <1> DEFINE u == undo
             t == undo'
             n == Len(u)
  <1>1. u \in Seq(Entries) /\ n \in Nat /\ Len(s) \in Nat
    BY DEF CTypeOK
  <1>2. UnwoundInv /\ ~(Len(undo \o s) > MAX_UNDO)
    OBVIOUS
  <1>3. /\ t = Pushed(u, s) /\ Len(u \o s) = n + Len(s)
        /\ \A i \in 1 .. Len(t) : t[i] = IF i =< n THEN u[i] ELSE s[i - n]
        /\ Len(t) = n + Len(s)
    <2>1. Len(u \o s) = n + Len(s) /\ n + Len(s) =< MAX_UNDO
      BY <1>1, <1>2, PushedFacts, ChatEditAssumption
    <2> QED BY <1>1, <2>1, PushedFacts
  <1>4. /\ \A p \in flags : \E i \in 1 .. n : u[i].pos = p
        /\ \A i \in 1 .. n : u[i].was => \E j \in 1 .. i - 1 : u[j].pos = u[i].pos
    BY <1>2 DEF UnwoundInv
  <1>5. \A i \in 1 .. n : i \in 1 .. Len(t) /\ t[i] = u[i]
    BY <1>1, <1>3
  <1> SUFFICES /\ \A p \in flags' : \E i \in 1 .. Len(t) : t[i].pos = p
               /\ \A i \in 1 .. Len(t) : t[i].was => \E j \in 1 .. i - 1 : t[j].pos = t[i].pos
    BY DEF UnwoundInv
  <1> HIDE DEF t, u, n
  <1>6. ASSUME NEW p \in flags' PROVE \E i \in 1 .. Len(t) : t[i].pos = p
    <2>1. CASE p \in flags
      <3>1. PICK i \in 1 .. n : u[i].pos = p
        BY <2>1, <1>4
      <3> QED BY <3>1, <1>5
    <2>2. CASE \E i \in 1 .. Len(s) : s[i].pos = p
      <3>1. PICK i \in 1 .. Len(s) : s[i].pos = p
        BY <2>2
      <3> DEFINE k == n + i
      <3>2. k \in 1 .. Len(t) /\ ~(k =< n) /\ k - n = i
        BY <1>1, <1>3
      <3> HIDE DEF k
      <3>3. t[k] = s[i]
        BY <3>2, <1>3
      <3> QED BY <3>1, <3>2, <3>3
    <2> QED BY <2>1, <2>2
  <1>7. ASSUME NEW i \in 1 .. Len(t), t[i].was PROVE \E j \in 1 .. i - 1 : t[j].pos = t[i].pos
    <2>1. CASE i \in 1 .. n
      <3>1. t[i] = u[i]
        BY <2>1, <1>5
      <3>2. PICK j \in 1 .. i - 1 : u[j].pos = u[i].pos
        BY <2>1, <3>1, <1>4, <1>7
      <3>3. j \in 1 .. n
        BY <2>1, <1>1
      <3> QED BY <3>1, <3>2, <3>3, <1>5
    <2>2. CASE ~(i =< n)
      <3>1. t[i] = s[i - n] /\ i - n \in 1 .. Len(s)
        BY <2>2, <1>1, <1>3
      <3>2. s[i - n].pos \in flags
        BY <3>1, <1>7
      <3>3. PICK j \in 1 .. n : u[j].pos = s[i - n].pos
        BY <3>2, <1>4
      <3>4. j \in 1 .. i - 1
        BY <2>2, <1>1
      <3> QED BY <3>1, <3>3, <3>4, <1>5
    <2> QED BY <2>1, <2>2, <1>1
  <1> QED BY <1>6, <1>7

LEMMA PushPlaces ==
    ASSUME NEW u \in Seq(Entries), NEW s \in Seq(Entries), NEW S,
           \A i \in 1 .. Len(u) : u[i].pos \in S, \A i \in 1 .. Len(s) : s[i].pos \in S
    PROVE  \A i \in 1 .. Len(Pushed(u, s)) : Pushed(u, s)[i].pos \in S
  <1> DEFINE t == Pushed(u, s)
  <1>1. Len(u) \in Nat /\ Len(s) \in Nat /\ Len(t) =< Len(u) + Len(s) /\ Len(t) \in Nat
        /\ \A i \in 1 .. Len(t) : t[i] = IF i =< Len(u) THEN u[i] ELSE s[i - Len(u)]
    BY PushedFacts
  <1> SUFFICES ASSUME NEW i \in 1 .. Len(t) PROVE t[i].pos \in S
    OBVIOUS
  <1> HIDE DEF t
  <1>2. CASE i =< Len(u)
    <2>1. i \in 1 .. Len(u) /\ t[i] = u[i]
      BY <1>1, <1>2
    <2> QED BY <2>1
  <1>3. CASE ~(i =< Len(u))
    <2>1. i - Len(u) \in 1 .. Len(s) /\ t[i] = s[i - Len(u)]
      BY <1>1, <1>3
    <2> QED BY <2>1
  <1> QED BY <1>2, <1>3

LEMMA FrontFacts ==
    ASSUME NEW s \in Seq(Entries), s # <<>>
    PROVE  /\ Front(s) \in Seq(Entries) /\ Len(Front(s)) = Len(s) - 1
           /\ \A i \in 1 .. Len(s) - 1 : Front(s)[i] = s[i] /\ i \in 1 .. Len(s)
           /\ Len(s) \in 1 .. Len(s) /\ Last(s) = s[Len(s)] /\ Last(s) \in Entries
  <1>1. Len(s) \in Nat /\ Len(s) > 0
    OBVIOUS
  <1>2. Front(s) = SubSeq(s, 1, Len(s) - 1) /\ Last(s) = s[Len(s)]
    BY DEF Front, Last
  <1>3. /\ SubSeq(s, 1, Len(s) - 1) \in Seq(Entries) /\ Len(SubSeq(s, 1, Len(s) - 1)) = Len(s) - 1
        /\ \A i \in 1 .. Len(s) - 1 : SubSeq(s, 1, Len(s) - 1)[i] = s[i]
    <2> DEFINE n == Len(s) - 1
    <2>1. n \in Nat /\ n =< Len(s)
      BY <1>1
    <2> HIDE DEF n
    <2>2. /\ SubSeq(s, 1, n) \in Seq(Entries) /\ Len(SubSeq(s, 1, n)) = n
          /\ \A i \in 1 .. n : SubSeq(s, 1, n)[i] = s[i]
      BY <2>1
    <2> QED BY <2>2 DEF n
  <1> QED BY <1>1, <1>2, <1>3

\* One entry.
LEMMA OneEntry ==
    ASSUME NEW p \in Nat, NEW w \in BOOLEAN
    PROVE  /\ Entry(p, w) \in Entries /\ Entry(p, w).pos = p /\ Entry(p, w).was = w
           /\ <<Entry(p, w)>> \in Seq(Entries) /\ Len(<<Entry(p, w)>>) = 1
           /\ \A i \in 1 .. 1 : <<Entry(p, w)>>[i] = Entry(p, w)
  <1>1. Entry(p, w) \in Entries /\ Entry(p, w).pos = p /\ Entry(p, w).was = w
    BY Zenon DEF Entry, Entries
  <1> DEFINE e == Entry(p, w)
  <1> HIDE DEF e
  <1>2. e \in Entries
    BY <1>1 DEF e
  <1>3. <<e>> \in Seq(Entries) /\ Len(<<e>>) = 1 /\ \A i \in 1 .. 1 : <<e>>[i] = e
    BY <1>2
  <1> QED BY <1>1, <1>3 DEF e

\* The files are safe while only keys are read.
LEMMA StoreSame ==
    ASSUME StoreInv, UNCHANGED <<file, backup, sending, taken, list, writes>>,
           stage' \in {"keys", "viewing", "gone"} \/ UNCHANGED <<stage, next, flags>>
    PROVE  StoreInv'
  <1>2. Count' = Count
    BY DEF Count
  <1> DEFINE A == HeldBy(1 .. Count, backup)
             B == Safe(1 .. Count)
  <1>3. A' = A /\ B' = B
    BY <1>2 DEF HeldBy, Safe
  <1>4. CASE stage' \in {"keys", "viewing", "gone"}
    <2>1. (writes = "never" => B /\ sending \in {NoSender, file}) /\ (writes = "first" => A \/ B)
      BY DEF StoreInv
    <2>2. (writes' = "never" => B' /\ sending' \in {NoSender, file'}) /\ (writes' = "first" => A' \/ B')
      BY <2>1, <1>3
    <2> HIDE DEF A, B
    <2> QED BY <1>4, <2>2 DEF StoreInv, A, B
  <1>5. CASE UNCHANGED <<stage, next, flags>>
    BY <1>5, <1>2 DEF StoreInv, Safe, HeldBy, Unflagged
  <1> QED BY <1>4, <1>5

LEMMA MarksSame ==
    ASSUME MarksInv, UNCHANGED <<list, flags, undo, redo, dirty, overflow, writes>>
    PROVE  MarksInv'
  BY DEF MarksInv, UnwoundInv, Count

\* A key that only moves the cursor.
LEMMA LookKeeps ==
    ASSUME CInv, Looking, height' \in Nat \ {0},
           NEW c \in Nat, Count > 0 => c \in 1 .. Count, ScrollTo(c, scroll_top) \/ ScrollTo(c, 1),
           UNCHANGED <<tty, editfaults>>,
           \/ stage' = "keys"
           \/ stage' = "gone" /\ Count = 0 /\ c = cur /\ (ReadsOutside(TRUE) \/ ReadsOutside(FALSE))
    PROVE  CInv'
  <1>1. /\ CTypeOK /\ CursorOnMessage /\ StoreInv /\ ModeInv
        /\ browsing => flags = {} /\ undo = <<>> /\ redo = <<>> /\ writes = "never"
        /\ MarksInv
    BY DEF CInv
  <1>2. /\ stage = "keys" /\ UNCHANGED <<file, backup, sending, posted, taken>>
        /\ UNCHANGED <<browsing, list, flags, dirty, undo, redo, overflow, marked, keys, next, writes>>
        /\ UNCHANGED <<mode, orig, editfaults>>
    BY DEF Looking, disc, marks, tty
  <1>3. Count' = Count /\ Len(list') = Count /\ Count \in Nat
    BY <1>1, <1>2 DEF Count, CTypeOK
  <1>4. cur' = c /\ cur' \in Nat /\ scroll_top' \in Nat \ {0} /\ CursorOnMessage'
    <2>1. scroll_top \in Nat \ {0} /\ 1 \in Nat \ {0}
      BY <1>1 DEF CTypeOK
    <2>2. Len(list') \in Nat /\ (Len(list') > 0 => c \in 1 .. Len(list'))
      BY <1>3
    <2>3. PICK t \in Nat \ {0} : ScrollTo(c, t)
      BY <2>1
    <2> QED BY <1>1, <2>2, <2>3, ScrollKeeps
  <1>5. CTypeOK'
    BY <1>1, <1>2, <1>4 DEF CTypeOK
  <1>6. StoreInv'
    BY <1>1, <1>2, StoreSame
  <1>7. MarksInv'
    BY <1>1, <1>2, MarksSame
  <1>8. ModeInv'
    <2>1. stage' = "gone" => Count' = 0 /\ cur' = cur /\ (ReadsOutside(TRUE) \/ ReadsOutside(FALSE))
      BY <1>3, <1>4
    <2>2. stage' = "gone" => (ReadsOutside(TRUE) \/ ReadsOutside(FALSE))'
      BY <2>1, <1>3 DEF ReadsOutside
    <2> QED BY <1>1, <1>2, <2>2 DEF ModeInv
  <1>9. browsing' => flags' = {} /\ undo' = <<>> /\ redo' = <<>> /\ writes' = "never"
    BY <1>1, <1>2
  <1> QED BY <1>4, <1>5, <1>6, <1>7, <1>8, <1>9 DEF CInv

LEMMA MovesKeep ==
    ASSUME CInv, KeyMove \/ Resize \/ KeyNext
                 \/ \E P \in Patterns \cup {{}} : prompt_search(P, TRUE) \/ prompt_search(P, FALSE)
    PROVE  CInv'
  <1>1. CTypeOK /\ CursorOnMessage /\ Count \in Nat /\ cur \in Nat /\ height \in Nat \ {0}
        /\ (Count > 0 => cur \in 1 .. Count)
    BY DEF CInv, CTypeOK, CursorOnMessage, Count
  <1>2. CASE KeyMove
    <2>1. Looking /\ height' = height /\ UNCHANGED <<tty, editfaults>> /\ stage' = "keys"
      BY <1>2 DEF KeyMove, Looking, Steady
    <2>2. PICK c \in Moves \cup {1} : ScrollTo(c, scroll_top) \/ ScrollTo(c, 1)
      BY <1>2 DEF KeyMove
    <2>3. c \in Nat /\ (Count > 0 => c \in 1 .. Count)
      <3> DEFINE n == Count
      <3>1. n \in Nat /\ 1 \in Int /\ cur - height \in Int /\ cur + height \in Int
        BY <1>1
      <3> HIDE DEF n
      <3>2. Max({1, cur - height}) = IF 1 >= cur - height THEN 1 ELSE cur - height
        BY <3>1, TwoNumbers
      <3>3. Min({n, cur + height}) = IF n =< cur + height THEN n ELSE cur + height
        <4>1. n \in Int
          BY <3>1
        <4> QED BY <3>1, <4>1, TwoNumbers
      <3>4. Max({1, n}) = IF 1 >= n THEN 1 ELSE n
        BY <3>1, TwoNumbers
      <3>5. c \in {1, IF cur > 1 THEN cur - 1 ELSE cur, IF cur < n THEN cur + 1 ELSE cur,
                   Max({1, cur - height}), Min({n, cur + height}), Max({1, n})}
        BY DEF Moves, n
      <3>6. n > 0 => cur \in 1 .. n
        BY <1>1 DEF n
      <3>7. c \in Nat /\ (n > 0 => c \in 1 .. n)
        BY <1>1, <3>1, <3>2, <3>3, <3>4, <3>5, <3>6
      <3> QED BY <3>7 DEF n
    <2> QED BY <1>1, <2>1, <2>2, <2>3, LookKeeps
  <1>3. CASE Resize
    <2>1. Looking /\ UNCHANGED <<tty, editfaults>> /\ stage' = "keys" /\ ScrollTo(cur, scroll_top)
      BY <1>3 DEF Resize, Looking
    <2>2. height' \in Nat \ {0}
      BY <1>3, ChatEditAssumption DEF Resize
    <2> QED BY <1>1, <2>1, <2>2, LookKeeps
  <1>4. CASE KeyNext
    <2>1. Looking /\ height' = height /\ UNCHANGED <<tty, editfaults>> /\ stage' = "keys"
      BY <1>4 DEF KeyNext, Looking, Steady
    <2>2. PICK c \in {search_forward(found, cur + 1), search_backward(found, cur - 1)} :
             ScrollTo(c, scroll_top)
      BY <1>4 DEF KeyNext
    <2>3. cur + 1 \in Int /\ cur - 1 \in Int
      BY <1>1
    <2>4. c \in Nat /\ (Count > 0 => c \in 1 .. Count)
      BY <1>1, <2>2, <2>3, SearchFinds
    <2> QED BY <1>1, <2>1, <2>2, <2>4, LookKeeps
  <1>5. ASSUME NEW P, NEW fw \in BOOLEAN, prompt_search(P, fw) PROVE CInv'
    <2> DEFINE c == IF fw THEN search_forward(P, cur) ELSE search_backward(P, cur)
    <2>1. Looking /\ height' = height /\ UNCHANGED <<tty, editfaults>> /\ ScrollTo(c, scroll_top)
      BY <1>5 DEF prompt_search
    <2>2. stage' = "keys" \/ (stage' = "gone" /\ ReadsOutside(fw))
      BY <1>5 DEF prompt_search, Looking
    <2>3. cur \in Int
      BY <1>1
    <2>4. c \in Nat /\ (Count > 0 => c \in 1 .. Count) /\ (Count = 0 => c = cur)
      BY <1>1, <2>3, SearchFinds
    <2>5. ReadsOutside(fw) => Count = 0 /\ (ReadsOutside(TRUE) \/ ReadsOutside(FALSE))
      <3>1. fw = TRUE \/ fw = FALSE
        OBVIOUS
      <3>2. ReadsOutside(fw) => Count = 0
        BY DEF ReadsOutside
      <3> QED BY <3>1, <3>2, Zenon
    <2> HIDE DEF c
    <2>6. \/ stage' = "keys"
          \/ stage' = "gone" /\ Count = 0 /\ c = cur /\ (ReadsOutside(TRUE) \/ ReadsOutside(FALSE))
      BY <2>2, <2>4, <2>5
    <2>7. height' \in Nat \ {0}
      BY <2>1, <1>1
    <2> QED BY <2>1, <2>4, <2>6, <2>7, LookKeeps
  <1> QED BY <1>2, <1>3, <1>4, <1>5

LEMMA StageKeeps ==
    ASSUME CInv, UNCHANGED <<disc, browsing, list, place, marks, next, writes>>,
           stage' \in {"keys", "viewing", "gone"}, editfaults' \in Nat, ModeInv'
    PROVE  CInv'
  <1>1. /\ CTypeOK /\ CursorOnMessage /\ StoreInv
        /\ browsing => flags = {} /\ undo = <<>> /\ redo = <<>> /\ writes = "never"
        /\ MarksInv
    BY DEF CInv
  <1>2. /\ UNCHANGED <<file, backup, sending, posted, taken, cur, scroll_top, height>>
        /\ UNCHANGED <<browsing, list, flags, dirty, undo, redo, overflow, marked, keys, next, writes>>
    BY DEF disc, marks, place
  <1>3. CTypeOK'
    BY <1>1, <1>2 DEF CTypeOK
  <1>4. CursorOnMessage'
    BY <1>1, <1>2 DEF CursorOnMessage, Count
  <1>5. StoreInv'
    BY <1>1, <1>2, StoreSame
  <1>6. MarksInv'
    BY <1>1, <1>2, MarksSame
  <1> QED BY <1>1, <1>2, <1>3, <1>4, <1>5, <1>6 DEF CInv

LEMMA StagesKeep ==
    ASSUME CInv, view_message \/ ViewerEnds \/ Quit \/ EditKilled
    PROVE  CInv'
  <1>0. editfaults \in Nat /\ ModeInv
    BY DEF CInv, CTypeOK
  <1>1. CASE view_message
    <2>1. /\ UNCHANGED <<disc, browsing, list, place, marks, next, writes>>
          /\ stage = "keys" /\ stage' = "viewing"
      BY <1>1 DEF view_message, Looking
    <2>2. editfaults' \in Nat /\ (editfaults' = 0 => editfaults = 0 /\ mode' = orig /\ orig' = orig)
      BY <1>0, <1>1 DEF view_message, EditFault, chatview_disable_raw
    <2>3. ModeInv'
      BY <1>0, <2>1, <2>2 DEF ModeInv
    <2> QED BY <2>1, <2>2, <2>3, StageKeeps
  <1>2. CASE ViewerEnds
    <2>1. /\ UNCHANGED <<disc, browsing, list, place, marks, next, writes>>
          /\ stage = "viewing" /\ stage' = "keys" /\ editfaults' = editfaults
      BY <1>2 DEF ViewerEnds
    <2>2. mode # "raw" => orig' = mode /\ mode' = "raw"
      BY <1>2 DEF ViewerEnds, chatview_enable_raw
    <2>3. ModeInv'
      BY <1>0, <2>1, <2>2 DEF ModeInv
    <2> QED BY <1>0, <2>1, <2>3, StageKeeps
  <1>3. CASE Quit
    <2>1. /\ UNCHANGED <<disc, browsing, list, place, marks, next, writes>>
          /\ stage = "keys" /\ stage' = "gone" /\ editfaults' = editfaults /\ orig' = orig
          /\ mode' = orig
      BY <1>3 DEF Quit, Looking, chatview_disable_raw
    <2>3. ModeInv'
      BY <1>0, <2>1 DEF ModeInv
    <2> QED BY <1>0, <2>1, <2>3, StageKeeps
  <1>4. CASE EditKilled
    <2>1. /\ UNCHANGED <<disc, browsing, list, place, marks, next, writes>>
          /\ stage' = "gone" /\ editfaults' = editfaults + 1
      BY <1>4 DEF EditKilled, EditFault
    <2>2. editfaults' \in Nat /\ editfaults' # 0
      BY <1>0, <2>1
    <2>3. ModeInv'
      BY <2>2 DEF ModeInv
    <2> QED BY <2>1, <2>2, <2>3, StageKeeps
  <1> QED BY <1>1, <1>2, <1>3, <1>4

\* What other processes do to the file.
LEMMA OthersKeep ==
    ASSUME CInv, Elsewhere, backup' = backup, file' \in Seq(Int), sending' \in Seq(Int),
           taken' \subseteq Int, posted' \in Nat, StoreInv'
    PROVE  CInv'
  <1>1. /\ CTypeOK /\ CursorOnMessage /\ StoreInv /\ ModeInv
        /\ browsing => flags = {} /\ undo = <<>> /\ redo = <<>> /\ writes = "never"
        /\ MarksInv
    BY DEF CInv
  <1>2. /\ UNCHANGED <<cur, scroll_top, height, stage, mode, orig, editfaults>>
        /\ UNCHANGED <<browsing, list, flags, dirty, undo, redo, overflow, marked, keys, next, writes>>
    BY DEF Elsewhere, marks, place, tty
  <1>3. CTypeOK'
    BY <1>1, <1>2 DEF CTypeOK
  <1>4. CursorOnMessage' /\ ModeInv'
    BY <1>1, <1>2 DEF CursorOnMessage, Count, ModeInv, ReadsOutside
  <1>5. MarksInv'
    BY <1>1, <1>2, MarksSame
  <1> QED BY <1>1, <1>2, <1>3, <1>4, <1>5 DEF CInv

LEMMA SendersKeep ==
    ASSUME CInv, SenderReads \/ SenderWrites
    PROVE  CInv'
  <1>0. CTypeOK /\ StoreInv
    BY DEF CInv
  <1>1. CASE SenderReads
    <2>1. /\ Elsewhere /\ file # Absent /\ sending' = file
          /\ UNCHANGED <<file, backup, posted, taken>>
      BY <1>1 DEF SenderReads
    <2>2. UNCHANGED <<list, stage, next, writes, flags>> /\ Count' = Count
          /\ Unflagged(1)' = Unflagged(1)
      BY <2>1 DEF Elsewhere, marks, Count, Unflagged
    <2> DEFINE A == 1 .. Count
               B == {p \in 1 .. next - 1 : p =< Count /\ p \notin flags}
               C == Unflagged(1)
    <2>3. A' = A /\ B' = B /\ C' = C
      BY <2>2
    <2>5. /\ (HeldBy(A, file) => Safe(A)') /\ (HeldBy(A, backup) => HeldBy(A, backup)')
          /\ (HeldBy(A, file) => HeldBy(A, file)' /\ HeldBy(A, sending)')
          /\ (HeldBy(B, file) => Safe(B)') /\ (HeldBy(C, file) => Safe(C)')
          /\ (Safe(A) => HeldBy(A, file)) /\ (Safe(B) => HeldBy(B, file))
          /\ (Safe(C) => HeldBy(C, file))
      BY <2>1, <2>2, <2>3 DEF HeldBy, Safe
    <2>6. StoreInv'
      BY <1>0, <2>1, <2>2, <2>5 DEF StoreInv
    <2> QED BY <1>0, <2>1, <2>6, OthersKeep DEF CTypeOK
  <1>2. CASE SenderWrites
    <2>1. /\ Elsewhere /\ sending # NoSender /\ sending' = NoSender /\ Sent(sending, posted + 1)
          /\ posted' = posted + 1 /\ backup' = backup
      BY <1>2 DEF SenderWrites
    <2>2. UNCHANGED <<list, stage, next, writes, flags>> /\ Count' = Count
          /\ Unflagged(1)' = Unflagged(1)
      BY <2>1 DEF Elsewhere, marks, Count, Unflagged
    <2>3. sending \in Seq(Int) /\ posted + 1 \in Int /\ taken \subseteq Int /\ posted' \in Nat
      BY <1>0, <2>1 DEF CTypeOK
    <2>4. /\ file' \in Seq(Int) /\ taken' \subseteq Int /\ taken \subseteq taken'
          /\ Range(sending) \cup taken \subseteq Range(file') \cup taken'
      BY <2>1, <2>3, SentKeeps
    <2> DEFINE A == 1 .. Count
               B == {p \in 1 .. next - 1 : p =< Count /\ p \notin flags}
               C == Unflagged(1)
    <2>5. A' = A /\ B' = B /\ C' = C
      BY <2>2
    <2>6. /\ (HeldBy(A, sending) => Safe(A)' /\ HeldBy(A, file)')
          /\ (HeldBy(A, backup) => HeldBy(A, backup)')
          /\ (HeldBy(B, sending) => Safe(B)') /\ (HeldBy(C, sending) => Safe(C)')
          /\ (Safe(A) => HeldBy(A, sending)) /\ (Safe(B) => HeldBy(B, sending))
          /\ (Safe(C) => HeldBy(C, sending))
      BY <2>1, <2>2, <2>4, <2>5 DEF HeldBy, Safe
    <2>7. StoreInv'
      BY <1>0, <2>1, <2>2, <2>6 DEF StoreInv
    <2>8. sending' \in Seq(Int)
      BY <2>1 DEF NoSender
    <2> QED BY <2>1, <2>3, <2>4, <2>7, <2>8, OthersKeep
  <1> QED BY <1>1, <1>2

LEMMA PollKeeps == CInv /\ browse_poll_cb => CInv'
  <1> SUFFICES ASSUME CInv, browse_poll_cb PROVE CInv'
    OBVIOUS
  <1>1. /\ CTypeOK /\ CursorOnMessage /\ StoreInv /\ ModeInv
        /\ browsing => flags = {} /\ undo = <<>> /\ redo = <<>> /\ writes = "never"
        /\ MarksInv
    BY DEF CInv
  <1>2. /\ browsing /\ stage = "keys" /\ height' = height /\ chatview_update(file)
        /\ UNCHANGED <<file, backup, sending, posted, taken, browsing, stage>>
        /\ UNCHANGED <<flags, dirty, undo, redo, overflow, marked, keys>>
        /\ UNCHANGED <<next, mode, orig, writes, editfaults>>
    BY DEF browse_poll_cb, disc, marks, tty
  <1> DEFINE n == Len(file)
             c == IF cur > Len(file) /\ file # <<>> THEN Len(file) ELSE cur
             d == Max({1, c})
  <1>3. list' = file /\ ScrollTo(d, scroll_top)
    BY <1>2 DEF chatview_update
  <1>4. file \in Seq(Int) /\ n \in Nat /\ cur \in Nat /\ scroll_top \in Nat \ {0} /\ height \in Nat \ {0}
        /\ (file # <<>> <=> n > 0)
    BY <1>1 DEF CTypeOK
  <1>5. c \in Int /\ (n > 0 => c =< n)
    BY <1>4
  <1>6. d = IF 1 >= c THEN 1 ELSE c
    <2> HIDE DEF c
    <2> QED BY <1>5, TwoNumbers
  <1> HIDE DEF c, d, n
  <1>7. d \in Nat /\ (n > 0 => d \in 1 .. n)
    BY <1>4, <1>5, <1>6
  <1>8. Len(list') = n /\ Count' = n
    BY <1>3 DEF n, Count
  <1>9. cur' \in Nat /\ scroll_top' \in Nat \ {0} /\ CursorOnMessage'
    BY <1>1, <1>2, <1>3, <1>4, <1>7, <1>8, ScrollKeeps
  <1>10. CTypeOK'
    BY <1>1, <1>2, <1>3, <1>9 DEF CTypeOK
  <1>11. MarksInv'
    <2>1. undo' = <<>> /\ redo' = <<>> /\ flags' = {}
      BY <1>1, <1>2
    <2>2. Len(undo') = 0 /\ Len(redo') = 0
      BY <2>1
    <2> QED BY <2>1, <2>2, ChatEditAssumption DEF MarksInv, UnwoundInv
  <1>12. StoreInv'
    <2>1. writes' = "never" /\ stage' = "keys" /\ sending' \in {NoSender, file'}
      BY <1>1, <1>2 DEF StoreInv
    <2>2. \A p \in 1 .. n : file[p] \in Range(file)
      BY <1>4 DEF Range, n
    <2>3. Safe(1 .. Count)'
      BY <1>2, <1>3, <1>8, <2>1, <2>2 DEF Safe, HeldBy
    <2> QED BY <2>1, <2>3 DEF StoreInv
  <1>13. ModeInv'
    BY <1>1, <1>2 DEF ModeInv
  <1> QED BY <1>1, <1>2, <1>9, <1>10, <1>11, <1>12, <1>13 DEF CInv

\* A key that marks.
LEMMA EditKeeps ==
    ASSUME CInv, Editing, cur' \in Nat, scroll_top' \in Nat \ {0}, CursorOnMessage',
           flags' \subseteq Nat, dirty' \in BOOLEAN, overflow' \in BOOLEAN,
           undo' \in Seq(Entries), redo' \in Seq(Entries), MarksInv'
    PROVE  CInv'
  <1>1. CTypeOK /\ StoreInv /\ ModeInv
    BY DEF CInv
  <1>2. /\ stage = "keys" /\ ~browsing /\ keys' = keys + 1
        /\ UNCHANGED <<file, backup, sending, posted, taken, browsing, stage, list, height>>
        /\ UNCHANGED <<next, mode, orig, writes, editfaults>>
    BY DEF Editing, disc, tty
  <1>3. CTypeOK'
    BY <1>1, <1>2 DEF CTypeOK
  <1>4. StoreInv'
    BY <1>1, <1>2, StoreSame
  <1>5. ModeInv'
    BY <1>1, <1>2 DEF ModeInv
  <1> QED BY <1>2, <1>3, <1>4, <1>5 DEF CInv

LEMMA EditingFacts ==
    ASSUME CInv, Editing
    PROVE  /\ CTypeOK /\ MarksInv /\ CursorOnMessage /\ list' = list /\ writes' = writes
           /\ height' = height /\ height \in Nat \ {0} /\ scroll_top \in Nat \ {0}
           /\ cur \in Nat /\ flags \subseteq Nat /\ overflow \in BOOLEAN /\ dirty \in BOOLEAN
           /\ undo \in Seq(Entries) /\ redo \in Seq(Entries)
           /\ Count \in Nat /\ Count' = Count /\ Len(list') = Count
           /\ \A i \in 1 .. Len(undo) : undo[i].pos \in 1 .. Count
           /\ \A i \in 1 .. Len(redo) : redo[i].pos \in 1 .. Count
           /\ 1 .. Count \subseteq Nat
  BY DEF CInv, CTypeOK, Editing, Count, MarksInv

\* The flag of one position is set to w; an entry tells what it was.
LEMMA OneFlag ==
    ASSUME CInv, Editing, NEW p \in 1 .. Count, NEW w \in BOOLEAN, Flag({p}, w),
           NEW c \in 1 .. Count, ScrollTo(c, scroll_top),
           dirty' = TRUE \/ dirty' = (flags' \cap (1 .. Count) # {}),
           undo' = Pushed(undo, <<Entry(p, p \in flags)>>),
           overflow' = (overflow \/ Len(undo \o <<Entry(p, p \in flags)>>) > MAX_UNDO),
           redo' = <<>> \/ (redo # <<>> /\ redo' = Front(redo))
    PROVE  CInv'
  <1> DEFINE e == Entry(p, p \in flags)
             s == <<e>>
  <1>1. /\ CTypeOK /\ MarksInv /\ list' = list /\ writes' = writes /\ height' \in Nat \ {0}
        /\ scroll_top \in Nat \ {0} /\ undo \in Seq(Entries) /\ redo \in Seq(Entries)
        /\ flags \subseteq Nat /\ Count \in Nat /\ Count' = Count /\ Len(list') = Count
        /\ \A i \in 1 .. Len(undo) : undo[i].pos \in 1 .. Count
        /\ \A i \in 1 .. Len(redo) : redo[i].pos \in 1 .. Count
    BY EditingFacts
  <1>2. p \in Nat /\ (p \in flags) \in BOOLEAN /\ c \in Nat
    BY <1>1
  <1>3. /\ e.pos = p /\ (e.was <=> p \in flags) /\ s \in Seq(Entries) /\ Len(s) = 1
        /\ \A i \in 1 .. 1 : s[i] = e
    <2> DEFINE b == p \in flags
    <2>1. b \in BOOLEAN
      OBVIOUS
    <2>2. e = Entry(p, b)
      OBVIOUS
    <2> HIDE DEF b
    <2>3. Entry(p, b).pos = p /\ Entry(p, b).was = b /\ <<Entry(p, b)>> \in Seq(Entries)
          /\ Len(<<Entry(p, b)>>) = 1 /\ \A i \in 1 .. 1 : <<Entry(p, b)>>[i] = Entry(p, b)
      BY <1>2, <2>1, OneEntry
    <2> QED BY <2>3, Zenon DEF b
  <1>4. undo' = Pushed(undo, s) /\ overflow' = (overflow \/ Len(undo \o s) > MAX_UNDO)
    OBVIOUS
  <1> HIDE DEF s, e
  <1>5. \A i \in 1 .. Len(s) : s[i].pos = p /\ (s[i].was => p \in flags)
    BY <1>3
  <1>6. flags' \subseteq flags \cup {p} /\ flags' \subseteq Nat
    BY <1>1, <1>2 DEF Flag
  <1>7. cur' \in Nat /\ scroll_top' \in Nat \ {0} /\ CursorOnMessage'
    BY <1>1, <1>2, ScrollKeeps
  <1>8. undo' \in Seq(Entries) /\ Len(undo') =< MAX_UNDO
    BY <1>1, <1>3, <1>4, PushedFacts
  <1>9. redo' \in Seq(Entries) /\ \A i \in 1 .. Len(redo') : redo'[i].pos \in 1 .. Count
    <2>1. CASE redo' = <<>>
      BY <2>1
    <2>2. CASE redo # <<>> /\ redo' = Front(redo)
      <3>1. /\ Front(redo) \in Seq(Entries) /\ Len(Front(redo)) = Len(redo) - 1
            /\ \A i \in 1 .. Len(redo) - 1 : Front(redo)[i] = redo[i] /\ i \in 1 .. Len(redo)
        BY <2>2, <1>1, FrontFacts
      <3> QED BY <2>2, <3>1, <1>1
    <2> QED BY <2>1, <2>2
  <1>10. MarksInv'
    <2>1. \A i \in 1 .. Len(s) : s[i].pos \in 1 .. Count
      BY <1>5
    <2>2. \A i \in 1 .. Len(undo') : undo'[i].pos \in 1 .. Count
      BY <1>1, <1>3, <1>4, <2>1, PushPlaces
    <2>3. ASSUME writes \in {"never", "first"}
          PROVE  (~overflow' => UnwoundInv') /\ (flags' # {} => dirty') /\ flags' \subseteq 1 .. Count
      <3>1. (~overflow => UnwoundInv) /\ flags \subseteq 1 .. Count
        BY <1>1, <2>3 DEF MarksInv
      <3>2. \A x \in flags' : x \in flags \/ \E i \in 1 .. Len(s) : s[i].pos = x
        BY <1>3, <1>5, <1>6
      <3>3. \A i \in 1 .. Len(s) : s[i].was => s[i].pos \in flags
        BY <1>5
      <3>4. ~overflow' => UnwoundInv'
        BY <1>1, <1>3, <1>4, <3>1, <3>2, <3>3, PushUnwinds
      <3>5. flags' \subseteq 1 .. Count
        BY <3>1, <1>6
      <3>6. flags' # {} => dirty'
        BY <3>5
      <3> QED BY <3>4, <3>5, <3>6
    <2> QED BY <1>1, <1>8, <1>9, <2>2, <2>3 DEF MarksInv
  <1>11. dirty' \in BOOLEAN /\ overflow' \in BOOLEAN
    BY Zenon
  <1> QED BY <1>6, <1>7, <1>8, <1>9, <1>10, <1>11, EditKeeps

LEMMA DeleteKeeps == CInv /\ KeyDelete => CInv'
  <1> SUFFICES ASSUME CInv, KeyDelete PROVE CInv'
    OBVIOUS
  <1>1. /\ Editing /\ cur \in 1 .. Count
        /\ undo_push(<<Entry(cur, cur \in flags)>>) /\ Flag({cur}, cur \notin flags) /\ dirty' = TRUE
        /\ ScrollTo(Min({Count, cur + 1}), scroll_top)
    BY DEF KeyDelete
  <1> DEFINE n == Count
             c == Min({n, cur + 1})
             w == cur \notin flags
  <1>2. n \in Nat /\ n \in Int /\ cur + 1 \in Int
    BY <1>1, EditingFacts
  <1>3. c = IF n =< cur + 1 THEN n ELSE cur + 1
    <2> HIDE DEF n
    <2> QED BY <1>2, TwoNumbers
  <1>4. c \in 1 .. Count
    <2> HIDE DEF c
    <2> QED BY <1>1, <1>2, <1>3
  <1>5. w \in BOOLEAN /\ Flag({cur}, w)
    BY <1>1
  <1>6. ScrollTo(c, scroll_top)
    BY <1>1
  <1>7. undo' = Pushed(undo, <<Entry(cur, cur \in flags)>>) /\ redo' = <<>>
        /\ overflow' = (overflow \/ Len(undo \o <<Entry(cur, cur \in flags)>>) > MAX_UNDO)
    BY <1>1, Zenon DEF undo_push
  <1> HIDE DEF c, w
  <1> QED BY <1>1, <1>4, <1>5, <1>6, <1>7, OneFlag

LEMMA RedoKeeps == CInv /\ KeyRedo => CInv'
  <1> SUFFICES ASSUME CInv, KeyRedo PROVE CInv'
    OBVIOUS
  <1> DEFINE p == Last(redo).pos
             w == Last(redo).was
             b == p \in flags
             s == <<Entry(p, b)>>
  <1>1. /\ Editing /\ redo # <<>> /\ Flag({p}, w) /\ ScrollTo(p, scroll_top)
        /\ dirty' = (flags' \cap (1 .. Count) # {}) /\ redo' = Front(redo)
        /\ undo' = Pushed(undo, s)
    BY Zenon DEF KeyRedo, PutBack
  <1>2. overflow' = (overflow \/ Len(undo) = MAX_UNDO)
    BY Zenon DEF KeyRedo
  <1>3. /\ undo \in Seq(Entries) /\ redo \in Seq(Entries) /\ Len(undo) =< MAX_UNDO
        /\ 1 .. Count \subseteq Nat
        /\ \A i \in 1 .. Len(redo) : redo[i].pos \in 1 .. Count
    <2>1. MarksInv
      BY <1>1, EditingFacts
    <2>2. Len(undo) =< MAX_UNDO
      BY <2>1 DEF MarksInv
    <2> QED BY <1>1, <2>2, EditingFacts
  <1>4. Len(redo) \in 1 .. Len(redo) /\ Last(redo) = redo[Len(redo)] /\ Last(redo) \in Entries
    BY <1>1, <1>3, FrontFacts
  <1>5. p \in 1 .. Count /\ p \in Nat
    BY <1>3, <1>4
  <1>6. w \in BOOLEAN
    BY <1>4, Zenon DEF Entries
  <1>7. b \in BOOLEAN
    OBVIOUS
  <1>8. overflow' = (overflow \/ Len(undo \o s) > MAX_UNDO)
    <2>1. Len(s) = 1 /\ s \in Seq(Entries)
      <3> HIDE DEF b, p
      <3> QED BY <1>5, <1>7, OneEntry
    <2> HIDE DEF s
    <2> HIDE DEF p, w, b
    <2>2. Len(undo \o s) = Len(undo) + 1
      <3>1. undo \in Seq(Entries) /\ s \in Seq(Entries)
        BY <1>3, <2>1, Zenon
      <3>2. Len(undo \o s) = Len(undo) + Len(s)
        BY <3>1, PushedFacts, Zenon
      <3> QED BY <2>1, <3>2, Zenon
    <2>3. Len(undo) = MAX_UNDO <=> Len(undo \o s) > MAX_UNDO
      BY <2>2, <1>3, ChatEditAssumption
    <2> QED BY <1>2, <2>3
  <1>9. /\ undo' = Pushed(undo, <<Entry(p, p \in flags)>>)
        /\ overflow' = (overflow \/ Len(undo \o <<Entry(p, p \in flags)>>) > MAX_UNDO)
    BY <1>1, <1>8, Zenon
  <1> HIDE DEF p, w, b, s
  <1> QED BY <1>1, <1>5, <1>6, <1>9, OneFlag

LEMMA UndoKeeps == CInv /\ KeyUndo => CInv'
  <1> SUFFICES ASSUME CInv, KeyUndo PROVE CInv'
    OBVIOUS
  <1> DEFINE p == Last(undo).pos
             w == Last(undo).was
             b == p \in flags
             s == <<Entry(p, b)>>
             n == Len(undo)
  <1>1. /\ Editing /\ undo # <<>> /\ Flag({p}, w) /\ ScrollTo(p, scroll_top)
        /\ dirty' = (flags' \cap (1 .. Count) # {}) /\ undo' = Front(undo)
        /\ redo' = Pushed(redo, s) /\ overflow' = overflow
    BY Zenon DEF KeyUndo, PutBack
  <1>2. /\ CTypeOK /\ MarksInv /\ list' = list /\ writes' = writes /\ height' \in Nat \ {0}
        /\ scroll_top \in Nat \ {0} /\ undo \in Seq(Entries) /\ redo \in Seq(Entries)
        /\ flags \subseteq Nat /\ Count \in Nat /\ Count' = Count /\ Len(list') = Count
        /\ \A i \in 1 .. Len(undo) : undo[i].pos \in 1 .. Count
        /\ \A i \in 1 .. Len(redo) : redo[i].pos \in 1 .. Count
        /\ overflow \in BOOLEAN /\ 1 .. Count \subseteq Nat
    BY <1>1, EditingFacts
  <1>3. /\ Front(undo) \in Seq(Entries) /\ Len(Front(undo)) = n - 1
        /\ \A i \in 1 .. n - 1 : Front(undo)[i] = undo[i] /\ i \in 1 .. n
        /\ n \in 1 .. n /\ Last(undo) = undo[n] /\ Last(undo) \in Entries /\ n \in Nat
    <2>1. n \in Nat
      BY <1>2
    <2> QED BY <2>1, <1>1, <1>2, FrontFacts
  <1>4. p \in 1 .. Count /\ p \in Nat
    BY <1>2, <1>3
  <1>5. w \in BOOLEAN
    BY <1>3, Zenon DEF Entries
  <1>6. b \in BOOLEAN
    OBVIOUS
  <1>7. s \in Seq(Entries) /\ Len(s) = 1 /\ \A i \in 1 .. 1 : s[i] = Entry(p, b) /\ Entry(p, b).pos = p
    <2> HIDE DEF p, b
    <2> QED BY <1>4, <1>6, OneEntry
  <1>8. flags' = IF w THEN flags \cup {p} ELSE flags \ {p}
    BY <1>1, Zenon DEF Flag
  <1>9. cur' \in Nat /\ scroll_top' \in Nat \ {0} /\ CursorOnMessage'
    BY <1>1, <1>2, <1>4, ScrollKeeps
  <1> HIDE DEF s
  <1>10. redo' \in Seq(Entries) /\ \A i \in 1 .. Len(redo') : redo'[i].pos \in 1 .. Count
    <2>1. \A i \in 1 .. Len(s) : s[i].pos \in 1 .. Count
      BY <1>4, <1>7
    <2> QED BY <1>1, <1>2, <1>7, <2>1, PushedFacts, PushPlaces
  <1>11. undo' \in Seq(Entries) /\ Len(undo') = n - 1
         /\ \A i \in 1 .. n - 1 : undo'[i] = undo[i] /\ i \in 1 .. n
    BY <1>1, <1>3
  <1>12. MarksInv'
    <2>1. Len(undo') =< MAX_UNDO /\ \A i \in 1 .. Len(undo') : undo'[i].pos \in 1 .. Count
      BY <1>2, <1>3, <1>11, ChatEditAssumption DEF MarksInv
    <2>2. ASSUME writes \in {"never", "first"}
          PROVE  (~overflow' => UnwoundInv') /\ (flags' # {} => dirty') /\ flags' \subseteq 1 .. Count
      <3>1. (~overflow => UnwoundInv) /\ flags \subseteq 1 .. Count
        BY <1>2, <2>2 DEF MarksInv
      <3>2. flags' \subseteq 1 .. Count
        BY <3>1, <1>4, <1>8
      <3>3. flags' # {} => dirty'
        BY <3>2, <1>1
      <3>4. ASSUME ~overflow PROVE UnwoundInv'
        <4>1. /\ \A q \in flags : \E i \in 1 .. n : undo[i].pos = q
              /\ \A i \in 1 .. n : undo[i].was => \E j \in 1 .. i - 1 : undo[j].pos = undo[i].pos
          BY <3>1, <3>4 DEF UnwoundInv
        <4>2. undo[n].pos = p /\ undo[n].was = w
          BY <1>3
        <4>3. 1 .. n = (1 .. n - 1) \cup {n}
          BY <1>3
        <4> HIDE DEF n, p, w
        <4>4. ASSUME NEW q \in flags' PROVE \E i \in 1 .. n - 1 : undo'[i].pos = q
          <5>1. CASE q = p
            <6>1. w
              BY <5>1, <1>8, <4>4
            <6>2. \E j \in 1 .. n - 1 : undo[j].pos = undo[n].pos
              BY <6>1, <4>1, <4>2, <1>3
            <6> QED BY <5>1, <6>2, <4>2, <1>11
          <5>2. CASE q # p
            <6>1. q \in flags
              BY <5>2, <1>8, <4>4
            <6>2. PICK i \in 1 .. n : undo[i].pos = q
              BY <6>1, <4>1
            <6>3. i \in 1 .. n - 1
              BY <5>2, <6>2, <4>2, <4>3
            <6> QED BY <6>2, <6>3, <1>11
          <5> QED BY <5>1, <5>2
        <4>5. ASSUME NEW i \in 1 .. n - 1, undo'[i].was
              PROVE  \E j \in 1 .. i - 1 : undo'[j].pos = undo'[i].pos
          <5>1. undo'[i] = undo[i] /\ i \in 1 .. n
            BY <1>11
          <5>2. PICK j \in 1 .. i - 1 : undo[j].pos = undo[i].pos
            BY <5>1, <4>1, <4>5
          <5>3. j \in 1 .. n - 1
            BY <1>3
          <5> QED BY <5>1, <5>2, <5>3, <1>11
        <4> QED BY <4>4, <4>5, <1>11 DEF UnwoundInv
      <3> QED BY <3>2, <3>3, <3>4, <1>1
    <2> QED BY <1>2, <1>10, <2>1, <2>2 DEF MarksInv
  <1>13. dirty' \in BOOLEAN /\ overflow' \in BOOLEAN /\ flags' \subseteq Nat
    <2>1. dirty' \in BOOLEAN
      BY <1>1, Zenon
    <2> QED BY <2>1, <1>1, <1>2, <1>4, <1>8
  <1> HIDE DEF p, w, b
  <1> QED BY <1>1, <1>9, <1>10, <1>11, <1>12, <1>13, EditKeeps

LEMMA TruncateKeeps == CInv /\ KeyTruncate => CInv'
  <1> SUFFICES ASSUME CInv, KeyTruncate PROVE CInv'
    OBVIOUS
  <1> DEFINE F == Unflagged(cur)
             free == Ascending(F)
             s == [i \in 1 .. Len(free) |-> Entry(free[i], FALSE)]
  <1>1. Editing /\ cur \in 1 .. Count /\ dirty' = TRUE /\ UNCHANGED <<cur, scroll_top>>
    BY DEF KeyTruncate
  <1>2. /\ CTypeOK /\ MarksInv /\ CursorOnMessage /\ list' = list /\ writes' = writes
        /\ height' = height /\ scroll_top \in Nat \ {0} /\ undo \in Seq(Entries)
        /\ redo \in Seq(Entries) /\ cur \in Nat /\ overflow \in BOOLEAN
        /\ flags \subseteq Nat /\ Count \in Nat /\ Count' = Count /\ 1 .. Count \subseteq Nat
        /\ \A i \in 1 .. Len(undo) : undo[i].pos \in 1 .. Count
        /\ \A i \in 1 .. Len(redo) : redo[i].pos \in 1 .. Count
    BY <1>1, EditingFacts
  <1>3. cur' \in Nat /\ scroll_top' \in Nat \ {0} /\ CursorOnMessage'
    BY <1>1, <1>2 DEF CursorOnMessage, Count
  <1>4. CASE free = <<>>
    <2>1. UNCHANGED <<undo, redo, overflow, flags, marked>>
      BY <1>4 DEF KeyTruncate
    <2>2. MarksInv'
      BY <1>1, <1>2, <2>1 DEF MarksInv, UnwoundInv
    <2> QED BY <1>1, <1>2, <1>3, <2>1, <2>2, EditKeeps
  <1>5. CASE free # <<>>
    <2>1. undo_push(s) /\ Flag(Range(free), TRUE)
      BY <1>5 DEF KeyTruncate
    <2>2. F \in SUBSET (1 .. Count)
      BY <1>1, <1>2 DEF Unflagged
    <2> HIDE DEF F
    <2>3. free \in Seq(Nat) /\ \A p \in Nat : p \in F <=> \E i \in 1 .. Len(free) : free[i] = p
      BY <1>2, <2>2, AscendingFacts
    <2> HIDE DEF free
    <2>4. Len(free) \in Nat /\ \A i \in 1 .. Len(free) : free[i] \in Nat /\ free[i] \in F
      BY <2>3
    <2>5. \A i \in 1 .. Len(free) : Entry(free[i], FALSE) \in Entries
                                    /\ Entry(free[i], FALSE).pos = free[i] /\ ~Entry(free[i], FALSE).was
      BY <2>4, Zenon DEF Entry, Entries
    <2>6. s \in Seq(Entries) /\ Len(s) = Len(free) /\ \A i \in 1 .. Len(s) : s[i] = Entry(free[i], FALSE)
      <3> DEFINE n == Len(free)
      <3>1. n \in Nat /\ \A i \in 1 .. n : s[i] = Entry(free[i], FALSE)
        BY <2>4
      <3>2. s \in [1 .. n -> Entries]
        BY <2>5
      <3> HIDE DEF s, n
      <3>3. s \in Seq(Entries) /\ Len(s) = n
        BY <3>1, <3>2
      <3> QED BY <3>1, <3>3 DEF n
    <2> HIDE DEF s
    <2>7. \A i \in 1 .. Len(s) : s[i].pos = free[i] /\ ~s[i].was /\ s[i].pos \in 1 .. Count
      BY <2>2, <2>4, <2>5, <2>6
    <2>8. flags' = flags \cup F
      <3>1. Range(free) = F
        <4>1. DOMAIN free = 1 .. Len(free)
          BY <2>3
        <4>2. F \subseteq Nat
          BY <1>2, <2>2
        <4> QED BY <2>3, <2>4, <4>1, <4>2 DEF Range
      <3> QED BY <2>1, <3>1 DEF Flag
    <2>9. /\ undo' = Pushed(undo, s) /\ redo' = <<>>
          /\ overflow' = (overflow \/ Len(undo \o s) > MAX_UNDO)
      BY <2>1, Zenon DEF undo_push
    <2>10. undo' \in Seq(Entries) /\ Len(undo') =< MAX_UNDO /\ redo' \in Seq(Entries) /\ Len(redo') = 0
      BY <1>2, <2>6, <2>9, PushedFacts
    <2>11. \A i \in 1 .. Len(undo') : undo'[i].pos \in 1 .. Count
      BY <1>2, <2>6, <2>7, <2>9, PushPlaces
    <2>12. ASSUME writes \in {"never", "first"}
           PROVE  (~overflow' => UnwoundInv') /\ flags' \subseteq 1 .. Count
      <3>1. (~overflow => UnwoundInv) /\ flags \subseteq 1 .. Count
        BY <1>2, <2>12 DEF MarksInv
      <3>2. \A p \in F : \E i \in 1 .. Len(s) : s[i].pos = p
        <4>1. F \subseteq Nat
          BY <1>2, <2>2
        <4> TAKE p \in F
        <4>2. PICK i \in 1 .. Len(free) : free[i] = p
          BY <4>1, <2>3
        <4>3. i \in 1 .. Len(s)
          BY <2>6
        <4> QED BY <4>2, <4>3, <2>7
      <3>3. \A p \in flags' : p \in flags \/ \E i \in 1 .. Len(s) : s[i].pos = p
        BY <3>2, <2>8
      <3>4. \A i \in 1 .. Len(s) : s[i].was => s[i].pos \in flags
        BY <2>7
      <3>5. ~overflow' => UnwoundInv'
        BY <1>2, <2>6, <2>9, <3>1, <3>3, <3>4, PushUnwinds
      <3> QED BY <3>1, <3>5, <2>2, <2>8
    <2>13. MarksInv'
      BY <1>1, <1>2, <2>10, <2>11, <2>12 DEF MarksInv
    <2>14. dirty' \in BOOLEAN /\ overflow' \in BOOLEAN /\ flags' \subseteq Nat
      BY <1>1, <1>2, <2>2, <2>8, <2>9
    <2> QED BY <1>1, <1>3, <2>10, <2>13, <2>14, EditKeeps
  <1> QED BY <1>4, <1>5

\* A step of a write.
LEMMA WriteKeeps ==
    ASSUME CInv, NEW here \in {"keys", "create", "send", "reload"},
           NEW there \in {"keys", "create", "send", "reload"}, ~browsing, Writing(here, there), Unread,
           file' \in Seq(Int), backup' \in Seq(Int), taken' \subseteq Int, next' \in Nat \ {0},
           editfaults' = editfaults \/ editfaults' = editfaults + 1,
           writes' \in {"never", "first", "done", "again"},
           writes' \in {"never", "first"} => writes \in {"never", "first"}, StoreInv'
    PROVE  CInv'
  <1>1. /\ CTypeOK /\ CursorOnMessage /\ ModeInv /\ MarksInv
    BY DEF CInv
  <1>2. /\ stage = here /\ stage' = there
        /\ UNCHANGED <<sending, posted, browsing, height, mode, orig, keys>>
        /\ UNCHANGED <<list, cur, scroll_top, flags, dirty, undo, redo, overflow, marked>>
    BY DEF Writing, Unread, place, marks, tty
  <1>3. CTypeOK'
    BY <1>1, <1>2 DEF CTypeOK
  <1>4. CursorOnMessage'
    BY <1>1, <1>2 DEF CursorOnMessage, Count
  <1>5. MarksInv'
    BY <1>1, <1>2 DEF MarksInv, UnwoundInv, Count
  <1>6. ModeInv'
    <2>1. editfaults' = 0 => editfaults = 0
      BY <1>1 DEF CTypeOK
    <2> QED BY <1>1, <1>2, <2>1 DEF ModeInv
  <1> QED BY <1>2, <1>3, <1>4, <1>5, <1>6 DEF CInv

\* Positions below next that are to survive.
Resent == {p \in 1 .. next - 1 : p =< Count /\ p \notin flags}

LEMMA WritesKeep == CInv /\ write_changes => CInv'
  <1> SUFFICES ASSUME CInv, write_changes PROVE CInv'
    OBVIOUS
  <1>0. /\ CTypeOK /\ StoreInv
        /\ browsing => writes = "never"
        /\ file \in Seq(Int) /\ backup \in Seq(Int) /\ taken \subseteq Int /\ next \in Nat \ {0}
        /\ list \in Seq(Int) /\ Count \in Nat /\ editfaults \in Nat
        /\ writes \in {"never", "first", "done", "again"} /\ Absent \in Seq(Int)
    BY DEF CInv, CTypeOK, Count, Absent
  <1> DEFINE A == 1 .. Count
  <1>1. CASE KeyWrite
    <2>1. /\ ~browsing /\ Writing("keys", "create") /\ Unread /\ backup' = file /\ file' = Absent
          /\ next' = 1 /\ writes' = (IF writes = "never" THEN "first" ELSE "again")
          /\ UNCHANGED <<taken, editfaults>>
      BY <1>1 DEF KeyWrite
    <2>0. file' \in Seq(Int) /\ backup' \in Seq(Int) /\ taken' \subseteq Int /\ next' \in Nat \ {0}
      BY <1>0, <2>1
    <2>2. UNCHANGED <<list, sending>> /\ stage' = "create"
      BY <2>1 DEF Writing, Unread
    <2>3. A' = A
      BY <2>2 DEF Count
    <2>4. CASE writes = "never"
      <3>1. HeldBy(A, file) /\ sending \in {NoSender, file}
        BY <1>0, <2>4 DEF StoreInv, Safe
      <3>2. HeldBy(A, backup)' /\ (sending' # NoSender => HeldBy(A, sending)')
        BY <2>1, <2>2, <2>3, <3>1 DEF HeldBy
      <3>3. StoreInv'
        BY <2>1, <2>2, <2>4, <3>2 DEF StoreInv
      <3>4. writes' = "first" /\ writes = "never"
        BY <2>1, <2>4
      <3> QED BY <2>0, <2>1, <3>3, <3>4, WriteKeeps
    <2>5. CASE writes # "never"
      <3>1. writes' = "again"
        BY <2>1, <2>5
      <3>2. StoreInv'
        BY <3>1 DEF StoreInv
      <3> QED BY <2>0, <2>1, <3>1, <3>2, WriteKeeps
    <2> QED BY <2>4, <2>5
  <1>2. CASE chat_create
    <2>1. Unread /\ UNCHANGED <<taken, next, writes>> /\ stage = "create"
      BY <1>2 DEF chat_create, Writing
    <2>2. ~browsing /\ writes # "never"
      BY <1>0, <2>1 DEF StoreInv
    <2>3. UNCHANGED <<list, sending>> /\ A' = A
      BY <1>2 DEF chat_create, Writing, Unread, Count
    <2>4. writes = "first" => /\ HeldBy(A, backup) /\ next = 1
                              /\ sending # NoSender => HeldBy(A, sending)
      BY <1>0, <2>1 DEF StoreInv
    <2>5. CASE Writing("create", "send") /\ file' = <<>> /\ UNCHANGED <<backup, editfaults>>
      <3>1. stage' = "send" /\ file' \in Seq(Int)
        BY <2>5 DEF Writing
      <3>2. writes = "first" => HeldBy(A, backup)' /\ next' = 1
        BY <2>1, <2>3, <2>4, <2>5 DEF HeldBy
      <3>3. writes = "first" => Safe({p \in 1 .. next - 1 : p =< Count /\ p \notin flags})'
        BY <3>2 DEF Safe, HeldBy
      <3>4. writes # "done"
        BY <1>0, <2>1 DEF StoreInv
      <3>5. StoreInv'
        BY <2>1, <2>2, <3>1, <3>2, <3>3, <3>4 DEF StoreInv
      <3> QED BY <1>0, <2>1, <2>2, <2>5, <3>1, <3>5, WriteKeeps
    <2>6. CASE /\ IF file = Absent THEN EditFault ELSE UNCHANGED editfaults
               /\ Writing("create", "keys") /\ file' = backup /\ backup' = Absent
      <3>1. stage' = "keys" /\ (editfaults' = editfaults \/ editfaults' = editfaults + 1)
        BY <2>6 DEF Writing, EditFault
      <3>2. writes = "first" => Safe(A)'
        BY <2>1, <2>3, <2>4, <2>6 DEF HeldBy, Safe
      <3>3. StoreInv'
        BY <2>1, <2>2, <3>1, <3>2 DEF StoreInv
      <3> QED BY <1>0, <2>1, <2>2, <2>6, <3>1, <3>3, WriteKeeps
    <2> QED BY <1>2, <2>5, <2>6 DEF chat_create
  <1>3. CASE SendAgain
    <2> DEFINE p == Min(Unflagged(next))
    <2>1. /\ Unflagged(next) # {} /\ sending = NoSender /\ Writing("send", "send") /\ Unread
          /\ Sent(file, list[p]) /\ next' = p + 1 /\ UNCHANGED <<backup, writes, editfaults>>
      BY <1>3 DEF SendAgain
    <2>2. UNCHANGED <<list, sending, flags>> /\ stage = "send" /\ stage' = "send"
      BY <2>1 DEF Writing, Unread, marks
    <2>3. A' = A
      BY <2>2 DEF Count
    <2>4. ~browsing /\ writes # "never" /\ writes # "done"
      BY <1>0, <2>2 DEF StoreInv
    <2>5. p \in Unflagged(next) /\ \A y \in Unflagged(next) : p =< y
      <3>1. Unflagged(next) \in SUBSET (1 .. Count)
        BY <1>0 DEF Unflagged
      <3> QED BY <1>0, <2>1, <3>1, EndsOf
    <2> HIDE DEF p
    <2>6. p \in 1 .. Count /\ p \in Nat /\ next =< p /\ p \notin flags
      BY <1>0, <2>5 DEF Unflagged
    <2>7. list[p] \in Int
      BY <1>0, <2>6 DEF Count
    <2>8. /\ file' \in Seq(Int) /\ taken' \subseteq Int /\ taken \subseteq taken'
          /\ Range(file) \cup taken \cup {list[p]} \subseteq Range(file') \cup taken'
      BY <1>0, <2>1, <2>7, SentKeeps
    <2>9. ASSUME writes = "first" PROVE HeldBy(A, backup)' /\ Safe(Resent)'
      <3>1. HeldBy(A, backup) /\ HeldBy(Resent, file)
        BY <1>0, <2>2, <2>9 DEF StoreInv, Safe, Resent
      <3>2. HeldBy(A, backup)'
        BY <3>1, <2>1, <2>2, <2>3, <2>8 DEF HeldBy
      <3>3. ASSUME NEW q \in Resent' PROVE q = p \/ q \in Resent
        <4>1. q \in Int /\ q >= 1 /\ q =< p /\ q =< Count /\ q \notin flags
          BY <2>1, <2>2, <2>6 DEF Resent, Count
        <4>2. CASE q >= next
          <5>1. q \in Unflagged(next)
            BY <1>0, <4>1, <4>2 DEF Unflagged
          <5> QED BY <4>1, <5>1, <2>5, <2>6
        <4>3. CASE q < next
          BY <1>0, <4>1, <4>3 DEF Resent
        <4> QED BY <4>1, <4>2, <4>3, <1>0
      <3>4. HeldBy(Resent, file)'
        BY <3>1, <3>3, <2>2, <2>8 DEF HeldBy
      <3> QED BY <3>2, <3>4, <2>1, <2>2 DEF Safe
    <2>10. StoreInv'
      BY <2>1, <2>2, <2>4, <2>9 DEF StoreInv, Resent
    <2>11. next' \in Nat \ {0}
      BY <2>1, <2>6
    <2> QED BY <1>0, <2>1, <2>4, <2>8, <2>10, <2>11, WriteKeeps
  <1>4. CASE SendAgainFails
    <2>1. /\ Writing("send", "keys") /\ Unread /\ editfaults' = editfaults + 1
          /\ UNCHANGED <<file, backup, taken, next, writes>>
      BY <1>4 DEF SendAgainFails, EditFault
    <2>2. UNCHANGED <<list, sending>> /\ stage = "send" /\ stage' = "keys"
      BY <2>1 DEF Writing, Unread
    <2>3. ~browsing
      BY <1>0, <2>2 DEF StoreInv
    <2>4. StoreInv'
      BY <1>0, <2>1, <2>2, StoreSame
    <2> QED BY <1>0, <2>1, <2>3, <2>4, WriteKeeps
  <1>5. CASE UnlinkBackup
    <2>1. /\ Unflagged(next) = {} /\ Writing("send", "reload") /\ Unread /\ backup' = Absent
          /\ writes' = (IF writes = "first" THEN "done" ELSE writes)
          /\ UNCHANGED <<file, taken, next, editfaults>>
      BY <1>5 DEF UnlinkBackup
    <2>2. UNCHANGED <<list, sending, flags>> /\ stage = "send" /\ stage' = "reload"
      BY <2>1 DEF Writing, Unread, marks
    <2>3. ~browsing /\ writes # "never" /\ writes # "done"
      BY <1>0, <2>2 DEF StoreInv
    <2>4. Unflagged(1)' = Unflagged(1)
      BY <2>2 DEF Unflagged, Count
    <2>5. ASSUME writes = "first" PROVE Safe(Unflagged(1))'
      <3>1. Safe(Resent)
        BY <1>0, <2>2, <2>5 DEF StoreInv, Resent
      <3>2. ASSUME NEW q \in Unflagged(1) PROVE q \in Resent
        <4>1. q \in Int /\ q >= 1 /\ q =< Count /\ q \notin flags
          BY <1>0 DEF Unflagged
        <4>2. ~(q >= next)
          <5> SUFFICES ASSUME q >= next PROVE FALSE
            OBVIOUS
          <5>1. q \in next .. Count
            BY <1>0, <4>1
          <5>2. q \in Unflagged(next)
            BY <4>1, <5>1 DEF Unflagged
          <5> QED BY <2>1, <5>2
        <4> QED BY <1>0, <4>1, <4>2 DEF Resent
      <3> QED BY <2>1, <2>2, <2>4, <3>1, <3>2 DEF Safe, HeldBy
    <2>6. StoreInv'
      BY <1>0, <2>1, <2>2, <2>3, <2>5 DEF StoreInv
    <2> QED BY <1>0, <2>1, <2>3, <2>6, WriteKeeps
  <1>6. CASE ReloadFails
    <2>1. /\ Writing("reload", "keys") /\ Unread /\ editfaults' = editfaults + 1
          /\ UNCHANGED <<file, backup, taken, next, writes>>
      BY <1>6 DEF ReloadFails, EditFault
    <2>2. UNCHANGED <<list, sending>> /\ stage = "reload" /\ stage' = "keys"
      BY <2>1 DEF Writing, Unread
    <2>3. ~browsing
      BY <1>0, <2>2 DEF StoreInv
    <2>4. StoreInv'
      BY <1>0, <2>1, <2>2, StoreSame
    <2> QED BY <1>0, <2>1, <2>3, <2>4, WriteKeeps
  <1>7. CASE Reload
    <2> DEFINE n == Len(file)
               m == Min({cur, n})
               c == Max({1, m})
    <2>1. /\ stage = "reload" /\ stage' = "keys" /\ list' = file /\ ScrollTo(c, scroll_top)
          /\ dirty' = FALSE /\ undo' = <<>> /\ redo' = <<>>
          /\ UNCHANGED <<sending, posted, browsing, height, mode, orig, keys>>
          /\ UNCHANGED <<file, backup, taken, next, flags, overflow, writes, editfaults>>
      BY <1>7 DEF Reload, Writing, tty
    <2>2. ~browsing /\ writes \in {"done", "again"}
      BY <1>0, <2>1 DEF StoreInv
    <2>3. n \in Int /\ n \in Nat /\ cur \in Int /\ cur \in Nat /\ scroll_top \in Nat \ {0}
          /\ height' \in Nat \ {0} /\ Len(list') = n
      BY <1>0, <2>1 DEF CTypeOK
    <2>4. m = IF cur =< n THEN cur ELSE n
      <3> HIDE DEF n
      <3> QED BY <2>3, TwoNumbers
    <2>5. m \in Int
      BY <2>3, <2>4
    <2>6. c = IF 1 >= m THEN 1 ELSE m
      <3> HIDE DEF m
      <3> QED BY <2>5, TwoNumbers
    <2> HIDE DEF m, c, n
    <2>7. c \in Nat /\ (n > 0 => c \in 1 .. n)
      BY <2>3, <2>4, <2>6
    <2>8. cur' \in Nat /\ scroll_top' \in Nat \ {0} /\ CursorOnMessage'
      BY <1>0, <2>1, <2>3, <2>7, ScrollKeeps
    <2>9. CTypeOK'
      <3>0. <<>> \in Seq(Entries)
        OBVIOUS
      <3>1. undo' \in Seq(Entries) /\ redo' \in Seq(Entries) /\ dirty' \in BOOLEAN
        BY <2>1, <3>0, Zenon
      <3>2. list' \in Seq(Int) /\ stage' \in {"keys", "viewing", "create", "send", "reload", "gone"}
        BY <1>0, <2>1
      <3> QED BY <1>0, <2>1, <2>8, <3>1, <3>2, SMT DEF CTypeOK
    <2>10. MarksInv'
      <3>1. Len(undo') = 0 /\ Len(redo') = 0 /\ writes' \notin {"never", "first"}
        BY <2>1, <2>2
      <3> QED BY <3>1, ChatEditAssumption DEF MarksInv
    <2>11. StoreInv'
      BY <2>1, <2>2 DEF StoreInv
    <2>12. ModeInv'
      <3>1. ModeInv
        BY DEF CInv
      <3> QED BY <3>1, <2>1 DEF ModeInv
    <2> QED BY <2>1, <2>2, <2>8, <2>9, <2>10, <2>11, <2>12 DEF CInv
  <1> QED BY <1>1, <1>2, <1>3, <1>4, <1>5, <1>6, <1>7 DEF write_changes

LEMMA CInvInit == CInit => CInv
  <1> SUFFICES ASSUME CInit PROVE CInv
    OBVIOUS
  <1>1. PICK n \in 0 .. MaxMessages - 1 : file = [i \in 1 .. n |-> i] /\ posted = n
    BY DEF CInit
  <1>2. n \in Nat /\ file \in Seq(Int) /\ Len(file) = n
    BY <1>1, ChatEditAssumption
  <1>3. /\ browsing \in BOOLEAN /\ backup = Absent /\ sending = NoSender /\ taken = {}
        /\ stage = "keys" /\ list = file /\ height \in Nat \ {0}
        /\ undo = <<>> /\ redo = <<>> /\ overflow = FALSE /\ next = 1 /\ mode = "raw"
        /\ orig = "cooked" /\ writes = "never" /\ keys = 0 /\ editfaults = 0
        /\ flags = {} /\ dirty = FALSE
    BY ChatEditAssumption DEF CInit, chatview_init
  <1> DEFINE end == Max({1, Count})
             H == Hits(found)
             t == Max({1, end - height + 1})
  <1>4. cur = (IF H # {} THEN Min(H) ELSE end) /\ scroll_top = Scrolled(cur, t, height)
    BY DEF CInit, chatview_init
  <1>5. Count = n
    BY <1>2, <1>3 DEF Count
  <1>6. end = IF 1 >= n THEN 1 ELSE n
    <2>1. 1 \in Int /\ n \in Int
      OBVIOUS
    <2> QED BY <1>5, <2>1, TwoNumbers
  <1>7. H # {} => Min(H) \in 1 .. n
    <2>1. H \in SUBSET (1 .. n)
      BY <1>5 DEF Hits
    <2> HIDE DEF H
    <2> QED BY <1>2, <2>1, EndsOf
  <1> HIDE DEF end, H
  <1>8. cur \in Nat \ {0} /\ (n > 0 => cur \in 1 .. n)
    BY <1>2, <1>4, <1>6, <1>7
  <1>9. t \in Nat \ {0}
    <2> DEFINE k == end - height + 1
    <2>1. 1 \in Int /\ k \in Int
      BY <1>2, <1>3, <1>6
    <2> HIDE DEF k
    <2>2. Max({1, k}) = IF 1 >= k THEN 1 ELSE k
      BY <2>1, TwoNumbers
    <2>3. t = Max({1, k})
      BY DEF k
    <2> QED BY <2>1, <2>2, <2>3
  <1> HIDE DEF t
  <1>10. scroll_top \in 1 .. cur /\ cur < scroll_top + height /\ scroll_top \in Nat \ {0}
    <2>1. /\ Scrolled(cur, t, height) \in Nat \ {0}
          /\ cur >= 1 => Scrolled(cur, t, height) \in 1 .. cur /\ cur < Scrolled(cur, t, height) + height
      BY <1>3, <1>8, <1>9, ScrolledShows
    <2> QED BY <2>1, <1>4, <1>8
  <1>11. CursorOnMessage
    BY <1>5, <1>8, <1>10 DEF CursorOnMessage
  <1>12. CTypeOK
    <2>0. <<>> \in Seq(Entries)
      OBVIOUS
    <2>1. undo \in Seq(Entries) /\ redo \in Seq(Entries) /\ dirty \in BOOLEAN /\ overflow \in BOOLEAN
      BY <1>3, <2>0, Zenon
    <2>2. backup \in Seq(Int) /\ sending \in Seq(Int) /\ list \in Seq(Int)
      BY <1>2, <1>3 DEF Absent, NoSender
    <2>3. /\ stage \in {"keys", "viewing", "create", "send", "reload", "gone"}
          /\ writes \in {"never", "first", "done", "again"} /\ posted \in Nat
          /\ taken \subseteq Int /\ flags \subseteq Nat /\ next \in Nat \ {0} /\ keys \in Nat /\ editfaults \in Nat
      BY <1>1, <1>2, <1>3
    <2>4. file \in Seq(Int) /\ cur \in Nat /\ scroll_top \in Nat \ {0} /\ height \in Nat \ {0} /\ browsing \in BOOLEAN
      BY <1>2, <1>3, <1>8, <1>10
    <2> QED BY <2>1, <2>2, <2>3, <2>4, Zenon DEF CTypeOK
  <1>13. MarksInv
    <2>1. Len(undo) = 0 /\ Len(redo) = 0
      BY <1>3
    <2> QED BY <1>3, <2>1, ChatEditAssumption DEF MarksInv, UnwoundInv
  <1>14. StoreInv
    <2>1. \A p \in 1 .. Count : list[p] \in Range(file)
      BY <1>2, <1>3, <1>5 DEF Range
    <2>2. Safe(1 .. Count)
      BY <1>3, <2>1 DEF Safe, HeldBy
    <2> QED BY <1>3, <2>2 DEF StoreInv
  <1>15. ModeInv
    BY <1>3 DEF ModeInv
  <1> QED BY <1>3, <1>11, <1>12, <1>13, <1>14, <1>15 DEF CInv

LEMMA CInvStep == CInv /\ [CNext]_cvars => CInv'
  <1> SUFFICES ASSUME CInv, [CNext]_cvars PROVE CInv'
    OBVIOUS
  <1>1. CASE UNCHANGED cvars
    <2>1. /\ CTypeOK /\ CursorOnMessage /\ StoreInv /\ ModeInv /\ MarksInv
          /\ browsing => flags = {} /\ undo = <<>> /\ redo = <<>> /\ writes = "never"
      BY DEF CInv
    <2>2. /\ Elsewhere /\ UNCHANGED <<file, backup, sending, posted, taken>>
          /\ UNCHANGED <<list, writes, stage, next, flags>>
      BY <1>1 DEF cvars, Elsewhere, disc, marks
    <2>3. StoreInv'
      BY <2>1, <2>2, StoreSame
    <2> QED BY <2>1, <2>2, <2>3, OthersKeep DEF CTypeOK
  <1>2. CASE CNext
    BY <1>2, MovesKeep, StagesKeep, PollKeeps, DeleteKeeps, TruncateKeeps, UndoKeeps, RedoKeeps,
       WritesKeep, SendersKeep DEF CNext
  <1> QED BY <1>1, <1>2

LEMMA CInvSound == CInv => EditSound
  <1> SUFFICES ASSUME CInv PROVE EditSound
    OBVIOUS
  <1>1. /\ CTypeOK /\ CursorOnMessage /\ StoreInv /\ ModeInv /\ MarksInv
    BY DEF CInv
  <1>2. ASSUME writes \in {"never", "first"} PROVE UndoReturns
    <2>1. (~overflow => UnwoundInv) /\ (flags # {} => dirty)
      BY <1>1, <1>2 DEF MarksInv
    <2>2. ~overflow => Unwound = {}
      BY <1>1, <2>1, UnwoundEmpty
    <2>3. ASSUME NEW e \in Range(undo \o redo) PROVE e.pos \in 1 .. Count
      <3>1. undo \in Seq(Entries) /\ redo \in Seq(Entries)
        BY <1>1 DEF CTypeOK
      <3> DEFINE t == undo \o redo
      <3>2. t \in Seq(Entries) /\ Len(t) = Len(undo) + Len(redo) /\ Len(undo) \in Nat /\ Len(redo) \in Nat
            /\ \A i \in 1 .. Len(t) : t[i] = IF i =< Len(undo) THEN undo[i] ELSE redo[i - Len(undo)]
        BY <3>1
      <3> HIDE DEF t
      <3>3. PICK i \in 1 .. Len(t) : e = t[i]
        BY <3>2, <2>3 DEF Range, t
      <3>4. CASE i =< Len(undo)
        <4>1. i \in 1 .. Len(undo) /\ e = undo[i]
          BY <3>2, <3>3, <3>4
        <4> QED BY <4>1, <1>1 DEF MarksInv
      <3>5. CASE ~(i =< Len(undo))
        <4>1. i - Len(undo) \in 1 .. Len(redo) /\ e = redo[i - Len(undo)]
          BY <3>2, <3>3, <3>5
        <4> QED BY <4>1, <1>1 DEF MarksInv
      <3> QED BY <3>4, <3>5
    <2> QED BY <2>1, <2>2, <2>3 DEF UndoReturns
  <1>3. ASSUME Safe(Unflagged(1)) \/ HeldBy(1 .. Count, backup) \/ Safe(1 .. Count)
        PROVE SurvivorsStored
    <2> SUFFICES ASSUME NEW m, Survives(m) PROVE m \in Stored
      BY DEF SurvivorsStored
    <2>1. PICK p \in 1 .. Count : list[p] = m /\ p \notin flags
      BY DEF Survives
    <2>2. p \in Unflagged(1)
      BY <2>1 DEF Unflagged
    <2> QED BY <1>3, <2>1, <2>2 DEF Stored, Safe, HeldBy
  <1>4. writes \in {"never", "first"} => SurvivorsStored
    BY <1>1, <1>3 DEF StoreInv
  <1>5. writes = "done" /\ stage = "reload" => SurvivorsStored
    BY <1>1, <1>3 DEF StoreInv
  <1>6. stage = "gone" /\ editfaults = 0 /\ ~ReadsOutside(TRUE) /\ ~ReadsOutside(FALSE) => mode = "cooked"
    BY <1>1 DEF ModeInv
  <1> QED BY <1>1, <1>2, <1>4, <1>5, <1>6 DEF EditSound

\* The list and the editor of messages (nbs-chatview, nbs-chat-edit): the cursor
\* stays on a message in view, taking back all marks leaves none, the first
\* write loses no message that is to survive, and the terminal is given back.
THEOREM EditSoundTheorem == CSpec => []EditSound
  <1>1. CInv /\ [CNext]_cvars => CInv'
    BY CInvStep
  <1> QED BY CInvInit, <1>1, CInvSound, PTL DEF CSpec
=============================================================================
