------------------------------ MODULE ChatEdit ------------------------------
(***************************************************************************)
(* The list of messages of libchatview, as nbs-chat-terminal shows it for  *)
(* /browse (polling for new messages) and as nbs-chat-edit does (marking   *)
(* messages and rewriting the chat file without them), while other         *)
(* processes send to the same file.                                        *)
(*                                                                         *)
(* A message is a number.  Positions count from 1: index i of the code is  *)
(* position i + 1, and index -1, which Page Down gives on an empty list,   *)
(* is position 0.                                                          *)
(***************************************************************************)
EXTENDS Integers, Sequences, SequencesExt, FiniteSetsExt

CONSTANTS
    MAX_UNDO,
    ARCHIVE_AT,         \* chat_send archives when there are more messages
    ARCHIVE_OFF,        \* and takes this many of them
    Heights,            \* rows for messages that the terminal may have
    Patterns,           \* sets of messages a regular expression matches
    MaxMessages,        \* bound on messages
    MaxKeys,            \* bound on keys that mark, undo or redo
    MaxEditFaults       \* bound on failing calls and kills

\* The terminal has at least four rows, three of them for the bars.
ASSUME ChatEditAssumption ==
    /\ MAX_UNDO \in Nat \ {0}
    /\ ARCHIVE_AT \in Nat /\ ARCHIVE_OFF \in 1 .. ARCHIVE_AT
    /\ Heights \subseteq Nat \ {0}
    /\ \A P \in Patterns : P \subseteq 1 .. MaxMessages
    /\ MaxMessages \in Nat /\ MaxKeys \in Nat /\ MaxEditFaults \in Nat

Absent == <<0>>     \* there is no such file
NoSender == <<-1>>  \* no other process holds the lock of the chat

VARIABLES
    file,       \* messages of the chat file
    backup,     \* messages of <file>.edit-backup
    sending,    \* what a sender that holds the lock has read
    posted,     \* messages so far
    taken,      \* messages an archive has taken
    browsing,   \* /browse, and not the editor
    stage,      \* "keys", "viewing", a step of a write, or "gone"
    list,       \* messages shown
    flags,      \* positions flagged CHATVIEW_MSG_DELETED
    cur, scroll_top, height,
    dirty,
    undo, redo, \* stacks of entries [pos, was]
    overflow,   \* the undo stack has been full
    found,      \* messages the search pattern matches; {} without a pattern
    next,       \* position from which messages are still to be sent again
    mode,       \* of the terminal
    orig,       \* the mode chatview_enable_raw has saved
    marked,     \* messages marked by a key and not yet written
    writes,     \* "never", "first" (begun), "done" (it succeeded) or "again"
    keys,
    editfaults

disc == <<file, backup, sending, posted, taken>>
place == <<cur, scroll_top, height>>
marks == <<flags, dirty, undo, redo, overflow, marked, keys>>
tty == <<mode, orig>>
cvars == <<disc, browsing, stage, list, place, marks, found, next, tty, writes, editfaults>>

Count == Len(list)
EditFault == editfaults < MaxEditFaults /\ editfaults' = editfaults + 1

Hits(P) == {p \in 1 .. Count : list[p] \in P}

\* The cursor at c of a list that began at row t: the loop keeps it in view.
Scrolled(c, t, h) ==
    LET up == Min({t, c})
    IN  Max({1, IF c >= up + h THEN c - h + 1 ELSE up})

\* The list starts at its end, or at the first match of /browse <pattern>.
chatview_init ==
    LET end == Max({1, Count})
    IN  /\ cur = IF Hits(found) # {} THEN Min(Hits(found)) ELSE end
        /\ scroll_top = Scrolled(cur, Max({1, end - height + 1}), height)
        /\ flags = {} /\ dirty = FALSE

\* The editor refuses an empty chat.
CInit ==
    /\ \E n \in 0 .. MaxMessages - 1 : file = [i \in 1 .. n |-> i] /\ posted = n
    /\ browsing \in BOOLEAN
    /\ browsing \/ file # <<>>
    /\ backup = Absent /\ sending = NoSender /\ taken = {}
    /\ stage = "keys" /\ list = file
    /\ height \in Heights
    /\ found \in {{}} \cup (IF browsing THEN Patterns ELSE {})
    /\ chatview_init
    /\ undo = <<>> /\ redo = <<>> /\ overflow = FALSE
    /\ next = 1 /\ mode = "raw" /\ orig = "cooked"
    /\ marked = {} /\ writes = "never" /\ keys = 0 /\ editfaults = 0

-----------------------------------------------------------------------------
(* chatview_run: the keys of the list. *)

ScrollTo(c, t) ==
    /\ cur' = c
    /\ scroll_top' = Scrolled(c, t, height')

\* What a key leaves alone that only moves the cursor.
Looking == stage = "keys" /\ UNCHANGED <<disc, browsing, list, marks, next, writes>>
Steady == UNCHANGED <<stage, height, tty, editfaults>>

\* Page Down clamps to the last index, and so to -1 on an empty list.
Moves ==
    {IF cur > 1 THEN cur - 1 ELSE cur,
     IF cur < Count THEN cur + 1 ELSE cur,
     Max({1, cur - height}),
     Min({Count, cur + height}),
     Max({1, Count})}

KeyMove ==
    /\ Looking /\ Steady /\ UNCHANGED found
    /\ \/ \E c \in Moves : ScrollTo(c, scroll_top)
       \/ ScrollTo(1, 1)

\* The terminal is resized.
Resize ==
    /\ Looking /\ UNCHANGED <<stage, tty, editfaults, found>>
    /\ height' \in Heights
    /\ ScrollTo(cur, scroll_top)

\* The first match in the direction, or else from the other end of the list.
search_forward(P, from) ==
    LET after == {p \in Hits(P) : p >= from}
    IN  IF after # {} THEN Min(after) ELSE IF Hits(P) # {} THEN Min(Hits(P)) ELSE cur

search_backward(P, from) ==
    LET before == {p \in Hits(P) : p =< from}
    IN  IF before # {} THEN Max(before) ELSE IF Hits(P) # {} THEN Max(Hits(P)) ELSE cur

\* On an empty list a search starts outside of the array: forward at index
\* -1, backward (only in /browse) at index 0.
ReadsOutside(forward) ==
    Count = 0 /\ IF forward THEN cur = 0 ELSE cur >= 1

\* A pattern that does not compile leaves none; an empty one the last one.
prompt_search(P, forward) ==
    /\ Looking /\ UNCHANGED <<height, tty, editfaults>>
    /\ forward \/ browsing
    /\ found' = P
    /\ ScrollTo(IF forward THEN search_forward(P, cur) ELSE search_backward(P, cur), scroll_top)
    /\ \/ UNCHANGED stage
       \/ P # {} /\ ReadsOutside(forward) /\ stage' = "gone"

KeyNext ==
    /\ Looking /\ Steady /\ UNCHANGED found
    /\ \/ ScrollTo(search_forward(found, cur + 1), scroll_top)
       \/ ScrollTo(search_backward(found, cur - 1), scroll_top)

chatview_disable_raw == mode' = orig
chatview_enable_raw == orig' = mode /\ mode' = "raw"

\* The viewer gets the terminal as it was.  When pipe() fails the message is
\* shown by the list itself, after chatview_enable_raw has been called again.
view_message ==
    /\ Looking /\ UNCHANGED <<found, place>>
    /\ cur \in 1 .. Count
    /\ stage' = "viewing"
    /\ \/ chatview_disable_raw /\ UNCHANGED <<orig, editfaults>>
       \/ EditFault /\ chatview_enable_raw

ViewerEnds ==
    /\ stage = "viewing" /\ stage' = "keys"
    /\ IF mode = "raw" THEN UNCHANGED tty ELSE chatview_enable_raw
    /\ UNCHANGED <<disc, browsing, list, place, marks, found, next, writes, editfaults>>

\* Escape, or an escape sequence that is not known, leaves without a question;
\* so does Q in the editor, and q when nothing is modified.
Quit ==
    /\ Looking /\ UNCHANGED <<found, place, orig, editfaults>>
    /\ stage' = "gone" /\ chatview_disable_raw

\* The callback of /browse.
chatview_update(new) ==
    /\ list' = new
    /\ LET c == IF cur > Len(new) /\ new # <<>> THEN Len(new) ELSE cur
       IN  ScrollTo(Max({1, c}), scroll_top)

browse_poll_cb ==
    /\ browsing /\ stage = "keys"
    /\ file # Absent /\ Len(file) > Count
    /\ UNCHANGED height /\ chatview_update(file)
    /\ UNCHANGED <<disc, browsing, stage, marks, found, next, tty, writes, editfaults>>

-----------------------------------------------------------------------------
(* editor_key_handler. *)

Editing ==
    /\ stage = "keys" /\ ~browsing
    /\ keys < MaxKeys /\ keys' = keys + 1
    /\ UNCHANGED <<disc, browsing, stage, list, height, found, next, tty, writes, editfaults>>

Entry(p, was) == [pos |-> p, was |-> was]
Pushed(stack, s) == SubSeq(stack \o s, 1, Min({Len(stack \o s), MAX_UNDO}))

undo_push(s) ==
    /\ undo' = Pushed(undo, s)
    /\ overflow' = (overflow \/ Len(undo \o s) > MAX_UNDO)
    /\ redo' = <<>>

\* The flags of the positions in S are set (or cleared).
Flag(S, set) ==
    /\ flags' = IF set THEN flags \cup S ELSE flags \ S
    /\ marked' = LET M == {list[p] : p \in S}
                 IN  IF set THEN marked \cup M ELSE marked \ M

\* Mutant: the entry names the position the cursor moves to.
KeyDeleteMoved ==
    /\ Editing
    /\ cur \in 1 .. Count
    /\ undo_push(<<Entry(Min({Count, cur + 1}), cur \in flags)>>)
    /\ Flag({cur}, cur \notin flags)
    /\ dirty' = TRUE
    /\ ScrollTo(Min({Count, cur + 1}), scroll_top)

KeyDelete ==
    /\ Editing
    /\ cur \in 1 .. Count
    /\ undo_push(<<Entry(cur, cur \in flags)>>)
    /\ Flag({cur}, cur \notin flags)
    /\ dirty' = TRUE
    /\ ScrollTo(Min({Count, cur + 1}), scroll_top)

\* The positions from p on that are not flagged, and a set of positions in
\* ascending order.
Unflagged(p) == {q \in p .. Count : q \notin flags}
Ascending(S) ==
    LET row[i \in 0 .. Count] ==
            IF i = 0 THEN <<>> ELSE IF i \in S THEN Append(row[i - 1], i) ELSE row[i - 1]
    IN  row[Count]

KeyTruncate ==
    /\ Editing
    /\ cur \in 1 .. Count
    /\ LET free == Ascending(Unflagged(cur))
       IN  IF free = <<>>
           THEN UNCHANGED <<undo, redo, overflow, flags, marked>>
           ELSE /\ undo_push([i \in 1 .. Len(free) |-> Entry(free[i], FALSE)])
                /\ Flag(Range(free), TRUE)
    /\ dirty' = TRUE
    /\ UNCHANGED <<cur, scroll_top>>

\* The entry on top of a stack is put back; what it replaces goes on the other.
PutBack(from) ==
    /\ from # <<>>
    /\ Flag({Last(from).pos}, Last(from).was)
    /\ dirty' = (flags' \cap (1 .. Count) # {})
    /\ ScrollTo(Last(from).pos, scroll_top)

KeyUndo ==
    /\ Editing /\ PutBack(undo)
    /\ undo' = Front(undo)
    /\ redo' = Pushed(redo, <<Entry(Last(undo).pos, Last(undo).pos \in flags)>>)
    /\ UNCHANGED overflow

KeyRedo ==
    /\ Editing /\ PutBack(redo)
    /\ redo' = Front(redo)
    /\ undo' = Pushed(undo, <<Entry(Last(redo).pos, Last(redo).pos \in flags)>>)
    /\ overflow' = (overflow \/ Len(undo) = MAX_UNDO)

-----------------------------------------------------------------------------
(* write_changes: the editor takes the lock for each chat_send only. *)

Writing(here, there) ==
    /\ stage = here /\ stage' = there
    /\ UNCHANGED <<sending, posted, browsing, height, found, tty, keys>>
Unread == UNCHANGED <<list, place, marks>>

\* With no message flagged there is nothing to write.
KeyWrite ==
    /\ ~browsing /\ Unflagged(1) # 1 .. Count
    /\ file # Absent
    /\ Writing("keys", "create") /\ Unread
    /\ backup' = file /\ file' = Absent /\ next' = 1
    /\ writes' = IF writes = "never" THEN "first" ELSE "again"
    /\ UNCHANGED <<taken, editfaults>>

\* The creation is exclusive: it also fails when a sender has put back the
\* file it read before.  Then the backup replaces what is there.
chat_create ==
    /\ Unread /\ UNCHANGED <<taken, next, writes>>
    /\ \/ file = Absent /\ Writing("create", "send")
          /\ file' = <<>> /\ UNCHANGED <<backup, editfaults>>
       \/ /\ IF file = Absent THEN EditFault ELSE UNCHANGED editfaults
          /\ Writing("create", "keys")
          /\ file' = backup /\ backup' = Absent

\* chat_send appends, and archives when that makes too many.
Sent(s, m) ==
    LET t == Append(s, m)
    IN  /\ file' = IF Len(t) > ARCHIVE_AT THEN SubSeq(t, ARCHIVE_OFF + 1, Len(t)) ELSE t
        /\ taken' = IF Len(t) > ARCHIVE_AT
                       THEN taken \cup Range(SubSeq(t, 1, ARCHIVE_OFF)) ELSE taken

SendAgain ==
    /\ Unflagged(next) # {} /\ sending = NoSender
    /\ Writing("send", "send") /\ Unread
    /\ Sent(file, list[Min(Unflagged(next))]) /\ next' = Min(Unflagged(next)) + 1
    /\ UNCHANGED <<backup, writes, editfaults>>

\* A message that cannot be sent again ends the write; the backup stays.
SendAgainFails ==
    /\ Unflagged(next) # {} /\ sending = NoSender /\ EditFault
    /\ Writing("send", "keys") /\ Unread
    /\ UNCHANGED <<file, backup, taken, next, writes>>

UnlinkBackup ==
    /\ Unflagged(next) = {}
    /\ Writing("send", "reload") /\ Unread
    /\ backup' = Absent /\ writes' = IF writes = "first" THEN "done" ELSE writes
    /\ UNCHANGED <<file, taken, next, editfaults>>

\* The flags stay as they are; the cursor is clamped once more.
Reload ==
    /\ Writing("reload", "keys")
    /\ list' = file
    /\ ScrollTo(Max({1, Min({cur, Len(file)})}), scroll_top)
    /\ dirty' = FALSE /\ undo' = <<>> /\ redo' = <<>>
    /\ marked' = {}
    /\ UNCHANGED <<file, backup, taken, next, flags, overflow, writes, editfaults>>

ReloadFails ==
    /\ Writing("reload", "keys") /\ Unread /\ EditFault
    /\ UNCHANGED <<file, backup, taken, next, writes>>

write_changes ==
    \/ KeyWrite \/ chat_create \/ SendAgain \/ SendAgainFails \/ UnlinkBackup
    \/ Reload \/ ReloadFails

-----------------------------------------------------------------------------
(* Other processes. *)

Elsewhere == UNCHANGED <<browsing, stage, list, place, marks, found, next, tty, writes, editfaults>>

SenderReads ==
    /\ Elsewhere
    /\ sending = NoSender /\ file # Absent /\ posted < MaxMessages
    /\ sending' = file
    /\ UNCHANGED <<file, backup, posted, taken>>

\* The rename puts the file in place whatever is there by then.
SenderWrites ==
    /\ Elsewhere
    /\ sending # NoSender /\ sending' = NoSender
    /\ Sent(sending, posted + 1) /\ posted' = posted + 1
    /\ UNCHANGED backup

EditKilled ==
    /\ stage # "gone" /\ stage' = "gone" /\ EditFault
    /\ UNCHANGED <<disc, browsing, list, place, marks, found, next, tty, writes>>

CNext ==
    \/ KeyMove \/ Resize \/ KeyNext \/ view_message \/ ViewerEnds \/ Quit
    \/ \E P \in Patterns \cup {{}} : prompt_search(P, TRUE) \/ prompt_search(P, FALSE)
    \/ browse_poll_cb
    \/ KeyDelete \/ KeyTruncate \/ KeyUndo \/ KeyRedo \/ write_changes
    \/ SenderReads \/ SenderWrites \/ EditKilled

CSpec == CInit /\ [][CNext]_cvars

-----------------------------------------------------------------------------
(* Properties. *)

CursorOnMessage ==
    Count > 0 => cur \in 1 .. Count /\ scroll_top \in 1 .. cur /\ cur < scroll_top + height

\* The flags after all the entries of the undo stack are put back.
Unwound ==
    LET back[n \in 0 .. Len(undo)] ==
            IF n = 0 THEN flags
            ELSE LET e == undo[Len(undo) + 1 - n]
                 IN  IF e.was THEN back[n - 1] \cup {e.pos} ELSE back[n - 1] \ {e.pos}
    IN  back[Len(undo)]

\* The marks are those of the undo stack.
UndoReturns ==
    /\ ~overflow => Unwound = {}
    /\ flags # {} => dirty
    /\ \A e \in Range(undo \o redo) : e.pos \in 1 .. Count

\* A message that is listed and not flagged.
Survives(m) == \E p \in 1 .. Count : list[p] = m /\ p \notin flags

Stored == Range(file) \cup Range(backup) \cup taken

\* Messages that are to survive are on disc.
SurvivorsStored ==
    \A m \in Range(list) : Survives(m) => m \in Stored

\* The cursor is on a message that is in view; taking back all the marks
\* leaves none, and marks are not forgotten when the editor asks whether
\* there are any; the first write loses no message that is to survive,
\* whichever step of it fails or is killed and whatever a sender does
\* meanwhile, up to and including the removal of the backup; and the terminal is given back as it was, unless pipe() failed.
EditSound ==
    /\ stage = "keys" => CursorOnMessage
    /\ writes \in {"never", "first"} => UndoReturns
    /\ writes \in {"never", "first"} => SurvivorsStored
    /\ writes = "done" /\ stage = "reload" => SurvivorsStored
    /\ stage = "gone" /\ editfaults = 0 /\ ~ReadsOutside(TRUE) /\ ~ReadsOutside(FALSE) =>
          mode = "cooked"

\* A write leaves out the messages that were marked since the last one, and
\* no other: "Reset flags and undo state" is said of the flags too.
WriteDeletesMarked ==
    stage = "reload" => \A m \in Range(list) : m \in marked \cup Range(file) \cup taken
=============================================================================
