------------------------------- MODULE Bridge -------------------------------
(***************************************************************************)
(* The bus bridge of nbs-chat: which events a sent message causes, and     *)
(* which events a sidecar takes for its own.                               *)
(*                                                                         *)
(* The text of a message is the sequence of its @-marks: the name that     *)
(* follows the @, the sign after the name, and whether the @ is glued to   *)
(* a character of an e-mail address.  The rest of the text carries no      *)
(* control.                                                                *)
(***************************************************************************)
EXTENDS Naturals, Sequences, FiniteSets, SequencesExt

CONSTANTS
    Handles,    \* the agents of the team, each with a sidecar
    Human,      \* a participant without a sidecar
    Begins      \* Begins[h]: the names of which handle h is a prefix

\* Names that are no member of the team: the word that addresses everyone,
\* and the handles under which sidecars post.
Names   == Handles \cup {Human, "team"}
Senders == Handles \cup {Human, "sidecar", "sidecar-error"}

ASSUME BridgeAssumption ==
    /\ Human \notin Handles
    /\ Handles \cap {"team", "sidecar", "sidecar-error"} = {}
    /\ Begins \in [Names -> SUBSET Names]
    /\ \A n \in Names : n \in Begins[n]

\* The sign after a name: none, ! or ?, in the order in which a later mark
\* of the same name replaces an earlier one.
Flags == 0 .. 2
Marks == [name : Names, flag : Flags, glued : BOOLEAN]

----------------------------------------------------------------------------

\* The marks that address somebody: an @ glued to an address is no mark.
Addressing(text) == SelectSeq(text, LAMBDA k : ~ k.glued)

\* bus_extract_mentions: every name once, at its first place, with the
\* highest sign it has anywhere in the text.
bus_extract_mentions(text) ==
    LET marks == Addressing(text)
        first == SelectSeq([i \in 1 .. Len(marks) |-> i],
                   LAMBDA i : \A j \in 1 .. (i - 1) : marks[j].name # marks[i].name)
        top(n) == CHOOSE f \in Flags :
                    /\ \E i \in DOMAIN marks : marks[i].name = n /\ marks[i].flag = f
                    /\ \A i \in DOMAIN marks : marks[i].name = n => marks[i].flag =< f
    IN  [i \in DOMAIN first |->
            [name |-> marks[first[i]].name, flag |-> top(marks[first[i]].name)]]

\* Type and priority of the event for a mark.
KindOf(flag) == <<"chat-mention", "chat-interrupt", "chat-query">>[flag + 1]
Critical(bus) == \E i \in DOMAIN bus : bus[i].kind = "chat-interrupt"

\* An event: its type, the handle at the start of its payload, the message
\* it is about, with its sender, and the names that follow an @ in the
\* payload, which repeats the text.
TextNames(text) == {text[i].name : i \in DOMAIN text}
Event(kind, to, chat) ==
    LET last == chat[Len(chat)] IN
        [kind |-> kind, to |-> to, msg |-> Len(chat), from |-> last.from,
         names |-> {to} \cup TextNames(last.text)]

\* The participants line of the header names everyone who has posted.
read_chat_participants(chat) ==
    SetToSeq({chat[i].from : i \in DOMAIN chat})

\* The events of one mark.  @team becomes one event for each participant,
\* without the sender and without the sidecars.
EventsOfMark(mark, chat) ==
    IF mark.name = "team"
    THEN LET others == SelectSeq(read_chat_participants(chat),
                          LAMBDA p : p \notin {chat[Len(chat)].from, "sidecar"})
         IN  [i \in DOMAIN others |-> Event(KindOf(mark.flag), others[i], chat)]
    ELSE <<Event(KindOf(mark.flag), mark.name, chat)>>

\* bus_bridge_after_send, for the last message of the chat: chat-message,
\* then the events of each mark.
bus_bridge_after_send(chat) ==
    LET last  == chat[Len(chat)]
        marks == bus_extract_mentions(last.text)
    IN  << [Event("chat-message", last.from, chat) EXCEPT !.names = TextNames(last.text)] >>
        \o FlattenSeq([i \in DOMAIN marks |-> EventsOfMark(marks[i], chat)])

----------------------------------------------------------------------------

\* bus_client_check_typed: among the events of the type whose payload holds
\* @handle as a substring (so also those for a name that begins with it, and
\* those whose text only repeats it) the one that nbs-bus check lists first.
\* The bus is the sequence of its events by age; events of one type have one
\* priority and are listed by age.
bus_client_check_typed(bus, kind, h) ==
    LET list == SelectSeq(bus, LAMBDA e : e.kind = kind /\ e.names \cap Begins[h] # {})
    IN  IF list = <<>> THEN {} ELSE {list[1]}

\* The interrupt and mention checks look for the handle and then for "team".
OwnOrTeam(bus, kind, h) ==
    LET own == bus_client_check_typed(bus, kind, h) IN
        IF own # {} THEN own ELSE bus_client_check_typed(bus, kind, "team")
=============================================================================
