------------------------------- MODULE Sidecar ------------------------------
(***************************************************************************)
(* The notification loop of nbs-sidecar, one for each agent of a team that *)
(* shares one chat and one bus, together with the sends that feed them and *)
(* the agents whose terminals they watch.                                  *)
(*                                                                         *)
(* sc[h] is the state of the sidecar of handle h (sidecar_state_t and the  *)
(* place in the tick).  A tick is cut where the program talks to another   *)
(* process.  The clock is abstract: a cooldown, the startup grace and the  *)
(* deadline of the first prompt each end at some time.                     *)
(***************************************************************************)
EXTENDS Bridge, Integers, Functions

CONSTANTS
    Texts,          \* the texts that are sent
    Posters,        \* those who send
    Supervisor,     \* the handle that URGENT messages address
    ALIVE_ERRORS,   \* consecutive errors of is_alive before the sidecar ends
    BUS_CHECK,      \* bus_check_interval: ticks of a still screen before the bus is looked at
    FAIL_THRESHOLD, \* failed notifications before the chat is warned
    POLL,           \* poll_interval > 0
    MaxMsgs,        \* bound on the messages of the chat
    MaxFaults       \* bound on pauses, polls, killed sends, keys typed by a person,
                    \* deaf agents, ended sessions and killed sidecars

RETRIES == 3        \* failed interrupts before the event is given up

ASSUME SidecarAssumption ==
    /\ Texts \subseteq Seq(Marks)
    /\ Posters \subseteq Handles \cup {Human}
    /\ Supervisor \in Handles
    /\ {ALIVE_ERRORS, BUS_CHECK, FAIL_THRESHOLD} \subseteq Nat \ {0}
    /\ POLL \in BOOLEAN
    /\ MaxMsgs \in Nat
    /\ MaxFaults \in Nat

VARIABLES
    chat,       \* the messages
    cursor,     \* the read cursor of each handle, -1 if it has none
    todo,       \* the events that a send in progress has still to publish
    bus,        \* the pending events
    sc,         \* the sidecars
    screen,     \* what the terminal of each agent shows
    grace,      \* the startup grace of the sidecar is running
    cool,       \* cooldown_is_active
    paused,     \* the file control-pause exists
    faults

vars == <<chat, cursor, todo, bus, sc, screen, grace, cool, paused, faults>>

Gone    == {"dead", "lost"}     \* the session ended; its files cannot be read
Working == {"busy", "reading"}  \* reading: told to read the chat, and not done yet
Screens == Working \cup {"prompt", "trust", "dialogue", "stress"} \cup Gone
Stages  == {"top", "ack", "init", "escape", "alive", "decide", "recapture", "inject",
            "verify", "gone"}
NoEvent == [kind |-> "none", to |-> "team", msg |-> 0, from |-> "sidecar", names |-> {}]

Idle   == {"prompt", "trust", "stress"}     \* detect_prompt_idle, detect_prompt_ready
Trusted == Idle \ {"trust"}                 \* detect_prompt_not_trust

Fresh == [pc |-> "top", wasPaused |-> FALSE, init |-> TRUE, retries |-> 0,
          mention |-> "none", errors |-> 0, suppressed |-> FALSE, started |-> FALSE,
          stable |-> FALSE, quiet |-> 0, fails |-> 0, held |-> NoEvent, then |-> "top"]

Init ==
    /\ chat = <<>> /\ bus = <<>>
    /\ cursor = [h \in Handles |-> -1]
    /\ todo = [a \in Posters |-> <<>>]
    /\ sc = [h \in Handles |-> Fresh]
    /\ screen = [h \in Handles |-> "trust"]
    /\ grace = [h \in Handles |-> TRUE]
    /\ cool = [h \in Handles |-> FALSE]
    /\ paused = FALSE
    /\ faults = 0

Fault == faults < MaxFaults /\ faults' = faults + 1

----------------------------------------------------------------------------
(* Senders *)

\* cmd_send: the message is appended and the sender's cursor is moved to it
\* (both under the chat's lock or right after it), then the bridge starts.
Send(a, text) ==
    /\ todo[a] = <<>>
    /\ Len(chat) < MaxMsgs
    /\ a \in Handles => screen[a] \in Working
    /\ chat' = Append(chat, [from |-> a, text |-> text])
    /\ cursor' = IF a \in Handles THEN [cursor EXCEPT ![a] = Len(chat)] ELSE cursor
    /\ todo' = [todo EXCEPT ![a] = bus_bridge_after_send(chat')]
    /\ UNCHANGED <<bus, sc, screen, grace, cool, paused, faults>>

\* One bus_publish of the bridge.
Publish(a) ==
    /\ todo[a] # <<>>
    /\ bus' = Append(bus, Head(todo[a]))
    /\ todo' = [todo EXCEPT ![a] = Tail(@)]
    /\ UNCHANGED <<chat, cursor, sc, screen, grace, cool, paused, faults>>

\* The send is killed, or its remaining publishes fail.
SendKilled(a) ==
    /\ todo[a] # <<>>
    /\ Fault
    /\ todo' = [todo EXCEPT ![a] = <<>>]
    /\ UNCHANGED <<chat, cursor, bus, sc, screen, grace, cool, paused>>

\* What the sidecar posts: chat_client_send waits for nbs-chat send, and
\* chat_client_error for nbs-chat error, which has no bridge.
Post(from, text) ==
    IF Len(chat) < MaxMsgs
    THEN /\ chat' = Append(chat, [from |-> from, text |-> text])
         /\ bus' = IF from = "sidecar" THEN bus \o bus_bridge_after_send(chat') ELSE bus
    ELSE UNCHANGED <<chat, bus>>

----------------------------------------------------------------------------
(* The tick of a sidecar *)

At(h, stage) == sc[h].pc = stage
Go(h, stage) == sc' = [sc EXCEPT ![h].pc = stage]
\* The screen is no longer the one whose hash was kept.
Rehash(s) == [s EXCEPT !.stable = FALSE]

\* Text and Enter reach the agent, whatever its screen shows by now.
Inject(h) == screen' = [screen EXCEPT ![h] = IF @ \in Gone THEN @ ELSE "reading"]

\* ts_capture: the screen, unless the log cannot be read any more.
ts_capture(h) == screen[h] \notin Gone

\* A query is answered with the screen, or with an error, and always
\* acknowledged.  The @ signs of the screen are made harmless.
CheckQuery(h, s) ==
    LET found == bus_client_check_typed(bus, "chat-query", h) IN
        IF found = {}
        THEN /\ sc' = [sc EXCEPT ![h] = [s EXCEPT !.pc = "init"]]
             /\ UNCHANGED <<chat, bus>>
        ELSE /\ Post(IF ts_capture(h) THEN "sidecar" ELSE "sidecar-error", <<>>)
             /\ sc' = [sc EXCEPT ![h] = [s EXCEPT !.held = CHOOSE e \in found : TRUE,
                                                  !.pc = "ack", !.then = "init"]]

\* The team is paused: only the first prompt is still handled, and the
\* queries while it waits.
TickPaused(h) ==
    /\ At(h, "top") /\ paused
    /\ IF sc[h].init THEN CheckQuery(h, [sc[h] EXCEPT !.wasPaused = TRUE])
                     ELSE sc' = [sc EXCEPT ![h].wasPaused = TRUE] /\ UNCHANGED <<chat, bus>>
    /\ UNCHANGED <<cursor, todo, screen, grace, cool, paused, faults>>

\* The first tick after a pause sends the resume notification if the prompt
\* is there, and forgets the pause in any case.
TickResumed(h) ==
    /\ At(h, "top") /\ ~ paused /\ sc[h].wasPaused
    /\ LET s == [sc[h] EXCEPT !.wasPaused = FALSE] IN
         IF screen[h] \in Trusted
         THEN /\ Inject(h)
              /\ cool' = [cool EXCEPT ![h] = TRUE]
              /\ CheckQuery(h, Rehash(s))
         ELSE CheckQuery(h, s) /\ UNCHANGED <<screen, cool>>
    /\ UNCHANGED <<cursor, todo, grace, paused, faults>>

TickStart(h) ==
    /\ At(h, "top") /\ ~ paused /\ ~ sc[h].wasPaused
    /\ CheckQuery(h, sc[h])
    /\ UNCHANGED <<cursor, todo, screen, grace, cool, paused, faults>>

\* bus_client_ack_event, on the event that was found in an earlier step.
Ack(h) ==
    /\ At(h, "ack")
    /\ bus' = SelectSeq(bus, LAMBDA e : e # sc[h].held)
    /\ sc' = [sc EXCEPT ![h].held = NoEvent, ![h].pc = sc[h].then, ![h].then = "top"]
    /\ UNCHANGED <<chat, cursor, todo, screen, grace, cool, paused, faults>>

\* A mention is kept in the one slot for it and acknowledged at once.
CheckMention(h, s) ==
    LET found == OwnOrTeam(bus, "chat-mention", h)
        e == CHOOSE x \in found : TRUE
    IN  IF found = {} THEN [s EXCEPT !.pc = "alive"]
        ELSE [s EXCEPT !.mention = e.from, !.held = e, !.pc = "ack", !.then = "alive"]

\* An interrupt for the handle, or else for the team; then a mention.
CheckInterrupt(h, s) ==
    LET found == OwnOrTeam(bus, "chat-interrupt", h) IN
        IF found = {} THEN CheckMention(h, [s EXCEPT !.retries = 0])
        ELSE [s EXCEPT !.held = CHOOSE e \in found : TRUE, !.pc = "escape"]

\* A paused team ends the tick before the interrupts.
AfterInit(h, s) == IF s.wasPaused THEN [s EXCEPT !.pc = "top"] ELSE CheckInterrupt(h, s)

\* The first prompt is sent once, when the prompt is there.
InitPrompt(h) ==
    /\ At(h, "init")
    /\ \/ /\ sc[h].init /\ screen[h] \in Trusted
          /\ screen' = [screen EXCEPT ![h] = "busy"]
          /\ sc' = [sc EXCEPT ![h] = AfterInit(h, [@ EXCEPT !.init = FALSE])]
       \/ /\ sc[h].init => screen[h] \notin Trusted
          /\ sc' = [sc EXCEPT ![h] = AfterInit(h, @)]
          /\ UNCHANGED screen
    /\ UNCHANGED <<chat, cursor, todo, bus, grace, cool, paused, faults>>

\* Its deadline, which is after the startup grace, passes.
InitDeadline(h) ==
    /\ At(h, "init") /\ sc[h].init /\ ~ grace[h]
    /\ sc' = [sc EXCEPT ![h] = AfterInit(h, [@ EXCEPT !.init = FALSE])]
    /\ UNCHANGED <<chat, cursor, todo, bus, screen, grace, cool, paused, faults>>

\* handle_interrupt: Escape brings the prompt back and the notice is sent.
Escape(h) ==
    /\ At(h, "escape")
    /\ screen[h] \notin Gone
    /\ Inject(h)
    /\ sc' = [sc EXCEPT ![h] = Rehash([@ EXCEPT !.retries = 0, !.pc = "ack", !.then = "top"])]
    /\ UNCHANGED <<chat, cursor, todo, bus, grace, cool, paused, faults>>

\* The agent does not react for 60 seconds: URGENT is posted, and the event
\* stays for another try until the third failure.
Unresponsive(h) ==
    /\ At(h, "escape")
    /\ Post("sidecar", <<[name |-> Supervisor, flag |-> 0, glued |-> FALSE]>>)
    /\ LET n == sc[h].retries + 1 IN
         sc' = [sc EXCEPT ![h] = Rehash(
                  IF n >= RETRIES
                  THEN [@ EXCEPT !.retries = 0, !.pc = "ack", !.then = "top"]
                  ELSE [@ EXCEPT !.retries = n, !.pc = "top", !.held = NoEvent])]
    /\ UNCHANGED <<cursor, todo, screen, grace, cool, paused>>

EscapeGone(h) == screen[h] \in Gone /\ Unresponsive(h) /\ UNCHANGED faults
EscapeDeaf(h) == screen[h] \in Working /\ Unresponsive(h) /\ Fault

\* chat_client_count_unread_others: messages after the cursor from others.
\* A handle without a cursor counts as one that has read the first message.
Position(h) == IF cursor[h] < 0 THEN 0 ELSE cursor[h]
Unread(h) == {i \in (Position(h) + 2) .. Len(chat) : chat[i].from # h}
chat_client_check_unread(h) == Unread(h) # {}

\* The session is checked: it ended, or its files could not be read for
\* ALIVE_ERRORS ticks.
Errors(h) == IF screen[h] = "lost" THEN sc[h].errors + 1 ELSE 0
CheckAlive(h) ==
    /\ At(h, "alive")
    /\ screen[h] = "dead" \/ Errors(h) >= ALIVE_ERRORS
    /\ Go(h, "gone")
    /\ UNCHANGED <<chat, cursor, todo, bus, screen, grace, cool, paused, faults>>

\* It is noted whether a cooldown holds back unread messages, and the end of
\* that cooldown asks for a catch-up in this tick.
HeldBack(h) == sc[h].suppressed \/ (chat_client_check_unread(h) /\ cool[h])
Catchup(h)  == HeldBack(h) /\ ~ cool[h]
Suppress(h) == [sc[h] EXCEPT !.errors = Errors(h), !.suppressed = HeldBack(h) /\ cool[h]]

\* /nbs-poll is typed whatever the agent does, unless a dialogue is open or
\* the context is full.
Poll(h) ==
    /\ At(h, "alive") /\ POLL
    /\ screen[h] \in Working \cup {"prompt", "trust"}
    /\ Fault
    /\ screen' = [screen EXCEPT ![h] = IF @ = "reading" THEN @ ELSE "busy"]
    /\ sc' = [sc EXCEPT ![h] = Rehash([Suppress(h) EXCEPT !.pc = "top"])]
    /\ UNCHANGED <<chat, cursor, todo, bus, grace, cool, paused>>

\* A dialogue that blocks the agent is answered.
Respond(h) ==
    /\ At(h, "alive") /\ screen[h] = "dialogue"
    /\ screen' = [screen EXCEPT ![h] = "busy"]
    /\ sc' = [sc EXCEPT ![h] = Rehash([Suppress(h) EXCEPT
                                  !.quiet = IF sc[h].stable THEN @ ELSE 0, !.pc = "top"])]
    /\ UNCHANGED <<chat, cursor, todo, bus, grace, cool, paused, faults>>

\* The screen is captured.  A changed one ends the tick unless a catch-up is
\* due; a still one must stay so for BUS_CHECK ticks and show the prompt.
Capture(h) ==
    LET s == Suppress(h)
        quiet == IF s.stable THEN s.quiet + 1 ELSE 1
        due == quiet >= BUS_CHECK \/ Catchup(h)
    IN  /\ At(h, "alive") /\ screen[h] # "dialogue"
        /\ ~ (screen[h] = "dead" \/ Errors(h) >= ALIVE_ERRORS)
        /\ sc' = [sc EXCEPT ![h] =
             CASE ~ ts_capture(h) -> [s EXCEPT !.pc = "top"]
               [] ts_capture(h) /\ ~ s.stable /\ ~ Catchup(h) ->
                    [s EXCEPT !.stable = TRUE, !.quiet = 0, !.pc = "top"]
               [] ts_capture(h) /\ s.stable /\ ~ due ->
                    [s EXCEPT !.quiet = quiet, !.pc = "top"]
               [] screen[h] = "stress" /\ (s.stable \/ Catchup(h)) /\ due ->
                    Rehash([s EXCEPT !.quiet = 0, !.pc = "top"])
               [] OTHER ->
                    [s EXCEPT !.stable = TRUE, !.quiet = 0,
                        !.pc = IF screen[h] \in Idle \/ Catchup(h) THEN "decide" ELSE "top"]]
        /\ UNCHANGED <<chat, cursor, todo, bus, screen, grace, cool, paused, faults>>

\* should_inject_notify.  The first call after the startup grace always says
\* yes and starts the cooldown.  Later a pending event or an unread message
\* is needed; messages of sidecars alone do not count; and the cooldown is
\* only passed by an interrupt on the bus or a kept mention, unless a
\* sidecar wrote it.  The kept mention is used up by the answer yes.
SidecarOnly(h) == \A i \in (Position(h) + 2) .. Len(chat) : chat[i].from = "sidecar"
\* Mutant: unread messages of the chat are not looked at.
PendingBusOnly(h) == bus # <<>>

Pending(h) == bus # <<>> \/ (chat_client_check_unread(h) /\ ~ SidecarOnly(h))
Bypass(h) == Critical(bus) \/ sc[h].mention \notin {"none", "sidecar"}

Decide(h) ==
    /\ At(h, "decide")
    /\ \/ /\ grace[h]
          /\ Go(h, "top") /\ UNCHANGED cool
       \/ /\ ~ grace[h] /\ ~ sc[h].started
          /\ sc' = [sc EXCEPT ![h].started = TRUE, ![h].pc = "recapture"]
          /\ cool' = [cool EXCEPT ![h] = TRUE]
       \/ /\ ~ grace[h] /\ sc[h].started
          /\ IF Pending(h) /\ (Bypass(h) \/ ~ cool[h])
             THEN sc' = [sc EXCEPT ![h].mention = "none", ![h].pc = "recapture"]
             ELSE Go(h, "top")
          /\ UNCHANGED cool
    /\ UNCHANGED <<chat, cursor, todo, bus, screen, grace, paused, faults>>

\* The screen is captured again.  Without a prompt nothing is sent; without
\* a screen the text is sent all the same.
Recapture(h) ==
    /\ At(h, "recapture")
    /\ sc' = [sc EXCEPT ![h] = IF screen[h] \in Idle \cup Gone
                               THEN [@ EXCEPT !.pc = "inject"]
                               ELSE Rehash([@ EXCEPT !.pc = "top"])]
    /\ UNCHANGED <<chat, cursor, todo, bus, screen, grace, cool, paused, faults>>

Notify(h) ==
    /\ At(h, "inject")
    /\ Inject(h)
    /\ Go(h, "verify")
    /\ UNCHANGED <<chat, cursor, todo, bus, grace, cool, paused, faults>>

\* Mutant: a delivered notification acknowledges nothing.
VerifyKeepsBus(h) ==
    /\ At(h, "verify")
    /\ cool' = [cool EXCEPT ![h] = TRUE]
    /\ sc' = [sc EXCEPT ![h] = Rehash([@ EXCEPT !.fails = 0, !.pc = "top"])]
    /\ UNCHANGED <<chat, bus, cursor, todo, screen, grace, paused, faults>>

\* A screen that can be captured counts as a delivered notification, and
\* nbs-bus ack-all, which knows no handle, removes every pending event.
Verify(h) ==
    LET n == sc[h].fails + 1 IN
    /\ At(h, "verify")
    /\ cool' = [cool EXCEPT ![h] = TRUE]
    /\ \/ /\ screen[h] \notin Gone
          /\ bus' = <<>>
          /\ sc' = [sc EXCEPT ![h] = Rehash([@ EXCEPT !.fails = 0, !.pc = "top"])]
          /\ UNCHANGED chat
       \/ /\ ~ ts_capture(h)
          /\ sc' = [sc EXCEPT ![h] = Rehash([@ EXCEPT !.fails = n % FAIL_THRESHOLD, !.pc = "top"])]
          /\ IF n >= FAIL_THRESHOLD
             THEN Post("sidecar-error", <<[name |-> Supervisor, flag |-> 0, glued |-> FALSE]>>)
             ELSE UNCHANGED <<chat, bus>>
    /\ UNCHANGED <<cursor, todo, screen, grace, paused, faults>>

\* nbs-claude starts the sidecar again, on a new session if the old one ended.
Restart(h) ==
    /\ At(h, "gone")
    /\ sc' = [sc EXCEPT ![h] = Fresh]
    /\ screen' = [screen EXCEPT ![h] = IF @ \in Gone THEN "trust" ELSE @]
    /\ grace' = [grace EXCEPT ![h] = TRUE]
    /\ cool' = [cool EXCEPT ![h] = FALSE]
    /\ UNCHANGED <<chat, cursor, todo, bus, paused, faults>>

Tick(h) ==
    \/ TickPaused(h) \/ TickResumed(h) \/ TickStart(h)
    \/ Ack(h) \/ InitPrompt(h) \/ Escape(h) \/ EscapeGone(h) \/ CheckAlive(h) \/ Respond(h)
    \/ Capture(h) \/ Decide(h) \/ Recapture(h) \/ Notify(h) \/ Verify(h)
    \/ Restart(h)

----------------------------------------------------------------------------
(* The agents, the people and the clock *)

Shows(h, s) == /\ screen' = [screen EXCEPT ![h] = s]
               /\ sc' = [sc EXCEPT ![h] = Rehash(@)]

\* The agent does what the notification says.
AgentReads(h) ==
    /\ screen[h] = "reading"
    /\ Shows(h, "busy")
    /\ cursor' = IF chat = <<>> THEN cursor ELSE [cursor EXCEPT ![h] = Len(chat) - 1]
    /\ UNCHANGED <<chat, todo, bus, grace, cool, paused, faults>>

\* The agent is done, the context has been compacted, or a person accepted
\* the folder: the prompt is there.
AgentReady(h) ==
    /\ screen[h] \in {"busy", "stress", "trust"}
    /\ Shows(h, "prompt")
    /\ UNCHANGED <<chat, cursor, todo, bus, grace, cool, paused, faults>>

AgentStops(h) ==
    /\ screen[h] = "busy"
    /\ \E s \in {"dialogue", "stress"} : Shows(h, s)
    /\ UNCHANGED <<chat, cursor, todo, bus, grace, cool, paused, faults>>

\* A person types into the session, or it ends, or its files are removed.
Disturbed(h) ==
    /\ Fault
    /\ \/ screen[h] = "prompt" /\ Shows(h, "busy")
       \/ screen[h] \notin Gone /\ \E s \in Gone : Shows(h, s)
    /\ UNCHANGED <<chat, cursor, todo, bus, grace, cool, paused>>

\* The files can be read again.
Recovers(h) ==
    /\ screen[h] = "lost"
    /\ Shows(h, "busy")
    /\ UNCHANGED <<chat, cursor, todo, bus, grace, cool, paused, faults>>

\* The sidecar of a member outside Handles delivers a notification and
\* acknowledges the whole bus, or takes one event that names it as well.
OtherSidecar ==
    /\ bus # <<>> /\ Fault
    /\ bus' \in {<<>>} \cup {RemoveAt(bus, i) : i \in DOMAIN bus}
    /\ UNCHANGED <<chat, cursor, todo, sc, screen, grace, cool, paused>>

SidecarKilled(h) ==
    /\ ~ At(h, "gone")
    /\ Fault
    /\ Go(h, "gone")
    /\ UNCHANGED <<chat, cursor, todo, bus, screen, grace, cool, paused>>

TimePasses(h) ==
    /\ \/ grace[h] /\ grace' = [grace EXCEPT ![h] = FALSE] /\ UNCHANGED cool
       \/ cool[h] /\ cool' = [cool EXCEPT ![h] = FALSE] /\ UNCHANGED grace
    /\ UNCHANGED <<chat, cursor, todo, bus, sc, screen, paused, faults>>

Pause ==
    /\ ~ paused /\ Fault /\ paused' = TRUE
    /\ UNCHANGED <<chat, cursor, todo, bus, sc, screen, grace, cool>>

Resume ==
    /\ paused /\ paused' = FALSE
    /\ UNCHANGED <<chat, cursor, todo, bus, sc, screen, grace, cool, faults>>

Next ==
    \/ \E a \in Posters : (\E t \in Texts : Send(a, t)) \/ Publish(a) \/ SendKilled(a)
    \/ \E h \in Handles :
         \/ Tick(h) \/ InitDeadline(h) \/ EscapeDeaf(h) \/ Poll(h) \/ SidecarKilled(h)
         \/ AgentReads(h) \/ AgentReady(h) \/ AgentStops(h) \/ Disturbed(h) \/ Recovers(h)
         \/ TimePasses(h)
    \/ OtherSidecar \/ Pause \/ Resume

Fairness ==
    /\ WF_vars(Resume)
    /\ \A a \in Posters : WF_vars(Publish(a))
    /\ \A h \in Handles : /\ WF_vars(Tick(h)) /\ WF_vars(AgentReads(h))
                          /\ SF_vars(AgentReady(h)) /\ WF_vars(TimePasses(h))

Spec == Init /\ [][Next]_vars /\ Fairness
----------------------------------------------------------------------------

\* A message of somebody else than a sidecar that a handle has not read is
\* read by it (its agent is told to), or the handle posts itself, whatever
\* happens to the events of the message: sidecars acknowledge each other's
\* events, sends die before they publish, sidecars die with a mention kept.
EveryMessageRead ==
    \A h \in Handles : \A i \in 2 .. MaxMsgs :
        (i \in Unread(h) /\ chat[i].from # "sidecar") ~> (i \notin Unread(h))

\* Once nobody sends, the sidecars stop typing notifications into the
\* sessions, although they answer queries and report to the chat themselves.
NoNotificationStorm == <>[][\A h \in Handles : ~ Notify(h)]_vars
=============================================================================
