------------------------------ MODULE ChatLog -------------------------------
(***************************************************************************)
(* What a chat promises its users: a log of messages.  Messages enter one  *)
(* at a time in the order of their stamps; a delete takes away the         *)
(* messages after some point and nothing else.                             *)
(***************************************************************************)
EXTENDS Naturals

CONSTANT Handles

VARIABLES
    stored,     \* the messages users can find, in the chat or in an archive
    clock       \* the last stamp taken

vars == <<stored, clock>>

Init == stored = {} /\ clock = 0

Tick == clock' = clock + 1 /\ UNCHANGED stored

\* chat_send: one new message, later than every other.
Append(h, n) ==
    /\ \A m \in stored : m.n < n
    /\ stored' = stored \cup {[h |-> h, n |-> n]}
    /\ UNCHANGED clock

\* nbs-chat delete: what is not later than some stamp stays.
Truncate(n) ==
    /\ stored' = {m \in stored : m.n <= n}
    /\ UNCHANGED clock

Next ==
    \/ Tick
    \/ \E h \in Handles, n \in 1 .. clock : Append(h, n)
    \/ \E n \in 0 .. clock : Truncate(n)

Spec == Init /\ [][Next]_vars

=============================================================================
