------------------------------ MODULE BusQueue ------------------------------
(***************************************************************************)
(* What the bus promises: an event goes from pending to processed to gone, *)
(* one step at a time, and is never in two places or lost from all.        *)
(***************************************************************************)

VARIABLES pending, processed, gone

vars == <<pending, processed, gone>>

Known == pending \cup processed \cup gone

Init == pending = {} /\ processed = {} /\ gone = {}

Publish ==
    /\ \E e \in pending' : e \notin Known /\ pending' = pending \cup {e}
    /\ UNCHANGED <<processed, gone>>

Acknowledge ==
    /\ \E e \in pending : /\ pending' = pending \ {e}
                          /\ processed' = processed \cup {e}
    /\ UNCHANGED gone

Discard ==
    /\ \E e \in processed : /\ processed' = processed \ {e}
                            /\ gone' = gone \cup {e}
    /\ UNCHANGED pending

Next == Publish \/ Acknowledge \/ Discard

Spec == Init /\ [][Next]_vars

=============================================================================
