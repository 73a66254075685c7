---------------------------- MODULE MCChatFile ------------------------------
(***************************************************************************)
(* Instances of ChatFile for TLC.                                          *)
(***************************************************************************)
EXTENDS ChatFile, TLC

CONSTANTS p1, p2, alice, bob, carol

\* The processes are interchangeable, and so are handles used alike.
Symmetry == Permutations(Procs)
                \cup (IF {alice, bob} \cap Readers = {} /\ {alice, bob} \subseteq Senders
                      THEN Permutations({alice, bob}) ELSE {})

=============================================================================
