------------------------------- MODULE MCBus --------------------------------
(***************************************************************************)
(* Instances of Bus for TLC.                                               *)
(***************************************************************************)
EXTENDS Bus, TLC

CONSTANTS p1, p2

\* The processes are interchangeable.
ProcSymmetry == Permutations(Procs)

=============================================================================
