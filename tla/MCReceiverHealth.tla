-------------------------- MODULE MCReceiverHealth --------------------------
(***************************************************************************)
(* Small instances of ReceiverHealth for TLC.                              *)
(***************************************************************************)
EXTENDS ReceiverHealth, TLC

\* Room, and a Statfs that failed.
SomeDisks == {[free |-> 50, total |-> 100], [free |-> 0, total |-> 0]}

\* Connections are interchangeable.
Symmetry == Permutations(Conns)
============================================================================
