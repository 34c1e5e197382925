--------------------------- MODULE MCSenderHealth ---------------------------
(***************************************************************************)
(* Small instances of SenderHealth for TLC.                                *)
(***************************************************************************)
EXTENDS SenderHealth, TLC

\* Room, and a Statfs that failed.
SomeDisks == {[free |-> 50, total |-> 100], [free |-> 0, total |-> 0]}

\* Files and workers are interchangeable.
Symmetry == Permutations(Names) \cup Permutations(Workers)
============================================================================
