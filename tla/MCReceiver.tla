----------------------------- MODULE MCReceiver -----------------------------
(***************************************************************************)
(* Small instances of Receiver for TLC.                                    *)
(***************************************************************************)
EXTENDS Receiver, TLC

\* Connections, names and staging names are interchangeable.  Not for liveness.
Symmetry == Permutations(Conns) \cup Permutations(Names) \cup Permutations(Ids)
============================================================================
