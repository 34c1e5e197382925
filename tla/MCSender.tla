------------------------------ MODULE MCSender ------------------------------
(***************************************************************************)
(* Small instances of Sender for TLC.                                      *)
(***************************************************************************)
EXTENDS Sender, TLC

\* Workers, connections and names are interchangeable.  Not for liveness.
Symmetry == Permutations(Workers) \cup Permutations(Conns) \cup Permutations(Names)

\* Modification times in the order in which the files appear.
Rising == [v \in 1..MaxVersion |-> [mtime |-> v, size |-> 1]]

\* The file that appears second is the older one.
Falling == [v \in 1..MaxVersion |-> [mtime |-> MaxVersion + 1 - v, size |-> 1]]
============================================================================
