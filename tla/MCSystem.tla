------------------------------ MODULE MCSystem ------------------------------
(***************************************************************************)
(* Small instances of System for TLC.                                      *)
(***************************************************************************)
EXTENDS System, TLC

\* Workers, connections, names and staging names are interchangeable.
Symmetry == Permutations(Workers) \cup Permutations(Conns)
                \cup Permutations(Names) \cup Permutations(Ids)

\* For counterexamples: runs in which both processes stay up, at most one attempt
\* fails, and nothing is written that the receiver rejects.
Uneventful ==
    /\ starts > 0 => phase = "run"
    /\ srvState \in {"down", "up"}
    /\ \A n \in Names : failedDir[n] = 0
    /\ \A c \in Conns : net[c].rsp # "nack"
    /\ \A c \in Conns : hpc[c] = "exit" => net[c].cli = "closed"

\* Modification times in the order in which the files appear.
Rising == [v \in 1..MaxVersion |-> [mtime |-> v, size |-> 1]]
============================================================================
