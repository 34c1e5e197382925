---------------------------- MODULE DurableInbox ----------------------------
(***************************************************************************)
(* What the receiver promises, without connections, staging files, syncs   *)
(* or processes: a directory of files, each delivered whole or not at all, *)
(* from which a power loss may take back deliveries, but never one that    *)
(* was confirmed nor anything older.                                       *)
(***************************************************************************)
EXTENDS Naturals

CONSTANT Names

VARIABLES
    offered,    \* the <<name, payload>> pairs handed to the inbox
    file,       \* file[n]: the delivery found under n, and its payload
    count,      \* deliveries so far, which numbers them
    confirmed   \* confirmed[n]: the latest delivery to n that was confirmed

vars == <<offered, file, count, confirmed>>

Empty == [seq |-> 0, ver |-> 0]

Init ==
    /\ offered = {}
    /\ file = [n \in Names |-> Empty]
    /\ count = 0
    /\ confirmed = [n \in Names |-> 0]

\* Somebody hands in more.
Offer ==
    /\ offered \subseteq offered'
    /\ UNCHANGED <<file, count, confirmed>>

\* A payload offered for n appears under n, at once and complete.
Deliver(n) ==
    /\ \E v \in {o[2] : o \in offered} :
         /\ <<n, v>> \in offered
         /\ file' = [file EXCEPT ![n] = [seq |-> count + 1, ver |-> v]]
    /\ count' = count + 1
    /\ UNCHANGED <<offered, confirmed>>

\* The delivery under n or an earlier one is confirmed.
Confirm(n) ==
    /\ \E s \in confirmed[n]..file[n].seq : confirmed' = [confirmed EXCEPT ![n] = s]
    /\ UNCHANGED <<offered, file, count>>

\* What a power loss may leave under n: nothing confirmed is gone, nothing is newer,
\* nothing is damaged.
MayRemain(n, f) ==
    /\ f.seq >= confirmed[n]
    /\ f.seq <= file[n].seq
    /\ f.seq > 0 => <<n, f.ver>> \in offered

Lose ==
    /\ DOMAIN file' = Names
    /\ \A n \in Names : MayRemain(n, file'[n])
    /\ UNCHANGED <<offered, count, confirmed>>

Next ==
    \/ Offer
    \/ \E n \in Names : Deliver(n) \/ Confirm(n)
    \/ Lose

Spec == Init /\ [][Next]_vars
============================================================================
