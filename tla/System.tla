------------------------------- MODULE System -------------------------------
(***************************************************************************)
(* A sender and a receiver on the two ends of the same connections: the    *)
(* workers of Sender take the place of Receiver's peers, the handlers of   *)
(* Receiver that of the answering and hanging-up environment of Sender.    *)
(***************************************************************************)
EXTENDS Naturals, Sequences, FiniteSets

CONSTANTS
    Names, NoName, Conns, NoConn,
    Workers, AfterAction, Producer, MaxAttempts, MaxVersion, Info, MaxFaults, MaxStarts,
    Ids, NoId, MaxCrashes

ASSUME SystemAssumption ==
    /\ NoName \notin Names /\ NoConn \notin Conns /\ NoId \notin Ids
    /\ AfterAction \in {"archive", "delete"}
    /\ Producer \in {"once", "vacant", "anytime"}
    /\ MaxAttempts \in Nat \ {0}
    /\ Info \in [1..MaxVersion -> [mtime : Nat, size : Nat]]
    /\ MaxVersion \in Nat /\ MaxFaults \in Nat /\ MaxStarts \in Nat /\ MaxCrashes \in Nat

VARIABLES
    net,
    \* the sender's; wpc is its pc, readAcks its acked
    dir, sentDir, failedDir, phase, scPc, todo, seen, stable, states, ahead, items, inQueue,
    attempts, wpc, item, sver, conn, clock, latest, readAcks, faults, starts,
    \* the receiver's; hpc is its pc, ackedSeq its acked
    srvState, acceptor, acc, conns, hpc, hname, hid, hseq, staged, content, synced,
    visible, disk, maybe, commitSeq, ackedSeq, sent, crashes

svars == <<dir, sentDir, failedDir, phase, scPc, todo, seen, stable, states, ahead, items, inQueue,
           attempts, wpc, item, sver, conn, clock, latest, readAcks, faults, starts>>
rvars == <<srvState, acceptor, acc, conns, hpc, hname, hid, hseq, staged, content, synced,
           visible, disk, maybe, commitSeq, ackedSeq, crashes>>
vars == <<net, svars, rvars, sent>>

S == INSTANCE Sender WITH pc <- wpc, acked <- readAcks
R == INSTANCE Receiver WITH pc <- hpc, acked <- ackedSeq, MaxReqs <- 0, nreq <- 0

Init == S!Init /\ R!Init

----------------------------------------------------------------------------
\* Connections this step dials, and those it writes a header on.
Dialled == {c \in Conns : net[c] = S!IdleLink /\ net'[c] # S!IdleLink}
Headed == {c \in Conns : net[c].req.body = "none" /\ net'[c].req.body = "pending"}

\* Anything the sender does; a dial reaches a receiver whose listener is open.
SenderStep ==
    /\ S!SenderNext
    /\ Dialled # {} => srvState \in {"up", "stopping"}
    /\ sent' = sent \cup {<<net'[c].req.name, net'[c].req.ver>> : c \in Headed}
    /\ UNCHANGED rvars

ProducerStep ==
    /\ \E n \in Names : S!Produce(n)
    /\ UNCHANGED <<rvars, sent>>

\* Anything the receiver does, its crashes included.
ReceiverStep ==
    /\ R!ServerNext
    /\ UNCHANGED svars

Next == SenderStep \/ ProducerStep \/ ReceiverStep

Spec == Init /\ [][Next]_vars

----------------------------------------------------------------------------
(* Properties.                                                             *)

\* What the sender can tell of a connection: not whether the receiver has accepted
\* it, nor how much of the request it has read.
clientNet ==
    [c \in Conns |-> [net[c] EXCEPT !.srv = IF @ = "none" THEN "none" ELSE "backlog",
                                    !.req.body = IF @ = "read" THEN "full" ELSE @]]

SV == INSTANCE Sender WITH net <- clientNet, pc <- wpc, acked <- readAcks

\* Whatever the receiver of listener.go and committer.go does, its shutdown, crashes
\* and restarts included, looks to the sender like the answers and hang-ups that
\* Sender allows its peer; so what is proved of Sender holds with this receiver.
ImplementsSender == SV!Spec

\* Version v of n is what the receiver has under n now, and what any power loss
\* leaves there.
StoredSafely(n, v) ==
    /\ visible[n].ver = v
    /\ \A f \in R!CrashFiles(n) : f.ver = v

\* End to end: the last version a producer put under a name is in the watch
\* directory, in .failed/, or safe at the receiver, also after lost ACKs, kills of
\* either process and power losses of the receiver; in particular no reply on a
\* kept connection is taken for the answer to another file.
NeverLost ==
    \A n \in Names :
        \/ latest[n] = 0
        \/ latest[n] \in {dir[n], failedDir[n]}
        \/ StoredSafely(n, latest[n])

\* What is in .sent/ is what the receiver has under that name, or an older version.
ArchivedIsStored ==
    \A n \in Names : sentDir[n] # 0 => visible[n].ver >= sentDir[n]
============================================================================
