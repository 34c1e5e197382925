---------------------------- MODULE SenderProofs ----------------------------
(***************************************************************************)
(* Sender keeps its types; and with producers that use every name once it  *)
(* loses no file, has each in one hand at a time and takes them oldest     *)
(* first: for every set of names, workers and connections, any number of   *)
(* attempts, failures, crashes and restarts.                               *)
(***************************************************************************)
EXTENDS Sender, NetworkProofs, SequenceTheorems, FiniteSetTheorems

\* The scanner pushes only while it has something to push.
PushInv == scPc = "push" => stable # <<>>

\* A name used once is in the directory as the version produced under it or not
\* at all, and that version is what a worker past SendFileHeader has in hand; a
\* worker in postCommit has its ACK.
OnceInv ==
    /\ \A n \in Names : dir[n] \in {0, latest[n]}
    /\ \A w \in Workers :
         pc[w] \in {"stream", "resp", "commit"}
            => sver[w] # 0 /\ sver[w] = latest[item[w].name]
    /\ \A w \in Workers : pc[w] = "commit" => sver[w] \in acked
    /\ NothingLost

------------
\* Inserting an item into a queue gives a queue.
LEMMA InsertType ==
    ASSUME NEW s \in Seq(Items), NEW x \in Items, NEW t \in InsertSorted(s, x)
    PROVE  t \in Seq(Items)
<1>1. Len(s) \in Nat /\ s \in [1..Len(s) -> Items]
    BY LenProperties
<1>2. PICK k \in 1..(Len(s) + 1) : t = InsertAt(s, k, x)
    BY DEF InsertSorted
<1>3. InsertAt(s, k, x) \in [1..(Len(s) + 1) -> Items]
    BY <1>1, <1>2 DEF InsertAt
<1>. QED BY <1>1, <1>2, <1>3, SeqDef

\* Signal only wakes workers that wait.
LEMMA SignalMoves ==
    ASSUME NEW p \in [Workers -> WorkerPcs], NEW q \in Signal(p)
    PROVE  /\ q \in [Workers -> WorkerPcs]
           /\ \A w \in Workers : q[w] = p[w] \/ (p[w] = "wait" /\ q[w] = "pop")
BY DEF Signal, WorkerPcs

\* Every step keeps the links links.
LEMMA NetStep ==
    ASSUME TypeOK, Next PROVE NetTypeOK'
<1>. NetTypeOK
    BY DEF TypeOK
<1>1. CASE Crash
    BY <1>1, LinkOps DEF Crash, NetTypeOK
<1>2. ASSUME NEW w \in Workers, CloseConn(w) PROVE NetTypeOK'
  <2>1. conn[w] \in Conns \cup {NoConn}
    BY DEF TypeOK
  <2>. QED BY <1>2, <2>1, ClientOps DEF CloseConn, NetTypeOK
<1>3. ASSUME NEW w \in Workers, NEW c \in Conns, DialOk(w, c) PROVE NetTypeOK'
    BY <1>3, ClientOps DEF DialOk
<1>4. ASSUME NEW w \in Workers, SendFileHeader(w) PROVE NetTypeOK'
  <2>1. /\ conn[w] \in Conns /\ item[w].name \in Names
        /\ dir[item[w].name] \in Nat
    BY <1>4 DEF SendFileHeader, TypeOK, Talking, Busy, Items
  <2>. QED BY <1>4, <2>1, ClientOps DEF SendFileHeader
<1>5. ASSUME NEW w \in Workers, SendFileBody(w) PROVE NetTypeOK'
  <2>1. conn[w] \in Conns
    BY <1>5 DEF SendFileBody, TypeOK, Talking
  <2>. QED BY <1>5, <2>1, ClientOps DEF SendFileBody
<1>6. ASSUME NEW w \in Workers, ReadAck(w) PROVE NetTypeOK'
  <2>1. conn[w] \in Conns
    BY <1>6 DEF ReadAck, TypeOK, Talking
  <2>. QED BY <1>6, <2>1, ClientOps DEF ReadAck
<1>7. ASSUME NEW c \in Conns, NEW k \in {"ack", "nack"}, PeerAnswer(c, k) PROVE NetTypeOK'
  <2>1. Answered(net[c], k) \in Links
    BY LinkOps DEF NetTypeOK, Replies
  <2>. QED BY <1>7, <2>1 DEF PeerAnswer, NetTypeOK
<1>8. ASSUME NEW cs \in SUBSET Conns, PeerHangup(cs) PROVE NetTypeOK'
    BY <1>8, LinkOps DEF PeerHangup, NetTypeOK
<1>9. CASE UNCHANGED net
    BY <1>9 DEF NetTypeOK
<1>. QED
    BY <1>1, <1>2, <1>3, <1>4, <1>5, <1>6, <1>7, <1>8, <1>9
       DEF Next, SenderNext, EnvStep, StopProgress, ScannerStep, WorkerStep, Start,
        ScannerStop, PoolStop, QueueStop, PoolDone, ScanRead, ScanLock, ScanUnlock,
        ScanPush, ScanEntry, ScanExit, LoopTop, LoopStop, Leave, PopItem, PopWait,
        PopStopped, DialFail, BackoffOver, TransferFail, PostCommit, RecordSuccess,
        MarkCompleted, Produce

\* A rename out of directory d into directory e, or none, gives directories.
LEMMA MoveType ==
    ASSUME NEW d \in [Names -> Nat], NEW e \in [Names -> Nat], NEW n \in Names,
           NEW d1, NEW e1, d1 = d \/ d1 = [d EXCEPT ![n] = 0],
           e1 = e \/ e1 = [e EXCEPT ![n] = d[n]]
    PROVE  d1 \in [Names -> Nat] /\ e1 \in [Names -> Nat]
OBVIOUS

\* A version taken away leaves no later one.
LEMMA MoveBound ==
    ASSUME NEW d \in [Names -> Nat], \A m \in Names : d[m] <= MaxVersion, NEW n \in Names,
           NEW d1, d1 = d \/ d1 = [d EXCEPT ![n] = 0], NEW m \in Names
    PROVE  d1[m] <= MaxVersion
<1>1. MaxVersion \in Nat /\ 0 <= MaxVersion
    BY SenderAssumption
<1>2. CASE d1 = d
    BY <1>2
<1>3. CASE d1 = [d EXCEPT ![n] = 0]
    BY <1>1, <1>3
<1>. QED BY <1>2, <1>3

\* What RecordFailure leaves: a worker other than w is where it was or has been
\* woken up.
LEMMA FailureType ==
    ASSUME TypeOK, NEW w \in Workers, item[w] \in Items,
           NEW p \in {"backoff", "mark", "top"}, RecordFailure(w, p)
    PROVE  /\ items' \in Seq(Items) /\ inQueue' \in SUBSET Names
           /\ attempts' \in [Names -> Nat]
           /\ dir' \in [Names -> Nat] /\ failedDir' \in [Names -> Nat] /\ faults' \in Nat
           /\ pc' \in [Workers -> WorkerPcs]
           /\ pc'[w] = p
           /\ \A v \in Workers \ {w} : pc'[v] = pc[v] \/ pc'[v] = "pop"
           /\ \A n \in Names : dir'[n] <= MaxVersion
<1>1. item[w].name \in Names
    BY DEF Items
<1>0. \A n \in Names : dir'[n] <= MaxVersion
  <2>1. dir' = dir \/ dir' = [dir EXCEPT ![item[w].name] = 0]
    BY DEF RecordFailure, Quarantine
  <2>2. dir \in [Names -> Nat] /\ \A n \in Names : dir[n] <= MaxVersion
    BY DEF TypeOK
  <2>. QED BY <1>1, <2>1, <2>2, MoveBound
<1>2. [pc EXCEPT ![w] = p] \in [Workers -> WorkerPcs]
    BY DEF TypeOK, WorkerPcs
<1>3. CASE ~LastAttempt(w)
  <2>1. attempts' \in [Names -> Nat]
    <3>1. attempts' = [attempts EXCEPT ![item[w].name] = @ + 1]
      BY <1>3 DEF RecordFailure
    <3>. QED BY <1>1, <3>1 DEF TypeOK
  <2>6. UNCHANGED <<dir, failedDir, faults>>
    BY <1>3 DEF RecordFailure
  <2>2. items' \in Seq(Items)
    BY <1>3, InsertType DEF RecordFailure, TypeOK
  <2>3. inQueue' \in SUBSET Names
    BY <1>1, <1>3 DEF RecordFailure, TypeOK
  <2>4. \/ pc' = [pc EXCEPT ![w] = p]
        \/ pc' \in Signal([pc EXCEPT ![w] = p])
    BY <1>3 DEF RecordFailure
  <2>5. /\ pc' \in [Workers -> WorkerPcs]
        /\ pc'[w] = p
        /\ \A v \in Workers \ {w} : pc'[v] = pc[v] \/ pc'[v] = "pop"
    <3>1. /\ [pc EXCEPT ![w] = p][w] = p
          /\ \A v \in Workers \ {w} : [pc EXCEPT ![w] = p][v] = pc[v]
      BY DEF TypeOK
    <3>2. CASE pc' = [pc EXCEPT ![w] = p]
      BY <1>2, <3>1, <3>2
    <3>3. CASE pc' \in Signal([pc EXCEPT ![w] = p])
      BY <1>2, <3>1, <3>3, SignalMoves
    <3>. QED BY <2>4, <3>2, <3>3
  <2>. QED BY <1>0, <2>1, <2>2, <2>3, <2>5, <2>6 DEF TypeOK
<1>4. CASE LastAttempt(w)
  <2>1. attempts' \in [Names -> Nat] /\ inQueue' \in SUBSET Names /\ items' = items
    BY <1>1, <1>4 DEF RecordFailure, TypeOK
  <2>2. pc' = [pc EXCEPT ![w] = p] /\ Quarantine(item[w].name)
    BY <1>4 DEF RecordFailure
  <2>3. dir' \in [Names -> Nat] /\ failedDir' \in [Names -> Nat] /\ faults' \in Nat
    <3>1. \/ dir' = dir /\ failedDir' = failedDir
          \/ /\ dir' = [dir EXCEPT ![item[w].name] = 0]
             /\ failedDir' = [failedDir EXCEPT ![item[w].name] = dir[item[w].name]]
      BY <2>2 DEF Quarantine
    <3>2. faults' = faults \/ faults' = faults + 1
      BY <2>2 DEF Quarantine, Fault
    <3>3. dir \in [Names -> Nat] /\ failedDir \in [Names -> Nat] /\ faults \in Nat
      BY DEF TypeOK
    <3>. QED BY <1>1, <3>1, <3>2, <3>3, MoveType
  <2>4. pc \in [Workers -> WorkerPcs] /\ items \in Seq(Items)
    BY DEF TypeOK
  <2>. QED BY <1>0, <1>2, <2>1, <2>2, <2>3, <2>4
<1>. QED BY <1>3, <1>4

\* The memory of a process that ended is in its types.
LEMMA EndType ==
    ASSUME ProcessEnds
    PROVE  /\ phase' = "off" /\ scPc' = "stopped" /\ todo' = {} /\ seen' = {}
           /\ stable' \in Seq(Items) /\ items' \in Seq(Items) /\ inQueue' = {}
           /\ states' \in [Names -> ScanStates] /\ attempts' \in [Names -> Nat]
           /\ ahead' \in [Names -> SUBSET Names]
           /\ pc' \in [Workers -> WorkerPcs] /\ \A w \in Workers : pc'[w] = "none"
           /\ item' \in [Workers -> Items \cup {NoItem}]
           /\ sver' \in [Workers -> Nat] /\ conn' \in [Workers -> Conns \cup {NoConn}]
<1>1. /\ phase' = "off" /\ scPc' = "stopped" /\ todo' = {} /\ seen' = {} /\ inQueue' = {}
    BY DEF ProcessEnds
<1>2. stable' \in Seq(Items) /\ items' \in Seq(Items)
    BY EmptySeq DEF ProcessEnds
<1>3. states' \in [Names -> ScanStates] /\ ahead' \in [Names -> SUBSET Names]
    BY DEF ProcessEnds, ScanStates, NoState
<1>4. pc' \in [Workers -> WorkerPcs] /\ \A w \in Workers : pc'[w] = "none"
    BY DEF ProcessEnds, WorkerPcs
<1>5. /\ attempts' \in [Names -> Nat] /\ item' \in [Workers -> Items \cup {NoItem}]
      /\ sver' \in [Workers -> Nat] /\ conn' \in [Workers -> Conns \cup {NoConn}]
    BY DEF ProcessEnds
<1>. QED BY <1>1, <1>2, <1>3, <1>4, <1>5

\* Every step keeps the variables in their types.
LEMMA TypeStep ==
    ASSUME TypeOK, PushInv, Next PROVE TypeOK'
<1>. NetTypeOK'
    BY NetStep
<1>. USE DEF fsvars, scvars, qvars, wvars, gvars, Goto, TypeOK, WorkerPcs, Busy, Talking
<1>1. CASE Start
    BY <1>1 DEF Start
<1>2. CASE ScannerStop \/ PoolStop
    BY <1>2 DEF ScannerStop, PoolStop
<1>3. CASE QueueStop
    BY <1>3 DEF QueueStop
<1>4. CASE PoolDone
    BY <1>4, EndType DEF PoolDone
<1>5. CASE Crash
    BY <1>5, EndType DEF Crash
<1>6. CASE ScanRead \/ ScanLock \/ ScanExit
    BY <1>6 DEF ScanRead, ScanLock, ScanExit
<1>7. CASE ScanUnlock
    BY <1>7 DEF ScanUnlock, ScanStates, NoState
<1>8. CASE ScanPush
  <2>1. Head(stable) \in Items /\ Tail(stable) \in Seq(Items)
    BY <1>8, HeadTailProperties DEF ScanPush, PushInv
  <2>2. items' \in Seq(Items)
    BY <1>8, <2>1, InsertType DEF ScanPush, Push
  <2>3. inQueue' \in SUBSET Names
    BY <1>8, <2>1 DEF ScanPush, Push, Items
  <2>4. /\ pc' \in [Workers -> WorkerPcs]
        /\ \A w \in Workers : pc'[w] = pc[w] \/ pc'[w] = "pop"
    <3>1. pc' = pc \/ pc' \in Signal(pc)
      BY <1>8 DEF ScanPush, Push
    <3>2. pc \in [Workers -> WorkerPcs]
      OBVIOUS
    <3>. HIDE DEF TypeOK, WorkerPcs, Busy, Talking
    <3>. QED BY <3>1, <3>2, SignalMoves
  <2>. QED BY <1>8, <2>1, <2>2, <2>3, <2>4 DEF ScanPush
<1>9. ASSUME NEW n \in Names, ScanEntry(n) PROVE TypeOK'
  <2>. DEFINE f == Info[dir[n]]
  <2>0. dir[n] # 0 => f.mtime \in Nat /\ f.size \in Nat
    BY SenderAssumption
  <2>. HIDE DEF f
  <2>1. states' \in [Names -> ScanStates]
    <3>1. states' = states \/ (dir[n] # 0 /\ states' = [states EXCEPT ![n] = Rescanned(states[n], f)])
      BY <1>9 DEF ScanEntry, f
    <3>2. dir[n] # 0 => Rescanned(states[n], f) \in ScanStates
      BY <2>0 DEF Rescanned, ScanStates
    <3>. QED BY <3>1, <3>2
  <2>2. dir[n] # 0 => [name |-> n, mtime |-> f.mtime] \in Items
    BY <2>0 DEF Items
  <2>3. stable' \in Seq(Items)
    <3>1. stable' = stable \/ (dir[n] # 0 /\ stable' \in InsertSorted(stable, [name |-> n, mtime |-> f.mtime]))
      BY <1>9 DEF ScanEntry, f
    <3>. QED BY <2>2, <3>1, InsertType
  <2>4. ahead' \in [Names -> SUBSET Names]
    <3>1. ahead' = ahead \/ ahead' = [ahead EXCEPT ![n] = (todo \cup seen) \ {n}]
      BY <1>9 DEF ScanEntry
    <3>2. ahead \in [Names -> SUBSET Names] /\ todo \subseteq Names /\ seen \subseteq Names
      OBVIOUS
    <3>. HIDE DEF TypeOK
    <3>. QED BY <3>1, <3>2
  <2>5. seen' \in SUBSET Names /\ todo' \in SUBSET Names
    BY <1>9 DEF ScanEntry
  <2>. QED BY <1>9, <2>1, <2>3, <2>4, <2>5 DEF ScanEntry
<1>10. ASSUME NEW w \in Workers, LoopTop(w) PROVE TypeOK'
    BY <1>10 DEF LoopTop
<1>11. ASSUME NEW w \in Workers, Leave(w) PROVE TypeOK'
    BY <1>11 DEF Leave, CloseConn
<1>12. ASSUME NEW w \in Workers, PopItem(w) PROVE TypeOK'
  <2>1. Head(items) \in Items /\ Tail(items) \in Seq(Items)
    BY <1>12, HeadTailProperties DEF PopItem
  <2>. QED BY <1>12, <2>1 DEF PopItem
<1>13. ASSUME NEW w \in Workers, PopWait(w) PROVE TypeOK'
    BY <1>13 DEF PopWait
<1>14. ASSUME NEW w \in Workers, NEW c \in Conns, DialOk(w, c) PROVE TypeOK'
    BY <1>14 DEF DialOk
<1>15. ASSUME NEW w \in Workers, DialFail(w) PROVE TypeOK'
  <2>1. item[w] \in Items /\ RecordFailure(w, "backoff")
    BY <1>15 DEF DialFail
  <2>. HIDE DEF WorkerPcs
  <2>2. /\ items' \in Seq(Items) /\ inQueue' \in SUBSET Names
        /\ attempts' \in [Names -> Nat]
        /\ dir' \in [Names -> Nat] /\ failedDir' \in [Names -> Nat] /\ faults' \in Nat
        /\ pc' \in [Workers -> WorkerPcs] /\ pc'[w] = "backoff"
        /\ \A v \in Workers \ {w} : pc'[v] = pc[v] \/ pc'[v] = "pop"
        /\ \A n \in Names : dir'[n] <= MaxVersion
    BY <2>1, FailureType
  <2>. QED BY <1>15, <2>2 DEF DialFail, DropItem
<1>16. ASSUME NEW w \in Workers, BackoffOver(w) PROVE TypeOK'
    BY <1>16 DEF BackoffOver
<1>17. ASSUME NEW w \in Workers, SendFileHeader(w) PROVE TypeOK'
    BY <1>17 DEF SendFileHeader, Items
<1>18. ASSUME NEW w \in Workers, SendFileBody(w) PROVE TypeOK'
    BY <1>18 DEF SendFileBody
<1>19. ASSUME NEW w \in Workers, ReadAck(w) PROVE TypeOK'
    BY <1>19 DEF ReadAck
<1>20. ASSUME NEW w \in Workers, TransferFail(w) PROVE TypeOK'
  <2>1. PICK p \in {"mark", "top"} :
            /\ RecordFailure(w, p)
            /\ p = IF LastAttempt(w) THEN "mark" ELSE "top"
    BY <1>20 DEF TransferFail
  <2>2. item[w] \in Items
    BY <1>20 DEF TransferFail
  <2>. HIDE DEF WorkerPcs
  <2>3. /\ items' \in Seq(Items) /\ inQueue' \in SUBSET Names
        /\ attempts' \in [Names -> Nat]
        /\ dir' \in [Names -> Nat] /\ failedDir' \in [Names -> Nat] /\ faults' \in Nat
        /\ pc' \in [Workers -> WorkerPcs] /\ pc'[w] = p
        /\ \A v \in Workers \ {w} : pc'[v] = pc[v] \/ pc'[v] = "pop"
        /\ \A n \in Names : dir'[n] <= MaxVersion
    BY <2>1, <2>2, FailureType
  <2>4. /\ item' \in [Workers -> Items \cup {NoItem}] /\ sver' \in [Workers -> Nat]
        /\ conn' \in [Workers -> Conns \cup {NoConn}]
        /\ \A v \in Workers \ {w} : item'[v] = item[v] /\ conn'[v] = conn[v]
        /\ p = "mark" => item'[w] = item[w]
    <3>1. \/ item' = item /\ LastAttempt(w)
          \/ item' = [item EXCEPT ![w] = NoItem] /\ ~LastAttempt(w)
      BY <1>20 DEF TransferFail, DropItem
    <3>2. sver' = [sver EXCEPT ![w] = 0] /\ conn' = [conn EXCEPT ![w] = NoConn]
      BY <1>20 DEF TransferFail, DropItem, CloseConn
    <3>. QED BY <2>1, <3>1, <3>2
  <2>. QED BY <1>20, <2>2, <2>3, <2>4 DEF TransferFail
<1>21. ASSUME NEW w \in Workers, PostCommit(w) PROVE TypeOK'
  <2>1. item[w].name \in Names
    BY <1>21 DEF PostCommit, Items
  <2>2. \/ dir' = dir /\ sentDir' = sentDir
        \/ /\ dir' = [dir EXCEPT ![item[w].name] = 0]
           /\ \/ sentDir' = sentDir
              \/ sentDir' = [sentDir EXCEPT ![item[w].name] = dir[item[w].name]]
    BY <1>21 DEF PostCommit
  <2>3. dir' \in [Names -> Nat] /\ sentDir' \in [Names -> Nat]
    <3>. HIDE DEF TypeOK
    <3>1. dir \in [Names -> Nat] /\ sentDir \in [Names -> Nat]
      BY DEF TypeOK
    <3>. QED BY <2>1, <2>2, <3>1, MoveType
  <2>4. faults' \in Nat
    BY <1>21 DEF PostCommit, Fault
  <2>5. pc' = [pc EXCEPT ![w] = "success"] /\ UNCHANGED <<item, conn>> /\ pc[w] = "commit"
    BY <1>21 DEF PostCommit
  <2>6. \A n \in Names : dir'[n] <= MaxVersion
    <3>. HIDE DEF TypeOK
    <3>1. dir \in [Names -> Nat] /\ \A n \in Names : dir[n] <= MaxVersion
      BY DEF TypeOK
    <3>. QED BY <2>1, <2>2, <3>1, MoveBound
  <2>. QED BY <1>21, <2>3, <2>4, <2>5, <2>6 DEF PostCommit
<1>22. ASSUME NEW w \in Workers, RecordSuccess(w) PROVE TypeOK'
    BY <1>22 DEF RecordSuccess
<1>23. ASSUME NEW w \in Workers, MarkCompleted(w) PROVE TypeOK'
  <2>1. NoState \in ScanStates
    BY DEF NoState, ScanStates
  <2>2. states' \in [Names -> ScanStates]
    BY <1>23, <2>1 DEF MarkCompleted
  <2>3. /\ item' = [item EXCEPT ![w] = NoItem] /\ sver' = [sver EXCEPT ![w] = 0]
        /\ pc' = [pc EXCEPT ![w] = "top"] /\ UNCHANGED conn
    BY <1>23 DEF MarkCompleted, DropItem
  <2>. QED BY <1>23, <2>2, <2>3 DEF MarkCompleted
<1>24. ASSUME NEW n \in Names, Produce(n) PROVE TypeOK'
  <2>1. /\ clock' \in Nat /\ dir' \in [Names -> Nat] /\ latest' \in [Names -> Nat]
        /\ UNCHANGED <<sentDir, failedDir, phase, scvars, qvars, wvars, acked, faults, starts>>
    BY <1>24 DEF Produce
  <2>2. \A m \in Names : dir'[m] <= MaxVersion
    BY <1>24, SenderAssumption DEF Produce
  <2>. QED BY <2>1, <2>2
<1>25. ASSUME NEW c \in Conns, NEW k \in {"ack", "nack"}, PeerAnswer(c, k) PROVE TypeOK'
    BY <1>25 DEF PeerAnswer
<1>26. ASSUME NEW cs \in SUBSET Conns, PeerHangup(cs) PROVE TypeOK'
    BY <1>26 DEF PeerHangup
<1>. QED
    BY <1>1, <1>2, <1>3, <1>4, <1>5, <1>6, <1>7, <1>8, <1>9, <1>10, <1>11, <1>12, <1>13,
       <1>14, <1>15, <1>16, <1>17, <1>18, <1>19, <1>20, <1>21, <1>22, <1>23, <1>24, <1>25,
       <1>26
       DEF Next, SenderNext, EnvStep, StopProgress, ScannerStep, WorkerStep, LoopStop,
        PopStopped

\* The scanner is about to push only when a stable file is left.
LEMMA PushStep ==
    ASSUME TypeOK, PushInv, Next PROVE PushInv'
<1>. USE DEF fsvars, scvars, qvars, wvars, gvars, PushInv
<1>1. CASE ScanPush \/ ScanUnlock
    BY <1>1 DEF ScanPush, ScanUnlock
<1>2. CASE ScanRead \/ ScanLock \/ ScanExit \/ (\E n \in Names : ScanEntry(n))
    BY <1>2 DEF ScanRead, ScanLock, ScanExit, ScanEntry
<1>3. CASE Start \/ ProcessEnds
    BY <1>3 DEF Start, ProcessEnds
<1>4. CASE UNCHANGED <<scPc, stable>>
    BY <1>4
<1>. QED
    BY <1>1, <1>2, <1>3, <1>4
       DEF Next, SenderNext, EnvStep, StopProgress, ScannerStep, WorkerStep, ScannerStop,
        PoolStop, QueueStop, PoolDone, Crash, LoopTop, LoopStop, Leave, PopItem, PopWait,
        PopStopped, DialOk, DialFail, BackoffOver, SendFileHeader, SendFileBody, ReadAck,
        TransferFail, PostCommit, RecordSuccess, MarkCompleted, Produce, PeerAnswer,
        PeerHangup

\* A worker never enters one of the steps OnceInv speaks of by being woken up or
\* stopped, and the versions, the directory and the ACKs stay as they are: then
\* OnceInv stays.
LEMMA OnceFrame ==
    ASSUME TypeOK, OnceInv, UNCHANGED <<dir, failedDir, latest, acked>>,
           \A w \in Workers :
                pc'[w] \in {"stream", "resp", "commit"}
                    => /\ pc[w] \in {"stream", "resp", "commit"}
                       /\ pc'[w] = "commit" => pc[w] = "commit"
                       /\ item'[w] = item[w] /\ sver'[w] = sver[w]
    PROVE  OnceInv'
BY DEF OnceInv, NothingLost

\* A quarantine moves the version of the name, or nothing.
LEMMA OnceFailure ==
    ASSUME TypeOK, OnceInv, NEW w \in Workers, item[w] \in Items,
           NEW p \in {"backoff", "mark", "top"}, RecordFailure(w, p),
           UNCHANGED <<latest, acked>>,
           \A v \in Workers \ {w} : item'[v] = item[v] /\ sver'[v] = sver[v]
    PROVE  OnceInv'
<1>1. item[w].name \in Names
    BY DEF Items
<1>2. /\ pc' \in [Workers -> WorkerPcs] /\ pc'[w] = p
      /\ \A v \in Workers \ {w} : pc'[v] = pc[v] \/ pc'[v] = "pop"
    BY FailureType
<1>3. \/ dir' = dir /\ failedDir' = failedDir
      \/ /\ dir[item[w].name] # 0
         /\ dir' = [dir EXCEPT ![item[w].name] = 0]
         /\ failedDir' = [failedDir EXCEPT ![item[w].name] = dir[item[w].name]]
    BY DEF RecordFailure, Quarantine
<1>4. \A v \in Workers :
        pc'[v] \in {"stream", "resp", "commit"}
            => v # w /\ pc'[v] = pc[v] /\ item'[v] = item[v] /\ sver'[v] = sver[v]
    BY <1>2
<1>5. (\A n \in Names : dir[n] \in {0, latest[n]})'
    BY <1>1, <1>3 DEF OnceInv, TypeOK
<1>6. NothingLost'
  <2>1. CASE dir' = dir /\ failedDir' = failedDir
    BY <2>1 DEF OnceInv, NothingLost
  <2>2. CASE /\ dir[item[w].name] # 0
             /\ dir' = [dir EXCEPT ![item[w].name] = 0]
             /\ failedDir' = [failedDir EXCEPT ![item[w].name] = dir[item[w].name]]
    <3>1. failedDir'[item[w].name] = latest[item[w].name]
      BY <1>1, <2>2 DEF OnceInv, TypeOK
    <3>2. \A n \in Names \ {item[w].name} : dir'[n] = dir[n] /\ failedDir'[n] = failedDir[n]
      BY <2>2 DEF TypeOK
    <3>. QED BY <3>1, <3>2 DEF OnceInv, NothingLost
  <2>. QED BY <1>3, <2>1, <2>2
<1>. QED BY <1>4, <1>5, <1>6 DEF OnceInv

\* Nothing was produced yet.
LEMMA OnceInit == ASSUME Init PROVE OnceInv
BY DEF Init, OnceInv, NothingLost

\* With producers that use a name once every step keeps OnceInv.
LEMMA OnceStep ==
    ASSUME Producer = "once", TypeOK, OnceInv, Next PROVE OnceInv'
<1>. USE DEF fsvars, scvars, qvars, wvars, gvars, Goto
<1>1. CASE Start
    BY <1>1, OnceFrame DEF Start
<1>2. CASE ScannerStop \/ PoolStop \/ QueueStop
    BY <1>2, OnceFrame DEF ScannerStop, PoolStop, QueueStop
<1>3. CASE PoolDone \/ Crash
  <2>1. \A w \in Workers : pc'[w] = "none"
    BY <1>3, EndType DEF PoolDone, Crash
  <2>. QED BY <1>3, <2>1, OnceFrame DEF PoolDone, Crash
<1>4. CASE ScanRead \/ ScanLock \/ ScanExit \/ ScanUnlock \/ (\E n \in Names : ScanEntry(n))
    BY <1>4, OnceFrame DEF ScanRead, ScanLock, ScanExit, ScanUnlock, ScanEntry
<1>5. CASE ScanPush
  <2>1. \A w \in Workers : pc'[w] = pc[w] \/ pc'[w] = "pop"
    BY <1>5, SignalMoves DEF ScanPush, Push, TypeOK
  <2>. QED BY <1>5, <2>1, OnceFrame DEF ScanPush
<1>6. ASSUME NEW w \in Workers,
             LoopTop(w) \/ PopWait(w) \/ BackoffOver(w) \/ RecordSuccess(w)
      PROVE  OnceInv'
    BY <1>6, OnceFrame DEF LoopTop, PopWait, BackoffOver, RecordSuccess, TypeOK
<1>7. ASSUME NEW w \in Workers, Leave(w) PROVE OnceInv'
    BY <1>7, OnceFrame DEF Leave, TypeOK
<1>8. ASSUME NEW w \in Workers, PopItem(w) PROVE OnceInv'
    BY <1>8, OnceFrame DEF PopItem, TypeOK
<1>9. ASSUME NEW w \in Workers, NEW c \in Conns, DialOk(w, c) PROVE OnceInv'
    BY <1>9, OnceFrame DEF DialOk, TypeOK
<1>10. ASSUME NEW w \in Workers, DialFail(w) PROVE OnceInv'
  <2>1. item[w] \in Items
    BY <1>10 DEF DialFail, TypeOK, Busy
  <2>2. \A v \in Workers \ {w} : item'[v] = item[v] /\ sver'[v] = sver[v]
    BY <1>10 DEF DialFail, DropItem, TypeOK
  <2>. QED BY <1>10, <2>1, <2>2, OnceFailure DEF DialFail
<1>11. ASSUME NEW w \in Workers, SendFileHeader(w) PROVE OnceInv'
  <2>1. item[w].name \in Names
    BY <1>11 DEF SendFileHeader, TypeOK, Busy, Items
  <2>2. dir[item[w].name] # 0 /\ dir[item[w].name] = latest[item[w].name]
    BY <1>11, <2>1 DEF SendFileHeader, OnceInv
  <2>. QED BY <1>11, <2>2 DEF SendFileHeader, TypeOK, OnceInv, NothingLost
<1>12. ASSUME NEW w \in Workers, SendFileBody(w) PROVE OnceInv'
    BY <1>12, OnceFrame DEF SendFileBody, TypeOK
<1>13. ASSUME NEW w \in Workers, ReadAck(w) PROVE OnceInv'
    BY <1>13 DEF ReadAck, TypeOK, OnceInv, NothingLost
<1>14. ASSUME NEW w \in Workers, TransferFail(w) PROVE OnceInv'
  <2>1. item[w] \in Items
    BY <1>14 DEF TransferFail, TypeOK, Busy, Talking
  <2>2. \A v \in Workers \ {w} : item'[v] = item[v] /\ sver'[v] = sver[v]
    BY <1>14 DEF TransferFail, DropItem, TypeOK
  <2>3. RecordFailure(w, "mark") \/ RecordFailure(w, "top")
    BY <1>14 DEF TransferFail
  <2>4. UNCHANGED <<latest, acked>>
    BY <1>14 DEF TransferFail
  <2>. QED BY <2>1, <2>2, <2>3, <2>4, OnceFailure
<1>15. ASSUME NEW w \in Workers, PostCommit(w) PROVE OnceInv'
  <2>1. item[w].name \in Names
    BY <1>15 DEF PostCommit, TypeOK, Busy, Items
  <2>2. latest[item[w].name] \in acked
    BY <1>15 DEF PostCommit, OnceInv
  <2>3. dir' = dir \/ dir' = [dir EXCEPT ![item[w].name] = 0]
    BY <1>15 DEF PostCommit
  <2>4. (\A n \in Names : dir[n] \in {0, latest[n]})'
    BY <1>15, <2>1, <2>3 DEF PostCommit, OnceInv, TypeOK
  <2>5. NothingLost'
    BY <1>15, <2>1, <2>2, <2>3 DEF PostCommit, OnceInv, NothingLost, TypeOK
  <2>6. \A v \in Workers :
          pc'[v] \in {"stream", "resp", "commit"}
            => pc'[v] = pc[v] /\ item'[v] = item[v] /\ sver'[v] = sver[v]
    BY <1>15 DEF PostCommit, TypeOK
  <2>. QED BY <1>15, <2>4, <2>5, <2>6 DEF PostCommit, OnceInv
<1>16. ASSUME NEW w \in Workers, MarkCompleted(w) PROVE OnceInv'
    BY <1>16, OnceFrame DEF MarkCompleted, DropItem, TypeOK
<1>17. ASSUME NEW n \in Names, Produce(n) PROVE OnceInv'
  <2>1. latest[n] = 0
    BY <1>17 DEF Produce
  <2>2. dir' = [dir EXCEPT ![n] = clock + 1] /\ latest' = [latest EXCEPT ![n] = clock + 1]
    BY <1>17 DEF Produce
  <2>3. (\A m \in Names : dir[m] \in {0, latest[m]})'
    BY <2>2 DEF OnceInv, TypeOK
  <2>4. NothingLost'
    BY <1>17, <2>2 DEF Produce, OnceInv, NothingLost, TypeOK
  <2>5. \A w \in Workers : pc[w] \in {"stream", "resp", "commit"} => item[w].name # n
    BY <2>1 DEF OnceInv
  <2>6. \A w \in Workers : pc[w] \in {"stream", "resp", "commit"} => item[w].name \in Names
    BY DEF TypeOK, Busy, Items
  <2>7. \A w \in Workers :
          pc[w] \in {"stream", "resp", "commit"}
            => latest'[item[w].name] = latest[item[w].name]
    BY <2>2, <2>5, <2>6 DEF TypeOK
  <2>. QED BY <1>17, <2>3, <2>4, <2>7 DEF Produce, OnceInv
<1>18. ASSUME NEW c \in Conns, NEW k \in {"ack", "nack"}, PeerAnswer(c, k) PROVE OnceInv'
    BY <1>18, OnceFrame DEF PeerAnswer
<1>19. ASSUME NEW cs \in SUBSET Conns, PeerHangup(cs) PROVE OnceInv'
    BY <1>19, OnceFrame DEF PeerHangup
<1>. QED
    BY <1>1, <1>2, <1>3, <1>4, <1>5, <1>6, <1>7, <1>8, <1>9, <1>10, <1>11, <1>12, <1>13,
       <1>14, <1>15, <1>16, <1>17, <1>18, <1>19
       DEF Next, SenderNext, EnvStep, StopProgress, ScannerStep, WorkerStep, LoopStop,
        PopStopped

------------
\* The types and PushInv are inductive together.
LEMMA TypeInit == ASSUME Init PROVE TypeOK /\ PushInv
<1>1. NetTypeOK
    BY DEF Init, NetInit, NetTypeOK, IdleLink, Links, Requests, Replies, NoReq
<1>2. stable \in Seq(Items) /\ items \in Seq(Items)
    BY EmptySeq DEF Init
<1>3. states \in [Names -> ScanStates]
    BY DEF Init, ScanStates, NoState
<1>4. pc \in [Workers -> WorkerPcs] /\ \A w \in Workers : pc[w] = "none"
    BY DEF Init, WorkerPcs
<1>5. /\ item \in [Workers -> Items \cup {NoItem}] /\ sver \in [Workers -> Nat]
      /\ conn \in [Workers -> Conns \cup {NoConn}]
    BY DEF Init
<1>6. ahead \in [Names -> SUBSET Names] /\ \A n \in Names : dir[n] <= MaxVersion
    BY SenderAssumption DEF Init
<1>. QED BY <1>1, <1>2, <1>3, <1>4, <1>5, <1>6 DEF Init, TypeOK, Busy, Talking, PushInv

LEMMA Inductive == Spec => [](TypeOK /\ PushInv)
<1>1. TypeOK /\ PushInv /\ [Next]_vars => (TypeOK /\ PushInv)'
  <2>1. ASSUME TypeOK, PushInv, UNCHANGED vars PROVE (TypeOK /\ PushInv)'
    BY <2>1 DEF vars, fsvars, scvars, qvars, wvars, gvars, TypeOK, NetTypeOK, PushInv
  <2>. QED BY <2>1, TypeStep, PushStep
<1>. QED BY <1>1, TypeInit, PTL DEF Spec

\* The sender's variables stay in their types; a worker that works on a file has an
\* item, and one that talks to the receiver has a connection (workerLoop).
THEOREM SenderTypeCorrect == Spec => []TypeOK
BY Inductive, PTL

\* No file is lost, whatever fails: with producers that use every name once, what
\* they handed over is in the watch directory, in .failed/ or ACKed, for any number
\* of workers, attempts, lost answers, refused renames, crashes and restarts
\* (workerLoop, RecordFailure, postCommit).
THEOREM SenderNothingLost ==
    ASSUME Producer = "once" PROVE Spec => []NothingLost
<1>1. TypeOK /\ OnceInv /\ [Next]_vars => OnceInv'
  <2>1. ASSUME OnceInv, UNCHANGED vars PROVE OnceInv'
    BY <2>1 DEF vars, fsvars, scvars, qvars, wvars, gvars, OnceInv, NothingLost
  <2>. QED BY <2>1, OnceStep
<1>2. OnceInv => NothingLost
    BY DEF OnceInv
<1>. QED BY <1>1, <1>2, OnceInit, Inductive, PTL DEF Spec

----------------------------------------------------------------------------
(* SingleOwner.  A name is in hand from the moment the scanner finds it    *)
(* stable until a worker is done with it; the argument is that nothing     *)
(* but the scanner takes a name in hand, and that it takes none whose      *)
(* isQueued flag is set or that it saw disappear.                          *)

NamesOf(s) == {s[i].name : i \in 1..Len(s)}
Distinct(s) == \A i, j \in 1..Len(s) : s[i].name = s[j].name => i = j

InHand(n) ==
    \/ \E w \in Workers : pc[w] \in Busy /\ item[w].name = n
    \/ n \in NamesOf(items) \cup NamesOf(stable)

\* No name is in hand twice.
Exclusive ==
    /\ Distinct(items) /\ Distinct(stable) /\ NamesOf(items) \cap NamesOf(stable) = {}
    /\ \A w \in Workers :
         pc[w] \in Busy => item[w].name \notin NamesOf(items) \cup NamesOf(stable)
    /\ \A v, w \in Workers :
         pc[v] \in Busy /\ pc[w] \in Busy /\ item[v].name = item[w].name => v = w

\* The scanner remembers what is in hand as long as the file is there ...
Remembered == \A n \in Names : InHand(n) /\ dir[n] # 0 => states[n].isQueued

\* ... and a scan under way does not miss it ...
Scanned ==
    scPc \in {"read", "locked"} =>
        \A n \in Names : InHand(n) /\ dir[n] # 0 => n \in todo \cup seen

\* ... and only files that were produced are in hand.
Produced == \A n \in Names : InHand(n) => latest[n] # 0

OwnerInv == Exclusive /\ Remembered /\ Scanned /\ Produced

LEMMA AtMostOne ==
    ASSUME NEW S, \A x, y \in S : x = y
    PROVE  IF S = {} THEN Cardinality(S) = 0 ELSE Cardinality(S) = 1
<1>1. CASE S = {}
    BY <1>1, FS_EmptySet
<1>2. CASE S # {}
  <2>1. PICK x : x \in S
    BY <1>2
  <2>2. S = {x}
    BY <2>1
  <2>. QED BY <1>2, <2>2, FS_Singleton
<1>. QED BY <1>1, <1>2

LEMMA ExclusiveOwner == ASSUME Exclusive PROVE SingleOwner
<1>. SUFFICES ASSUME NEW n \in Names
     PROVE Cardinality({w \in Workers : pc[w] \in Busy /\ item[w].name = n})
            + Cardinality(Waiting(items, n)) + Cardinality(Waiting(stable, n)) <= 1
    BY DEF SingleOwner
<1>. DEFINE W == {w \in Workers : pc[w] \in Busy /\ item[w].name = n}
            Q == Waiting(items, n)   T == Waiting(stable, n)
<1>1. \A x, y \in W : x = y
    BY DEF Exclusive
<1>2. \A x, y \in Q : x = y
    BY DEF Exclusive, Distinct, Waiting
<1>3. \A x, y \in T : x = y
    BY DEF Exclusive, Distinct, Waiting
<1>4. /\ Q # {} => n \in NamesOf(items)
      /\ T # {} => n \in NamesOf(stable)
    BY DEF Waiting, NamesOf
<1>5. (W = {} \/ Q = {}) /\ (W = {} \/ T = {}) /\ (Q = {} \/ T = {})
    BY <1>4 DEF Exclusive
<1>. HIDE DEF W, Q, T
<1>6. /\ IF W = {} THEN Cardinality(W) = 0 ELSE Cardinality(W) = 1
      /\ IF Q = {} THEN Cardinality(Q) = 0 ELSE Cardinality(Q) = 1
      /\ IF T = {} THEN Cardinality(T) = 0 ELSE Cardinality(T) = 1
    BY <1>1, <1>2, <1>3, AtMostOne
<1>7. Cardinality(W) + Cardinality(Q) + Cardinality(T) <= 1
    BY <1>5, <1>6
<1>. QED BY <1>7 DEF W, Q, T

\* Inserting an item adds its name, once if it was not there.
LEMMA InsertNames ==
    ASSUME NEW s \in Seq(Items), NEW x \in Items, NEW t \in InsertSorted(s, x)
    PROVE  /\ NamesOf(t) = NamesOf(s) \cup {x.name}
           /\ Distinct(s) /\ x.name \notin NamesOf(s) => Distinct(t)
<1>1. Len(s) \in Nat
    BY LenProperties
<1>2. PICK k \in 1..(Len(s) + 1) : t = InsertAt(s, k, x)
    BY DEF InsertSorted
<1>3. t = [i \in 1..(Len(s) + 1) |-> IF i < k THEN s[i] ELSE IF i = k THEN x ELSE s[i - 1]]
    BY <1>2 DEF InsertAt
<1>4. t \in Seq(Items)
    BY InsertType
<1>5. Len(t) = Len(s) + 1
    BY <1>1, <1>3
<1>6. /\ t[k] = x
      /\ \A i \in 1..Len(s) : IF i < k THEN t[i] = s[i] ELSE t[i + 1] = s[i]
      /\ \A i \in 1..Len(t) : IF i < k THEN i \in 1..Len(s) /\ t[i] = s[i]
                              ELSE i = k \/ (i - 1 \in 1..Len(s) /\ t[i] = s[i - 1])
    BY <1>1, <1>3, <1>5
<1>7. NamesOf(t) = NamesOf(s) \cup {x.name}
  <2>1. ASSUME NEW n \in NamesOf(t) PROVE n \in NamesOf(s) \cup {x.name}
    <3>1. PICK i \in 1..Len(t) : n = t[i].name
      BY DEF NamesOf
    <3>2. CASE i = k
      BY <1>6, <3>1, <3>2
    <3>3. CASE i # k
      BY <1>6, <3>1, <3>3 DEF NamesOf
    <3>. QED BY <3>2, <3>3
  <2>2. x.name \in NamesOf(t)
    BY <1>1, <1>2, <1>5, <1>6 DEF NamesOf
  <2>3. ASSUME NEW n \in NamesOf(s) PROVE n \in NamesOf(t)
    <3>1. PICK i \in 1..Len(s) : n = s[i].name
      BY DEF NamesOf
    <3>2. i \in 1..Len(t) /\ i + 1 \in 1..Len(t)
      BY <1>1, <1>5
    <3>3. n = t[i].name \/ n = t[i + 1].name
      BY <1>6, <3>1
    <3>. QED BY <3>2, <3>3 DEF NamesOf
  <2>. QED BY <2>1, <2>2, <2>3
<1>8. ASSUME Distinct(s), x.name \notin NamesOf(s) PROVE Distinct(t)
  <2>. SUFFICES ASSUME NEW i \in 1..Len(t), NEW j \in 1..Len(t), t[i].name = t[j].name
       PROVE i = j
    BY DEF Distinct
  <2>1. \A m \in 1..Len(s) : s[m].name # x.name
    BY <1>8 DEF NamesOf
  <2>2. CASE i = k \/ j = k
    BY <1>6, <2>1, <2>2
  <2>3. CASE i # k /\ j # k
    <3>. DEFINE a == IF i < k THEN i ELSE i - 1   b == IF j < k THEN j ELSE j - 1
    <3>1. a \in 1..Len(s) /\ b \in 1..Len(s) /\ t[i] = s[a] /\ t[j] = s[b]
      BY <1>6, <2>3
    <3>2. a = b
      BY <1>8, <3>1 DEF Distinct
    <3>. QED BY <1>2, <2>3, <3>2
  <2>. QED BY <2>2, <2>3
<1>. QED BY <1>7, <1>8

\* Taking the first item takes its name out.
LEMMA TailNames ==
    ASSUME NEW s \in Seq(Items), s # <<>>, Distinct(s)
    PROVE  /\ NamesOf(Tail(s)) = NamesOf(s) \ {Head(s).name} /\ Distinct(Tail(s))
           /\ Head(s).name \in NamesOf(s)
<1>1. /\ Len(s) \in Nat /\ Len(s) >= 1 /\ Head(s) = s[1]
      /\ Len(Tail(s)) = Len(s) - 1 /\ \A i \in 1..Len(Tail(s)) : Tail(s)[i] = s[i + 1]
    BY HeadTailProperties, LenProperties, EmptySeq
<1>2. Distinct(Tail(s))
    BY <1>1 DEF Distinct
<1>3. ASSUME NEW n \in NamesOf(Tail(s)) PROVE n \in NamesOf(s) \ {Head(s).name}
  <2>1. PICK i \in 1..Len(Tail(s)) : n = Tail(s)[i].name
    BY DEF NamesOf
  <2>2. n = s[i + 1].name /\ i + 1 \in 1..Len(s) /\ i + 1 # 1 /\ 1 \in 1..Len(s)
    BY <1>1, <2>1
  <2>3. s[i + 1].name # s[1].name
    BY <2>2 DEF Distinct
  <2>. QED BY <1>1, <2>2, <2>3 DEF NamesOf
<1>4. ASSUME NEW n \in NamesOf(s), n # Head(s).name PROVE n \in NamesOf(Tail(s))
  <2>1. PICK i \in 1..Len(s) : n = s[i].name
    BY DEF NamesOf
  <2>2. i # 1
    BY <1>1, <1>4, <2>1
  <2>3. i - 1 \in 1..Len(Tail(s)) /\ Tail(s)[i - 1] = s[i]
    BY <1>1, <2>2
  <2>. QED BY <2>1, <2>3 DEF NamesOf
<1>5. Head(s).name \in NamesOf(s)
    BY <1>1 DEF NamesOf
<1>. QED BY <1>2, <1>3, <1>4, <1>5

\* No name gets in hand, no file appears, and the scanner keeps its memory.
LEMMA HandsFrame ==
    ASSUME OwnerInv, \A n \in Names : InHand(n)' => InHand(n), UNCHANGED <<states, latest>>,
           \A n \in Names : dir'[n] \in {0, dir[n]},
           scPc' \in {"read", "locked"} => scPc \in {"read", "locked"} /\ UNCHANGED <<todo, seen>>
    PROVE  Remembered' /\ Scanned' /\ Produced'
BY DEF OwnerInv, Remembered, Scanned, Produced

\* Workers only give up what they have, queue and scanner keep what they have.
LEMMA OwnerFrame ==
    ASSUME OwnerInv, UNCHANGED <<items, stable, states, latest>>,
           \A w \in Workers : pc'[w] \in Busy => pc[w] \in Busy /\ item'[w] = item[w],
           \A n \in Names : dir'[n] \in {0, dir[n]},
           scPc' \in {"read", "locked"} => scPc \in {"read", "locked"} /\ UNCHANGED <<todo, seen>>
    PROVE  OwnerInv'
<1>1. \A n \in Names : InHand(n)' => InHand(n)
    BY DEF InHand
<1>2. Remembered' /\ Scanned' /\ Produced'
    BY <1>1, HandsFrame
<1>3. Exclusive'
    BY DEF OwnerInv, Exclusive
<1>. QED BY <1>2, <1>3 DEF OwnerInv

\* Nothing is in the hands of a process that ended.
LEMMA OwnerEnds ==
    ASSUME ProcessEnds
    PROVE  OwnerInv'
<1>1. items' = <<>> /\ stable' = <<>> /\ scPc' = "stopped" /\ \A w \in Workers : pc'[w] = "none"
    BY DEF ProcessEnds
<1>2. NamesOf(<<>>) = {} /\ Distinct(<<>>)
    BY DEF NamesOf, Distinct
<1>3. NamesOf(items') = {} /\ NamesOf(stable') = {} /\ Distinct(items') /\ Distinct(stable')
    BY <1>1, <1>2
<1>4. \A n : ~InHand(n)'
    BY <1>1, <1>3 DEF InHand, Busy
<1>5. Exclusive'
    BY <1>1, <1>3 DEF Exclusive, Busy
<1>. QED BY <1>1, <1>4, <1>5 DEF OwnerInv, Remembered, Scanned, Produced

\* scanOnce: a name the scanner finds stable was in nobody's hands.
LEMMA OwnerEntry ==
    ASSUME TypeOK, OnceInv, OwnerInv, NEW n \in Names, ScanEntry(n)
    PROVE  OwnerInv'
<1>0. /\ UNCHANGED <<items, pc, item, dir, latest, scPc>> /\ scPc = "locked"
      /\ todo' = todo \ {n}
    BY DEF ScanEntry, fsvars, qvars, wvars, gvars
<1>1. CASE dir[n] = 0
  <2>1. UNCHANGED <<seen, states, stable>>
    BY <1>1 DEF ScanEntry
  <2>2. \A m \in Names : InHand(m)' = InHand(m)
    BY <1>0, <2>1 DEF InHand
  <2>3. Exclusive'
    BY <1>0, <2>1 DEF OwnerInv, Exclusive
  <2>. QED BY <1>0, <1>1, <2>1, <2>2, <2>3 DEF OwnerInv, Remembered, Scanned, Produced
<1>2. CASE dir[n] # 0
  <2>. DEFINE f == Info[dir[n]]
  <2>0. f.mtime \in Nat
    BY <1>2, SenderAssumption DEF TypeOK
  <2>. HIDE DEF f
  <2>1. /\ seen' = seen \cup {n} /\ states' = [states EXCEPT ![n] = Rescanned(states[n], f)]
    BY <1>2 DEF ScanEntry, f
  <2>2. /\ states'[n] = Rescanned(states[n], f)
        /\ \A m \in Names \ {n} : states'[m] = states[m]
    BY <2>1 DEF TypeOK
  <2>3. latest[n] # 0
    BY <1>2 DEF OnceInv
  <2>4. CASE BecomesStable(states[n], f)
    <3>. DEFINE x == [name |-> n, mtime |-> f.mtime]
    <3>1. x \in Items /\ x.name = n /\ stable' \in InsertSorted(stable, x)
      BY <1>2, <2>0, <2>4 DEF ScanEntry, Items, f
    <3>2. states'[n].isQueued
      BY <2>2, <2>4 DEF BecomesStable, Rescanned
    <3>3. ~InHand(n)
      BY <1>2, <2>4 DEF OwnerInv, Remembered, BecomesStable
    <3>4. n \notin NamesOf(items) /\ n \notin NamesOf(stable)
      BY <3>3 DEF InHand
    <3>. HIDE DEF x
    <3>5. NamesOf(stable') = NamesOf(stable) \cup {n} /\ Distinct(stable')
      <4>1. stable \in Seq(Items) /\ Distinct(stable)
        BY DEF TypeOK, OwnerInv, Exclusive
      <4>2. /\ NamesOf(stable') = NamesOf(stable) \cup {x.name}
            /\ Distinct(stable) /\ x.name \notin NamesOf(stable) => Distinct(stable')
        BY <3>1, <4>1, InsertNames
      <4>. QED BY <3>1, <3>4, <4>1, <4>2
    <3>6. \A m \in Names : InHand(m)' => InHand(m) \/ m = n
      BY <1>0, <3>5 DEF InHand
    <3>7. \A w \in Workers : pc[w] \in Busy => item[w].name # n
      BY <3>3 DEF InHand
    <3>8. Exclusive'
      BY <1>0, <3>4, <3>5, <3>7 DEF OwnerInv, Exclusive
    <3>9. Remembered'
      BY <1>0, <2>2, <3>2, <3>6 DEF OwnerInv, Remembered
    <3>10. Scanned' /\ Produced'
      BY <1>0, <2>1, <2>3, <3>6 DEF OwnerInv, Scanned, Produced
    <3>. QED BY <3>8, <3>9, <3>10 DEF OwnerInv
  <2>5. CASE ~BecomesStable(states[n], f)
    <3>1. stable' = stable
      BY <1>2, <2>5 DEF ScanEntry, f
    <3>2. \A m \in Names : InHand(m)' = InHand(m)
      BY <1>0, <3>1 DEF InHand
    <3>3. states[n].isQueued => states'[n].isQueued
      BY <2>2 DEF Rescanned, NoState
    <3>4. Exclusive'
      BY <1>0, <3>1 DEF OwnerInv, Exclusive
    <3>5. Remembered'
      BY <1>0, <2>2, <3>2, <3>3 DEF OwnerInv, Remembered
    <3>6. Scanned' /\ Produced'
      BY <1>0, <2>1, <3>2 DEF OwnerInv, Scanned, Produced
    <3>. QED BY <3>4, <3>5, <3>6 DEF OwnerInv
  <2>. QED BY <2>4, <2>5
<1>. QED BY <1>1, <1>2

\* The other steps of scanOnce before the pushes.
LEMMA OwnerScan ==
    ASSUME TypeOK, OnceInv, OwnerInv, ScanRead \/ ScanLock \/ ScanUnlock \/ ScanExit
    PROVE  OwnerInv'
<1>0. UNCHANGED <<items, stable, pc, item, dir, latest>>
    BY DEF ScanRead, ScanLock, ScanUnlock, ScanExit, fsvars, qvars, wvars, gvars
<1>1. \A m \in Names : InHand(m)' = InHand(m)
    BY <1>0 DEF InHand
<1>2. Exclusive' /\ Produced'
    BY <1>0, <1>1 DEF OwnerInv, Exclusive, Produced
<1>3. CASE ScanRead
    BY <1>0, <1>1, <1>2, <1>3 DEF ScanRead, OwnerInv, Remembered, Scanned
<1>4. CASE ScanLock
    BY <1>0, <1>1, <1>2, <1>4 DEF ScanLock, OwnerInv, Remembered, Scanned
<1>5. CASE ScanUnlock
  <2>1. /\ scPc = "locked" /\ todo = {} /\ scPc' \in {"idle", "push"}
        /\ \A m \in Names : m \in seen => states'[m] = states[m]
    BY <1>5 DEF ScanUnlock
  <2>2. Remembered'
    BY <1>0, <1>1, <2>1 DEF OwnerInv, Remembered, Scanned
  <2>. QED BY <1>2, <2>1, <2>2 DEF OwnerInv, Scanned
<1>6. CASE ScanExit
    BY <1>0, <1>1, <1>2, <1>6 DEF ScanExit, OwnerInv, Remembered, Scanned
<1>. QED BY <1>3, <1>4, <1>5, <1>6

\* Push moves a name from the scanner to the queue, or drops it.
LEMMA OwnerPush ==
    ASSUME TypeOK, PushInv, OwnerInv, ScanPush
    PROVE  OwnerInv'
<1>. DEFINE x == Head(stable)
<1>0. /\ UNCHANGED <<item, dir, latest, states>> /\ scPc' \in {"idle", "push"}
      /\ stable # <<>> /\ stable' = Tail(stable) /\ Push(x)
    BY DEF ScanPush, PushInv, fsvars, gvars
<1>1. stable \in Seq(Items) /\ items \in Seq(Items) /\ Distinct(stable) /\ Distinct(items)
    BY DEF TypeOK, OwnerInv, Exclusive
<1>2. x \in Items
    BY <1>0, <1>1, HeadTailProperties
<1>3. /\ NamesOf(stable') = NamesOf(stable) \ {x.name} /\ Distinct(stable')
      /\ x.name \in NamesOf(stable)
    BY <1>0, <1>1, TailNames
<1>4. \A w \in Workers : pc'[w] = pc[w] \/ (pc[w] = "wait" /\ pc'[w] = "pop")
    BY <1>0, SignalMoves DEF Push, TypeOK
<1>5. x.name \notin NamesOf(items)
    BY <1>3 DEF OwnerInv, Exclusive
<1>6. NamesOf(items') \in {NamesOf(items), NamesOf(items) \cup {x.name}} /\ Distinct(items')
  <2>1. CASE items' = items
    BY <1>1, <2>1
  <2>2. CASE items' \in InsertSorted(items, x)
    <3>. HIDE DEF x
    <3>. QED BY <1>1, <1>2, <1>5, <2>2, InsertNames
  <2>. QED BY <1>0, <2>1, <2>2 DEF Push
<1>. HIDE DEF x
<1>7. \A w \in Workers : pc'[w] \in Busy => pc[w] \in Busy
    BY <1>4 DEF Busy
<1>8. \A m \in Names : InHand(m)' => InHand(m)
    BY <1>0, <1>3, <1>6, <1>7 DEF InHand
<1>9. Remembered' /\ Scanned' /\ Produced'
    BY <1>0, <1>8, HandsFrame
<1>10. Exclusive'
  <2>1. NamesOf(items') \cap NamesOf(stable') = {}
    BY <1>3, <1>6 DEF OwnerInv, Exclusive
  <2>2. NamesOf(items') \cup NamesOf(stable') \subseteq NamesOf(items) \cup NamesOf(stable)
    BY <1>3, <1>6
  <2>. QED BY <1>0, <1>3, <1>6, <1>7, <2>1, <2>2 DEF OwnerInv, Exclusive
<1>. QED BY <1>9, <1>10 DEF OwnerInv

\* Pop moves a name from the queue to the worker.
LEMMA OwnerPop ==
    ASSUME TypeOK, OwnerInv, NEW w \in Workers, PopItem(w)
    PROVE  OwnerInv'
<1>. DEFINE x == Head(items)
<1>0. /\ UNCHANGED <<stable, dir, latest, states, scPc, todo, seen>> /\ items # <<>>
      /\ items' = Tail(items) /\ item' = [item EXCEPT ![w] = x] /\ pc[w] = "pop"
    BY DEF PopItem, scvars, fsvars, gvars
<1>1. items \in Seq(Items) /\ Distinct(items)
    BY DEF TypeOK, OwnerInv, Exclusive
<1>2. /\ NamesOf(items') = NamesOf(items) \ {x.name} /\ Distinct(items')
      /\ x.name \in NamesOf(items)
    BY <1>0, <1>1, TailNames
<1>. HIDE DEF x
<1>3. /\ item'[w] = x
      /\ \A v \in Workers \ {w} : pc'[v] = pc[v] /\ item'[v] = item[v]
    BY <1>0 DEF PopItem, Goto, TypeOK
<1>4. \A m \in Names : InHand(m)' => InHand(m)
    BY <1>0, <1>2, <1>3 DEF InHand
<1>5. Remembered' /\ Scanned' /\ Produced'
    BY <1>0, <1>4, HandsFrame
<1>6. Exclusive'
    BY <1>0, <1>2, <1>3 DEF OwnerInv, Exclusive
<1>. QED BY <1>5, <1>6 DEF OwnerInv

\* RecordFailure moves a name from the worker to the queue, or drops it, or leaves it
\* with the worker, who goes on to MarkCompleted.
LEMMA OwnerFailure ==
    ASSUME TypeOK, OwnerInv, NEW w \in Workers, pc[w] \in Busy,
           NEW p \in {"backoff", "mark", "top"}, RecordFailure(w, p),
           p = "mark" => LastAttempt(w) /\ item'[w] = item[w],
           UNCHANGED <<stable, states, latest, scPc, todo, seen>>,
           \A v \in Workers \ {w} : item'[v] = item[v]
    PROVE  OwnerInv'
<1>. DEFINE x == item[w]
<1>0. x \in Items /\ x.name \in Names
    BY DEF TypeOK, Items
<1>1. items \in Seq(Items) /\ Distinct(items)
    BY DEF TypeOK, OwnerInv, Exclusive
<1>2. /\ pc' \in [Workers -> WorkerPcs] /\ pc'[w] = p
      /\ \A v \in Workers \ {w} : pc'[v] = pc[v] \/ pc'[v] = "pop"
    BY <1>0, FailureType
<1>3. x.name \notin NamesOf(items) \cup NamesOf(stable)
    BY DEF OwnerInv, Exclusive
<1>4. \A v \in Workers \ {w} : pc'[v] \in Busy => pc[v] \in Busy /\ item'[v] = item[v] /\ item[v].name # x.name
    BY <1>2 DEF OwnerInv, Exclusive, Busy
<1>5. \A m \in Names : dir'[m] \in {0, dir[m]}
    BY <1>0 DEF RecordFailure, Quarantine, TypeOK
<1>6. \/ items' = items
      \/ p # "mark" /\ NamesOf(items') = NamesOf(items) \cup {x.name} /\ Distinct(items')
  <2>1. CASE LastAttempt(w)
    BY <2>1 DEF RecordFailure
  <2>2. CASE ~LastAttempt(w) /\ items' \in InsertSorted(items, x)
    <3>. HIDE DEF x
    <3>. QED BY <1>0, <1>1, <1>3, <2>2, InsertNames
  <2>. QED BY <2>1, <2>2 DEF RecordFailure
<1>7. pc'[w] \in Busy => p = "mark" /\ item'[w] = x
    BY <1>2 DEF Busy
<1>. HIDE DEF x
<1>8. \A m \in Names : InHand(m)' => InHand(m)
  <2>1. InHand(x.name)
    BY DEF InHand, x
  <2>. QED BY <1>4, <1>6, <1>7, <2>1 DEF InHand
<1>9. Remembered' /\ Scanned' /\ Produced'
    BY <1>5, <1>8, HandsFrame
<1>10. Exclusive'
  <2>1. Distinct(items') /\ Distinct(stable') /\ NamesOf(items') \cap NamesOf(stable') = {}
    BY <1>1, <1>3, <1>6 DEF OwnerInv, Exclusive
  <2>2. \A v \in Workers : pc'[v] \in Busy => item'[v].name \notin NamesOf(items') \cup NamesOf(stable')
    BY <1>3, <1>4, <1>6, <1>7 DEF OwnerInv, Exclusive
  <2>3. \A u, v \in Workers :
          pc'[u] \in Busy /\ pc'[v] \in Busy /\ item'[u].name = item'[v].name => u = v
    <3>1. ASSUME NEW u \in Workers, NEW v \in Workers, pc'[u] \in Busy, pc'[v] \in Busy,
                 item'[u].name = item'[v].name
          PROVE  u = v
      BY <1>4, <1>7, <3>1 DEF OwnerInv, Exclusive
    <3>. QED BY <3>1
  <2>. QED BY <2>1, <2>2, <2>3 DEF Exclusive
<1>. QED BY <1>9, <1>10 DEF OwnerInv

\* MarkCompleted makes the scanner forget a name that is in nobody else's hands.
LEMMA OwnerMark ==
    ASSUME TypeOK, OwnerInv, NEW w \in Workers, MarkCompleted(w)
    PROVE  OwnerInv'
<1>. DEFINE n == item[w].name
<1>0. /\ UNCHANGED <<items, stable, dir, latest, scPc, todo, seen>> /\ pc[w] = "mark"
      /\ item' = [item EXCEPT ![w] = NoItem] /\ pc' = [pc EXCEPT ![w] = "top"]
      /\ states' = [states EXCEPT ![n] = NoState]
    BY DEF MarkCompleted, DropItem, Goto, qvars, fsvars, gvars
<1>1. pc[w] \in Busy
    BY <1>0 DEF Busy
<1>2. /\ pc'[w] \notin Busy
      /\ \A v \in Workers \ {w} : pc'[v] = pc[v] /\ item'[v] = item[v]
    BY <1>0 DEF TypeOK, Busy
<1>3. \A m \in Names : m # n => states'[m] = states[m]
    BY <1>0 DEF TypeOK
<1>. HIDE DEF n
<1>4. \A m \in Names : InHand(m)' => InHand(m) /\ m # n
    BY <1>0, <1>1, <1>2 DEF InHand, OwnerInv, Exclusive, n
<1>5. Exclusive'
    BY <1>0, <1>2 DEF OwnerInv, Exclusive
<1>6. Remembered' /\ Scanned' /\ Produced'
    BY <1>0, <1>3, <1>4 DEF OwnerInv, Remembered, Scanned, Produced
<1>. QED BY <1>5, <1>6 DEF OwnerInv

\* A name that is used for the first time is in nobody's hands.
LEMMA OwnerProduce ==
    ASSUME Producer = "once", TypeOK, OwnerInv, NEW n \in Names, Produce(n)
    PROVE  OwnerInv'
<1>1. /\ latest[n] = 0 /\ dir' = [dir EXCEPT ![n] = clock + 1]
      /\ latest' = [latest EXCEPT ![n] = clock + 1]
      /\ UNCHANGED <<items, stable, states, pc, item, scPc, todo, seen>>
    BY DEF Produce, scvars, qvars, wvars
<1>2. \A m \in Names : InHand(m)' = InHand(m)
    BY <1>1 DEF InHand
<1>3. \A m \in Names : InHand(m) => m # n /\ dir'[m] = dir[m] /\ latest'[m] = latest[m]
    BY <1>1 DEF OwnerInv, Produced, TypeOK
<1>4. Exclusive'
    BY <1>1 DEF OwnerInv, Exclusive
<1>. QED BY <1>1, <1>2, <1>3, <1>4 DEF OwnerInv, Remembered, Scanned, Produced

\* Every step keeps every name in at most one hand.
LEMMA OwnerStep ==
    ASSUME Producer = "once", TypeOK, PushInv, OnceInv, OwnerInv, Next PROVE OwnerInv'
<1>. USE DEF fsvars, scvars, qvars, wvars, gvars, Goto
<1>1. CASE Start
    BY <1>1, OwnerFrame DEF Start, Busy
<1>2. CASE ScannerStop \/ PoolStop \/ QueueStop
    BY <1>2, OwnerFrame DEF ScannerStop, PoolStop, QueueStop, Busy
<1>3. CASE PoolDone \/ Crash
    BY <1>3, OwnerEnds DEF PoolDone, Crash
<1>4. CASE ScanRead \/ ScanLock \/ ScanUnlock \/ ScanExit
    BY <1>4, OwnerScan
<1>5. ASSUME NEW n \in Names, ScanEntry(n) PROVE OwnerInv'
    BY <1>5, OwnerEntry
<1>6. CASE ScanPush
    BY <1>6, OwnerPush
<1>7. ASSUME NEW w \in Workers,
             \/ LoopTop(w) \/ PopWait(w) \/ BackoffOver(w) \/ Leave(w)
             \/ SendFileHeader(w) \/ SendFileBody(w) \/ ReadAck(w) \/ RecordSuccess(w)
             \/ \E c \in Conns : DialOk(w, c)
      PROVE  OwnerInv'
  <2>1. UNCHANGED <<items, stable, states, latest, dir, scPc, todo, seen, item>>
    BY <1>7 DEF LoopTop, PopWait, BackoffOver, Leave, SendFileHeader, SendFileBody, ReadAck,
                RecordSuccess, DialOk
  <2>2. \E p \in WorkerPcs : pc' = [pc EXCEPT ![w] = p] /\ (p \in Busy => pc[w] \in Busy)
    BY <1>7 DEF LoopTop, PopWait, BackoffOver, Leave, SendFileHeader, SendFileBody, ReadAck,
                RecordSuccess, DialOk, WorkerPcs, Busy
  <2>3. \A v \in Workers : pc'[v] \in Busy => pc[v] \in Busy /\ item'[v] = item[v]
    BY <2>1, <2>2 DEF TypeOK
  <2>. QED BY <2>1, <2>3, OwnerFrame
<1>8. ASSUME NEW w \in Workers, PopItem(w) PROVE OwnerInv'
    BY <1>8, OwnerPop
<1>9. ASSUME NEW w \in Workers, DialFail(w) PROVE OwnerInv'
  <2>1. pc[w] \in Busy /\ RecordFailure(w, "backoff")
    BY <1>9 DEF DialFail, Busy
  <2>2. /\ UNCHANGED <<stable, states, latest, scPc, todo, seen>>
        /\ \A v \in Workers \ {w} : item'[v] = item[v]
    BY <1>9 DEF DialFail, DropItem, TypeOK
  <2>. QED BY <2>1, <2>2, OwnerFailure
<1>10. ASSUME NEW w \in Workers, TransferFail(w) PROVE OwnerInv'
  <2>1. PICK p \in {"mark", "top"} : RecordFailure(w, p) /\ (p = "mark" <=> LastAttempt(w))
    BY <1>10 DEF TransferFail
  <2>2. /\ UNCHANGED <<stable, states, latest, scPc, todo, seen>> /\ pc[w] \in Busy
        /\ \A v \in Workers \ {w} : item'[v] = item[v]
        /\ LastAttempt(w) => item' = item
    BY <1>10 DEF TransferFail, DropItem, TypeOK, Talking, Busy
  <2>. QED BY <2>1, <2>2, OwnerFailure
<1>11. ASSUME NEW w \in Workers, PostCommit(w) PROVE OwnerInv'
  <2>1. /\ UNCHANGED <<items, stable, states, latest, scPc, todo, seen, item>>
        /\ pc' = [pc EXCEPT ![w] = "success"] /\ pc[w] \in Busy
    BY <1>11 DEF PostCommit, Busy
  <2>2. item[w].name \in Names
    BY <2>1 DEF TypeOK, Items
  <2>3. \A n \in Names : dir'[n] \in {0, dir[n]}
    BY <1>11, <2>2 DEF PostCommit, TypeOK
  <2>4. \A v \in Workers : pc'[v] \in Busy => pc[v] \in Busy /\ item'[v] = item[v]
    BY <2>1 DEF TypeOK
  <2>. QED BY <2>1, <2>3, <2>4, OwnerFrame
<1>12. ASSUME NEW w \in Workers, MarkCompleted(w) PROVE OwnerInv'
    BY <1>12, OwnerMark
<1>13. ASSUME NEW n \in Names, Produce(n) PROVE OwnerInv'
    BY <1>13, OwnerProduce
<1>14. CASE \/ \E c \in Conns, k \in {"ack", "nack"} : PeerAnswer(c, k)
            \/ \E cs \in SUBSET Conns : PeerHangup(cs)
    BY <1>14, OwnerFrame DEF PeerAnswer, PeerHangup
<1>. QED
    BY <1>1, <1>2, <1>3, <1>4, <1>5, <1>6, <1>7, <1>8, <1>9, <1>10, <1>11, <1>12, <1>13, <1>14
       DEF Next, SenderNext, EnvStep, StopProgress, ScannerStep, WorkerStep, LoopStop,
        PopStopped

\* At the start nothing is in hand.
LEMMA OwnerInit == ASSUME Init PROVE OwnerInv
<1>1. items = <<>> /\ stable = <<>> /\ scPc = "stopped" /\ \A w \in Workers : pc[w] = "none"
    BY DEF Init
<1>2. NamesOf(<<>>) = {} /\ Distinct(<<>>)
    BY DEF NamesOf, Distinct
<1>3. \A n : ~InHand(n)
    BY <1>1, <1>2 DEF InHand, Busy
<1>4. Exclusive
    BY <1>1, <1>2 DEF Exclusive, Busy
<1>. QED BY <1>1, <1>3, <1>4 DEF OwnerInv, Remembered, Scanned, Produced

\* With producers that use every name once, OnceInv and OwnerInv always hold.
LEMMA OwnerInductive ==
    ASSUME Producer = "once" PROVE Spec => [](TypeOK /\ PushInv /\ OnceInv /\ OwnerInv)
<1>1. Init => OnceInv /\ OwnerInv
    BY OnceInit, OwnerInit
<1>2. TypeOK /\ PushInv /\ OnceInv /\ OwnerInv /\ [Next]_vars => (OnceInv /\ OwnerInv)'
  <2>1. ASSUME OnceInv, OwnerInv, UNCHANGED vars PROVE (OnceInv /\ OwnerInv)'
    BY <2>1, OwnerFrame
       DEF vars, fsvars, scvars, qvars, wvars, gvars, OnceInv, NothingLost
  <2>. QED BY <2>1, OnceStep, OwnerStep
<1>. QED BY <1>1, <1>2, Inductive, PTL DEF Spec

\* With producers that use every name once, no file is ever in two hands: at most one
\* worker has it, or it waits once, in the queue or with the scanner; whatever fails, and
\* however a scan interleaves with postCommit, RecordFailure and MarkCompleted.
THEOREM SenderSingleOwner ==
    ASSUME Producer = "once" PROVE Spec => []SingleOwner
<1>1. OwnerInv => SingleOwner
    BY ExclusiveOwner DEF OwnerInv
<1>. QED BY <1>1, OwnerInductive, PTL

----------------------------------------------------------------------------
(* OldestFirst.  What a scan has listed when it first meets a file is known *)
(* to the scanner no later than that file, gets stable no later, and is    *)
(* pushed before it when it is older; and it stays in the queue or with a  *)
(* worker until it is gone.                                                *)

Held(n) == \E w \in Workers : pc[w] \in Busy /\ item[w].name = n
Out(n) == n \in NamesOf(items) \/ Held(n)

\* The modification time of the file produced under n.
Mtimes == [n \in Names |-> IF latest[n] = 0 THEN 0 ELSE Info[latest[n]].mtime]

\* n is in the watch directory, is older than m and was listed with it.
Older(n, m) == dir[n] # 0 /\ n \in ahead[m] /\ Mtimes[n] < Mtimes[m]

\* The scanner knows n from an earlier scan than the one under way.
Known(n) == states[n] # NoState /\ ~(n \in seen /\ states[n].scans = 1)

Sorted(s) == \A i, j \in 1..Len(s) : i <= j => s[i].mtime <= s[j].mtime
Dated(s, f) == \A i \in 1..Len(s) : s[i].mtime = f[s[i].name]

\* What the queue, the workers and the scanner have of a file is the one version of it.
DatedInv ==
    /\ Dated(items, Mtimes) /\ Dated(stable, Mtimes)
    /\ \A w \in Workers : pc[w] \in Busy => item[w].mtime = Mtimes[item[w].name]
    /\ \A n \in Names : states[n] # NoState
                            => latest[n] # 0 /\ Unchanged(states[n], Info[latest[n]])
    /\ \A n \in todo : latest[n] # 0
    /\ \A m \in Names : \A n \in ahead[m] : latest[n] # 0
    /\ \A n \in Names : latest[n] <= clock
    /\ clock <= MaxVersion

\* The queue and the scanner's list are sorted; inQueue are the names in the queue.
QueueInv == Sorted(items) /\ Sorted(stable) /\ inQueue = NamesOf(items)

\* A scan under way meets every known file that is still there.
ScanInv ==
    /\ scPc \notin {"read", "locked"} => todo = {}
    /\ scPc # "locked" => seen = {}
    /\ todo \cap seen = {}
    /\ \A n \in seen : states[n] # NoState
    /\ \A n \in Names : states[n] # NoState =>
         \/ states[n].scans = 1 /\ ~states[n].isQueued
         \/ states[n].scans = 2 /\ states[n].isQueued
    /\ scPc \in {"read", "locked"} =>
         \A n \in Names : dir[n] # 0 /\ states[n] # NoState => n \in todo \cup seen

\* Before Start nothing runs.
OffInv == phase = "off" => scPc = "stopped" /\ \A w \in Workers : pc[w] = "none"

\* A worker that is done with a file has moved it away.
DoneInv == \A w \in Workers : pc[w] \in {"success", "mark"} => dir[item[w].name] = 0

\* The scanner knows what it listed with a file that it knows, or is about to ...
KnownInv ==
    \A m, n \in Names : Older(n, m) =>
        /\ Known(m) => Known(n)
        /\ states[m] # NoState => states[n] # NoState \/ n \in todo

\* ... finds it stable no later ...
StableInv ==
    \A m \in NamesOf(stable), n \in Names : Older(n, m) =>
        states[n].isQueued \/ (n \in todo /\ states[n] # NoState)

\* ... and what it found stable is handed on until the queue is stopped ...
HandedInv ==
    ~queueStopped =>
        \A n \in Names : dir[n] # 0 /\ states[n].isQueued => Out(n) \/ n \in NamesOf(stable)

\* ... so what is in the queue or with a worker has nothing older left behind.
OutInv == \A m, n \in Names : Out(m) /\ Older(n, m) => Out(n)

OrderInv ==
    /\ DatedInv /\ QueueInv /\ ScanInv /\ OffInv
    /\ faults = 0 => DoneInv /\ KnownInv /\ StableInv /\ HandedInv /\ OutInv

\* Inserting an item keeps a list sorted and its items dated.
LEMMA InsertOrder ==
    ASSUME NEW s \in Seq(Items), NEW x \in Items, NEW t \in InsertSorted(s, x), NEW f
    PROVE  /\ Sorted(s) => Sorted(t)
           /\ Dated(s, f) /\ x.mtime = f[x.name] => Dated(t, f)
<1>1. Len(s) \in Nat /\ s \in [1..Len(s) -> Items]
    BY LenProperties
<1>2. PICK k \in 1..(Len(s) + 1) : /\ t = InsertAt(s, k, x)
                                   /\ \A i \in 1..(k - 1) : s[i].mtime <= x.mtime
                                   /\ \A i \in k..Len(s) : x.mtime <= s[i].mtime
    BY DEF InsertSorted
<1>3. t = [i \in 1..(Len(s) + 1) |-> IF i < k THEN s[i] ELSE IF i = k THEN x ELSE s[i - 1]]
    BY <1>2 DEF InsertAt
<1>4. Len(t) = Len(s) + 1
    BY <1>1, <1>3
<1>5. \A i \in 1..Len(t) :
        \/ i < k /\ i \in 1..Len(s) /\ t[i] = s[i]
        \/ i = k /\ t[i] = x
        \/ k < i /\ i - 1 \in 1..Len(s) /\ t[i] = s[i - 1]
    BY <1>1, <1>3, <1>4
<1>6. ASSUME Sorted(s) PROVE Sorted(t)
  <2>. SUFFICES ASSUME NEW i \in 1..Len(t), NEW j \in 1..Len(t), i <= j
                PROVE  t[i].mtime <= t[j].mtime
    BY DEF Sorted
  <2>0. x.mtime \in Nat /\ k \in Nat
    BY <1>1 DEF Items
  <2>1. CASE i < k
    <3>1. i \in 1..Len(s) /\ t[i] = s[i] /\ i \in 1..(k - 1)
      BY <1>5, <2>1
    <3>2. CASE j < k
      BY <1>5, <1>6, <3>1, <3>2 DEF Sorted
    <3>3. CASE j = k
      BY <1>2, <1>5, <3>1, <3>3
    <3>4. CASE k < j
      <4>1. j - 1 \in 1..Len(s) /\ t[j] = s[j - 1] /\ i <= j - 1
        BY <1>5, <2>1, <3>4
      <4>. QED BY <1>6, <3>1, <4>1 DEF Sorted
    <3>. QED BY <3>2, <3>3, <3>4
  <2>2. CASE i = k
    <3>1. t[i] = x
      BY <1>5, <2>2
    <3>2. CASE j = k
      BY <2>0, <2>2, <3>1, <3>2
    <3>3. CASE k < j
      <4>1. j - 1 \in k..Len(s) /\ t[j] = s[j - 1]
        BY <1>5, <3>3
      <4>. QED BY <1>2, <3>1, <4>1
    <3>. QED BY <2>2, <3>2, <3>3
  <2>3. CASE k < i
    <3>1. i - 1 \in 1..Len(s) /\ t[i] = s[i - 1]
      BY <1>5, <2>3
    <3>2. j - 1 \in 1..Len(s) /\ t[j] = s[j - 1] /\ i - 1 <= j - 1
      BY <1>5, <2>3
    <3>. QED BY <1>6, <3>1, <3>2 DEF Sorted
  <2>. QED BY <2>1, <2>2, <2>3
<1>7. ASSUME Dated(s, f), x.mtime = f[x.name] PROVE Dated(t, f)
  <2>. SUFFICES ASSUME NEW i \in 1..Len(t) PROVE t[i].mtime = f[t[i].name]
    BY DEF Dated
  <2>1. CASE i < k
    BY <1>5, <1>7, <2>1 DEF Dated
  <2>2. CASE i = k
    BY <1>5, <1>7, <2>2
  <2>3. CASE k < i
    BY <1>5, <1>7, <2>3 DEF Dated
  <2>. QED BY <2>1, <2>2, <2>3
<1>. QED BY <1>6, <1>7

\* A queue holds files.
LEMMA NamesType ==
    ASSUME NEW s \in Seq(Items) PROVE NamesOf(s) \subseteq Names
<1>1. s \in [1..Len(s) -> Items]
    BY LenProperties
<1>. QED BY <1>1 DEF NamesOf, Items

\* The first item of a sorted list is its oldest.
LEMMA TailOrder ==
    ASSUME NEW s \in Seq(Items), s # <<>>, Sorted(s), NEW f, Dated(s, f)
    PROVE  /\ Sorted(Tail(s)) /\ Dated(Tail(s), f)
           /\ Head(s) \in Items /\ Head(s).mtime = f[Head(s).name]
           /\ \A n \in NamesOf(s) : Head(s).mtime <= f[n]
<1>1. /\ Len(s) \in Nat /\ Len(s) >= 1 /\ Head(s) = s[1] /\ Head(s) \in Items
      /\ Len(Tail(s)) = Len(s) - 1 /\ \A i \in 1..Len(Tail(s)) : Tail(s)[i] = s[i + 1]
    BY HeadTailProperties, LenProperties, EmptySeq
<1>2. Sorted(Tail(s))
  <2>. SUFFICES ASSUME NEW i \in 1..Len(Tail(s)), NEW j \in 1..Len(Tail(s)), i <= j
                PROVE  Tail(s)[i].mtime <= Tail(s)[j].mtime
    BY DEF Sorted
  <2>1. i + 1 \in 1..Len(s) /\ j + 1 \in 1..Len(s) /\ i + 1 <= j + 1
    BY <1>1
  <2>. QED BY <1>1, <2>1 DEF Sorted
<1>3. Dated(Tail(s), f)
    BY <1>1 DEF Dated
<1>4. Head(s).mtime = f[Head(s).name]
    BY <1>1 DEF Dated
<1>5. ASSUME NEW n \in NamesOf(s) PROVE Head(s).mtime <= f[n]
  <2>1. PICK i \in 1..Len(s) : n = s[i].name
    BY DEF NamesOf
  <2>2. s[1].mtime <= s[i].mtime /\ s[i].mtime = f[s[i].name]
    BY <1>1 DEF Sorted, Dated
  <2>. QED BY <1>1, <2>1, <2>2
<1>. QED BY <1>1, <1>2, <1>3, <1>4, <1>5

\* Modification times are numbers.
LEMMA MtimesType ==
    ASSUME TypeOK, DatedInv PROVE Mtimes \in [Names -> Nat]
<1>. SUFFICES ASSUME NEW n \in Names, latest[n] # 0 PROVE Info[latest[n]].mtime \in Nat
    BY DEF Mtimes
<1>1. latest[n] \in 1..MaxVersion
    BY SenderAssumption DEF TypeOK, DatedInv
<1>. QED BY <1>1, SenderAssumption

\* No file appears and nothing is left behind by whoever had it.
LEMMA ChainFrame ==
    ASSUME OrderInv, UNCHANGED <<stable, states, ahead, todo, seen, latest>>,
           \A n \in Names : dir'[n] \in {0, dir[n]},
           faults' = 0 => faults = 0, queueStopped => queueStopped',
           \A n \in Names : Out(n)' => Out(n),
           \A n \in Names : Out(n) /\ dir'[n] # 0 /\ faults' = 0 => Out(n)'
    PROVE  faults' = 0 => KnownInv' /\ StableInv' /\ HandedInv' /\ OutInv'
<1>. SUFFICES ASSUME faults' = 0 PROVE KnownInv' /\ StableInv' /\ HandedInv' /\ OutInv'
    OBVIOUS
<1>. KnownInv /\ StableInv /\ HandedInv /\ OutInv
    BY DEF OrderInv
<1>. Mtimes' = Mtimes
    BY DEF Mtimes
<1>1. \A n, m \in Names : Older(n, m)' => Older(n, m) /\ dir'[n] # 0
    BY DEF Older
<1>2. \A n \in Names : dir'[n] # 0 => dir[n] # 0
    OBVIOUS
<1>3. KnownInv'
    BY <1>1, <1>2 DEF KnownInv, Known
<1>4. StableInv'
  <2>1. NamesOf(stable') = NamesOf(stable)
    OBVIOUS
  <2>2. \A m \in NamesOf(stable), n \in Names : Older(n, m)' => Older(n, m)
    BY DEF Older
  <2>. QED BY <2>1, <2>2 DEF StableInv
<1>5. HandedInv'
    BY <1>2 DEF HandedInv
<1>6. OutInv'
    BY <1>1 DEF OutInv
<1>. QED BY <1>3, <1>4, <1>5, <1>6

\* The scanner does not move, takes its mutex, starts or stops.
LEMMA ScanFrame ==
    ASSUME OrderInv, UNCHANGED <<states, todo, seen>>,
           \A n \in Names : dir'[n] \in {0, dir[n]},
           \/ scPc' = scPc
           \/ scPc = "read" /\ scPc' = "locked"
           \/ scPc \in {"idle", "stopped", "push"} /\ scPc' \in {"idle", "stopped", "push"}
    PROVE  ScanInv'
BY DEF OrderInv, ScanInv

\* Queue and scanner keep what they have; a worker gives up only what is gone.
LEMMA OrderFrame ==
    ASSUME OrderInv, UNCHANGED <<items, inQueue, stable, states, todo, seen, latest, clock, ahead>>,
           \A n \in Names : dir'[n] \in {0, dir[n]},
           faults' = 0 => faults = 0, queueStopped => queueStopped', OffInv',
           \/ scPc' = scPc
           \/ scPc = "read" /\ scPc' = "locked"
           \/ scPc \in {"idle", "stopped", "push"} /\ scPc' \in {"idle", "stopped", "push"},
           \A w \in Workers : pc'[w] \in Busy => pc[w] \in Busy /\ item'[w] = item[w],
           \A w \in Workers : pc[w] \in Busy /\ pc'[w] \notin Busy /\ faults' = 0
                => dir'[item[w].name] = 0,
           \A w \in Workers : pc'[w] \in {"success", "mark"} /\ faults' = 0
                => dir'[item'[w].name] = 0
    PROVE  OrderInv'
<1>. Mtimes' = Mtimes
    BY DEF Mtimes
<1>1. DatedInv'
    BY DEF OrderInv, DatedInv
<1>2. QueueInv'
    BY DEF OrderInv, QueueInv
<1>3. ScanInv'
    BY ScanFrame
<1>4. faults' = 0 => DoneInv'
    BY DEF DoneInv
<1>5. \A n \in Names : Held(n)' => Held(n)
    BY DEF Held
<1>6. \A n \in Names : Held(n) /\ dir'[n] # 0 /\ faults' = 0 => Held(n)'
    BY DEF Held
<1>7. \A n \in Names : Out(n)' => Out(n)
    BY <1>5 DEF Out
<1>8. \A n \in Names : Out(n) /\ dir'[n] # 0 /\ faults' = 0 => Out(n)'
    BY <1>6 DEF Out
<1>9. faults' = 0 => KnownInv' /\ StableInv' /\ HandedInv' /\ OutInv'
    BY <1>7, <1>8, ChainFrame
<1>. QED BY <1>1, <1>2, <1>3, <1>4, <1>9 DEF OrderInv

\* Nothing is known of the files before the next Start.
LEMMA OrderEnds ==
    ASSUME OrderInv, ProcessEnds, UNCHANGED <<dir, latest, clock>>
    PROVE  OrderInv'
<1>1. /\ items' = <<>> /\ stable' = <<>> /\ inQueue' = {} /\ scPc' = "stopped" /\ phase' = "off"
      /\ todo' = {} /\ seen' = {} /\ \A w \in Workers : pc'[w] = "none"
      /\ \A n \in Names : states'[n] = NoState /\ ahead'[n] = {}
    BY DEF ProcessEnds
<1>. Mtimes' = Mtimes
    BY DEF Mtimes
<1>2. Sorted(<<>>) /\ NamesOf(<<>>) = {} /\ \A f : Dated(<<>>, f)
    BY DEF Sorted, NamesOf, Dated
<1>3. /\ Sorted(items') /\ Sorted(stable') /\ NamesOf(items') = {} /\ NamesOf(stable') = {}
      /\ Dated(items', Mtimes') /\ Dated(stable', Mtimes')
    BY <1>1, <1>2
<1>4. DatedInv'
    BY <1>1, <1>3 DEF OrderInv, DatedInv, Busy
<1>5. QueueInv' /\ ScanInv' /\ OffInv'
    BY <1>1, <1>3 DEF QueueInv, ScanInv, OffInv
<1>6. \A n \in Names : ~Out(n)'
    BY <1>1, <1>3 DEF Out, Held, Busy
<1>7. DoneInv' /\ OutInv' /\ StableInv'
    BY <1>1, <1>3, <1>6 DEF DoneInv, OutInv, StableInv
<1>8. KnownInv' /\ HandedInv'
    BY <1>1 DEF KnownInv, Known, HandedInv, NoState
<1>. QED BY <1>4, <1>5, <1>7, <1>8 DEF OrderInv

\* os.ReadDir finds every file, whatever its age.
LEMMA OrderRead ==
    ASSUME TypeOK, OnceInv, OrderInv, ScanRead
    PROVE  OrderInv'
<1>1. /\ scPc = "idle" /\ scPc' = "read" /\ todo' = {n \in Names : dir[n] # 0}
      /\ UNCHANGED <<dir, phase, seen, stable, states, items, inQueue, pc, item, clock, latest, ahead, faults>>
    BY DEF ScanRead, fsvars, qvars, wvars, gvars
<1>. Mtimes' = Mtimes
    BY <1>1 DEF Mtimes
<1>2. todo = {} /\ seen = {}
    BY <1>1 DEF OrderInv, ScanInv
<1>3. \A n \in Names : dir[n] # 0 => latest[n] # 0
    BY DEF OnceInv
<1>4. DatedInv' /\ QueueInv' /\ OffInv'
    BY <1>1, <1>3 DEF OrderInv, DatedInv, QueueInv, OffInv
<1>5. ScanInv'
    BY <1>1, <1>2 DEF OrderInv, ScanInv
<1>6. \A n, m \in Names : Older(n, m)' => Older(n, m) /\ n \in todo'
    BY <1>1 DEF Older
<1>7. ASSUME faults = 0 PROVE DoneInv' /\ KnownInv' /\ StableInv' /\ HandedInv' /\ OutInv'
  <2>1. DoneInv' /\ HandedInv'
    BY <1>1, <1>7 DEF OrderInv, DoneInv, HandedInv, Out, Held, queueStopped
  <2>2. KnownInv'
    BY <1>1, <1>6, <1>7 DEF OrderInv, KnownInv, Known
  <2>3. StableInv'
    BY <1>1, <1>2, <1>7 DEF OrderInv, StableInv, Older
  <2>4. OutInv'
    BY <1>1, <1>7 DEF OrderInv, OutInv, Older, Out, Held
  <2>. QED BY <2>1, <2>2, <2>3, <2>4
<1>. QED BY <1>1, <1>4, <1>5, <1>7 DEF OrderInv

\* The scanner forgets no file that is still there.
LEMMA OrderUnlock ==
    ASSUME TypeOK, OrderInv, ScanUnlock
    PROVE  OrderInv'
<1>1. /\ scPc = "locked" /\ scPc' \in {"idle", "push"} /\ todo = {} /\ todo' = {} /\ seen' = {}
      /\ \A n \in Names : states'[n] = IF n \in seen THEN states[n] ELSE NoState
      /\ UNCHANGED <<dir, phase, stable, items, inQueue, pc, item, clock, latest, ahead, faults>>
    BY DEF ScanUnlock, fsvars, qvars, wvars, gvars
<1>. Mtimes' = Mtimes
    BY <1>1 DEF Mtimes
<1>2. \A n \in Names : dir[n] # 0 /\ states[n] # NoState => states'[n] = states[n]
    BY <1>1 DEF OrderInv, ScanInv
<1>3. \A n \in Names : states'[n] # NoState => states'[n] = states[n]
    BY <1>1
<1>4. DatedInv'
    BY <1>1, <1>3 DEF OrderInv, DatedInv
<1>5. QueueInv' /\ OffInv'
    BY <1>1 DEF OrderInv, QueueInv, OffInv
<1>6. ScanInv'
    BY <1>1, <1>3 DEF OrderInv, ScanInv
<1>7. ASSUME faults = 0 PROVE DoneInv' /\ KnownInv' /\ StableInv' /\ HandedInv' /\ OutInv'
  <2>. ~NoState.isQueued
    BY DEF NoState
  <2>1. DoneInv' /\ HandedInv'
    BY <1>1, <1>7 DEF OrderInv, DoneInv, HandedInv, Out, Held, queueStopped
  <2>2. KnownInv'
    <3>. SUFFICES ASSUME NEW m \in Names, NEW n \in Names, Older(n, m), states'[m] # NoState
                  PROVE  states'[n] # NoState
      BY <1>1 DEF KnownInv, Known, Older
    <3>1. states[m] # NoState
      BY <1>3
    <3>2. states[n] # NoState
      BY <1>1, <1>7, <3>1 DEF OrderInv, KnownInv
    <3>. QED BY <1>2, <3>2 DEF Older
  <2>3. StableInv'
    <3>. SUFFICES ASSUME NEW m \in NamesOf(stable), NEW n \in Names, Older(n, m)
                  PROVE  states'[n].isQueued
      BY <1>1 DEF StableInv, Older
    <3>1. states[n].isQueued
      BY <1>1, <1>7 DEF OrderInv, StableInv
    <3>. QED BY <1>2, <3>1 DEF Older
  <2>4. OutInv'
    BY <1>1, <1>7 DEF OrderInv, OutInv, Older, Out, Held
  <2>. QED BY <2>1, <2>2, <2>3, <2>4
<1>. QED BY <1>1, <1>4, <1>5, <1>6, <1>7 DEF OrderInv

\* scanOnce looks at a file: gone, seen for the first time, or as it was.
LEMMA OrderEntry ==
    ASSUME TypeOK, OnceInv, OwnerInv, OrderInv, NEW k \in Names, ScanEntry(k)
    PROVE  OrderInv'
<1>0. /\ scPc = "locked" /\ scPc' = "locked" /\ k \in todo /\ todo' = todo \ {k} /\ k \notin seen
      /\ UNCHANGED <<dir, phase, items, inQueue, pc, item, clock, latest, faults>>
      /\ states \in [Names -> ScanStates]
    BY DEF ScanEntry, OrderInv, ScanInv, TypeOK, fsvars, qvars, wvars, gvars
<1>. Mtimes' = Mtimes
    BY <1>0 DEF Mtimes
<1>1. \A n, m \in Names : ahead'[m] = ahead[m] => Older(n, m)' = Older(n, m)
    BY <1>0 DEF Older
<1>2. \A n \in Names : Out(n)' = Out(n)
    BY <1>0 DEF Out, Held
<1>3. DoneInv' = DoneInv /\ OffInv' = OffInv
    BY <1>0 DEF DoneInv, OffInv
<1>. ~NoState.isQueued
    BY DEF NoState
<1>4. CASE dir[k] = 0
  <2>1. UNCHANGED <<seen, states, ahead, stable>>
    BY <1>4 DEF ScanEntry
  <2>2. DatedInv' /\ QueueInv' /\ ScanInv'
    BY <1>0, <1>4, <2>1 DEF OrderInv, DatedInv, QueueInv, ScanInv
  <2>3. ASSUME faults = 0 PROVE KnownInv' /\ StableInv' /\ HandedInv' /\ OutInv'
    <3>1. \A n, m \in Names : Older(n, m) => n # k
      BY <1>4 DEF Older
    <3>5. OutInv'
      BY <1>1, <1>2, <2>1, <2>3 DEF OrderInv, OutInv
    <3>2. KnownInv'
      BY <1>0, <1>1, <2>1, <2>3, <3>1 DEF OrderInv, KnownInv, Known
    <3>3. StableInv'
      BY <1>0, <1>4, <2>1, <2>3 DEF OrderInv, StableInv, Older
    <3>4. HandedInv'
      BY <1>0, <1>2, <2>1, <2>3 DEF OrderInv, HandedInv, queueStopped
    <3>. QED BY <3>2, <3>3, <3>4, <3>5
  <2>. QED BY <1>0, <1>3, <2>2, <2>3 DEF OrderInv
<1>5. CASE dir[k] # 0
  <2>0. dir[k] = latest[k] /\ latest[k] # 0
    BY <1>5 DEF OnceInv
  <2>. DEFINE f == Info[latest[k]]
  <2>1. /\ seen' = seen \cup {k}
        /\ states'[k] = Rescanned(states[k], f)
        /\ \A n \in Names \ {k} : states'[n] = states[n] /\ ahead'[n] = ahead[n]
    BY <1>0, <1>5, <2>0 DEF ScanEntry, TypeOK
  <2>2. CASE states[k] = NoState
    <3>1. /\ stable' = stable /\ states'[k] # NoState
          /\ states'[k] = [mtime |-> f.mtime, size |-> f.size, scans |-> 1, isQueued |-> FALSE]
          /\ ahead'[k] = (todo \cup seen) \ {k}
      BY <1>5, <2>0, <2>1, <2>2 DEF ScanEntry, BecomesStable, Rescanned, NoState, TypeOK
    <3>2. Unchanged(states'[k], f) /\ states'[k].scans = 1 /\ ~states'[k].isQueued
      BY <3>1 DEF Unchanged
    <3>. HIDE DEF f
    <3>0. /\ \A n \in todo \cup seen : n \in Names /\ latest[n] # 0
          /\ \A n \in seen : states[n] # NoState /\ n # k
      BY <1>0 DEF TypeOK, OrderInv, DatedInv, ScanInv
    <3>3. DatedInv'
      <4>1. \A m \in Names : \A n \in ahead'[m] : latest[n] # 0
        BY <2>1, <3>0, <3>1 DEF OrderInv, DatedInv
      <4>2. \A n \in Names : states'[n] # NoState
                                => latest[n] # 0 /\ Unchanged(states'[n], Info[latest[n]])
        BY <2>0, <2>1, <3>2 DEF OrderInv, DatedInv, f
      <4>3. /\ Dated(items', Mtimes') /\ Dated(stable', Mtimes')
            /\ \A w \in Workers : pc'[w] \in Busy => item'[w].mtime = Mtimes'[item'[w].name]
        BY <1>0, <3>1 DEF OrderInv, DatedInv
      <4>4. /\ \A n \in todo' : latest[n] # 0
            /\ \A n \in Names : latest'[n] <= clock'
            /\ clock' <= MaxVersion /\ latest' = latest
        BY <1>0 DEF OrderInv, DatedInv
      <4>. QED BY <4>1, <4>2, <4>3, <4>4 DEF DatedInv
    <3>4. QueueInv' /\ ScanInv'
      <4>1. \A n \in seen' : states'[n] # NoState
        BY <2>1, <3>0, <3>1
      <4>. QED BY <1>0, <2>1, <3>1, <3>2, <4>1 DEF OrderInv, QueueInv, ScanInv
    <3>5. ASSUME faults = 0 PROVE KnownInv' /\ StableInv' /\ HandedInv' /\ OutInv'
      <4>1. /\ ~Known(k) /\ ~Known(k)'
            /\ \A n \in Names \ {k} : Known(n)' = Known(n)
        BY <2>1, <2>2, <3>2 DEF Known
      <4>0. k \notin NamesOf(stable) /\ ~Out(k)
        <5>1. ~InHand(k)
          BY <1>5, <2>2 DEF OwnerInv, Remembered
        <5>. QED BY <5>1 DEF InHand, Out, Held
      <4>2. KnownInv'
        <5>. SUFFICES ASSUME NEW m \in Names, NEW n \in Names, Older(n, m)'
             PROVE /\ Known(m)' => Known(n)'
                   /\ states'[m] # NoState => states'[n] # NoState \/ n \in todo'
          BY DEF KnownInv
        <5>1. CASE m = k
          <6>1. n \in (todo \cup seen) \ {k}
            BY <3>1, <5>1 DEF Older
          <6>2. states'[n] = states[n]
            BY <2>1, <6>1
          <6>3. states'[n] # NoState \/ n \in todo'
            BY <1>0, <3>0, <6>1, <6>2
          <6>. QED BY <4>1, <5>1, <6>3
        <5>2. CASE m # k
          <6>1. Older(n, m) /\ states'[m] = states[m]
            BY <1>1, <2>1, <5>2
          <6>2. /\ Known(m) => Known(n)
                /\ states[m] # NoState => states[n] # NoState \/ n \in todo
            BY <3>5, <6>1 DEF OrderInv, KnownInv
          <6>3. Known(m)' => Known(n)'
            BY <4>1, <6>2
          <6>4. ASSUME states'[m] # NoState
                PROVE  states'[n] # NoState \/ n \in todo'
            BY <1>0, <2>1, <3>1, <6>1, <6>2, <6>4
          <6>. QED BY <6>3, <6>4
        <5>. QED BY <5>1, <5>2
      <4>3. StableInv'
        <5>. SUFFICES ASSUME NEW m \in NamesOf(stable), NEW n \in Names, Older(n, m)'
             PROVE  states'[n].isQueued \/ (n \in todo' /\ states'[n] # NoState)
          BY <3>1 DEF StableInv
        <5>1. m # k
          BY <4>0
        <5>2. m \in Names
          BY NamesType DEF TypeOK
        <5>3. Older(n, m)
          BY <1>1, <2>1, <5>1, <5>2
        <5>4. states[n].isQueued \/ (n \in todo /\ states[n] # NoState)
          BY <3>5, <5>3 DEF OrderInv, StableInv
        <5>. QED BY <1>0, <2>1, <2>2, <5>4
      <4>4. HandedInv'
        BY <1>0, <1>2, <2>1, <3>1, <3>2, <3>5 DEF OrderInv, HandedInv, queueStopped
      <4>5. OutInv'
        BY <1>1, <1>2, <2>1, <3>5, <4>0 DEF OrderInv, OutInv
      <4>. QED BY <4>2, <4>3, <4>4, <4>5
    <3>. QED BY <1>0, <1>3, <3>3, <3>4, <3>5 DEF OrderInv
  <2>3. CASE states[k] # NoState
    <3>0. ahead' = ahead
      BY <1>5, <2>3 DEF ScanEntry
    <3>1. Unchanged(states[k], f)
      BY <2>3 DEF OrderInv, DatedInv
    <3>2. states'[k] = [mtime |-> f.mtime, size |-> f.size, scans |-> 2, isQueued |-> TRUE]
      BY <2>1, <2>3, <3>1 DEF Rescanned
    <3>3. Unchanged(states'[k], f) /\ states'[k].scans = 2 /\ states'[k].isQueued
          /\ states'[k] # NoState
      BY <3>2 DEF NoState, Unchanged
    <3>4. \/ stable' = stable /\ states[k].isQueued
          \/ /\ NamesOf(stable') = NamesOf(stable) \cup {k}
             /\ Sorted(stable') /\ Dated(stable', Mtimes)
      <4>1. CASE states[k].isQueued
        BY <1>5, <4>1 DEF ScanEntry, BecomesStable
      <4>2. CASE ~states[k].isQueued
        <5>. DEFINE x == [name |-> k, mtime |-> f.mtime]
        <5>0. Mtimes[k] = f.mtime /\ Mtimes[k] \in Nat
          BY <2>0, MtimesType DEF Mtimes, OrderInv
        <5>1. x \in Items /\ x.name = k /\ x.mtime = Mtimes[x.name]
          BY <5>0 DEF Items
        <5>2. stable' \in InsertSorted(stable, x)
          BY <1>5, <2>0, <2>3, <3>1, <4>2 DEF ScanEntry, BecomesStable
        <5>3. stable \in Seq(Items) /\ Sorted(stable) /\ Dated(stable, Mtimes)
          BY DEF TypeOK, OrderInv, QueueInv, DatedInv
        <5>. HIDE DEF x
        <5>4. NamesOf(stable') = NamesOf(stable) \cup {x.name}
          BY <5>1, <5>2, <5>3, InsertNames
        <5>5. /\ Sorted(stable) => Sorted(stable')
              /\ Dated(stable, Mtimes) /\ x.mtime = Mtimes[x.name] => Dated(stable', Mtimes)
          BY <5>1, <5>2, <5>3, InsertOrder
        <5>. QED BY <5>1, <5>3, <5>4, <5>5
      <4>. QED BY <4>1, <4>2
    <3>5. NamesOf(stable') \subseteq NamesOf(stable) \cup {k} /\ NamesOf(stable) \subseteq NamesOf(stable')
      BY <3>4
    <3>6. DatedInv'
      <4>1. Dated(stable', Mtimes)
        BY <3>4 DEF OrderInv, DatedInv
      <4>2. \A n \in Names : states'[n] # NoState
                                => latest[n] # 0 /\ Unchanged(states'[n], Info[latest[n]])
        BY <2>0, <2>1, <3>3 DEF OrderInv, DatedInv
      <4>3. /\ Dated(items', Mtimes') /\ Dated(stable', Mtimes')
            /\ \A w \in Workers : pc'[w] \in Busy => item'[w].mtime = Mtimes'[item'[w].name]
        BY <1>0, <4>1 DEF OrderInv, DatedInv
      <4>4. /\ \A n \in todo' : latest[n] # 0
            /\ \A m \in Names : \A n \in ahead'[m] : latest[n] # 0
            /\ \A n \in Names : latest'[n] <= clock'
            /\ clock' <= MaxVersion /\ latest' = latest
        BY <1>0, <3>0 DEF OrderInv, DatedInv
      <4>. QED BY <4>2, <4>3, <4>4 DEF DatedInv
    <3>7. QueueInv'
      <4>1. Sorted(stable')
        BY <3>4 DEF OrderInv, QueueInv
      <4>. QED BY <1>0, <4>1 DEF OrderInv, QueueInv
    <3>8. ScanInv'
      <4>1. \A n \in seen' : states'[n] # NoState
        BY <2>1, <3>3 DEF OrderInv, ScanInv, TypeOK
      <4>. QED BY <1>0, <2>1, <3>3, <4>1 DEF OrderInv, ScanInv
    <3>. HIDE DEF f
    <3>10. \A n, m \in Names : Older(n, m)' = Older(n, m)
      BY <1>1, <3>0
    <3>9. ASSUME faults = 0 PROVE KnownInv' /\ StableInv' /\ HandedInv' /\ OutInv'
      <4>1. /\ Known(k) /\ Known(k)'
            /\ \A n \in Names \ {k} : Known(n)' = Known(n)
        BY <1>0, <2>1, <2>3, <3>3 DEF Known
      <4>2. KnownInv'
        <5>. SUFFICES ASSUME NEW m \in Names, NEW n \in Names, Older(n, m)
             PROVE /\ Known(m)' => Known(n)'
                   /\ states'[m] # NoState => states'[n] # NoState \/ n \in todo'
          BY <3>10 DEF KnownInv
        <5>1. /\ Known(m) => Known(n)
              /\ states[m] # NoState => states[n] # NoState \/ n \in todo
          BY <3>9 DEF OrderInv, KnownInv
        <5>2. Known(m)' => Known(n)'
          BY <4>1, <5>1
        <5>3. ASSUME states'[m] # NoState
              PROVE  states'[n] # NoState \/ n \in todo'
          BY <1>0, <2>1, <2>3, <3>3, <5>1, <5>3
        <5>. QED BY <5>2, <5>3
      <4>3. StableInv'
        <5>. SUFFICES ASSUME NEW m \in NamesOf(stable'), NEW n \in Names, Older(n, m)', n # k
             PROVE states[n].isQueued \/ (n \in todo /\ states[n] # NoState)
          BY <1>0, <2>1, <3>3 DEF StableInv
        <5>0. Older(n, m) /\ dir[n] # 0
          BY <1>0, <3>0 DEF Older
        <5>1. CASE m \in NamesOf(stable)
          BY <3>9, <5>0, <5>1 DEF OrderInv, StableInv
        <5>2. CASE m = k
          <6>1. Known(n)
            BY <3>9, <4>1, <5>0, <5>2 DEF OrderInv, KnownInv
          <6>2. CASE n \notin todo
            <7>1. n \in seen
              BY <1>0, <5>0, <6>1, <6>2 DEF Known, OrderInv, ScanInv
            <7>. QED BY <6>1, <7>1 DEF Known, OrderInv, ScanInv
          <6>. QED BY <6>1, <6>2 DEF Known
        <5>. QED BY <3>5, <5>1, <5>2
      <4>4. HandedInv'
        <5>1. states[k].isQueued \/ k \in NamesOf(stable')
          BY <3>4
        <5>. QED BY <1>0, <1>2, <2>1, <3>5, <3>9, <5>1 DEF OrderInv, HandedInv, queueStopped
      <4>5. OutInv'
        BY <1>2, <3>9, <3>10 DEF OrderInv, OutInv
      <4>. QED BY <4>2, <4>3, <4>4, <4>5
    <3>. QED BY <1>0, <1>3, <3>6, <3>7, <3>8, <3>9 DEF OrderInv
  <2>. QED BY <2>2, <2>3
<1>. QED BY <1>4, <1>5

\* The oldest of the stable files is pushed: what is older is out already.
LEMMA OrderPush ==
    ASSUME TypeOK, PushInv, OwnerInv, OrderInv, ScanPush
    PROVE  OrderInv'
<1>. DEFINE x == Head(stable)
<1>0. /\ scPc = "push" /\ scPc' \in {"idle", "push"} /\ stable # <<>> /\ stable' = Tail(stable)
      /\ UNCHANGED <<dir, phase, todo, seen, states, item, clock, latest, ahead, faults>> /\ Push(x)
    BY DEF ScanPush, PushInv, fsvars, gvars
<1>. Mtimes' = Mtimes
    BY <1>0 DEF Mtimes
<1>1. /\ stable \in Seq(Items) /\ items \in Seq(Items) /\ Distinct(stable)
      /\ Sorted(stable) /\ Dated(stable, Mtimes) /\ Sorted(items) /\ Dated(items, Mtimes)
      /\ latest \in [Names -> Nat] /\ todo = {}
    BY <1>0 DEF TypeOK, OwnerInv, Exclusive, OrderInv, QueueInv, DatedInv, ScanInv
<1>2. /\ Sorted(stable') /\ Dated(stable', Mtimes) /\ x \in Items /\ x.mtime = Mtimes[x.name]
      /\ \A n \in NamesOf(stable) : x.mtime <= Mtimes[n]
    BY <1>0, <1>1, TailOrder
<1>3. NamesOf(stable') = NamesOf(stable) \ {x.name} /\ x.name \in NamesOf(stable)
    BY <1>0, <1>1, TailNames
<1>4. x.name \notin inQueue /\ inQueue = NamesOf(items) /\ x.name \in Names
    BY <1>2, <1>3 DEF OwnerInv, Exclusive, OrderInv, QueueInv, Items
<1>5. \A w \in Workers : pc'[w] = pc[w] \/ (pc[w] = "wait" /\ pc'[w] = "pop")
    BY <1>0, SignalMoves DEF Push, TypeOK
<1>6. \A w \in Workers : pc'[w] \in Busy <=> pc[w] \in Busy
    BY <1>5 DEF Busy
<1>7. \A n \in Names : Held(n)' <=> Held(n)
    BY <1>0, <1>6 DEF Held
<1>. HIDE DEF x
<1>8. /\ Sorted(items') /\ Dated(items', Mtimes) /\ inQueue' = NamesOf(items')
      /\ NamesOf(items') = IF queueStopped THEN NamesOf(items) ELSE NamesOf(items) \cup {x.name}
  <2>1. CASE queueStopped
    BY <1>0, <1>1, <1>4, <2>1 DEF Push
  <2>2. CASE ~queueStopped
    <3>1. items' \in InsertSorted(items, x) /\ inQueue' = inQueue \cup {x.name}
      BY <1>0, <1>4, <2>2 DEF Push
    <3>2. /\ Sorted(items) => Sorted(items')
          /\ Dated(items, Mtimes) /\ x.mtime = Mtimes[x.name] => Dated(items', Mtimes)
      BY <1>1, <1>2, <3>1, InsertOrder
    <3>3. NamesOf(items') = NamesOf(items) \cup {x.name}
      BY <1>1, <1>2, <3>1, InsertNames
    <3>. QED BY <1>1, <1>2, <1>4, <2>2, <3>1, <3>2, <3>3
  <2>. QED BY <2>1, <2>2
<1>9. DatedInv'
    BY <1>0, <1>2, <1>6, <1>8 DEF OrderInv, DatedInv
<1>10. QueueInv' /\ ScanInv'
    BY <1>0, <1>2, <1>8 DEF OrderInv, QueueInv, ScanInv
<1>11. OffInv'
    BY <1>0 DEF OrderInv, OffInv
<1>12. ASSUME faults = 0 PROVE DoneInv' /\ KnownInv' /\ StableInv' /\ HandedInv' /\ OutInv'
  <2>. DoneInv /\ KnownInv /\ StableInv /\ HandedInv /\ OutInv
    BY <1>12 DEF OrderInv
  <2>1. DoneInv'
    BY <1>0, <1>5 DEF DoneInv
  <2>2. KnownInv'
    BY <1>0 DEF KnownInv, Known, Older
  <2>3. StableInv'
    BY <1>0, <1>3 DEF StableInv, Older
  <2>4. \A n \in Names : Out(n)' <=> Out(n) \/ (~queueStopped /\ n = x.name)
    BY <1>7, <1>8 DEF Out
  <2>5. HandedInv'
    BY <1>0, <1>3, <2>4 DEF HandedInv, queueStopped
  <2>6. ASSUME ~queueStopped, NEW n \in Names, Older(n, x.name) PROVE Out(n)
    <3>1. states[n].isQueued /\ dir[n] # 0
      BY <1>1, <1>3, <2>6 DEF StableInv, Older
    <3>2. Out(n) \/ n \in NamesOf(stable)
      BY <2>6, <3>1 DEF HandedInv
    <3>3. Mtimes \in [Names -> Nat]
      BY MtimesType DEF OrderInv
    <3>4. n \notin NamesOf(stable)
      BY <1>2, <1>4, <2>6, <3>3 DEF Older
    <3>. QED BY <3>2, <3>4
  <2>7. \A n, m \in Names : Older(n, m)' <=> Older(n, m)
    BY <1>0 DEF Older
  <2>8. OutInv'
    BY <2>4, <2>6, <2>7 DEF OutInv
  <2>. QED BY <2>1, <2>2, <2>3, <2>5, <2>8
<1>. QED BY <1>0, <1>9, <1>10, <1>11, <1>12 DEF OrderInv

\* Pop moves the oldest file of the queue to the worker.
LEMMA OrderPop ==
    ASSUME TypeOK, OwnerInv, OrderInv, NEW w \in Workers, PopItem(w)
    PROVE  OrderInv'
<1>. DEFINE x == Head(items)
<1>0. /\ items # <<>> /\ items' = Tail(items) /\ inQueue' = inQueue \ {x.name} /\ pc[w] = "pop"
      /\ item' = [item EXCEPT ![w] = x]
      /\ UNCHANGED <<dir, phase, scPc, todo, seen, stable, states, clock, latest, ahead, faults>>
    BY DEF PopItem, scvars, fsvars, gvars
<1>. Mtimes' = Mtimes
    BY <1>0 DEF Mtimes
<1>1. /\ items \in Seq(Items) /\ Distinct(items) /\ Sorted(items) /\ Dated(items, Mtimes)
      /\ inQueue = NamesOf(items)
    BY DEF TypeOK, OwnerInv, Exclusive, OrderInv, QueueInv, DatedInv
<1>2. Sorted(items') /\ Dated(items', Mtimes) /\ x \in Items /\ x.mtime = Mtimes[x.name]
    BY <1>0, <1>1, TailOrder
<1>3. NamesOf(items') = NamesOf(items) \ {x.name} /\ x.name \in NamesOf(items)
    BY <1>0, <1>1, TailNames
<1>. HIDE DEF x
<1>4. /\ pc'[w] \in {"dial", "open"} /\ item'[w] = x
      /\ \A v \in Workers \ {w} : pc'[v] = pc[v] /\ item'[v] = item[v]
    BY <1>0 DEF PopItem, Goto, TypeOK
<1>5. DatedInv'
    BY <1>0, <1>2, <1>4 DEF OrderInv, DatedInv
<1>6. QueueInv'
    BY <1>0, <1>1, <1>2, <1>3 DEF OrderInv, QueueInv
<1>7. ScanInv' /\ OffInv'
    BY <1>0 DEF OrderInv, ScanInv, OffInv
<1>8. faults' = 0 => DoneInv'
    BY <1>0, <1>4 DEF OrderInv, DoneInv
<1>9. \A n \in Names : Held(n)' <=> Held(n) \/ n = x.name
    BY <1>0, <1>4 DEF Held, Busy
<1>10. \A n \in Names : Out(n)' <=> Out(n)
    BY <1>3, <1>9 DEF Out
<1>11. faults' = 0 => KnownInv' /\ StableInv' /\ HandedInv' /\ OutInv'
    BY <1>0, <1>10, ChainFrame DEF queueStopped
<1>. QED BY <1>5, <1>6, <1>7, <1>8, <1>11 DEF OrderInv

\* RecordFailure: a file is queued again in its place, or quarantined.
LEMMA OrderFailure ==
    ASSUME TypeOK, OwnerInv, OrderInv, NEW w \in Workers, pc[w] \in Busy,
           NEW p \in {"backoff", "mark", "top"}, RecordFailure(w, p),
           p = "mark" => LastAttempt(w) /\ item'[w] = item[w],
           UNCHANGED <<stable, states, latest, clock, ahead, scPc, todo, seen, phase>>,
           \A v \in Workers \ {w} : item'[v] = item[v]
    PROVE  OrderInv'
<1>. DEFINE x == item[w]
<1>0. x \in Items /\ x.name \in Names /\ faults \in Nat
    BY DEF TypeOK, Items
<1>. Mtimes' = Mtimes
    BY DEF Mtimes
<1>1. /\ items \in Seq(Items) /\ Sorted(items) /\ Dated(items, Mtimes) /\ inQueue = NamesOf(items)
      /\ x.mtime = Mtimes[x.name]
    BY DEF TypeOK, OrderInv, QueueInv, DatedInv
<1>2. /\ pc'[w] = p
      /\ \A v \in Workers \ {w} : pc'[v] = pc[v] \/ pc'[v] = "pop"
    BY <1>0, FailureType
<1>3. \A v \in Workers \ {w} : pc'[v] = pc[v] \/ (pc[v] = "wait" /\ pc'[v] = "pop")
  <2>. DEFINE q == [pc EXCEPT ![w] = p]
  <2>1. q \in [Workers -> WorkerPcs] /\ \A v \in Workers \ {w} : q[v] = pc[v]
    BY DEF TypeOK, WorkerPcs
  <2>2. pc' = q \/ pc' \in Signal(q)
    BY DEF RecordFailure
  <2>. HIDE DEF q
  <2>. QED BY <2>1, <2>2, SignalMoves
<1>4. x.name \notin inQueue
    BY <1>1 DEF OwnerInv, Exclusive
<1>5. \A v \in Workers \ {w} : (pc'[v] \in Busy <=> pc[v] \in Busy) /\ item'[v] = item[v]
    BY <1>3 DEF Busy
<1>6. OffInv'
  <2>1. pc[w] # "none"
    BY DEF Busy
  <2>. QED BY <2>1 DEF OrderInv, OffInv
<1>7. CASE LastAttempt(w)
  <2>1. items' = items /\ inQueue' = inQueue /\ Quarantine(x.name)
    BY <1>4, <1>7 DEF RecordFailure
  <2>2. /\ \A n \in Names : dir'[n] \in {0, dir[n]}
        /\ faults' = 0 => faults = 0 /\ dir'[x.name] = 0
    BY <1>0, <2>1 DEF Quarantine, Fault, TypeOK
  <2>3. \A v \in Workers : pc'[v] \in Busy => pc[v] \in Busy /\ item'[v] = item[v]
    BY <1>2, <1>5 DEF Busy
  <2>4. \A v \in Workers : pc[v] \in Busy /\ pc'[v] \notin Busy /\ faults' = 0
            => dir'[item[v].name] = 0
    BY <1>5, <2>2
  <2>5. \A v \in Workers : pc'[v] \in {"success", "mark"} /\ faults' = 0
            => dir'[item'[v].name] = 0
    <3>1. SUFFICES ASSUME NEW v \in Workers, pc'[v] \in {"success", "mark"}, faults' = 0
                   PROVE  dir'[item'[v].name] = 0
      OBVIOUS
    <3>2. CASE v = w
      BY <1>2, <2>2, <3>1, <3>2
    <3>3. CASE v # w
      <4>1. pc[v] \in {"success", "mark"} /\ item'[v] = item[v] /\ pc[v] \in Busy
        BY <1>3, <1>5, <3>1, <3>3 DEF Busy
      <4>2. dir[item[v].name] = 0 /\ item[v].name \in Names
        BY <2>2, <3>1, <4>1 DEF OrderInv, DoneInv, TypeOK, Items
      <4>. QED BY <2>2, <4>1, <4>2
    <3>. QED BY <3>2, <3>3
  <2>. HIDE DEF x
  <2>. QED BY <1>6, <2>1, <2>2, <2>3, <2>4, <2>5, OrderFrame DEF queueStopped
<1>8. CASE ~LastAttempt(w)
  <2>1. /\ items' \in InsertSorted(items, x) /\ inQueue' = inQueue \cup {x.name}
        /\ UNCHANGED <<dir, faults>> /\ p # "mark"
    BY <1>4, <1>8 DEF RecordFailure
  <2>. HIDE DEF x
  <2>2. /\ Sorted(items) => Sorted(items')
        /\ Dated(items, Mtimes) /\ x.mtime = Mtimes[x.name] => Dated(items', Mtimes)
    BY <1>0, <1>1, <2>1, InsertOrder
  <2>3. NamesOf(items') = NamesOf(items) \cup {x.name}
    BY <1>0, <1>1, <2>1, InsertNames
  <2>4. DatedInv'
    BY <1>1, <1>2, <1>5, <2>1, <2>2 DEF OrderInv, DatedInv, Busy
  <2>5. QueueInv'
    BY <1>1, <2>1, <2>2, <2>3 DEF OrderInv, QueueInv
  <2>6. ScanInv'
    BY <2>1 DEF OrderInv, ScanInv
  <2>7. faults' = 0 => DoneInv'
    BY <1>2, <1>3, <2>1 DEF OrderInv, DoneInv
  <2>8. \A n \in Names : Held(n) <=> Held(n)' \/ n = x.name
    BY <1>2, <1>5, <2>1 DEF Held, Busy, x
  <2>9. \A n \in Names : Out(n)' <=> Out(n)
    BY <2>3, <2>8 DEF Out
  <2>10. faults' = 0 => KnownInv' /\ StableInv' /\ HandedInv' /\ OutInv'
    BY <2>1, <2>9, ChainFrame DEF queueStopped
  <2>. QED BY <1>6, <2>4, <2>5, <2>6, <2>7, <2>10 DEF OrderInv
<1>. QED BY <1>7, <1>8

\* MarkCompleted makes the scanner forget a file that is gone.
LEMMA OrderMark ==
    ASSUME TypeOK, OwnerInv, OrderInv, NEW w \in Workers, MarkCompleted(w)
    PROVE  OrderInv'
<1>. DEFINE k == item[w].name
<1>0. /\ UNCHANGED <<items, inQueue, stable, dir, phase, clock, latest, ahead, scPc, todo, seen, faults>>
      /\ pc[w] = "mark" /\ scPc # "locked"
      /\ item' = [item EXCEPT ![w] = NoItem] /\ pc' = [pc EXCEPT ![w] = "top"]
      /\ states' = [states EXCEPT ![k] = NoState]
    BY DEF MarkCompleted, DropItem, Goto, qvars, fsvars, gvars
<1>. Mtimes' = Mtimes
    BY <1>0 DEF Mtimes
<1>1. /\ pc'[w] = "top" /\ k \in Names
      /\ \A v \in Workers \ {w} : pc'[v] = pc[v] /\ item'[v] = item[v]
    BY <1>0 DEF TypeOK, Busy, Items
<1>2. states'[k] = NoState /\ \A n \in Names \ {k} : states'[n] = states[n]
    BY <1>0, <1>1 DEF TypeOK
<1>3. faults = 0 => dir[k] = 0
    BY <1>0 DEF OrderInv, DoneInv
<1>4. \A n \in Names : Held(n)' <=> Held(n) /\ n # k
    BY <1>0, <1>1 DEF Held, Busy, OwnerInv, Exclusive
<1>. HIDE DEF k
<1>5. DatedInv' /\ QueueInv'
  <2>1. /\ Dated(items', Mtimes') /\ Dated(stable', Mtimes')
        /\ \A v \in Workers : pc'[v] \in Busy => item'[v].mtime = Mtimes'[item'[v].name]
    BY <1>0, <1>1 DEF OrderInv, DatedInv, Busy
  <2>2. \A n \in Names : states'[n] # NoState
                            => latest[n] # 0 /\ Unchanged(states'[n], Info[latest[n]])
    BY <1>2 DEF OrderInv, DatedInv
  <2>3. QueueInv'
    BY <1>0 DEF OrderInv, QueueInv
  <2>. QED BY <1>0, <2>1, <2>2, <2>3 DEF OrderInv, DatedInv
<1>6. ScanInv' /\ OffInv'
    BY <1>0, <1>2 DEF OrderInv, ScanInv, OffInv
<1>7. ASSUME faults = 0 PROVE DoneInv' /\ KnownInv' /\ StableInv' /\ HandedInv' /\ OutInv'
  <2>. DoneInv /\ KnownInv /\ StableInv /\ HandedInv /\ OutInv
    BY <1>7 DEF OrderInv
  <2>1. /\ \A n, m \in Names : Older(n, m)' => Older(n, m) /\ n # k
        /\ \A m, n \in Names : dir[n] # 0 => n # k
    BY <1>0, <1>3, <1>7 DEF Older
  <2>2. \A n \in Names : Known(n)' <=> Known(n) /\ n # k
    BY <1>0, <1>2 DEF Known
  <2>3. DoneInv'
    <3>1. \A v \in Workers : pc'[v] \in {"success", "mark"} =>
            v # w /\ pc'[v] = pc[v] /\ item'[v] = item[v]
      BY <1>1
    <3>. QED BY <1>0, <3>1 DEF DoneInv
  <2>4. KnownInv'
    BY <1>0, <1>2, <2>1, <2>2 DEF KnownInv
  <2>5. StableInv'
    <3>1. \A m \in NamesOf(stable), n \in Names : Older(n, m)' => Older(n, m) /\ n # k
      BY <1>0, <1>3, <1>7 DEF Older
    <3>. QED BY <1>0, <1>2, <3>1 DEF StableInv
  <2>6. \A n \in Names : n # k => (Out(n)' <=> Out(n))
    BY <1>0, <1>4 DEF Out
  <2>7. \A n \in Names : Out(n)' => Out(n)
    BY <1>0, <1>4 DEF Out
  <2>8. HandedInv'
    BY <1>0, <1>2, <2>1, <2>6 DEF HandedInv, queueStopped
  <2>9. OutInv'
    BY <1>1, <2>1, <2>6, <2>7 DEF OutInv
  <2>. QED BY <2>3, <2>4, <2>5, <2>8, <2>9
<1>. QED BY <1>0, <1>5, <1>6, <1>7 DEF OrderInv

\* A new file is unknown, and in no earlier listing.
LEMMA OrderProduce ==
    ASSUME Producer = "once", TypeOK, OwnerInv, OrderInv, NEW k \in Names, Produce(k)
    PROVE  OrderInv'
<1>0. /\ latest[k] = 0 /\ dir' = [dir EXCEPT ![k] = clock + 1] /\ clock' = clock + 1
      /\ latest' = [latest EXCEPT ![k] = clock + 1] /\ clock \in Nat /\ clock < MaxVersion
      /\ UNCHANGED <<items, inQueue, stable, states, ahead, pc, item, scPc, todo, seen, phase, faults>>
    BY DEF Produce, TypeOK, scvars, qvars, wvars
<1>1. /\ latest'[k] = clock + 1
      /\ \A n \in Names \ {k} : latest'[n] = latest[n] /\ dir'[n] = dir[n]
      /\ \A n \in Names : latest[n] \in Nat /\ latest[n] <= clock
    BY <1>0 DEF TypeOK, OrderInv, DatedInv
<1>. \A n \in Names \ {k} : Mtimes'[n] = Mtimes[n]
    BY <1>1 DEF Mtimes
<1>2. states[k] = NoState /\ k \notin todo /\ ~InHand(k) /\ \A m \in Names : k \notin ahead[m]
    BY <1>0 DEF OrderInv, DatedInv, OwnerInv, Produced
<1>3. k \notin NamesOf(items) \cup NamesOf(stable) /\ \A w \in Workers : pc[w] \in Busy => item[w].name # k
    BY <1>2 DEF InHand
<1>. /\ \A i \in 1..Len(items) : items[i].name \in Names
     /\ \A i \in 1..Len(stable) : stable[i].name \in Names
     /\ \A w \in Workers : pc[w] \in Busy => item[w].name \in Names
  <2>1. items \in Seq(Items) /\ stable \in Seq(Items)
    BY DEF TypeOK
  <2>2. items \in [1..Len(items) -> Items] /\ stable \in [1..Len(stable) -> Items]
    BY <2>1, LenProperties
  <2>. QED BY <2>2 DEF TypeOK, Items
<1>4. DatedInv'
  <2>1. Dated(items, Mtimes')
    BY <1>1, <1>3 DEF OrderInv, DatedInv, Dated, NamesOf
  <2>2. Dated(stable, Mtimes')
    BY <1>1, <1>3 DEF OrderInv, DatedInv, Dated, NamesOf
  <2>3. \A w \in Workers : pc[w] \in Busy => item[w].mtime = Mtimes'[item[w].name]
    BY <1>1, <1>3 DEF OrderInv, DatedInv
  <2>4. \A n \in Names : states[n] # NoState
                            => latest'[n] # 0 /\ Unchanged(states[n], Info[latest'[n]])
    BY <1>1, <1>2 DEF OrderInv, DatedInv
  <2>5. todo \subseteq Names
    BY DEF TypeOK
  <2>6. \A n \in todo : latest'[n] # 0
    BY <1>1, <1>2, <2>5 DEF OrderInv, DatedInv
  <2>7. (\A n \in Names : latest'[n] <= clock') /\ clock' <= MaxVersion
    BY <1>0, <1>1, SenderAssumption
  <2>8. \A m \in Names : \A n \in ahead[m] : latest'[n] # 0
    BY <1>1, <1>2 DEF OrderInv, DatedInv, TypeOK
  <2>. QED BY <1>0, <2>1, <2>2, <2>3, <2>4, <2>6, <2>7, <2>8 DEF DatedInv
<1>5. QueueInv' /\ OffInv'
    BY <1>0 DEF OrderInv, QueueInv, OffInv
<1>6. ScanInv'
    BY <1>0, <1>1, <1>2 DEF OrderInv, ScanInv
<1>7. \A n, m \in Names : Older(n, m)' /\ m # k => Older(n, m) /\ n # k
    BY <1>0, <1>1, <1>2 DEF Older
<1>8. \A n \in Names : (Out(n)' <=> Out(n)) /\ (Known(n)' <=> Known(n))
    BY <1>0 DEF Out, Held, Known
<1>9. ~Out(k) /\ ~Known(k)
    BY <1>2, <1>3 DEF Out, Held, Known
<1>10. ASSUME faults = 0 PROVE DoneInv' /\ KnownInv' /\ StableInv' /\ HandedInv' /\ OutInv'
  <2>. DoneInv /\ KnownInv /\ StableInv /\ HandedInv /\ OutInv
    BY <1>10 DEF OrderInv
  <2>1. DoneInv'
    BY <1>0, <1>1, <1>3 DEF DoneInv, Busy
  <2>2. KnownInv'
    BY <1>0, <1>1, <1>2, <1>7, <1>8, <1>9 DEF KnownInv
  <2>3. StableInv'
    <3>1. \A m \in NamesOf(stable) : m \in Names /\ m # k
      BY <1>3 DEF NamesOf
    <3>. QED BY <1>0, <1>7, <3>1 DEF StableInv
  <2>4. HandedInv'
    BY <1>0, <1>1, <1>2, <1>8 DEF HandedInv, queueStopped, NoState
  <2>5. OutInv'
    BY <1>7, <1>8, <1>9 DEF OutInv
  <2>. QED BY <2>1, <2>2, <2>3, <2>4, <2>5
<1>. QED BY <1>0, <1>4, <1>5, <1>6, <1>10 DEF OrderInv

\* At the start there are no files.
LEMMA OrderInit == ASSUME Init PROVE OrderInv
<1>1. /\ items = <<>> /\ stable = <<>> /\ inQueue = {} /\ scPc = "stopped" /\ todo = {} /\ seen = {}
      /\ \A w \in Workers : pc[w] = "none"
      /\ \A n \in Names : states[n] = NoState /\ dir[n] = 0 /\ latest[n] = 0 /\ ahead[n] = {}
      /\ clock = 0 /\ clock <= MaxVersion
    BY SenderAssumption DEF Init
<1>2. Sorted(<<>>) /\ NamesOf(<<>>) = {} /\ Dated(<<>>, Mtimes)
    BY DEF Sorted, NamesOf, Dated
<1>3. DatedInv /\ QueueInv /\ ScanInv /\ OffInv
    BY <1>1, <1>2 DEF DatedInv, QueueInv, ScanInv, OffInv, Busy
<1>4. DoneInv /\ KnownInv /\ StableInv /\ HandedInv /\ OutInv
    BY <1>1 DEF DoneInv, KnownInv, StableInv, HandedInv, OutInv, Older
<1>. QED BY <1>3, <1>4 DEF OrderInv

\* Every step keeps the order.
LEMMA OrderStep ==
    ASSUME Producer = "once", TypeOK, PushInv, OnceInv, OwnerInv, OrderInv, [Next]_vars
    PROVE  OrderInv'
<1>. USE DEF fsvars, scvars, qvars, wvars, gvars, Goto
<1>0. OffInv
    BY DEF OrderInv
<1>1. CASE Start
  <2>1. /\ UNCHANGED <<items, inQueue, stable, states, todo, seen, latest, clock, ahead, dir, faults, item>>
        /\ phase = "off" /\ phase' = "run" /\ scPc' = "idle" /\ \A w \in Workers : pc'[w] = "top"
    BY <1>1 DEF Start
  <2>2. scPc = "stopped" /\ \A w \in Workers : pc[w] = "none"
    BY <1>0, <2>1 DEF OffInv
  <2>3. \A w \in Workers : pc[w] \notin Busy /\ pc'[w] \notin Busy \cup {"success", "mark"}
    BY <2>1, <2>2 DEF Busy
  <2>. QED BY <2>1, <2>2, <2>3, OrderFrame DEF OffInv, queueStopped
<1>2. CASE ScannerStop \/ PoolStop \/ QueueStop
  <2>1. /\ UNCHANGED <<items, inQueue, stable, states, todo, seen, latest, clock, ahead, dir, faults, item, scPc>>
        /\ phase # "queuestop" /\ phase' # "off"
        /\ \A w \in Workers : pc'[w] = pc[w] \/ (pc[w] = "wait" /\ pc'[w] = "pop")
    BY <1>2 DEF ScannerStop, PoolStop, QueueStop
  <2>2. \A w \in Workers : pc'[w] \in Busy <=> pc[w] \in Busy
    BY <2>1 DEF Busy
  <2>3. faults = 0 => \A w \in Workers : pc[w] \in {"success", "mark"} => dir[item[w].name] = 0
    BY DEF OrderInv, DoneInv
  <2>. QED BY <2>1, <2>2, <2>3, OrderFrame DEF OffInv, queueStopped
<1>3. CASE PoolDone \/ Crash
    BY <1>3, OrderEnds DEF PoolDone, Crash
<1>4. CASE ScanRead \/ ScanUnlock
    BY <1>4, OrderRead, OrderUnlock
<1>5. CASE ScanLock \/ ScanExit \/ UNCHANGED vars
      \/ (\E c \in Conns, k \in {"ack", "nack"} : PeerAnswer(c, k))
      \/ (\E cs \in SUBSET Conns : PeerHangup(cs))
  <2>1. /\ UNCHANGED <<items, inQueue, stable, states, todo, seen, latest, clock, ahead, dir, faults,
                       phase, pc, item>>
        /\ \/ scPc' = scPc
           \/ scPc = "read" /\ scPc' = "locked"
           \/ scPc = "idle" /\ scPc' = "stopped"
    BY <1>5 DEF ScanLock, ScanExit, vars, PeerAnswer, PeerHangup
  <2>2. faults = 0 => \A w \in Workers : pc[w] \in {"success", "mark"} => dir[item[w].name] = 0
    BY DEF OrderInv, DoneInv
  <2>3. OffInv'
    BY <1>0, <2>1 DEF OffInv
  <2>. QED BY <2>1, <2>2, <2>3, OrderFrame DEF queueStopped
<1>6. ASSUME NEW n \in Names, ScanEntry(n) PROVE OrderInv'
    BY <1>6, OrderEntry
<1>7. CASE ScanPush
    BY <1>7, OrderPush
<1>8. ASSUME NEW w \in Workers,
             \/ LoopTop(w) \/ PopWait(w) \/ BackoffOver(w) \/ LoopStop(w) \/ PopStopped(w)
             \/ SendFileHeader(w) \/ SendFileBody(w) \/ ReadAck(w) \/ RecordSuccess(w)
             \/ \E c \in Conns : DialOk(w, c)
      PROVE  OrderInv'
  <2>1. UNCHANGED <<items, inQueue, stable, states, todo, seen, latest, clock, ahead, dir, faults,
                    phase, scPc, item>>
    BY <1>8 DEF LoopTop, PopWait, BackoffOver, LoopStop, PopStopped, Leave, SendFileHeader,
                SendFileBody, ReadAck, RecordSuccess, DialOk
  <2>2. \E p \in WorkerPcs : /\ pc' = [pc EXCEPT ![w] = p] /\ pc[w] # "none"
                             /\ p \in Busy <=> pc[w] \in Busy
                             /\ p \in {"success", "mark"} => pc[w] \in {"success", "mark"}
    BY <1>8 DEF LoopTop, PopWait, BackoffOver, LoopStop, PopStopped, Leave, SendFileHeader,
                SendFileBody, ReadAck, RecordSuccess, DialOk, WorkerPcs, Busy
  <2>3. \A v \in Workers : /\ pc'[v] \in Busy <=> pc[v] \in Busy
                           /\ pc'[v] \in {"success", "mark"} => pc[v] \in {"success", "mark"}
    BY <2>2 DEF TypeOK
  <2>4. faults = 0 => \A v \in Workers : pc[v] \in {"success", "mark"} => dir[item[v].name] = 0
    BY DEF OrderInv, DoneInv
  <2>5. OffInv'
    BY <1>0, <2>1, <2>2 DEF OffInv
  <2>. QED BY <2>1, <2>3, <2>4, <2>5, OrderFrame DEF queueStopped
<1>9. ASSUME NEW w \in Workers, PopItem(w) PROVE OrderInv'
    BY <1>9, OrderPop
<1>10. ASSUME NEW w \in Workers, DialFail(w) PROVE OrderInv'
  <2>1. pc[w] \in Busy /\ RecordFailure(w, "backoff")
    BY <1>10 DEF DialFail, Busy
  <2>2. /\ UNCHANGED <<stable, states, latest, clock, ahead, scPc, todo, seen, phase>>
        /\ \A v \in Workers \ {w} : item'[v] = item[v]
    BY <1>10 DEF DialFail, DropItem, TypeOK
  <2>. QED BY <2>1, <2>2, OrderFailure
<1>11. ASSUME NEW w \in Workers, TransferFail(w) PROVE OrderInv'
  <2>1. PICK p \in {"mark", "top"} : RecordFailure(w, p) /\ (p = "mark" <=> LastAttempt(w))
    BY <1>11 DEF TransferFail
  <2>2. /\ UNCHANGED <<stable, states, latest, clock, ahead, scPc, todo, seen, phase>> /\ pc[w] \in Busy
        /\ \A v \in Workers \ {w} : item'[v] = item[v]
        /\ LastAttempt(w) => item' = item
    BY <1>11 DEF TransferFail, DropItem, TypeOK, Talking, Busy
  <2>. QED BY <2>1, <2>2, OrderFailure
<1>12. ASSUME NEW w \in Workers, PostCommit(w) PROVE OrderInv'
  <2>1. /\ UNCHANGED <<items, inQueue, stable, states, todo, seen, latest, clock, ahead, phase, scPc, item>>
        /\ pc' = [pc EXCEPT ![w] = "success"] /\ pc[w] = "commit"
    BY <1>12 DEF PostCommit
  <2>2. item[w].name \in Names /\ faults \in Nat
    BY <2>1 DEF TypeOK, Items, Busy
  <2>3. /\ \A n \in Names : dir'[n] \in {0, dir[n]}
        /\ faults' = 0 => faults = 0 /\ dir'[item[w].name] = 0
    BY <1>12, <2>2 DEF PostCommit, Fault, TypeOK
  <2>4. /\ pc'[w] = "success" /\ \A v \in Workers \ {w} : pc'[v] = pc[v]
        /\ \A v \in Workers : pc'[v] \in Busy <=> pc[v] \in Busy
    BY <2>1 DEF TypeOK, Busy
  <2>5. \A v \in Workers : pc'[v] \in {"success", "mark"} /\ faults' = 0
            => dir'[item'[v].name] = 0
    <3>. SUFFICES ASSUME NEW v \in Workers \ {w}, pc[v] \in {"success", "mark"}, faults' = 0
                  PROVE  dir'[item[v].name] = 0
      BY <2>1, <2>3, <2>4
    <3>1. dir[item[v].name] = 0 /\ item[v].name \in Names
      BY <2>3 DEF OrderInv, DoneInv, TypeOK, Items, Busy
    <3>. QED BY <2>3, <3>1
  <2>6. OffInv'
    BY <1>0, <2>1 DEF OffInv
  <2>. QED BY <2>1, <2>3, <2>4, <2>5, <2>6, OrderFrame DEF queueStopped
<1>13. ASSUME NEW w \in Workers, MarkCompleted(w) PROVE OrderInv'
    BY <1>13, OrderMark
<1>14. ASSUME NEW n \in Names, Produce(n) PROVE OrderInv'
    BY <1>14, OrderProduce
<1>. QED
    BY <1>1, <1>2, <1>3, <1>4, <1>5, <1>6, <1>7, <1>8, <1>9, <1>10, <1>11, <1>12, <1>13, <1>14
       DEF Next, SenderNext, EnvStep, StopProgress, ScannerStep, WorkerStep

\* Only Pop gives a worker a file.
LEMMA TakesByPop ==
    ASSUME TypeOK, Next, NEW w \in Workers, item[w] # item'[w], pc'[w] \in Busy
    PROVE  PopItem(w)
<1>. USE DEF fsvars, scvars, qvars, wvars, gvars, Goto
<1>1. CASE PoolDone \/ Crash
    BY <1>1 DEF PoolDone, Crash, ProcessEnds, Busy
<1>2. ASSUME NEW v \in Workers, WorkerStep(v), v # w PROVE item'[w] = item[w]
  <2>1. CASE PopItem(v)
    BY <1>2, <2>1 DEF PopItem, TypeOK
  <2>2. CASE DialFail(v) \/ TransferFail(v) \/ MarkCompleted(v)
    BY <1>2, <2>2 DEF DialFail, TransferFail, MarkCompleted, DropItem, TypeOK
  <2>. QED BY <1>2, <2>1, <2>2
       DEF WorkerStep, LoopTop, LoopStop, Leave, PopWait, PopStopped, DialOk, BackoffOver,
        SendFileHeader, SendFileBody, ReadAck, PostCommit, RecordSuccess
<1>3. CASE WorkerStep(w)
  <2>1. CASE DialFail(w)
    <3>1. item[w] \in Items /\ RecordFailure(w, "backoff")
      BY <2>1 DEF DialFail, TypeOK, Busy
    <3>2. pc'[w] = "backoff"
      BY <3>1, FailureType
    <3>. QED BY <3>2 DEF Busy
  <2>2. CASE TransferFail(w)
    <3>1. ~LastAttempt(w) /\ RecordFailure(w, "top") /\ item[w] \in Items
      BY <2>2 DEF TransferFail, TypeOK, Busy, Talking
    <3>2. pc'[w] = "top"
      BY <3>1, FailureType
    <3>. QED BY <3>2 DEF Busy
  <2>3. CASE MarkCompleted(w)
    BY <2>3 DEF MarkCompleted, Busy, TypeOK
  <2>. QED BY <1>3, <2>1, <2>2, <2>3
       DEF WorkerStep, LoopTop, LoopStop, Leave, PopWait, PopStopped, DialOk, BackoffOver,
        SendFileHeader, SendFileBody, ReadAck, PostCommit, RecordSuccess
<1>4. CASE Start \/ ScannerStop \/ PoolStop \/ QueueStop \/ ScannerStep \/ ScanExit \/ EnvStep
    BY <1>4 DEF Start, ScannerStop, PoolStop, QueueStop, ScannerStep, ScanRead, ScanLock,
        ScanUnlock, ScanPush, ScanEntry, ScanExit, EnvStep, Produce, PeerAnswer, PeerHangup
<1>. QED BY <1>1, <1>2, <1>3, <1>4 DEF Next, SenderNext, StopProgress

\* With producers that use every name once, files leave the watch directory oldest
\* first: while renames succeed, a worker that takes a file leaves no older one behind,
\* that no other worker is busy with, among those queued and those listed by the scan
\* that first met the file; whatever times the files come with, and through the
\* interleavings of scans with pushes, requeueing after failures, quarantine, shutdown
\* and restarts.
THEOREM SenderOldestFirst ==
    ASSUME Producer = "once" PROVE Spec => OldestFirst
<1>. DEFINE Inv == TypeOK /\ PushInv /\ OnceInv /\ OwnerInv
            Taking == \A w \in Workers : item[w] # item'[w] /\ pc'[w] \in Busy /\ faults = 0 =>
                        \A n \in ahead[item'[w].name] \cup inQueue :
                          dir[n] # 0 /\ Info[dir[n]].mtime < item'[w].mtime =>
                            \E x \in Workers \ {w} : pc[x] \in Busy /\ item[x].name = n
<1>1. Inv /\ OrderInv /\ [Next]_vars => OrderInv'
    BY OrderStep
<1>2. Inv /\ OrderInv /\ [Next]_vars => [Taking]_vars
  <2>. SUFFICES ASSUME Inv, OrderInv, Next, NEW w \in Workers, item[w] # item'[w],
                       pc'[w] \in Busy, faults = 0, NEW n \in ahead[item'[w].name] \cup inQueue,
                       dir[n] # 0, Info[dir[n]].mtime < item'[w].mtime
                PROVE  \E x \in Workers \ {w} : pc[x] \in Busy /\ item[x].name = n
    OBVIOUS
  <2>. DEFINE x == Head(items)
  <2>1. items # <<>> /\ item'[w] = x /\ pc[w] = "pop"
    BY TakesByPop DEF PopItem, TypeOK
  <2>2. /\ items \in Seq(Items) /\ Distinct(items) /\ Sorted(items) /\ Dated(items, Mtimes)
        /\ inQueue = NamesOf(items) /\ inQueue \subseteq Names
    BY DEF TypeOK, OwnerInv, Exclusive, OrderInv, QueueInv, DatedInv
  <2>3. /\ x \in Items /\ x.mtime = Mtimes[x.name]
        /\ \A m \in NamesOf(items) : x.mtime <= Mtimes[m]
    BY <2>1, <2>2, TailOrder
  <2>4. x.name \in NamesOf(items) /\ x.name \in Names
    BY <2>1, <2>2, <2>3, TailNames DEF Items
  <2>. HIDE DEF x
  <2>5. n \in Names
    BY <2>1, <2>2, <2>4 DEF TypeOK
  <2>6. Mtimes[n] < Mtimes[x.name] /\ Mtimes \in [Names -> Nat]
    <3>1. latest[n] = dir[n]
      BY <2>5 DEF OnceInv
    <3>. QED BY <2>1, <2>3, <2>5, <3>1, MtimesType DEF Mtimes, OrderInv
  <2>7. n \notin NamesOf(items)
    BY <2>3, <2>4, <2>5, <2>6
  <2>8. Older(n, x.name) /\ Out(x.name)
    BY <2>1, <2>2, <2>4, <2>6, <2>7 DEF Out, Older
  <2>9. Out(n)
    BY <2>4, <2>5, <2>8 DEF OrderInv, OutInv
  <2>. QED BY <2>1, <2>7, <2>9 DEF Out, Held, Busy
<1>3. Spec => []Inv
    BY OwnerInductive
<1>4. Init => OrderInv
    BY OrderInit
<1>. QED BY <1>1, <1>2, <1>3, <1>4, PTL DEF Spec, OldestFirst
============================================================================
