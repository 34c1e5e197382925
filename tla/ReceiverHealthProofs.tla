------------------------ MODULE ReceiverHealthProofs ------------------------
(***************************************************************************)
(* ReceiverHealth: a refusal is reported, and activeConnCount is the       *)
(* number of open connections, for any number of connections that come and *)
(* leave and any number of polls.  The gauge that follows the count can be *)
(* left wrong by connections that come and leave together; the next one    *)
(* that comes or leaves alone puts it right.                               *)
(***************************************************************************)
EXTENDS ReceiverHealth, FiniteSetTheorems, TLAPS

\* An error is not forgotten before its time.
KeptInv ==
    /\ now \in Nat /\ refusals \subseteq Nat
    /\ \A t \in refusals : t + ErrorWindow > now => t \in recentErrors

LEMMA InitInv ==
    ASSUME Init PROVE KeptInv
BY DEF Init, TrackerInit, KeptInv

\* What a step can do to the errors: add one, prune, forget all in a new process, or
\* let time pass.
LEMMA ErrorSteps ==
    ASSUME [Next]_vars
    PROVE  \/ UNCHANGED <<now, recentErrors, refusals>>
           \/ Refused
           \/ recentErrors' = Pruned /\ UNCHANGED <<now, refusals>>
           \/ refusals' = {} /\ now' = now
           \/ Tick /\ refusals' = refusals
<1>. DEFINE Same == UNCHANGED <<now, recentErrors, refusals>>
<1>. USE DEF trackerVars, gvars
<1>1. CASE UNCHANGED vars
    BY <1>1 DEF vars
<1>2. CASE AcceptLoop
  <2>1. CASE AcceptError
    BY <2>1 DEF AcceptError
  <2>2. CASE BootCleanup \/ Load(Acceptor) \/ AcceptStore \/ \E c \in Conns : Accept(c)
    BY <2>2 DEF BootCleanup, Load, AcceptStore, Accept, AddConn, SetActiveConnections
  <2>. QED BY <1>2, <2>1, <2>2 DEF AcceptLoop
<1>3. ASSUME NEW c \in Conns, Handler(c) PROVE Same \/ Refused
  <2>1. CASE RecordRefusal(c)
    BY <2>1 DEF RecordRefusal
  <2>2. CASE \/ Refuse(c) \/ Write(c) \/ Spoil(c) \/ Commit(c) \/ Hangup(c)
             \/ Leave(c) \/ Load(c) \/ LeaveStore(c)
    BY <2>2 DEF Refuse, Write, Spoil, Commit, Hangup, Leave, AddConn, Load, LeaveStore,
        RecordSuccess, SetActiveConnections
  <2>. QED BY <1>3, <2>1, <2>2 DEF Handler
<1>4. CASE Restart
    BY <1>4 DEF Restart
<1>5. CASE Poll
    BY <1>5 DEF Poll, Evaluate
<1>6. CASE TimePasses
    BY <1>6 DEF TimePasses
<1>7. CASE OthersUseDisk
    BY <1>7 DEF OthersUseDisk, DiskUse
<1>. QED BY <1>1, <1>2, <1>3, <1>4, <1>5, <1>6, <1>7 DEF Next

LEMMA StepInv ==
    ASSUME KeptInv, [Next]_vars PROVE KeptInv'
<1>. USE TrackerAssumption DEF KeptInv
<1>1. CASE UNCHANGED <<now, recentErrors, refusals>>
    BY <1>1
<1>2. CASE Refused
    BY <1>2 DEF Refused, RecordError
<1>3. CASE recentErrors' = Pruned /\ UNCHANGED <<now, refusals>>
    BY <1>3 DEF Pruned
<1>4. CASE refusals' = {} /\ now' = now
    BY <1>4
<1>5. CASE Tick /\ refusals' = refusals
    BY <1>5 DEF Tick
<1>. QED BY <1>1, <1>2, <1>3, <1>4, <1>5, ErrorSteps

\* A refused connection or file is on every poll of the next ErrorWindow, however many
\* polls call pruneErrors meanwhile and whatever succeeds.
THEOREM ReceiverRefusalReported == Spec => []RefusalReported
<1>1. Init => KeptInv
    BY InitInv
<1>2. KeptInv /\ [Next]_vars => KeptInv'
    BY StepInv
<1>3. ASSUME KeptInv, NEW t \in refusals, t + ErrorWindow > now
      PROVE  State(OldStagingFiles) # "ok"
  <2>1. t \in Pruned
    BY <1>3 DEF KeptInv, Pruned
  <2>2. Raised("errors", OldStagingFiles)
    BY <2>1 DEF Raised
  <2>3. "errors" \in ActiveIssues(OldStagingFiles)
    BY <2>2 DEF ActiveIssues, IssueKinds
  <2>. QED BY <2>3 DEF State
<1>4. KeptInv => RefusalReported
    BY <1>3 DEF RefusalReported
<1>. QED BY <1>1, <1>2, <1>4, PTL DEF Spec

----------------------------------------------------------------------------
(* The count of connections.                                               *)

Procs == Conns \cup {Acceptor}

\* What acceptLoop registered and no handler has counted off yet.
Counted ==
    {c \in Conns : c = accepted \/ pc[c] \in {"serving", "refusing", "leaving"}}

CountInv ==
    /\ pc \in [Procs -> AcceptorPcs \cup HandlerPcs]
    /\ accepted # NoConn <=> pc[Acceptor] \in {"load", "store"}
    /\ accepted # NoConn => pc[accepted] = "closed"
    /\ connCount = Cardinality(Counted)
    /\ \A p \in Procs : loaded[p] \in 0..Cardinality(Conns)

LEMMA CountBound ==
    /\ IsFiniteSet(Counted) /\ Cardinality(Counted) \in 0..Cardinality(Conns)
    /\ Cardinality(Conns) \in Nat
<1>1. Counted \subseteq Conns
    BY DEF Counted
<1>2. IsFiniteSet(Conns)
    BY ReceiverHealthAssumption
<1>. QED BY <1>1, <1>2, FS_Subset, FS_CardinalityType

LEMMA TypeInit ==
    ASSUME Init PROVE TypeOK /\ CountInv
<1>1. Acceptor \notin Conns /\ NoConn \notin Conns /\ IsFiniteSet(Conns)
    BY ReceiverHealthAssumption
<1>2. Cardinality(Conns) \in Nat
    BY CountBound
<1>3. Counted = {}
    BY <1>1 DEF Init, Starting, Counted
<1>4. Cardinality(Counted) = 0
    BY <1>3, FS_EmptySet
<1>5. TypeOK
    BY <1>1, <1>2 DEF Init, TrackerInit, TypeOK, TrackerTypeOK, Starting, AcceptorPcs, HandlerPcs,
                      NoTime, Times
<1>6. CountInv
    BY <1>1, <1>2, <1>4 DEF Init, CountInv, Procs, Starting, AcceptorPcs, HandlerPcs
<1>. QED BY <1>5, <1>6

\* A step that neither registers nor counts off a connection.
LEMMA CountFrame ==
    ASSUME CountInv, Counted' = Counted, UNCHANGED connCount
    PROVE  connCount' = Cardinality(Counted') /\ connCount' \in 0..Cardinality(Conns)
BY CountBound DEF CountInv

\* What the tracker's methods leave alone.
LEMMA TrackerStep ==
    ASSUME TrackerTypeOK,
           \/ UNCHANGED trackerVars
           \/ RecordSuccess \/ RecordError \/ Evaluate \/ Tick \/ DiskUse
           \/ NewTracker /\ UNCHANGED <<now, waiting, failed, disk>>
    PROVE  TrackerTypeOK' /\ (active' = active \/ active' = 0)
<1>. USE TrackerAssumption DEF TrackerTypeOK
<1>1. CASE UNCHANGED trackerVars
    BY <1>1 DEF trackerVars
<1>2. CASE RecordSuccess
    BY <1>2 DEF RecordSuccess
<1>3. CASE RecordError
    BY <1>3 DEF RecordError
<1>4. CASE Evaluate
    BY <1>4 DEF Evaluate, Pruned
<1>5. CASE Tick
    BY <1>5 DEF Tick
<1>6. CASE DiskUse
    BY <1>6 DEF DiskUse
<1>7. CASE NewTracker /\ UNCHANGED <<now, waiting, failed, disk>>
    BY <1>7 DEF NewTracker
<1>. QED BY <1>1, <1>2, <1>3, <1>4, <1>5, <1>6, <1>7

\* One goroutine moves; nothing is counted.
LEMMA MoveStep ==
    ASSUME TypeOK, CountInv, NEW c \in Conns, pc[c] # "closed", NEW l \in HandlerPcs, Goto(c, l),
           pc[c] \in {"serving", "refusing", "leaving"} <=> l \in {"serving", "refusing", "leaving"},
           UNCHANGED <<accepted, connCount>>,
           loaded' = loaded \/ loaded' = [loaded EXCEPT ![c] = connCount]
             \/ loaded' = [loaded EXCEPT ![c] = 0]
    PROVE  /\ CountInv' /\ connCount' \in 0..Cardinality(Conns) /\ pc'[Acceptor] \in AcceptorPcs
           /\ \A d \in Conns : pc'[d] \in HandlerPcs
           /\ loaded' \in [Procs -> Nat]
<1>1. Acceptor \notin Conns /\ NoConn \notin Conns
    BY ReceiverHealthAssumption
<1>2. /\ pc' \in [Procs -> AcceptorPcs \cup HandlerPcs] /\ pc'[c] = l
      /\ \A p \in Procs \ {c} : pc'[p] = pc[p]
    BY DEF Goto, CountInv, Procs
<1>3. pc'[Acceptor] = pc[Acceptor] /\ Acceptor \in Procs
    BY <1>1, <1>2 DEF Procs
<1>4. accepted # c
    BY <1>1 DEF CountInv
<1>5. Counted' = Counted
    BY <1>2, <1>4 DEF Counted, Procs
<1>6. connCount' = Cardinality(Counted') /\ connCount' \in 0..Cardinality(Conns)
    BY <1>5, CountFrame
<1>7. \A p \in Procs : loaded'[p] \in 0..Cardinality(Conns)
    BY <1>6, CountBound DEF CountInv, TypeOK, Procs
<1>8. loaded' \in [Procs -> Nat]
    BY <1>6 DEF TypeOK, Procs
<1>9. accepted' # NoConn => pc'[accepted'] = "closed"
    BY <1>2, <1>4 DEF CountInv, TypeOK, Procs
<1>10. CountInv'
    BY <1>2, <1>3, <1>6, <1>7, <1>9 DEF CountInv
<1>. QED BY <1>2, <1>3, <1>6, <1>8, <1>10 DEF TypeOK, Procs

LEMMA AcceptCount ==
    ASSUME TypeOK, CountInv, NEW c \in Conns, Accept(c)
    PROVE  TypeOK' /\ CountInv'
<1>1. Acceptor \notin Conns /\ NoConn \notin Conns /\ IsFiniteSet(Conns)
    BY ReceiverHealthAssumption
<1>2. /\ accepted = NoConn /\ accepted' = c /\ pc[c] = "closed" /\ connCount' = connCount + 1
      /\ pc' = [pc EXCEPT ![Acceptor] = "load"]
      /\ UNCHANGED <<trackerVars, loaded, staged, stray, refusals, kills>> /\ quiet' \in BOOLEAN
    BY DEF Accept, AddConn, Undisturbed, Goto, CountInv, files
<1>3. /\ pc' \in [Procs -> AcceptorPcs \cup HandlerPcs] /\ pc'[Acceptor] = "load"
      /\ \A d \in Conns : pc'[d] = pc[d]
    BY <1>1, <1>2 DEF CountInv, Procs, AcceptorPcs
<1>4. Counted' = Counted \cup {c} /\ c \notin Counted
    BY <1>1, <1>2, <1>3 DEF Counted
<1>5. Cardinality(Counted') = Cardinality(Counted) + 1
    BY <1>4, CountBound, FS_AddElement
<1>6. Cardinality(Counted') \in 0..Cardinality(Conns)
  <2>1. Counted' \subseteq Conns
    BY DEF Counted
  <2>. QED BY <1>1, <2>1, FS_Subset, FS_CardinalityType
<1>7. CountInv'
    BY <1>1, <1>2, <1>3, <1>5 DEF CountInv
<1>8. connCount' \in 0..Cardinality(Conns)
    BY <1>2, <1>5, <1>6 DEF CountInv
<1>. QED BY <1>2, <1>3, <1>7, <1>8 DEF TypeOK, TrackerTypeOK, trackerVars, AcceptorPcs

LEMMA LeaveCount ==
    ASSUME TypeOK, CountInv, NEW c \in Conns, Leave(c)
    PROVE  TypeOK' /\ CountInv'
<1>1. Acceptor \notin Conns /\ NoConn \notin Conns /\ IsFiniteSet(Conns)
    BY ReceiverHealthAssumption
<1>2. /\ pc[c] = "leaving" /\ connCount' = connCount - 1 /\ pc' = [pc EXCEPT ![c] = "load"]
      /\ UNCHANGED <<trackerVars, accepted, loaded, staged, stray, refusals, kills>>
      /\ quiet' \in BOOLEAN
    BY DEF Leave, AddConn, Undisturbed, TypeOK, Goto, files
<1>3. /\ pc' \in [Procs -> AcceptorPcs \cup HandlerPcs] /\ pc'[c] = "load"
      /\ \A p \in Procs \ {c} : pc'[p] = pc[p]
    BY <1>2 DEF CountInv, Procs, HandlerPcs
<1>4. accepted # c /\ pc'[Acceptor] = pc[Acceptor]
    BY <1>1, <1>2, <1>3 DEF CountInv, Procs
<1>5. Counted' = Counted \ {c} /\ c \in Counted
    BY <1>2, <1>3, <1>4 DEF Counted, Procs
<1>6. Cardinality(Counted') = Cardinality(Counted) - 1 /\ Cardinality(Counted') \in Nat
  <2>1. IsFiniteSet(Counted')
    BY <1>5, CountBound, FS_Subset
  <2>. QED BY <1>5, <2>1, CountBound, FS_RemoveElement, FS_CardinalityType
<1>7. accepted' # NoConn => pc'[accepted'] = "closed"
    BY <1>2, <1>3, <1>4 DEF CountInv, TypeOK, Procs
<1>8. CountInv'
    BY <1>2, <1>3, <1>4, <1>6, <1>7 DEF CountInv
<1>9. connCount' \in 0..Cardinality(Conns)
    BY <1>2, <1>6, CountBound DEF CountInv
<1>. QED
    BY <1>2, <1>3, <1>4, <1>8, <1>9 DEF TypeOK, TrackerTypeOK, trackerVars, HandlerPcs, Procs

\* acceptLoop between two connections, and the copies of the count into the gauge.
LEMMA AcceptorSteps ==
    ASSUME TypeOK, CountInv, BootCleanup \/ Load(Acceptor) \/ AcceptStore
    PROVE  TypeOK' /\ CountInv'
<1>0. Acceptor \notin Conns /\ NoConn \notin Conns /\ Acceptor \in Procs
    BY ReceiverHealthAssumption DEF Procs
<1>1. CASE Load(Acceptor)
  <2>1. /\ pc[Acceptor] = "load" /\ pc' = [pc EXCEPT ![Acceptor] = "store"]
        /\ loaded' = [loaded EXCEPT ![Acceptor] = connCount]
        /\ UNCHANGED <<trackerVars, connCount, accepted, staged, stray, refusals, quiet, kills>>
    BY <1>1 DEF Load, Goto, files, gvars
  <2>2. /\ pc' \in [Procs -> AcceptorPcs \cup HandlerPcs] /\ pc'[Acceptor] = "store"
        /\ \A d \in Conns : pc'[d] = pc[d]
    BY <1>0, <2>1 DEF CountInv, Procs, AcceptorPcs
  <2>3. Counted' = Counted
    BY <2>1, <2>2 DEF Counted
  <2>4. connCount' = Cardinality(Counted') /\ connCount' \in 0..Cardinality(Conns)
    BY <2>1, <2>3, CountFrame
  <2>5. \A p \in Procs : loaded'[p] \in 0..Cardinality(Conns)
    BY <2>1, <2>4 DEF CountInv, TypeOK, Procs
  <2>6. loaded' \in [Procs -> Nat]
    BY <2>1, <2>4 DEF TypeOK, Procs
  <2>7. CountInv'
    BY <2>1, <2>2, <2>4, <2>5 DEF CountInv, TypeOK
  <2>. QED BY <2>1, <2>2, <2>4, <2>6, <2>7 DEF TypeOK, TrackerTypeOK, trackerVars, AcceptorPcs, Procs
<1>2. CASE AcceptStore
  <2>1. /\ pc[Acceptor] = "store" /\ pc' = [pc EXCEPT ![Acceptor] = "accept", ![accepted] = "serving"]
        /\ loaded' = [loaded EXCEPT ![Acceptor] = 0] /\ accepted' = NoConn
        /\ SetActiveConnections(loaded[Acceptor])
        /\ UNCHANGED <<connCount, staged, stray, refusals, quiet, kills>>
    BY <1>2 DEF AcceptStore, files, gvars
  <2>2. accepted \in Conns /\ pc[accepted] = "closed"
    BY <2>1 DEF CountInv, TypeOK
  <2>3. /\ pc' \in [Procs -> AcceptorPcs \cup HandlerPcs] /\ pc'[Acceptor] = "accept"
        /\ pc'[accepted] = "serving"
        /\ \A d \in Conns \ {accepted} : pc'[d] = pc[d]
    BY <1>0, <2>1, <2>2 DEF CountInv, Procs, AcceptorPcs, HandlerPcs
  <2>4. Counted' = Counted
    BY <1>0, <2>1, <2>2, <2>3 DEF Counted
  <2>5. connCount' = Cardinality(Counted') /\ connCount' \in 0..Cardinality(Conns)
    BY <2>1, <2>4, CountFrame
  <2>6. \A p \in Procs : loaded'[p] \in 0..Cardinality(Conns)
    BY <2>1, CountBound DEF CountInv, TypeOK, Procs
  <2>7. loaded' \in [Procs -> Nat]
    BY <2>1 DEF TypeOK, Procs
  <2>8. CountInv'
    BY <2>1, <2>3, <2>5, <2>6 DEF CountInv
  <2>9. TrackerTypeOK' /\ active' \in 0..Cardinality(Conns)
    BY <1>0, <2>1 DEF SetActiveConnections, TypeOK, TrackerTypeOK, CountInv
  <2>. QED BY <2>1, <2>3, <2>5, <2>7, <2>8, <2>9 DEF TypeOK, AcceptorPcs, HandlerPcs, Procs
<1>3. CASE BootCleanup
  <2>1. /\ pc[Acceptor] = "starting" /\ pc' = [pc EXCEPT ![Acceptor] = "accept"]
        /\ stray' \in SUBSET stray
        /\ UNCHANGED <<trackerVars, connCount, accepted, loaded, staged, refusals, quiet, kills>>
    BY <1>3 DEF BootCleanup, Goto, gvars
  <2>2. /\ pc' \in [Procs -> AcceptorPcs \cup HandlerPcs] /\ pc'[Acceptor] = "accept"
        /\ \A d \in Conns : pc'[d] = pc[d]
    BY <1>0, <2>1 DEF CountInv, Procs, AcceptorPcs
  <2>3. Counted' = Counted
    BY <2>1, <2>2 DEF Counted
  <2>4. CountInv'
    BY <2>1, <2>2, <2>3 DEF CountInv, TypeOK
  <2>. QED BY <2>1, <2>2, <2>4 DEF TypeOK, TrackerTypeOK, trackerVars, AcceptorPcs
<1>. QED BY <1>1, <1>2, <1>3

\* The handlers, as far as they count nothing.
LEMMA HandlerSteps ==
    ASSUME TypeOK, CountInv, NEW c \in Conns,
           \/ Refuse(c) \/ Write(c) \/ Spoil(c) \/ RecordRefusal(c) \/ Commit(c) \/ Hangup(c)
           \/ Load(c) \/ LeaveStore(c)
    PROVE  TypeOK' /\ CountInv'
<1>. DEFINE Moved == /\ CountInv' /\ connCount' \in 0..Cardinality(Conns)
                     /\ pc'[Acceptor] \in AcceptorPcs
                     /\ \A d \in Conns : pc'[d] \in HandlerPcs
                     /\ loaded' \in [Procs -> Nat]
                     /\ accepted' = accepted
<1>0. now \in Nat /\ TrackerTypeOK
    BY DEF TypeOK, TrackerTypeOK
<1>1. CASE Refuse(c) \/ Hangup(c)
  <2>1. Moved
    BY <1>1, MoveStep DEF Refuse, Hangup, HandlerPcs
  <2>. QED BY <1>1, <2>1 DEF Refuse, Hangup, TypeOK, TrackerTypeOK, trackerVars, files, gvars, Procs
<1>2. CASE Write(c) \/ Commit(c)
  <2>1. UNCHANGED <<connCount, pc, accepted, loaded, stray, refusals, quiet, kills>>
    BY <1>2 DEF Write, Commit, procs, gvars
  <2>2. TrackerTypeOK' /\ active' = active
    BY <1>0, <1>2, TrackerStep DEF Write, Commit, trackerVars, RecordSuccess
  <2>3. staged' \in [Conns -> Times]
    BY <1>0, <1>2 DEF Write, Commit, TypeOK, Times, NoTime
  <2>4. CountInv'
    BY <2>1 DEF CountInv, Counted
  <2>. QED BY <2>1, <2>2, <2>3, <2>4 DEF TypeOK
<1>3. CASE Spoil(c)
  <2>1. Moved
    BY <1>3, MoveStep DEF Spoil, HandlerPcs
  <2>2. staged' \in [Conns -> Times] /\ stray' \in SUBSET Nat
    BY <1>3 DEF Spoil, TypeOK, Times, NoTime
  <2>. QED BY <1>3, <2>1, <2>2 DEF Spoil, TypeOK, TrackerTypeOK, trackerVars, gvars, Procs
<1>4. CASE RecordRefusal(c)
  <2>1. Moved
    BY <1>4, MoveStep DEF RecordRefusal, HandlerPcs
  <2>2. TrackerTypeOK' /\ active' = active
    BY <1>0, <1>4, TrackerStep DEF RecordRefusal, Refused, RecordError
  <2>3. refusals' \in SUBSET Nat
    BY <1>0, <1>4 DEF RecordRefusal, Refused, TypeOK
  <2>. QED BY <1>4, <2>1, <2>2, <2>3 DEF RecordRefusal, Refused, TypeOK, files, Procs
<1>5. CASE Load(c)
  <2>1. Moved
    BY <1>5, MoveStep DEF Load, HandlerPcs
  <2>. QED BY <1>5, <2>1 DEF Load, TypeOK, TrackerTypeOK, trackerVars, files, gvars, Procs
<1>6. CASE LeaveStore(c)
  <2>1. Moved
    BY <1>6, MoveStep DEF LeaveStore, HandlerPcs
  <2>2. TrackerTypeOK' /\ active' \in 0..Cardinality(Conns)
    BY <1>0, <1>6, CountBound DEF LeaveStore, SetActiveConnections, TrackerTypeOK, CountInv, Procs
  <2>. QED BY <1>6, <2>1, <2>2 DEF LeaveStore, TypeOK, files, gvars, Procs
<1>. QED BY <1>1, <1>2, <1>3, <1>4, <1>5, <1>6

LEMMA RestartCount ==
    ASSUME TypeOK, CountInv, Restart
    PROVE  TypeOK' /\ CountInv'
<1>1. Acceptor \notin Conns /\ NoConn \notin Conns
    BY ReceiverHealthAssumption
<1>2. /\ connCount' = 0 /\ pc' = Starting /\ accepted' = NoConn
      /\ loaded' = [p \in Conns \cup {Acceptor} |-> 0]
      /\ staged' = [c \in Conns |-> NoTime] /\ refusals' = {} /\ quiet' = TRUE
      /\ kills' = kills + 1 /\ active' = 0
    BY DEF Restart, NewTracker
<1>7. stray' \in SUBSET Nat
    BY DEF Restart, TypeOK, Times, NoTime
<1>3. Counted' = {}
    BY <1>1, <1>2 DEF Counted, Starting
<1>4. Cardinality(Counted') = 0 /\ Cardinality(Conns) \in Nat
    BY <1>3, CountBound, FS_EmptySet
<1>5. TrackerTypeOK'
    BY TrackerStep DEF Restart, TypeOK
<1>6. CountInv'
    BY <1>1, <1>2, <1>4 DEF CountInv, Procs, Starting, AcceptorPcs, HandlerPcs
<1>. QED BY <1>1, <1>2, <1>4, <1>5, <1>6, <1>7 DEF TypeOK, Starting, AcceptorPcs, HandlerPcs, NoTime, Times

LEMMA CountStep ==
    ASSUME TypeOK, CountInv, [Next]_vars
    PROVE  TypeOK' /\ CountInv'
<1>1. CASE AcceptLoop
  <2>1. CASE AcceptError
    <3>1. TrackerTypeOK' /\ active' = active /\ refusals' \in SUBSET Nat
      BY <2>1, TrackerStep DEF AcceptError, Refused, RecordError, TypeOK, TrackerTypeOK
    <3>2. UNCHANGED <<connCount, pc, accepted, loaded, staged, stray, quiet, kills>>
      BY <2>1 DEF AcceptError, Refused, procs, files
    <3>. QED BY <3>1, <3>2 DEF TypeOK, CountInv, Counted
  <2>. QED BY <1>1, <2>1, AcceptCount, AcceptorSteps DEF AcceptLoop
<1>2. ASSUME NEW c \in Conns, Handler(c) PROVE TypeOK' /\ CountInv'
    BY <1>2, HandlerSteps, LeaveCount DEF Handler
<1>3. CASE Restart
    BY <1>3, RestartCount
<1>4. CASE Poll \/ TimePasses \/ OthersUseDisk \/ UNCHANGED vars
  <2>1. TrackerTypeOK' /\ active' = active
    BY <1>4, TrackerStep
       DEF Poll, TimePasses, OthersUseDisk, vars, TypeOK, Evaluate, Tick, DiskUse, trackerVars
  <2>2. UNCHANGED <<connCount, pc, accepted, loaded, staged, stray, refusals, quiet, kills>>
    BY <1>4 DEF Poll, TimePasses, OthersUseDisk, vars, procs, files, gvars
  <2>. QED BY <2>1, <2>2 DEF TypeOK, CountInv, Counted
<1>. QED BY <1>1, <1>2, <1>3, <1>4 DEF Next

LEMMA CountInvariant == Spec => [](TypeOK /\ CountInv)
<1>1. TypeOK /\ CountInv /\ [Next]_vars => (TypeOK /\ CountInv)'
    BY CountStep
<1>. QED BY TypeInit, <1>1, PTL DEF Spec

\* The health of the receiver keeps its types; in particular activeConnCount, which is
\* counted up and down by different goroutines, and every value copied from it stay
\* between 0 and the number of connections, however they come, fail and leave.
THEOREM ReceiverHealthTypeCorrect == Spec => []TypeOK
BY CountInvariant, PTL

----------------------------------------------------------------------------
(* The gauge.                                                              *)

\* If the count last changed alone, nobody but the one that changed it is on the way to
\* the gauge; what it has loaded is the count, and so is the gauge after its store.
GaugeInv ==
    quiet =>
      /\ \A p, q \in Procs : Telling(p) /\ Telling(q) => p = q
      /\ \A p \in Procs : pc[p] = "store" => loaded[p] = connCount
      /\ Undisturbed => active = connCount

\* A step in which nobody starts or ends telling the tracker.
LEMMA GaugeFrame ==
    ASSUME GaugeInv, UNCHANGED <<connCount, loaded, active, quiet>>,
           \A p \in Procs : (Telling(p)' <=> Telling(p)) /\ (pc'[p] = "store" => pc[p] = "store")
    PROVE  GaugeInv'
BY DEF GaugeInv, Undisturbed, Procs

\* The count changes, and p is the one to tell it.
LEMMA GaugeAdd ==
    ASSUME GaugeInv, CountInv, NEW p \in Procs, NEW k, AddConn(k), Goto(p, "load"), ~Telling(p)
    PROVE  GaugeInv'
<1>1. /\ pc \in [Procs -> AcceptorPcs \cup HandlerPcs] /\ quiet' = Undisturbed
      /\ pc' = [pc EXCEPT ![p] = "load"]
    BY DEF CountInv, AddConn, Goto
<1>2. ASSUME quiet' PROVE /\ Telling(p)' /\ pc'[p] # "store"
                          /\ \A q \in Procs \ {p} : ~Telling(q)' /\ pc'[q] # "store"
    BY <1>1, <1>2 DEF Undisturbed, Telling, Procs
<1>. QED BY <1>2 DEF GaugeInv, Undisturbed, Procs

LEMMA GaugeLoad ==
    ASSUME GaugeInv, TypeOK, CountInv, NEW p \in Procs, Load(p)
    PROVE  GaugeInv'
<1>1. /\ pc \in [Procs -> AcceptorPcs \cup HandlerPcs] /\ loaded \in [Procs -> Nat]
      /\ pc[p] = "load" /\ pc' = [pc EXCEPT ![p] = "store"]
      /\ loaded' = [loaded EXCEPT ![p] = connCount] /\ UNCHANGED <<connCount, active, quiet>>
    BY DEF Load, Goto, CountInv, TypeOK, Procs, trackerVars, gvars
<1>2. \A q \in Procs : Telling(q)' <=> Telling(q)
    BY <1>1 DEF Telling
<1>3. Telling(p)
    BY <1>1 DEF Telling
<1>4. ASSUME quiet, NEW q \in Procs, pc'[q] = "store" PROVE loaded'[q] = connCount'
    BY <1>1, <1>4 DEF GaugeInv
<1>. QED BY <1>1, <1>2, <1>4 DEF GaugeInv, Undisturbed, Procs

\* p stores what it has loaded.
LEMMA GaugeStore ==
    ASSUME GaugeInv, CountInv, NEW p \in Procs, pc[p] = "store",
           SetActiveConnections(loaded[p]), UNCHANGED <<connCount, quiet>>,
           ~Telling(p)', \A q \in Procs \ {p} : Telling(q)' => Telling(q)
    PROVE  GaugeInv'
<1>1. ASSUME quiet' PROVE active' = connCount' /\ \A q \in Procs : ~Telling(q)'
  <2>1. Telling(p) /\ quiet
    BY <1>1 DEF Telling
  <2>2. active' = connCount'
    BY <2>1 DEF SetActiveConnections, GaugeInv
  <2>. QED BY <2>1, <2>2 DEF GaugeInv
<1>2. ASSUME NEW q \in Procs, ~Telling(q)' PROVE pc'[q] # "store"
    BY <1>2 DEF Telling
<1>. QED BY <1>1, <1>2 DEF GaugeInv, Undisturbed, Procs

LEMMA GaugeStep ==
    ASSUME TypeOK, CountInv, GaugeInv, [Next]_vars
    PROVE  GaugeInv'
<1>0. /\ Acceptor \notin Conns /\ NoConn \notin Conns /\ Acceptor \in Procs /\ Conns \subseteq Procs
      /\ pc \in [Procs -> AcceptorPcs \cup HandlerPcs]
    BY ReceiverHealthAssumption DEF CountInv, Procs
<1>1. ASSUME NEW c \in Conns, Accept(c) PROVE GaugeInv'
    BY <1>0, <1>1, GaugeAdd DEF Accept, Telling
<1>2. ASSUME NEW c \in Conns, Leave(c) PROVE GaugeInv'
    BY <1>0, <1>2, GaugeAdd DEF Leave, Telling
<1>3. CASE AcceptStore
  <2>1. /\ pc' = [pc EXCEPT ![Acceptor] = "accept", ![accepted] = "serving"]
        /\ pc[Acceptor] = "store" /\ SetActiveConnections(loaded[Acceptor])
        /\ UNCHANGED <<connCount, quiet>>
    BY <1>3 DEF AcceptStore, gvars
  <2>2. accepted \in Conns
    BY <2>1 DEF CountInv, TypeOK
  <2>3. ~Telling(Acceptor)' /\ \A q \in Procs \ {Acceptor} : Telling(q)' => Telling(q)
    BY <1>0, <2>1, <2>2 DEF Telling
  <2>. QED BY <1>0, <2>1, <2>3, GaugeStore
<1>4. ASSUME NEW c \in Conns, LeaveStore(c) PROVE GaugeInv'
  <2>1. /\ pc' = [pc EXCEPT ![c] = "closed"] /\ pc[c] = "store"
        /\ SetActiveConnections(loaded[c]) /\ UNCHANGED <<connCount, quiet>>
    BY <1>4 DEF LeaveStore, Goto, gvars
  <2>2. ~Telling(c)' /\ \A q \in Procs \ {c} : Telling(q)' => Telling(q)
    BY <1>0, <2>1 DEF Telling
  <2>. QED BY <1>0, <2>1, <2>2, GaugeStore
<1>5. ASSUME NEW c \in Conns, Refuse(c) \/ Spoil(c) \/ RecordRefusal(c) \/ Hangup(c)
      PROVE  GaugeInv'
  <2>1. /\ UNCHANGED <<connCount, loaded, active, quiet>> /\ pc[c] \in {"serving", "refusing"}
        /\ pc' = [pc EXCEPT ![c] = "refusing"] \/ pc' = [pc EXCEPT ![c] = "leaving"]
    BY <1>5 DEF Refuse, Spoil, RecordRefusal, Refused, RecordError, Hangup, Goto, trackerVars, gvars
  <2>2. \A p \in Procs : (Telling(p)' <=> Telling(p)) /\ (pc'[p] = "store" => pc[p] = "store")
    BY <1>0, <2>1 DEF Telling
  <2>. QED BY <2>1, <2>2, GaugeFrame
<1>10. CASE BootCleanup
  <2>1. /\ UNCHANGED <<connCount, loaded, active, quiet>> /\ pc[Acceptor] = "starting"
        /\ pc' = [pc EXCEPT ![Acceptor] = "accept"]
    BY <1>10 DEF BootCleanup, Goto, trackerVars, gvars
  <2>2. \A p \in Procs : (Telling(p)' <=> Telling(p)) /\ (pc'[p] = "store" => pc[p] = "store")
    BY <1>0, <2>1 DEF Telling
  <2>. QED BY <2>1, <2>2, GaugeFrame
<1>6. CASE Restart
  <2>1. pc' = Starting /\ connCount' = 0 /\ active' = 0
    BY <1>6 DEF Restart, NewTracker
  <2>2. \A p \in Procs : pc'[p] \in {"starting", "closed"}
    BY <2>1 DEF Starting, Procs
  <2>. QED BY <2>1, <2>2 DEF GaugeInv, Telling
<1>7. ASSUME UNCHANGED <<connCount, pc, loaded, active, quiet>> PROVE GaugeInv'
    BY <1>7, GaugeFrame DEF Telling
<1>8. ASSUME \/ AcceptError \/ Poll \/ TimePasses \/ OthersUseDisk \/ UNCHANGED vars
             \/ \E c \in Conns : Write(c) \/ Commit(c)
      PROVE  GaugeInv'
  <2>1. UNCHANGED <<connCount, pc, loaded, active, quiet>>
    BY <1>8 DEF AcceptError, Refused, RecordError, Write, Commit, RecordSuccess, Poll, Evaluate,
                TimePasses, Tick, OthersUseDisk, DiskUse, vars, trackerVars, procs, gvars
  <2>. QED BY <1>7, <2>1
<1>9. ASSUME NEW p \in Procs, Load(p) PROVE GaugeInv'
    BY <1>9, GaugeLoad
<1>. QED
    BY <1>0, <1>1, <1>2, <1>3, <1>4, <1>5, <1>6, <1>8, <1>9, <1>10
       DEF Next, AcceptLoop, Handler

LEMMA GaugeInvariant == Spec => []GaugeInv
<1>1. Init => GaugeInv
  <2>. SUFFICES ASSUME Init PROVE GaugeInv
    OBVIOUS
  <2>1. \A p \in Procs : pc[p] \in {"starting", "closed"}
    BY DEF Init, Starting, Procs
  <2>. QED BY <2>1 DEF Init, TrackerInit, GaugeInv, Telling
<1>2. TypeOK /\ CountInv /\ GaugeInv /\ [Next]_vars => GaugeInv'
    BY GaugeStep
<1>. QED BY <1>1, <1>2, CountInvariant, PTL DEF Spec

\* When nobody is telling the tracker, all is closed just if nothing is counted.
LEMMA ClosedCount ==
    ASSUME TypeOK, CountInv, Undisturbed
    PROVE  AllClosed <=> connCount = 0
<1>1. NoConn \notin Conns /\ Acceptor \in Procs /\ Conns \subseteq Procs
    BY ReceiverHealthAssumption DEF Procs
<1>2. accepted = NoConn
    BY <1>1 DEF TypeOK, AcceptorPcs, Undisturbed, Telling, CountInv
<1>3. \A c \in Conns : pc[c] \in {"closed", "serving", "refusing", "leaving"}
    BY DEF TypeOK, HandlerPcs, Undisturbed, Telling
<1>4. AllClosed <=> Counted = {}
    BY <1>1, <1>2, <1>3 DEF AllClosed, Counted
<1>5. Cardinality(Counted) = 0 <=> Counted = {}
    BY CountBound, FS_EmptySet
<1>. QED BY <1>4, <1>5 DEF CountInv

\* For any number of connections that come, fail and leave in any order: once one has
\* come or left alone, the gauge is right again, and a staging file nobody has touched
\* for StagingAge is on every poll of a receiver without connections.
THEOREM ReceiverOldStagingReported ==
    ASSUME Role = "receiver"
    PROVE  Spec => []OldStagingReported
<1>1. ASSUME TypeOK, CountInv, GaugeInv, Settled, AllClosed, OldStagingFiles
      PROVE  "old staging" \in Warnings
  <2>1. active = 0
    BY <1>1, ClosedCount DEF Settled, GaugeInv
  <2>2. Raised("old staging", OldStagingFiles)
    BY <1>1, <2>1 DEF Raised
  <2>. QED BY <2>2 DEF Warnings, ActiveIssues, IssueKinds
<1>2. TypeOK /\ CountInv /\ GaugeInv => OldStagingReported
    BY <1>1 DEF OldStagingReported
<1>. QED BY <1>2, GaugeInvariant, CountInvariant, PTL

\* Likewise, no staging file is reported as abandoned while a connection is served: a
\* store of 0 by a handler that left late does not outlast the next undisturbed change.
THEOREM ReceiverOldStagingOnlyIdle == Spec => []OldStagingOnlyIdle
<1>1. ASSUME TypeOK, CountInv, GaugeInv, Settled, "old staging" \in Warnings
      PROVE  AllClosed
  <2>1. Raised("old staging", OldStagingFiles)
    BY <1>1 DEF Warnings, ActiveIssues
  <2>2. active = 0
    BY <2>1 DEF Raised
  <2>3. connCount = 0
    BY <1>1, <2>2 DEF Settled, GaugeInv
  <2>. QED BY <1>1, <2>3, ClosedCount DEF Settled
<1>2. TypeOK /\ CountInv /\ GaugeInv => OldStagingOnlyIdle
    BY <1>1 DEF OldStagingOnlyIdle
<1>. QED BY <1>2, GaugeInvariant, CountInvariant, PTL
=============================================================================
