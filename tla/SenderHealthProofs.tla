------------------------- MODULE SenderHealthProofs -------------------------
(***************************************************************************)
(* Theorems about SenderHealth, for any files, workers, thresholds, disks  *)
(* and any number of restarts and polls.                                   *)
(***************************************************************************)
EXTENDS SenderHealth, FiniteSetTheorems, TLAPS

\* A worker with something to do has a file, and the mutex is held over a quarantine
\* by the worker that is counting, by nobody else.
WorkInv ==
    /\ \A w \in Workers : pc[w] \in {"busy", "failed", "done"} => item[w] \in Names
    /\ \A w \in Workers : pc[w] = "counting" => holder = w

\* The tracker knows the length of the queue and the count of the queue.
ToldInv == waiting = Cardinality(queue) /\ failed = count

\* The count is not zero when something is parked and nobody is about to count.
CountInv == phase = "up" /\ holder = NoWorker /\ parked # {} => count > 0

IInv == TypeOK /\ WorkInv /\ ToldInv /\ CountInv

----------------------------------------------------------------------------
LEMMA NamesCount ==
    ASSUME NEW S \in SUBSET Names
    PROVE  Cardinality(S) \in Nat /\ (S # {} => Cardinality(S) > 0)
<1>1. IsFiniteSet(S)
    BY SenderHealthAssumption, FS_Subset
<1>. QED BY <1>1, FS_CardinalityType, FS_EmptySet

LEMMA InitInv ==
    ASSUME Init PROVE IInv
<1>. USE DEF Init, TrackerInit
<1>1. TypeOK
    BY SenderHealthAssumption DEF TypeOK, TrackerTypeOK
<1>2. WorkInv /\ CountInv
    BY DEF WorkInv, CountInv
<1>3. ToldInv
    BY FS_EmptySet DEF ToldInv
<1>. QED BY <1>1, <1>2, <1>3 DEF IInv

LEMMA NewQueueKeeps ==
    ASSUME IInv, NewQueue PROVE IInv'
<1>. USE DEF NewQueue, Report, SetQueueCounts, wvars, gvars
<1>0. parked' \in SUBSET Names /\ queue' \in SUBSET Names
    BY DEF IInv, TypeOK
<1>1. count' \in Nat /\ (parked' # {} => count' > 0)
    BY <1>0, NamesCount
<1>2. TypeOK'
    BY <1>0, <1>1, NamesCount DEF IInv, TypeOK, TrackerTypeOK
<1>. QED BY <1>1, <1>2 DEF IInv, WorkInv, ToldInv, CountInv

LEMMA PushKeeps ==
    ASSUME IInv, NEW n \in Names, Push(n) PROVE IInv'
<1>. USE DEF Push, Enqueue, Report, SetQueueCounts, wvars
<1>0. queue' \in SUBSET Names
    BY DEF IInv, TypeOK
<1>1. TypeOK'
    BY <1>0, NamesCount DEF IInv, TypeOK, TrackerTypeOK
<1>. QED BY <1>1 DEF IInv, WorkInv, ToldInv, CountInv

LEMMA PopKeeps ==
    ASSUME IInv, NEW w \in Workers, Pop(w) PROVE IInv'
<1>. USE DEF Pop, Goto, Report, SetQueueCounts
<1>0. queue' \in SUBSET Names
    BY DEF IInv, TypeOK
<1>1. TypeOK'
    BY <1>0, NamesCount DEF IInv, TypeOK, TrackerTypeOK
<1>2. WorkInv'
    BY DEF IInv, TypeOK, WorkInv
<1>. QED BY <1>1, <1>2 DEF IInv, ToldInv, CountInv

LEMMA FailKeeps ==
    ASSUME IInv, NEW w \in Workers, Fail(w) PROVE IInv'
<1>. USE DEF Fail, Goto, RecordError, qvars, gvars
<1>1. TypeOK'
    BY DEF IInv, TypeOK, TrackerTypeOK
<1>2. WorkInv'
    BY DEF IInv, TypeOK, WorkInv
<1>. QED BY <1>1, <1>2 DEF IInv, ToldInv, CountInv

LEMMA RequeueKeeps ==
    ASSUME IInv, NEW w \in Workers, Requeue(w) PROVE IInv'
<1>. USE DEF Requeue, Enqueue, Goto, Report, SetQueueCounts
<1>0. item[w] \in Names /\ queue' \in SUBSET Names
    BY DEF IInv, TypeOK, WorkInv
<1>1. TypeOK'
    BY <1>0, NamesCount DEF IInv, TypeOK, TrackerTypeOK
<1>2. WorkInv'
    BY DEF IInv, TypeOK, WorkInv
<1>. QED BY <1>1, <1>2 DEF IInv, ToldInv, CountInv

LEMMA QuarantineKeeps ==
    ASSUME IInv, NEW w \in Workers, Quarantine(w) PROVE IInv'
<1>. USE DEF Quarantine, Goto, trackerVars, gvars
<1>0. item[w] \in Names
    BY DEF IInv, WorkInv
<1>1. TypeOK'
    BY <1>0 DEF IInv, TypeOK, TrackerTypeOK
<1>2. WorkInv'
    BY SenderHealthAssumption DEF IInv, TypeOK, WorkInv
<1>3. CountInv'
    BY SenderHealthAssumption DEF CountInv
<1>. QED BY <1>1, <1>2, <1>3 DEF IInv, ToldInv

LEMMA UpdateFailedCountKeeps ==
    ASSUME IInv, NEW w \in Workers, UpdateFailedCount(w) PROVE IInv'
<1>. USE DEF UpdateFailedCount, Goto, Report, SetQueueCounts, gvars
<1>0. parked' \in SUBSET Names /\ queue' \in SUBSET Names
    BY DEF IInv, TypeOK
<1>1. count' \in Nat /\ (parked' # {} => count' > 0)
    BY <1>0, NamesCount DEF IInv, TypeOK
<1>2. TypeOK'
    BY <1>0, <1>1, NamesCount DEF IInv, TypeOK, TrackerTypeOK
<1>3. WorkInv'
    BY SenderHealthAssumption DEF IInv, TypeOK, WorkInv
<1>4. CountInv'
    BY <1>1 DEF CountInv
<1>. QED BY <1>2, <1>3, <1>4 DEF IInv, ToldInv

LEMMA SucceedKeeps ==
    ASSUME IInv, NEW w \in Workers, Succeed(w) \/ ReportSuccess(w) PROVE IInv'
<1>. USE DEF Succeed, ReportSuccess, Goto, RecordSuccess, trackerVars, qvars, gvars
<1>1. TypeOK'
  <2>1. TrackerTypeOK'
    BY DEF IInv, TypeOK, TrackerTypeOK
  <2>2. pc' \in [Workers -> {"idle", "busy", "failed", "counting", "done"}]
    BY DEF IInv, TypeOK
  <2>3. item' \in [Workers -> Names \cup {NoName}]
    BY DEF IInv, TypeOK
  <2>4. attempts' \in [Names -> Nat]
    BY DEF IInv, TypeOK
  <2>. QED BY <2>1, <2>2, <2>3, <2>4 DEF IInv, TypeOK
<1>2. WorkInv'
    BY DEF IInv, TypeOK, WorkInv
<1>. QED BY <1>1, <1>2 DEF IInv, ToldInv, CountInv

LEMMA RestartKeeps ==
    ASSUME IInv, Restart PROVE IInv'
<1>. USE DEF Restart, NewTracker
<1>0. parked' \in SUBSET Names /\ parked' = parked
    BY DEF IInv, TypeOK
<1>1. TypeOK'
    BY <1>0, NamesCount DEF IInv, TypeOK, TrackerTypeOK
<1>2. WorkInv'
    BY DEF WorkInv
<1>3. CountInv'
    BY DEF CountInv
<1>4. ToldInv'
    BY FS_EmptySet DEF ToldInv
<1>. QED BY <1>1, <1>2, <1>3, <1>4 DEF IInv

\* An operator, polls, time and other users of the disk.
LEMMA OthersKeep ==
    ASSUME IInv, ClearFailed \/ Poll \/ Surroundings PROVE IInv'
<1>. USE DEF ClearFailed, Poll, Surroundings, Evaluate, Pruned, Tick, DiskUse, trackerVars,
        qvars, wvars, gvars
<1>1. TypeOK'
  <2>1. recentErrors' \in SUBSET Nat
    BY DEF IInv, TypeOK, TrackerTypeOK
  <2>2. now' \in Nat /\ lastOk' \in Nat /\ disk' \in Disks /\ clears' \in Nat
    BY DEF IInv, TypeOK, TrackerTypeOK
  <2>3. waiting' = waiting /\ failed' = failed /\ active' = active
        /\ parked' \in {parked, {}}
    OBVIOUS
  <2>4. UNCHANGED <<qvars, wvars, since>>
    OBVIOUS
  <2>. QED BY <2>1, <2>2, <2>3, <2>4 DEF IInv, TypeOK, TrackerTypeOK
<1>2. WorkInv' /\ ToldInv' /\ CountInv'
    BY DEF IInv, WorkInv, ToldInv, CountInv
<1>. QED BY <1>1, <1>2 DEF IInv

LEMMA StepInv ==
    ASSUME IInv, [Next]_vars PROVE IInv'
<1>1. CASE UNCHANGED vars
    BY <1>1 DEF IInv, TypeOK, TrackerTypeOK, WorkInv, ToldInv, CountInv, vars, trackerVars,
        qvars, wvars, gvars
<1>2. ASSUME NEW n \in Names, Push(n) PROVE IInv'
    BY <1>2, PushKeeps
<1>3. ASSUME NEW w \in Workers, WorkerStep(w) PROVE IInv'
    BY <1>3, PopKeeps, FailKeeps, RequeueKeeps, QuarantineKeeps, UpdateFailedCountKeeps,
        SucceedKeeps DEF WorkerStep
<1>4. CASE Restart \/ NewQueue
    BY <1>4, RestartKeeps, NewQueueKeeps
<1>5. CASE ClearFailed \/ Poll \/ Surroundings
    BY <1>5, OthersKeep
<1>. QED BY <1>1, <1>2, <1>3, <1>4, <1>5 DEF Next

\* The invariant holds in every state of a sender.
LEMMA SenderHealthInvariant == Spec => []IInv
<1>1. Init => IInv
    BY InitInv
<1>2. IInv /\ [Next]_vars => IInv'
    BY StepInv
<1>. QED BY <1>1, <1>2, PTL DEF Spec

----------------------------------------------------------------------------
\* Every variable of the queue, the workers and the tracker keeps its type.
THEOREM SenderHealthTypeCorrect == Spec => []TypeOK
<1>1. IInv => TypeOK
    BY DEF IInv
<1>. QED BY <1>1, SenderHealthInvariant, PTL

\* From NewQueue on, while a file is in .failed/ and no RecordFailure is between its
\* rename and its count, every poll of the tracker says at least WARN.
THEOREM SenderParkedReported == Spec => []ParkedReported
<1>1. ASSUME IInv, phase = "up", holder = NoWorker, parked # {} PROVE State(FALSE) # "ok"
  <2>1. failed > 0
    BY <1>1 DEF IInv, ToldInv, CountInv
  <2>2. Raised("parked", FALSE)
    BY <2>1, SenderHealthAssumption DEF Raised
  <2>3. "parked" \in ActiveIssues(FALSE)
    BY <2>2 DEF ActiveIssues, IssueKinds
  <2>. QED BY <2>3 DEF State
<1>2. IInv => ParkedReported
    BY <1>1 DEF ParkedReported
<1>. QED BY <1>2, SenderHealthInvariant, PTL

\* A file in the queue for longer than -stall-after without a success in that time
\* makes every poll say FAIL: no order of pushes, pops and requeues hides it.
THEOREM SenderStallReported == Spec => []StallReported
<1>1. ASSUME IInv, StallAfter > 0, NEW n \in queue,
             now - MaxOf(since[n], lastOk) > StallAfter
      PROVE  State(FALSE) = "fail"
  <2>1. waiting > 0
    BY <1>1, NamesCount DEF IInv, ToldInv, TypeOK
  <2>2. now - lastOk > StallAfter
    BY <1>1, TrackerAssumption DEF MaxOf, IInv, TypeOK, TrackerTypeOK
  <2>3. Raised("stalled", FALSE)
    BY <1>1, <2>1, <2>2, SenderHealthAssumption DEF Raised
  <2>4. "stalled" \in ActiveIssues(FALSE) \cap Failures
    BY <2>3 DEF ActiveIssues, IssueKinds, Failures
  <2>. QED BY <2>4 DEF State
<1>2. IInv => StallReported
    BY <1>1 DEF StallReported
<1>. QED BY <1>2, SenderHealthInvariant, PTL
=============================================================================
