---------------------------- MODULE SenderHealth ----------------------------
(***************************************************************************)
(* What a sender reports about itself: the calls of sender/queue.go and    *)
(* sender/client.go into the tracker.  The queue's mutex and the tracker's *)
(* are different ones, so a poll of /status may fall between any two steps.*)
(***************************************************************************)
EXTENDS Tracker, FiniteSets

CONSTANTS
    Names,          \* the files
    NoName,         \* no file
    Workers,        \* the goroutines of ClientPool
    MaxAttempts,    \* -max-attempts
    MaxClears       \* bound: how often somebody empties .failed/

NoWorker == "nobody"

ASSUME SenderHealthAssumption ==
    /\ Role = "sender"
    /\ NoName \notin Names
    /\ NoWorker \notin Workers
    /\ IsFiniteSet(Names)
    /\ MaxAttempts \in Nat \ {0}
    /\ MaxClears \in Nat

VARIABLES
    phase,      \* "starting" from the status server's start to NewQueue, then "up"
    queue,      \* the names in Queue.items
    attempts,   \* Queue.attempts
    count,      \* Queue.failedCount
    holder,     \* the worker that holds Queue.mu over a quarantine
    pc,         \* "idle", "busy", "failed", "counting" or "done"
    item,       \* the file a worker works on
    parked,     \* the files in .failed/
    \* ghosts and bounds
    since,      \* since[n]: when n entered the queue, while it is there
    clears

qvars == <<phase, queue, attempts, count, holder>>
wvars == <<pc, item>>
gvars == <<since, clears>>
vars == <<trackerVars, qvars, wvars, parked, gvars>>

TypeOK ==
    /\ TrackerTypeOK
    /\ phase \in {"starting", "up"}
    /\ queue \in SUBSET Names
    /\ attempts \in [Names -> Nat]
    /\ count \in Nat
    /\ holder \in Workers \cup {NoWorker}
    /\ pc \in [Workers -> {"idle", "busy", "failed", "counting", "done"}]
    /\ item \in [Workers -> Names \cup {NoName}]
    /\ parked \in SUBSET Names
    /\ since \in [Names -> Nat]
    /\ clears \in Nat

Init ==
    /\ TrackerInit
    /\ phase = "starting"
    /\ queue = {} /\ attempts = [n \in Names |-> 0] /\ count = 0 /\ holder = NoWorker
    /\ pc = [w \in Workers |-> "idle"]
    /\ item = [w \in Workers |-> NoName]
    /\ parked \in SUBSET Names
    /\ since = [n \in Names |-> 0] /\ clears = 0

----------------------------------------------------------------------------
Goto(w, p) == pc' = [pc EXCEPT ![w] = p]

\* SetQueueCounts(len(q.items), q.failedCount), called with Queue.mu held.
Report == SetQueueCounts(Cardinality(queue'), count')

\* The name enters the queue.
Enqueue(n) ==
    /\ queue' = queue \cup {n}
    /\ since' = [since EXCEPT ![n] = now]

\* NewQueue: updateFailedCount for what earlier processes have left in .failed/, a
\* directory that need not exist.  Scanner and workers start after it.
NewQueue ==
    /\ phase = "starting"
    /\ phase' = "up"
    /\ count' = Cardinality(parked)
    /\ UNCHANGED <<queue, attempts, holder, wvars, parked, gvars>>
    /\ Report

\* The scanner pushes a stable file; Sender says when.  A name that is queued is not
\* queued twice.
Push(n) ==
    /\ phase = "up" /\ holder = NoWorker
    /\ n \notin queue
    /\ Enqueue(n)
    /\ UNCHANGED <<phase, attempts, count, holder, wvars, parked, clears>>
    /\ Report

Pop(w) ==
    /\ phase = "up" /\ pc[w] = "idle" /\ holder = NoWorker
    /\ \E n \in queue :
         /\ item' = [item EXCEPT ![w] = n]
         /\ queue' = queue \ {n}
         /\ since' = [since EXCEPT ![n] = 0]
    /\ Goto(w, "busy")
    /\ UNCHANGED <<phase, attempts, count, holder, parked, clears>>
    /\ Report

\* A dial or a transfer fails; tracker.RecordError comes before queue.RecordFailure.
Fail(w) ==
    /\ pc[w] = "busy"
    /\ Goto(w, "failed")
    /\ RecordError
    /\ UNCHANGED <<qvars, item, parked, gvars>>

\* Mutant: the length is reported only by Push and Pop.
RequeueSilent(w) ==
    LET n == item[w] IN
    /\ pc[w] = "failed" /\ holder = NoWorker
    /\ attempts[n] + 1 < MaxAttempts
    /\ attempts' = [attempts EXCEPT ![n] = @ + 1]
    /\ Enqueue(n)
    /\ item' = [item EXCEPT ![w] = NoName]
    /\ Goto(w, "idle")
    /\ UNCHANGED <<trackerVars, phase, count, holder, parked, clears>>

\* RecordFailure with attempts left: the file is queued again, unless its name is
\* queued already.
Requeue(w) ==
    LET n == item[w] IN
    /\ pc[w] = "failed" /\ holder = NoWorker
    /\ attempts[n] + 1 < MaxAttempts
    /\ attempts' = [attempts EXCEPT ![n] = @ + 1]
    /\ IF n \in queue THEN UNCHANGED <<queue, since>> ELSE Enqueue(n)
    /\ item' = [item EXCEPT ![w] = NoName]
    /\ Goto(w, "idle")
    /\ UNCHANGED <<phase, count, holder, parked, clears>>
    /\ Report

\* Mutant: the item is dropped before the file is renamed.
QuarantineLate(w) ==
    LET n == item[w] IN
    /\ pc[w] = "failed" /\ holder = NoWorker
    /\ attempts[n] + 1 >= MaxAttempts
    /\ attempts' = [attempts EXCEPT ![n] = 0]
    /\ item' = [item EXCEPT ![w] = NoName]
    /\ parked' \in {parked, parked \cup {item'[w]}}
    /\ holder' = w
    /\ Goto(w, "counting")
    /\ UNCHANGED <<trackerVars, phase, queue, count, gvars>>

\* RecordFailure without: the rename into .failed/, which may fail, ...
Quarantine(w) ==
    LET n == item[w] IN
    /\ pc[w] = "failed" /\ holder = NoWorker
    /\ attempts[n] + 1 >= MaxAttempts
    /\ attempts' = [attempts EXCEPT ![n] = 0]
    /\ parked' \in {parked, parked \cup {n}}
    /\ holder' = w
    /\ item' = [item EXCEPT ![w] = NoName]
    /\ Goto(w, "counting")
    /\ UNCHANGED <<trackerVars, phase, queue, count, gvars>>

\* Mutant: the files are counted only when a sender starts.
UpdateFailedCountSkipped(w) ==
    /\ pc[w] = "counting"
    /\ holder' = NoWorker
    /\ Goto(w, "idle")
    /\ UNCHANGED <<phase, queue, attempts, count, item, parked, gvars>>
    /\ Report

\* ... then updateFailedCount, with Queue.mu still held.  A directory that was
\* removed meanwhile cannot be read and leaves the count.
UpdateFailedCount(w) ==
    /\ pc[w] = "counting"
    /\ count' \in {Cardinality(parked)} \cup (IF parked = {} THEN {count} ELSE {})
    /\ holder' = NoWorker
    /\ Goto(w, "idle")
    /\ UNCHANGED <<phase, queue, attempts, item, parked, gvars>>
    /\ Report

\* The ACK is read; postCommit and queue.RecordSuccess follow ...
Succeed(w) ==
    /\ pc[w] = "busy" /\ holder = NoWorker
    /\ attempts' = [attempts EXCEPT ![item[w]] = 0]
    /\ Goto(w, "done")
    /\ UNCHANGED <<trackerVars, phase, queue, count, holder, item, parked, gvars>>

\* ... and tracker.RecordSuccess at last.
ReportSuccess(w) ==
    /\ pc[w] = "done"
    /\ item' = [item EXCEPT ![w] = NoName]
    /\ Goto(w, "idle")
    /\ RecordSuccess
    /\ UNCHANGED <<qvars, parked, gvars>>

\* Somebody deals with the quarantined files.
ClearFailed ==
    /\ clears < MaxClears
    /\ parked # {}
    /\ parked' = {}
    /\ clears' = clears + 1
    /\ UNCHANGED <<trackerVars, qvars, wvars, since>>

\* The sender is stopped and started again: NewTracker and the status server, which
\* answers polls from then on.
Restart ==
    /\ NewTracker
    /\ phase' = "starting"
    /\ queue' = {} /\ attempts' = [n \in Names |-> 0] /\ holder' = NoWorker
    /\ count' = 0
    /\ waiting' = 0 /\ failed' = 0
    /\ pc' = [w \in Workers |-> "idle"]
    /\ item' = [w \in Workers |-> NoName]
    /\ since' = [n \in Names |-> 0]
    /\ UNCHANGED <<now, disk, parked, clears>>

\* /status, /healthz and /metrics all call Evaluate.
Poll == Evaluate /\ UNCHANGED <<qvars, wvars, parked, gvars>>

Surroundings == (Tick \/ DiskUse) /\ UNCHANGED <<qvars, wvars, parked, gvars>>

WorkerStep(w) ==
    \/ Pop(w) \/ Fail(w) \/ Requeue(w) \/ Quarantine(w) \/ UpdateFailedCount(w)
    \/ Succeed(w) \/ ReportSuccess(w)

Next ==
    \/ NewQueue
    \/ \E n \in Names : Push(n)
    \/ \E w \in Workers : WorkerStep(w)
    \/ ClearFailed \/ Restart \/ Poll \/ Surroundings

Spec == Init /\ [][Next]_vars

----------------------------------------------------------------------------
(* Properties.  State(FALSE) is what a poll at this moment would get.      *)

MaxOf(a, b) == IF a > b THEN a ELSE b

\* No quarantined file goes unnoticed, also long after the errors that led to it were
\* forgotten: while one is in .failed/ and no worker is between its rename and the new
\* count, every poll says at least WARN.  In a process that was started again this is
\* so from NewQueue on; a poll before it may still be told ok (main.go:127-133).
ParkedReported ==
    phase = "up" /\ holder = NoWorker /\ parked # {} => State(FALSE) # "ok"

\* A sender that is stuck says so: when a file has been in the queue for longer
\* than -stall-after and no transfer has succeeded in that time, every poll says FAIL,
\* whatever other files were pushed, popped or requeued meanwhile.
StallReported ==
    StallAfter > 0 =>
        \A n \in queue : now - MaxOf(since[n], lastOk) > StallAfter => State(FALSE) = "fail"
=============================================================================
