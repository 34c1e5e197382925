------------------------------ MODULE Tracker ------------------------------
(***************************************************************************)
(* monitor.Tracker of monitor/status.go: what a node remembers about       *)
(* itself, and the health state that Evaluate makes of it.  Each of its    *)
(* methods runs under its mutex; SenderHealth and ReceiverHealth say who   *)
(* calls them and when.  Totals that are only reported are left out.       *)
(***************************************************************************)
EXTENDS Integers

CONSTANTS
    Role,           \* "sender" or "receiver"
    DiskWarnFlag,   \* -disk-warn-pct
    DiskFailFlag,   \* -disk-fail-pct
    StallAfter,     \* -stall-after, in ticks of the clock; 0 turns it off
    StaleAfter,     \* -stale-after, likewise
    ErrorWindow,    \* the 5 minutes of recentErrors
    Disks,          \* what Statfs may say: free and total space, total 0 when it fails
    MaxNow          \* bound: the clock

ASSUME TrackerAssumption ==
    /\ Role \in {"sender", "receiver"}
    /\ DiskWarnFlag \in Int /\ DiskFailFlag \in Int
    /\ StallAfter \in Nat /\ StaleAfter \in Nat /\ ErrorWindow \in Nat /\ MaxNow \in Nat
    /\ Disks \subseteq [free : Nat, total : Nat]

VARIABLES
    now,            \* time.Now()
    lastOk,         \* lastOkTime
    recentErrors,   \* recentErrors, as the set of its times
    waiting,        \* waitingFiles
    failed,         \* failedFiles
    active,         \* activeConnections
    disk            \* the file system behind watchDir

trackerVars == <<now, lastOk, recentErrors, waiting, failed, active, disk>>

TrackerTypeOK ==
    /\ now \in Nat /\ lastOk \in Nat
    /\ recentErrors \in SUBSET Nat
    /\ waiting \in Nat /\ failed \in Nat /\ active \in Int
    /\ disk \in Disks

----------------------------------------------------------------------------
\* NewTracker
DiskWarnPct == IF DiskWarnFlag <= 0 THEN 15 ELSE DiskWarnFlag
DiskFailPct == IF DiskFailFlag <= 0 THEN 5 ELSE DiskFailFlag

TrackerInit ==
    /\ now = 0 /\ lastOk = 0
    /\ recentErrors = {}
    /\ waiting = 0 /\ failed = 0 /\ active = 0
    /\ disk \in Disks

\* NewTracker in a process that is started again.
NewTracker ==
    /\ lastOk' = now
    /\ recentErrors' = {}
    /\ active' = 0

RecordSuccess ==
    /\ lastOk' = now
    /\ UNCHANGED <<now, recentErrors, waiting, failed, active, disk>>

RecordError ==
    /\ recentErrors' = recentErrors \cup {now}
    /\ UNCHANGED <<now, lastOk, waiting, failed, active, disk>>

SetQueueCounts(w, f) ==
    /\ waiting' = w
    /\ failed' = f
    /\ UNCHANGED <<now, lastOk, recentErrors, active, disk>>

SetActiveConnections(k) ==
    /\ active' = k
    /\ UNCHANGED <<now, lastOk, recentErrors, waiting, failed, disk>>

\* Mutant: the errors inside the window are dropped.
PruneNewest == {t \in recentErrors : t + ErrorWindow <= now}

\* pruneErrors
Pruned == {t \in recentErrors : t + ErrorWindow > now}

\* GetDiskStats
FreePercent == IF disk.total > 0 THEN (disk.free * 100) \div disk.total ELSE 0

----------------------------------------------------------------------------
(* Evaluate.  `old' is the answer of checkOldStagingFiles.                 *)

Failures == {"disk critical", "stalled"}
IssueKinds == Failures \cup {"disk low", "parked", "errors", "old staging", "stale"}

Raised(i, old) ==
    CASE i = "disk critical" -> disk.total > 0 /\ FreePercent < DiskFailPct
      [] i = "disk low" -> /\ disk.total > 0
                           /\ FreePercent \in DiskFailPct..(DiskWarnPct - 1)
      [] i = "stalled" -> /\ Role = "sender" /\ waiting > 0 /\ StallAfter > 0
                          /\ now - lastOk > StallAfter
      [] i = "parked" -> Role = "sender" /\ failed > 0
      [] i = "errors" -> Pruned # {}
      [] i = "old staging" -> Role = "receiver" /\ active = 0 /\ old
      [] i = "stale" -> Role = "receiver" /\ StaleAfter > 0 /\ now - lastOk > StaleAfter

ActiveIssues(old) == {i \in IssueKinds : Raised(i, old)}

\* A failure wins over any number of warnings.
State(old) ==
    IF ActiveIssues(old) \cap Failures # {} THEN "fail"
    ELSE IF ActiveIssues(old) # {} THEN "warn"
    ELSE "ok"

\* What a call of Evaluate leaves behind.
Evaluate ==
    /\ recentErrors' = Pruned
    /\ UNCHANGED <<now, lastOk, waiting, failed, active, disk>>

----------------------------------------------------------------------------
(* The environment: time passes, and others use the disk.                  *)

Tick ==
    /\ now < MaxNow
    /\ now' = now + 1
    /\ UNCHANGED <<lastOk, recentErrors, waiting, failed, active, disk>>

DiskUse ==
    /\ disk' \in Disks
    /\ UNCHANGED <<now, lastOk, recentErrors, waiting, failed, active>>
============================================================================
