--------------------------- MODULE ReceiverHealth ---------------------------
(***************************************************************************)
(* What a receiver reports about itself: the calls of receiver/listener.go *)
(* into the tracker, the gauge of open connections and the age of staging  *)
(* files.  activeConnCount is atomic, the gauge has a mutex, and the copy  *)
(* from one to the other has neither.  Receiver has the handlers in full.  *)
(***************************************************************************)
EXTENDS Tracker, FiniteSets

CONSTANTS
    Conns,          \* handler goroutines; a client that dials again gets another one
    Acceptor,       \* the goroutine of acceptLoop
    NoConn,         \* no connection
    StagingAge,     \* the 10 minutes of checkOldStagingFiles
    MaxKills        \* bound: how often the receiver is killed

ASSUME ReceiverHealthAssumption ==
    /\ Acceptor \notin Conns /\ NoConn \notin Conns
    /\ IsFiniteSet(Conns)
    /\ StagingAge \in Nat
    /\ MaxKills \in Nat

VARIABLES
    connCount,  \* activeConnCount
    pc,         \* where the acceptor and the handlers are
    accepted,   \* the connection acceptLoop registers
    loaded,     \* the value of LoadInt32, not yet stored in the gauge
    staged,     \* modification time of a handler's staging file, or NoTime
    stray,      \* modification times of staging files without a handler
    \* ghosts and bounds
    refusals,   \* when a connection or a file was refused, as far as recorded
    quiet,      \* the count last changed while no earlier change was on its way to the gauge
    kills

procs == <<pc, accepted, loaded>>
files == <<staged, stray>>
gvars == <<refusals, quiet, kills>>
vars == <<trackerVars, connCount, procs, files, gvars>>

NoTime == -1
Times == Nat \cup {NoTime}

AcceptorPcs == {"starting", "accept", "load", "store"}
HandlerPcs == {"closed", "serving", "refusing", "leaving", "load", "store"}

TypeOK ==
    /\ TrackerTypeOK
    /\ connCount \in 0..Cardinality(Conns)
    /\ active \in 0..Cardinality(Conns)
    /\ pc[Acceptor] \in AcceptorPcs
    /\ \A c \in Conns : pc[c] \in HandlerPcs
    /\ accepted \in Conns \cup {NoConn}
    /\ loaded \in [Conns \cup {Acceptor} -> Nat]
    /\ staged \in [Conns -> Times]
    /\ stray \in SUBSET Nat
    /\ refusals \in SUBSET Nat
    /\ quiet \in BOOLEAN
    /\ kills \in Nat

\* Server.Start has yet to be called.
Starting ==
    [p \in Conns \cup {Acceptor} |-> IF p = Acceptor THEN "starting" ELSE "closed"]

Init ==
    /\ TrackerInit
    /\ connCount = 0 /\ pc = Starting /\ accepted = NoConn
    /\ loaded = [p \in Conns \cup {Acceptor} |-> 0]
    /\ staged = [c \in Conns |-> NoTime] /\ stray = {}
    /\ refusals = {} /\ quiet = TRUE /\ kills = 0

----------------------------------------------------------------------------
Goto(p, l) == pc' = [pc EXCEPT ![p] = l]

\* An error is reported; the refusal it stands for is on record.
Refused ==
    /\ RecordError
    /\ refusals' = refusals \cup {now}
    /\ UNCHANGED <<quiet, kills>>

\* p has changed the count and has not yet told the tracker.
Telling(p) == pc[p] \in {"load", "store"}

Undisturbed == \A p \in Conns \cup {Acceptor} : ~Telling(p)

\* AddInt32
AddConn(k) ==
    /\ connCount' = connCount + k
    /\ quiet' = Undisturbed
    /\ UNCHANGED <<refusals, kills>>

\* LoadInt32, the argument of SetActiveConnections.
Load(p) ==
    /\ pc[p] = "load"
    /\ loaded' = [loaded EXCEPT ![p] = connCount]
    /\ Goto(p, "store")
    /\ UNCHANGED <<trackerVars, connCount, accepted, files, gvars>>

(* acceptLoop *)

\* Server.Start: BootCleanup, which ignores the files it cannot remove, and Listen.
BootCleanup ==
    /\ pc[Acceptor] = "starting"
    /\ stray' \in SUBSET stray
    /\ Goto(Acceptor, "accept")
    /\ UNCHANGED <<trackerVars, connCount, accepted, loaded, staged, gvars>>

\* Accept, registration and AddInt32.
Accept(c) ==
    /\ pc[Acceptor] = "accept" /\ pc[c] = "closed"
    /\ accepted' = c
    /\ AddConn(1)
    /\ Goto(Acceptor, "load")
    /\ UNCHANGED <<trackerVars, loaded, files>>

AcceptError ==
    /\ pc[Acceptor] = "accept"
    /\ Refused
    /\ UNCHANGED <<connCount, procs, files>>

\* Mutant: the handler is started without telling the tracker.
AcceptStoreSkipped ==
    /\ pc[Acceptor] = "store"
    /\ pc' = [pc EXCEPT ![Acceptor] = "accept", ![accepted] = "serving"]
    /\ accepted' = NoConn
    /\ loaded' = [loaded EXCEPT ![Acceptor] = 0]
    /\ UNCHANGED <<trackerVars, connCount, files, gvars>>

\* SetActiveConnections, and only then the handler's goroutine.
AcceptStore ==
    /\ pc[Acceptor] = "store"
    /\ SetActiveConnections(loaded[Acceptor])
    /\ pc' = [pc EXCEPT ![Acceptor] = "accept", ![accepted] = "serving"]
    /\ accepted' = NoConn
    /\ loaded' = [loaded EXCEPT ![Acceptor] = 0]
    /\ UNCHANGED <<connCount, files, gvars>>

(* handleConnection *)

\* The handshake or a header is refused, or no staging file can be created.
Refuse(c) ==
    /\ pc[c] = "serving" /\ staged[c] = NoTime
    /\ Goto(c, "refusing")
    /\ UNCHANGED <<trackerVars, connCount, accepted, loaded, files, gvars>>

\* A staging file is created, or some more of the payload is written to it.
Write(c) ==
    /\ pc[c] = "serving"
    /\ staged' = [staged EXCEPT ![c] = now]
    /\ UNCHANGED <<trackerVars, connCount, procs, stray, gvars>>

\* ReceiveStream or a step of CommitBarrier fails.  The removal of the staging file
\* may fail as well; its error is ignored.
Spoil(c) ==
    /\ pc[c] = "serving" /\ staged[c] # NoTime
    /\ staged' = [staged EXCEPT ![c] = NoTime]
    /\ stray' \in {stray, stray \cup {staged[c]}}
    /\ Goto(c, "refusing")
    /\ UNCHANGED <<trackerVars, connCount, accepted, loaded, gvars>>

\* After the NACK: tracker.RecordError.
RecordRefusal(c) ==
    /\ pc[c] = "refusing"
    /\ Refused
    /\ Goto(c, "leaving")
    /\ UNCHANGED <<connCount, accepted, loaded, files>>

\* CommitBarrier returns nil, and tracker.RecordSuccess.
Commit(c) ==
    /\ pc[c] = "serving" /\ staged[c] # NoTime
    /\ staged' = [staged EXCEPT ![c] = NoTime]
    /\ RecordSuccess
    /\ UNCHANGED <<connCount, procs, stray, gvars>>

\* The client closes between two files, or the idle deadline runs out.
Hangup(c) ==
    /\ pc[c] = "serving" /\ staged[c] = NoTime
    /\ Goto(c, "leaving")
    /\ UNCHANGED <<trackerVars, connCount, accepted, loaded, files, gvars>>

\* Mutant: a connection that was never accepted is counted off as well.
LeaveTwice(c) ==
    /\ pc[c] \in {"leaving", "closed"}
    /\ AddConn(-1)
    /\ Goto(c, "load")
    /\ UNCHANGED <<trackerVars, accepted, loaded, files>>

\* The handler's deferred function: AddInt32(-1), ...
Leave(c) ==
    /\ pc[c] = "leaving"
    /\ AddConn(-1)
    /\ Goto(c, "load")
    /\ UNCHANGED <<trackerVars, accepted, loaded, files>>

\* Mutant: only acceptLoop copies the count to the gauge.
LeaveStoreSkipped(c) ==
    /\ pc[c] = "store"
    /\ Goto(c, "closed")
    /\ loaded' = [loaded EXCEPT ![c] = 0]
    /\ UNCHANGED <<trackerVars, connCount, accepted, files, gvars>>

\* ... Load, and SetActiveConnections.
LeaveStore(c) ==
    /\ pc[c] = "store"
    /\ SetActiveConnections(loaded[c])
    /\ Goto(c, "closed")
    /\ loaded' = [loaded EXCEPT ![c] = 0]
    /\ UNCHANGED <<connCount, accepted, files, gvars>>

\* The receiver is killed and started again: NewTracker and the status server, which
\* answers from then on.
Restart ==
    /\ kills < MaxKills
    /\ kills' = kills + 1
    /\ NewTracker
    /\ connCount' = 0 /\ pc' = Starting /\ accepted' = NoConn
    /\ loaded' = [p \in Conns \cup {Acceptor} |-> 0]
    /\ staged' = [c \in Conns |-> NoTime]
    /\ stray' = (stray \cup {staged[c] : c \in Conns}) \ {NoTime}
    /\ refusals' = {} /\ quiet' = TRUE
    /\ UNCHANGED <<now, waiting, failed, disk>>

\* /status, /healthz and /metrics all call Evaluate.
Poll == Evaluate /\ UNCHANGED <<connCount, procs, files, gvars>>

\* Time passes.  A handler may hold a file without writing to it for as long as it
\* likes: every byte of the trailer moves its deadline, and Sync has none.
TimePasses == Tick /\ UNCHANGED <<connCount, procs, files, gvars>>

OthersUseDisk == DiskUse /\ UNCHANGED <<connCount, procs, files, gvars>>

AcceptLoop ==
    \/ BootCleanup \/ AcceptError \/ Load(Acceptor) \/ AcceptStore
    \/ \E c \in Conns : Accept(c)

Handler(c) ==
    \/ Refuse(c) \/ Write(c) \/ Spoil(c) \/ RecordRefusal(c) \/ Commit(c) \/ Hangup(c)
    \/ Leave(c) \/ Load(c) \/ LeaveStore(c)

Next == AcceptLoop \/ (\E c \in Conns : Handler(c)) \/ Restart
        \/ Poll \/ TimePasses \/ OthersUseDisk

Spec == Init /\ [][Next]_vars

----------------------------------------------------------------------------
(* checkOldStagingFiles, and the properties.                               *)

Untouched(t) == t # NoTime /\ t + StagingAge < now

OldStagingFiles == \E t \in stray \cup {staged[c] : c \in Conns} : Untouched(t)

Warnings == ActiveIssues(OldStagingFiles)

\* The count is in the gauge or in no one's hands, and it got there alone.
Settled == Undisturbed /\ quiet

AllClosed == \A c \in Conns : pc[c] = "closed"

\* A recorded refusal is on every poll of the next 5 minutes, however many polls
\* have pruned the list since, and whatever succeeded in between.
RefusalReported ==
    \A t \in refusals : t + ErrorWindow > now => State(OldStagingFiles) # "ok"

\* A connection that comes or goes while no other does repairs the gauge, whatever the
\* races before it have left there: with no connection open, a staging file that
\* nobody has touched for 10 minutes is reported.
OldStagingReported ==
    Settled /\ AllClosed /\ OldStagingFiles => "old staging" \in Warnings

\* The other direction: from then on it is not reported while a connection is served,
\* not even about a file whose handler is slow.
OldStagingOnlyIdle ==
    Settled /\ "old staging" \in Warnings => AllClosed
=============================================================================
