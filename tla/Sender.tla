------------------------------- MODULE Sender -------------------------------
(***************************************************************************)
(* The sender: sender/scanner.go, sender/queue.go, sender/client.go and    *)
(* the start and shutdown of runSend in cmd/xport/main.go.                 *)
(*                                                                         *)
(* A scanner goroutine polls the watch directory and pushes files that     *)
(* were the same in two scans; worker goroutines pop them, transfer them   *)
(* over connections they keep, and archive, delete or quarantine them.     *)
(* They share the queue and the scanner's states, each behind a mutex, and *)
(* the directory, which producers change at any moment.                    *)
(***************************************************************************)
EXTENDS Network, Sequences, FiniteSets

CONSTANTS
    Workers,        \* the goroutines of ClientPool
    NoConn,         \* a worker without a connection
    AfterAction,    \* "archive" or "delete"
    Producer,       \* when a producer may put a new version under a name: "once",
                    \* "vacant" (no file of that name is there) or "anytime"
    MaxAttempts,    \* -max-attempts
    MaxVersion,     \* bound: versions the producers make
    Info,           \* what entry.Info() tells of a version, wherever it is renamed to
    MaxFaults,      \* bound: renames and removals that fail
    MaxStarts       \* bound: starts of the sender

ASSUME SenderAssumption ==
    /\ NoConn \notin Conns
    /\ AfterAction \in {"archive", "delete"}
    /\ Producer \in {"once", "vacant", "anytime"}
    /\ MaxAttempts \in Nat \ {0}
    /\ MaxVersion \in Nat
    /\ Info \in [1..MaxVersion -> [mtime : Nat, size : Nat]]
    /\ MaxFaults \in Nat
    /\ MaxStarts \in Nat

VARIABLES
    \* the file system: the version found under a name, 0 for none
    dir,        \* the watch directory
    sentDir,    \* .sent/
    failedDir,  \* .failed/
    \* the process
    phase,      \* "off", "run", then the steps of the shutdown: "scanstop", "poolstop",
                \* "queuestop"
    \* the scanner
    scPc,       \* "idle", "read", "locked", "push" or "stopped"
    todo,       \* directory entries of this scan still to be examined
    seen,       \* currentFiles of this scan
    stable,     \* stableFiles of this scan
    states,     \* Scanner.states
    ahead,      \* ghost: what else a scan has listed when it first meets a file
    \* the queue
    items,      \* Queue.items
    inQueue,    \* Queue.inQueue
    attempts,   \* Queue.attempts
    \* the workers
    pc,         \* where a worker is
    item,       \* the item it popped
    sver,       \* the version it opened
    conn,       \* its connection
    \* ghosts and bounds
    clock,      \* versions made so far; they are numbered in the order they appear
    latest,     \* latest[n]: the last version produced under n
    acked,      \* the versions whose ACK a worker has read
    faults,
    starts

fsvars == <<dir, sentDir, failedDir>>
scvars == <<scPc, todo, seen, stable, states, ahead>>
qvars == <<items, inQueue, attempts>>
wvars == <<pc, item, sver, conn>>
gvars == <<clock, latest, acked, faults, starts>>
vars == <<net, fsvars, phase, scvars, qvars, wvars, gvars>>

----------------------------------------------------------------------------
\* FileItem
Items == [name : Names, mtime : Nat]
NoItem == [name |-> NoName, mtime |-> 0]

\* fileScanState; consecutiveScans is only ever compared with 2.
ScanStates == [mtime : Nat, size : Nat, scans : 0..2, isQueued : BOOLEAN]
NoState == [mtime |-> 0, size |-> 0, scans |-> 0, isQueued |-> FALSE]

WorkerPcs == {"none", "top", "pop", "wait", "dial", "backoff", "open", "stream", "resp",
              "commit", "success", "mark", "exit"}

\* Where a worker has an item in hand, and where it uses its connection.
Busy == {"dial", "open", "stream", "resp", "commit", "success", "mark"}
Talking == {"open", "stream", "resp"}

\* Every variable has its type, a worker with work has an item, and one that
\* talks to the receiver has a connection.
TypeOK ==
    /\ NetTypeOK
    /\ dir \in [Names -> Nat] /\ \A n \in Names : dir[n] <= MaxVersion
    /\ sentDir \in [Names -> Nat] /\ failedDir \in [Names -> Nat]
    /\ phase \in {"off", "run", "scanstop", "poolstop", "queuestop"}
    /\ scPc \in {"idle", "read", "locked", "push", "stopped"}
    /\ todo \in SUBSET Names /\ seen \in SUBSET Names
    /\ stable \in Seq(Items)
    /\ states \in [Names -> ScanStates] /\ ahead \in [Names -> SUBSET Names]
    /\ items \in Seq(Items)
    /\ inQueue \in SUBSET Names
    /\ attempts \in [Names -> Nat]
    /\ pc \in [Workers -> WorkerPcs]
    /\ item \in [Workers -> Items \cup {NoItem}]
    /\ sver \in [Workers -> Nat]
    /\ conn \in [Workers -> Conns \cup {NoConn}]
    /\ \A w \in Workers :
         /\ pc[w] \in Busy => item[w] \in Items
         /\ pc[w] \in Talking => conn[w] \in Conns
    /\ clock \in Nat /\ latest \in [Names -> Nat] /\ acked \in SUBSET Nat
    /\ faults \in Nat /\ starts \in Nat

Init ==
    /\ NetInit
    /\ dir = [n \in Names |-> 0]
    /\ sentDir = [n \in Names |-> 0]
    /\ failedDir = [n \in Names |-> 0]
    /\ phase = "off"
    /\ scPc = "stopped" /\ todo = {} /\ seen = {} /\ stable = <<>>
    /\ states = [n \in Names |-> NoState] /\ ahead = [n \in Names |-> {}]
    /\ items = <<>> /\ inQueue = {} /\ attempts = [n \in Names |-> 0]
    /\ pc = [w \in Workers |-> "none"]
    /\ item = [w \in Workers |-> NoItem]
    /\ sver = [w \in Workers |-> 0]
    /\ conn = [w \in Workers |-> NoConn]
    /\ clock = 0 /\ latest = [n \in Names |-> 0] /\ acked = {}
    /\ faults = 0 /\ starts = 0

----------------------------------------------------------------------------
(* runSend.                                                                *)

\* NewQueue, NewScanner, NewClientPool, scanner.Start, pool.Start.
Start ==
    /\ phase = "off"
    /\ starts < MaxStarts
    /\ starts' = starts + 1
    /\ phase' = "run"
    /\ scPc' = "idle"
    /\ pc' = [w \in Workers |-> "top"]
    /\ UNCHANGED <<net, fsvars, todo, seen, stable, states, ahead, qvars, item, sver, conn,
                   clock, latest, acked, faults>>

\* After the signal: scanner.Stop(), which does not wait ...
ScannerStop ==
    /\ phase = "run"
    /\ phase' = "scanstop"
    /\ UNCHANGED <<net, fsvars, scvars, qvars, wvars, gvars>>

\* ... pool.Stop(): close(stopCh) ...
PoolStop ==
    /\ phase = "scanstop"
    /\ phase' = "poolstop"
    /\ UNCHANGED <<net, fsvars, scvars, qvars, wvars, gvars>>

\* Mutant: Queue.Stop without Broadcast.
QueueStopSilent ==
    /\ phase = "poolstop"
    /\ phase' = "queuestop"
    /\ UNCHANGED <<net, fsvars, scvars, qvars, wvars, gvars>>

\* ... queue.Stop(): stopped, and Broadcast wakes every waiting worker ...
QueueStop ==
    /\ phase = "poolstop"
    /\ phase' = "queuestop"
    /\ pc' = [w \in Workers |-> IF pc[w] = "wait" THEN "pop" ELSE pc[w]]
    /\ UNCHANGED <<net, fsvars, scvars, qvars, item, sver, conn, gvars>>

\* The memory of the process is gone.
ProcessEnds ==
    /\ phase' = "off"
    /\ scPc' = "stopped" /\ todo' = {} /\ seen' = {} /\ stable' = <<>>
    /\ states' = [n \in Names |-> NoState] /\ ahead' = [n \in Names |-> {}]
    /\ items' = <<>> /\ inQueue' = {} /\ attempts' = [n \in Names |-> 0]
    /\ pc' = [w \in Workers |-> "none"]
    /\ item' = [w \in Workers |-> NoItem]
    /\ sver' = [w \in Workers |-> 0]
    /\ conn' = [w \in Workers |-> NoConn]

\* ... and wg.Wait(); then runSend returns and the process ends.
PoolDone ==
    /\ phase = "queuestop"
    /\ \A w \in Workers : pc[w] = "exit"
    /\ ProcessEnds
    /\ UNCHANGED <<net, fsvars, gvars>>

\* The process is killed: memory and connections are gone, the directory stays.
Crash ==
    /\ phase # "off"
    /\ ProcessEnds
    /\ net' = [c \in Conns |-> IF net[c].cli = "open" THEN CliGone(net[c]) ELSE net[c]]
    /\ UNCHANGED <<fsvars, gvars>>

stopChClosed == phase \in {"poolstop", "queuestop"}
queueStopped == phase = "queuestop"

----------------------------------------------------------------------------
(* Queue.                                                                  *)

\* s with x before position k.
InsertAt(s, k, x) ==
    [i \in 1..(Len(s) + 1) |-> IF i < k THEN s[i] ELSE IF i = k THEN x ELSE s[i - 1]]

\* Mutant: a requeued item goes to the end.
InsertLast(s, x) == {InsertAt(s, Len(s) + 1, x)}

\* Adding x to a sorted slice and sort.Slice by ModTime, which is not stable: any
\* place among equal times.
InsertSorted(s, x) ==
    {InsertAt(s, k, x) : k \in {k \in 1..(Len(s) + 1) :
                                  /\ \A i \in 1..(k - 1) : s[i].mtime <= x.mtime
                                  /\ \A i \in k..Len(s) : x.mtime <= s[i].mtime}}

\* Mutant: no cond.Signal.
SignalNobody(p) == {p}

\* cond.Signal when the workers are at p: one of those waiting wakes up.
Signal(p) ==
    IF \A w \in Workers : p[w] # "wait" THEN {p}
    ELSE {[p EXCEPT ![w] = "pop"] : w \in {v \in Workers : p[v] = "wait"}}

\* Push
Push(x) ==
    IF queueStopped \/ x.name \in inQueue
    THEN UNCHANGED <<items, inQueue, pc>>
    ELSE /\ items' \in InsertSorted(items, x)
         /\ inQueue' = inQueue \cup {x.name}
         /\ pc' \in Signal(pc)

\* A rename or removal the file system refuses.
Fault ==
    /\ faults < MaxFaults
    /\ faults' = faults + 1

\* os.Rename(item.Path, failedPath), by path; its error is only logged.
Quarantine(n) ==
    \/ /\ dir[n] # 0
       /\ dir' = [dir EXCEPT ![n] = 0]
       /\ failedDir' = [failedDir EXCEPT ![n] = dir[n]]
       /\ UNCHANGED faults
    \/ /\ dir[n] = 0
       /\ UNCHANGED <<dir, failedDir, faults>>
    \/ /\ dir[n] # 0
       /\ Fault
       /\ UNCHANGED <<dir, failedDir>>

\* The attempts of worker w's file are used up.
LastAttempt(w) == attempts[item[w].name] + 1 >= MaxAttempts

\* RecordFailure for the item of worker w, which goes on at p afterwards.
RecordFailure(w, p) ==
    LET n == item[w].name IN
    \/ /\ ~LastAttempt(w)
       /\ attempts' = [attempts EXCEPT ![n] = @ + 1]
       /\ IF n \in inQueue
          THEN /\ pc' = [pc EXCEPT ![w] = p]
               /\ UNCHANGED <<items, inQueue>>
          ELSE /\ items' \in InsertSorted(items, item[w])
               /\ inQueue' = inQueue \cup {n}
               /\ pc' \in Signal([pc EXCEPT ![w] = p])
       /\ UNCHANGED <<dir, failedDir, faults>>
    \/ /\ LastAttempt(w)
       /\ attempts' = [attempts EXCEPT ![n] = 0]
       /\ inQueue' = inQueue \ {n}
       /\ Quarantine(n)
       /\ pc' = [pc EXCEPT ![w] = p]
       /\ UNCHANGED items

----------------------------------------------------------------------------
(* Scanner.scanLoop and scanOnce.                                          *)

\* os.ReadDir, before the mutex is taken.
ScanRead ==
    /\ scPc = "idle"
    /\ scPc' = "read"
    /\ todo' = {n \in Names : dir[n] # 0}
    /\ UNCHANGED <<net, fsvars, phase, seen, stable, states, ahead, qvars, wvars, gvars>>

ScanLock ==
    /\ scPc = "read"
    /\ scPc' = "locked"
    /\ UNCHANGED <<net, fsvars, phase, todo, seen, stable, states, ahead, qvars, wvars, gvars>>

\* The file has the size and modification time f that the last scan noted.
Unchanged(s, f) == s.size = f.size /\ s.mtime = f.mtime

\* The state of a file after a scan that is told f of it: the first sight, the same
\* as last time, or modified.  A file that was queued stays so.
Rescanned(s, f) ==
    LET noted(k, q) == [mtime |-> f.mtime, size |-> f.size, scans |-> k, isQueued |-> q] IN
    IF s = NoState THEN noted(1, FALSE)
    ELSE IF Unchanged(s, f) THEN noted(2, TRUE)
    ELSE noted(1, s.isQueued)

\* Mutant: a file is queued in every scan that finds it stable.
BecomesStableAgain(s, f) == s # NoState /\ Unchanged(s, f)

\* The file was the same in two scans and is not queued yet.
BecomesStable(s, f) == s # NoState /\ Unchanged(s, f) /\ ~s.isQueued

\* One turn of the loop over the entries: entry.Info() and the update of states.
ScanEntry(n) ==
    /\ scPc = "locked"
    /\ n \in todo
    /\ todo' = todo \ {n}
    /\ IF dir[n] = 0
       THEN UNCHANGED <<seen, states, ahead, stable>>
       ELSE LET f == Info[dir[n]] IN
            /\ seen' = seen \cup {n}
            /\ states' = [states EXCEPT ![n] = Rescanned(@, f)]
            /\ ahead' = IF states[n] = NoState
                        THEN [ahead EXCEPT ![n] = (todo \cup seen) \ {n}] ELSE ahead
            /\ IF BecomesStable(states[n], f)
               THEN stable' \in InsertSorted(stable, [name |-> n, mtime |-> f.mtime])
               ELSE UNCHANGED stable
    /\ UNCHANGED <<net, fsvars, phase, scPc, qvars, wvars, gvars>>

\* The states of files that disappeared are dropped, the mutex is released.
ScanUnlock ==
    /\ scPc = "locked"
    /\ todo = {}
    /\ states' = [n \in Names |-> IF n \in seen THEN states[n] ELSE NoState]
    /\ seen' = {}
    /\ scPc' = IF stable = <<>> THEN "idle" ELSE "push"
    /\ UNCHANGED <<net, fsvars, phase, todo, stable, ahead, qvars, wvars, gvars>>

\* queue.Push of the next stable file, after the mutex was released.
ScanPush ==
    /\ scPc = "push"
    /\ Push(Head(stable))
    /\ stable' = Tail(stable)
    /\ scPc' = IF Tail(stable) = <<>> THEN "idle" ELSE "push"
    /\ UNCHANGED <<net, fsvars, phase, todo, seen, states, ahead, attempts, item, sver, conn,
                   gvars>>

\* scanLoop takes its stopCh.
ScanExit ==
    /\ scPc = "idle"
    /\ phase \notin {"off", "run"}
    /\ scPc' = "stopped"
    /\ UNCHANGED <<net, fsvars, phase, todo, seen, stable, states, ahead, qvars, wvars, gvars>>

ScannerStep ==
    \/ ScanRead \/ ScanLock \/ ScanUnlock \/ ScanPush
    \/ \E n \in Names : ScanEntry(n)

----------------------------------------------------------------------------
(* ClientPool.workerLoop.                                                  *)

Goto(w, p) == pc' = [pc EXCEPT ![w] = p]

\* Close of w's connection, if it has one.
CloseConn(w) ==
    /\ conn' = [conn EXCEPT ![w] = NoConn]
    /\ IF conn[w] = NoConn THEN UNCHANGED net ELSE CloseClient(conn[w])

\* The worker is done with its item.
DropItem(w) ==
    /\ item' = [item EXCEPT ![w] = NoItem]
    /\ sver' = [sver EXCEPT ![w] = 0]

\* The deferred Close of a worker that returns.
Leave(w) ==
    /\ Goto(w, "exit")
    /\ CloseConn(w)
    /\ UNCHANGED <<fsvars, phase, scvars, qvars, item, sver, gvars>>

\* The select at the top of the loop.
LoopTop(w) ==
    /\ pc[w] = "top"
    /\ ~stopChClosed
    /\ Goto(w, "pop")
    /\ UNCHANGED <<net, fsvars, phase, scvars, qvars, item, sver, conn, gvars>>

LoopStop(w) ==
    /\ pc[w] = "top"
    /\ stopChClosed
    /\ Leave(w)

\* Mutant: the worker does not check that it has a connection.
PopItemNoDial(w) ==
    /\ pc[w] = "pop"
    /\ items # <<>>
    /\ item' = [item EXCEPT ![w] = Head(items)]
    /\ items' = Tail(items)
    /\ inQueue' = inQueue \ {Head(items).name}
    /\ Goto(w, "open")
    /\ UNCHANGED <<net, fsvars, phase, scvars, attempts, sver, conn, gvars>>

\* Pop: the oldest item, also from a stopped queue ...
PopItem(w) ==
    /\ pc[w] = "pop"
    /\ items # <<>>
    /\ item' = [item EXCEPT ![w] = Head(items)]
    /\ items' = Tail(items)
    /\ inQueue' = inQueue \ {Head(items).name}
    /\ Goto(w, IF conn[w] = NoConn THEN "dial" ELSE "open")
    /\ UNCHANGED <<net, fsvars, phase, scvars, attempts, sver, conn, gvars>>

\* ... or cond.Wait() ...
PopWait(w) ==
    /\ pc[w] = "pop"
    /\ items = <<>> /\ ~queueStopped
    /\ Goto(w, "wait")
    /\ UNCHANGED <<net, fsvars, phase, scvars, qvars, item, sver, conn, gvars>>

\* ... or nothing, when the queue is stopped and empty.
PopStopped(w) ==
    /\ pc[w] = "pop"
    /\ items = <<>> /\ queueStopped
    /\ Leave(w)

DialOk(w, c) ==
    /\ pc[w] = "dial"
    /\ Dial(c)
    /\ conn' = [conn EXCEPT ![w] = c]
    /\ Goto(w, "open")
    /\ UNCHANGED <<fsvars, phase, scvars, qvars, item, sver, gvars>>

\* dialPersistent fails: RecordFailure, whose result is ignored here, then the
\* 1 s backoff.
DialFail(w) ==
    /\ pc[w] = "dial"
    /\ RecordFailure(w, "backoff")
    /\ DropItem(w)
    /\ UNCHANGED <<net, sentDir, phase, scvars, conn, clock, latest, acked, starts>>

\* The backoff ends by its timer or by stopCh, which the loop's top looks at again.
BackoffOver(w) ==
    /\ pc[w] = "backoff"
    /\ Goto(w, "top")
    /\ UNCHANGED <<net, fsvars, phase, scvars, qvars, item, sver, conn, gvars>>

\* transferFile: the file that is under the path now is opened, its header written.
SendFileHeader(w) ==
    /\ pc[w] = "open"
    /\ dir[item[w].name] # 0
    /\ SendHeader(conn[w], item[w].name, dir[item[w].name])
    /\ sver' = [sver EXCEPT ![w] = dir[item[w].name]]
    /\ Goto(w, "stream")
    /\ UNCHANGED <<fsvars, phase, scvars, qvars, item, conn, gvars>>

\* SendStream
SendFileBody(w) ==
    /\ pc[w] = "stream"
    /\ SendBody(conn[w], "full")
    /\ Goto(w, "resp")
    /\ UNCHANGED <<fsvars, phase, scvars, qvars, item, sver, conn, gvars>>

\* Mutant: a NACK is taken for an ACK.
ReadAckAny(w) ==
    /\ pc[w] = "resp"
    /\ ReadReply(conn[w])
    /\ acked' = IF net[conn[w]].rsp = "ack" THEN acked \cup {sver[w]} ELSE acked
    /\ Goto(w, "commit")
    /\ UNCHANGED <<fsvars, phase, scvars, qvars, item, sver, conn, clock, latest, faults, starts>>

\* ReadResponse returns nil.
ReadAck(w) ==
    /\ pc[w] = "resp"
    /\ net[conn[w]].rsp = "ack"
    /\ ReadReply(conn[w])
    /\ acked' = acked \cup {sver[w]}
    /\ Goto(w, "commit")
    /\ UNCHANGED <<fsvars, phase, scvars, qvars, item, sver, conn, clock, latest, faults, starts>>

\* Any error of transferFile: the file is gone, a write or read fails or runs into
\* its 60 s deadline (also when an ACK is on its way), a NACK.  The connection is
\* closed and RecordFailure called; when it reports a quarantine, MarkCompleted follows.
TransferFail(w) ==
    /\ pc[w] \in Talking
    /\ CloseConn(w)
    /\ RecordFailure(w, IF LastAttempt(w) THEN "mark" ELSE "top")
    /\ IF LastAttempt(w)
       THEN UNCHANGED item /\ sver' = [sver EXCEPT ![w] = 0]
       ELSE DropItem(w)
    /\ UNCHANGED <<sentDir, phase, scvars, clock, latest, acked, starts>>

\* postCommit renames or removes what is under the path now; its error is logged.
PostCommit(w) ==
    LET n == item[w].name IN
    /\ pc[w] = "commit"
    /\ \/ /\ dir[n] # 0
          /\ dir' = [dir EXCEPT ![n] = 0]
          /\ sentDir' = IF AfterAction = "archive" THEN [sentDir EXCEPT ![n] = dir[n]]
                        ELSE sentDir
          /\ UNCHANGED faults
       \/ /\ dir[n] = 0
          /\ UNCHANGED <<dir, sentDir, faults>>
       \/ /\ dir[n] # 0
          /\ Fault
          /\ UNCHANGED <<dir, sentDir>>
    /\ Goto(w, "success")
    /\ UNCHANGED <<net, failedDir, phase, scvars, qvars, item, sver, conn, clock, latest,
                   acked, starts>>

\* queue.RecordSuccess
RecordSuccess(w) ==
    /\ pc[w] = "success"
    /\ attempts' = [attempts EXCEPT ![item[w].name] = 0]
    /\ Goto(w, "mark")
    /\ UNCHANGED <<net, fsvars, phase, scvars, items, inQueue, item, sver, conn, gvars>>

\* scanner.MarkCompleted, once the scanner does not hold its mutex.
MarkCompleted(w) ==
    /\ pc[w] = "mark"
    /\ scPc # "locked"
    /\ states' = [states EXCEPT ![item[w].name] = NoState]
    /\ DropItem(w)
    /\ Goto(w, "top")
    /\ UNCHANGED <<net, fsvars, phase, scPc, todo, seen, stable, ahead, qvars, conn, gvars>>

WorkerStep(w) ==
    \/ LoopTop(w) \/ LoopStop(w)
    \/ PopItem(w) \/ PopWait(w) \/ PopStopped(w)
    \/ \E c \in Conns : DialOk(w, c)
    \/ DialFail(w) \/ BackoffOver(w)
    \/ SendFileHeader(w) \/ SendFileBody(w) \/ ReadAck(w) \/ TransferFail(w)
    \/ PostCommit(w) \/ RecordSuccess(w) \/ MarkCompleted(w)

----------------------------------------------------------------------------
(* The environment: producers, and a receiver that answers or hangs up.    *)

\* A producer renames its hidden temporary file to n.  The rename keeps the file's
\* modification time, so what appears now may be older than what is there.
Produce(n) ==
    /\ clock < MaxVersion
    /\ CASE Producer = "once" -> latest[n] = 0
         [] Producer = "vacant" -> dir[n] = 0
         [] Producer = "anytime" -> TRUE
    /\ clock' = clock + 1
    /\ dir' = [dir EXCEPT ![n] = clock + 1]
    /\ latest' = [latest EXCEPT ![n] = clock + 1]
    /\ UNCHANGED <<net, sentDir, failedDir, phase, scvars, qvars, wvars, acked, faults, starts>>

\* An ACK for a complete file, or a NACK from the header on.
PeerAnswer(c, k) ==
    /\ net[c].srv # "none"
    /\ net[c].rsp = "none"
    /\ IF k = "ack" THEN net[c].req.body = "full" ELSE HasHeader(c)
    /\ net' = [net EXCEPT ![c] = Answered(net[c], k)]
    /\ UNCHANGED <<fsvars, phase, scvars, qvars, wvars, gvars>>

\* The receiver closes one connection, or several at once when it stops or is killed.
PeerHangup(cs) ==
    /\ \A c \in cs : net[c].srv # "none"
    /\ net' = [c \in Conns |-> IF c \in cs THEN SrvGone(net[c]) ELSE net[c]]
    /\ UNCHANGED <<fsvars, phase, scvars, qvars, wvars, gvars>>

EnvStep ==
    \/ \E n \in Names : Produce(n)
    \/ \E c \in Conns, k \in {"ack", "nack"} : PeerAnswer(c, k)
    \/ \E cs \in SUBSET Conns : PeerHangup(cs)

----------------------------------------------------------------------------
StopProgress == PoolStop \/ QueueStop \/ PoolDone

SenderNext ==
    \/ Start \/ ScannerStop \/ StopProgress \/ Crash
    \/ ScannerStep \/ ScanExit
    \/ \E w \in Workers : WorkerStep(w)

Next == SenderNext \/ EnvStep

Spec == Init /\ [][Next]_vars

\* Goroutines that can run do run: file operations end, every read and write on a
\* connection has its deadline (then TransferFail), the ticker and the backoff's
\* timer fire.  A worker that waits for the scanner's mutex gets it, because a Go
\* mutex is handed to a waiter that starves.  Nothing is assumed of producers, of
\* the receiver, or of a stop being asked for.
Fairness ==
    /\ WF_vars(ScannerStep)
    /\ WF_vars(StopProgress)
    /\ \A w \in Workers : WF_vars(WorkerStep(w)) /\ SF_vars(MarkCompleted(w))

FairSpec == Spec /\ Fairness

----------------------------------------------------------------------------
(* Properties.                                                             *)

\* The names waiting in the queue or about to be pushed.
Waiting(s, n) == {i \in 1..Len(s) : s[i].name = n}

\* A file is never in two hands: at most one worker works on a name, and while it
\* does the name is not queued a second time.  The queue forgets a name when it
\* is popped, so this rests on the scanner's isQueued flag, on RecordFailure and on
\* the order of postCommit and MarkCompleted.
SingleOwner ==
    \A n \in Names :
        Cardinality({w \in Workers : pc[w] \in Busy /\ item[w].name = n})
            + Cardinality(Waiting(items, n)) + Cardinality(Waiting(stable, n)) <= 1

\* No version handed over by a producer gets lost: the last one under every name is
\* in the watch directory, in .failed/, or the receiver's ACK for it was read
\* (workerLoop removes a file only in postCommit).
NothingLost ==
    \A n \in Names :
        latest[n] = 0 \/ latest[n] \in acked \cup {dir[n], failedDir[n]}

\* Oldest first: while renames succeed, a worker that takes a file leaves no older one
\* behind, except what another worker is busy with, among the files that are queued or
\* were in the directory listing of the scan that first met the file taken (the sort in
\* scanOnce, the order of its pushes, and the sorts of Push and of the requeueing in
\* RecordFailure).  A file renamed into the directory after that listing may be older
\* and be overtaken: it becomes stable in a later scan.
OldestFirst ==
    [][\A w \in Workers : item[w] # item'[w] /\ pc'[w] \in Busy /\ faults = 0 =>
        \A n \in ahead[item'[w].name] \cup inQueue :
            dir[n] # 0 /\ Info[dir[n]].mtime < item'[w].mtime =>
                \E x \in Workers \ {w} : pc[x] \in Busy /\ item[x].name = n]_vars

\* What .sent/ holds has been delivered: each version there is one the receiver
\* ACKed.
ArchivedIsDelivered ==
    \A n \in Names : sentDir[n] # 0 => sentDir[n] \in acked

\* As long as the sender runs and renames succeed, every file in the watch directory
\* is eventually sent or quarantined.
EveryFileHandled ==
    \A n \in Names : \A v \in 1..MaxVersion :
        (dir[n] = v) ~> (dir[n] # v \/ phase # "run" \/ faults > 0)

\* The shutdown ends: no worker stays behind in Pop, in a transfer or in its backoff.
StopCompletes == (phase \in {"scanstop", "poolstop", "queuestop"}) ~> (phase = "off")
============================================================================
