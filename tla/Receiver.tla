------------------------------ MODULE Receiver ------------------------------
(***************************************************************************)
(* The receiver: receiver/listener.go, receiver/committer.go and           *)
(* receiver/stager.go, on a file system that may lose what was not synced. *)
(*                                                                         *)
(* One handler per accepted connection, many connections at once; the      *)
(* shutdown of Close() runs concurrently with the accept loop and with the *)
(* handlers; the process may be killed and the machine may lose power      *)
(* between any two steps.                                                  *)
(***************************************************************************)
EXTENDS Network, FiniteSets

CONSTANTS
    NoConn,         \* no connection
    Ids,            \* the random names of .staging/<hex>.tmp
    NoId,           \* no staged file
    MaxReqs,        \* bound: requests the peers send
    MaxCrashes      \* bound: kills and power losses

ASSUME ReceiverAssumption ==
    /\ NoConn \notin Conns
    /\ NoId \notin Ids
    /\ MaxReqs \in Nat
    /\ MaxCrashes \in Nat

VARIABLES
    srvState,   \* "down", "up", then the steps of Close(): "stopping", "closing", "draining"
    acceptor,   \* TRUE while acceptLoop runs
    acc,        \* the connection Accept returned and acceptLoop has not registered yet
    conns,      \* Server.conns: what Close() will close
    pc,         \* where the handler of a connection is
    hname,      \* `filename' of handleConnection
    hid,        \* `stagedPath' of handleConnection
    hseq,       \* ghost: the number of the rename the handler made last
    \* the file system
    staged,     \* the files in .staging/
    content,    \* the payload a staged file holds, 0 when it is partial
    synced,     \* staged files whose content was synced
    visible,    \* visible[n]: the file a reader of the incoming directory finds under n
    disk,       \* disk[n]: the entry that the last directory sync made durable
    maybe,      \* maybe[n]: files renamed to n since, any of which a power loss may leave
    \* ghosts and bounds
    commitSeq,  \* renames so far, which numbers them
    acked,      \* acked[n]: the latest rename to n that an ACK was written for
    sent,       \* the <<name, payload>> pairs peers sent
    nreq,       \* requests sent so far
    crashes     \* kills and power losses so far

hvars == <<pc, hname, hid, hseq>>
lvars == <<srvState, acceptor, acc, conns>>
fsvars == <<staged, content, synced, visible, disk, maybe, commitSeq>>
bvars == <<sent, nreq, crashes>>
vars == <<net, hvars, lvars, fsvars, acked, bvars>>

Pcs == {"none", "handshake", "top", "hdr", "stage", "stream",
        "sync", "close", "rename", "dirsync", "ack", "exit"}

\* Where a handler has a request in hand, and where it has a staging file.
InRequest == {"stage", "stream", "sync", "close", "rename", "dirsync", "ack"}
Holding == {"stream", "sync", "close", "rename"}

\* A file under its final name: which rename put it there, the payload it holds,
\* and whether that payload was synced.
Files == [seq : Nat, ver : Nat, synced : BOOLEAN]

NoFile == [seq |-> 0, ver |-> 0, synced |-> TRUE]

\* Every variable has its type, and a handler's locals are set wherever it uses
\* them: past the header it has a name that passed ValidateFilename.
TypeOK ==
    /\ NetTypeOK
    /\ srvState \in {"down", "up", "stopping", "closing", "draining"}
    /\ acceptor \in BOOLEAN
    /\ acc \in Conns \cup {NoConn}
    /\ conns \in SUBSET Conns
    /\ pc \in [Conns -> Pcs]
    /\ hname \in [Conns -> Names \cup {NoName}]
    /\ hid \in [Conns -> Ids \cup {NoId}]
    /\ hseq \in [Conns -> Nat]
    /\ \A c \in Conns :
         /\ pc[c] \in InRequest => hname[c] \in Names
         /\ pc[c] \in Holding => hid[c] \in Ids
    /\ staged \in SUBSET Ids
    /\ content \in [Ids -> Nat]
    /\ synced \in SUBSET Ids
    /\ visible \in [Names -> Files]
    /\ disk \in [Names -> Files]
    /\ maybe \in [Names -> SUBSET Files]
    /\ commitSeq \in Nat
    /\ acked \in [Names -> Nat]
    /\ sent \in SUBSET (Names \X Nat)
    /\ nreq \in Nat
    /\ crashes \in Nat

\* A fresh incoming directory, and no receiver running.
Init ==
    /\ NetInit
    /\ srvState = "down" /\ acceptor = FALSE /\ acc = NoConn /\ conns = {}
    /\ pc = [c \in Conns |-> "none"]
    /\ hname = [c \in Conns |-> NoName]
    /\ hid = [c \in Conns |-> NoId]
    /\ hseq = [c \in Conns |-> 0]
    /\ staged = {} /\ synced = {}
    /\ content = [i \in Ids |-> 0]
    /\ visible = [n \in Names |-> NoFile]
    /\ disk = [n \in Names |-> NoFile]
    /\ maybe = [n \in Names |-> {}]
    /\ commitSeq = 0
    /\ acked = [n \in Names |-> 0]
    /\ sent = {} /\ nreq = 0 /\ crashes = 0

----------------------------------------------------------------------------
(* Server.Start, acceptLoop and Server.Close.                              *)

\* Every .tmp file in .staging/ is removed.
BootCleanup == staged' = {}

\* BootCleanup, then the listener opens and acceptLoop starts.
Start ==
    /\ srvState = "down"
    /\ srvState' = "up" /\ acceptor' = TRUE
    /\ BootCleanup
    /\ UNCHANGED <<net, hvars, acc, conns, content, synced, visible, disk, maybe,
                   commitSeq, acked, bvars>>

\* A second receiver started on the same directory and port, but with another -status
\* address (or its status server's Start fails first): BootCleanup runs before tls.Listen
\* fails on the address, so it empties .staging/ under the running one.
StrayStart ==
    /\ srvState \in {"up", "stopping"}
    /\ staged # {}
    /\ BootCleanup
    /\ UNCHANGED <<net, hvars, lvars, content, synced, visible, disk, maybe,
                   commitSeq, acked, bvars>>

\* listener.Accept returns a connection: the listener is still open.
Accept(c) ==
    /\ acceptor /\ acc = NoConn
    /\ srvState \in {"up", "stopping"}
    /\ net[c].srv = "backlog"
    /\ acc' = c
    /\ net' = [net EXCEPT ![c].srv = "open"]
    /\ UNCHANGED <<hvars, srvState, acceptor, conns, fsvars, acked, bvars>>

\* acceptLoop registers the connection under mu and starts its handler.
Register(c) ==
    /\ acc = c
    /\ acc' = NoConn
    /\ conns' = conns \cup {c}
    /\ pc' = [pc EXCEPT ![c] = "handshake"]
    /\ UNCHANGED <<net, hname, hid, hseq, srvState, acceptor, fsvars, acked, bvars>>

\* Accept fails on the closed listener; stopCh is closed, so acceptLoop returns.
AcceptExit ==
    /\ acceptor /\ acc = NoConn
    /\ srvState \in {"closing", "draining"}
    /\ acceptor' = FALSE
    /\ UNCHANGED <<net, hvars, srvState, acc, conns, fsvars, acked, bvars>>

\* Close(): close(stopCh) ...
CloseStopCh ==
    /\ srvState = "up"
    /\ srvState' = "stopping"
    /\ UNCHANGED <<net, hvars, acceptor, acc, conns, fsvars, acked, bvars>>

\* ... listener.Close(), which resets what nobody accepted ...
CloseListener ==
    /\ srvState = "stopping"
    /\ srvState' = "closing"
    /\ net' = [c \in Conns |-> IF net[c].srv = "backlog" THEN SrvGone(net[c]) ELSE net[c]]
    /\ UNCHANGED <<hvars, acceptor, acc, conns, fsvars, acked, bvars>>

\* ... under mu, Close() of every registered connection ...
CloseConns ==
    /\ srvState = "closing"
    /\ srvState' = "draining"
    /\ net' = [c \in Conns |-> IF c \in conns THEN [net[c] EXCEPT !.srv = "closed"]
                               ELSE net[c]]
    /\ UNCHANGED <<hvars, acceptor, acc, conns, fsvars, acked, bvars>>

\* ... and wg.Wait(): acceptLoop and every handler have returned.
CloseDone ==
    /\ srvState = "draining"
    /\ ~acceptor
    /\ \A c \in Conns : pc[c] = "none"
    /\ srvState' = "down"
    /\ UNCHANGED <<net, hvars, acceptor, acc, conns, fsvars, acked, bvars>>

----------------------------------------------------------------------------
(* handleConnection.                                                       *)

Goto(c, p) == pc' = [pc EXCEPT ![c] = p]

\* Mutant: the reply starts with the byte of an ACK.
WriteNackAsAck(c) ==
    \/ net' = net
    \/ net[c].srv = "open" /\ net' = [net EXCEPT ![c] = Answered(net[c], "ack")]

\* `_ = wire.WriteNack(...)': whether the write succeeds is ignored.
WriteNack(c) ==
    \/ net' = net
    \/ net[c].srv = "open" /\ net' = [net EXCEPT ![c] = Answered(net[c], "nack")]

\* os.Remove(stagedPath), or the rename that takes the file away from there.
Remove(c) ==
    /\ staged' = staged \ {hid[c]}
    /\ content' = [content EXCEPT ![hid[c]] = 0]
    /\ synced' = synced \ {hid[c]}
    /\ hid' = [hid EXCEPT ![c] = NoId]

\* tlsConn.Handshake() succeeds.
HandshakeOk(c) ==
    /\ pc[c] = "handshake"
    /\ net[c].srv = "open"
    /\ Goto(c, "top")
    /\ UNCHANGED <<net, hname, hid, hseq, lvars, fsvars, acked, bvars>>

\* A peer that is not allowed, one that went away, or the 10 s deadline.
HandshakeFail(c) ==
    /\ pc[c] = "handshake"
    /\ Goto(c, "exit")
    /\ UNCHANGED <<net, hname, hid, hseq, lvars, fsvars, acked, bvars>>

\* Mutant: the select on stopCh is missing.
LoopTopBlind(c) ==
    /\ pc[c] = "top"
    /\ Goto(c, "hdr")
    /\ UNCHANGED <<net, hname, hid, hseq, lvars, fsvars, acked, bvars>>

\* The select on stopCh at the top of the connection's loop.
LoopTop(c) ==
    /\ pc[c] = "top"
    /\ Goto(c, IF srvState = "up" THEN "hdr" ELSE "exit")
    /\ UNCHANGED <<net, hname, hid, hseq, lvars, fsvars, acked, bvars>>

\* Mutant: the name is not validated.
ReadHeaderUnchecked(c) ==
    /\ pc[c] = "hdr"
    /\ HasHeader(c)
    /\ hname' = [hname EXCEPT ![c] = net[c].req.name]
    /\ Goto(c, "stage")
    /\ UNCHANGED <<net, hid, hseq, lvars, fsvars, acked, bvars>>

\* ReadRequestHeader returns a valid name and size.
ReadHeader(c) ==
    /\ pc[c] = "hdr"
    /\ HasHeader(c)
    /\ net[c].req.name \in Names
    /\ hname' = [hname EXCEPT ![c] = net[c].req.name]
    /\ Goto(c, "stage")
    /\ UNCHANGED <<net, hid, hseq, lvars, fsvars, acked, bvars>>

\* A malformed header, a rejected name or a payload over maxSize: NACK.
HeaderError(c) ==
    /\ pc[c] = "hdr"
    /\ HasHeader(c)
    /\ net[c].req.name = NoName
    /\ WriteNack(c)
    /\ Goto(c, "exit")
    /\ UNCHANGED <<hname, hid, hseq, lvars, fsvars, acked, bvars>>

\* EOF from the client, or this end was closed by Close(): return without a reply.
HeaderEOF(c) ==
    /\ pc[c] = "hdr"
    /\ ReadEnds(c)
    /\ Goto(c, "exit")
    /\ UNCHANGED <<net, hname, hid, hseq, lvars, fsvars, acked, bvars>>

\* The 2 minute idle deadline.
IdleTimeout(c) ==
    /\ pc[c] = "hdr"
    /\ ~HasHeader(c)
    /\ Goto(c, "exit")
    /\ UNCHANGED <<net, hname, hid, hseq, lvars, fsvars, acked, bvars>>

\* CreateStagedFile under a name no other file or handler has.
StageOk(c) ==
    /\ pc[c] = "stage"
    /\ \E i \in Ids \ (staged \cup {hid[d] : d \in Conns}) :
         /\ staged' = staged \cup {i}
         /\ content' = [content EXCEPT ![i] = 0]
         /\ synced' = synced \ {i}
         /\ hid' = [hid EXCEPT ![c] = i]
    /\ Goto(c, "stream")
    /\ UNCHANGED <<net, hname, hseq, lvars, visible, disk, maybe, commitSeq, acked, bvars>>

StageFail(c) ==
    /\ pc[c] = "stage"
    /\ WriteNack(c)
    /\ Goto(c, "exit")
    /\ UNCHANGED <<hname, hid, hseq, lvars, fsvars, acked, bvars>>

\* ReceiveStream got the announced bytes and a trailer that matches them.
StreamOk(c) ==
    /\ pc[c] = "stream"
    /\ net[c].req.body = "full"
    /\ content' = [content EXCEPT ![hid[c]] = net[c].req.ver]
    /\ net' = [net EXCEPT ![c].req.body = "read"]
    /\ Goto(c, "sync")
    /\ UNCHANGED <<hname, hid, hseq, lvars, staged, synced, visible, disk, maybe,
                   commitSeq, acked, bvars>>

\* Mutant: the staging file is left behind.
StreamFailedLeaks(c) ==
    /\ pc[c] = "stream"
    /\ hid' = [hid EXCEPT ![c] = NoId]
    /\ WriteNack(c)
    /\ Goto(c, "exit")
    /\ UNCHANGED <<hname, hseq, lvars, fsvars, acked, bvars>>

\* What handleConnection does after an error of ReceiveStream.
StreamFailed(c) ==
    /\ pc[c] = "stream"
    /\ Remove(c)
    /\ WriteNack(c)
    /\ Goto(c, "exit")
    /\ UNCHANGED <<hname, hseq, lvars, visible, disk, maybe,
                   commitSeq, acked, bvars>>

\* A short or corrupt payload, or the connection ended before the payload did.
StreamError(c) ==
    /\ net[c].req.body = "bad" \/ ReadEnds(c)
    /\ StreamFailed(c)

\* The 60 s stall deadline, a reset, or a failed write to the staging file.
StreamStall(c) == StreamFailed(c)

----------------------------------------------------------------------------
(* CommitBarrier.  Its error makes handleConnection send a NACK and return.*)

\* Mutant: the loop continues after an error of the barrier.
BarrierFailedContinues(c) == WriteNack(c) /\ Goto(c, "top")

BarrierFailed(c) == WriteNack(c) /\ Goto(c, "exit")

\* Mutant: the staged file is not synced before it is renamed.
SyncSkipped(c) ==
    /\ pc[c] = "sync"
    /\ Goto(c, "close")
    /\ UNCHANGED <<net, hname, hid, hseq, lvars, fsvars, acked, bvars>>

SyncOk(c) ==
    /\ pc[c] = "sync"
    /\ synced' = synced \cup {hid[c]}
    /\ Goto(c, "close")
    /\ UNCHANGED <<net, hname, hid, hseq, lvars, staged, content, visible, disk, maybe,
                   commitSeq, acked, bvars>>

SyncFail(c) ==
    /\ pc[c] = "sync"
    /\ Remove(c)
    /\ BarrierFailed(c)
    /\ UNCHANGED <<hname, hseq, lvars, visible, disk, maybe,
                   commitSeq, acked, bvars>>

CloseFileOk(c) ==
    /\ pc[c] = "close"
    /\ Goto(c, "rename")
    /\ UNCHANGED <<net, hname, hid, hseq, lvars, fsvars, acked, bvars>>

CloseFileFail(c) ==
    /\ pc[c] = "close"
    /\ Remove(c)
    /\ BarrierFailed(c)
    /\ UNCHANGED <<hname, hseq, lvars, visible, disk, maybe,
                   commitSeq, acked, bvars>>

\* The file that renaming a staged file puts under its final name.
Renamed(c) ==
    [seq |-> commitSeq + 1, ver |-> content[hid[c]], synced |-> hid[c] \in synced]

\* os.Rename replaces whatever is at the target; durable only after a directory sync.
RenameOk(c) ==
    /\ pc[c] = "rename"
    /\ hid[c] \in staged
    /\ visible' = [visible EXCEPT ![hname[c]] = Renamed(c)]
    /\ maybe' = [maybe EXCEPT ![hname[c]] = @ \cup {Renamed(c)}]
    /\ commitSeq' = commitSeq + 1
    /\ hseq' = [hseq EXCEPT ![c] = commitSeq + 1]
    /\ Remove(c)
    /\ Goto(c, "dirsync")
    /\ UNCHANGED <<net, hname, lvars, disk, acked, bvars>>

\* Also what happens when the staged file is gone.
RenameFail(c) ==
    /\ pc[c] = "rename"
    /\ Remove(c)
    /\ BarrierFailed(c)
    /\ UNCHANGED <<hname, hseq, lvars, visible, disk, maybe,
                   commitSeq, acked, bvars>>

\* Mutant: the ACK goes out without a directory sync.
DirSyncSkipped(c) ==
    /\ pc[c] = "dirsync"
    /\ Goto(c, "ack")
    /\ UNCHANGED <<net, hname, hid, hseq, lvars, fsvars, acked, bvars>>

\* dirFile.Sync() makes every rename into the directory durable, not only this one.
DirSyncOk(c) ==
    /\ pc[c] = "dirsync"
    /\ disk' = visible
    /\ maybe' = [n \in Names |-> {}]
    /\ Goto(c, "ack")
    /\ UNCHANGED <<net, hname, hid, hseq, lvars, staged, content, synced, visible,
                   commitSeq, acked, bvars>>

\* Mutant: the new file is removed again, and with it what the name held before.
DirSyncFailRemoves(c) ==
    /\ pc[c] = "dirsync"
    /\ BarrierFailed(c)
    /\ visible' = [visible EXCEPT ![hname[c]] = NoFile]
    /\ UNCHANGED <<hname, hid, hseq, lvars, staged, content, synced, disk, maybe,
                   commitSeq, acked, bvars>>

\* The file stays visible although the sender gets a NACK.
DirSyncFail(c) ==
    /\ pc[c] = "dirsync"
    /\ BarrierFailed(c)
    /\ UNCHANGED <<hname, hid, hseq, lvars, fsvars, acked, bvars>>

MaxOf(a, b) == IF a > b THEN a ELSE b

\* WriteAck, then the next turn of the loop, which has its own `filename'.
AckOk(c) ==
    /\ pc[c] = "ack"
    /\ net[c].srv = "open"
    /\ net' = [net EXCEPT ![c] = Answered(net[c], "ack")]
    /\ acked' = [acked EXCEPT ![hname[c]] = MaxOf(@, hseq[c])]
    /\ Goto(c, "top")
    /\ hname' = [hname EXCEPT ![c] = NoName]
    /\ hseq' = [hseq EXCEPT ![c] = 0]
    /\ UNCHANGED <<hid, lvars, fsvars, bvars>>

\* The ACK cannot be written although the file is committed.
AckFail(c) ==
    /\ pc[c] = "ack"
    /\ BarrierFailed(c)
    /\ UNCHANGED <<hname, hid, hseq, lvars, fsvars, acked, bvars>>

\* The deferred function of the handler's goroutine.
HandlerExit(c) ==
    /\ pc[c] = "exit"
    /\ conns' = conns \ {c}
    /\ net' = [net EXCEPT ![c] = SrvGone(net[c])]
    /\ Goto(c, "none")
    /\ hname' = [hname EXCEPT ![c] = NoName]
    /\ hseq' = [hseq EXCEPT ![c] = 0]
    /\ UNCHANGED <<hid, srvState, acceptor, acc, fsvars, acked, bvars>>

----------------------------------------------------------------------------
(* Crashes.                                                                *)

\* The process is gone: its sockets close, its memory is lost.
ProcessDies ==
    /\ srvState # "down"
    /\ crashes < MaxCrashes
    /\ crashes' = crashes + 1
    /\ srvState' = "down" /\ acceptor' = FALSE /\ acc' = NoConn /\ conns' = {}
    /\ pc' = [c \in Conns |-> "none"]
    /\ hname' = [c \in Conns |-> NoName]
    /\ hid' = [c \in Conns |-> NoId]
    /\ hseq' = [c \in Conns |-> 0]
    /\ net' = [c \in Conns |-> SrvGone(net[c])]
    /\ UNCHANGED <<content, synced, commitSeq, acked, sent, nreq>>

\* kill -9: the file system keeps everything, staged files included.
Kill ==
    /\ ProcessDies
    /\ UNCHANGED <<staged, visible, disk, maybe>>

\* What a power loss leaves of file f: unsynced content is lost.
Survivor(f) == IF f.synced THEN f ELSE [f EXCEPT !.ver = 0]

\* The files one of which is found under n after a power loss.
CrashFiles(n) == {Survivor(f) : f \in {disk[n]} \cup maybe[n]}

PowerLoss ==
    /\ ProcessDies
    /\ visible' \in {v \in [Names -> UNION {CrashFiles(n) : n \in Names}] :
                        \A n \in Names : v[n] \in CrashFiles(n)}
    /\ disk' = visible'
    /\ maybe' = [n \in Names |-> {}]
    /\ staged' \in SUBSET staged

----------------------------------------------------------------------------
(* The peers: any number of senders, each one request at a time.           *)

PeerDial(c) ==
    /\ srvState \in {"up", "stopping"}
    /\ Dial(c)
    /\ UNCHANGED <<hvars, lvars, fsvars, acked, bvars>>

PeerSend(c, n) ==
    /\ nreq < MaxReqs
    /\ nreq' = nreq + 1
    /\ SendHeader(c, n, nreq + 1)
    /\ sent' = IF n = NoName THEN sent ELSE sent \cup {<<n, nreq + 1>>}
    /\ UNCHANGED <<hvars, lvars, fsvars, acked, crashes>>

PeerBody(c, b) ==
    /\ SendBody(c, b)
    /\ UNCHANGED <<hvars, lvars, fsvars, acked, bvars>>

PeerRead(c) ==
    /\ ReadReply(c)
    /\ UNCHANGED <<hvars, lvars, fsvars, acked, bvars>>

PeerClose(c) ==
    /\ CloseClient(c)
    /\ UNCHANGED <<hvars, lvars, fsvars, acked, bvars>>

PeerNext ==
    \E c \in Conns :
        \/ PeerDial(c)
        \/ \E n \in Names \cup {NoName} : PeerSend(c, n)
        \/ \E b \in {"full", "bad"} : PeerBody(c, b)
        \/ PeerRead(c)
        \/ PeerClose(c)

----------------------------------------------------------------------------
\* What a handler does without a deadline other than the handshake's running out.
HandlerProgress(c) ==
    \/ HandshakeOk(c) \/ HandshakeFail(c)
    \/ LoopTop(c)
    \/ ReadHeader(c) \/ HeaderError(c) \/ HeaderEOF(c)
    \/ StageOk(c) \/ StageFail(c)
    \/ StreamOk(c) \/ StreamError(c)
    \/ SyncOk(c) \/ SyncFail(c)
    \/ CloseFileOk(c) \/ CloseFileFail(c)
    \/ RenameOk(c) \/ RenameFail(c)
    \/ DirSyncOk(c) \/ DirSyncFail(c)
    \/ AckOk(c) \/ AckFail(c)
    \/ HandlerExit(c)

CloseProgress == CloseListener \/ CloseConns \/ CloseDone

ServerNext ==
    \/ Start \/ StrayStart
    \/ AcceptExit
    \/ CloseStopCh \/ CloseProgress
    \/ Kill \/ PowerLoss
    \/ \E c \in Conns :
         \/ Accept(c) \/ Register(c)
         \/ HandlerProgress(c)
         \/ IdleTimeout(c) \/ StreamStall(c)

Next == ServerNext \/ PeerNext

Spec == Init /\ [][Next]_vars

\* The Go scheduler runs every goroutine that can run, and every blocking call is
\* bounded: file operations end, the handshake has its 10 s deadline.  Accept is
\* strongly fair because the kernel hands out the backlog in order.  The idle and
\* stall deadlines get no fairness, nor do Start, Close, the peers and crashes.
Fairness ==
    /\ WF_vars(AcceptExit)
    /\ WF_vars(CloseProgress)
    /\ \A c \in Conns :
         /\ SF_vars(Accept(c))
         /\ WF_vars(Register(c))
         /\ WF_vars(HandlerProgress(c))

FairSpec == Spec /\ Fairness

----------------------------------------------------------------------------
(* Properties.                                                             *)

\* The durability barrier: once an ACK for a file name was written, no power loss
\* at any later moment can bring back a state of that name older than the ACKed
\* rename (committer.go sends 0x00 only after the directory sync), whatever
\* other handlers commit under the same name meanwhile.
AckedDurable ==
    \A n \in Names : \A f \in CrashFiles(n) : f.seq >= acked[n]

\* What is, or after a power loss may be, under a final name is the complete
\* payload some peer sent for that very name: never a partial, a corrupt or an
\* unsynced file, and never the payload of another handler (rename only follows
\* the checked trailer and the file's sync).
CommittedIntact ==
    \A n \in Names :
        \A f \in CrashFiles(n) \cup {visible[n]} :
            f.seq > 0 => <<n, f.ver>> \in sent

\* While the receiver runs, every file in .staging/ is being written by exactly
\* one live handler: each error path removes its file, and the files a killed
\* process left were removed by BootCleanup.
StagedOwned ==
    srvState # "down" =>
        \A i \in staged : \E c \in Conns :
            /\ hid[c] = i
            /\ pc[c] \in Holding
            /\ \A d \in Conns \ {c} : hid[d] # i

\* The inbox a reader of the incoming directory and the senders see.
Inbox == INSTANCE DurableInbox WITH
    offered <- sent, count <- commitSeq, confirmed <- acked,
    file <- [n \in Names |-> [seq |-> visible[n].seq, ver |-> visible[n].ver]]

\* The whole of the receiver, with its staging files, barrier, shutdown and crashes,
\* implements the inbox of DurableInbox: a rename delivers, WriteAck confirms, only
\* a power loss takes a delivery back, and every other step changes nothing a reader
\* or a sender relies on.
ImplementsInbox == Inbox!Spec

\* Close() returns, without waiting for an idle or stall deadline, also when the
\* accept loop registers a connection after Close() has closed the registered
\* ones: that handler meets the closed stopCh at the top of its loop.
CloseCompletes ==
    (srvState \in {"stopping", "closing", "draining"}) ~> (srvState = "down")

\* A client that has sent all of a file and waits gets an answer or sees its
\* connection closed, without any deadline of the receiver running out.
RequestAnswered ==
    \A c \in Conns :
        (net[c].cli = "open" /\ HasBody(c) /\ srvState = "up")
            ~> (\/ net[c].rsp # "none" \/ net[c].srv = "none" \/ net[c].cli = "closed")
============================================================================
