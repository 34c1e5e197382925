---------------------------- MODULE SystemProofs ----------------------------
(***************************************************************************)
(* Sender and receiver on the same connections: the sender meets in this   *)
(* receiver only what Sender allows its peer, and no file is lost between  *)
(* the two disks.  For every set of names, workers, connections and        *)
(* staging names, any number of attempts, faults, crashes and restarts.    *)
(*                                                                         *)
(* The invariants of SenderProofs and of ReceiverProofs are taken over by  *)
(* INSTANCE; what is new here is how the two ends of a connection agree.   *)
(***************************************************************************)
EXTENDS System, TLAPS

SP == INSTANCE SenderProofs WITH pc <- wpc, acked <- readAcks
RP == INSTANCE ReceiverProofs WITH pc <- hpc, acked <- ackedSeq, MaxReqs <- 0, nreq <- 0

\* A connection that neither end has any more is a free slot again.
GoneInv ==
    \A c \in Conns : net[c].cli = "closed" /\ net[c].srv = "none" => net[c] = SP!IdleLink

\* What holds of every system, whatever its producers do.
SysInv == RP!IInv /\ SP!TypeOK /\ SP!PushInv /\ GoneInv

----------------------------------------------------------------------------
(* With producers that use every name once.                                *)

\* Versions are numbered as they are made: no two names share one.
VersionInv ==
    /\ \A n \in Names : latest[n] <= clock
    /\ \A v \in readAcks : v <= clock
    /\ \A m, n \in Names : latest[m] = latest[n] => m = n \/ latest[m] = 0

\* What was ever sent under a name is the one version produced under it.
SentInv == \A n \in Names, v \in Nat : <<n, v>> \in sent => v # 0 /\ v = latest[n]

\* A connection belongs to one worker, and the request on it is for the file that
\* worker is sending.
TalkInv ==
    /\ \A w \in Workers : conn[w] \in Conns => net[conn[w]].cli = "open"
    /\ \A v, w \in Workers : conn[v] = conn[w] => v = w \/ conn[v] = NoConn
    /\ \A w \in Workers : wpc[w] \in {"stream", "resp"}
            => net[conn[w]].req.name = item[w].name

\* An ACK on its way is for the name of the request it is a reply to.
ReplyInv ==
    \A c \in Conns : net[c].rsp = "ack"
        => net[c].req.name \in Names /\ ackedSeq[net[c].req.name] > 0

\* A version whose ACK was read is one the receiver has made durable.
ReadInv == \A n \in Names : latest[n] # 0 /\ latest[n] \in readAcks => ackedSeq[n] > 0

OnceSysInv ==
    /\ SP!OnceInv /\ VersionInv /\ SentInv /\ TalkInv /\ ReplyInv /\ ReadInv
----------------------------------------------------------------------------
\* System and the proof modules speak of the same sender ...
LEMMA SameSender ==
    /\ S!SenderNext <=> SP!SenderNext
    /\ \A n \in Names : S!Produce(n) <=> SP!Produce(n)
    /\ S!Init <=> SP!Init
BY DEF
        S!SenderNext, SP!SenderNext, S!Start, SP!Start, S!ScannerStop,
        SP!ScannerStop, S!StopProgress, SP!StopProgress, S!PoolStop, SP!PoolStop,
        S!QueueStop, SP!QueueStop, S!PoolDone, SP!PoolDone, S!ProcessEnds,
        SP!ProcessEnds, S!Crash, SP!Crash, S!ScannerStep, SP!ScannerStep,
        S!ScanExit, SP!ScanExit, S!ScanRead, SP!ScanRead, S!ScanLock, SP!ScanLock,
        S!ScanUnlock, SP!ScanUnlock, S!ScanPush, SP!ScanPush, S!ScanEntry,
        SP!ScanEntry, S!WorkerStep, SP!WorkerStep, S!LoopTop, SP!LoopTop,
        S!LoopStop, SP!LoopStop, S!Leave, SP!Leave, S!PopItem, SP!PopItem,
        S!PopWait, SP!PopWait, S!PopStopped, SP!PopStopped, S!DialOk, SP!DialOk,
        S!DialFail, SP!DialFail, S!BackoffOver, SP!BackoffOver, S!SendFileHeader,
        SP!SendFileHeader, S!SendFileBody, SP!SendFileBody, S!ReadAck, SP!ReadAck,
        S!TransferFail, SP!TransferFail, S!PostCommit, SP!PostCommit,
        S!RecordSuccess, SP!RecordSuccess, S!MarkCompleted, SP!MarkCompleted,
        S!Produce, SP!Produce, S!Goto, SP!Goto, S!CloseConn, SP!CloseConn,
        S!DropItem, SP!DropItem, S!Push, SP!Push, S!InsertAt, SP!InsertAt,
        S!InsertSorted, SP!InsertSorted, S!Signal, SP!Signal, S!Fault, SP!Fault,
        S!Quarantine, SP!Quarantine, S!LastAttempt, SP!LastAttempt, S!RecordFailure,
        SP!RecordFailure, S!Rescanned, S!Unchanged, SP!Rescanned, SP!Unchanged, S!BecomesStable,
        SP!BecomesStable, S!stopChClosed, SP!stopChClosed, S!queueStopped,
        SP!queueStopped, S!NoItem, SP!NoItem, S!NoState, SP!NoState, S!Talking,
        SP!Talking, S!fsvars, SP!fsvars, S!scvars, SP!scvars, S!qvars, SP!qvars,
        S!wvars, SP!wvars, S!gvars, SP!gvars, S!Dial, SP!Dial, S!SendHeader,
        SP!SendHeader, S!SendBody, SP!SendBody, S!ReadReply, SP!ReadReply,
        S!CliGone, SP!CliGone, S!CloseClient, SP!CloseClient, S!IdleLink,
        SP!IdleLink, S!NoReq, SP!NoReq,
        S!Init, SP!Init, S!NetInit, SP!NetInit

\* ... and of the same receiver.
LEMMA SameReceiver ==
    /\ R!ServerNext <=> RP!ServerNext
    /\ R!Init <=> RP!Init
BY DEF
        R!ServerNext, RP!ServerNext, R!Start, RP!Start, R!BootCleanup,
        RP!BootCleanup, R!StrayStart, RP!StrayStart, R!AcceptExit, RP!AcceptExit,
        R!CloseStopCh, RP!CloseStopCh, R!CloseProgress, RP!CloseProgress,
        R!CloseListener, RP!CloseListener, R!CloseConns, RP!CloseConns, R!CloseDone,
        RP!CloseDone, R!Kill, RP!Kill, R!PowerLoss, RP!PowerLoss, R!ProcessDies,
        RP!ProcessDies, R!Survivor, RP!Survivor, R!CrashFiles, RP!CrashFiles,
        R!Accept, RP!Accept, R!Register, RP!Register, R!HandlerProgress,
        RP!HandlerProgress, R!HandshakeOk, RP!HandshakeOk, R!HandshakeFail,
        RP!HandshakeFail, R!LoopTop, RP!LoopTop, R!ReadHeader, RP!ReadHeader,
        R!HeaderError, RP!HeaderError, R!HeaderEOF, RP!HeaderEOF, R!IdleTimeout,
        RP!IdleTimeout, R!StageOk, RP!StageOk, R!StageFail, RP!StageFail,
        R!StreamOk, RP!StreamOk, R!StreamError, RP!StreamError, R!StreamStall,
        RP!StreamStall, R!StreamFailed, RP!StreamFailed, R!SyncOk, RP!SyncOk,
        R!SyncFail, RP!SyncFail, R!CloseFileOk, RP!CloseFileOk, R!CloseFileFail,
        RP!CloseFileFail, R!RenameOk, RP!RenameOk, R!RenameFail, RP!RenameFail,
        R!Renamed, RP!Renamed, R!DirSyncOk, RP!DirSyncOk, R!DirSyncFail,
        RP!DirSyncFail, R!AckOk, RP!AckOk, R!AckFail, RP!AckFail, R!HandlerExit,
        RP!HandlerExit, R!BarrierFailed, RP!BarrierFailed, R!WriteNack,
        RP!WriteNack, R!Remove, RP!Remove, R!Goto, RP!Goto, R!MaxOf, RP!MaxOf,
        R!hvars, RP!hvars, R!lvars, RP!lvars, R!fsvars, RP!fsvars, R!bvars,
        RP!bvars, R!HasHeader, RP!HasHeader, R!ReadEnds, RP!ReadEnds, R!SrvGone,
        RP!SrvGone, R!Answered, RP!Answered, R!IdleLink, RP!IdleLink, R!NoReq,
        RP!NoReq,
        R!Init, RP!Init, R!NetInit, RP!NetInit, R!NoFile, RP!NoFile

----------------------------------------------------------------------------
(* What the sender's steps are to the receiver.                            *)

\* A worker writes the header of version v of n.
Header(c, n, v) ==
    /\ SP!SendHeader(c, n, v)
    /\ sent' = sent \cup {<<n, v>>}
    /\ UNCHANGED rvars

\* The sender's process dies with all its connections.
ClientDies ==
    /\ net' = [c \in Conns |-> IF net[c].cli = "open" THEN SP!CliGone(net[c]) ELSE net[c]]
    /\ UNCHANGED <<rvars, sent>>

ClientStep ==
    \/ \E c \in Conns :
         \/ RP!PeerDial(c) \/ RP!PeerBody(c, "full") \/ RP!PeerRead(c) \/ RP!PeerClose(c)
         \/ \E n \in Names, v \in Nat : Header(c, n, v)
    \/ ClientDies
    \/ UNCHANGED <<net, rvars, sent>>

\* Every link is a link to both ends.
LEMMA LinkTypes ==
    ASSUME SP!TypeOK PROVE net \in [Conns -> SP!Links] /\ SP!NetTypeOK
BY DEF SP!TypeOK, SP!NetTypeOK

\* The header that a step writes is the one that goes into sent.
LEMMA HeadedNone ==
    ASSUME SenderStep, \A c \in Conns : net[c].req.body = "none" => net'[c].req.body # "pending"
    PROVE  sent' = sent
BY DEF SenderStep, Headed

LEMMA WriteHeader ==
    ASSUME SP!TypeOK, SenderStep, NEW w \in Workers, SP!SendFileHeader(w)
    PROVE  /\ conn[w] \in Conns /\ item[w].name \in Names
           /\ dir[item[w].name] \in Nat \ {0}
           /\ Header(conn[w], item[w].name, dir[item[w].name])
<1>. DEFINE c == conn[w]
            n == item[w].name
            v == dir[item[w].name]
<1>1. c \in Conns /\ n \in Names /\ v \in Nat /\ v # 0 /\ SP!SendHeader(c, n, v)
    BY DEF SP!SendFileHeader, SP!TypeOK, SP!Talking, SP!Busy, SP!Items
<1>. HIDE DEF c, n, v
<1>2. /\ net[c].req.body = "none"
      /\ net'[c].req = [name |-> n, ver |-> v, body |-> "pending"]
      /\ \A d \in Conns \ {c} : net'[d] = net[d]
    BY <1>1, LinkTypes DEF SP!SendHeader, SP!Links
<1>3. Headed = {c}
    BY <1>1, <1>2 DEF Headed
<1>4. {<<net'[d].req.name, net'[d].req.ver>> : d \in Headed} = {<<n, v>>}
    BY <1>2, <1>3
<1>. QED BY <1>1, <1>4 DEF Header, SenderStep, c, n, v

LEMMA CloseStep ==
    ASSUME SP!TypeOK, SenderStep, NEW w \in Workers, SP!CloseConn(w)
    PROVE  ClientStep
<1>1. CASE conn[w] = NoConn
  <2>1. net' = net
    BY <1>1 DEF SP!CloseConn
  <2>2. sent' = sent
    BY <2>1, HeadedNone
  <2>. QED BY <2>1, <2>2 DEF ClientStep, SenderStep
<1>2. CASE conn[w] # NoConn
  <2>1. conn[w] \in Conns /\ SP!CloseClient(conn[w])
    BY <1>2 DEF SP!CloseConn, SP!TypeOK
  <2>2. \A c \in Conns : net'[c] = net[c] \/ net'[c] = SP!CliGone(net[c])
    BY <2>1, LinkTypes DEF SP!CloseClient
  <2>3. \A c \in Conns : net[c].req.body = "none" => SP!CliGone(net[c]).req.body # "pending"
    BY LinkTypes DEF SP!CliGone, SP!Links, SP!IdleLink, SP!NoReq
  <2>4. sent' = sent
    BY <2>2, <2>3, HeadedNone
  <2>5. RP!PeerClose(conn[w])
    BY <2>1, <2>4 DEF SP!CloseClient, RP!PeerClose, RP!CloseClient, SenderStep, rvars,
        RP!hvars, RP!lvars, RP!fsvars, RP!bvars, SP!CliGone, RP!CliGone, SP!IdleLink,
        RP!IdleLink, SP!NoReq, RP!NoReq
  <2>. QED BY <2>1, <2>5 DEF ClientStep
<1>. QED BY <1>1, <1>2

\* A step of the sender does to the connections what its clients do.
LEMMA SenderIsClient ==
    ASSUME SP!TypeOK, SenderStep PROVE ClientStep
<1>. SP!SenderNext
    BY SameSender DEF SenderStep
<1>1. CASE SP!Crash
  <2>1. net' = [c \in Conns |-> IF net[c].cli = "open" THEN SP!CliGone(net[c]) ELSE net[c]]
    BY <1>1 DEF SP!Crash
  <2>2. \A c \in Conns : net[c].req.body = "none" => SP!CliGone(net[c]).req.body # "pending"
    BY LinkTypes DEF SP!CliGone, SP!Links, SP!IdleLink, SP!NoReq
  <2>3. sent' = sent
    BY <2>1, <2>2, HeadedNone
  <2>. QED BY <2>1, <2>3 DEF ClientStep, ClientDies, SenderStep
<1>2. ASSUME NEW w \in Workers, SP!CloseConn(w) PROVE ClientStep
    BY <1>2, CloseStep
<1>3. ASSUME NEW w \in Workers, NEW c \in Conns, SP!DialOk(w, c) PROVE ClientStep
  <2>1. SP!Dial(c)
    BY <1>3 DEF SP!DialOk
  <2>2. /\ net[c] = SP!IdleLink /\ net'[c] # SP!IdleLink /\ net'[c].req.body = "none"
        /\ \A d \in Conns \ {c} : net'[d] = net[d]
    BY <2>1, LinkTypes DEF SP!Dial, SP!IdleLink, SP!NoReq
  <2>3. Dialled # {}
    BY <2>2 DEF Dialled, S!IdleLink, SP!IdleLink, S!NoReq, SP!NoReq
  <2>4. sent' = sent
    BY <2>2, HeadedNone
  <2>5. RP!PeerDial(c)
    BY <2>1, <2>3, <2>4 DEF RP!PeerDial, RP!Dial, SP!Dial, SP!IdleLink, RP!IdleLink, SP!NoReq,
        RP!NoReq, SenderStep, rvars, RP!hvars, RP!lvars, RP!fsvars, RP!bvars
  <2>. QED BY <2>5 DEF ClientStep
<1>4. ASSUME NEW w \in Workers, SP!SendFileHeader(w) PROVE ClientStep
    BY <1>4, WriteHeader DEF ClientStep
<1>5. ASSUME NEW w \in Workers, SP!SendFileBody(w) PROVE ClientStep
  <2>1. conn[w] \in Conns /\ SP!SendBody(conn[w], "full")
    BY <1>5 DEF SP!SendFileBody, SP!TypeOK, SP!Talking
  <2>2. /\ net'[conn[w]].req.body = "full"
        /\ \A d \in Conns \ {conn[w]} : net'[d] = net[d]
    BY <2>1, LinkTypes DEF SP!SendBody, SP!Links, SP!Requests
  <2>3. sent' = sent
    BY <2>2, HeadedNone
  <2>4. RP!PeerBody(conn[w], "full")
    BY <2>1, <2>3 DEF RP!PeerBody, RP!SendBody, SP!SendBody, SenderStep, rvars, RP!hvars,
        RP!lvars, RP!fsvars, RP!bvars
  <2>. QED BY <2>1, <2>4 DEF ClientStep
<1>6. ASSUME NEW w \in Workers, SP!ReadAck(w) PROVE ClientStep
  <2>1. conn[w] \in Conns /\ SP!ReadReply(conn[w])
    BY <1>6 DEF SP!ReadAck, SP!TypeOK, SP!Talking
  <2>2. /\ net'[conn[w]].req.body = "none"
        /\ \A d \in Conns \ {conn[w]} : net'[d] = net[d]
    BY <2>1, LinkTypes DEF SP!ReadReply, SP!Links, SP!NoReq
  <2>3. sent' = sent
    BY <2>2, HeadedNone
  <2>4. RP!PeerRead(conn[w])
    BY <2>1, <2>3 DEF RP!PeerRead, RP!ReadReply, SP!ReadReply, SP!NoReq, RP!NoReq, SenderStep,
        rvars, RP!hvars, RP!lvars, RP!fsvars, RP!bvars
  <2>. QED BY <2>1, <2>4 DEF ClientStep
<1>7. CASE UNCHANGED net
  <2>1. sent' = sent
    BY <1>7, HeadedNone
  <2>. QED BY <1>7, <2>1 DEF ClientStep, SenderStep
<1>. QED
    BY <1>1, <1>2, <1>3, <1>4, <1>5, <1>6, <1>7
       DEF SP!SenderNext, SP!StopProgress, SP!ScannerStep, SP!WorkerStep, SP!Start,
        SP!ScannerStop, SP!PoolStop, SP!QueueStop, SP!PoolDone, SP!ScanRead, SP!ScanLock,
        SP!ScanUnlock, SP!ScanPush, SP!ScanEntry, SP!ScanExit, SP!LoopTop, SP!LoopStop,
        SP!Leave, SP!PopItem, SP!PopWait, SP!PopStopped, SP!DialFail, SP!BackoffOver,
        SP!TransferFail, SP!PostCommit, SP!RecordSuccess, SP!MarkCompleted

\* What the receiver relies on survives a change of its connections in which a link
\* with a handler or in the backlog keeps its request, or gets one while it has none.
LEMMA LinkFrame ==
    ASSUME RP!IInv, net' \in [Conns -> RP!Links], UNCHANGED rvars,
           sent \subseteq sent', sent' \in SUBSET (Names \X Nat),
           \A c \in Conns :
              /\ net'[c].srv = net[c].srv
              /\ net'[c].rsp \in {net[c].rsp, "none"}
              /\ \/ net'[c].req = net[c].req
                 \/ net[c].srv = "none" /\ net'[c].req.body = "none"
                 \/ /\ net[c].req.body = "none" /\ net[c].rsp = "none"
                    /\ net'[c].req.name \in Names
                    /\ <<net'[c].req.name, net'[c].req.ver>> \in sent'
    PROVE  RP!IInv'
<1>. USE DEF rvars
<1>1. RP!TypeOK'
    BY DEF RP!IInv, RP!TypeOK, RP!NetTypeOK
<1>2. RP!LinkInv'
    BY DEF RP!IInv, RP!LinkInv
<1>3. RP!StageInv'
    BY DEF RP!IInv, RP!StageInv
<1>4. RP!BufferInv'
  <2>. RP!BufferInv /\ RP!LinkInv
    BY DEF RP!IInv
  <2>1. ASSUME NEW c \in Conns, net'[c].req.body # "none", net'[c].req.name \in Names
        PROVE  <<net'[c].req.name, net'[c].req.ver>> \in sent'
    BY <2>1 DEF RP!BufferInv
  <2>2. ASSUME NEW c \in Conns, net'[c].srv = "backlog" \/ acc' = c PROVE net'[c].rsp = "none"
    BY <2>2 DEF RP!BufferInv
  <2>3. ASSUME NEW c \in Conns, hpc'[c] \in {"handshake", "top", "hdr"}, RP!HasHeader(c)'
        PROVE  net'[c].rsp = "none"
    <3>1. CASE net'[c].req = net[c].req
      BY <2>3, <3>1 DEF RP!BufferInv, RP!HasHeader
    <3>2. CASE net'[c].req # net[c].req
      BY <2>3, <3>2 DEF RP!LinkInv
    <3>. QED BY <3>1, <3>2
  <2>4. ASSUME NEW c \in Conns, hpc[c] \in RP!InRequest
        PROVE  net'[c].req = net[c].req /\ net'[c].rsp = "none"
    <3>1. net[c].req.body # "none" /\ net[c].rsp = "none" /\ net[c].srv # "none"
      BY <2>4 DEF RP!BufferInv, RP!LinkInv, RP!HasHeader, RP!InRequest
    <3>. QED BY <3>1
  <2>5. ASSUME NEW c \in Conns, hpc'[c] \in {"stage", "stream"}
        PROVE  RP!HasHeader(c)' /\ net'[c].rsp = "none" /\ net'[c].req.name = hname'[c]
    BY <2>4, <2>5 DEF RP!BufferInv, RP!HasHeader, RP!InRequest
  <2>6. ASSUME NEW c \in Conns, hpc'[c] \in {"sync", "close", "rename", "dirsync", "ack"}
        PROVE  net'[c].req.body = "read" /\ net'[c].rsp = "none" /\ net'[c].req.name = hname'[c]
    BY <2>4, <2>6 DEF RP!BufferInv, RP!InRequest
  <2>. QED BY <2>1, <2>2, <2>3, <2>5, <2>6 DEF RP!BufferInv
<1>5. RP!DurInv'
    BY DEF RP!IInv, RP!DurInv
<1>6. RP!IntactInv'
    BY DEF RP!IInv, RP!IntactInv
<1>. QED BY <1>1, <1>2, <1>3, <1>4, <1>5, <1>6 DEF RP!IInv

\* The sender's steps keep what the receiver relies on.
LEMMA ClientInv ==
    ASSUME RP!IInv, ClientStep PROVE RP!IInv'
<1>. net \in [Conns -> RP!Links] /\ sent \in SUBSET (Names \X Nat)
    BY DEF RP!IInv, RP!TypeOK, RP!NetTypeOK
<1>1. ASSUME NEW c \in Conns,
             RP!PeerDial(c) \/ RP!PeerBody(c, "full") \/ RP!PeerRead(c) \/ RP!PeerClose(c)
      PROVE  RP!IInv'
  <2>1. RP!Next
    BY <1>1 DEF RP!Next, RP!PeerNext
  <2>. QED BY <2>1, RP!InvStep, SystemAssumption
<1>2. ASSUME NEW c \in Conns, NEW n \in Names, NEW v \in Nat, Header(c, n, v)
      PROVE  RP!IInv'
  <2>1. /\ net[c].req.body = "none" /\ net[c].rsp = "none"
        /\ net' = [net EXCEPT ![c].req = [name |-> n, ver |-> v, body |-> "pending"]]
        /\ sent' = sent \cup {<<n, v>>} /\ UNCHANGED rvars
    BY <1>2 DEF Header, SP!SendHeader
  <2>2. net' \in [Conns -> RP!Links]
    BY <2>1 DEF RP!Links, RP!Requests
  <2>3. /\ net'[c].srv = net[c].srv /\ net'[c].rsp = net[c].rsp
        /\ net'[c].req = [name |-> n, ver |-> v, body |-> "pending"]
        /\ \A d \in Conns \ {c} : net'[d] = net[d]
    BY <2>1 DEF RP!Links
  <2>. QED BY <2>1, <2>2, <2>3, LinkFrame
<1>3. CASE ClientDies
  <2>1. ASSUME NEW c \in Conns
        PROVE  /\ SP!CliGone(net[c]) \in RP!Links
               /\ SP!CliGone(net[c]).srv = net[c].srv
               /\ SP!CliGone(net[c]).rsp = "none"
               /\ \/ SP!CliGone(net[c]).req = net[c].req
                  \/ net[c].srv = "none" /\ SP!CliGone(net[c]).req.body = "none"
    BY DEF SP!CliGone, SP!IdleLink, SP!NoReq, RP!Links, RP!Requests, RP!Replies
  <2>2. /\ net' = [c \in Conns |-> IF net[c].cli = "open" THEN SP!CliGone(net[c]) ELSE net[c]]
        /\ sent' = sent /\ UNCHANGED rvars
    BY <1>3 DEF ClientDies
  <2>3. net' \in [Conns -> RP!Links]
    BY <2>1, <2>2
  <2>. QED BY <2>1, <2>2, <2>3, LinkFrame
<1>4. CASE UNCHANGED <<net, rvars, sent>>
    BY <1>4, LinkFrame
<1>. QED BY <1>1, <1>2, <1>3, <1>4 DEF ClientStep

\* The receiver's steps keep the sender's types.
LEMMA SenderFrame ==
    ASSUME SP!TypeOK, SP!PushInv, UNCHANGED svars, RP!TypeOK'
    PROVE  SP!TypeOK' /\ SP!PushInv'
<1>1. SP!NetTypeOK'
    BY DEF RP!TypeOK, RP!NetTypeOK, SP!NetTypeOK, RP!Links, SP!Links, RP!Requests,
        SP!Requests, RP!Replies, SP!Replies
<1>. QED BY <1>1 DEF svars, SP!TypeOK, SP!PushInv

----------------------------------------------------------------------------
(* What the receiver's steps are to the sender.                            *)

\* The receiver's end moves on where the client cannot see it: it accepts or closes a
\* connection whose handler lives on, or has read the payload.
Unseen ==
    /\ DOMAIN net' = Conns
    /\ \A c \in Conns :
         \/ net'[c] = net[c]
         \/ /\ net[c].srv # "none"
            /\ \E t \in {"open", "closed"} : net'[c] = [net[c] EXCEPT !.srv = t]
         \/ net[c].req.body = "full" /\ net'[c] = [net[c] EXCEPT !.req.body = "read"]

\* A reply to a request that has none yet: an ACK once the payload was read.
Reply(c, k) ==
    /\ net[c].srv # "none" /\ net[c].rsp = "none"
    /\ IF k = "ack" THEN net[c].req.body = "read" ELSE net[c].req.body # "none"
    /\ net' = [net EXCEPT ![c] = RP!Answered(net[c], k)]

Hangup(cs) ==
    /\ \A c \in cs : net[c].srv # "none"
    /\ net' = [c \in Conns |-> IF c \in cs THEN RP!SrvGone(net[c]) ELSE net[c]]

PeerStep ==
    \/ Unseen
    \/ \E c \in Conns : Reply(c, "nack") \/ (RP!AckOk(c) /\ Reply(c, "ack"))
    \/ \E cs \in SUBSET Conns : Hangup(cs)

\* A handler with a request in hand, or with a header it rejects, may send a NACK.
LEMMA NackIsReply ==
    ASSUME RP!IInv, NEW c \in Conns,
           hpc[c] \in RP!InRequest \/ (hpc[c] = "hdr" /\ RP!HasHeader(c)),
           RP!WriteNack(c)
    PROVE  PeerStep
<1>. net \in [Conns -> RP!Links] /\ RP!BufferInv /\ RP!LinkInv
    BY DEF RP!IInv, RP!TypeOK, RP!NetTypeOK
<1>1. net[c].srv # "none" /\ net[c].rsp = "none" /\ net[c].req.body # "none"
    BY DEF RP!BufferInv, RP!LinkInv, RP!HasHeader, RP!InRequest
<1>2. CASE net' = net
    BY <1>2 DEF PeerStep, Unseen
<1>3. CASE net' = [net EXCEPT ![c] = RP!Answered(net[c], "nack")]
    BY <1>1, <1>3 DEF PeerStep, Reply
<1>. QED BY <1>2, <1>3 DEF RP!WriteNack

\* A dead process leaves a free slot or an open client, whatever the link was.
LEMMA DeathIsHangup ==
    ASSUME RP!IInv, GoneInv, RP!ProcessDies PROVE PeerStep
<1>. DEFINE cs == {c \in Conns : net[c].srv # "none"}
<1>. net \in [Conns -> RP!Links]
    BY DEF RP!IInv, RP!TypeOK, RP!NetTypeOK
<1>1. ASSUME NEW c \in Conns, net[c].srv = "none" PROVE RP!SrvGone(net[c]) = net[c]
    BY <1>1 DEF GoneInv, RP!SrvGone, RP!Links, RP!IdleLink, SP!IdleLink, RP!NoReq, SP!NoReq
<1>2. net' = [c \in Conns |-> RP!SrvGone(net[c])]
    BY DEF RP!ProcessDies
<1>3. net' = [c \in Conns |-> IF c \in cs THEN RP!SrvGone(net[c]) ELSE net[c]]
    BY <1>1, <1>2
<1>. QED BY <1>3 DEF PeerStep, Hangup

\* A step of the receiver does to the connections what a peer of the sender does.
LEMMA ReceiverIsPeer ==
    ASSUME RP!IInv, GoneInv, RP!ServerNext PROVE PeerStep
<1>. net \in [Conns -> RP!Links] /\ RP!BufferInv /\ RP!LinkInv
    BY DEF RP!IInv, RP!TypeOK, RP!NetTypeOK
<1>1. ASSUME NEW c \in Conns, RP!Accept(c) PROVE PeerStep
    BY <1>1 DEF RP!Accept, PeerStep, Unseen, RP!Links
<1>2. CASE RP!CloseConns
    BY <1>2 DEF RP!CloseConns, PeerStep, Unseen, RP!LinkInv
<1>3. ASSUME NEW c \in Conns, RP!StreamOk(c) PROVE PeerStep
    BY <1>3 DEF RP!StreamOk, PeerStep, Unseen, RP!Links
<1>4. ASSUME NEW c \in Conns, RP!AckOk(c) PROVE PeerStep
  <2>1. net[c].srv # "none" /\ net[c].rsp = "none" /\ net[c].req.body = "read"
    BY <1>4 DEF RP!AckOk, RP!BufferInv
  <2>. QED BY <1>4, <2>1 DEF RP!AckOk, PeerStep, Reply
<1>5. ASSUME NEW c \in Conns,
             hpc[c] \in RP!InRequest \/ (hpc[c] = "hdr" /\ RP!HasHeader(c)),
             RP!WriteNack(c)
      PROVE  PeerStep
    BY <1>5, NackIsReply
<1>6. CASE RP!CloseListener
  <2>. DEFINE cs == {c \in Conns : net[c].srv = "backlog"}
  <2>1. net' = [c \in Conns |-> IF c \in cs THEN RP!SrvGone(net[c]) ELSE net[c]]
    BY <1>6 DEF RP!CloseListener
  <2>. QED BY <2>1 DEF PeerStep, Hangup
<1>7. ASSUME NEW c \in Conns, RP!HandlerExit(c) PROVE PeerStep
  <2>1. net[c].srv # "none"
    BY <1>7 DEF RP!HandlerExit, RP!LinkInv
  <2>2. net' = [d \in Conns |-> IF d \in {c} THEN RP!SrvGone(net[d]) ELSE net[d]]
    BY <1>7 DEF RP!HandlerExit
  <2>3. Hangup({c})
    BY <2>1, <2>2 DEF Hangup
  <2>. QED BY <2>3 DEF PeerStep
<1>8. CASE RP!ProcessDies
    BY <1>8, DeathIsHangup
<1>9. CASE UNCHANGED net
    BY <1>9 DEF PeerStep, Unseen
<1>. QED
    BY <1>1, <1>2, <1>3, <1>4, <1>5, <1>6, <1>7, <1>8, <1>9
       DEF RP!ServerNext, RP!HandlerProgress, RP!CloseProgress, RP!Start, RP!StrayStart,
        RP!AcceptExit, RP!CloseStopCh, RP!CloseDone, RP!Kill, RP!PowerLoss, RP!Register,
        RP!HandshakeOk, RP!HandshakeFail, RP!LoopTop, RP!ReadHeader, RP!HeaderError,
        RP!HeaderEOF, RP!IdleTimeout, RP!StageOk, RP!StageFail, RP!StreamError, RP!StreamStall,
        RP!StreamFailed, RP!SyncOk, RP!SyncFail, RP!CloseFileOk, RP!CloseFileFail, RP!RenameOk,
        RP!RenameFail, RP!DirSyncOk, RP!DirSyncFail, RP!AckFail, RP!BarrierFailed, RP!InRequest

----------------------------------------------------------------------------
(* SysInv is inductive.                                                    *)

\* Both ends free a slot when the other end has gone before.
LEMMA GoneClient ==
    ASSUME net \in [Conns -> SP!Links], GoneInv, ClientStep PROVE GoneInv'
<1>. USE DEF GoneInv, SP!Links, SP!IdleLink, SP!NoReq
<1>1. ASSUME NEW c \in Conns, RP!PeerDial(c) PROVE GoneInv'
    BY <1>1 DEF RP!PeerDial, RP!Dial
<1>2. ASSUME NEW c \in Conns, RP!PeerBody(c, "full") PROVE GoneInv'
    BY <1>2 DEF RP!PeerBody, RP!SendBody
<1>3. ASSUME NEW c \in Conns, RP!PeerRead(c) PROVE GoneInv'
    BY <1>3 DEF RP!PeerRead, RP!ReadReply
<1>4. ASSUME NEW c \in Conns, RP!PeerClose(c) PROVE GoneInv'
    BY <1>4 DEF RP!PeerClose, RP!CloseClient, RP!CliGone, RP!IdleLink, RP!NoReq
<1>5. ASSUME NEW c \in Conns, NEW n \in Names, NEW v \in Nat, Header(c, n, v) PROVE GoneInv'
    BY <1>5 DEF Header, SP!SendHeader
<1>6. CASE ClientDies
    BY <1>6 DEF ClientDies, SP!CliGone
<1>7. CASE UNCHANGED net
    BY <1>7
<1>. QED BY <1>1, <1>2, <1>3, <1>4, <1>5, <1>6, <1>7 DEF ClientStep

LEMMA GoneServer ==
    ASSUME net \in [Conns -> SP!Links], GoneInv, PeerStep PROVE GoneInv'
<1>. USE DEF GoneInv, SP!Links, SP!IdleLink, SP!NoReq
<1>1. CASE Unseen
  <2>1. SUFFICES ASSUME NEW c \in Conns, net'[c].cli = "closed", net'[c].srv = "none"
                 PROVE  net'[c] = SP!IdleLink
    OBVIOUS
  <2>2. CASE net'[c] = net[c]
    BY <2>1, <2>2
  <2>3. ASSUME NEW t \in {"open", "closed"}, net'[c] = [net[c] EXCEPT !.srv = t] PROVE FALSE
    BY <2>1, <2>3
  <2>4. CASE net[c].req.body = "full" /\ net'[c] = [net[c] EXCEPT !.req.body = "read"]
    BY <2>1, <2>4
  <2>. QED BY <1>1, <2>2, <2>3, <2>4 DEF Unseen
<1>2. ASSUME NEW c \in Conns, NEW k \in {"ack", "nack"}, Reply(c, k) PROVE GoneInv'
    BY <1>2 DEF Reply, RP!Answered
<1>3. ASSUME NEW cs \in SUBSET Conns, Hangup(cs) PROVE GoneInv'
    BY <1>3 DEF Hangup, RP!SrvGone, RP!IdleLink, RP!NoReq
<1>. QED BY <1>1, <1>2, <1>3 DEF PeerStep

\* One step.
LEMMA SysStep ==
    ASSUME SysInv, Next PROVE SysInv'
<1>. net \in [Conns -> SP!Links]
    BY LinkTypes DEF SysInv
<1>1. CASE SenderStep
  <2>1. ClientStep /\ SP!Next
    BY <1>1, SenderIsClient, SameSender DEF SysInv, SenderStep, SP!Next
  <2>2. SP!TypeOK' /\ SP!PushInv'
    BY <2>1, SP!TypeStep, SP!PushStep, SystemAssumption DEF SysInv
  <2>. QED BY <2>1, <2>2, ClientInv, GoneClient DEF SysInv
<1>2. CASE ProducerStep
  <2>1. SP!Next /\ UNCHANGED <<net, rvars, sent>>
    BY <1>2, SameSender DEF ProducerStep, SP!Next, SP!EnvStep, SP!Produce
  <2>2. SP!TypeOK' /\ SP!PushInv'
    BY <2>1, SP!TypeStep, SP!PushStep, SystemAssumption DEF SysInv
  <2>3. ClientStep
    BY <2>1 DEF ClientStep
  <2>. QED BY <2>2, <2>3, ClientInv, GoneClient DEF SysInv
<1>3. CASE ReceiverStep
  <2>1. RP!ServerNext /\ RP!Next /\ UNCHANGED svars
    BY <1>3, SameReceiver DEF ReceiverStep, RP!Next
  <2>2. RP!IInv'
    BY <2>1, RP!InvStep, SystemAssumption DEF SysInv
  <2>3. SP!TypeOK' /\ SP!PushInv'
    BY <2>1, <2>2, SenderFrame DEF SysInv, RP!IInv
  <2>4. GoneInv'
    BY <2>1, ReceiverIsPeer, GoneServer DEF SysInv
  <2>. QED BY <2>2, <2>3, <2>4 DEF SysInv
<1>. QED BY <1>1, <1>2, <1>3 DEF Next

LEMMA SysStutter ==
    ASSUME SysInv, UNCHANGED vars PROVE SysInv'
<1>1. ClientStep /\ UNCHANGED svars
    BY DEF vars, ClientStep
<1>2. RP!IInv' /\ GoneInv'
    BY <1>1, ClientInv, GoneClient, LinkTypes DEF SysInv
<1>. QED BY <1>1, <1>2, SenderFrame DEF SysInv, RP!IInv

LEMMA SysInductive == Spec => []SysInv
<1>1. ASSUME Init PROVE SysInv
  <2>1. SP!Init /\ RP!Init
    BY <1>1, SameSender, SameReceiver DEF Init
  <2>2. RP!IInv /\ SP!TypeOK /\ SP!PushInv
    BY <2>1, RP!InvInit, SP!TypeInit, SystemAssumption
  <2>3. GoneInv
    BY <2>1 DEF SP!Init, SP!NetInit, GoneInv
  <2>. QED BY <2>2, <2>3 DEF SysInv
<1>2. SysInv /\ [Next]_vars => SysInv'
    BY SysStep, SysStutter
<1>. QED BY <1>1, <1>2, PTL DEF Spec

----------------------------------------------------------------------------
(* Every step of System maps to a step of the sender and its peer.         *)

\* What the client knows of a link.
View(l) == [l EXCEPT !.srv = IF @ = "none" THEN "none" ELSE "backlog",
                     !.req.body = IF @ = "read" THEN "full" ELSE @]

\* The same, field by field.
Link(a, s, r, k) == [cli |-> a, srv |-> s, req |-> r, rsp |-> k]
SrvView(s) == IF s = "none" THEN "none" ELSE "backlog"
ReqView(r) == [name |-> r.name, ver |-> r.ver,
               body |-> IF r.body = "read" THEN "full" ELSE r.body]

\* The client's end gone, and an exchange over.
Shut(l) == [l EXCEPT !.cli = "closed", !.rsp = "none"]
Over(l, q) == [l EXCEPT !.rsp = "none", !.req = q]

LEMMA LinkExcept ==
    ASSUME NEW a, NEW s, NEW r, NEW k, NEW q
    PROVE  /\ Shut(Link(a, s, r, k)) = Link("closed", s, r, "none")
           /\ Over(Link(a, s, r, k), q) = Link(a, s, q, "none")
<1>. DEFINE l == Link(a, s, r, k)
<1>1. Shut(l) = [[l EXCEPT !.cli = "closed"] EXCEPT !.rsp = "none"]
    BY DEF Shut
<1>2. [l EXCEPT !.cli = "closed"] = Link("closed", s, r, k)
    BY DEF Link
<1>3. [Link("closed", s, r, k) EXCEPT !.rsp = "none"] = Link("closed", s, r, "none")
    BY DEF Link
<1>4. Over(l, q) = [[l EXCEPT !.rsp = "none"] EXCEPT !.req = q]
    BY DEF Over
<1>5. [l EXCEPT !.rsp = "none"] = Link(a, s, r, "none")
    BY DEF Link
<1>6. [Link(a, s, r, "none") EXCEPT !.req = q] = Link(a, s, q, "none")
    BY DEF Link
<1>. QED BY <1>1, <1>2, <1>3, <1>4, <1>5, <1>6

LEMMA LinkFields ==
    /\ \A a, s, r, k : /\ Link(a, s, r, k).cli = a /\ Link(a, s, r, k).srv = s
                       /\ Link(a, s, r, k).req = r /\ Link(a, s, r, k).rsp = k
    /\ \A l \in SP!Links : l = Link(l.cli, l.srv, l.req, l.rsp)
BY DEF Link, SP!Links

LEMMA ViewIs ==
    ASSUME NEW l \in SP!Links
    PROVE  View(l) = Link(l.cli, SrvView(l.srv), ReqView(l.req), l.rsp)
<1>1. View(l) = [l EXCEPT !.srv = SrvView(l.srv), !.req = [l.req EXCEPT
                        !.body = IF l.req.body = "read" THEN "full" ELSE l.req.body]]
    BY DEF View, SrvView, SP!Links
<1>2. [l.req EXCEPT !.body = IF l.req.body = "read" THEN "full" ELSE l.req.body] = ReqView(l.req)
    BY DEF ReqView, SP!Links, SP!Requests
<1>3. l = Link(l.cli, l.srv, l.req, l.rsp)
    BY LinkFields
<1>4. ASSUME NEW t, NEW q PROVE [l EXCEPT !.srv = t, !.req = q] = Link(l.cli, t, q, l.rsp)
  <2>1. [l EXCEPT !.srv = t, !.req = q] = [[l EXCEPT !.srv = t] EXCEPT !.req = q]
    OBVIOUS
  <2>2. [l EXCEPT !.srv = t] = Link(l.cli, t, l.req, l.rsp)
    BY <1>3 DEF Link
  <2>3. [Link(l.cli, t, l.req, l.rsp) EXCEPT !.req = q] = Link(l.cli, t, q, l.rsp)
    BY DEF Link
  <2>. QED BY <2>1, <2>2, <2>3
<1>. QED BY <1>1, <1>2, <1>4

\* It does for any link made of parts that are a link's.
LEMMA ViewLink ==
    ASSUME NEW a, NEW s, NEW r, NEW k, Link(a, s, r, k) \in SP!Links
    PROVE  View(Link(a, s, r, k)) = Link(a, SrvView(s), ReqView(r), k)
BY ViewIs, LinkFields

LEMMA ViewParts ==
    ASSUME NEW l \in SP!Links
    PROVE  /\ View(l).cli = l.cli /\ View(l).rsp = l.rsp
           /\ View(l).srv = "none" <=> l.srv = "none"
           /\ View(l).req = ReqView(l.req)
           /\ View(l).req.body = IF l.req.body = "read" THEN "full" ELSE l.req.body
BY ViewIs, LinkFields DEF SrvView, ReqView

LEMMA SameRequest ==
    ASSUME NEW r \in SP!Requests, r.body # "read" PROVE ReqView(r) = r
BY DEF ReqView, SP!Requests

\* The operations on links commute with what the client knows of them.
LEMMA ViewOps ==
    ASSUME NEW l \in SP!Links
    PROVE  /\ View(SP!IdleLink) = SV!IdleLink
           /\ View(SP!CliGone(l)) = SV!CliGone(View(l))
           /\ View(RP!SrvGone(l)) = SV!SrvGone(View(l))
           /\ \A k \in {"ack", "nack"} : View(RP!Answered(l, k)) = SV!Answered(View(l), k)
           /\ \A r \in SP!Requests :
                r.body # "read" => View([l EXCEPT !.req = r]) = [View(l) EXCEPT !.req = r]
<1>. DEFINE q == ReqView(l.req)
            t == SrvView(l.srv)
<1>0. l = Link(l.cli, l.srv, l.req, l.rsp) /\ View(l) = Link(l.cli, t, q, l.rsp)
    BY LinkFields, ViewIs
<1>. HIDE DEF q, t
<1>1. View(SP!IdleLink) = SV!IdleLink
  <2>1. SP!NoReq \in SP!Requests /\ SP!NoReq.body # "read" /\ SV!NoReq = SP!NoReq
    BY DEF SP!NoReq, SV!NoReq, SP!Requests
  <2>2. /\ SP!IdleLink = Link("closed", "none", SP!NoReq, "none")
        /\ SV!IdleLink = Link("closed", "none", SP!NoReq, "none")
    BY <2>1 DEF SP!IdleLink, SV!IdleLink, Link
  <2>3. SP!IdleLink \in SP!Links
    BY <2>1 DEF SP!IdleLink, SP!Links, SP!Replies
  <2>. QED BY <2>1, <2>2, <2>3, ViewLink, SameRequest DEF SrvView
<1>2. RP!IdleLink = SP!IdleLink
    BY DEF RP!IdleLink, SP!IdleLink, RP!NoReq, SP!NoReq
<1>3. View(SP!CliGone(l)) = SV!CliGone(View(l))
  <2>1. CASE l.srv = "none"
    BY <1>1, <2>1, ViewParts DEF SP!CliGone, SV!CliGone
  <2>2. CASE l.srv # "none"
    <3>1. SP!CliGone(l) = Link("closed", l.srv, l.req, "none")
      <4>1. SP!CliGone(l) = Shut(l)
        BY <2>2 DEF SP!CliGone, Shut
      <4>. QED BY <1>0, <4>1, LinkExcept
    <3>2. Link("closed", l.srv, l.req, "none") \in SP!Links
      BY DEF Link, SP!Links, SP!Replies
    <3>3. SV!CliGone(View(l)) = Link("closed", t, q, "none")
      <4>1. SV!CliGone(View(l)) = Shut(View(l))
        BY <2>2, ViewParts DEF SV!CliGone, Shut
      <4>. QED BY <1>0, <4>1, LinkExcept
    <3>. QED BY <3>1, <3>2, <3>3, ViewLink DEF q, t
  <2>. QED BY <2>1, <2>2
<1>4. View(RP!SrvGone(l)) = SV!SrvGone(View(l))
  <2>1. CASE l.cli = "closed"
    BY <1>1, <1>2, <2>1, ViewParts DEF RP!SrvGone, SV!SrvGone
  <2>2. CASE l.cli # "closed"
    <3>1. RP!SrvGone(l) = Link(l.cli, "none", l.req, l.rsp)
      BY <1>0, <2>2 DEF RP!SrvGone, Link
    <3>2. Link(l.cli, "none", l.req, l.rsp) \in SP!Links
      BY DEF Link, SP!Links
    <3>3. SV!SrvGone(View(l)) = Link(l.cli, "none", q, l.rsp)
      BY <1>0, <2>2, ViewParts DEF SV!SrvGone, Link
    <3>. QED BY <3>1, <3>2, <3>3, ViewLink DEF q, SrvView
  <2>. QED BY <2>1, <2>2
<1>5. ASSUME NEW k \in {"ack", "nack"} PROVE View(RP!Answered(l, k)) = SV!Answered(View(l), k)
  <2>1. CASE l.cli = "open"
    <3>1. RP!Answered(l, k) = Link(l.cli, l.srv, l.req, k)
      BY <1>0, <2>1 DEF RP!Answered, Link
    <3>2. Link(l.cli, l.srv, l.req, k) \in SP!Links
      BY DEF Link, SP!Links, SP!Replies
    <3>3. SV!Answered(View(l), k) = Link(l.cli, t, q, k)
      BY <1>0, <2>1, ViewParts DEF SV!Answered, Link
    <3>. QED BY <3>1, <3>2, <3>3, ViewLink DEF q, t
  <2>2. CASE l.cli # "open"
    BY <2>2, ViewParts DEF RP!Answered, SV!Answered
  <2>. QED BY <2>1, <2>2
<1>6. ASSUME NEW r \in SP!Requests, r.body # "read"
      PROVE  View([l EXCEPT !.req = r]) = [View(l) EXCEPT !.req = r]
  <2>1. [l EXCEPT !.req = r] = Link(l.cli, l.srv, r, l.rsp)
    BY <1>0 DEF Link
  <2>2. Link(l.cli, l.srv, r, l.rsp) \in SP!Links
    BY DEF Link, SP!Links
  <2>3. [View(l) EXCEPT !.req = r] = Link(l.cli, t, r, l.rsp)
    BY <1>0 DEF Link
  <2>. QED BY <1>6, <2>1, <2>2, <2>3, ViewLink, SameRequest DEF t
<1>. QED BY <1>1, <1>3, <1>4, <1>5, <1>6

LEMMA ClientNet ==
    /\ clientNet = [c \in Conns |-> View(net[c])]
    /\ clientNet' = [c \in Conns |-> View(net'[c])]
BY DEF clientNet, View

\* A change of one link is a change of what the client knows of that link.
LEMMA ViewAt ==
    ASSUME NEW c \in Conns, NEW l, net \in [Conns -> SP!Links], net' = [net EXCEPT ![c] = l]
    PROVE  clientNet' = [clientNet EXCEPT ![c] = View(l)]
BY ClientNet

\* What the client does to a link it does to what it knows of it.
LEMMA ClientMaps ==
    ASSUME SP!TypeOK, NEW c \in Conns
    PROVE  /\ SP!Dial(c) => SV!Dial(c)
           /\ \A n \in Names, v \in Nat : SP!SendHeader(c, n, v) => SV!SendHeader(c, n, v)
           /\ SP!SendBody(c, "full") => SV!SendBody(c, "full")
           /\ SP!ReadReply(c) => SV!ReadReply(c)
           /\ SP!CloseClient(c) => SV!CloseClient(c)
<1>. DEFINE l == net[c]
<1>. net \in [Conns -> SP!Links] /\ l \in SP!Links
    BY LinkTypes
<1>0. /\ clientNet[c] = View(l) /\ clientNet \in [Conns -> {View(net[d]) : d \in Conns}]
      /\ View(l).cli = l.cli /\ View(l).rsp = l.rsp
      /\ View(l).req.body = IF l.req.body = "read" THEN "full" ELSE l.req.body
    BY ClientNet, ViewParts
<1>1. ASSUME SP!Dial(c) PROVE SV!Dial(c)
  <2>1. clientNet[c] = SV!IdleLink
    BY <1>0, <1>1, ViewOps DEF SP!Dial
  <2>2. View([cli |-> "open", srv |-> "backlog", req |-> SP!NoReq, rsp |-> "none"])
            = [cli |-> "open", srv |-> "backlog", req |-> SV!NoReq, rsp |-> "none"]
    <3>1. SP!NoReq \in SP!Requests /\ SP!NoReq.body # "read" /\ SV!NoReq = SP!NoReq
      BY DEF SP!NoReq, SV!NoReq, SP!Requests
    <3>2. Link("open", "backlog", SP!NoReq, "none") \in SP!Links
      BY <3>1 DEF Link, SP!Links, SP!Replies
    <3>3. View(Link("open", "backlog", SP!NoReq, "none"))
            = Link("open", "backlog", SP!NoReq, "none")
      BY <3>1, <3>2, ViewLink, SameRequest DEF SrvView
    <3>. QED BY <3>1, <3>3 DEF Link
  <2>. QED BY <1>1, <2>1, <2>2, ViewAt DEF SP!Dial, SV!Dial
<1>2. ASSUME NEW n \in Names, NEW v \in Nat, SP!SendHeader(c, n, v) PROVE SV!SendHeader(c, n, v)
  <2>. DEFINE r == [name |-> n, ver |-> v, body |-> "pending"]
  <2>1. r \in SP!Requests /\ r.body # "read"
    BY DEF SP!Requests
  <2>. HIDE DEF r
  <2>2. net' = [net EXCEPT ![c] = [l EXCEPT !.req = r]]
    BY <1>2 DEF SP!SendHeader, r
  <2>3. clientNet' = [clientNet EXCEPT ![c] = [View(l) EXCEPT !.req = r]]
    BY <2>1, <2>2, ViewAt, ViewOps
  <2>4. clientNet' = [clientNet EXCEPT ![c].req = r]
    BY <1>0, <2>3
  <2>. QED BY <1>0, <1>2, <2>4 DEF SP!SendHeader, SV!SendHeader, r
<1>3. ASSUME SP!SendBody(c, "full") PROVE SV!SendBody(c, "full")
  <2>. DEFINE r == [l.req EXCEPT !.body = "full"]
  <2>1. r \in SP!Requests /\ r.body # "read" /\ l.req.body = "pending" /\ l.cli = "open"
    BY <1>3 DEF SP!Requests, SP!Links, SP!SendBody
  <2>2. net' = [net EXCEPT ![c] = [l EXCEPT !.req = r]]
    BY <1>3 DEF SP!SendBody, SP!Links
  <2>3. View(l).req = l.req
    BY <2>1, ViewParts, SameRequest DEF SP!Links
  <2>. HIDE DEF r
  <2>4. clientNet' = [clientNet EXCEPT ![c] = [View(l) EXCEPT !.req = r]]
    BY <2>1, <2>2, ViewAt, ViewOps
  <2>5. [View(l) EXCEPT !.req = r] = [View(l) EXCEPT !.req.body = "full"]
    BY <2>3 DEF r
  <2>6. clientNet' = [clientNet EXCEPT ![c].req.body = "full"]
    BY <1>0, <2>4, <2>5
  <2>. QED BY <1>0, <2>1, <2>6 DEF SV!SendBody
<1>4. ASSUME SP!ReadReply(c) PROVE SV!ReadReply(c)
  <2>. DEFINE m == Over(l, SP!NoReq)
  <2>1. SP!NoReq \in SP!Requests /\ SP!NoReq.body # "read" /\ SV!NoReq = SP!NoReq
    BY DEF SP!NoReq, SV!NoReq, SP!Requests
  <2>2. View(m) = Over(View(l), SV!NoReq)
    <3>1. m = Link(l.cli, l.srv, SP!NoReq, "none")
      BY LinkFields, LinkExcept
    <3>2. Link(l.cli, l.srv, SP!NoReq, "none") \in SP!Links
      BY <2>1 DEF Link, SP!Links, SP!Replies
    <3>3. View(m) = Link(l.cli, SrvView(l.srv), SP!NoReq, "none")
      BY <2>1, <3>1, <3>2, ViewLink, SameRequest
    <3>. QED BY <2>1, <3>3, ViewIs, LinkExcept
  <2>3. net' = [net EXCEPT ![c] = m]
    BY <1>4 DEF SP!ReadReply, Over
  <2>. HIDE DEF m
  <2>4. clientNet' = [clientNet EXCEPT ![c] = Over(View(l), SV!NoReq)]
    BY <2>2, <2>3, ViewAt
  <2>5. clientNet' = [clientNet EXCEPT ![c].rsp = "none", ![c].req = SV!NoReq]
    BY <1>0, <2>4 DEF Over
  <2>. QED BY <1>0, <1>4, <2>5 DEF SP!ReadReply, SV!ReadReply
<1>5. ASSUME SP!CloseClient(c) PROVE SV!CloseClient(c)
  <2>1. clientNet' = [clientNet EXCEPT ![c] = SV!CliGone(View(l))]
    BY <1>5, ViewAt, ViewOps DEF SP!CloseClient
  <2>. QED BY <1>0, <1>5, <2>1 DEF SP!CloseClient, SV!CloseClient
<1>. QED BY <1>1, <1>2, <1>3, <1>4, <1>5

\* A step of the sender is the same step on what it knows of its connections.
LEMMA SenderMaps ==
    ASSUME SP!TypeOK, SP!SenderNext PROVE SV!SenderNext
<1>0. UNCHANGED net => UNCHANGED clientNet
    BY ClientNet
<1>1. CASE SP!Start \/ SP!ScannerStop \/ SP!StopProgress
  <2>1. SV!Start \/ SV!ScannerStop \/ SV!StopProgress
    BY <1>0, <1>1 DEF
        SP!Start, SV!Start, SP!ScannerStop, SV!ScannerStop, SP!StopProgress,
        SV!StopProgress, SP!PoolStop, SV!PoolStop, SP!QueueStop, SV!QueueStop, SP!PoolDone,
        SV!PoolDone, SP!ProcessEnds, SV!ProcessEnds, SP!NoItem, SV!NoItem, SP!NoState,
        SV!NoState, SP!fsvars, SV!fsvars, SP!scvars, SV!scvars, SP!qvars, SV!qvars,
        SP!wvars, SV!wvars, SP!gvars, SV!gvars
  <2>. QED BY <2>1 DEF SV!SenderNext
<1>2. CASE SP!Crash
  <2>1. net' = [c \in Conns |-> IF net[c].cli = "open" THEN SP!CliGone(net[c]) ELSE net[c]]
    BY <1>2 DEF SP!Crash
  <2>2. clientNet' = [c \in Conns |-> IF clientNet[c].cli = "open"
                            THEN SV!CliGone(clientNet[c]) ELSE clientNet[c]]
    BY <2>1, LinkTypes, ClientNet, ViewOps, ViewParts
  <2>3. SV!Crash
    BY <1>2, <2>2 DEF SP!Crash, SV!Crash, SP!ProcessEnds, SV!ProcessEnds, SP!fsvars, SV!fsvars,
        SP!gvars, SV!gvars, SP!NoItem, SV!NoItem, SP!NoState, SV!NoState
  <2>. QED BY <2>3 DEF SV!SenderNext
<1>3. CASE SP!ScannerStep \/ SP!ScanExit
  <2>. USE DEF SP!fsvars, SV!fsvars, SP!scvars, SV!scvars, SP!qvars, SV!qvars, SP!wvars,
               SV!wvars, SP!gvars, SV!gvars
  <2>1. ASSUME SP!ScanRead \/ SP!ScanLock \/ SP!ScanExit
        PROVE  SV!ScanRead \/ SV!ScanLock \/ SV!ScanExit
    BY <1>0, <2>1 DEF SP!ScanRead, SV!ScanRead, SP!ScanLock, SV!ScanLock, SP!ScanExit, SV!ScanExit
  <2>2. ASSUME SP!ScanUnlock PROVE SV!ScanUnlock
    BY <1>0, <2>2 DEF SP!ScanUnlock, SV!ScanUnlock, SP!NoState, SV!NoState
  <2>3. ASSUME SP!ScanPush PROVE SV!ScanPush
    BY <1>0, <2>3 DEF SP!ScanPush, SV!ScanPush, SP!Push, SV!Push, SP!InsertAt, SV!InsertAt,
        SP!InsertSorted, SV!InsertSorted, SP!Signal, SV!Signal, SP!queueStopped, SV!queueStopped
  <2>4. ASSUME NEW n \in Names, SP!ScanEntry(n) PROVE SV!ScanEntry(n)
    BY <1>0, <2>4 DEF SP!ScanEntry, SV!ScanEntry, SP!InsertAt, SV!InsertAt, SP!InsertSorted,
        SV!InsertSorted, SP!Rescanned, SV!Rescanned, SP!Unchanged, SV!Unchanged,
        SP!BecomesStable, SV!BecomesStable, SP!NoState, SV!NoState
  <2>5. SV!ScannerStep \/ SV!ScanExit
    BY <1>3, <2>1, <2>2, <2>3, <2>4 DEF SP!ScannerStep, SV!ScannerStep
  <2>. QED BY <2>5 DEF SV!SenderNext
<1>4. ASSUME NEW w \in Workers, SP!CloseConn(w) PROVE SV!CloseConn(w)
    BY <1>0, <1>4, ClientMaps DEF SP!CloseConn, SV!CloseConn, SP!TypeOK
<1>5. ASSUME NEW w \in Workers, SP!WorkerStep(w) PROVE SV!SenderNext
  <2>1. CASE SP!LoopTop(w) \/ SP!PopItem(w) \/ SP!PopWait(w) \/ SP!BackoffOver(w)
    <3>1. SV!LoopTop(w) \/ SV!PopItem(w) \/ SV!PopWait(w) \/ SV!BackoffOver(w)
      BY <1>0, <2>1 DEF
          SP!LoopTop, SV!LoopTop, SP!PopItem, SV!PopItem, SP!PopWait, SV!PopWait,
          SP!BackoffOver, SV!BackoffOver, SP!Goto, SV!Goto, SP!stopChClosed,
          SV!stopChClosed, SP!queueStopped, SV!queueStopped, SP!fsvars, SV!fsvars,
          SP!scvars, SV!scvars, SP!qvars, SV!qvars, SP!wvars, SV!wvars, SP!gvars, SV!gvars
    <3>. QED BY <3>1 DEF SV!SenderNext, SV!WorkerStep
  <2>2. CASE SP!LoopStop(w) \/ SP!PopStopped(w)
    <3>1. SV!LoopStop(w) \/ SV!PopStopped(w)
      BY <1>4, <2>2 DEF
          SP!LoopStop, SV!LoopStop, SP!PopStopped, SV!PopStopped, SP!Leave, SV!Leave,
          SP!Goto, SV!Goto, SP!stopChClosed, SV!stopChClosed, SP!queueStopped,
          SV!queueStopped, SP!fsvars, SV!fsvars, SP!scvars, SV!scvars, SP!qvars, SV!qvars,
          SP!wvars, SV!wvars, SP!gvars, SV!gvars
    <3>. QED BY <3>1 DEF SV!SenderNext, SV!WorkerStep
  <2>3. ASSUME NEW c \in Conns, SP!DialOk(w, c) PROVE SV!SenderNext
    <3>1. SV!DialOk(w, c)
      BY <2>3, ClientMaps DEF
          SP!DialOk, SV!DialOk, SP!Goto, SV!Goto, SP!fsvars, SV!fsvars, SP!scvars,
          SV!scvars, SP!qvars, SV!qvars, SP!wvars, SV!wvars, SP!gvars, SV!gvars
    <3>. QED BY <3>1 DEF SV!SenderNext, SV!WorkerStep
  <2>4. CASE SP!DialFail(w) \/ SP!TransferFail(w)
    <3>1. SV!DialFail(w) \/ SV!TransferFail(w)
      BY <1>0, <1>4, <2>4 DEF
          SP!DialFail, SV!DialFail, SP!TransferFail, SV!TransferFail, SP!RecordFailure,
          SV!RecordFailure, SP!Quarantine, SV!Quarantine, SP!LastAttempt, SV!LastAttempt,
          SP!Fault, SV!Fault, SP!InsertSorted, SV!InsertSorted, SP!InsertAt, SV!InsertAt,
          SP!Signal, SV!Signal, SP!DropItem, SV!DropItem, SP!NoItem, SV!NoItem, SP!Talking,
          SV!Talking, SP!fsvars, SV!fsvars, SP!scvars, SV!scvars, SP!qvars, SV!qvars,
          SP!wvars, SV!wvars, SP!gvars, SV!gvars
    <3>. QED BY <3>1 DEF SV!SenderNext, SV!WorkerStep
  <2>5. CASE SP!SendFileHeader(w) \/ SP!SendFileBody(w) \/ SP!ReadAck(w)
    <3>1. conn[w] \in Conns /\ item[w].name \in Names /\ dir[item[w].name] \in Nat
      BY <2>5 DEF SP!SendFileHeader, SP!SendFileBody, SP!ReadAck, SP!TypeOK, SP!Talking, SP!Busy,
          SP!Items
    <3>2. clientNet[conn[w]].rsp = net[conn[w]].rsp
      BY <3>1, LinkTypes, ClientNet, ViewParts
    <3>3. SV!SendFileHeader(w) \/ SV!SendFileBody(w) \/ SV!ReadAck(w)
      BY <2>5, <3>1, <3>2, ClientMaps DEF
          SP!SendFileHeader, SV!SendFileHeader, SP!SendFileBody, SV!SendFileBody,
          SP!ReadAck, SV!ReadAck, SP!Goto, SV!Goto, SP!fsvars, SV!fsvars, SP!scvars,
          SV!scvars, SP!qvars, SV!qvars, SP!wvars, SV!wvars, SP!gvars, SV!gvars
    <3>. QED BY <3>3 DEF SV!SenderNext, SV!WorkerStep
  <2>6. CASE SP!PostCommit(w) \/ SP!RecordSuccess(w) \/ SP!MarkCompleted(w)
    <3>1. SV!PostCommit(w) \/ SV!RecordSuccess(w) \/ SV!MarkCompleted(w)
      BY <1>0, <2>6 DEF
          SP!PostCommit, SV!PostCommit, SP!RecordSuccess, SV!RecordSuccess,
          SP!MarkCompleted, SV!MarkCompleted, SP!Goto, SV!Goto, SP!Fault, SV!Fault,
          SP!DropItem, SV!DropItem, SP!NoItem, SV!NoItem, SP!NoState, SV!NoState, SP!fsvars,
          SV!fsvars, SP!scvars, SV!scvars, SP!qvars, SV!qvars, SP!wvars, SV!wvars, SP!gvars,
          SV!gvars
    <3>. QED BY <3>1 DEF SV!SenderNext, SV!WorkerStep
  <2>. QED BY <1>5, <2>1, <2>2, <2>3, <2>4, <2>5, <2>6 DEF SP!WorkerStep
<1>. QED BY <1>1, <1>2, <1>3, <1>5 DEF SP!SenderNext

\* A step of the receiver is an answer, a hang-up, or nothing the sender can see.
LEMMA PeerMaps ==
    ASSUME SP!TypeOK, PeerStep, UNCHANGED svars PROVE [SV!Next]_(SV!vars)
<1>. net \in [Conns -> SP!Links]
    BY LinkTypes
<1>. UNCHANGED <<SV!fsvars, phase, SV!scvars, SV!qvars, SV!wvars, SV!gvars>>
    BY DEF svars, SV!fsvars, SV!scvars, SV!qvars, SV!wvars, SV!gvars
<1>1. CASE Unseen
  <2>1. ASSUME NEW c \in Conns PROVE View(net'[c]) = View(net[c])
    <3>. DEFINE l == net[c]
    <3>0. l \in SP!Links /\ l = Link(l.cli, l.srv, l.req, l.rsp)
      BY LinkFields
    <3>1. ASSUME NEW t \in {"open", "closed"}, l.srv # "none", net'[c] = [l EXCEPT !.srv = t]
          PROVE  View(net'[c]) = View(l)
      <4>1. net'[c] = Link(l.cli, t, l.req, l.rsp)
        BY <3>0, <3>1 DEF Link
      <4>2. Link(l.cli, t, l.req, l.rsp) \in SP!Links
        BY DEF Link, SP!Links
      <4>3. SrvView(t) = SrvView(l.srv)
        BY <3>1 DEF SrvView
      <4>. QED BY <4>1, <4>2, <4>3, ViewIs, ViewLink
    <3>2. ASSUME l.req.body = "full", net'[c] = [l EXCEPT !.req.body = "read"]
          PROVE  View(net'[c]) = View(l)
      <4>. DEFINE r == [name |-> l.req.name, ver |-> l.req.ver, body |-> "read"]
      <4>1. [l.req EXCEPT !.body = "read"] = r /\ r \in SP!Requests
        BY DEF SP!Links, SP!Requests
      <4>2. [l EXCEPT !.req.body = "read"] = [l EXCEPT !.req = [l.req EXCEPT !.body = "read"]]
        BY DEF SP!Links
      <4>3. ReqView(r) = ReqView(l.req)
        BY <3>2 DEF ReqView
      <4>. HIDE DEF r
      <4>4. net'[c] = Link(l.cli, l.srv, r, l.rsp)
        BY <3>0, <3>2, <4>1, <4>2 DEF Link
      <4>5. Link(l.cli, l.srv, r, l.rsp) \in SP!Links
        BY <4>1 DEF Link, SP!Links
      <4>. QED BY <4>3, <4>4, <4>5, ViewIs, ViewLink
    <3>. QED BY <1>1, <3>1, <3>2 DEF Unseen
  <2>2. UNCHANGED clientNet
    BY <2>1, ClientNet
  <2>. QED BY <2>2 DEF SV!vars
<1>2. ASSUME NEW c \in Conns, NEW k \in {"ack", "nack"}, Reply(c, k) PROVE SV!Next
  <2>1. clientNet' = [clientNet EXCEPT ![c] = SV!Answered(clientNet[c], k)]
    BY <1>2, ViewAt, ViewOps, ClientNet DEF Reply
  <2>2. /\ clientNet[c].srv # "none" /\ clientNet[c].rsp = "none"
        /\ clientNet[c].req.body = IF net[c].req.body = "read" THEN "full" ELSE net[c].req.body
    BY <1>2, ViewParts, ClientNet DEF Reply
  <2>3. IF k = "ack" THEN clientNet[c].req.body = "full" ELSE SV!HasHeader(c)
    BY <1>2, <2>2 DEF Reply, SV!HasHeader, SP!Links, SP!Requests
  <2>4. SV!PeerAnswer(c, k)
    BY <2>1, <2>2, <2>3 DEF SV!PeerAnswer
  <2>. QED BY <2>4 DEF SV!Next, SV!EnvStep
<1>3. ASSUME NEW cs \in SUBSET Conns, Hangup(cs) PROVE SV!Next
  <2>1. clientNet' = [c \in Conns |-> IF c \in cs THEN SV!SrvGone(clientNet[c]) ELSE clientNet[c]]
    BY <1>3, ViewOps, ClientNet DEF Hangup
  <2>2. \A c \in cs : clientNet[c].srv # "none"
    BY <1>3, ViewParts, ClientNet DEF Hangup
  <2>3. SV!PeerHangup(cs)
    BY <2>1, <2>2 DEF SV!PeerHangup
  <2>. QED BY <2>3 DEF SV!Next, SV!EnvStep
<1>. QED BY <1>1, <1>2, <1>3 DEF PeerStep

\* The sender with the receiver of listener.go, committer.go and stager.go behaves, as
\* far as the sender can tell, like the sender with the peer that Sender assumes:
\* the theorems of SenderProofs hold of it.
THEOREM SystemImplementsSender == Spec => ImplementsSender
<1>1. ASSUME Init PROVE SV!Init
  <2>1. SP!Init
    BY <1>1, SameSender DEF Init
  <2>2. clientNet = [c \in Conns |-> SV!IdleLink]
    <3>1. SP!IdleLink \in SP!Links
      BY DEF SP!IdleLink, SP!Links, SP!Requests, SP!NoReq, SP!Replies
    <3>. QED BY <2>1, <3>1, ClientNet, ViewOps DEF SP!Init, SP!NetInit
  <2>. QED BY <2>1, <2>2 DEF SP!Init, SV!Init, SV!NetInit, SP!NoItem, SV!NoItem, SP!NoState,
        SV!NoState
<1>2. ASSUME SysInv, [Next]_vars PROVE [SV!Next]_(SV!vars)
  <2>1. CASE SenderStep
    <3>1. SV!SenderNext
      BY <1>2, <2>1, SameSender, SenderMaps DEF SenderStep, SysInv
    <3>. QED BY <3>1 DEF SV!Next
  <2>2. ASSUME NEW n \in Names, S!Produce(n) PROVE SV!Next
    <3>1. SV!Produce(n)
      BY <2>2, ClientNet DEF S!Produce, SV!Produce, S!scvars, SV!scvars, S!qvars, SV!qvars,
          S!wvars, SV!wvars
    <3>. QED BY <3>1 DEF SV!Next, SV!EnvStep
  <2>3. CASE ReceiverStep
    BY <1>2, <2>3, SameReceiver, ReceiverIsPeer, PeerMaps DEF ReceiverStep, SysInv
  <2>4. CASE UNCHANGED vars
    BY <2>4, ClientNet DEF vars, svars, SV!vars, SV!fsvars, SV!scvars, SV!qvars, SV!wvars,
        SV!gvars
  <2>. QED BY <1>2, <2>1, <2>2, <2>3, <2>4 DEF Next, ProducerStep
<1>. QED BY <1>1, <1>2, SysInductive, PTL DEF Spec, ImplementsSender, SV!Spec

----------------------------------------------------------------------------
(* NeverLost.                                                              *)

\* A client only ever takes an ACK away, and asks nothing new before it has.
LEMMA ClientReplies ==
    ASSUME net \in [Conns -> SP!Links], ClientStep, NEW c \in Conns, net'[c].rsp = "ack"
    PROVE  net[c].rsp = "ack" /\ net'[c].req.name = net[c].req.name
<1>. USE DEF SP!Links, SP!Requests
<1>1. ASSUME NEW d \in Conns, RP!PeerDial(d)
      PROVE  net[c].rsp = "ack" /\ net'[c].req.name = net[c].req.name
    BY <1>1 DEF RP!PeerDial, RP!Dial
<1>2. ASSUME NEW d \in Conns, RP!PeerBody(d, "full")
      PROVE  net[c].rsp = "ack" /\ net'[c].req.name = net[c].req.name
    BY <1>2 DEF RP!PeerBody, RP!SendBody
<1>3. ASSUME NEW d \in Conns, RP!PeerRead(d)
      PROVE  net[c].rsp = "ack" /\ net'[c].req.name = net[c].req.name
    BY <1>3 DEF RP!PeerRead, RP!ReadReply
<1>4. ASSUME NEW d \in Conns, RP!PeerClose(d)
      PROVE  net[c].rsp = "ack" /\ net'[c].req.name = net[c].req.name
    BY <1>4 DEF RP!PeerClose, RP!CloseClient, RP!CliGone, RP!IdleLink
<1>5. ASSUME NEW d \in Conns, NEW n \in Names, NEW v \in Nat, Header(d, n, v)
      PROVE  net[c].rsp = "ack" /\ net'[c].req.name = net[c].req.name
    BY <1>5 DEF Header, SP!SendHeader
<1>6. CASE ClientDies
    BY <1>6 DEF ClientDies, SP!CliGone, SP!IdleLink
<1>7. CASE UNCHANGED net
    BY <1>7
<1>. QED BY <1>1, <1>2, <1>3, <1>4, <1>5, <1>6, <1>7 DEF ClientStep

\* The receiver leaves an open client's end open, and its request under its name.
LEMMA PeerKeeps ==
    ASSUME net \in [Conns -> SP!Links], PeerStep, NEW c \in Conns, net[c].cli = "open"
    PROVE  net'[c].cli = "open" /\ net'[c].req.name = net[c].req.name
<1>. USE DEF SP!Links, SP!Requests
<1>1. CASE Unseen
  <2>1. ASSUME NEW t \in {"open", "closed"}, net'[c] = [net[c] EXCEPT !.srv = t]
        PROVE  net'[c].cli = "open" /\ net'[c].req.name = net[c].req.name
    BY <2>1
  <2>2. CASE net'[c] = [net[c] EXCEPT !.req.body = "read"]
    BY <2>2
  <2>. QED BY <1>1, <2>1, <2>2 DEF Unseen
<1>2. ASSUME NEW d \in Conns, NEW k \in {"ack", "nack"}, Reply(d, k)
      PROVE  net'[c].cli = "open" /\ net'[c].req.name = net[c].req.name
    BY <1>2 DEF Reply, RP!Answered
<1>3. ASSUME NEW cs \in SUBSET Conns, Hangup(cs)
      PROVE  net'[c].cli = "open" /\ net'[c].req.name = net[c].req.name
    BY <1>3 DEF Hangup, RP!SrvGone
<1>. QED BY <1>1, <1>2, <1>3 DEF PeerStep

\* Only AckOk puts an ACK on a connection.
LEMMA PeerReplies ==
    ASSUME net \in [Conns -> SP!Links], PeerStep, NEW c \in Conns, net'[c].rsp = "ack"
    PROVE  \/ net[c].rsp = "ack" /\ net'[c].req.name = net[c].req.name
           \/ RP!AckOk(c) /\ net'[c].req.name = net[c].req.name
<1>. USE DEF SP!Links, SP!Requests
<1>1. CASE Unseen
  <2>1. ASSUME NEW t \in {"open", "closed"}, net'[c] = [net[c] EXCEPT !.srv = t]
        PROVE  net[c].rsp = "ack" /\ net'[c].req.name = net[c].req.name
    BY <2>1
  <2>2. CASE net'[c] = [net[c] EXCEPT !.req.body = "read"]
    BY <2>2
  <2>. QED BY <1>1, <2>1, <2>2 DEF Unseen
<1>2. ASSUME NEW d \in Conns, Reply(d, "nack")
      PROVE  net[c].rsp = "ack" /\ net'[c].req.name = net[c].req.name
    BY <1>2 DEF Reply, RP!Answered
<1>3. ASSUME NEW d \in Conns, RP!AckOk(d), Reply(d, "ack")
      PROVE  \/ net[c].rsp = "ack" /\ net'[c].req.name = net[c].req.name
             \/ RP!AckOk(c) /\ net'[c].req.name = net[c].req.name
    BY <1>3 DEF Reply, RP!Answered
<1>4. ASSUME NEW cs \in SUBSET Conns, Hangup(cs)
      PROVE  net[c].rsp = "ack" /\ net'[c].req.name = net[c].req.name
    BY <1>4 DEF Hangup, RP!SrvGone, RP!IdleLink
<1>. QED BY <1>1, <1>2, <1>3, <1>4 DEF PeerStep

\* What was ACKed stays ACKed.
LEMMA AckedGrows ==
    ASSUME RP!IInv, RP!ServerNext
    PROVE  \A n \in Names : ackedSeq[n] > 0 => ackedSeq'[n] > 0
<1>. ackedSeq \in [Names -> Nat] /\ hseq \in [Conns -> Nat]
    BY DEF RP!IInv, RP!TypeOK
<1>1. ASSUME NEW c \in Conns, RP!AckOk(c)
      PROVE  \A n \in Names : ackedSeq[n] > 0 => ackedSeq'[n] > 0
    BY <1>1 DEF RP!AckOk, RP!MaxOf
<1>2. ASSUME NEW c \in Conns, RP!RenameOk(c) \/ RP!DirSyncOk(c) PROVE UNCHANGED ackedSeq
    BY <1>2 DEF RP!RenameOk, RP!DirSyncOk
<1>3. CASE RP!PowerLoss
    BY <1>3 DEF RP!PowerLoss, RP!ProcessDies
<1>. QED BY <1>1, <1>2, <1>3, RP!InboxFrame, SystemAssumption DEF RP!Next

\* A step of the receiver keeps all of OnceSysInv.
LEMMA OnceReceiver ==
    ASSUME SysInv, OnceSysInv, RP!ServerNext, UNCHANGED svars, sent' = sent
    PROVE  OnceSysInv'
<1>. net \in [Conns -> SP!Links] /\ PeerStep
    BY LinkTypes, ReceiverIsPeer DEF SysInv
<1>1. SP!OnceInv' /\ VersionInv' /\ SentInv'
    BY DEF svars, OnceSysInv, SP!OnceInv, SP!NothingLost, VersionInv, SentInv
<1>2. TalkInv'
  <2>1. /\ \A w \in Workers : conn[w] \in Conns => net[conn[w]].cli = "open"
        /\ \A w \in Workers : wpc[w] \in {"stream", "resp"} => conn[w] \in Conns
    BY DEF OnceSysInv, TalkInv, SysInv, SP!TypeOK, SP!Talking
  <2>. QED BY <2>1, PeerKeeps DEF svars, OnceSysInv, TalkInv
<1>3. ReplyInv'
  <2>1. SUFFICES ASSUME NEW c \in Conns, net'[c].rsp = "ack"
                 PROVE  net'[c].req.name \in Names /\ ackedSeq'[net'[c].req.name] > 0
    BY DEF ReplyInv
  <2>2. CASE net[c].rsp = "ack" /\ net'[c].req.name = net[c].req.name
    BY <2>2, AckedGrows DEF SysInv, OnceSysInv, ReplyInv
  <2>3. CASE RP!AckOk(c) /\ net'[c].req.name = net[c].req.name
    <3>1. /\ net[c].req.name = hname[c] /\ hname[c] \in Names /\ hseq[c] > 0 /\ hseq[c] \in Nat
          /\ ackedSeq \in [Names -> Nat]
      BY <2>3 DEF SysInv, RP!IInv, RP!TypeOK, RP!InRequest, RP!BufferInv, RP!DurInv, RP!AckOk
    <3>2. ackedSeq' = [ackedSeq EXCEPT ![hname[c]] = RP!MaxOf(ackedSeq[hname[c]], hseq[c])]
      BY <2>3 DEF RP!AckOk
    <3>3. RP!MaxOf(ackedSeq[hname[c]], hseq[c]) > 0
      BY <3>1 DEF RP!MaxOf
    <3>. QED BY <2>3, <3>1, <3>2, <3>3
  <2>. QED BY <2>1, <2>2, <2>3, PeerReplies
<1>4. ReadInv'
    BY AckedGrows DEF svars, SysInv, OnceSysInv, ReadInv
<1>. QED BY <1>1, <1>2, <1>3, <1>4 DEF OnceSysInv

\* A worker that is talking goes on with the same file on the same connection.
LEMMA TalkFrame ==
    ASSUME TalkInv, SP!TypeOK,
           \A v \in Workers : conn'[v] \in {conn[v], NoConn},
           \A v \in Workers : conn'[v] \in Conns => net'[conn[v]].cli = "open",
           \A v \in Workers : wpc'[v] \in {"stream", "resp"}
                => /\ wpc[v] \in {"stream", "resp"} /\ item'[v] = item[v] /\ conn'[v] = conn[v]
                   /\ net'[conn[v]].req.name = net[conn[v]].req.name
    PROVE  TalkInv'
BY SystemAssumption DEF TalkInv

\* The connection of a worker is no other worker's.
LEMMA OwnConn ==
    ASSUME TalkInv, SP!TypeOK, NEW w \in Workers, NEW v \in Workers \ {w}, conn[w] \in Conns
    PROVE  conn[v] # conn[w]
BY SystemAssumption DEF TalkInv, SP!TypeOK

\* Closing the connection of a worker leaves those of the others as they are.
LEMMA TalkClose ==
    ASSUME TalkInv, SP!TypeOK, NEW w \in Workers, SP!CloseConn(w),
           wpc'[w] \notin {"stream", "resp"},
           \A v \in Workers \ {w} : wpc'[v] \in {"stream", "resp"}
                => wpc'[v] = wpc[v] /\ item'[v] = item[v]
    PROVE  TalkInv'
<1>. net \in [Conns -> SP!Links] /\ conn \in [Workers -> Conns \cup {NoConn}]
    BY LinkTypes DEF SP!TypeOK
<1>1. conn'[w] = NoConn /\ \A v \in Workers \ {w} : conn'[v] = conn[v]
    BY DEF SP!CloseConn
<1>2. ASSUME NEW v \in Workers \ {w}, conn[v] \in Conns PROVE net'[conn[v]] = net[conn[v]]
  <2>1. CASE conn[w] = NoConn
    BY <2>1 DEF SP!CloseConn
  <2>2. CASE conn[w] \in Conns
    <3>1. conn[v] # conn[w]
      BY <2>2, OwnConn
    <3>. QED BY <1>2, <2>2, <3>1, SystemAssumption DEF SP!CloseConn, SP!CloseClient
  <2>. QED BY <2>1, <2>2
<1>3. \A v \in Workers : conn[v] \in Conns => net[conn[v]].cli = "open"
    BY DEF TalkInv
<1>4. \A v \in Workers \ {w} : wpc'[v] \in {"stream", "resp"} => conn[v] \in Conns
    BY DEF SP!TypeOK, SP!Talking
<1>5. \A v \in Workers : conn'[v] \in {conn[v], NoConn}
    BY <1>1
<1>6. \A v \in Workers : conn'[v] \in Conns => net'[conn[v]].cli = "open"
    BY <1>1, <1>2, <1>3, SystemAssumption
<1>7. \A v \in Workers : wpc'[v] \in {"stream", "resp"}
        => /\ wpc[v] \in {"stream", "resp"} /\ item'[v] = item[v] /\ conn'[v] = conn[v]
           /\ net'[conn[v]].req.name = net[conn[v]].req.name
    BY <1>1, <1>2, <1>4
<1>. QED BY <1>5, <1>6, <1>7, TalkFrame

\* A worker that uses its connection leaves those of the others as they are.
LEMMA TalkUse ==
    ASSUME TalkInv, SP!TypeOK, NEW w \in Workers, conn[w] \in Conns, conn' = conn,
           net'[conn[w]].cli = "open",
           \A c \in Conns \ {conn[w]} : net'[c] = net[c],
           \A v \in Workers \ {w} : wpc'[v] = wpc[v],
           item' = item,
           wpc'[w] \in {"stream", "resp"} => net'[conn[w]].req.name = item[w].name
    PROVE  TalkInv'
<1>1. \A v \in Workers \ {w} : conn[v] # conn[w]
    BY OwnConn
<1>2. \A v \in Workers \ {w} : wpc[v] \in {"stream", "resp"} => conn[v] \in Conns
    BY DEF SP!TypeOK, SP!Talking
<1>. QED BY <1>1, <1>2 DEF TalkInv

\* Every step of the sender keeps TalkInv.
LEMMA TalkSender ==
    ASSUME TalkInv, SP!TypeOK, SP!SenderNext PROVE TalkInv'
<1>. net \in [Conns -> SP!Links] /\ conn \in [Workers -> Conns \cup {NoConn}]
    BY LinkTypes DEF SP!TypeOK
<1>. wpc \in [Workers -> SP!WorkerPcs] /\ item \in [Workers -> SP!Items \cup {SP!NoItem}]
    BY DEF SP!TypeOK
<1>0. ASSUME UNCHANGED <<net, conn>>,
             \A v \in Workers : wpc'[v] \in {"stream", "resp"}
                => wpc'[v] = wpc[v] /\ item'[v] = item[v]
      PROVE  TalkInv'
    BY <1>0 DEF TalkInv
<1>1. CASE SP!PoolDone \/ SP!Crash
  <2>1. \A w \in Workers : wpc'[w] = "none" /\ conn'[w] = NoConn
    BY <1>1 DEF SP!PoolDone, SP!Crash, SP!ProcessEnds
  <2>. QED BY <2>1, SystemAssumption DEF TalkInv
<1>2. CASE SP!Start \/ SP!ScannerStop \/ SP!PoolStop \/ SP!QueueStop
    BY <1>0, <1>2 DEF SP!Start, SP!ScannerStop, SP!PoolStop, SP!QueueStop, SP!wvars
<1>3. CASE \/ SP!ScanRead \/ SP!ScanLock \/ SP!ScanUnlock \/ SP!ScanExit
           \/ \E n \in Names : SP!ScanEntry(n)
    BY <1>0, <1>3 DEF SP!ScanRead, SP!ScanLock, SP!ScanUnlock, SP!ScanExit, SP!ScanEntry, SP!wvars
<1>4. CASE SP!ScanPush
  <2>1. \A w \in Workers : wpc'[w] = wpc[w] \/ wpc'[w] = "pop"
    BY <1>4, SP!SignalMoves, SystemAssumption DEF SP!ScanPush, SP!Push
  <2>. QED BY <1>0, <1>4, <2>1 DEF SP!ScanPush
<1>5. ASSUME NEW w \in Workers,
             \/ SP!LoopTop(w) \/ SP!PopItem(w) \/ SP!PopWait(w) \/ SP!BackoffOver(w)
             \/ SP!PostCommit(w) \/ SP!RecordSuccess(w) \/ SP!MarkCompleted(w)
      PROVE  TalkInv'
  <2>1. UNCHANGED <<net, conn>>
    BY <1>5 DEF SP!LoopTop, SP!PopItem, SP!PopWait, SP!BackoffOver, SP!PostCommit,
        SP!RecordSuccess, SP!MarkCompleted
  <2>2. \E p \in {"pop", "dial", "open", "wait", "top", "success", "mark"} :
            wpc' = [wpc EXCEPT ![w] = p]
    BY <1>5 DEF SP!LoopTop, SP!PopItem, SP!PopWait, SP!BackoffOver, SP!PostCommit,
        SP!RecordSuccess, SP!MarkCompleted, SP!Goto
  <2>3. \A v \in Workers \ {w} : item'[v] = item[v]
    BY <1>5 DEF SP!LoopTop, SP!PopItem, SP!PopWait, SP!BackoffOver, SP!PostCommit,
        SP!RecordSuccess, SP!MarkCompleted, SP!DropItem
  <2>. QED BY <1>0, <2>1, <2>2, <2>3
<1>6. ASSUME NEW w \in Workers, SP!Leave(w) PROVE TalkInv'
    BY <1>6, TalkClose DEF SP!Leave, SP!Goto
<1>7. ASSUME NEW w \in Workers, NEW c \in Conns, SP!DialOk(w, c) PROVE TalkInv'
  <2>1. /\ net[c].cli = "closed" /\ net'[c].cli = "open"
        /\ \A d \in Conns \ {c} : net'[d] = net[d]
    BY <1>7 DEF SP!DialOk, SP!Dial, SP!IdleLink
  <2>2. /\ conn'[w] = c /\ wpc'[w] = "open" /\ item' = item
        /\ \A v \in Workers \ {w} : conn'[v] = conn[v] /\ wpc'[v] = wpc[v]
    BY <1>7 DEF SP!DialOk, SP!Goto
  <2>3. \A v \in Workers : conn[v] # c
    BY <2>1 DEF TalkInv
  <2>4. \A v \in Workers \ {w} : wpc[v] \in {"stream", "resp"} => conn[v] \in Conns
    BY DEF SP!TypeOK, SP!Talking
  <2>. QED BY <2>1, <2>2, <2>3, <2>4 DEF TalkInv
<1>8. ASSUME NEW w \in Workers, SP!DialFail(w) PROVE TalkInv'
  <2>1. item[w] \in SP!Items /\ SP!RecordFailure(w, "backoff")
    BY <1>8 DEF SP!DialFail, SP!TypeOK, SP!Busy
  <2>2. /\ wpc'[w] = "backoff"
        /\ \A v \in Workers \ {w} : wpc'[v] = wpc[v] \/ wpc'[v] = "pop"
    BY <2>1, SP!FailureType, SystemAssumption
  <2>3. UNCHANGED <<net, conn>> /\ \A v \in Workers \ {w} : item'[v] = item[v]
    BY <1>8 DEF SP!DialFail, SP!DropItem
  <2>. QED BY <1>0, <2>2, <2>3
<1>9. ASSUME NEW w \in Workers, SP!TransferFail(w) PROVE TalkInv'
  <2>1. PICK p \in {"mark", "top"} : SP!RecordFailure(w, p)
    BY <1>9 DEF SP!TransferFail
  <2>2. item[w] \in SP!Items /\ SP!CloseConn(w)
    BY <1>9 DEF SP!TransferFail, SP!TypeOK, SP!Busy, SP!Talking
  <2>3. /\ wpc'[w] = p
        /\ \A v \in Workers \ {w} : wpc'[v] = wpc[v] \/ wpc'[v] = "pop"
    BY <2>1, <2>2, SP!FailureType, SystemAssumption
  <2>4. \A v \in Workers \ {w} : item'[v] = item[v]
    BY <1>9 DEF SP!TransferFail, SP!DropItem
  <2>. QED BY <2>2, <2>3, <2>4, TalkClose
<1>10. ASSUME NEW w \in Workers, SP!SendFileHeader(w) PROVE TalkInv'
  <2>1. conn[w] \in Conns
    BY <1>10 DEF SP!SendFileHeader, SP!TypeOK, SP!Talking
  <2>2. /\ net'[conn[w]].cli = "open" /\ net'[conn[w]].req.name = item[w].name
        /\ \A c \in Conns \ {conn[w]} : net'[c] = net[c]
    BY <1>10, <2>1 DEF SP!SendFileHeader, SP!SendHeader, SP!Links
  <2>3. conn' = conn /\ item' = item /\ \A v \in Workers \ {w} : wpc'[v] = wpc[v]
    BY <1>10 DEF SP!SendFileHeader, SP!Goto
  <2>. QED BY <2>1, <2>2, <2>3, TalkUse
<1>11. ASSUME NEW w \in Workers, SP!SendFileBody(w) PROVE TalkInv'
  <2>1. conn[w] \in Conns /\ net[conn[w]].req.name = item[w].name
    BY <1>11 DEF SP!SendFileBody, SP!TypeOK, SP!Talking, TalkInv
  <2>2. /\ net'[conn[w]].cli = "open" /\ net'[conn[w]].req.name = item[w].name
        /\ \A c \in Conns \ {conn[w]} : net'[c] = net[c]
    BY <1>11, <2>1 DEF SP!SendFileBody, SP!SendBody, SP!Links, SP!Requests
  <2>3. conn' = conn /\ item' = item /\ \A v \in Workers \ {w} : wpc'[v] = wpc[v]
    BY <1>11 DEF SP!SendFileBody, SP!Goto
  <2>. QED BY <2>1, <2>2, <2>3, TalkUse
<1>12. ASSUME NEW w \in Workers, SP!ReadAck(w) PROVE TalkInv'
  <2>1. conn[w] \in Conns
    BY <1>12 DEF SP!ReadAck, SP!TypeOK, SP!Talking
  <2>2. /\ net'[conn[w]].cli = "open"
        /\ \A c \in Conns \ {conn[w]} : net'[c] = net[c]
    BY <1>12, <2>1 DEF SP!ReadAck, SP!ReadReply, SP!Links
  <2>3. /\ conn' = conn /\ item' = item /\ \A v \in Workers \ {w} : wpc'[v] = wpc[v]
        /\ wpc'[w] = "commit"
    BY <1>12 DEF SP!ReadAck, SP!Goto
  <2>. QED BY <2>1, <2>2, <2>3, TalkUse
<1>. QED
    BY <1>1, <1>2, <1>3, <1>4, <1>5, <1>6, <1>7, <1>8, <1>9, <1>10, <1>11, <1>12
       DEF SP!SenderNext, SP!StopProgress, SP!ScannerStep, SP!WorkerStep, SP!LoopStop,
        SP!PopStopped

\* The sender makes no versions, and records an ACK only when it reads one.
LEMMA SenderGhosts ==
    ASSUME SP!SenderNext
    PROVE  /\ UNCHANGED <<clock, latest>>
           /\ readAcks' = readAcks \/ \E w \in Workers : SP!ReadAck(w)
<1>. USE DEF SP!gvars
<1>1. CASE SP!Start \/ SP!ScannerStop \/ SP!StopProgress \/ SP!Crash
    BY <1>1 DEF SP!Start, SP!ScannerStop, SP!StopProgress, SP!PoolStop, SP!QueueStop,
        SP!PoolDone, SP!Crash
<1>2. CASE SP!ScannerStep \/ SP!ScanExit
    BY <1>2 DEF SP!ScannerStep, SP!ScanRead, SP!ScanLock, SP!ScanUnlock, SP!ScanPush,
        SP!ScanEntry, SP!ScanExit
<1>3. ASSUME NEW w \in Workers, SP!WorkerStep(w)
      PROVE  UNCHANGED <<clock, latest>> /\ (readAcks' = readAcks \/ SP!ReadAck(w))
    BY <1>3 DEF SP!WorkerStep, SP!LoopTop, SP!LoopStop, SP!Leave, SP!PopItem, SP!PopWait,
        SP!PopStopped, SP!DialOk, SP!DialFail, SP!BackoffOver, SP!SendFileHeader,
        SP!SendFileBody, SP!ReadAck, SP!TransferFail, SP!PostCommit, SP!RecordSuccess,
        SP!MarkCompleted
<1>. QED BY <1>1, <1>2, <1>3 DEF SP!SenderNext

\* The sender writes the header of the version that is in the directory.
LEMMA SentGrows ==
    ASSUME SP!TypeOK, SenderStep, NEW n \in Names, NEW v \in Nat, <<n, v>> \in sent'
    PROVE  <<n, v>> \in sent \/ (v # 0 /\ v = dir[n])
<1>. SP!SenderNext
    BY SameSender DEF SenderStep
<1>1. ASSUME NEW w \in Workers, SP!SendFileHeader(w)
      PROVE  <<n, v>> \in sent \/ (v # 0 /\ v = dir[n])
    BY <1>1, WriteHeader DEF Header
<1>2. CASE \A w \in Workers : ~SP!SendFileHeader(w)
  <2>1. \A c \in Conns : net[c].req.body = "none" => net'[c].req.body # "pending"
    <3>. net \in [Conns -> SP!Links]
      BY LinkTypes
    <3>. DEFINE Goal == \A c \in Conns : net[c].req.body = "none" => net'[c].req.body # "pending"
    <3>1. \A c \in Conns : net[c].req.body = "none" => SP!CliGone(net[c]).req.body # "pending"
      BY DEF SP!CliGone, SP!Links, SP!IdleLink, SP!NoReq
    <3>2. CASE SP!Crash
      BY <3>1, <3>2 DEF SP!Crash
    <3>3. ASSUME NEW w \in Workers, SP!CloseConn(w) PROVE Goal
      <4>1. conn[w] \in Conns \cup {NoConn}
        BY DEF SP!TypeOK
      <4>. QED BY <3>1, <3>3, <4>1 DEF SP!CloseConn, SP!CloseClient
    <3>4. ASSUME NEW w \in Workers, NEW c \in Conns, SP!DialOk(w, c) PROVE Goal
      BY <3>4 DEF SP!DialOk, SP!Dial, SP!NoReq
    <3>5. ASSUME NEW w \in Workers, SP!SendFileBody(w) PROVE Goal
      <4>1. conn[w] \in Conns
        BY <3>5 DEF SP!SendFileBody, SP!TypeOK, SP!Talking
      <4>. QED BY <3>5, <4>1 DEF SP!SendFileBody, SP!SendBody, SP!Links, SP!Requests
    <3>6. ASSUME NEW w \in Workers, SP!ReadAck(w) PROVE Goal
      <4>1. conn[w] \in Conns
        BY <3>6 DEF SP!ReadAck, SP!TypeOK, SP!Talking
      <4>. QED BY <3>6, <4>1 DEF SP!ReadAck, SP!ReadReply, SP!Links, SP!NoReq
    <3>7. CASE UNCHANGED net
      BY <3>7
    <3>. QED
      BY <1>2, <3>2, <3>3, <3>4, <3>5, <3>6, <3>7
         DEF SP!SenderNext, SP!StopProgress, SP!ScannerStep, SP!WorkerStep, SP!Start,
          SP!ScannerStop, SP!PoolStop, SP!QueueStop, SP!PoolDone, SP!ScanRead, SP!ScanLock,
          SP!ScanUnlock, SP!ScanPush, SP!ScanEntry, SP!ScanExit, SP!LoopTop, SP!LoopStop,
          SP!Leave, SP!PopItem, SP!PopWait, SP!PopStopped, SP!DialFail, SP!BackoffOver,
          SP!TransferFail, SP!PostCommit, SP!RecordSuccess, SP!MarkCompleted
  <2>. QED BY <2>1, HeadedNone
<1>. QED BY <1>1, <1>2

\* A step of the sender keeps OnceSysInv: the ACK it reads is for the file it sent.
LEMMA OnceSender ==
    ASSUME Producer = "once", SysInv, OnceSysInv, SenderStep PROVE OnceSysInv'
<1>. SP!SenderNext /\ SP!Next /\ SP!TypeOK /\ ClientStep /\ net \in [Conns -> SP!Links]
    BY SameSender, SenderIsClient, LinkTypes DEF SenderStep, SysInv, SP!Next
<1>. ackedSeq' = ackedSeq
    BY DEF SenderStep, rvars
<1>1. SP!OnceInv'
    BY SP!OnceStep, SystemAssumption DEF OnceSysInv
<1>2. VersionInv'
  <2>1. CASE readAcks' = readAcks
    BY <2>1, SenderGhosts DEF OnceSysInv, VersionInv
  <2>2. ASSUME NEW w \in Workers, SP!ReadAck(w) PROVE \A v \in readAcks' : v <= clock
    <3>1. item[w].name \in Names /\ wpc[w] = "resp" /\ readAcks' = readAcks \cup {sver[w]}
      BY <2>2 DEF SP!ReadAck, SP!TypeOK, SP!Talking, SP!Busy, SP!Items
    <3>2. sver[w] = latest[item[w].name]
      BY <3>1 DEF OnceSysInv, SP!OnceInv
    <3>. QED BY <3>1, <3>2 DEF OnceSysInv, VersionInv
  <2>. QED BY <2>1, <2>2, SenderGhosts DEF OnceSysInv, VersionInv
<1>3. SentInv'
  <2>1. \A n \in Names : dir[n] # 0 => dir[n] = latest[n]
    BY DEF OnceSysInv, SP!OnceInv
  <2>. QED BY <2>1, SenderGhosts, SentGrows DEF OnceSysInv, SentInv
<1>4. TalkInv'
    BY TalkSender DEF OnceSysInv
<1>5. ReplyInv'
    BY ClientReplies DEF OnceSysInv, ReplyInv
<1>6. ReadInv'
  <2>1. CASE readAcks' = readAcks
    BY <2>1, SenderGhosts DEF OnceSysInv, ReadInv
  <2>2. ASSUME NEW w \in Workers, SP!ReadAck(w) PROVE ReadInv'
    <3>1. /\ conn[w] \in Conns /\ net[conn[w]].rsp = "ack" /\ wpc[w] = "resp"
          /\ item[w].name \in Names /\ readAcks' = readAcks \cup {sver[w]}
      BY <2>2 DEF SP!ReadAck, SP!TypeOK, SP!Talking, SP!Busy, SP!Items
    <3>2. net[conn[w]].req.name = item[w].name /\ sver[w] = latest[item[w].name]
      BY <3>1 DEF OnceSysInv, TalkInv, SP!OnceInv
    <3>3. ackedSeq[item[w].name] > 0
      BY <3>1, <3>2 DEF OnceSysInv, ReplyInv
    <3>4. \A n \in Names : latest[n] = sver[w] => n = item[w].name \/ latest[n] = 0
      BY <3>1, <3>2 DEF OnceSysInv, VersionInv
    <3>. QED BY <3>1, <3>3, <3>4, SenderGhosts DEF OnceSysInv, ReadInv
  <2>. QED BY <2>1, <2>2, SenderGhosts
<1>. QED BY <1>1, <1>2, <1>3, <1>4, <1>5, <1>6 DEF OnceSysInv

\* A producer makes a new version under a new name.
LEMMA OnceProduce ==
    ASSUME Producer = "once", SysInv, OnceSysInv, NEW n \in Names, SP!Produce(n),
           UNCHANGED <<rvars, sent>>
    PROVE  OnceSysInv'
<1>. SP!TypeOK /\ SP!Next /\ ackedSeq' = ackedSeq
    BY DEF SysInv, SP!Next, SP!EnvStep, rvars
<1>1. /\ latest[n] = 0 /\ latest' = [latest EXCEPT ![n] = clock + 1] /\ clock' = clock + 1
      /\ clock \in Nat /\ latest \in [Names -> Nat] /\ readAcks \in SUBSET Nat
      /\ UNCHANGED <<net, wpc, item, sver, conn, readAcks>>
    BY DEF SP!Produce, SP!wvars, SP!TypeOK
<1>2. SP!OnceInv'
    BY SP!OnceStep, SystemAssumption DEF OnceSysInv
<1>3. VersionInv'
  <2>1. \A m \in Names : latest[m] <= clock /\ latest'[m] \in {latest[m], clock + 1}
    BY <1>1 DEF OnceSysInv, VersionInv
  <2>2. \A m \in Names : latest'[m] <= clock'
    BY <1>1, <2>1
  <2>3. \A v \in readAcks' : v <= clock'
    BY <1>1 DEF OnceSysInv, VersionInv
  <2>4. \A m \in Names \ {n} : latest'[m] = latest[m] /\ latest'[m] # clock + 1
    BY <1>1, <2>1
  <2>5. latest'[n] = clock + 1
    BY <1>1
  <2>6. \A m, k \in Names : latest[m] = latest[k] => m = k \/ latest[m] = 0
    BY DEF OnceSysInv, VersionInv
  <2>7. \A m, k \in Names : latest'[m] = latest'[k] => m = k \/ latest'[m] = 0
    BY <2>4, <2>5, <2>6
  <2>. QED BY <2>2, <2>3, <2>7 DEF VersionInv
<1>4. SentInv'
    BY <1>1 DEF OnceSysInv, SentInv
<1>5. TalkInv' /\ ReplyInv'
    BY <1>1 DEF OnceSysInv, TalkInv, ReplyInv
<1>6. ReadInv'
  <2>1. clock + 1 \notin readAcks
    BY <1>1 DEF OnceSysInv, VersionInv
  <2>. QED BY <1>1, <2>1 DEF OnceSysInv, ReadInv
<1>. QED BY <1>2, <1>3, <1>4, <1>5, <1>6 DEF OnceSysInv

\* The receiver sends no files.
LEMMA ServerSent ==
    ASSUME RP!ServerNext PROVE sent' = sent
<1>. USE DEF RP!bvars
<1>1. CASE \/ RP!Start \/ RP!StrayStart \/ RP!AcceptExit \/ RP!CloseStopCh \/ RP!CloseProgress
           \/ RP!Kill \/ RP!PowerLoss
    BY <1>1 DEF RP!Start, RP!StrayStart, RP!AcceptExit, RP!CloseStopCh, RP!CloseProgress,
        RP!CloseListener, RP!CloseConns, RP!CloseDone, RP!Kill, RP!PowerLoss, RP!ProcessDies
<1>2. ASSUME NEW c \in Conns, \/ RP!Accept(c) \/ RP!Register(c) \/ RP!HandlerProgress(c)
                              \/ RP!IdleTimeout(c) \/ RP!StreamStall(c)
      PROVE  sent' = sent
    BY <1>2 DEF RP!Accept, RP!Register, RP!HandlerProgress, RP!IdleTimeout, RP!StreamStall,
        RP!HandshakeOk, RP!HandshakeFail, RP!LoopTop, RP!ReadHeader, RP!HeaderError,
        RP!HeaderEOF, RP!StageOk, RP!StageFail, RP!StreamOk, RP!StreamError,
        RP!StreamFailed, RP!SyncOk, RP!SyncFail, RP!CloseFileOk, RP!CloseFileFail,
        RP!RenameOk, RP!RenameFail, RP!Renamed, RP!DirSyncOk, RP!DirSyncFail, RP!AckOk,
        RP!AckFail, RP!HandlerExit, RP!BarrierFailed
<1>. QED BY <1>1, <1>2 DEF RP!ServerNext

\* At the start nothing is sent, in hand or answered.
LEMMA OnceStart ==
    ASSUME Init PROVE OnceSysInv
<1>. SP!Init /\ R!Init
    BY SameSender DEF Init
<1>1. SP!OnceInv
    BY SP!OnceInit, SystemAssumption
<1>2. VersionInv /\ ReadInv /\ SentInv
    BY DEF SP!Init, R!Init, VersionInv, ReadInv, SentInv
<1>3. \A c \in Conns : net[c].rsp = "none"
    BY DEF SP!Init, SP!NetInit, SP!IdleLink
<1>4. \A w \in Workers : wpc[w] = "none" /\ conn[w] = NoConn
    BY DEF SP!Init
<1>. QED BY <1>1, <1>2, <1>3, <1>4, SystemAssumption DEF OnceSysInv, TalkInv, ReplyInv

LEMMA OnceStep ==
    ASSUME Producer = "once", SysInv, OnceSysInv, [Next]_vars PROVE OnceSysInv'
<1>1. CASE SenderStep
    BY <1>1, OnceSender
<1>2. CASE ProducerStep
    BY <1>2, SameSender, OnceProduce DEF ProducerStep
<1>3. CASE ReceiverStep
    BY <1>3, SameReceiver, ServerSent, OnceReceiver DEF ReceiverStep
<1>4. CASE UNCHANGED vars
    BY <1>4 DEF vars, svars, rvars, OnceSysInv, SP!OnceInv, SP!NothingLost, VersionInv,
        SentInv, TalkInv, ReplyInv, ReadInv
<1>. QED BY <1>1, <1>2, <1>3, <1>4 DEF Next

\* What the receiver has made durable under a name is the version produced under it.
LEMMA AckedIsStored ==
    ASSUME RP!IInv, SentInv, NEW n \in Names, ackedSeq[n] > 0
    PROVE  StoredSafely(n, latest[n])
<1>1. \A f \in {disk[n]} \cup maybe[n] : f \in RP!Files
    BY DEF RP!IInv, RP!TypeOK
<1>2. ackedSeq[n] \in Nat /\ visible[n] \in {disk[n]} \cup maybe[n]
    BY DEF RP!IInv, RP!TypeOK, RP!DurInv
<1>3. ASSUME NEW f \in {disk[n]} \cup maybe[n]
      PROVE  f.synced /\ f.ver = latest[n]
  <2>1. f.seq \in Nat /\ f.ver \in Nat /\ disk[n].seq \in Nat
    BY <1>1 DEF RP!Files
  <2>2. f.seq > 0
    BY <1>2, <2>1 DEF RP!IInv, RP!DurInv
  <2>. QED BY <2>1, <2>2 DEF RP!IInv, RP!IntactInv, SentInv
<1>. QED BY <1>2, <1>3 DEF StoredSafely, R!CrashFiles, R!Survivor

\* NeverLost, end to end: with producers that use every name once, the version put
\* under a name is in the watch directory, in .failed/, or at the receiver under that
\* name and there after any power loss; also after lost ACKs, failed renames, kills of
\* either process, shutdowns and restarts (workerLoop and postCommit of client.go,
\* handleConnection of listener.go, the commit barrier of committer.go).
THEOREM SystemNeverLost ==
    ASSUME Producer = "once" PROVE Spec => []NeverLost
<1>1. Init => OnceSysInv
    BY OnceStart
<1>2. SysInv /\ OnceSysInv /\ [Next]_vars => OnceSysInv'
    BY OnceStep
<1>3. SysInv /\ OnceSysInv => NeverLost
  <2>. SUFFICES ASSUME SysInv, OnceSysInv, NEW n \in Names
                PROVE  \/ latest[n] = 0 \/ latest[n] \in {dir[n], failedDir[n]}
                       \/ StoredSafely(n, latest[n])
    BY DEF NeverLost
  <2>1. latest[n] = 0 \/ latest[n] \in readAcks \cup {dir[n], failedDir[n]}
    BY DEF OnceSysInv, SP!OnceInv, SP!NothingLost
  <2>2. latest[n] # 0 /\ latest[n] \in readAcks => StoredSafely(n, latest[n])
    BY AckedIsStored DEF SysInv, OnceSysInv, ReadInv
  <2>. QED BY <2>1, <2>2
<1>. QED BY <1>1, <1>2, <1>3, SysInductive, PTL DEF Spec
============================================================================
