--------------------------- MODULE ReceiverProofs ---------------------------
(***************************************************************************)
(* Receiver implies its safety properties, for every set of names,         *)
(* connections and staging names, any number of requests and crashes.      *)
(*                                                                         *)
(* The inductive invariant has four parts over TypeOK: which handler holds *)
(* which connection (LinkInv) and which staging file (StageInv), what may  *)
(* be in the socket buffers of a connection whose handler is at a given    *)
(* point (BufferInv), and how the directory on disk trails the visible one *)
(* (DurInv, IntactInv).                                                    *)
(***************************************************************************)
EXTENDS Receiver, NetworkProofs

\* A connection is with the backlog, with the accept loop or with one handler;
\* nobody holds a connection of a receiver that is down.
LinkInv ==
    /\ conns = {c \in Conns : pc[c] # "none"}
    /\ \A c \in Conns : pc[c] # "none" => net[c].srv \in {"open", "closed"}
    /\ \A c \in Conns : acc = c => pc[c] = "none" /\ net[c].srv = "open"
    /\ ~acceptor => acc = NoConn
    /\ srvState = "down" => ~acceptor /\ conns = {}

\* A handler holds a staging file of its own exactly while it is between
\* CreateStagedFile and the rename; a running receiver has no other.
StageInv ==
    /\ \A c \in Conns : pc[c] \notin Holding => hid[c] = NoId
    /\ \A c, d \in Conns : hid[c] = hid[d] => c = d \/ hid[c] = NoId
    /\ srvState # "down" => \A i \in staged : \E c \in Conns : hid[c] = i

\* A request is in the buffer before a reply to it is, and it is still there
\* while the handler works on it, under the name the handler took from it.
BufferInv ==
    /\ \A c \in Conns :
         net[c].req.body # "none" /\ net[c].req.name \in Names
            => <<net[c].req.name, net[c].req.ver>> \in sent
    /\ \A c \in Conns : net[c].srv = "backlog" \/ acc = c => net[c].rsp = "none"
    /\ \A c \in Conns :
         pc[c] \in {"handshake", "top", "hdr"} /\ HasHeader(c) => net[c].rsp = "none"
    /\ \A c \in Conns :
         pc[c] \in {"stage", "stream"}
            => HasHeader(c) /\ net[c].rsp = "none" /\ net[c].req.name = hname[c]
    /\ \A c \in Conns :
         pc[c] \in {"sync", "close", "rename", "dirsync", "ack"}
            => net[c].req.body = "read" /\ net[c].rsp = "none" /\ net[c].req.name = hname[c]

\* The visible entry is one a power loss may leave; what it may leave is never
\* older than what was synced, nor that older than what was ACKed.
DurInv ==
    /\ \A n \in Names : visible[n] \in {disk[n]} \cup maybe[n]
    /\ \A n \in Names : disk[n].seq <= commitSeq
    /\ \A n \in Names : \A f \in maybe[n] : disk[n].seq <= f.seq /\ f.seq <= commitSeq
    /\ \A n \in Names : acked[n] <= disk[n].seq
    /\ \A c \in Conns : pc[c] = "dirsync" => 0 < hseq[c] /\ hseq[c] <= visible[hname[c]].seq
    /\ \A c \in Conns : pc[c] = "ack" => 0 < hseq[c] /\ hseq[c] <= disk[hname[c]].seq

\* Every entry holds the synced payload of a request for its name; so does a
\* staging file that passed the trailer check, once it is synced.
IntactInv ==
    /\ \A n \in Names : \A f \in {disk[n]} \cup maybe[n] :
         f.seq > 0 => f.synced /\ <<n, f.ver>> \in sent
    /\ \A c \in Conns :
         pc[c] \in {"sync", "close", "rename"} => <<hname[c], content[hid[c]]>> \in sent
    /\ \A c \in Conns : pc[c] \in {"close", "rename"} => hid[c] \in synced

IInv == TypeOK /\ LinkInv /\ StageInv /\ BufferInv /\ DurInv /\ IntactInv

------------
\* Every step keeps the links links.
LEMMA NetStep ==
    ASSUME TypeOK, Next PROVE NetTypeOK'
<1>. NetTypeOK /\ nreq \in Nat
    BY DEF TypeOK
<1>1. ASSUME NEW c \in Conns, WriteNack(c) PROVE NetTypeOK'
    BY <1>1, LinkOps DEF WriteNack, NetTypeOK, Replies
<1>2. ASSUME NEW c \in Conns, Accept(c) PROVE NetTypeOK'
    BY <1>2 DEF Accept, NetTypeOK, Links
<1>3. ASSUME NEW c \in Conns, StreamOk(c) PROVE NetTypeOK'
    BY <1>3 DEF StreamOk, NetTypeOK, Links, Requests
<1>4. ASSUME NEW c \in Conns, AckOk(c) PROVE NetTypeOK'
    BY <1>4, LinkOps DEF AckOk, NetTypeOK, Replies
<1>5. ASSUME NEW c \in Conns, HandlerExit(c) PROVE NetTypeOK'
    BY <1>5, LinkOps DEF HandlerExit, NetTypeOK
<1>6. CASE CloseListener
    BY <1>6, LinkOps DEF CloseListener, NetTypeOK
<1>7. CASE CloseConns
    BY <1>7, LinkOps DEF CloseConns, NetTypeOK
<1>8. CASE ProcessDies
    BY <1>8, LinkOps DEF ProcessDies, NetTypeOK
<1>9. CASE PeerNext
    BY <1>9, ClientOps DEF PeerNext, PeerDial, PeerSend, PeerBody, PeerRead, PeerClose
<1>10. CASE UNCHANGED net
    BY <1>10 DEF NetTypeOK
<1>. QED
    BY <1>1, <1>2, <1>3, <1>4, <1>5, <1>6, <1>7, <1>8, <1>9, <1>10
       DEF Next, ServerNext, HandlerProgress, CloseProgress, Start, StrayStart, AcceptExit,
        CloseStopCh, CloseDone, Kill, PowerLoss, Register, HandshakeOk, HandshakeFail,
        LoopTop, ReadHeader, HeaderError, HeaderEOF, IdleTimeout, StageOk, StageFail,
        StreamError, StreamStall, StreamFailed, SyncOk, SyncFail, CloseFileOk,
        CloseFileFail, RenameOk, RenameFail, DirSyncOk, DirSyncFail, AckFail, BarrierFailed

\* The variables of a dead process are in their types.
LEMMA DeadTypes ==
    ASSUME TypeOK, ProcessDies
    PROVE  /\ pc' \in [Conns -> Pcs] /\ hname' \in [Conns -> Names \cup {NoName}]
           /\ hid' \in [Conns -> Ids \cup {NoId}] /\ hseq' \in [Conns -> Nat]
           /\ \A c \in Conns : pc'[c] = "none"
           /\ content' \in [Ids -> Nat] /\ synced' \in SUBSET Ids
           /\ acked' \in [Names -> Nat] /\ sent' \in SUBSET (Names \X Nat)
           /\ crashes' \in Nat /\ nreq' \in Nat /\ commitSeq' \in Nat
           /\ srvState' = "down" /\ acceptor' \in BOOLEAN
           /\ acc' \in Conns \cup {NoConn} /\ conns' \in SUBSET Conns
<1>1. /\ pc' \in [Conns -> Pcs] /\ hname' \in [Conns -> Names \cup {NoName}]
      /\ hid' \in [Conns -> Ids \cup {NoId}] /\ hseq' \in [Conns -> Nat]
    BY DEF TypeOK, ProcessDies, Pcs
<1>2. \A c \in Conns : pc'[c] = "none"
    BY DEF TypeOK, ProcessDies
<1>3. /\ content' \in [Ids -> Nat] /\ synced' \in SUBSET Ids
      /\ acked' \in [Names -> Nat] /\ sent' \in SUBSET (Names \X Nat)
    BY DEF TypeOK, ProcessDies
<1>4. crashes' \in Nat /\ nreq' \in Nat /\ commitSeq' \in Nat
    BY DEF TypeOK, ProcessDies
<1>5. /\ srvState' = "down" /\ acceptor' \in BOOLEAN
      /\ acc' \in Conns \cup {NoConn} /\ conns' \in SUBSET Conns
    BY DEF TypeOK, ProcessDies
<1>. QED BY <1>1, <1>2, <1>3, <1>4, <1>5

\* What a power loss may leave under a name is a file.
LEMMA CrashFilesType ==
    ASSUME TypeOK PROVE \A n \in Names : CrashFiles(n) \subseteq Files
BY DEF CrashFiles, Survivor, TypeOK, Files

\* Every step keeps the variables in their types.
LEMMA TypeStep ==
    ASSUME TypeOK, Next PROVE TypeOK'
<1>. NetTypeOK'
    BY NetStep
<1>. USE DEF hvars, lvars, fsvars, bvars, Goto, TypeOK, Pcs, InRequest, Holding
<1>1. CASE Start
    BY <1>1 DEF Start, BootCleanup
<1>2. CASE StrayStart
    BY <1>2 DEF StrayStart, BootCleanup
<1>3. CASE AcceptExit
    BY <1>3 DEF AcceptExit
<1>4. CASE CloseStopCh
    BY <1>4 DEF CloseStopCh
<1>5. CASE CloseListener
    BY <1>5 DEF CloseListener
<1>6. CASE CloseConns
    BY <1>6 DEF CloseConns
<1>7. CASE CloseDone
    BY <1>7 DEF CloseDone
<1>8. CASE Kill
    BY <1>8, DeadTypes DEF Kill
<1>9. CASE PowerLoss
  <2>1. visible' \in [Names -> Files]
    BY <1>9, CrashFilesType DEF PowerLoss
  <2>. QED
    BY <1>9, <2>1, DeadTypes DEF PowerLoss
<1>10. ASSUME NEW c \in Conns, Accept(c) PROVE TypeOK'
    BY <1>10 DEF Accept
<1>11. ASSUME NEW c \in Conns, Register(c) PROVE TypeOK'
    BY <1>11 DEF Register
<1>12. ASSUME NEW c \in Conns, HandshakeOk(c) PROVE TypeOK'
    BY <1>12 DEF HandshakeOk
<1>13. ASSUME NEW c \in Conns, HandshakeFail(c) PROVE TypeOK'
    BY <1>13 DEF HandshakeFail
<1>14. ASSUME NEW c \in Conns, LoopTop(c) PROVE TypeOK'
    BY <1>14 DEF LoopTop
<1>15. ASSUME NEW c \in Conns, ReadHeader(c) PROVE TypeOK'
    BY <1>15 DEF ReadHeader
<1>16. ASSUME NEW c \in Conns, HeaderError(c) PROVE TypeOK'
    BY <1>16 DEF HeaderError
<1>17. ASSUME NEW c \in Conns, HeaderEOF(c) PROVE TypeOK'
    BY <1>17 DEF HeaderEOF
<1>18. ASSUME NEW c \in Conns, IdleTimeout(c) PROVE TypeOK'
    BY <1>18 DEF IdleTimeout
<1>19. ASSUME NEW c \in Conns, StageOk(c) PROVE TypeOK'
    BY <1>19 DEF StageOk
<1>20. ASSUME NEW c \in Conns, StageFail(c) PROVE TypeOK'
    BY <1>20 DEF StageFail
<1>21. ASSUME NEW c \in Conns, StreamOk(c) PROVE TypeOK'
  <2>1. net[c].req.ver \in Nat
    BY DEF TypeOK, NetTypeOK, Links, Requests
  <2>. QED
    BY <1>21, <2>1 DEF StreamOk
<1>22. ASSUME NEW c \in Conns, StreamFailed(c) PROVE TypeOK'
    BY <1>22 DEF StreamFailed, Remove
<1>23. ASSUME NEW c \in Conns, SyncOk(c) PROVE TypeOK'
    BY <1>23 DEF SyncOk
<1>24. ASSUME NEW c \in Conns, SyncFail(c) PROVE TypeOK'
    BY <1>24 DEF SyncFail, Remove, BarrierFailed
<1>25. ASSUME NEW c \in Conns, CloseFileOk(c) PROVE TypeOK'
    BY <1>25 DEF CloseFileOk
<1>26. ASSUME NEW c \in Conns, CloseFileFail(c) PROVE TypeOK'
    BY <1>26 DEF CloseFileFail, Remove, BarrierFailed
<1>27. ASSUME NEW c \in Conns, RenameOk(c) PROVE TypeOK'
  <2>1. hname[c] \in Names /\ hid[c] \in Ids /\ Renamed(c) \in Files
    BY <1>27 DEF RenameOk, Renamed, TypeOK, Files, InRequest, Holding
  <2>. QED
    BY <1>27, <2>1 DEF RenameOk, Remove
<1>28. ASSUME NEW c \in Conns, RenameFail(c) PROVE TypeOK'
    BY <1>28 DEF RenameFail, Remove, BarrierFailed
<1>29. ASSUME NEW c \in Conns, DirSyncOk(c) PROVE TypeOK'
    BY <1>29 DEF DirSyncOk
<1>30. ASSUME NEW c \in Conns, DirSyncFail(c) PROVE TypeOK'
    BY <1>30 DEF DirSyncFail, BarrierFailed
<1>31. ASSUME NEW c \in Conns, AckOk(c) PROVE TypeOK'
    BY <1>31 DEF AckOk, MaxOf
<1>32. ASSUME NEW c \in Conns, AckFail(c) PROVE TypeOK'
    BY <1>32 DEF AckFail, BarrierFailed
<1>33. ASSUME NEW c \in Conns, HandlerExit(c) PROVE TypeOK'
    BY <1>33 DEF HandlerExit
<1>34. ASSUME NEW c \in Conns, PeerDial(c) PROVE TypeOK'
    BY <1>34 DEF PeerDial
<1>35. ASSUME NEW c \in Conns, NEW n \in Names \cup {NoName}, PeerSend(c, n) PROVE TypeOK'
    BY <1>35 DEF PeerSend
<1>36. ASSUME NEW c \in Conns, NEW b \in {"full", "bad"}, PeerBody(c, b) PROVE TypeOK'
    BY <1>36 DEF PeerBody
<1>37. ASSUME NEW c \in Conns, PeerRead(c) PROVE TypeOK'
    BY <1>37 DEF PeerRead
<1>38. ASSUME NEW c \in Conns, PeerClose(c) PROVE TypeOK'
    BY <1>38 DEF PeerClose
<1>. HIDE DEF hvars, lvars, fsvars, bvars, Goto, TypeOK, Pcs, InRequest, Holding
<1>. QED
    BY <1>1, <1>2, <1>3, <1>4, <1>5, <1>6, <1>7, <1>8, <1>9, <1>10, <1>11, <1>12,
        <1>13, <1>14, <1>15, <1>16, <1>17, <1>18, <1>19, <1>20, <1>21, <1>22, <1>23,
        <1>24, <1>25, <1>26, <1>27, <1>28, <1>29, <1>30, <1>31, <1>32, <1>33, <1>34,
        <1>35, <1>36, <1>37, <1>38 DEF Next, ServerNext, PeerNext, HandlerProgress,
        CloseProgress, StreamError, StreamStall

\* What an ignored WriteNack can change: the reply of its own connection.
LEMMA NackFrame ==
    ASSUME NetTypeOK, NEW c \in Conns, WriteNack(c), NEW d \in Conns
    PROVE  /\ net'[d].srv = net[d].srv /\ net'[d].req = net[d].req
           /\ d # c => net'[d] = net[d]
BY DEF NetTypeOK, WriteNack, Answered, Links

\* Handlers that give up with a NACK preserve BufferInv.
LEMMA NackBuffer ==
    ASSUME IInv, NEW c \in Conns, pc[c] # "none", WriteNack(c), Goto(c, "exit"),
           UNCHANGED <<hname, acc, sent>>
    PROVE  BufferInv'
<1>1. \A d \in Conns : net'[d].srv = net[d].srv /\ net'[d].req = net[d].req
    BY NackFrame DEF IInv, TypeOK
<1>2. \A d \in Conns : d # c => net'[d].rsp = net[d].rsp
    BY NackFrame DEF IInv, TypeOK
<1>3. net[c].srv # "backlog" /\ acc # c
    BY DEF IInv, LinkInv
<1>4. pc'[c] = "exit" /\ \A d \in Conns : d # c => pc'[d] = pc[d]
    BY DEF Goto, IInv, TypeOK
<1>. QED BY <1>1, <1>2, <1>3, <1>4 DEF IInv, BufferInv, HasHeader

\* Closing the listener only touches connections that no handler has.
LEMMA CloseListenerBuffer ==
    ASSUME IInv, CloseListener PROVE BufferInv'
<1>1. ASSUME NEW d \in Conns
      PROVE  \/ net'[d] = net[d] /\ net[d].srv # "backlog"
             \/ net'[d] = IdleLink /\ net[d].srv = "backlog"
             \/ /\ net[d].srv = "backlog" /\ net'[d].srv = "none"
                /\ net'[d].req = net[d].req /\ net'[d].rsp = net[d].rsp
    BY DEF CloseListener, SrvGone, IInv, TypeOK, NetTypeOK, Links
<1>2. IdleLink.req.body = "none" /\ IdleLink.rsp = "none" /\ IdleLink.srv = "none"
    BY DEF IdleLink, NoReq
<1>. QED
    BY <1>1, <1>2 DEF CloseListener, hvars, fsvars, bvars, IInv, LinkInv, BufferInv,
        HasHeader

\* The visible entry of a name lies between the durable one and the last rename.
LEMMA VisibleBounds ==
    ASSUME TypeOK, DurInv, NEW n \in Names
    PROVE  disk[n].seq <= visible[n].seq /\ visible[n].seq <= commitSeq
<1>1. CASE visible[n] = disk[n]
    BY <1>1 DEF TypeOK, Files, DurInv
<1>2. CASE visible[n] \in maybe[n]
    BY <1>2 DEF DurInv
<1>. QED BY <1>1, <1>2 DEF DurInv

\* Every step preserves LinkInv.
LEMMA LinkStep ==
    ASSUME IInv, Next PROVE LinkInv'
<1>. USE NoNameAssumption, ReceiverAssumption
       DEF hvars, lvars, fsvars, bvars, Goto, IInv, TypeOK, Pcs, InRequest, Holding,
           LinkInv, NetTypeOK, Links, Replies, Requests
<1>1. CASE Start
    BY <1>1 DEF Start, BootCleanup
<1>2. CASE StrayStart
    BY <1>2 DEF StrayStart, BootCleanup
<1>3. CASE AcceptExit
    BY <1>3 DEF AcceptExit
<1>4. CASE CloseStopCh
    BY <1>4 DEF CloseStopCh
<1>5. CASE CloseListener
    BY <1>5 DEF CloseListener, SrvGone, IdleLink, NoReq
<1>6. CASE CloseConns
    BY <1>6 DEF CloseConns
<1>7. CASE CloseDone
    BY <1>7 DEF CloseDone
<1>8. CASE Kill
    BY <1>8 DEF Kill, ProcessDies, SrvGone, IdleLink, NoReq
<1>9. CASE PowerLoss
    BY <1>9 DEF PowerLoss, ProcessDies, SrvGone, IdleLink, NoReq, CrashFiles,
        Survivor
<1>10. ASSUME NEW c \in Conns, Accept(c) PROVE LinkInv'
    BY <1>10 DEF Accept
<1>11. ASSUME NEW c \in Conns, Register(c) PROVE LinkInv'
    BY <1>11 DEF Register
<1>12. ASSUME NEW c \in Conns, HandshakeOk(c) PROVE LinkInv'
    BY <1>12 DEF HandshakeOk
<1>13. ASSUME NEW c \in Conns, HandshakeFail(c) PROVE LinkInv'
    BY <1>13 DEF HandshakeFail
<1>14. ASSUME NEW c \in Conns, LoopTop(c) PROVE LinkInv'
    BY <1>14 DEF LoopTop
<1>15. ASSUME NEW c \in Conns, ReadHeader(c) PROVE LinkInv'
    BY <1>15 DEF ReadHeader, HasHeader
<1>16. ASSUME NEW c \in Conns, HeaderError(c) PROVE LinkInv'
    BY <1>16 DEF HeaderError, HasHeader, WriteNack, Answered
<1>17. ASSUME NEW c \in Conns, HeaderEOF(c) PROVE LinkInv'
    BY <1>17 DEF HeaderEOF, ReadEnds
<1>18. ASSUME NEW c \in Conns, IdleTimeout(c) PROVE LinkInv'
    BY <1>18 DEF IdleTimeout, HasHeader
<1>19. ASSUME NEW c \in Conns, StageOk(c) PROVE LinkInv'
    BY <1>19 DEF StageOk
<1>20. ASSUME NEW c \in Conns, StageFail(c) PROVE LinkInv'
    BY <1>20 DEF StageFail, WriteNack, Answered
<1>21. ASSUME NEW c \in Conns, StreamOk(c) PROVE LinkInv'
    BY <1>21 DEF StreamOk
<1>22. ASSUME NEW c \in Conns, StreamFailed(c) PROVE LinkInv'
    BY <1>22 DEF StreamFailed, WriteNack, Answered
<1>23. ASSUME NEW c \in Conns, SyncOk(c) PROVE LinkInv'
    BY <1>23 DEF SyncOk
<1>24. ASSUME NEW c \in Conns, SyncFail(c) PROVE LinkInv'
    BY <1>24 DEF SyncFail, BarrierFailed, WriteNack, Answered
<1>25. ASSUME NEW c \in Conns, CloseFileOk(c) PROVE LinkInv'
    BY <1>25 DEF CloseFileOk
<1>26. ASSUME NEW c \in Conns, CloseFileFail(c) PROVE LinkInv'
    BY <1>26 DEF CloseFileFail, BarrierFailed, WriteNack, Answered
<1>27. ASSUME NEW c \in Conns, RenameOk(c) PROVE LinkInv'
    BY <1>27 DEF RenameOk, Renamed, Remove
<1>28. ASSUME NEW c \in Conns, RenameFail(c) PROVE LinkInv'
    BY <1>28 DEF RenameFail, BarrierFailed, WriteNack, Answered
<1>29. ASSUME NEW c \in Conns, DirSyncOk(c) PROVE LinkInv'
    BY <1>29 DEF DirSyncOk
<1>30. ASSUME NEW c \in Conns, DirSyncFail(c) PROVE LinkInv'
    BY <1>30 DEF DirSyncFail, BarrierFailed, WriteNack, Answered
<1>31. ASSUME NEW c \in Conns, AckOk(c) PROVE LinkInv'
    BY <1>31 DEF AckOk, Answered, MaxOf
<1>32. ASSUME NEW c \in Conns, AckFail(c) PROVE LinkInv'
    BY <1>32 DEF AckFail, BarrierFailed, WriteNack, Answered
<1>33. ASSUME NEW c \in Conns, HandlerExit(c) PROVE LinkInv'
    BY <1>33 DEF HandlerExit, SrvGone, IdleLink, NoReq
<1>34. ASSUME NEW c \in Conns, PeerDial(c) PROVE LinkInv'
    BY <1>34 DEF PeerDial, Dial, IdleLink, NoReq
<1>35. ASSUME NEW c \in Conns, NEW n \in Names \cup {NoName}, PeerSend(c, n) PROVE LinkInv'
    BY <1>35 DEF PeerSend, SendHeader
<1>36. ASSUME NEW c \in Conns, NEW b \in {"full", "bad"}, PeerBody(c, b) PROVE LinkInv'
    BY <1>36 DEF PeerBody, SendBody
<1>37. ASSUME NEW c \in Conns, PeerRead(c) PROVE LinkInv'
    BY <1>37 DEF PeerRead, ReadReply, NoReq
<1>38. ASSUME NEW c \in Conns, PeerClose(c) PROVE LinkInv'
    BY <1>38 DEF PeerClose, CloseClient, CliGone, IdleLink, NoReq
<1>. HIDE DEF hvars, lvars, fsvars, bvars, Goto, IInv, TypeOK, Pcs, InRequest, Holding,
         LinkInv, NetTypeOK, Links, Replies, Requests
<1>. QED
    BY <1>1, <1>2, <1>3, <1>4, <1>5, <1>6, <1>7, <1>8, <1>9, <1>10, <1>11, <1>12,
        <1>13, <1>14, <1>15, <1>16, <1>17, <1>18, <1>19, <1>20, <1>21, <1>22, <1>23,
        <1>24, <1>25, <1>26, <1>27, <1>28, <1>29, <1>30, <1>31, <1>32, <1>33, <1>34,
        <1>35, <1>36, <1>37, <1>38 DEF Next, ServerNext, PeerNext, HandlerProgress,
        CloseProgress, StreamError, StreamStall


\* Every step preserves StageInv.
LEMMA StageStep ==
    ASSUME IInv, Next PROVE StageInv'
<1>. USE NoNameAssumption, ReceiverAssumption
       DEF hvars, lvars, fsvars, bvars, Goto, IInv, TypeOK, Pcs, InRequest, Holding,
           LinkInv, StageInv
<1>1. CASE Start
    BY <1>1 DEF Start, BootCleanup
<1>2. CASE StrayStart
    BY <1>2 DEF StrayStart, BootCleanup
<1>3. CASE AcceptExit
    BY <1>3 DEF AcceptExit
<1>4. CASE CloseStopCh
    BY <1>4 DEF CloseStopCh
<1>5. CASE CloseListener
    BY <1>5 DEF CloseListener, SrvGone, IdleLink, NoReq
<1>6. CASE CloseConns
    BY <1>6 DEF CloseConns
<1>7. CASE CloseDone
    BY <1>7 DEF CloseDone
<1>8. CASE Kill
    BY <1>8 DEF Kill, ProcessDies, SrvGone, IdleLink, NoReq
<1>9. CASE PowerLoss
    BY <1>9 DEF PowerLoss, ProcessDies, SrvGone, IdleLink, NoReq, CrashFiles,
        Survivor
<1>10. ASSUME NEW c \in Conns, Accept(c) PROVE StageInv'
    BY <1>10 DEF Accept
<1>11. ASSUME NEW c \in Conns, Register(c) PROVE StageInv'
    BY <1>11 DEF Register
<1>12. ASSUME NEW c \in Conns, HandshakeOk(c) PROVE StageInv'
    BY <1>12 DEF HandshakeOk
<1>13. ASSUME NEW c \in Conns, HandshakeFail(c) PROVE StageInv'
    BY <1>13 DEF HandshakeFail
<1>14. ASSUME NEW c \in Conns, LoopTop(c) PROVE StageInv'
    BY <1>14 DEF LoopTop
<1>15. ASSUME NEW c \in Conns, ReadHeader(c) PROVE StageInv'
    BY <1>15 DEF ReadHeader, HasHeader
<1>16. ASSUME NEW c \in Conns, HeaderError(c) PROVE StageInv'
    BY <1>16 DEF HeaderError, HasHeader, WriteNack, Answered
<1>17. ASSUME NEW c \in Conns, HeaderEOF(c) PROVE StageInv'
    BY <1>17 DEF HeaderEOF, ReadEnds
<1>18. ASSUME NEW c \in Conns, IdleTimeout(c) PROVE StageInv'
    BY <1>18 DEF IdleTimeout, HasHeader
<1>19. ASSUME NEW c \in Conns, StageOk(c) PROVE StageInv'
    BY <1>19 DEF StageOk
<1>20. ASSUME NEW c \in Conns, StageFail(c) PROVE StageInv'
    BY <1>20 DEF StageFail, WriteNack, Answered
<1>21. ASSUME NEW c \in Conns, StreamOk(c) PROVE StageInv'
    BY <1>21 DEF StreamOk
<1>22. ASSUME NEW c \in Conns, StreamFailed(c) PROVE StageInv'
    BY <1>22 DEF StreamFailed, Remove, WriteNack, Answered
<1>23. ASSUME NEW c \in Conns, SyncOk(c) PROVE StageInv'
    BY <1>23 DEF SyncOk
<1>24. ASSUME NEW c \in Conns, SyncFail(c) PROVE StageInv'
    BY <1>24 DEF SyncFail, Remove, BarrierFailed, WriteNack, Answered
<1>25. ASSUME NEW c \in Conns, CloseFileOk(c) PROVE StageInv'
    BY <1>25 DEF CloseFileOk
<1>26. ASSUME NEW c \in Conns, CloseFileFail(c) PROVE StageInv'
    BY <1>26 DEF CloseFileFail, Remove, BarrierFailed, WriteNack, Answered
<1>27. ASSUME NEW c \in Conns, RenameOk(c) PROVE StageInv'
    BY <1>27 DEF RenameOk, Renamed, Remove
<1>28. ASSUME NEW c \in Conns, RenameFail(c) PROVE StageInv'
    BY <1>28 DEF RenameFail, Remove, BarrierFailed, WriteNack, Answered
<1>29. ASSUME NEW c \in Conns, DirSyncOk(c) PROVE StageInv'
    BY <1>29 DEF DirSyncOk
<1>30. ASSUME NEW c \in Conns, DirSyncFail(c) PROVE StageInv'
    BY <1>30 DEF DirSyncFail, BarrierFailed, WriteNack, Answered
<1>31. ASSUME NEW c \in Conns, AckOk(c) PROVE StageInv'
    BY <1>31 DEF AckOk, Answered, MaxOf
<1>32. ASSUME NEW c \in Conns, AckFail(c) PROVE StageInv'
    BY <1>32 DEF AckFail, BarrierFailed, WriteNack, Answered
<1>33. ASSUME NEW c \in Conns, HandlerExit(c) PROVE StageInv'
    BY <1>33 DEF HandlerExit, SrvGone, IdleLink, NoReq
<1>34. ASSUME NEW c \in Conns, PeerDial(c) PROVE StageInv'
    BY <1>34 DEF PeerDial, Dial, IdleLink, NoReq
<1>35. ASSUME NEW c \in Conns, NEW n \in Names \cup {NoName}, PeerSend(c, n) PROVE StageInv'
    BY <1>35 DEF PeerSend, SendHeader
<1>36. ASSUME NEW c \in Conns, NEW b \in {"full", "bad"}, PeerBody(c, b) PROVE StageInv'
    BY <1>36 DEF PeerBody, SendBody
<1>37. ASSUME NEW c \in Conns, PeerRead(c) PROVE StageInv'
    BY <1>37 DEF PeerRead, ReadReply, NoReq
<1>38. ASSUME NEW c \in Conns, PeerClose(c) PROVE StageInv'
    BY <1>38 DEF PeerClose, CloseClient, CliGone, IdleLink, NoReq
<1>. HIDE DEF hvars, lvars, fsvars, bvars, Goto, IInv, TypeOK, Pcs, InRequest, Holding,
         LinkInv, StageInv
<1>. QED
    BY <1>1, <1>2, <1>3, <1>4, <1>5, <1>6, <1>7, <1>8, <1>9, <1>10, <1>11, <1>12,
        <1>13, <1>14, <1>15, <1>16, <1>17, <1>18, <1>19, <1>20, <1>21, <1>22, <1>23,
        <1>24, <1>25, <1>26, <1>27, <1>28, <1>29, <1>30, <1>31, <1>32, <1>33, <1>34,
        <1>35, <1>36, <1>37, <1>38 DEF Next, ServerNext, PeerNext, HandlerProgress,
        CloseProgress, StreamError, StreamStall


\* Every step preserves DurInv.
LEMMA DurStep ==
    ASSUME IInv, Next PROVE DurInv'
<1>. USE NoNameAssumption, ReceiverAssumption
       DEF hvars, lvars, fsvars, bvars, Goto, IInv, TypeOK, Pcs, InRequest, Holding,
           Files, LinkInv, DurInv
<1>1. CASE Start
    BY <1>1 DEF Start, BootCleanup
<1>2. CASE StrayStart
    BY <1>2 DEF StrayStart, BootCleanup
<1>3. CASE AcceptExit
    BY <1>3 DEF AcceptExit
<1>4. CASE CloseStopCh
    BY <1>4 DEF CloseStopCh
<1>5. CASE CloseListener
    BY <1>5 DEF CloseListener, SrvGone, IdleLink, NoReq
<1>6. CASE CloseConns
    BY <1>6 DEF CloseConns
<1>7. CASE CloseDone
    BY <1>7 DEF CloseDone
<1>8. CASE Kill
    BY <1>8 DEF Kill, ProcessDies, SrvGone, IdleLink, NoReq
<1>9. CASE PowerLoss
  <2>1. ASSUME NEW n \in Names
        PROVE  /\ visible'[n] = disk'[n] /\ maybe'[n] = {}
               /\ \E f \in {disk[n]} \cup maybe[n] : visible'[n].seq = f.seq
    <3>1. PICK f \in {disk[n]} \cup maybe[n] : visible'[n] = Survivor(f)
        BY <1>9 DEF PowerLoss, CrashFiles
    <3>2. f \in Files
        BY DEF IInv, TypeOK
    <3>. QED BY <1>9, <3>1, <3>2 DEF PowerLoss, Survivor, Files
  <2>2. \A n \in Names : visible'[n].seq >= disk[n].seq /\ visible'[n].seq <= commitSeq
    BY <2>1 DEF IInv, TypeOK, Files, DurInv
  <2>3. \A c \in Conns : pc'[c] = "none"
    BY <1>9, DeadTypes DEF PowerLoss, IInv
  <2>4. \A n \in Names : acked[n] <= disk[n].seq /\ acked[n] \in Nat /\ disk[n].seq \in Nat
    BY DEF IInv, TypeOK, Files, DurInv
  <2>5. commitSeq' = commitSeq /\ acked' = acked
    BY <1>9 DEF PowerLoss, ProcessDies
  <2>6. \A n \in Names : disk'[n].seq \in Nat
    BY TypeStep DEF IInv, TypeOK, Files
  <2>. HIDE DEF IInv, TypeOK, LinkInv, DurInv, Files
  <2>7. ASSUME NEW n \in Names
        PROVE  /\ visible'[n] \in {disk'[n]} \cup maybe'[n]
               /\ disk'[n].seq <= commitSeq'
               /\ \A f \in maybe'[n] : disk'[n].seq <= f.seq /\ f.seq <= commitSeq'
               /\ acked'[n] <= disk'[n].seq
    BY <2>1, <2>2, <2>4, <2>5, <2>6
  <2>. QED BY <2>3, <2>7 DEF DurInv
<1>10. ASSUME NEW c \in Conns, Accept(c) PROVE DurInv'
    BY <1>10 DEF Accept
<1>11. ASSUME NEW c \in Conns, Register(c) PROVE DurInv'
    BY <1>11 DEF Register
<1>12. ASSUME NEW c \in Conns, HandshakeOk(c) PROVE DurInv'
    BY <1>12 DEF HandshakeOk
<1>13. ASSUME NEW c \in Conns, HandshakeFail(c) PROVE DurInv'
    BY <1>13 DEF HandshakeFail
<1>14. ASSUME NEW c \in Conns, LoopTop(c) PROVE DurInv'
    BY <1>14 DEF LoopTop
<1>15. ASSUME NEW c \in Conns, ReadHeader(c) PROVE DurInv'
    BY <1>15 DEF ReadHeader, HasHeader
<1>16. ASSUME NEW c \in Conns, HeaderError(c) PROVE DurInv'
    BY <1>16 DEF HeaderError, HasHeader, WriteNack, Answered
<1>17. ASSUME NEW c \in Conns, HeaderEOF(c) PROVE DurInv'
    BY <1>17 DEF HeaderEOF, ReadEnds
<1>18. ASSUME NEW c \in Conns, IdleTimeout(c) PROVE DurInv'
    BY <1>18 DEF IdleTimeout, HasHeader
<1>19. ASSUME NEW c \in Conns, StageOk(c) PROVE DurInv'
    BY <1>19 DEF StageOk
<1>20. ASSUME NEW c \in Conns, StageFail(c) PROVE DurInv'
    BY <1>20 DEF StageFail, WriteNack, Answered
<1>21. ASSUME NEW c \in Conns, StreamOk(c) PROVE DurInv'
    BY <1>21 DEF StreamOk
<1>22. ASSUME NEW c \in Conns, StreamFailed(c) PROVE DurInv'
    BY <1>22 DEF StreamFailed, Remove, WriteNack, Answered
<1>23. ASSUME NEW c \in Conns, SyncOk(c) PROVE DurInv'
    BY <1>23 DEF SyncOk
<1>24. ASSUME NEW c \in Conns, SyncFail(c) PROVE DurInv'
    BY <1>24 DEF SyncFail, Remove, BarrierFailed, WriteNack, Answered
<1>25. ASSUME NEW c \in Conns, CloseFileOk(c) PROVE DurInv'
    BY <1>25 DEF CloseFileOk
<1>26. ASSUME NEW c \in Conns, CloseFileFail(c) PROVE DurInv'
    BY <1>26 DEF CloseFileFail, Remove, BarrierFailed, WriteNack, Answered
<1>27. ASSUME NEW c \in Conns, RenameOk(c) PROVE DurInv'
    BY <1>27 DEF RenameOk, Renamed, Remove
<1>28. ASSUME NEW c \in Conns, RenameFail(c) PROVE DurInv'
    BY <1>28 DEF RenameFail, Remove, BarrierFailed, WriteNack, Answered
<1>29. ASSUME NEW c \in Conns, DirSyncOk(c) PROVE DurInv'
  <2>1. \A n \in Names : disk'[n] = visible[n] /\ maybe'[n] = {}
    BY <1>29 DEF DirSyncOk, IInv, TypeOK
  <2>2. \A n \in Names : disk[n].seq <= visible[n].seq /\ visible[n].seq <= commitSeq
    BY VisibleBounds DEF IInv
  <2>. QED
    BY <1>29, <2>1, <2>2 DEF DirSyncOk, Goto, lvars, bvars, IInv, TypeOK, Pcs, InRequest, Files, DurInv
<1>30. ASSUME NEW c \in Conns, DirSyncFail(c) PROVE DurInv'
    BY <1>30 DEF DirSyncFail, BarrierFailed, WriteNack, Answered
<1>31. ASSUME NEW c \in Conns, AckOk(c) PROVE DurInv'
    BY <1>31 DEF AckOk, Answered, MaxOf
<1>32. ASSUME NEW c \in Conns, AckFail(c) PROVE DurInv'
    BY <1>32 DEF AckFail, BarrierFailed, WriteNack, Answered
<1>33. ASSUME NEW c \in Conns, HandlerExit(c) PROVE DurInv'
    BY <1>33 DEF HandlerExit, SrvGone, IdleLink, NoReq
<1>34. ASSUME NEW c \in Conns, PeerDial(c) PROVE DurInv'
    BY <1>34 DEF PeerDial, Dial, IdleLink, NoReq
<1>35. ASSUME NEW c \in Conns, NEW n \in Names \cup {NoName}, PeerSend(c, n) PROVE DurInv'
    BY <1>35 DEF PeerSend, SendHeader
<1>36. ASSUME NEW c \in Conns, NEW b \in {"full", "bad"}, PeerBody(c, b) PROVE DurInv'
    BY <1>36 DEF PeerBody, SendBody
<1>37. ASSUME NEW c \in Conns, PeerRead(c) PROVE DurInv'
    BY <1>37 DEF PeerRead, ReadReply, NoReq
<1>38. ASSUME NEW c \in Conns, PeerClose(c) PROVE DurInv'
    BY <1>38 DEF PeerClose, CloseClient, CliGone, IdleLink, NoReq
<1>. HIDE DEF hvars, lvars, fsvars, bvars, Goto, IInv, TypeOK, Pcs, InRequest, Holding,
         Files, LinkInv, DurInv
<1>. QED
    BY <1>1, <1>2, <1>3, <1>4, <1>5, <1>6, <1>7, <1>8, <1>9, <1>10, <1>11, <1>12,
        <1>13, <1>14, <1>15, <1>16, <1>17, <1>18, <1>19, <1>20, <1>21, <1>22, <1>23,
        <1>24, <1>25, <1>26, <1>27, <1>28, <1>29, <1>30, <1>31, <1>32, <1>33, <1>34,
        <1>35, <1>36, <1>37, <1>38 DEF Next, ServerNext, PeerNext, HandlerProgress,
        CloseProgress, StreamError, StreamStall


\* Every step preserves BufferInv.
LEMMA BufferStep ==
    ASSUME IInv, Next PROVE BufferInv'
<1>. USE NoNameAssumption, ReceiverAssumption
       DEF hvars, lvars, fsvars, bvars, Goto, IInv, TypeOK, Pcs, InRequest, Holding
<1>1. CASE Start
    BY <1>1 DEF Start, LinkInv, BufferInv, NetTypeOK, Links, Replies, Requests,
        HasHeader
<1>2. CASE StrayStart
    BY <1>2 DEF StrayStart, LinkInv, BufferInv, NetTypeOK, Links, Replies, Requests,
        HasHeader
<1>3. CASE AcceptExit
    BY <1>3 DEF AcceptExit, LinkInv, BufferInv, NetTypeOK, Links, Replies, Requests,
        HasHeader
<1>4. CASE CloseStopCh
    BY <1>4 DEF CloseStopCh, LinkInv, BufferInv, NetTypeOK, Links, Replies,
        Requests, HasHeader
<1>5. CASE CloseListener
    BY <1>5, CloseListenerBuffer
<1>6. CASE CloseConns
    BY <1>6 DEF CloseConns, LinkInv, BufferInv, NetTypeOK, Links, Replies, Requests,
        HasHeader
<1>7. CASE CloseDone
    BY <1>7 DEF CloseDone, LinkInv, BufferInv, NetTypeOK, Links, Replies, Requests,
        HasHeader
<1>8. CASE Kill
    BY <1>8 DEF Kill, ProcessDies, SrvGone, IdleLink, NoReq, LinkInv, BufferInv,
        NetTypeOK, Links, Replies, Requests, HasHeader
<1>9. CASE PowerLoss
    BY <1>9 DEF PowerLoss, ProcessDies, SrvGone, IdleLink, NoReq, CrashFiles,
        Survivor, LinkInv, BufferInv, NetTypeOK, Links, Replies, Requests, HasHeader
<1>10. ASSUME NEW c \in Conns, Accept(c) PROVE BufferInv'
    BY <1>10 DEF Accept, LinkInv, BufferInv, NetTypeOK, Links, Replies, Requests,
        HasHeader
<1>11. ASSUME NEW c \in Conns, Register(c) PROVE BufferInv'
    BY <1>11 DEF Register, LinkInv, BufferInv, NetTypeOK, Links, Replies, Requests,
        HasHeader
<1>12. ASSUME NEW c \in Conns, HandshakeOk(c) PROVE BufferInv'
    BY <1>12 DEF HandshakeOk, LinkInv, BufferInv, NetTypeOK, Links, Replies,
        Requests, HasHeader
<1>13. ASSUME NEW c \in Conns, HandshakeFail(c) PROVE BufferInv'
    BY <1>13 DEF HandshakeFail, LinkInv, BufferInv, NetTypeOK, Links, Replies,
        Requests, HasHeader
<1>14. ASSUME NEW c \in Conns, LoopTop(c) PROVE BufferInv'
    BY <1>14 DEF LoopTop, LinkInv, BufferInv, NetTypeOK, Links, Replies, Requests,
        HasHeader
<1>15. ASSUME NEW c \in Conns, ReadHeader(c) PROVE BufferInv'
    BY <1>15 DEF ReadHeader, HasHeader, LinkInv, BufferInv, NetTypeOK, Links,
        Replies, Requests
<1>16. ASSUME NEW c \in Conns, HeaderError(c) PROVE BufferInv'
    BY <1>16, NackBuffer DEF HeaderError
<1>17. ASSUME NEW c \in Conns, HeaderEOF(c) PROVE BufferInv'
    BY <1>17 DEF HeaderEOF, ReadEnds, LinkInv, BufferInv, NetTypeOK, Links, Replies,
        Requests, HasHeader
<1>18. ASSUME NEW c \in Conns, IdleTimeout(c) PROVE BufferInv'
    BY <1>18 DEF IdleTimeout, HasHeader, LinkInv, BufferInv, NetTypeOK, Links,
        Replies, Requests
<1>19. ASSUME NEW c \in Conns, StageOk(c) PROVE BufferInv'
    BY <1>19 DEF StageOk, LinkInv, BufferInv, NetTypeOK, Links, Replies, Requests,
        HasHeader
<1>20. ASSUME NEW c \in Conns, StageFail(c) PROVE BufferInv'
    BY <1>20, NackBuffer DEF StageFail
<1>21. ASSUME NEW c \in Conns, StreamOk(c) PROVE BufferInv'
    BY <1>21 DEF StreamOk, LinkInv, BufferInv, NetTypeOK, Links, Replies, Requests,
        HasHeader
<1>22. ASSUME NEW c \in Conns, StreamFailed(c) PROVE BufferInv'
    BY <1>22, NackBuffer DEF StreamFailed
<1>23. ASSUME NEW c \in Conns, SyncOk(c) PROVE BufferInv'
    BY <1>23 DEF SyncOk, LinkInv, BufferInv, NetTypeOK, Links, Replies, Requests,
        HasHeader
<1>24. ASSUME NEW c \in Conns, SyncFail(c) PROVE BufferInv'
    BY <1>24, NackBuffer DEF SyncFail, BarrierFailed
<1>25. ASSUME NEW c \in Conns, CloseFileOk(c) PROVE BufferInv'
    BY <1>25 DEF CloseFileOk, LinkInv, BufferInv, NetTypeOK, Links, Replies,
        Requests, HasHeader
<1>26. ASSUME NEW c \in Conns, CloseFileFail(c) PROVE BufferInv'
    BY <1>26, NackBuffer DEF CloseFileFail, BarrierFailed
<1>27. ASSUME NEW c \in Conns, RenameOk(c) PROVE BufferInv'
    BY <1>27 DEF RenameOk, Renamed, Remove, LinkInv, BufferInv, NetTypeOK, Links,
        Replies, Requests, HasHeader
<1>28. ASSUME NEW c \in Conns, RenameFail(c) PROVE BufferInv'
    BY <1>28, NackBuffer DEF RenameFail, BarrierFailed
<1>29. ASSUME NEW c \in Conns, DirSyncOk(c) PROVE BufferInv'
    BY <1>29 DEF DirSyncOk, LinkInv, BufferInv, NetTypeOK, Links, Replies, Requests,
        HasHeader
<1>30. ASSUME NEW c \in Conns, DirSyncFail(c) PROVE BufferInv'
    BY <1>30, NackBuffer DEF DirSyncFail, BarrierFailed
<1>31. ASSUME NEW c \in Conns, AckOk(c) PROVE BufferInv'
    BY <1>31 DEF AckOk, Answered, MaxOf, LinkInv, BufferInv, NetTypeOK, Links,
        Replies, Requests, HasHeader
<1>32. ASSUME NEW c \in Conns, AckFail(c) PROVE BufferInv'
    BY <1>32, NackBuffer DEF AckFail, BarrierFailed
<1>33. ASSUME NEW c \in Conns, HandlerExit(c) PROVE BufferInv'
    BY <1>33 DEF HandlerExit, SrvGone, IdleLink, NoReq, LinkInv, BufferInv,
        NetTypeOK, Links, Replies, Requests, HasHeader
<1>34. ASSUME NEW c \in Conns, PeerDial(c) PROVE BufferInv'
    BY <1>34 DEF PeerDial, Dial, IdleLink, NoReq, LinkInv, BufferInv, NetTypeOK,
        Links, Replies, Requests, HasHeader
<1>35. ASSUME NEW c \in Conns, NEW n \in Names \cup {NoName}, PeerSend(c, n) PROVE BufferInv'
    BY <1>35 DEF PeerSend, SendHeader, LinkInv, BufferInv, NetTypeOK, Links,
        Replies, Requests, HasHeader
<1>36. ASSUME NEW c \in Conns, NEW b \in {"full", "bad"}, PeerBody(c, b) PROVE BufferInv'
    BY <1>36 DEF PeerBody, SendBody, LinkInv, BufferInv, NetTypeOK, Links, Replies,
        Requests, HasHeader
<1>37. ASSUME NEW c \in Conns, PeerRead(c) PROVE BufferInv'
    BY <1>37 DEF PeerRead, ReadReply, NoReq, LinkInv, BufferInv, NetTypeOK, Links,
        Replies, Requests, HasHeader
<1>38. ASSUME NEW c \in Conns, PeerClose(c) PROVE BufferInv'
    BY <1>38 DEF PeerClose, CloseClient, CliGone, IdleLink, NoReq, LinkInv, BufferInv,
        NetTypeOK, Links, Replies, Requests, HasHeader
<1>. HIDE DEF hvars, lvars, fsvars, bvars, Goto, IInv, TypeOK, Pcs, InRequest, Holding
<1>. QED
    BY <1>1, <1>2, <1>3, <1>4, <1>5, <1>6, <1>7, <1>8, <1>9, <1>10, <1>11, <1>12,
        <1>13, <1>14, <1>15, <1>16, <1>17, <1>18, <1>19, <1>20, <1>21, <1>22, <1>23,
        <1>24, <1>25, <1>26, <1>27, <1>28, <1>29, <1>30, <1>31, <1>32, <1>33, <1>34,
        <1>35, <1>36, <1>37, <1>38 DEF Next, ServerNext, PeerNext, HandlerProgress,
        CloseProgress, StreamError, StreamStall


\* Every step preserves IntactInv.
LEMMA IntactStep ==
    ASSUME IInv, Next PROVE IntactInv'
<1>. USE NoNameAssumption, ReceiverAssumption
       DEF hvars, lvars, fsvars, bvars, Goto, IInv, TypeOK, Pcs, InRequest, Holding
<1>1. CASE Start
    BY <1>1 DEF Start, Files, LinkInv, StageInv, DurInv, BufferInv, IntactInv
<1>2. CASE StrayStart
    BY <1>2 DEF StrayStart, Files, LinkInv, StageInv, DurInv, BufferInv, IntactInv
<1>3. CASE AcceptExit
    BY <1>3 DEF AcceptExit, Files, LinkInv, StageInv, DurInv, BufferInv, IntactInv
<1>4. CASE CloseStopCh
    BY <1>4 DEF CloseStopCh, Files, LinkInv, StageInv, DurInv, BufferInv, IntactInv
<1>5. CASE CloseListener
    BY <1>5 DEF CloseListener, SrvGone, IdleLink, NoReq, Files, LinkInv, StageInv,
        DurInv, BufferInv, IntactInv
<1>6. CASE CloseConns
    BY <1>6 DEF CloseConns, Files, LinkInv, StageInv, DurInv, BufferInv, IntactInv
<1>7. CASE CloseDone
    BY <1>7 DEF CloseDone, Files, LinkInv, StageInv, DurInv, BufferInv, IntactInv
<1>8. CASE Kill
    BY <1>8 DEF Kill, ProcessDies, SrvGone, IdleLink, NoReq, Files, LinkInv,
        StageInv, DurInv, BufferInv, IntactInv
<1>9. CASE PowerLoss
  <2>1. ASSUME NEW n \in Names
        PROVE  /\ maybe'[n] = {}
               /\ disk'[n].seq > 0 => disk'[n].synced /\ <<n, disk'[n].ver>> \in sent
    <3>1. PICK f \in {disk[n]} \cup maybe[n] : visible'[n] = Survivor(f)
        BY <1>9 DEF PowerLoss, CrashFiles
    <3>2. f \in Files
        BY DEF IInv, TypeOK
    <3>3. f.seq > 0 => visible'[n] = f
        BY <3>1, <3>2 DEF Survivor, IInv, IntactInv
    <3>4. visible'[n].seq = f.seq
        BY <3>1, <3>2 DEF Survivor, Files
    <3>. QED BY <1>9, <3>3, <3>4 DEF PowerLoss, IInv, IntactInv
  <2>2. \A c \in Conns : pc'[c] = "none"
    BY <1>9, DeadTypes DEF PowerLoss, IInv
  <2>3. sent' = sent
    BY <1>9 DEF PowerLoss, ProcessDies
  <2>. QED
    BY <2>1, <2>2, <2>3 DEF IntactInv
<1>10. ASSUME NEW c \in Conns, Accept(c) PROVE IntactInv'
    BY <1>10 DEF Accept, Files, LinkInv, StageInv, DurInv, BufferInv, IntactInv
<1>11. ASSUME NEW c \in Conns, Register(c) PROVE IntactInv'
    BY <1>11 DEF Register, Files, LinkInv, StageInv, DurInv, BufferInv, IntactInv
<1>12. ASSUME NEW c \in Conns, HandshakeOk(c) PROVE IntactInv'
    BY <1>12 DEF HandshakeOk, Files, LinkInv, StageInv, DurInv, BufferInv, IntactInv
<1>13. ASSUME NEW c \in Conns, HandshakeFail(c) PROVE IntactInv'
    BY <1>13 DEF HandshakeFail, Files, LinkInv, StageInv, DurInv, BufferInv,
        IntactInv
<1>14. ASSUME NEW c \in Conns, LoopTop(c) PROVE IntactInv'
    BY <1>14 DEF LoopTop, Files, LinkInv, StageInv, DurInv, BufferInv, IntactInv
<1>15. ASSUME NEW c \in Conns, ReadHeader(c) PROVE IntactInv'
    BY <1>15 DEF ReadHeader, HasHeader, Files, LinkInv, StageInv, DurInv, BufferInv,
        IntactInv
<1>16. ASSUME NEW c \in Conns, HeaderError(c) PROVE IntactInv'
    BY <1>16 DEF HeaderError, HasHeader, WriteNack, Answered, Files, LinkInv,
        StageInv, DurInv, BufferInv, IntactInv
<1>17. ASSUME NEW c \in Conns, HeaderEOF(c) PROVE IntactInv'
    BY <1>17 DEF HeaderEOF, ReadEnds, Files, LinkInv, StageInv, DurInv, BufferInv,
        IntactInv
<1>18. ASSUME NEW c \in Conns, IdleTimeout(c) PROVE IntactInv'
    BY <1>18 DEF IdleTimeout, HasHeader, Files, LinkInv, StageInv, DurInv,
        BufferInv, IntactInv
<1>19. ASSUME NEW c \in Conns, StageOk(c) PROVE IntactInv'
    BY <1>19 DEF StageOk, Files, LinkInv, StageInv, DurInv, BufferInv, IntactInv
<1>20. ASSUME NEW c \in Conns, StageFail(c) PROVE IntactInv'
    BY <1>20 DEF StageFail, WriteNack, Answered, Files, LinkInv, StageInv, DurInv,
        BufferInv, IntactInv
<1>21. ASSUME NEW c \in Conns, StreamOk(c) PROVE IntactInv'
  <2>1. <<hname[c], net[c].req.ver>> \in sent
    BY <1>21 DEF StreamOk, IInv, TypeOK, InRequest, BufferInv
  <2>2. hid[c] \in Ids /\ content'[hid[c]] = net[c].req.ver
    BY <1>21 DEF StreamOk, IInv, TypeOK, Holding
  <2>3. ASSUME NEW d \in Conns, d # c, pc[d] \in Holding
        PROVE  content'[hid[d]] = content[hid[d]]
    BY <1>21, <2>2, <2>3, ReceiverAssumption DEF StreamOk, IInv, TypeOK, Holding, StageInv
  <2>. QED
    BY <1>21, <2>1, <2>2, <2>3
       DEF StreamOk, Goto, lvars, bvars, IInv, TypeOK, Pcs, Holding, IntactInv
<1>22. ASSUME NEW c \in Conns, StreamFailed(c) PROVE IntactInv'
    BY <1>22 DEF StreamFailed, Remove, WriteNack, Answered, Files, LinkInv,
        StageInv, DurInv, BufferInv, IntactInv
<1>23. ASSUME NEW c \in Conns, SyncOk(c) PROVE IntactInv'
    BY <1>23 DEF SyncOk, Files, LinkInv, StageInv, DurInv, BufferInv, IntactInv
<1>24. ASSUME NEW c \in Conns, SyncFail(c) PROVE IntactInv'
    BY <1>24 DEF SyncFail, Remove, BarrierFailed, WriteNack, Answered, Files,
        LinkInv, StageInv, DurInv, BufferInv, IntactInv
<1>25. ASSUME NEW c \in Conns, CloseFileOk(c) PROVE IntactInv'
    BY <1>25 DEF CloseFileOk, Files, LinkInv, StageInv, DurInv, BufferInv, IntactInv
<1>26. ASSUME NEW c \in Conns, CloseFileFail(c) PROVE IntactInv'
    BY <1>26 DEF CloseFileFail, Remove, BarrierFailed, WriteNack, Answered, Files,
        LinkInv, StageInv, DurInv, BufferInv, IntactInv
<1>27. ASSUME NEW c \in Conns, RenameOk(c) PROVE IntactInv'
  <2>1. Renamed(c).synced /\ <<hname[c], Renamed(c).ver>> \in sent
    BY <1>27 DEF RenameOk, Renamed, IInv, IntactInv
  <2>2. \A n \in Names : \A f \in maybe'[n] : f \in maybe[n] \/ (n = hname[c] /\ f = Renamed(c))
    <3>1. hname[c] \in Names /\ maybe \in [Names -> SUBSET Files]
        BY <1>27 DEF RenameOk, IInv, TypeOK, InRequest
    <3>2. maybe' = [maybe EXCEPT ![hname[c]] = maybe[hname[c]] \cup {Renamed(c)}]
        BY <1>27 DEF RenameOk
    <3>3. maybe'[hname[c]] = maybe[hname[c]] \cup {Renamed(c)}
        BY <3>1, <3>2
    <3>4. \A n \in Names : n # hname[c] => maybe'[n] = maybe[n]
        BY <3>1, <3>2
    <3>. QED BY <3>3, <3>4
  <2>3. \A d \in Conns : pc'[d] \in Holding => pc'[d] = pc[d] /\ hid'[d] = hid[d]
    BY <1>27 DEF RenameOk, Remove, Goto, IInv, TypeOK, Holding
  <2>4. ASSUME NEW d \in Conns, pc'[d] \in Holding
        PROVE  /\ content'[hid[d]] = content[hid[d]]
               /\ hid[d] \in synced => hid[d] \in synced'
    <3>1. d # c /\ pc[d] \in Holding /\ hid[d] \in Ids
      BY <1>27, <2>3, <2>4 DEF RenameOk, Goto, IInv, TypeOK, Holding
    <3>2. hid[d] # hid[c]
      BY <3>1, ReceiverAssumption DEF IInv, StageInv
    <3>. QED BY <1>27, <3>1, <3>2 DEF RenameOk, Remove, IInv, TypeOK
  <2>. QED
    BY <1>27, <2>1, <2>2, <2>3, <2>4 DEF RenameOk, lvars, bvars, IInv, Holding, IntactInv
<1>28. ASSUME NEW c \in Conns, RenameFail(c) PROVE IntactInv'
    BY <1>28 DEF RenameFail, Remove, BarrierFailed, WriteNack, Answered, Files,
        LinkInv, StageInv, DurInv, BufferInv, IntactInv
<1>29. ASSUME NEW c \in Conns, DirSyncOk(c) PROVE IntactInv'
    BY <1>29 DEF DirSyncOk, Files, LinkInv, StageInv, DurInv, BufferInv, IntactInv
<1>30. ASSUME NEW c \in Conns, DirSyncFail(c) PROVE IntactInv'
    BY <1>30 DEF DirSyncFail, BarrierFailed, WriteNack, Answered, Files, LinkInv,
        StageInv, DurInv, BufferInv, IntactInv
<1>31. ASSUME NEW c \in Conns, AckOk(c) PROVE IntactInv'
    BY <1>31 DEF AckOk, Answered, MaxOf, Files, LinkInv, StageInv, DurInv,
        BufferInv, IntactInv
<1>32. ASSUME NEW c \in Conns, AckFail(c) PROVE IntactInv'
    BY <1>32 DEF AckFail, BarrierFailed, WriteNack, Answered, Files, LinkInv,
        StageInv, DurInv, BufferInv, IntactInv
<1>33. ASSUME NEW c \in Conns, HandlerExit(c) PROVE IntactInv'
    BY <1>33 DEF HandlerExit, SrvGone, IdleLink, NoReq, Files, LinkInv, StageInv,
        DurInv, BufferInv, IntactInv
<1>34. ASSUME NEW c \in Conns, PeerDial(c) PROVE IntactInv'
    BY <1>34 DEF PeerDial, Dial, IdleLink, NoReq, Files, LinkInv, StageInv, DurInv,
        BufferInv, IntactInv
<1>35. ASSUME NEW c \in Conns, NEW n \in Names \cup {NoName}, PeerSend(c, n) PROVE IntactInv'
    BY <1>35 DEF PeerSend, SendHeader, Files, LinkInv, StageInv, DurInv, BufferInv,
        IntactInv
<1>36. ASSUME NEW c \in Conns, NEW b \in {"full", "bad"}, PeerBody(c, b) PROVE IntactInv'
    BY <1>36 DEF PeerBody, SendBody, Files, LinkInv, StageInv, DurInv, BufferInv,
        IntactInv
<1>37. ASSUME NEW c \in Conns, PeerRead(c) PROVE IntactInv'
    BY <1>37 DEF PeerRead, ReadReply, NoReq, Files, LinkInv, StageInv, DurInv,
        BufferInv, IntactInv
<1>38. ASSUME NEW c \in Conns, PeerClose(c) PROVE IntactInv'
    BY <1>38 DEF PeerClose, CloseClient, CliGone, IdleLink, NoReq, Files, LinkInv, StageInv,
        DurInv, BufferInv, IntactInv
<1>. HIDE DEF hvars, lvars, fsvars, bvars, Goto, IInv, TypeOK, Pcs, InRequest, Holding
<1>. QED
    BY <1>1, <1>2, <1>3, <1>4, <1>5, <1>6, <1>7, <1>8, <1>9, <1>10, <1>11, <1>12,
        <1>13, <1>14, <1>15, <1>16, <1>17, <1>18, <1>19, <1>20, <1>21, <1>22, <1>23,
        <1>24, <1>25, <1>26, <1>27, <1>28, <1>29, <1>30, <1>31, <1>32, <1>33, <1>34,
        <1>35, <1>36, <1>37, <1>38 DEF Next, ServerNext, PeerNext, HandlerProgress,
        CloseProgress, StreamError, StreamStall

----------------------------------------------------------------------------
\* The invariant holds at the start ...
LEMMA InvInit == ASSUME Init PROVE IInv
<1>1. TypeOK
    BY NoNameAssumption DEF Init, TypeOK, Pcs, InRequest, Holding, Files, NoFile,
        NetInit, NetTypeOK, Links, IdleLink, NoReq, Requests, Replies
<1>2. LinkInv /\ StageInv /\ BufferInv
    BY ReceiverAssumption DEF Init, NetInit, IdleLink, NoReq, LinkInv, StageInv,
        BufferInv, HasHeader
<1>3. DurInv /\ IntactInv
    BY DEF Init, NoFile, DurInv, IntactInv
<1>. QED BY <1>1, <1>2, <1>3 DEF IInv

\* ... and every step keeps it.
LEMMA InvStep == ASSUME IInv, Next PROVE IInv'
BY TypeStep, LinkStep, StageStep, BufferStep, DurStep, IntactStep DEF IInv

LEMMA Inductive == Spec => []IInv
<1>1. IInv /\ UNCHANGED vars => IInv'
    BY DEF vars, hvars, lvars, fsvars, bvars, IInv, TypeOK, NetTypeOK, LinkInv,
        StageInv, BufferInv, HasHeader, DurInv, IntactInv
<1>2. IInv /\ [Next]_vars => IInv'
    BY <1>1, InvStep
<1>. QED BY <1>2, InvInit, PTL DEF Spec

\* The receiver's variables stay in their types, and a handler that is past the
\* header has a valid name and, until its rename, a staging file.
THEOREM ReceiverTypeCorrect == Spec => []TypeOK
<1>1. IInv => TypeOK
    BY DEF IInv
<1>. QED BY <1>1, Inductive, PTL

\* An ACK is never written for a commit that a power loss could still undo:
\* Server.handleConnection with CommitBarrier, any number of handlers.
THEOREM ReceiverAckedDurable == Spec => []AckedDurable
<1>1. ASSUME IInv PROVE AckedDurable
  <2>1. SUFFICES ASSUME NEW n \in Names, NEW f \in {disk[n]} \cup maybe[n]
                 PROVE  Survivor(f).seq >= acked[n]
    BY DEF AckedDurable, CrashFiles
  <2>2. f \in Files /\ disk[n] \in Files /\ acked[n] \in Nat
    BY <1>1 DEF IInv, TypeOK
  <2>3. f.seq >= disk[n].seq /\ disk[n].seq >= acked[n]
    BY <1>1, <2>2 DEF IInv, DurInv, Files
  <2>4. Survivor(f).seq = f.seq
    BY <2>2 DEF Survivor, Files
  <2>. QED BY <2>2, <2>3, <2>4 DEF Files
<1>. QED BY <1>1, Inductive, PTL

\* Whatever crash happens, a final name holds nothing or the complete payload of
\* a request for that name.
THEOREM ReceiverCommittedIntact == Spec => []CommittedIntact
<1>1. ASSUME IInv PROVE CommittedIntact
  <2>1. SUFFICES ASSUME NEW n \in Names, NEW f \in CrashFiles(n) \cup {visible[n]}, f.seq > 0
                 PROVE  <<n, f.ver>> \in sent
    BY DEF CommittedIntact
  <2>2. PICK g \in {disk[n]} \cup maybe[n] : f = g \/ f = Survivor(g)
    BY <1>1 DEF CrashFiles, IInv, DurInv
  <2>3. g \in Files
    BY <1>1 DEF IInv, TypeOK
  <2>4. g.seq > 0
    BY <2>1, <2>2, <2>3 DEF Survivor, Files
  <2>. QED BY <1>1, <2>2, <2>4 DEF Survivor, IInv, IntactInv
<1>. QED BY <1>1, Inductive, PTL

\* No error path, restart or shutdown of the receiver leaves a staging file that
\* no live handler will rename or remove.
THEOREM ReceiverStagedOwned == Spec => []StagedOwned
<1>1. ASSUME IInv PROVE StagedOwned
    BY <1>1, ReceiverAssumption DEF IInv, TypeOK, StageInv, StagedOwned
<1>. QED BY <1>1, Inductive, PTL

----------------------------------------------------------------------------
(* Receiver implements DurableInbox.  To the invariant is added that the   *)
(* visible file of a name is the newest one a power loss may leave: a loss *)
(* goes back in time.                                                      *)

\* No rename that is not durable yet is newer than the visible one.
Newest ==
    \A n \in Names : \A f \in maybe[n] : f.seq <= visible[n].seq

\* All but four kinds of steps leave the inbox as it is, or hand in more.
LEMMA InboxFrame ==
    ASSUME Next
    PROVE  \/ \E c \in Conns : RenameOk(c) \/ AckOk(c) \/ DirSyncOk(c)
           \/ PowerLoss
           \/ /\ UNCHANGED <<visible, maybe, commitSeq, acked>>
              /\ sent \subseteq sent'
<1>. DEFINE Still == /\ UNCHANGED <<visible, maybe, commitSeq, acked>>
                     /\ sent \subseteq sent'
<1>. USE DEF fsvars, bvars
<1>1. CASE Start \/ StrayStart \/ AcceptExit \/ CloseStopCh \/ CloseProgress \/ Kill
    BY <1>1 DEF Start, StrayStart, AcceptExit, CloseStopCh, CloseProgress, CloseListener,
        CloseConns, CloseDone, Kill, ProcessDies
<1>2. ASSUME NEW c \in Conns,
             \/ Accept(c) \/ Register(c) \/ HandshakeOk(c) \/ HandshakeFail(c) \/ LoopTop(c)
             \/ ReadHeader(c) \/ HeaderError(c) \/ HeaderEOF(c) \/ IdleTimeout(c)
             \/ StageOk(c) \/ StageFail(c) \/ StreamOk(c) \/ StreamError(c) \/ StreamStall(c)
      PROVE  Still
    BY <1>2 DEF Accept, Register, HandshakeOk, HandshakeFail, LoopTop, ReadHeader,
        HeaderError, HeaderEOF, IdleTimeout, StageOk, StageFail, StreamOk, StreamError,
        StreamStall, StreamFailed
<1>3. ASSUME NEW c \in Conns,
             \/ SyncOk(c) \/ SyncFail(c) \/ CloseFileOk(c) \/ CloseFileFail(c)
             \/ RenameFail(c) \/ DirSyncFail(c) \/ AckFail(c) \/ HandlerExit(c)
      PROVE  Still
    BY <1>3 DEF SyncOk, SyncFail, CloseFileOk, CloseFileFail, RenameFail, DirSyncFail,
        AckFail, HandlerExit
<1>4. CASE PeerNext
    BY <1>4 DEF PeerNext, PeerDial, PeerSend, PeerBody, PeerRead, PeerClose
<1>. QED BY <1>1, <1>2, <1>3, <1>4 DEF Next, ServerNext, HandlerProgress

\* The rename of a handler, field by field.
LEMMA RenameFacts ==
    ASSUME IInv, NEW c \in Conns, RenameOk(c)
    PROVE  /\ hname[c] \in Names
           /\ Renamed(c).seq = commitSeq + 1
           /\ <<hname[c], Renamed(c).ver>> \in sent
           /\ visible' = [visible EXCEPT ![hname[c]] = Renamed(c)]
           /\ maybe' = [maybe EXCEPT ![hname[c]] = @ \cup {Renamed(c)}]
           /\ commitSeq' = commitSeq + 1 /\ acked' = acked /\ sent' = sent
BY DEF RenameOk, Renamed, IInv, TypeOK, InRequest, IntactInv, bvars

LEMMA NewestStep ==
    ASSUME IInv, Newest, Next PROVE Newest'
<1>. TypeOK /\ DurInv /\ \A n \in Names : visible[n] \in Files /\ maybe[n] \subseteq Files
    BY DEF IInv, TypeOK
<1>1. ASSUME NEW c \in Conns, RenameOk(c) PROVE Newest'
  <2>1. SUFFICES ASSUME NEW n \in Names, NEW f \in maybe'[n] PROVE f.seq <= visible'[n].seq
    BY DEF Newest
  <2>2. CASE n = hname[c]
    <3>1. visible'[n].seq = commitSeq + 1 /\ commitSeq \in Nat
      BY <1>1, <2>2, RenameFacts DEF TypeOK
    <3>2. maybe' = [maybe EXCEPT ![hname[c]] = @ \cup {Renamed(c)}]
      BY <1>1, RenameFacts
    <3>3. maybe'[n] = maybe[n] \cup {Renamed(c)}
      BY <2>2, <3>2 DEF TypeOK
    <3>4. CASE f \in maybe[n]
      <4>1. f.seq <= commitSeq /\ f.seq \in Nat
        BY <3>4 DEF DurInv, Files
      <4>. QED BY <3>1, <4>1
    <3>5. CASE f = Renamed(c)
      <4>1. f.seq = commitSeq + 1
        BY <1>1, <3>5, RenameFacts
      <4>. QED BY <3>1, <4>1
    <3>. QED BY <2>1, <3>3, <3>4, <3>5
  <2>3. CASE n # hname[c]
    <3>1. visible'[n] = visible[n] /\ maybe'[n] = maybe[n]
      BY <1>1, <2>3, RenameFacts DEF TypeOK
    <3>. QED BY <2>1, <3>1 DEF Newest
  <2>. QED BY <2>2, <2>3
<1>2. ASSUME NEW c \in Conns, AckOk(c) \/ DirSyncOk(c) PROVE Newest'
    BY <1>2 DEF AckOk, DirSyncOk, fsvars, Newest
<1>3. CASE PowerLoss
    BY <1>3 DEF PowerLoss, Newest
<1>. QED BY <1>1, <1>2, <1>3, InboxFrame DEF Newest

------------
(* Every step maps to a step of the inbox or to none.                      *)

file == [n \in Names |-> [seq |-> visible[n].seq, ver |-> visible[n].ver]]

\* A rename delivers.
LEMMA RenameDelivers ==
    ASSUME IInv, NEW c \in Conns, RenameOk(c) PROVE Inbox!Deliver(hname[c])
<1>. DEFINE n == hname[c]
            v == Renamed(c).ver
<1>1. /\ n \in Names /\ <<n, v>> \in sent
      /\ commitSeq' = commitSeq + 1 /\ sent' = sent /\ acked' = acked
    BY RenameFacts
<1>2. visible' = [visible EXCEPT ![n] = Renamed(c)] /\ visible \in [Names -> Files]
    BY RenameFacts DEF IInv, TypeOK
<1>3. file' = [file EXCEPT ![n] = [seq |-> commitSeq + 1, ver |-> v]]
    BY <1>1, <1>2, RenameFacts DEF file, Files
<1>4. v \in {o[2] : o \in sent}
    BY <1>1
<1>. QED BY <1>1, <1>3, <1>4 DEF Inbox!Deliver, file

\* An ACK confirms.
LEMMA AckConfirms ==
    ASSUME IInv, NEW c \in Conns, AckOk(c) PROVE Inbox!Confirm(hname[c])
<1>. DEFINE n == hname[c]
            s == MaxOf(acked[n], hseq[c])
<1>1. n \in Names /\ acked \in [Names -> Nat] /\ hseq[c] \in Nat /\ pc[c] = "ack"
    BY DEF AckOk, IInv, TypeOK, InRequest
<1>2. disk[n].seq \in Nat /\ visible[n].seq \in Nat /\ disk[n].seq <= visible[n].seq
    BY <1>1, VisibleBounds DEF IInv, TypeOK, Files
<1>3. acked[n] <= disk[n].seq /\ hseq[c] <= disk[n].seq
    BY <1>1 DEF IInv, DurInv
<1>4. s \in acked[n]..visible[n].seq
    BY <1>1, <1>2, <1>3 DEF MaxOf
<1>5. file[n].seq = visible[n].seq
    BY <1>1 DEF file
<1>6. acked' = [acked EXCEPT ![n] = s] /\ UNCHANGED <<sent, visible, commitSeq>>
    BY DEF AckOk, fsvars, bvars
<1>7. file' = file
    BY <1>6 DEF file
<1>. QED BY <1>4, <1>5, <1>6, <1>7 DEF Inbox!Confirm, file

\* A power loss takes back only what was not confirmed.
LEMMA PowerLossLoses ==
    ASSUME IInv, Newest, PowerLoss PROVE Inbox!Lose
<1>1. ASSUME NEW n \in Names
      PROVE  /\ visible'[n].seq >= acked[n] /\ visible'[n].seq <= visible[n].seq
             /\ visible'[n].seq > 0 => <<n, visible'[n].ver>> \in sent
  <2>1. PICK f \in {disk[n]} \cup maybe[n] : visible'[n] = Survivor(f)
    BY DEF PowerLoss, CrashFiles
  <2>2. f \in Files /\ disk[n] \in Files /\ visible[n] \in Files /\ acked[n] \in Nat
    BY DEF IInv, TypeOK
  <2>3. Survivor(f).seq = f.seq /\ (f.seq > 0 => Survivor(f).ver = f.ver)
    BY <2>2 DEF Survivor, IInv, IntactInv, Files
  <2>4. f.seq >= disk[n].seq /\ disk[n].seq >= acked[n]
    BY <2>2 DEF IInv, DurInv, Files
  <2>5. f.seq <= visible[n].seq
    BY <2>2, VisibleBounds DEF Newest, IInv
  <2>6. f.seq > 0 => <<n, f.ver>> \in sent
    BY DEF IInv, IntactInv
  <2>. QED BY <2>1, <2>2, <2>3, <2>4, <2>5, <2>6 DEF Files
<1>2. UNCHANGED <<sent, commitSeq, acked>>
    BY DEF PowerLoss, ProcessDies
<1>3. DOMAIN file' = Names
    BY DEF file
<1>4. ASSUME NEW n \in Names PROVE Inbox!MayRemain(n, file'[n])
    BY <1>1 DEF Inbox!MayRemain, file
<1>. QED BY <1>2, <1>3, <1>4 DEF Inbox!Lose, file

\* The receiver of listener.go, committer.go and stager.go implements the inbox.
THEOREM ReceiverImplementsInbox == Spec => ImplementsInbox
<1>1. Init => Inbox!Init
    BY DEF Init, Inbox!Init, Inbox!Empty, NoFile
<1>2. Init => Newest
    BY DEF Init, Newest
<1>3. ASSUME IInv, Newest, [Next]_vars PROVE Newest' /\ [Inbox!Next]_(Inbox!vars)
  <2>1. CASE UNCHANGED vars
    <3>1. UNCHANGED <<visible, maybe, commitSeq, acked, sent>>
      BY <2>1 DEF vars, fsvars, bvars
    <3>2. UNCHANGED Inbox!vars
      BY <3>1 DEF Inbox!vars
    <3>. QED BY <1>3, <3>1, <3>2 DEF Newest
  <2>2. CASE Next
    <3>1. ASSUME NEW c \in Conns, RenameOk(c) \/ AckOk(c) PROVE Inbox!Next
      <4>1. hname[c] \in Names
        BY <1>3, <3>1 DEF RenameOk, AckOk, IInv, TypeOK, InRequest
      <4>2. Inbox!Deliver(hname[c]) \/ Inbox!Confirm(hname[c])
        BY <1>3, <3>1, RenameDelivers, AckConfirms
      <4>. QED BY <4>1, <4>2 DEF Inbox!Next, Inbox!Deliver, Inbox!Confirm
    <3>2. ASSUME PowerLoss PROVE Inbox!Next
      BY <1>3, <3>2, PowerLossLoses DEF Inbox!Next
    <3>3. ASSUME NEW c \in Conns, DirSyncOk(c) PROVE UNCHANGED Inbox!vars
      BY <3>3 DEF DirSyncOk, bvars, Inbox!vars
    <3>4. ASSUME UNCHANGED <<visible, maybe, commitSeq, acked>>, sent \subseteq sent'
          PROVE  Inbox!Next
      <4>1. Inbox!Offer
        BY <3>4 DEF Inbox!Offer
      <4>. QED BY <4>1 DEF Inbox!Next
    <3>5. [Inbox!Next]_(Inbox!vars)
      BY <2>2, <3>1, <3>2, <3>3, <3>4, InboxFrame
    <3>. QED BY <1>3, <2>2, <3>5, NewestStep
  <2>. QED BY <1>3, <2>1, <2>2
<1>. QED BY <1>1, <1>2, <1>3, Inductive, PTL DEF Spec, ImplementsInbox, Inbox!Spec
============================================================================
