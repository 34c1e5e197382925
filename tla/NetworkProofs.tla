--------------------------- MODULE NetworkProofs ---------------------------
(***************************************************************************)
(* The operations of Network keep net in its type.                         *)
(***************************************************************************)
EXTENDS Network, TLAPS

\* What either end does to a link gives a link.
LEMMA LinkOps ==
    ASSUME NEW l \in Links
    PROVE  /\ IdleLink \in Links
           /\ SrvGone(l) \in Links
           /\ CliGone(l) \in Links
           /\ \A k \in Replies : Answered(l, k) \in Links
           /\ \A s \in {"none", "backlog", "open", "closed"} : [l EXCEPT !.srv = s] \in Links
BY DEF Links, IdleLink, SrvGone, CliGone, Answered, Replies, Requests, NoReq

\* What the client's end does keeps every link a link.
LEMMA ClientOps ==
    ASSUME NetTypeOK, NEW c \in Conns,
           \/ Dial(c)
           \/ \E n \in Names \cup {NoName}, v \in Nat : SendHeader(c, n, v)
           \/ \E b \in {"full", "bad"} : SendBody(c, b)
           \/ ReadReply(c)
           \/ CloseClient(c)
    PROVE  NetTypeOK'
<1>1. CASE Dial(c)
    BY <1>1 DEF Dial, NetTypeOK, Links, Requests, Replies, NoReq
<1>2. ASSUME NEW n \in Names \cup {NoName}, NEW v \in Nat, SendHeader(c, n, v)
      PROVE  NetTypeOK'
    BY <1>2 DEF SendHeader, NetTypeOK, Links, Requests
<1>3. ASSUME NEW b \in {"full", "bad"}, SendBody(c, b)
      PROVE  NetTypeOK'
    BY <1>3 DEF SendBody, NetTypeOK, Links, Requests
<1>4. CASE ReadReply(c)
  <2>1. [net[c] EXCEPT !.rsp = "none", !.req = NoReq] \in Links
    BY DEF NetTypeOK, Links, NoReq, Requests, Replies
  <2>2. net' = [net EXCEPT ![c] = [net[c] EXCEPT !.rsp = "none", !.req = NoReq]]
    BY <1>4 DEF ReadReply, NetTypeOK
  <2>. QED BY <2>1, <2>2 DEF NetTypeOK
<1>5. CASE CloseClient(c)
    BY <1>5, LinkOps DEF CloseClient, NetTypeOK
<1>. QED BY <1>1, <1>2, <1>3, <1>4, <1>5
============================================================================
