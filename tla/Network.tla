------------------------------ MODULE Network ------------------------------
(***************************************************************************)
(* The mutual-TLS connections between the sender's workers and the         *)
(* receiver's handlers, as the two programs use them.  TCP and crypto/tls  *)
(* are not part of the repository: what is modelled is what the calls in   *)
(* wire/protocol.go, sender/client.go and receiver/listener.go may observe.*)
(*                                                                         *)
(* A connection carries at most one request and one reply at a time,       *)
(* because the client reads the reply of a file before it sends the next   *)
(* header.  What one end wrote stays readable after that end has closed.   *)
(***************************************************************************)
EXTENDS Naturals

CONSTANTS
    Names,      \* file names that pass ValidateFilename
    NoName,     \* the name in a header that ReadRequestHeader rejects
    Conns       \* connection slots; a slot is dialled again once both ends are gone

ASSUME NoNameAssumption == NoName \notin Names

VARIABLE net    \* net[c]: the state of connection slot c

----------------------------------------------------------------------------
\* A request is a header, then a payload with its SHA-256 trailer.  `body' is
\* "pending" once the header is written, "full" when the payload and a matching
\* trailer follow, "bad" when the payload is short or does not match it, and "read"
\* once the server has taken all of it.  `ver' identifies the payload: 0 is no
\* payload at all.
Requests ==
    [name : Names \cup {NoName}, ver : Nat,
     body : {"none", "pending", "full", "bad", "read"}]

NoReq == [name |-> NoName, ver |-> 0, body |-> "none"]

\* The answer byte of WriteAck or WriteNack, "none" when there is nothing to read.
Replies == {"none", "ack", "nack"}

\* cli: the client's end.  srv: "backlog" until Accept returns the connection,
\* "closed" after Close() on a connection whose handler still runs, "none" when
\* no handler is left.
Links ==
    [cli : {"closed", "open"}, srv : {"none", "backlog", "open", "closed"},
     req : Requests, rsp : Replies]

IdleLink == [cli |-> "closed", srv |-> "none", req |-> NoReq, rsp |-> "none"]

NetTypeOK == net \in [Conns -> Links]

NetInit == net = [c \in Conns |-> IdleLink]

----------------------------------------------------------------------------
(* The client's end.                                                       *)

\* net.Dial and the client's half of the TLS 1.3 handshake.
Dial(c) ==
    /\ net[c] = IdleLink
    /\ net' = [net EXCEPT ![c] = [cli |-> "open", srv |-> "backlog",
                                   req |-> NoReq, rsp |-> "none"]]

\* WriteRequestHeader; n = NoName is a header the receiver will reject.
SendHeader(c, n, v) ==
    /\ net[c].cli = "open"
    /\ net[c].req.body = "none"
    /\ net[c].rsp = "none"
    /\ net' = [net EXCEPT ![c].req = [name |-> n, ver |-> v, body |-> "pending"]]

\* SendStream ran to its end ("full"), or what followed the header is not the
\* announced payload with its trailer ("bad").
SendBody(c, b) ==
    /\ net[c].cli = "open"
    /\ net[c].req.body = "pending"
    /\ net' = [net EXCEPT ![c].req.body = b]

\* ReadResponse; the exchange of this file is over.
ReadReply(c) ==
    /\ net[c].cli = "open"
    /\ net[c].rsp # "none"
    /\ net' = [net EXCEPT ![c].rsp = "none", ![c].req = NoReq]

\* The link after the client's end is gone; the server may still read what was sent.
CliGone(l) ==
    IF l.srv = "none" THEN IdleLink
    ELSE [l EXCEPT !.cli = "closed", !.rsp = "none"]

\* Close of the client's end.
CloseClient(c) ==
    /\ net[c].cli = "open"
    /\ net' = [net EXCEPT ![c] = CliGone(net[c])]

----------------------------------------------------------------------------
(* The server's end.                                                       *)

\* The link after the server's end is gone for good.
SrvGone(l) ==
    IF l.cli = "closed" THEN IdleLink ELSE [l EXCEPT !.srv = "none"]

\* The link after a successful write of answer k: only an open client gets it.
Answered(l, k) ==
    IF l.cli = "open" THEN [l EXCEPT !.rsp = k] ELSE l

\* A frame that is complete in the server's receive buffer.
HasHeader(c) == net[c].req.body \in {"pending", "full", "bad"}
HasBody(c) == net[c].req.body \in {"full", "bad"}

\* A read with nothing buffered ends: the client closed, or this end did.
ReadEnds(c) == net[c].cli = "closed" \/ net[c].srv = "closed"
============================================================================
