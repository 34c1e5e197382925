------------------------------- MODULE Wire -------------------------------
(***************************************************************************)
(* The XP1 framing of wire/protocol.go on one persistent connection: which *)
(* bytes transferFile writes, which ones handleConnection takes for what,  *)
(* and how the two stay in step over several files, over files that change *)
(* while they are read and over connections that end anywhere.             *)
(*                                                                         *)
(* What is under way is a sequence of bytes that say nothing of what they  *)
(* were written as: the handler reads them by its own count.  Bytes have   *)
(* ByteBits bits, the fields of the header and the trailer any length.     *)
(***************************************************************************)
EXTENDS Integers, Sequences

CONSTANTS
    ByteBits,       \* bits of a byte
    Magic,          \* MagicBytes
    LenLen,         \* bytes of the name length, 2 in XP1
    SizeLen,        \* bytes of payloadSize, 8 in XP1
    SumLen,         \* HashSize
    Sum(_),         \* SHA-256; nothing is assumed of it but its length
    MaxName,        \* MaxFilenameLen
    ValidNames,     \* what passes ValidateFilename
    MaxLen,         \* bound: the length of the file
    AskedTenths,    \* the number in -max-size, in tenths
    Unit,           \* the multiplier of its unit
    OtherSizes,     \* sizes a peer may announce that are not the file's
    MaxReqs,        \* bound: requests
    MaxChanges      \* bound: changes of the file while it is read

Base == 2^ByteBits
Byte == 0..(Base - 1)
Width == ByteBits * SizeLen     \* bits of payloadSize and maxSize

Contents == UNION {[1..n -> Byte] : n \in 0..MaxLen}

\* binary.BigEndian: k bytes for the number v, and the number that bytes stand for.
Encode(k, v) == [i \in 1..k |-> (v \div Base^(k - i)) % Base]

Decode(s) ==
    LET value[i \in 0..Len(s)] == IF i = 0 THEN 0 ELSE value[i - 1] * Base + s[i]
    IN  value[Len(s)]

\* ParseByteSize: the number times the unit, cut off.  The conversion of a float64
\* that does not fit is up to the platform: one gives 2^(Width-1), another the maximum.
ParseByteSize ==
    LET v == (AskedTenths * Unit) \div 10
    IN  IF v < 2^Width THEN {v} ELSE {2^(Width - 1), 2^Width - 1}

ASSUME WireAssumption ==
    /\ ByteBits \in Nat \ {0} /\ LenLen \in Nat \ {0} /\ SizeLen \in Nat \ {0}
    /\ SumLen \in Nat \ {0} /\ MaxName \in Nat /\ MaxLen \in Nat
    /\ Magic \in Seq(Byte) /\ Magic # <<>>
    /\ ValidNames \subseteq Seq(Byte) /\ \A n \in ValidNames : Len(n) \in 1..MaxName
    /\ AskedTenths \in Nat /\ Unit \in Nat \ {0}
    /\ OtherSizes \subseteq 0..(2^Width - 1) /\ 0..MaxLen \subseteq 0..(2^Width - 1)
    /\ MaxReqs \in Nat /\ MaxChanges \in Nat

\* hasher.Sum of any payload is SumLen bytes.
ASSUME SumAssumption ==
    \A n \in 0..(2^Width - 1) : \A s \in [1..n -> Byte] : Sum(s) \in [1..SumLen -> Byte]

\* Facts of arithmetic; the provers know nothing of powers.  The last one is about the
\* constants: every length allowed fits into its field.
ASSUME PowerAssumption ==
    /\ 2^(Width - 1) \in Nat \ {0} /\ 2^(Width - 1) < 2^Width
    /\ 2^Width \in Nat /\ Base^SizeLen = 2^Width
    /\ Base^LenLen \in Nat /\ MaxName < Base^LenLen

\* Encoded numbers have their length and are decoded to themselves; any k bytes are some
\* number below Base^k.
ASSUME CodingAssumption ==
    \A k \in {LenLen, SizeLen} :
        /\ \A v \in 0..(Base^k - 1) : Encode(k, v) \in [1..k -> Byte] /\ Decode(Encode(k, v)) = v
        /\ \A s \in [1..k -> Byte] : Decode(s) \in 0..(Base^k - 1)

VARIABLES
    file,       \* what is in the file now
    cli,        \* the client's end: "closed", "idle", "stream" or "reply"
    name,       \* filename of the request
    declared,   \* payloadSize of the request, from Stat
    hashed,     \* the bytes that went through the client's hasher
    toSrv,      \* bytes on their way to the receiver
    toCli,      \* replies on their way to the sender
    srv,        \* the handler: "closed", the field it reads, "body", "trailer", "barrier"
    nameLen,    \* nameLen the handler read
    filename,   \* filename the handler read
    size,       \* payloadSize the handler read
    taken,      \* bytes the handler took for the payload
    maxSize,    \* Server.maxSize
    \* ghosts and bounds
    stored,     \* what was committed since this request began
    reqs, changes

cvars == <<cli, name, declared, hashed>>
hvars == <<nameLen, filename, size>>
svars == <<srv, hvars, taken>>
gvars == <<stored, reqs, changes>>
vars == <<file, cvars, toSrv, toCli, svars, maxSize, gvars>>

Fields == {"magic", "len", "name", "size"}

Init ==
    /\ file \in Contents
    /\ cli = "closed" /\ name = <<>> /\ declared = 0 /\ hashed = <<>>
    /\ toSrv = <<>> /\ toCli = <<>>
    /\ srv = "closed" /\ nameLen = 0 /\ filename = <<>> /\ size = 0 /\ taken = <<>>
    /\ maxSize \in ParseByteSize
    /\ stored = <<>> /\ reqs = 0 /\ changes = 0

----------------------------------------------------------------------------
(* The client: transferFile, on the connection of workerLoop.              *)

\* WriteRequestHeader
Header(n, d) == Magic \o Encode(LenLen, Len(n)) \o n \o Encode(SizeLen, d)

Prefixes(s) == {SubSeq(s, 1, n) : n \in 0..Len(s)}

\* A new connection with a handler of its own.
Dial ==
    /\ cli = "closed" /\ srv = "closed"
    /\ cli' = "idle" /\ name' = <<>> /\ declared' = 0 /\ hashed' = <<>>
    /\ srv' = "magic" /\ nameLen' = 0 /\ filename' = <<>> /\ size' = 0 /\ taken' = <<>>
    /\ toSrv' = <<>> /\ toCli' = <<>> /\ stored' = <<>>
    /\ UNCHANGED <<file, maxSize, reqs, changes>>

\* Stat and WriteRequestHeader.
SendHeader ==
    /\ cli = "idle"
    /\ reqs < MaxReqs /\ reqs' = reqs + 1
    /\ declared' \in {Len(file)} \cup OtherSizes
    /\ name' \in ValidNames
    /\ toSrv' = toSrv \o Header(name', declared')
    /\ hashed' = <<>> /\ stored' = <<>>
    /\ cli' = "stream"
    /\ UNCHANGED <<file, toCli, svars, maxSize, changes>>

\* SendStream copies until the end of the file, not for payloadSize bytes.
SendByte ==
    /\ cli = "stream" /\ Len(hashed) < Len(file)
    /\ LET b == file[Len(hashed) + 1] IN
         /\ hashed' = Append(hashed, b)
         /\ toSrv' = Append(toSrv, b)
    /\ UNCHANGED <<file, cli, name, declared, toCli, svars, maxSize, gvars>>

\* Mutant: the trailer is one byte short.
SendTrailerShort ==
    /\ cli = "stream" /\ Len(hashed) >= Len(file)
    /\ Len(hashed) = declared
    /\ toSrv' = toSrv \o Tail(Sum(hashed))
    /\ cli' = "reply"
    /\ UNCHANGED <<file, name, declared, hashed, toCli, svars, maxSize, gvars>>

\* The trailer follows only when the count is the one announced.
SendTrailer ==
    /\ cli = "stream" /\ Len(hashed) >= Len(file)
    /\ Len(hashed) = declared
    /\ toSrv' = toSrv \o Sum(hashed)
    /\ cli' = "reply"
    /\ UNCHANGED <<file, name, declared, hashed, toCli, svars, maxSize, gvars>>

\* Mutant: the connection is kept after a failed transfer.
CloseConnKept == cli' = "idle" /\ UNCHANGED <<toSrv, toCli>>

\* workerLoop closes the connection after any error.  The receiver need not get all
\* that was written.
CloseConn ==
    /\ cli' = "closed"
    /\ toSrv' \in Prefixes(toSrv)
    /\ toCli' = <<>>

\* ErrShortRead: the file was shorter or longer than announced.
ShortRead ==
    /\ cli = "stream" /\ Len(hashed) >= Len(file)
    /\ Len(hashed) # declared
    /\ CloseConn
    /\ UNCHANGED <<file, name, declared, hashed, svars, maxSize, gvars>>

\* Mutant: any byte is an answer.
ReadResponseAny ==
    /\ cli = "reply" /\ toCli # <<>>
    /\ cli' = "idle" /\ toCli' = Tail(toCli)
    /\ UNCHANGED <<file, name, declared, hashed, toSrv, svars, maxSize, gvars>>

\* ReadResponse: an ACK keeps the connection for the next file.
ReadResponse ==
    /\ cli = "reply" /\ toCli # <<>>
    /\ \/ /\ Head(toCli) = "ack"
          /\ cli' = "idle" /\ toCli' = Tail(toCli) /\ UNCHANGED toSrv
       \/ /\ Head(toCli) = "nack"
          /\ CloseConn
    /\ UNCHANGED <<file, name, declared, hashed, svars, maxSize, gvars>>

\* The receiver closed: a write or the read of the reply fails.
PeerGone ==
    /\ cli \in {"stream", "reply"} /\ srv = "closed" /\ toCli = <<>>
    /\ CloseConn
    /\ UNCHANGED <<file, name, declared, hashed, svars, maxSize, gvars>>

\* A deadline, a broken network, or the sender ends.
Break ==
    /\ cli # "closed"
    /\ CloseConn
    /\ UNCHANGED <<file, name, declared, hashed, svars, maxSize, gvars>>

\* Somebody writes to the file while it is read.
FileChanges ==
    /\ cli = "stream" /\ changes < MaxChanges
    /\ changes' = changes + 1
    /\ file' \in Contents \ {file}
    /\ UNCHANGED <<cvars, toSrv, toCli, svars, maxSize, stored, reqs>>

----------------------------------------------------------------------------
(* The handler: handleConnection.                                          *)

Ended == cli = "closed"
Take(n) == toSrv' = SubSeq(toSrv, n + 1, Len(toSrv))
Answer(r) == toCli' = IF Ended THEN toCli ELSE Append(toCli, r)

\* WriteNack, return.
Reject == Answer("nack") /\ srv' = "closed"

Bytes(k) == SubSeq(toSrv, 1, k)

\* ReadRequestHeader, each field a ReadFull of its own: the magic, ...
ReadMagic ==
    /\ srv = "magic" /\ Len(toSrv) >= Len(Magic)
    /\ IF Bytes(Len(Magic)) = Magic THEN srv' = "len" /\ UNCHANGED toCli ELSE Reject
    /\ Take(Len(Magic))
    /\ UNCHANGED <<file, cvars, hvars, taken, maxSize, gvars>>

\* ... the length of the name, ...
ReadNameLen ==
    /\ srv = "len" /\ Len(toSrv) >= LenLen
    /\ nameLen' = Decode(Bytes(LenLen))
    /\ IF nameLen' \in 1..MaxName THEN srv' = "name" /\ UNCHANGED toCli ELSE Reject
    /\ Take(LenLen)
    /\ UNCHANGED <<file, cvars, filename, size, taken, maxSize, gvars>>

\* ... the name, ...
ReadName ==
    /\ srv = "name" /\ Len(toSrv) >= nameLen
    /\ filename' = Bytes(nameLen)
    /\ IF filename' \in ValidNames THEN srv' = "size" /\ UNCHANGED toCli ELSE Reject
    /\ Take(nameLen)
    /\ UNCHANGED <<file, cvars, nameLen, size, taken, maxSize, gvars>>

Signed(n) == IF n < 2^(Width - 1) THEN n ELSE n - 2^Width

\* Mutant: the sizes are compared as signed numbers.
TooLargeSigned(n) == maxSize > 0 /\ Signed(n) > Signed(maxSize)

\* ErrPayloadTooLarge; a maxSize of 0 stands for no limit.
TooLarge(n) == maxSize > 0 /\ n > maxSize

\* ... and the size.
ReadSize ==
    /\ srv = "size" /\ Len(toSrv) >= SizeLen
    /\ size' = Decode(Bytes(SizeLen))
    /\ IF TooLarge(size') THEN Reject ELSE srv' = "body" /\ UNCHANGED toCli
    /\ Take(SizeLen)
    /\ UNCHANGED <<file, cvars, nameLen, filename, taken, maxSize, gvars>>

\* The length of the field that is read.
Wanted ==
    CASE srv = "magic" -> Len(Magic) [] srv = "len" -> LenLen
      [] srv = "name" -> nameLen [] srv = "size" -> SizeLen

\* The stream ends in the header.  io.EOF, when it ends between two fields, is a clean
\* close; io.ErrUnexpectedEOF, inside one, is an error.
HeaderEnds ==
    /\ srv \in Fields /\ Ended /\ Len(toSrv) < Wanted
    /\ IF toSrv = <<>>
       THEN srv' = "closed" /\ UNCHANGED toCli
       ELSE Reject
    /\ toSrv' = <<>>
    /\ UNCHANGED <<file, cvars, hvars, taken, maxSize, gvars>>

\* io.LimitReader with int64(payloadSize), and what it lets through of the stream.
Limit == IF Signed(size) < 0 THEN 0 ELSE Signed(size)
Copied == IF Len(toSrv) < Limit THEN Len(toSrv) ELSE Limit

\* Mutant: the count is not compared.
ReceiveBodyUnchecked ==
    /\ srv = "body" /\ (Len(toSrv) >= Limit \/ Ended)
    /\ taken' = SubSeq(toSrv, 1, Copied)
    /\ Take(Copied)
    /\ srv' = "trailer"
    /\ UNCHANGED <<file, cvars, toCli, hvars, maxSize, gvars>>

\* ReceiveStream copies up to the limit or the end, then compares the count.
ReceiveBody ==
    /\ srv = "body" /\ (Len(toSrv) >= Limit \/ Ended)
    /\ taken' = SubSeq(toSrv, 1, Copied)
    /\ Take(Copied)
    /\ IF Copied = size THEN srv' = "trailer" /\ UNCHANGED toCli ELSE Reject
    /\ UNCHANGED <<file, cvars, hvars, maxSize, gvars>>

\* Mutant: the trailer is read and not compared.
ChecksumIgnored == TRUE

\* The comparison of the trailer with the hash of what was taken.
ChecksumMatches == Bytes(SumLen) = Sum(taken)

ReceiveTrailer ==
    /\ srv = "trailer" /\ (Len(toSrv) >= SumLen \/ Ended)
    /\ IF Len(toSrv) >= SumLen /\ ChecksumMatches
       THEN srv' = "barrier" /\ UNCHANGED toCli
       ELSE Reject
    /\ Take(IF Len(toSrv) >= SumLen THEN SumLen ELSE Len(toSrv))
    /\ UNCHANGED <<file, cvars, hvars, taken, maxSize, gvars>>

\* CommitBarrier and the ACK; on with the next header.
Commit ==
    /\ srv = "barrier"
    /\ stored' = Append(stored, [name |-> filename, data |-> taken])
    /\ Answer("ack") /\ srv' = "magic"
    /\ UNCHANGED <<file, cvars, toSrv, hvars, taken, maxSize, reqs, changes>>

\* An error of the staging area or of the barrier.
CommitFails ==
    /\ srv \in {"body", "barrier"}
    /\ Reject
    /\ UNCHANGED <<file, cvars, toSrv, hvars, taken, maxSize, gvars>>

\* A deadline, Close(), or the receiver ends.
HandlerLeaves ==
    /\ srv # "closed" /\ srv' = "closed"
    /\ UNCHANGED <<file, cvars, toSrv, toCli, hvars, taken, maxSize, gvars>>

----------------------------------------------------------------------------
Client == Dial \/ SendHeader \/ SendByte \/ SendTrailer \/ ShortRead \/ ReadResponse \/ PeerGone
Handler ==
    \/ ReadMagic \/ ReadNameLen \/ ReadName \/ ReadSize \/ HeaderEnds \/ ReceiveBody
    \/ ReceiveTrailer \/ Commit \/ CommitFails
Next == Client \/ Handler \/ Break \/ FileChanges \/ HandlerLeaves

Spec == Init /\ [][Next]_vars

\* Both programs go on; no deadline has to run out and nobody has to break anything.
FairSpec == Spec /\ WF_vars(Client) /\ WF_vars(Handler)

----------------------------------------------------------------------------
TypeOK ==
    /\ file \in Contents
    /\ cli \in {"closed", "idle", "stream", "reply"}
    /\ name \in ValidNames \cup {<<>>}
    /\ declared \in 0..(2^Width - 1) /\ size \in 0..(2^Width - 1)
    /\ hashed \in Seq(Byte) /\ toSrv \in Seq(Byte)
    /\ toCli \in Seq({"ack", "nack"})
    /\ srv \in Fields \cup {"closed", "body", "trailer", "barrier"}
    /\ nameLen \in 0..(Base^LenLen - 1)
    /\ srv \in {"size", "body", "trailer", "barrier"} => filename \in ValidNames
    /\ taken \in Seq(Byte) /\ (srv \in {"trailer", "barrier"} => Len(taken) = size)
    /\ maxSize \in 0..(2^Width - 1)
    /\ stored \in Seq([name : ValidNames, data : Seq(Byte)])

\* Between two files an open connection holds nothing: no payload byte that would be
\* taken for a header, no reply that would be taken for the answer to the next file.
InStep ==
    cli = "idle" /\ srv # "closed" => toSrv = <<>> /\ toCli = <<>> /\ srv = "magic"

\* As much of what went through the client's hasher as the header had announced.
Announced == SubSeq(hashed, 1, declared)

\* The file outgrew the announced size while it was read, by bytes that are just the
\* sum of what comes before them.
GrewBySum ==
    /\ Len(hashed) >= declared + SumLen
    /\ SubSeq(hashed, declared + 1, declared + SumLen) = Sum(Announced)

\* What the receiver first commits for a request has the name that was announced and as
\* many bytes, the first that went through the sender's hasher, whatever became of the
\* file and the connection meanwhile.  These are all the bytes hashed and nothing else
\* is committed, except when the file has grown by its own sum: the receiver then takes
\* payload for the trailer, as ReceiveStream compares bytes.
StoredIsSent ==
    stored # <<>> =>
        /\ declared <= Len(hashed)
        /\ Head(stored) = [name |-> name, data |-> Announced]
        /\ (Len(stored) = 1 /\ Len(hashed) = declared) \/ GrewBySum

\* The sender takes a transfer for done only after this very payload was committed,
\* under its name, and nothing else.
AckMatches ==
    [][cli = "reply" /\ cli' = "idle" => stored = <<[name |-> name, data |-> hashed]>>]_vars

\* A request that the receiver goes on with is within the limit asked for with
\* -max-size.
LimitHonoured ==
    srv \in {"body", "trailer", "barrier"} => size * 10 <= AskedTenths * Unit

\* A transfer ends, with an answer or with an error, without any deadline.
TransferEnds ==
    cli \in {"stream", "reply"} ~> cli \in {"idle", "closed"}
===========================================================================
