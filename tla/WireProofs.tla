---------------------------- MODULE WireProofs ----------------------------
(***************************************************************************)
(* The framing of Wire proved in step for files of every length, fields of *)
(* every width and any number of requests.                                 *)
(*                                                                         *)
(* The argument: the bytes of one request have fixed places.  At(p) is the *)
(* byte at place p; the handler has consumed Off of them, and what is      *)
(* under way is the stretch that follows, so that each ReadFull gets the   *)
(* field it expects or the connection ends.  This is so until the handler  *)
(* commits.  If it commits before the client is done, the file has grown   *)
(* by its own sum (Lost): the handler may then be anywhere, and the client *)
(* is bound to fail.                                                       *)
(***************************************************************************)
EXTENDS Wire, SequenceTheorems, TLAPS

P1 == Len(Magic)
P2 == P1 + LenLen
HeadLen(n) == P2 + Len(n) + SizeLen

\* The byte at place p of the request for n that announces d and carries h.
At(p, n, d, h) ==
    IF p <= P1 THEN Magic[p]
    ELSE IF p <= P2 THEN Encode(LenLen, Len(n))[p - P1]
    ELSE IF p <= P2 + Len(n) THEN n[p - P2]
    ELSE IF p <= HeadLen(n) THEN Encode(SizeLen, d)[p - (P2 + Len(n))]
    ELSE IF p <= HeadLen(n) + Len(h) THEN h[p - HeadLen(n)]
    ELSE Sum(h)[p - (HeadLen(n) + Len(h))]

\* How many bytes of the request a handler in phase s has consumed, with a name of k
\* and a payload of z bytes.
Off(s, k, z) ==
    CASE s = "magic" -> 0 [] s = "len" -> P1 [] s = "name" -> P2
      [] s = "size" -> P2 + k [] s = "body" -> P2 + k + SizeLen
      [] s = "trailer" -> P2 + k + SizeLen + z [] OTHER -> P2 + k + SizeLen + z + SumLen

Consumed == Off(srv, nameLen, size)
Place == Consumed + Len(toSrv)
Reading == srv # "closed"
InPayload == srv \in {"body", "trailer", "barrier"}
PayloadRead == srv \in {"trailer", "barrier"}

\* What holds of the handler wherever it is.
HandlerOK ==
    /\ srv \in Fields \cup {"closed", "body", "trailer", "barrier"}
    /\ nameLen \in 0..(Base^LenLen - 1) /\ size \in 0..(2^Width - 1)
    /\ srv \in {"size", "body", "trailer", "barrier"} => filename \in ValidNames
    /\ toSrv \in Seq(Byte) /\ taken \in Seq(Byte)
    /\ PayloadRead => Len(taken) = size
    /\ InPayload => ~TooLarge(size)

\* What is under way is the part of the request that the handler has not consumed.
Framed == Reading => \A i \in 1..Len(toSrv) : toSrv[i] = At(Consumed + i, name, declared, hashed)

\* How far the request was written; the trailer only after all announced bytes.
Written ==
    Reading => \/ Place <= HeadLen(name) + Len(hashed)
               \/ /\ Len(hashed) = declared /\ cli # "stream"
                  /\ Place <= HeadLen(name) + Len(hashed) + SumLen

\* The client's side of the exchange.
WhenClosed == cli = "closed" => toCli = <<>>
WhenIdle == cli = "idle" => toSrv = <<>> /\ toCli = <<>> /\ srv \in {"magic", "closed"}
WhenStreaming ==
    cli = "stream" =>
        /\ stored = <<>> /\ toCli \in {<<>>, <<"nack">>}
        /\ Reading => toCli = <<>> /\ Place = HeadLen(name) + Len(hashed)
Acked ==
    /\ toCli = <<"ack">> /\ toSrv = <<>> /\ srv \in {"magic", "closed"}
    /\ stored = <<[name |-> name, data |-> hashed]>>
WhenReplying ==
    cli = "reply" =>
        /\ Len(hashed) = declared
        /\ \/ Acked
           \/ toCli = <<>> /\ (Reading => Place = HeadLen(name) + Len(hashed) + SumLen)
           \/ toCli = <<"nack">> /\ ~Reading

\* The handler's side: what it has read is what was written, and what it took for the
\* payload is the announced part of it.
HeaderRead ==
    /\ srv \in {"name", "size", "body", "trailer", "barrier"} => nameLen = Len(name)
    /\ srv \in {"size", "body", "trailer", "barrier"} => filename = name
    /\ InPayload => size = declared
TakenIsPrefix == PayloadRead => declared <= Len(hashed) /\ taken = Announced
Verified ==
    srv = "barrier" => \/ Len(hashed) = declared /\ toSrv = <<>> /\ cli # "stream"
                       \/ GrewBySum
AfterCommit == stored # <<>> /\ Reading => srv = "magic" /\ toSrv = <<>>

Aligned ==
    /\ Framed /\ Written /\ WhenStreaming /\ WhenReplying
    /\ HeaderRead /\ TakenIsPrefix /\ Verified /\ AfterCommit

\* The handler has committed and the client has gone on.
Lost == cli \in {"stream", "closed"} /\ stored # <<>> /\ GrewBySum

Everywhere ==
    /\ TypeOK /\ HandlerOK /\ WhenClosed /\ WhenIdle
    /\ StoredIsSent /\ maxSize \in ParseByteSize

\* The inductive invariant.
WireInv == Everywhere /\ (Aligned \/ Lost)

----------------------------------------------------------------------------
(* The operators the model is built from.                                  *)

LEMMA ContentsFacts ==
    ASSUME NEW f \in Contents
    PROVE  f \in Seq(Byte) /\ Len(f) \in 0..(2^Width - 1)
<1>1. PICK n \in 0..MaxLen : f \in [1..n -> Byte]
  BY DEF Contents
<1>2. f \in Seq(Byte) /\ Len(f) = n
  BY <1>1, WireAssumption
<1> QED  BY <1>2, WireAssumption

LEMMA Lengths ==
    /\ P1 \in Nat \ {0} /\ P2 \in Nat /\ P2 = P1 + LenLen /\ LenLen \in Nat \ {0}
    /\ SizeLen \in Nat \ {0} /\ SumLen \in Nat \ {0} /\ MaxName \in Nat
    /\ \A n \in Seq(Byte) : HeadLen(n) \in Nat /\ HeadLen(n) = P2 + Len(n) + SizeLen
BY WireAssumption, EmptySeq DEF P1, P2, HeadLen

LEMMA NameFacts ==
    ASSUME NEW n \in ValidNames \cup {<<>>}
    PROVE  n \in Seq(Byte) /\ Len(n) \in 0..(Base^LenLen - 1)
<1>1. MaxName \in Nat /\ Base^LenLen \in Nat /\ MaxName < Base^LenLen
  BY WireAssumption, PowerAssumption
<1>2. CASE n \in ValidNames
  BY <1>1, <1>2, WireAssumption
<1>3. CASE n = <<>>
  BY <1>1, <1>3
<1> QED  BY <1>2, <1>3

\* The two numbers of a header.
LEMMA EncodeFacts ==
    /\ \A v \in 0..(Base^LenLen - 1) :
         /\ Encode(LenLen, v) \in Seq(Byte) /\ Len(Encode(LenLen, v)) = LenLen
         /\ Decode(Encode(LenLen, v)) = v
    /\ \A v \in 0..(2^Width - 1) :
         /\ Encode(SizeLen, v) \in Seq(Byte) /\ Len(Encode(SizeLen, v)) = SizeLen
         /\ Decode(Encode(SizeLen, v)) = v
<1>1. LenLen \in Nat /\ SizeLen \in Nat /\ Base^SizeLen = 2^Width
  BY WireAssumption, PowerAssumption
<1>2. ASSUME NEW k \in Nat, NEW s \in [1..k -> Byte] PROVE s \in Seq(Byte) /\ Len(s) = k
  BY <1>2
<1>3. \A v \in 0..(Base^LenLen - 1) :
        Encode(LenLen, v) \in [1..LenLen -> Byte] /\ Decode(Encode(LenLen, v)) = v
  BY CodingAssumption
<1>4. \A v \in 0..(2^Width - 1) :
        Encode(SizeLen, v) \in [1..SizeLen -> Byte] /\ Decode(Encode(SizeLen, v)) = v
  BY <1>1, CodingAssumption
<1> QED  BY <1>1, <1>2, <1>3, <1>4

LEMMA DecodeFacts ==
    /\ \A s \in Seq(Byte) : Len(s) = LenLen => Decode(s) \in 0..(Base^LenLen - 1)
    /\ \A s \in Seq(Byte) : Len(s) = SizeLen => Decode(s) \in 0..(2^Width - 1)
<1>1. \A s \in Seq(Byte) : s \in [1..Len(s) -> Byte]
  BY LenProperties
<1> QED  BY <1>1, CodingAssumption, PowerAssumption

LEMMA SumFacts ==
    ASSUME NEW h \in Seq(Byte), Len(h) \in 0..(2^Width - 1)
    PROVE  Sum(h) \in Seq(Byte) /\ Len(Sum(h)) = SumLen
<1>1. h \in [1..Len(h) -> Byte]
  BY LenProperties
<1>2. Sum(h) \in [1..SumLen -> Byte]
  BY <1>1, SumAssumption
<1> QED  BY <1>2, WireAssumption

LEMMA ConcatFacts ==
    ASSUME NEW S, NEW s \in Seq(S), NEW t \in Seq(S)
    PROVE  /\ s \o t \in Seq(S) /\ Len(s \o t) = Len(s) + Len(t)
           /\ \A i \in 1..Len(s) : (s \o t)[i] = s[i]
           /\ \A i \in 1..Len(t) : (s \o t)[Len(s) + i] = t[i]
OBVIOUS

LEMMA SameSeq ==
    ASSUME NEW S, NEW s \in Seq(S), NEW t \in Seq(S), Len(s) = Len(t),
           \A i \in 1..Len(s) : s[i] = t[i]
    PROVE  s = t
BY SeqEqual

\* What is left after the first n bytes, and what a broken connection delivers.
LEMMA RestFacts ==
    ASSUME NEW S, NEW s \in Seq(S), NEW n \in 0..Len(s)
    PROVE  /\ SubSeq(s, n + 1, Len(s)) \in Seq(S)
           /\ Len(SubSeq(s, n + 1, Len(s))) = Len(s) - n
           /\ \A i \in 1..(Len(s) - n) : SubSeq(s, n + 1, Len(s))[i] = s[n + i]
           /\ SubSeq(s, 1, n) \in Seq(S) /\ Len(SubSeq(s, 1, n)) = n
           /\ \A i \in 1..n : SubSeq(s, 1, n)[i] = s[i]
OBVIOUS

\* A stretch in the middle.
LEMMA StretchFacts ==
    ASSUME NEW S, NEW s \in Seq(S), NEW m \in Nat, NEW k \in Nat, m + k <= Len(s)
    PROVE  /\ SubSeq(s, m + 1, m + k) \in Seq(S) /\ Len(SubSeq(s, m + 1, m + k)) = k
           /\ \A i \in 1..k : SubSeq(s, m + 1, m + k)[i] = s[m + i]
OBVIOUS

LEMMA AppendFacts ==
    ASSUME NEW S, NEW s \in Seq(S), NEW x \in S
    PROVE  /\ Append(s, x) \in Seq(S) /\ Len(Append(s, x)) = Len(s) + 1
           /\ Append(s, x)[Len(s) + 1] = x /\ \A i \in 1..Len(s) : Append(s, x)[i] = s[i]
OBVIOUS

LEMMA AppendEmpty ==
    ASSUME NEW x
    PROVE  Append(<<>>, x) = <<x>>
OBVIOUS

\* Where the fields of a request are.
FieldsAt(n, d, h) ==
    /\ \A i \in 1..P1 : At(i, n, d, h) = Magic[i]
    /\ \A i \in 1..LenLen : At(P1 + i, n, d, h) = Encode(LenLen, Len(n))[i]
    /\ \A i \in 1..Len(n) : At(P2 + i, n, d, h) = n[i]
    /\ \A i \in 1..SizeLen : At(P2 + Len(n) + i, n, d, h) = Encode(SizeLen, d)[i]
    /\ \A i \in 1..Len(h) : At(HeadLen(n) + i, n, d, h) = h[i]
    /\ \A i \in 1..SumLen : At(HeadLen(n) + Len(h) + i, n, d, h) = Sum(h)[i]

LEMMA Places ==
    ASSUME NEW n \in Seq(Byte), NEW d, NEW h \in Seq(Byte)
    PROVE  FieldsAt(n, d, h)
<1> DEFINE N == Len(n)  L == Len(h)  H == HeadLen(n)
<1>1. /\ N \in Nat /\ L \in Nat /\ H \in Nat /\ H = P2 + N + SizeLen /\ P1 \in Nat /\ P2 \in Nat
      /\ P2 = P1 + LenLen /\ LenLen \in Nat /\ SizeLen \in Nat /\ SumLen \in Nat
  BY Lengths
<1> HIDE DEF N, L, H
<1>a. \A p : At(p, n, d, h) =
        IF p <= P1 THEN Magic[p]
        ELSE IF p <= P2 THEN Encode(LenLen, N)[p - P1]
        ELSE IF p <= P2 + N THEN n[p - P2]
        ELSE IF p <= H THEN Encode(SizeLen, d)[p - (P2 + N)]
        ELSE IF p <= H + L THEN h[p - H]
        ELSE Sum(h)[p - (H + L)]
  BY DEF At, N, L, H
<1>2. ASSUME NEW i \in 1..P1 PROVE At(i, n, d, h) = Magic[i]
  BY <1>1, <1>a
<1>3. ASSUME NEW i \in 1..LenLen PROVE At(P1 + i, n, d, h) = Encode(LenLen, N)[i]
  <2>1. ~(P1 + i <= P1) /\ P1 + i <= P2 /\ (P1 + i) - P1 = i
    BY <1>1
  <2> QED  BY <1>a, <2>1
<1>4. ASSUME NEW i \in 1..N PROVE At(P2 + i, n, d, h) = n[i]
  <2>1. ~(P2 + i <= P1) /\ ~(P2 + i <= P2) /\ P2 + i <= P2 + N /\ (P2 + i) - P2 = i
    BY <1>1
  <2> QED  BY <1>a, <2>1
<1>5. ASSUME NEW i \in 1..SizeLen PROVE At(P2 + N + i, n, d, h) = Encode(SizeLen, d)[i]
  <2> DEFINE p == P2 + N + i
  <2>1. ~(p <= P1) /\ ~(p <= P2) /\ ~(p <= P2 + N) /\ p <= H /\ p - (P2 + N) = i
    BY <1>1
  <2> HIDE DEF p
  <2>2. At(p, n, d, h) = Encode(SizeLen, d)[i]
    BY <1>a, <2>1
  <2> QED  BY <2>2 DEF p
<1>6. ASSUME NEW i \in 1..L PROVE At(H + i, n, d, h) = h[i]
  <2> DEFINE p == H + i
  <2>1. ~(p <= P1) /\ ~(p <= P2) /\ ~(p <= P2 + N) /\ ~(p <= H) /\ p <= H + L /\ p - H = i
    BY <1>1
  <2> HIDE DEF p
  <2>2. At(p, n, d, h) = h[i]
    BY <1>a, <2>1
  <2> QED  BY <2>2 DEF p
<1>7. ASSUME NEW i \in 1..SumLen PROVE At(H + L + i, n, d, h) = Sum(h)[i]
  <2> DEFINE p == H + L + i
  <2>1. ~(p <= P1) /\ ~(p <= P2) /\ ~(p <= P2 + N) /\ ~(p <= H) /\ ~(p <= H + L) /\ p - (H + L) = i
    BY <1>1
  <2> HIDE DEF p
  <2>2. At(p, n, d, h) = Sum(h)[i]
    BY <1>a, <2>1
  <2> QED  BY <2>2 DEF p
<1> QED  BY <1>2, <1>3, <1>4, <1>5, <1>6, <1>7 DEF FieldsAt, N, L, H

LEMMA OffType ==
    ASSUME NEW s, NEW k \in Nat, NEW z \in Nat
    PROVE  Off(s, k, z) \in Nat
BY Lengths DEF Off

\* c is the four sequences one after the other.
Parts(c, m, l, n, z) ==
    /\ Len(c) = Len(m) + Len(l) + Len(n) + Len(z)
    /\ \A i \in 1..Len(m) : c[i] = m[i]
    /\ \A i \in 1..Len(l) : c[Len(m) + i] = l[i]
    /\ \A i \in 1..Len(n) : c[Len(m) + Len(l) + i] = n[i]
    /\ \A i \in 1..Len(z) : c[Len(m) + Len(l) + Len(n) + i] = z[i]

LEMMA FourParts ==
    ASSUME NEW S, NEW m \in Seq(S), NEW l \in Seq(S), NEW n \in Seq(S), NEW z \in Seq(S)
    PROVE  m \o l \o n \o z \in Seq(S) /\ Parts(m \o l \o n \o z, m, l, n, z)
<1> DEFINE a == m \o l  b == a \o n  c == b \o z
<1>1. /\ a \in Seq(S) /\ Len(a) = Len(m) + Len(l)
      /\ \A i \in 1..Len(m) : a[i] = m[i]
      /\ \A i \in 1..Len(l) : a[Len(m) + i] = l[i]
  BY ConcatFacts
<1>a. a \in Seq(S)
  BY <1>1
<1> HIDE DEF a
<1>2. /\ b \in Seq(S) /\ Len(b) = Len(a) + Len(n)
      /\ \A i \in 1..Len(a) : b[i] = a[i]
      /\ \A i \in 1..Len(n) : b[Len(a) + i] = n[i]
  BY <1>a, ConcatFacts
<1>b. b \in Seq(S)
  BY <1>2
<1> HIDE DEF b
<1>3. /\ c \in Seq(S) /\ Len(c) = Len(b) + Len(z)
      /\ \A i \in 1..Len(b) : c[i] = b[i]
      /\ \A i \in 1..Len(z) : c[Len(b) + i] = z[i]
  BY <1>b, ConcatFacts
<1> HIDE DEF c
<1> DEFINE M == Len(m)  L == Len(l)  N == Len(n)  Z == Len(z)
<1>4. M \in Nat /\ L \in Nat /\ N \in Nat /\ Z \in Nat
  OBVIOUS
<1>5. Len(a) = M + L /\ Len(b) = M + L + N /\ Len(c) = M + L + N + Z
  BY <1>1, <1>2, <1>3
<1>6. ASSUME NEW i \in 1..M PROVE c[i] = m[i]
  BY <1>1, <1>2, <1>3, <1>4, <1>5
<1>7. ASSUME NEW i \in 1..L PROVE c[M + i] = l[i]
  <2>1. a[M + i] = l[i] /\ M + i \in 1..Len(a) /\ M + i \in 1..Len(b)
    BY <1>1, <1>4, <1>5
  <2> QED  BY <1>2, <1>3, <2>1
<1>8. ASSUME NEW i \in 1..N PROVE c[M + L + i] = n[i]
  <2>1. b[Len(a) + i] = n[i] /\ Len(a) + i \in 1..Len(b)
    BY <1>2, <1>4, <1>5
  <2> QED  BY <1>3, <1>5, <2>1
<1>9. ASSUME NEW i \in 1..Z PROVE c[M + L + N + i] = z[i]
  BY <1>3, <1>5
<1>10. c \in Seq(S) /\ Parts(c, m, l, n, z)
  BY <1>3, <1>5, <1>6, <1>7, <1>8, <1>9 DEF Parts
<1> QED  BY <1>10 DEF a, b, c

\* Bytes that have the parts of a header have the fields of a request at their places.
LEMMA HeaderAt ==
    ASSUME NEW n \in Seq(Byte), NEW d, NEW c, NEW l, NEW z, l = Encode(LenLen, Len(n)),
           z = Encode(SizeLen, d), Len(l) = LenLen, Len(z) = SizeLen, Parts(c, Magic, l, n, z)
    PROVE  Len(c) = HeadLen(n) /\ \A i \in 1..HeadLen(n) : c[i] = At(i, n, d, <<>>)
<1> DEFINE N == Len(n)  H == HeadLen(n)  e == <<>>
<1>1. /\ N \in Nat /\ P1 \in Nat /\ P2 \in Nat /\ P2 = P1 + LenLen /\ LenLen \in Nat
      /\ SizeLen \in Nat /\ H \in Nat /\ H = P2 + N + SizeLen /\ Len(Magic) = P1
  BY Lengths DEF P1
<1>2. e \in Seq(Byte)
  OBVIOUS
<1> HIDE DEF e
<1>3. FieldsAt(n, d, e)
  BY <1>2, Places
<1> HIDE DEF N, H
<1>a. /\ Len(c) = H
      /\ \A i \in 1..P1 : c[i] = Magic[i]
      /\ \A i \in 1..LenLen : c[P1 + i] = l[i]
      /\ \A i \in 1..N : c[P2 + i] = n[i]
      /\ \A i \in 1..SizeLen : c[P2 + N + i] = z[i]
  BY <1>1 DEF Parts, N
<1>b. /\ \A i \in 1..P1 : At(i, n, d, e) = Magic[i]
      /\ \A i \in 1..LenLen : At(P1 + i, n, d, e) = l[i]
      /\ \A i \in 1..N : At(P2 + i, n, d, e) = n[i]
      /\ \A i \in 1..SizeLen : At(P2 + N + i, n, d, e) = z[i]
  BY <1>3 DEF FieldsAt, N
<1>4. /\ \A i \in 1..P1 : c[i] = At(i, n, d, e)
      /\ \A i \in 1..LenLen : c[P1 + i] = At(P1 + i, n, d, e)
      /\ \A i \in 1..N : c[P2 + i] = At(P2 + i, n, d, e)
      /\ \A i \in 1..SizeLen : c[P2 + N + i] = At(P2 + N + i, n, d, e)
  BY <1>a, <1>b
<1>5. ASSUME NEW i \in 1..H PROVE c[i] = At(i, n, d, e)
  <2>1. CASE i <= P1
    BY <1>1, <1>4, <2>1
  <2>2. CASE ~(i <= P1) /\ i <= P2
    <3>1. i - P1 \in 1..LenLen /\ i = P1 + (i - P1)
      BY <1>1, <2>2
    <3> QED  BY <1>4, <3>1
  <2>3. CASE ~(i <= P2) /\ i <= P2 + N
    <3>1. i - P2 \in 1..N /\ i = P2 + (i - P2)
      BY <1>1, <2>3
    <3> QED  BY <1>4, <3>1
  <2>4. CASE ~(i <= P2 + N)
    <3>1. i - (P2 + N) \in 1..SizeLen /\ i = P2 + N + (i - (P2 + N))
      BY <1>1, <2>4
    <3> QED  BY <1>4, <3>1
  <2> QED  BY <1>1, <2>1, <2>2, <2>3, <2>4
<1> QED  BY <1>a, <1>5 DEF H, e

\* WriteRequestHeader writes the first HeadLen bytes of the request.
StartsRequest(c, n, d) ==
    /\ c \in Seq(Byte) /\ Len(c) = HeadLen(n)
    /\ \A i \in 1..HeadLen(n) : c[i] = At(i, n, d, <<>>)

LEMMA HeaderFacts ==
    ASSUME NEW n \in ValidNames, NEW d \in 0..(2^Width - 1)
    PROVE  StartsRequest(Header(n, d), n, d)
<1> DEFINE l == Encode(LenLen, Len(n))  z == Encode(SizeLen, d)  c == Header(n, d)
<1>1. c = Magic \o l \o n \o z
  BY DEF Header
<1>2. /\ n \in Seq(Byte) /\ l \in Seq(Byte) /\ Len(l) = LenLen
      /\ z \in Seq(Byte) /\ Len(z) = SizeLen
  BY NameFacts, EncodeFacts
<1>a. Magic \in Seq(Byte)
  BY WireAssumption
<1> HIDE DEF l, z, c
<1>3. c \in Seq(Byte) /\ Parts(c, Magic, l, n, z)
  BY <1>1, <1>2, <1>a, FourParts
<1>4. Len(c) = HeadLen(n) /\ \A i \in 1..HeadLen(n) : c[i] = At(i, n, d, <<>>)
  BY <1>2, <1>3, HeaderAt DEF l, z
<1> QED  BY <1>3, <1>4 DEF c, StartsRequest

----------------------------------------------------------------------------
(* Steps of the handler that commit nothing.                               *)

LEMMA Numbers ==
    ASSUME WireInv
    PROVE  /\ Len(toSrv) \in Nat /\ Len(hashed) \in Nat /\ Len(taken) \in Nat
           /\ Consumed \in Nat /\ nameLen \in Nat /\ size \in Nat /\ declared \in Nat
           /\ toSrv \in Seq(Byte) /\ hashed \in Seq(Byte) /\ taken \in Seq(Byte)
           /\ name \in Seq(Byte) /\ Len(name) \in Nat /\ HeadLen(name) \in Nat
           /\ HeadLen(name) = P2 + Len(name) + SizeLen
<1>1. /\ toSrv \in Seq(Byte) /\ hashed \in Seq(Byte) /\ taken \in Seq(Byte)
      /\ name \in ValidNames \cup {<<>>} /\ nameLen \in 0..(Base^LenLen - 1)
      /\ size \in 0..(2^Width - 1) /\ declared \in 0..(2^Width - 1)
  BY DEF WireInv, Everywhere, TypeOK
<1>2. nameLen \in Nat /\ size \in Nat /\ declared \in Nat
  BY <1>1, PowerAssumption
<1>3. Consumed \in Nat
  BY <1>2, OffType DEF Consumed
<1>4. name \in Seq(Byte)
  BY <1>1, NameFacts
<1> QED  BY <1>1, <1>2, <1>3, <1>4, Lengths

\* A handler that finds something to read is inside a request.
LEMMA InRequest ==
    ASSUME WireInv, Reading, toSrv # <<>> \/ srv # "magic"
    PROVE  cli # "idle" /\ (Aligned => toCli # <<"ack">>)
<1>1. cli # "idle"
  BY DEF WireInv, Everywhere, WhenIdle, Reading
<1>2. ASSUME Aligned PROVE toCli # <<"ack">>
  <2>1. <<"ack">> # <<>> /\ <<"ack">> # <<"nack">>
    OBVIOUS
  <2> QED
    BY <1>1, <1>2, <2>1
    DEF WireInv, Everywhere, Aligned, WhenClosed, WhenStreaming, WhenReplying, Acked, Reading, TypeOK
<1> QED  BY <1>1, <1>2

LEMMA HandlerBase ==
    ASSUME WireInv, HandlerOK', UNCHANGED <<file, cvars, maxSize, gvars>>,
           UNCHANGED toCli \/ (cli # "idle" /\ Answer("nack")),
           cli = "idle" => UNCHANGED toSrv /\ srv' \in {srv, "closed"}
    PROVE  Everywhere' /\ (Lost => Lost')
<1> USE DEF WireInv, Everywhere
<1>1. toCli' \in Seq({"ack", "nack"})
  <2>1. toCli \in Seq({"ack", "nack"})
    BY DEF TypeOK
  <2>2. Append(toCli, "nack") \in Seq({"ack", "nack"})
    BY <2>1, AppendFacts
  <2> QED  BY <2>1, <2>2 DEF Answer, Ended
<1>2. TypeOK'
  BY <1>1 DEF TypeOK, HandlerOK, cvars, gvars, PayloadRead
<1>3. WhenClosed' /\ WhenIdle'
  BY DEF WhenClosed, WhenIdle, Answer, Ended, cvars
<1>4. StoredIsSent' /\ maxSize' \in ParseByteSize
  BY DEF StoredIsSent, GrewBySum, Announced, cvars, gvars, ParseByteSize
<1>5. Lost => Lost'
  BY DEF Lost, GrewBySum, Announced, cvars, gvars
<1> QED  BY <1>2, <1>3, <1>4, <1>5

\* The handler returns: with a NACK in the middle of a request, or silently.
LEMMA HandlerStops ==
    ASSUME WireInv, HandlerOK', srv' = "closed", UNCHANGED <<file, cvars, maxSize, gvars>>,
           \/ UNCHANGED <<toSrv, toCli>>
           \/ Reading /\ (toSrv # <<>> \/ srv # "magic") /\ Answer("nack")
           \/ cli = "closed" /\ UNCHANGED toCli
    PROVE  WireInv'
<1>1. Everywhere' /\ (Lost => Lost')
  BY InRequest, HandlerBase
<1>2. ASSUME Aligned PROVE Aligned'
  <2>1. Framed' /\ Written' /\ HeaderRead' /\ TakenIsPrefix' /\ Verified' /\ AfterCommit'
    BY DEF Framed, Written, HeaderRead, TakenIsPrefix, Verified, AfterCommit, Reading, InPayload,
           PayloadRead
  <2>2. cli \in {"stream", "reply"} /\ Reading /\ toCli # <<"ack">> => toCli = <<>>
    BY <1>2 DEF Aligned, WhenStreaming, WhenReplying, Acked
  <2>3. WhenStreaming' /\ WhenReplying'
    <3>1. CASE UNCHANGED <<toSrv, toCli>>
      BY <1>2, <3>1 DEF Aligned, WhenStreaming, WhenReplying, Acked, cvars, gvars, Reading
    <3>2. CASE Reading /\ (toSrv # <<>> \/ srv # "magic") /\ Answer("nack")
      <4>1. cli \in {"stream", "reply"} => toCli' = <<"nack">>
        BY <1>2, <2>2, <3>2, InRequest, AppendEmpty DEF Answer, Ended
      <4> QED  BY <1>2, <4>1 DEF Aligned, WhenStreaming, WhenReplying, cvars, gvars, Reading
    <3>3. CASE cli = "closed" /\ UNCHANGED toCli
      BY <3>3 DEF WhenStreaming, WhenReplying, cvars
    <3> QED  BY <3>1, <3>2, <3>3
  <2> QED  BY <2>1, <2>3 DEF Aligned
<1> QED  BY <1>1, <1>2 DEF WireInv

\* A step that consumes n bytes and reads on keeps the two ends aligned.
LEMMA HandlerMoves ==
    ASSUME WireInv, Aligned, NEW n \in 0..Len(toSrv), toSrv' = SubSeq(toSrv, n + 1, Len(toSrv)),
           UNCHANGED <<file, cvars, toCli, maxSize, gvars>>,
           Reading, Reading', toSrv # <<>> \/ srv # "magic", Consumed' = Consumed + n
    PROVE  Framed' /\ Written' /\ WhenStreaming' /\ WhenReplying' /\ AfterCommit'
<1>1. /\ Len(toSrv) \in Nat /\ Len(hashed) \in Nat /\ Consumed \in Nat /\ toSrv \in Seq(Byte)
  BY Numbers
<1>2. /\ toSrv' \in Seq(Byte) /\ Len(toSrv') = Len(toSrv) - n
      /\ \A i \in 1..(Len(toSrv) - n) : toSrv'[i] = toSrv[n + i]
  <2>1. toSrv \in Seq(Byte)
    BY <1>1
  <2> DEFINE r == SubSeq(toSrv, n + 1, Len(toSrv))
  <2>2. /\ r \in Seq(Byte) /\ Len(r) = Len(toSrv) - n
        /\ \A i \in 1..(Len(toSrv) - n) : r[i] = toSrv[n + i]
    BY <2>1, RestFacts
  <2> QED  BY <2>2
<1>3. Place' = Place
  <2>1. Place' = Consumed' + Len(toSrv') /\ Place = Consumed + Len(toSrv)
    BY DEF Place
  <2> QED  BY <1>1, <1>2, <2>1
<1>4. Framed'
  <2> SUFFICES ASSUME NEW i \in 1..(Len(toSrv) - n)
               PROVE  toSrv'[i] = At(Consumed' + i, name, declared, hashed)
    BY <1>2 DEF Framed, cvars
  <2>1. toSrv'[i] = toSrv[n + i] /\ n + i \in 1..Len(toSrv)
    BY <1>1, <1>2
  <2>2. toSrv[n + i] = At(Consumed + (n + i), name, declared, hashed)
    BY <2>1 DEF Aligned, Framed
  <2>3. Consumed + (n + i) = Consumed' + i
    BY <1>1
  <2> QED  BY <2>1, <2>2, <2>3
<1>5. Written'
  BY <1>3 DEF Aligned, Written, cvars
<1>6. toCli # <<"ack">>
  BY InRequest
<1>7. WhenStreaming' /\ WhenReplying'
  BY <1>3, <1>6 DEF Aligned, WhenStreaming, WhenReplying, Acked, cvars, gvars
<1>8. AfterCommit'
  BY DEF Aligned, AfterCommit, gvars
<1> QED  BY <1>4, <1>5, <1>7, <1>8

\* The next k bytes under way are those of the field that has its place there.
LEMMA NextBytes ==
    ASSUME WireInv, Aligned, Reading, NEW k \in Nat, k <= Len(toSrv),
           NEW f \in Seq(Byte), Len(f) = k,
           \A i \in 1..k : At(Consumed + i, name, declared, hashed) = f[i]
    PROVE  Bytes(k) = f
<1>1. toSrv \in Seq(Byte) /\ Len(toSrv) \in Nat /\ k \in 0..Len(toSrv)
  BY Numbers
<1>2. /\ Bytes(k) \in Seq(Byte) /\ Len(Bytes(k)) = k
      /\ \A i \in 1..k : Bytes(k)[i] = toSrv[i]
  BY <1>1, RestFacts DEF Bytes
<1>3. \A i \in 1..k : toSrv[i] = At(Consumed + i, name, declared, hashed)
  BY <1>1 DEF Aligned, Framed
<1> HIDE DEF Bytes
<1>4. \A i \in 1..k : Bytes(k)[i] = f[i]
  BY <1>2, <1>3
<1> QED  BY <1>2, <1>4, SameSeq

\* What is left to show for a step that consumes n bytes and reads on.
LEMMA HandlerReadsOn ==
    ASSUME WireInv, HandlerOK', NEW n \in 0..Len(toSrv),
           toSrv' = SubSeq(toSrv, n + 1, Len(toSrv)),
           UNCHANGED <<file, cvars, toCli, maxSize, gvars>>,
           Reading, Reading', toSrv # <<>> \/ srv # "magic",
           Aligned => Consumed' = Consumed + n /\ HeaderRead' /\ TakenIsPrefix' /\ Verified'
    PROVE  WireInv'
<1>1. cli # "idle"
  BY InRequest
<1>2. Everywhere' /\ (Lost => Lost')
  BY <1>1, HandlerBase
<1>3. Aligned => Framed' /\ Written' /\ WhenStreaming' /\ WhenReplying' /\ AfterCommit'
  BY HandlerMoves
<1>4. Aligned => Aligned'
  BY <1>3 DEF Aligned
<1> QED  BY <1>2, <1>4 DEF WireInv

\* The handler takes the first n bytes off what is under way.
LEMMA TakeFacts ==
    ASSUME WireInv, NEW n \in Nat, n <= Len(toSrv), Take(n)
    PROVE  /\ toSrv' = SubSeq(toSrv, n + 1, Len(toSrv)) /\ n \in 0..Len(toSrv)
           /\ toSrv' \in Seq(Byte) /\ Len(toSrv') = Len(toSrv) - n
           /\ Bytes(n) \in Seq(Byte) /\ Len(Bytes(n)) = n
           /\ \A i \in 1..n : Bytes(n)[i] = toSrv[i]
<1>1. toSrv \in Seq(Byte) /\ n \in 0..Len(toSrv)
  BY Numbers
<1>2. toSrv' = SubSeq(toSrv, n + 1, Len(toSrv))
  BY DEF Take
<1> DEFINE r == SubSeq(toSrv, n + 1, Len(toSrv))  b == SubSeq(toSrv, 1, n)
<1>3. /\ r \in Seq(Byte) /\ Len(r) = Len(toSrv) - n
      /\ b \in Seq(Byte) /\ Len(b) = n /\ \A i \in 1..n : b[i] = toSrv[i]
  BY <1>1, RestFacts
<1> QED  BY <1>1, <1>2, <1>3 DEF Bytes

----------------------------------------------------------------------------
(* The handler reads a header.                                             *)

LEMMA ReadMagicStep ==
    ASSUME WireInv, ReadMagic
    PROVE  WireInv'
<1>0. /\ P1 \in Nat /\ P1 > 0 /\ Len(toSrv) >= P1 /\ Len(toSrv) \in Nat
      /\ srv = "magic" /\ Reading /\ Take(P1)
  BY Lengths, Numbers DEF ReadMagic, Reading, P1
<1>1. /\ toSrv' = SubSeq(toSrv, P1 + 1, Len(toSrv)) /\ P1 \in 0..Len(toSrv)
      /\ toSrv' \in Seq(Byte)
  BY <1>0, TakeFacts
<1>2. toSrv # <<>>
  BY <1>0
<1>3. /\ UNCHANGED <<file, cvars, hvars, taken, maxSize, gvars>>
      /\ (srv' = "len" /\ UNCHANGED toCli) \/ Reject
  BY DEF ReadMagic
<1>4. srv' \in {"len", "closed"} => HandlerOK'
  BY <1>1, <1>3 DEF WireInv, Everywhere, HandlerOK, hvars, Fields, PayloadRead, InPayload
<1>5. CASE srv' = "len" /\ UNCHANGED toCli
  <2>1. Consumed = 0 /\ Consumed' = P1
    BY <1>0, <1>5 DEF Consumed, Off
  <2>2. HeaderRead' /\ TakenIsPrefix' /\ Verified'
    BY <1>5 DEF HeaderRead, TakenIsPrefix, Verified, InPayload, PayloadRead
  <2>3. Reading' /\ Consumed' = Consumed + P1
    BY <1>0, <1>5, <2>1 DEF Reading
  <2> QED  BY <1>0, <1>1, <1>2, <1>3, <1>4, <1>5, <2>2, <2>3, HandlerReadsOn
<1>6. CASE Reject
  BY <1>0, <1>2, <1>3, <1>4, <1>6, HandlerStops DEF Reject
<1> QED  BY <1>3, <1>5, <1>6

LEMMA ReadNameLenStep ==
    ASSUME WireInv, ReadNameLen
    PROVE  WireInv'
<1>0. /\ LenLen \in Nat /\ LenLen > 0 /\ Len(toSrv) >= LenLen /\ Len(toSrv) \in Nat
      /\ srv = "len" /\ Reading /\ Take(LenLen) /\ P1 \in Nat /\ P2 = P1 + LenLen
  BY Lengths, Numbers DEF ReadNameLen, Reading
<1>1. /\ toSrv' = SubSeq(toSrv, LenLen + 1, Len(toSrv)) /\ LenLen \in 0..Len(toSrv)
      /\ toSrv' \in Seq(Byte) /\ Bytes(LenLen) \in Seq(Byte) /\ Len(Bytes(LenLen)) = LenLen
  BY <1>0, TakeFacts
<1>2. /\ nameLen' = Decode(Bytes(LenLen)) /\ nameLen' \in 0..(Base^LenLen - 1)
      /\ UNCHANGED <<file, cvars, filename, size, taken, maxSize, gvars>>
      /\ (srv' = "name" /\ UNCHANGED toCli) \/ Reject
  BY <1>1, DecodeFacts DEF ReadNameLen
<1>3. srv' \in {"name", "closed"} => HandlerOK'
  BY <1>1, <1>2 DEF WireInv, Everywhere, HandlerOK, Fields, PayloadRead, InPayload
<1>4. CASE srv' = "name" /\ UNCHANGED toCli
  <2>1. ASSUME Aligned PROVE nameLen' = Len(name)
    <3> DEFINE f == Encode(LenLen, Len(name))
    <3>1. /\ name \in ValidNames \cup {<<>>} /\ name \in Seq(Byte) /\ hashed \in Seq(Byte)
      BY Numbers DEF WireInv, Everywhere, TypeOK
    <3>2. f \in Seq(Byte) /\ Len(f) = LenLen /\ Decode(f) = Len(name)
      BY <3>1, NameFacts, EncodeFacts
    <3>3. FieldsAt(name, declared, hashed)
      BY <3>1, Places
    <3>4. Consumed = P1
      BY <1>0 DEF Consumed, Off
    <3>5. \A i \in 1..LenLen : At(Consumed + i, name, declared, hashed) = f[i]
      BY <3>3, <3>4 DEF FieldsAt
    <3> HIDE DEF f
    <3>6. Bytes(LenLen) = f
      BY <1>0, <2>1, <3>2, <3>5, NextBytes
    <3> QED  BY <1>2, <3>2, <3>6
  <2>2. Consumed = P1 /\ Consumed' = P2 /\ Reading'
    BY <1>0, <1>4 DEF Consumed, Off, Reading
  <2>3. Aligned => HeaderRead' /\ TakenIsPrefix' /\ Verified'
    BY <1>2, <1>4, <2>1 DEF HeaderRead, TakenIsPrefix, Verified, InPayload, PayloadRead, cvars
  <2>4. Consumed' = Consumed + LenLen
    BY <1>0, <2>2
  <2> QED  BY <1>0, <1>1, <1>2, <1>3, <1>4, <2>2, <2>3, <2>4, HandlerReadsOn
<1>5. CASE Reject
  BY <1>0, <1>2, <1>3, <1>5, HandlerStops DEF Reject
<1> QED  BY <1>2, <1>4, <1>5

LEMMA ReadNameStep ==
    ASSUME WireInv, ReadName
    PROVE  WireInv'
<1>0. /\ nameLen \in Nat /\ Len(toSrv) >= nameLen /\ Len(toSrv) \in Nat
      /\ srv = "name" /\ Reading /\ Take(nameLen) /\ P2 \in Nat
  BY Lengths, Numbers DEF ReadName, Reading
<1>1. /\ toSrv' = SubSeq(toSrv, nameLen + 1, Len(toSrv)) /\ nameLen \in 0..Len(toSrv)
      /\ toSrv' \in Seq(Byte)
  BY <1>0, TakeFacts
<1>2. /\ filename' = Bytes(nameLen)
      /\ UNCHANGED <<file, cvars, nameLen, size, taken, maxSize, gvars>>
      /\ (srv' = "size" /\ UNCHANGED toCli /\ filename' \in ValidNames) \/ Reject
  BY DEF ReadName
<1>3. srv' = "closed" \/ (srv' = "size" /\ filename' \in ValidNames) => HandlerOK'
  BY <1>1, <1>2 DEF WireInv, Everywhere, HandlerOK, Fields, PayloadRead, InPayload
<1>4. CASE srv' = "size" /\ UNCHANGED toCli /\ filename' \in ValidNames
  <2>1. ASSUME Aligned PROVE filename' = name /\ nameLen' = Len(name)
    <3>1. /\ name \in Seq(Byte) /\ hashed \in Seq(Byte) /\ nameLen = Len(name)
      BY <1>0, <2>1, Numbers DEF Aligned, HeaderRead
    <3>2. FieldsAt(name, declared, hashed)
      BY <3>1, Places
    <3>3. Consumed = P2
      BY <1>0 DEF Consumed, Off
    <3>4. \A i \in 1..nameLen : At(Consumed + i, name, declared, hashed) = name[i]
      BY <3>1, <3>2, <3>3 DEF FieldsAt
    <3>5. Bytes(nameLen) = name
      BY <1>0, <2>1, <3>1, <3>4, NextBytes
    <3> QED  BY <1>2, <3>1, <3>5
  <2>2. Consumed = P2 /\ Consumed' = P2 + nameLen /\ Reading'
    BY <1>0, <1>2, <1>4 DEF Consumed, Off, Reading
  <2>3. Aligned => HeaderRead' /\ TakenIsPrefix' /\ Verified'
    BY <1>2, <1>4, <2>1 DEF HeaderRead, TakenIsPrefix, Verified, InPayload, PayloadRead, cvars
  <2> QED  BY <1>0, <1>1, <1>2, <1>3, <1>4, <2>2, <2>3, HandlerReadsOn
<1>5. CASE Reject
  BY <1>0, <1>2, <1>3, <1>5, HandlerStops DEF Reject
<1> QED  BY <1>2, <1>4, <1>5

LEMMA ReadSizeStep ==
    ASSUME WireInv, ReadSize
    PROVE  WireInv'
<1>0. /\ SizeLen \in Nat /\ SizeLen > 0 /\ Len(toSrv) >= SizeLen /\ Len(toSrv) \in Nat
      /\ srv = "size" /\ Reading /\ Take(SizeLen) /\ P2 \in Nat /\ nameLen \in Nat
  BY Lengths, Numbers DEF ReadSize, Reading
<1>1. /\ toSrv' = SubSeq(toSrv, SizeLen + 1, Len(toSrv)) /\ SizeLen \in 0..Len(toSrv)
      /\ toSrv' \in Seq(Byte) /\ Bytes(SizeLen) \in Seq(Byte) /\ Len(Bytes(SizeLen)) = SizeLen
  BY <1>0, TakeFacts
<1>2. /\ size' = Decode(Bytes(SizeLen)) /\ size' \in 0..(2^Width - 1)
      /\ UNCHANGED <<file, cvars, nameLen, filename, taken, maxSize, gvars>>
      /\ (srv' = "body" /\ UNCHANGED toCli /\ ~TooLarge(size')) \/ Reject
  BY <1>1, DecodeFacts DEF ReadSize
<1>3. srv' = "closed" \/ (srv' = "body" /\ ~TooLarge(size')) => HandlerOK'
  BY <1>0, <1>1, <1>2 DEF WireInv, Everywhere, HandlerOK, PayloadRead, InPayload, TooLarge
<1>4. CASE srv' = "body" /\ UNCHANGED toCli /\ ~TooLarge(size')
  <2>1. ASSUME Aligned PROVE size' = declared /\ filename = name /\ nameLen = Len(name)
    <3> DEFINE f == Encode(SizeLen, declared)
    <3>1. /\ declared \in 0..(2^Width - 1) /\ name \in Seq(Byte) /\ hashed \in Seq(Byte)
          /\ filename = name /\ nameLen = Len(name)
      BY <1>0, <2>1, Numbers DEF WireInv, Everywhere, TypeOK, Aligned, HeaderRead
    <3>2. f \in Seq(Byte) /\ Len(f) = SizeLen /\ Decode(f) = declared
      BY <3>1, EncodeFacts
    <3>3. FieldsAt(name, declared, hashed)
      BY <3>1, Places
    <3>4. Consumed = P2 + Len(name)
      BY <1>0, <3>1 DEF Consumed, Off
    <3>5. \A i \in 1..SizeLen : At(Consumed + i, name, declared, hashed) = f[i]
      BY <3>3, <3>4 DEF FieldsAt
    <3> HIDE DEF f
    <3>6. Bytes(SizeLen) = f
      BY <1>0, <2>1, <3>2, <3>5, NextBytes
    <3> QED  BY <1>2, <3>1, <3>2, <3>6
  <2>2. Consumed = P2 + nameLen /\ Consumed' = P2 + nameLen + SizeLen /\ Reading'
    BY <1>0, <1>2, <1>4 DEF Consumed, Off, Reading
  <2>3. Aligned => HeaderRead' /\ TakenIsPrefix' /\ Verified'
    BY <1>2, <1>4, <2>1 DEF HeaderRead, TakenIsPrefix, Verified, InPayload, PayloadRead, cvars
  <2> QED  BY <1>0, <1>1, <1>2, <1>3, <1>4, <2>2, <2>3, HandlerReadsOn
<1>5. CASE Reject
  BY <1>0, <1>2, <1>3, <1>5, HandlerStops DEF Reject
<1> QED  BY <1>2, <1>4, <1>5

LEMMA HeaderEndsStep ==
    ASSUME WireInv, HeaderEnds
    PROVE  WireInv'
<1>1. /\ srv' = "closed" /\ cli = "closed" /\ UNCHANGED toCli
      /\ toSrv' = <<>> /\ UNCHANGED <<file, cvars, hvars, taken, maxSize, gvars>>
  BY DEF HeaderEnds, Reject, Answer, Ended
<1>2. HandlerOK'
  BY <1>1 DEF WireInv, Everywhere, HandlerOK, hvars, PayloadRead, InPayload
<1> QED  BY <1>1, <1>2, HandlerStops

LEMMA HandlerLeavesStep ==
    ASSUME WireInv, HandlerLeaves
    PROVE  WireInv'
<1>1. HandlerOK'
  BY DEF HandlerLeaves, WireInv, Everywhere, HandlerOK, hvars, PayloadRead, InPayload
<1> QED  BY <1>1, HandlerStops DEF HandlerLeaves

LEMMA CommitFailsStep ==
    ASSUME WireInv, CommitFails
    PROVE  WireInv'
<1>1. srv' = "closed" /\ Reading /\ srv # "magic"
  BY DEF CommitFails, Reject, Reading
<1>2. HandlerOK'
  BY <1>1 DEF CommitFails, WireInv, Everywhere, HandlerOK, hvars, PayloadRead, InPayload
<1> QED  BY <1>1, <1>2, HandlerStops DEF CommitFails, Reject

----------------------------------------------------------------------------
(* The handler takes a payload, compares the trailer and commits.          *)

LEMMA ReceiveBodyStep ==
    ASSUME WireInv, ReceiveBody
    PROVE  WireInv'
<1>0. /\ Len(toSrv) \in Nat /\ Len(hashed) \in Nat /\ size \in Nat /\ declared \in Nat
      /\ P2 \in Nat /\ nameLen \in Nat /\ SizeLen \in Nat /\ HeadLen(name) \in Nat
      /\ srv = "body" /\ Reading
  BY Numbers, Lengths DEF ReceiveBody, Reading
<1>1. Copied \in Nat /\ Copied <= Len(toSrv)
  <2>1. Signed(size) \in Int
    BY <1>0, WireAssumption, PowerAssumption DEF Signed
  <2> QED  BY <1>0, <2>1 DEF Copied, Limit
<1>2. Take(Copied) /\ taken' = Bytes(Copied) /\ UNCHANGED <<file, cvars, hvars, maxSize, gvars>>
  BY DEF ReceiveBody, Bytes
<1>3. /\ toSrv' = SubSeq(toSrv, Copied + 1, Len(toSrv)) /\ Copied \in 0..Len(toSrv)
      /\ toSrv' \in Seq(Byte) /\ taken' \in Seq(Byte) /\ Len(taken') = Copied
      /\ \A i \in 1..Copied : taken'[i] = toSrv[i]
  BY <1>1, <1>2, TakeFacts
<1>4. (srv' = "trailer" /\ UNCHANGED toCli /\ Copied = size) \/ Reject
  BY DEF ReceiveBody
<1>5. srv' = "closed" \/ (srv' = "trailer" /\ Copied = size) => HandlerOK'
  BY <1>0, <1>2, <1>3 DEF WireInv, Everywhere, HandlerOK, PayloadRead, InPayload, TooLarge, hvars
<1>6. CASE srv' = "trailer" /\ UNCHANGED toCli /\ Copied = size
  <2>1. Consumed = P2 + nameLen + SizeLen /\ Consumed' = P2 + nameLen + SizeLen + size /\ Reading'
    BY <1>0, <1>2, <1>6 DEF Consumed, Off, Reading, hvars
  <2>2. ASSUME Aligned PROVE HeaderRead' /\ TakenIsPrefix' /\ Verified'
    <3>1. size = declared /\ nameLen = Len(name) /\ name \in Seq(Byte) /\ hashed \in Seq(Byte)
      BY <1>0, <2>2, Numbers DEF Aligned, HeaderRead, InPayload
    <3>2. Consumed = HeadLen(name)
      BY <2>1, <3>1 DEF HeadLen
    <3>3. declared <= Len(hashed)
      BY <1>0, <1>3, <1>6, <2>2, <3>1, <3>2 DEF Aligned, Written, Place
    <3>4. FieldsAt(name, declared, hashed)
      BY <3>1, Places
    <3>5. declared \in 0..Len(hashed)
      BY <1>0, <3>3
    <3>6. /\ Announced \in Seq(Byte) /\ Len(Announced) = declared
          /\ \A i \in 1..declared : Announced[i] = hashed[i]
      BY <3>1, <3>5, RestFacts DEF Announced
    <3>7. \A i \in 1..declared : At(Consumed + i, name, declared, hashed) = Announced[i]
      BY <1>0, <3>2, <3>3, <3>4, <3>6 DEF FieldsAt
    <3>8. taken' = Announced
      <4>1. declared <= Len(toSrv) /\ Copied = declared
        BY <1>1, <1>6, <3>1
      <4>2. Bytes(declared) = Announced
        BY <1>0, <2>2, <3>6, <3>7, <4>1, NextBytes
      <4> QED  BY <1>2, <4>1, <4>2
    <3>9. TakenIsPrefix'
      BY <1>2, <3>3, <3>8 DEF TakenIsPrefix, Announced, cvars
    <3> QED
      BY <1>0, <1>2, <1>6, <2>2, <3>9 DEF Aligned, HeaderRead, Verified, InPayload, hvars, cvars
  <2>3. Consumed' = Consumed + Copied
    BY <1>0, <1>6, <2>1
  <2> QED  BY <1>0, <1>2, <1>3, <1>5, <1>6, <2>1, <2>2, <2>3, HandlerReadsOn
<1>7. CASE Reject
  BY <1>0, <1>2, <1>5, <1>7, HandlerStops DEF Reject
<1> QED  BY <1>4, <1>6, <1>7

\* Bytes that pass for the trailer are the trailer, or part of a payload that has grown
\* by its own sum.
LEMMA TrailerIsSum ==
    ASSUME WireInv, Aligned, srv = "trailer", Len(toSrv) >= SumLen, Bytes(SumLen) = Sum(taken)
    PROVE  \/ Len(hashed) = declared /\ Len(toSrv) = SumLen /\ cli # "stream"
           \/ GrewBySum
<1>0. /\ Len(toSrv) \in Nat /\ Len(hashed) \in Nat /\ size \in Nat /\ declared \in Nat
      /\ P2 \in Nat /\ nameLen \in Nat /\ SizeLen \in Nat /\ HeadLen(name) \in Nat
      /\ SumLen \in Nat /\ SumLen > 0 /\ name \in Seq(Byte) /\ hashed \in Seq(Byte)
      /\ toSrv \in Seq(Byte)
  BY Numbers, Lengths
<1>1. /\ size = declared /\ nameLen = Len(name) /\ declared <= Len(hashed) /\ taken = Announced
      /\ Reading
  BY DEF Aligned, HeaderRead, TakenIsPrefix, InPayload, PayloadRead, Reading
<1>2. Consumed = HeadLen(name) + declared
  BY <1>0, <1>1 DEF Consumed, Off, HeadLen
<1>3. Place = HeadLen(name) + declared + Len(toSrv)
  BY <1>0, <1>2 DEF Place
<1>4. CASE Len(hashed) = declared
  BY <1>0, <1>1, <1>3, <1>4 DEF Aligned, Written
<1>5. CASE Len(hashed) # declared
  <2>1. declared + Len(toSrv) <= Len(hashed)
    BY <1>0, <1>1, <1>3, <1>5 DEF Aligned, Written
  <2> DEFINE f == SubSeq(hashed, declared + 1, declared + SumLen)
  <2>2. declared + SumLen <= Len(hashed)
    BY <1>0, <2>1
  <2>3. f \in Seq(Byte) /\ Len(f) = SumLen /\ \A i \in 1..SumLen : f[i] = hashed[declared + i]
    BY <1>0, <2>2, StretchFacts
  <2> HIDE DEF f
  <2>4. FieldsAt(name, declared, hashed)
    BY <1>0, Places
  <2>5. ASSUME NEW i \in 1..SumLen PROVE At(Consumed + i, name, declared, hashed) = f[i]
    <3>1. declared + i \in 1..Len(hashed) /\ Consumed + i = HeadLen(name) + (declared + i)
      BY <1>0, <1>2, <2>2
    <3>2. At(HeadLen(name) + (declared + i), name, declared, hashed) = hashed[declared + i]
      BY <2>4, <3>1 DEF FieldsAt
    <3> QED  BY <2>3, <3>1, <3>2
  <2>6. Bytes(SumLen) = f
    BY <1>0, <1>1, <2>3, <2>5, NextBytes
  <2> QED  BY <1>0, <1>1, <2>2, <2>6 DEF GrewBySum, f
<1> QED  BY <1>4, <1>5

LEMMA ReceiveTrailerStep ==
    ASSUME WireInv, ReceiveTrailer
    PROVE  WireInv'
<1>0. /\ Len(toSrv) \in Nat /\ size \in Nat /\ P2 \in Nat /\ nameLen \in Nat /\ SizeLen \in Nat
      /\ SumLen \in Nat /\ SumLen > 0 /\ srv = "trailer" /\ Reading
  BY Numbers, Lengths DEF ReceiveTrailer, Reading
<1> DEFINE n == IF Len(toSrv) >= SumLen THEN SumLen ELSE Len(toSrv)
<1>1. n \in Nat /\ n <= Len(toSrv) /\ Take(n)
  BY <1>0 DEF ReceiveTrailer
<1>a. UNCHANGED <<file, cvars, hvars, taken, maxSize, gvars>>
  BY DEF ReceiveTrailer
<1>b. \/ srv' = "barrier" /\ UNCHANGED toCli /\ Len(toSrv) >= SumLen /\ n = SumLen
         /\ Bytes(SumLen) = Sum(taken)
      \/ Reject
  BY DEF ReceiveTrailer, ChecksumMatches
<1> HIDE DEF n
<1>2. /\ toSrv' = SubSeq(toSrv, n + 1, Len(toSrv)) /\ n \in 0..Len(toSrv)
      /\ toSrv' \in Seq(Byte) /\ Len(toSrv') = Len(toSrv) - n
  BY <1>1, TakeFacts
<1>3. srv' \in {"barrier", "closed"} => HandlerOK'
  BY <1>0, <1>2, <1>a DEF WireInv, Everywhere, HandlerOK, PayloadRead, InPayload, TooLarge, hvars
<1>4. CASE srv' = "barrier" /\ UNCHANGED toCli /\ Len(toSrv) >= SumLen /\ n = SumLen
           /\ Bytes(SumLen) = Sum(taken)
  <2>1. /\ Consumed = P2 + nameLen + SizeLen + size /\ Reading'
        /\ Consumed' = P2 + nameLen + SizeLen + size + SumLen
    BY <1>0, <1>a, <1>4 DEF Consumed, Off, Reading, hvars
  <2>2. ASSUME Aligned PROVE HeaderRead' /\ TakenIsPrefix' /\ Verified'
    <3>1. HeaderRead' /\ TakenIsPrefix'
      BY <1>0, <1>a, <1>4, <2>2
      DEF Aligned, HeaderRead, TakenIsPrefix, Announced, InPayload, PayloadRead, hvars, cvars
    <3>2. \/ Len(hashed) = declared /\ Len(toSrv) = SumLen /\ cli # "stream"
          \/ GrewBySum
      BY <1>0, <1>4, <2>2, TrailerIsSum
    <3>3. Len(toSrv) = SumLen => toSrv' = <<>>
      BY <1>0, <1>2, <1>4, EmptySeq
    <3>4. Verified'
      BY <1>a, <3>2, <3>3 DEF Verified, GrewBySum, Announced, cvars
    <3> QED  BY <3>1, <3>4
  <2>3. Consumed' = Consumed + n
    BY <1>0, <1>4, <2>1
  <2> QED  BY <1>0, <1>2, <1>3, <1>4, <1>a, <2>1, <2>2, <2>3, HandlerReadsOn
<1>5. CASE Reject
  BY <1>0, <1>3, <1>5, <1>a, HandlerStops DEF Reject
<1> QED  BY <1>4, <1>5, <1>b

\* What the barrier stores is what was announced and went through the sender's hasher.
LEMMA CommitStep ==
    ASSUME WireInv, Commit
    PROVE  WireInv'
<1> DEFINE r == [name |-> filename, data |-> taken]
<1>0. /\ srv = "barrier" /\ Reading /\ srv' = "magic" /\ Answer("ack") /\ stored' = Append(stored, r)
      /\ UNCHANGED <<file, cvars, toSrv, hvars, taken, maxSize, reqs, changes>>
  BY DEF Commit, Reading
<1>1. cli # "idle" /\ (Aligned => toCli # <<"ack">>)
  BY <1>0, InRequest
<1>2. toCli' \in Seq({"ack", "nack"}) /\ WhenClosed'
  <2>1. toCli \in Seq({"ack", "nack"})
    BY DEF WireInv, Everywhere, TypeOK
  <2>2. Append(toCli, "ack") \in Seq({"ack", "nack"})
    BY <2>1, AppendFacts
  <2> QED
    BY <1>0, <2>1, <2>2 DEF Answer, Ended, WireInv, Everywhere, WhenClosed, cvars
<1>a. /\ stored \in Seq([name : ValidNames, data : Seq(Byte)]) /\ r \in [name : ValidNames, data : Seq(Byte)]
      /\ stored' \in Seq([name : ValidNames, data : Seq(Byte)])
  <2> DEFINE R == [name : ValidNames, data : Seq(Byte)]
  <2>1. stored \in Seq(R) /\ r \in R
    BY <1>0 DEF WireInv, Everywhere, TypeOK, HandlerOK
  <2> HIDE DEF r, R
  <2>2. stored' \in Seq(R)
    BY <1>0, <2>1, AppendFacts
  <2> QED  BY <2>1, <2>2 DEF R
<1> HIDE DEF r
<1>3. HandlerOK' /\ TypeOK' /\ WhenIdle' /\ maxSize' \in ParseByteSize
  <2>1. HandlerOK'
    BY <1>0 DEF WireInv, Everywhere, HandlerOK, Fields, PayloadRead, InPayload, hvars
  <2>2. TypeOK'
    BY <1>0, <1>2, <1>a DEF WireInv, Everywhere, TypeOK, Fields, hvars, cvars
  <2> QED
    BY <1>0, <1>1, <2>1, <2>2 DEF WireInv, Everywhere, WhenIdle, ParseByteSize, cvars
<1>4. CASE Lost
  <2>1. stored' # <<>> /\ Head(stored') = Head(stored)
    BY <1>0, <1>4, <1>a DEF Lost
  <2>2. Lost'
    BY <1>0, <1>4, <2>1 DEF Lost, GrewBySum, Announced, cvars
  <2>3. StoredIsSent'
    BY <1>0, <1>4, <2>1 DEF Lost, WireInv, Everywhere, StoredIsSent, GrewBySum, Announced, cvars
  <2> QED  BY <1>2, <1>3, <2>2, <2>3 DEF WireInv, Everywhere
<1>5. CASE Aligned
  <2>1. /\ stored = <<>> /\ filename = name /\ taken = Announced /\ declared <= Len(hashed)
        /\ (Len(hashed) = declared /\ toSrv = <<>> /\ cli # "stream") \/ GrewBySum
    BY <1>0, <1>5 DEF Aligned, AfterCommit, HeaderRead, TakenIsPrefix, Verified, PayloadRead
  <2>2. stored' = <<[name |-> name, data |-> Announced]>>
    BY <1>0, <2>1, AppendEmpty DEF r
  <2>3. StoredIsSent'
    <3>1. /\ stored' # <<>> /\ Len(stored') = 1
          /\ Head(stored') = [name |-> name, data |-> Announced]
      BY <2>2
    <3> QED  BY <1>0, <2>1, <3>1 DEF StoredIsSent, GrewBySum, Announced, cvars
  <2>4. Everywhere'
    BY <1>2, <1>3, <2>3 DEF Everywhere
  <2>5. CASE GrewBySum
    <3>1. cli \in {"stream", "closed"}
      <4>1. cli # "reply"
        <5>1. cli = "reply" => Len(hashed) = declared
          BY <1>5 DEF Aligned, WhenReplying
        <5>2. Len(hashed) \in Nat /\ declared \in Nat /\ SumLen \in Nat \ {0}
          BY Lengths, Numbers
        <5>3. Len(hashed) # declared
          BY <2>5, <5>2 DEF GrewBySum
        <5> QED  BY <5>1, <5>3
      <4> QED  BY <1>1, <4>1 DEF WireInv, Everywhere, TypeOK
    <3>2. stored' # <<>>
      BY <2>2
    <3>3. Lost'
      BY <1>0, <2>5, <3>1, <3>2 DEF Lost, GrewBySum, Announced, cvars
    <3> QED  BY <2>4, <3>3 DEF WireInv
  <2>6. CASE Len(hashed) = declared /\ toSrv = <<>> /\ cli # "stream"
    <3>1. Announced = hashed
      <4>1. hashed \in Seq(Byte) /\ declared \in 0..Len(hashed)
        BY <2>6, Numbers
      <4>2. /\ Announced \in Seq(Byte) /\ Len(Announced) = declared
            /\ \A i \in 1..declared : Announced[i] = hashed[i]
        BY <4>1, RestFacts DEF Announced
      <4> HIDE DEF Announced
      <4> QED  BY <2>6, <4>1, <4>2, SameSeq
    <3>2. \/ cli = "closed"
          \/ cli = "reply" /\ toCli' = <<"ack">>
      <4>1. CASE cli = "reply"
        <5>1. toCli = <<>>
          BY <1>0, <1>5, <4>1 DEF Aligned, WhenReplying, Acked
        <5> QED  BY <1>0, <4>1, <5>1, AppendEmpty DEF Answer, Ended
      <4> QED  BY <1>1, <2>6, <4>1 DEF WireInv, Everywhere, TypeOK
    <3>3. Framed' /\ Written'
      <4>1. /\ Consumed' = 0 /\ Len(toSrv') = 0 /\ toSrv' = <<>>
            /\ HeadLen(name) \in Nat /\ Len(hashed) \in Nat
        BY <1>0, <2>6, Numbers DEF Consumed, Off
      <4> QED  BY <1>0, <4>1 DEF Framed, Written, Place, cvars
    <3>4. WhenStreaming' /\ WhenReplying'
      BY <1>0, <2>2, <2>6, <3>1, <3>2 DEF WhenStreaming, WhenReplying, Acked, cvars
    <3>5. HeaderRead' /\ TakenIsPrefix' /\ Verified' /\ AfterCommit'
      BY <1>0, <2>6 DEF HeaderRead, TakenIsPrefix, Verified, AfterCommit, InPayload, PayloadRead
    <3> QED  BY <2>4, <3>3, <3>4, <3>5 DEF WireInv, Aligned
  <2> QED  BY <2>1, <2>5, <2>6
<1> QED  BY <1>4, <1>5 DEF WireInv

----------------------------------------------------------------------------
(* The client.                                                             *)

\* The client closes, and the handler gets a first part of what is under way.
LEMMA ClientStops ==
    ASSUME WireInv, CloseConn, UNCHANGED <<file, name, declared, hashed, svars, maxSize, gvars>>
    PROVE  WireInv'
<1>1. PICK n \in 0..Len(toSrv) : toSrv' = SubSeq(toSrv, 1, n)
  BY DEF CloseConn, Prefixes
<1>a. toSrv \in Seq(Byte) /\ Len(toSrv) \in Nat /\ Consumed \in Nat
  BY Numbers
<1>2. /\ toSrv' \in Seq(Byte) /\ Len(toSrv') = n
      /\ \A i \in 1..n : toSrv'[i] = toSrv[i]
  <2> DEFINE r == SubSeq(toSrv, 1, n)
  <2>1. r \in Seq(Byte) /\ Len(r) = n /\ \A i \in 1..n : r[i] = toSrv[i]
    BY <1>a, RestFacts
  <2> QED  BY <1>1, <2>1
<1>3. /\ cli' = "closed" /\ toCli' = <<>>
      /\ UNCHANGED <<file, name, declared, hashed, srv, nameLen, filename, size, taken, maxSize, stored>>
  BY DEF CloseConn, svars, hvars, gvars
<1>4. HandlerOK' /\ TypeOK'
  BY <1>2, <1>3 DEF WireInv, Everywhere, HandlerOK, TypeOK, PayloadRead, InPayload, TooLarge
<1>5. WhenClosed' /\ WhenIdle' /\ WhenStreaming' /\ WhenReplying'
  BY <1>3 DEF WhenClosed, WhenIdle, WhenStreaming, WhenReplying
<1>6. GrewBySum' = GrewBySum /\ Announced' = Announced
  BY <1>3 DEF GrewBySum, Announced
<1>7. StoredIsSent' /\ maxSize' \in ParseByteSize
  BY <1>3, <1>6 DEF WireInv, Everywhere, StoredIsSent, ParseByteSize
<1>8. Lost => Lost'
  BY <1>3, <1>6 DEF Lost
<1>9. ASSUME Aligned PROVE Aligned'
  <2>1. Consumed' = Consumed /\ Reading' = Reading
    BY <1>3 DEF Consumed, Reading
  <2>2. Framed'
    <3>1. Reading => \A i \in 1..n : toSrv[i] = At(Consumed + i, name, declared, hashed)
      BY <1>9, <1>a DEF Aligned, Framed
    <3> QED  BY <1>2, <1>3, <2>1, <3>1 DEF Framed
  <2>3. Written'
    <3>1. Place' \in Nat /\ Place' <= Place
      BY <1>2, <1>a, <2>1 DEF Place
    <3>2. /\ HeadLen(name) \in Nat /\ Len(hashed) \in Nat /\ SumLen \in Nat /\ Place \in Nat
      BY <1>a, Numbers, Lengths DEF Place
    <3> HIDE DEF Place
    <3> QED  BY <1>3, <1>9, <2>1, <3>1, <3>2 DEF Aligned, Written
  <2>4. HeaderRead' /\ TakenIsPrefix'
    BY <1>3, <1>6, <1>9 DEF Aligned, HeaderRead, TakenIsPrefix, InPayload, PayloadRead
  <2>5. toSrv = <<>> => toSrv' = <<>>
    BY <1>1, <1>2
  <2>6. Verified' /\ AfterCommit'
    BY <1>3, <1>6, <1>9, <2>1, <2>5 DEF Aligned, Verified, AfterCommit
  <2> QED  BY <1>5, <2>2, <2>3, <2>4, <2>6 DEF Aligned
<1> QED  BY <1>4, <1>5, <1>7, <1>8, <1>9 DEF WireInv, Everywhere

LEMMA DialStep ==
    ASSUME WireInv, Dial
    PROVE  WireInv'
<1>1. /\ cli' = "idle" /\ srv' = "magic" /\ toSrv' = <<>> /\ toCli' = <<>> /\ stored' = <<>>
      /\ name' = <<>> /\ declared' = 0 /\ hashed' = <<>> /\ nameLen' = 0 /\ filename' = <<>>
      /\ size' = 0 /\ taken' = <<>> /\ UNCHANGED <<file, maxSize>>
  BY DEF Dial
<1>2. 0 \in 0..(2^Width - 1) /\ 0 \in 0..(Base^LenLen - 1)
  BY WireAssumption, PowerAssumption
<1>3. TypeOK' /\ HandlerOK'
  BY <1>1, <1>2 DEF WireInv, Everywhere, TypeOK, HandlerOK, Fields, PayloadRead, InPayload
<1>4. Framed' /\ Written'
  <2>0. name' \in Seq(Byte)
    BY <1>1
  <2>a. HeadLen(name') \in Nat
    BY <2>0, Lengths
  <2>1. /\ Consumed' = 0 /\ Len(toSrv') = 0 /\ Len(hashed') = 0 /\ HeadLen(name') \in Nat
    BY <1>1, <2>a DEF Consumed, Off
  <2> QED  BY <1>1, <2>1 DEF Framed, Written, Place
<1>5. WhenClosed' /\ WhenIdle' /\ WhenStreaming' /\ WhenReplying'
  BY <1>1 DEF WhenClosed, WhenIdle, WhenStreaming, WhenReplying
<1>6. HeaderRead' /\ TakenIsPrefix' /\ Verified' /\ AfterCommit'
  BY <1>1 DEF HeaderRead, TakenIsPrefix, Verified, AfterCommit, InPayload, PayloadRead
<1>7. StoredIsSent' /\ maxSize' \in ParseByteSize
  BY <1>1 DEF WireInv, Everywhere, StoredIsSent, ParseByteSize
<1> QED  BY <1>3, <1>4, <1>5, <1>6, <1>7 DEF WireInv, Everywhere, Aligned

LEMMA SendHeaderStep ==
    ASSUME WireInv, SendHeader
    PROVE  WireInv'
<1>1. toSrv = <<>> /\ toCli = <<>> /\ srv \in {"magic", "closed"}
  BY DEF SendHeader, WireInv, Everywhere, WhenIdle
<1>2. declared' \in 0..(2^Width - 1) /\ name' \in ValidNames
  <2>1. Len(file) \in 0..(2^Width - 1)
    BY ContentsFacts DEF WireInv, Everywhere, TypeOK
  <2> QED  BY <2>1, WireAssumption DEF SendHeader
<1>3. /\ toSrv' \in Seq(Byte) /\ Len(toSrv') = HeadLen(name')
      /\ \A i \in 1..HeadLen(name') : toSrv'[i] = At(i, name', declared', <<>>)
  <2> DEFINE h == Header(name', declared')
  <2>0. StartsRequest(h, name', declared')
    BY <1>2, HeaderFacts
  <2>1. /\ h \in Seq(Byte) /\ Len(h) = HeadLen(name')
        /\ \A i \in 1..HeadLen(name') : h[i] = At(i, name', declared', <<>>)
    BY <2>0 DEF StartsRequest
  <2>2. toSrv' = <<>> \o h
    BY <1>1 DEF SendHeader
  <2> HIDE DEF h
  <2>3. toSrv' = h
    BY <2>1, <2>2, ConcatEmptySeq
  <2> QED  BY <2>1, <2>3
<1>5. /\ cli' = "stream" /\ hashed' = <<>> /\ stored' = <<>>
      /\ UNCHANGED <<file, toCli, srv, nameLen, filename, size, taken, maxSize>>
  BY DEF SendHeader, svars, hvars
<1>6. TypeOK' /\ HandlerOK'
  BY <1>1, <1>2, <1>3, <1>5
  DEF WireInv, Everywhere, TypeOK, HandlerOK, Fields, PayloadRead, InPayload
<1>7. Reading' => Consumed' = 0
  BY <1>1, <1>5 DEF Reading, Consumed, Off
<1>8. HeadLen(name') \in Nat /\ Len(hashed') = 0
  BY <1>2, <1>5, NameFacts, Lengths
<1>9. Framed'
  BY <1>3, <1>5, <1>7, <1>8 DEF Framed
<1>10. Written' /\ WhenStreaming'
  BY <1>1, <1>3, <1>5, <1>7, <1>8 DEF Written, WhenStreaming, Place
<1>11. WhenClosed' /\ WhenIdle' /\ WhenReplying'
  BY <1>5 DEF WhenClosed, WhenIdle, WhenReplying
<1>12. HeaderRead' /\ TakenIsPrefix' /\ Verified' /\ AfterCommit'
  BY <1>1, <1>5 DEF HeaderRead, TakenIsPrefix, Verified, AfterCommit, InPayload, PayloadRead
<1>13. StoredIsSent' /\ maxSize' \in ParseByteSize
  BY <1>5 DEF WireInv, Everywhere, StoredIsSent, ParseByteSize
<1> QED
  BY <1>6, <1>9, <1>10, <1>11, <1>12, <1>13 DEF WireInv, Everywhere, Aligned

\* A byte that is sent leaves what was announced and what was found of it as it is.
LEMMA PrefixKept ==
    ASSUME NEW h \in Seq(Byte), NEW b \in Byte, NEW m \in Nat, NEW k \in Nat, m + k <= Len(h)
    PROVE  SubSeq(Append(h, b), m + 1, m + k) = SubSeq(h, m + 1, m + k)
<1> DEFINE g == Append(h, b)  s == SubSeq(g, m + 1, m + k)  t == SubSeq(h, m + 1, m + k)
<1>1. /\ g \in Seq(Byte) /\ Len(g) = Len(h) + 1 /\ \A i \in 1..Len(h) : g[i] = h[i]
  BY AppendFacts
<1>2. g \in Seq(Byte) /\ m + k <= Len(g)
  BY <1>1
<1> HIDE DEF g
<1>3. s \in Seq(Byte) /\ Len(s) = k /\ \A i \in 1..k : s[i] = g[m + i]
  BY <1>2, StretchFacts
<1>4. t \in Seq(Byte) /\ Len(t) = k /\ \A i \in 1..k : t[i] = h[m + i]
  BY StretchFacts
<1>5. \A i \in 1..k : m + i \in 1..Len(h)
  OBVIOUS
<1> HIDE DEF s, t
<1>6. \A i \in 1..k : s[i] = t[i]
  BY <1>1, <1>3, <1>4, <1>5
<1>7. s = t
  BY <1>3, <1>4, <1>6, SameSeq
<1> QED  BY <1>7 DEF s, t, g

\* The bytes of a request before the end of its payload do not depend on what follows.
LEMMA AtKept ==
    ASSUME NEW n \in Seq(Byte), NEW d, NEW h \in Seq(Byte), NEW g \in Seq(Byte),
           NEW p \in Nat, p <= HeadLen(n) + Len(h), Len(h) <= Len(g),
           \A i \in 1..Len(h) : g[i] = h[i]
    PROVE  At(p, n, d, g) = At(p, n, d, h)
<1>1. /\ HeadLen(n) \in Nat /\ P1 \in Nat /\ P2 \in Nat /\ Len(n) \in Nat /\ SizeLen \in Nat
      /\ LenLen \in Nat /\ P2 = P1 + LenLen /\ HeadLen(n) = P2 + Len(n) + SizeLen
      /\ Len(h) \in Nat /\ Len(g) \in Nat
  <2>1. P1 \in Nat /\ P2 \in Nat /\ SizeLen \in Nat /\ LenLen \in Nat /\ P2 = P1 + LenLen
    BY Lengths
  <2>2. HeadLen(n) \in Nat /\ HeadLen(n) = P2 + Len(n) + SizeLen
    BY Lengths
  <2>3. Len(n) \in Nat /\ Len(h) \in Nat /\ Len(g) \in Nat
    OBVIOUS
  <2> QED  BY <2>1, <2>2, <2>3
<1>2. CASE p <= HeadLen(n)
  BY <1>2 DEF At
<1>3. CASE ~(p <= HeadLen(n))
  <2> DEFINE H == HeadLen(n)  L == Len(h)
  <2>0. H \in Nat /\ L \in Nat /\ p <= H + L /\ ~(p <= H)
    BY <1>1, <1>3
  <2> HIDE DEF H, L
  <2>a. p - H \in 1..L
    BY <2>0
  <2>1. p - HeadLen(n) \in 1..Len(h)
    BY <2>a DEF H, L
  <2>2. g[p - HeadLen(n)] = h[p - HeadLen(n)]
    BY <2>1
  <2>3. /\ ~(p <= P1) /\ ~(p <= P2) /\ ~(p <= P2 + Len(n))
        /\ p <= HeadLen(n) + Len(h) /\ p <= HeadLen(n) + Len(g)
    BY <1>1, <1>3
  <2> QED  BY <1>3, <2>2, <2>3 DEF At
<1> QED  BY <1>2, <1>3

LEMMA SendByteStep ==
    ASSUME WireInv, SendByte
    PROVE  WireInv'
<1>0. /\ Len(toSrv) \in Nat /\ Len(hashed) \in Nat /\ Consumed \in Nat /\ declared \in Nat
      /\ toSrv \in Seq(Byte) /\ hashed \in Seq(Byte) /\ name \in Seq(Byte)
      /\ HeadLen(name) \in Nat /\ SumLen \in Nat
  BY Numbers, Lengths
<1> DEFINE b == file[Len(hashed) + 1]
<1>1. b \in Byte
  <2>1. file \in Seq(Byte)
    BY ContentsFacts DEF WireInv, Everywhere, TypeOK
  <2>2. Len(hashed) + 1 \in 1..Len(file)
    BY <1>0, <2>1 DEF SendByte
  <2> QED  BY <2>1, <2>2
<1>2. /\ cli = "stream" /\ hashed' = Append(hashed, b) /\ toSrv' = Append(toSrv, b)
      /\ UNCHANGED <<file, cli, name, declared, toCli, srv, nameLen, filename, size, taken, maxSize, stored>>
  BY DEF SendByte, svars, hvars, gvars
<1> HIDE DEF b
<1>3. /\ hashed' \in Seq(Byte) /\ Len(hashed') = Len(hashed) + 1 /\ hashed'[Len(hashed) + 1] = b
      /\ \A i \in 1..Len(hashed) : hashed'[i] = hashed[i]
  BY <1>0, <1>1, <1>2, AppendFacts
<1>4. /\ toSrv' \in Seq(Byte) /\ Len(toSrv') = Len(toSrv) + 1 /\ toSrv'[Len(toSrv) + 1] = b
      /\ \A i \in 1..Len(toSrv) : toSrv'[i] = toSrv[i]
  BY <1>0, <1>1, <1>2, AppendFacts
<1>5. declared <= Len(hashed) => Announced' = Announced
  <2>1. ASSUME declared <= Len(hashed)
        PROVE  SubSeq(hashed', 0 + 1, 0 + declared) = SubSeq(hashed, 0 + 1, 0 + declared)
    BY <1>0, <1>1, <1>2, <2>1, PrefixKept
  <2> QED  BY <1>0, <1>2, <2>1 DEF Announced
<1>6. GrewBySum => GrewBySum'
  <2> SUFFICES ASSUME GrewBySum PROVE GrewBySum'
    OBVIOUS
  <2>1. declared + SumLen <= Len(hashed) /\ declared <= Len(hashed)
    BY <1>0 DEF GrewBySum
  <2>2. SubSeq(hashed', declared + 1, declared + SumLen) = SubSeq(hashed, declared + 1, declared + SumLen)
    BY <1>0, <1>1, <1>2, <2>1, PrefixKept
  <2> QED  BY <1>0, <1>2, <1>3, <1>5, <2>1, <2>2 DEF GrewBySum
<1>7. TypeOK' /\ HandlerOK'
  BY <1>2, <1>3, <1>4 DEF WireInv, Everywhere, TypeOK, HandlerOK, PayloadRead, InPayload, TooLarge
<1>8. WhenClosed' /\ WhenIdle' /\ WhenReplying'
  BY <1>2 DEF WhenClosed, WhenIdle, WhenReplying
<1>9. Aligned => stored = <<>>
  BY <1>2 DEF Aligned, WhenStreaming
<1>10. StoredIsSent' /\ maxSize' \in ParseByteSize
  <2>1. CASE stored = <<>>
    BY <1>2, <2>1 DEF WireInv, Everywhere, StoredIsSent, ParseByteSize
  <2>2. CASE stored # <<>>
    <3>1. GrewBySum
      BY <1>9, <2>2 DEF WireInv, Lost
    <3> QED
      BY <1>0, <1>2, <1>3, <1>5, <1>6, <2>2, <3>1 DEF WireInv, Everywhere, StoredIsSent, ParseByteSize
  <2> QED  BY <2>1, <2>2
<1>11. Lost => Lost'
  BY <1>2, <1>6 DEF Lost
<1>12. ASSUME Aligned PROVE Aligned'
  <2>1. Consumed' = Consumed /\ Reading' = Reading
    BY <1>2 DEF Consumed, Reading
  <2>2. Reading => Consumed + Len(toSrv) = HeadLen(name) + Len(hashed) /\ toCli = <<>>
    BY <1>2, <1>12 DEF Aligned, WhenStreaming, Place
  <2>3. Framed'
    <3> SUFFICES ASSUME Reading, NEW i \in 1..(Len(toSrv) + 1)
                 PROVE  toSrv'[i] = At(Consumed + i, name, declared, hashed')
      BY <1>2, <1>4, <2>1 DEF Framed
    <3>1. CASE i = Len(toSrv) + 1
      <4>1. Consumed + i = HeadLen(name) + (Len(hashed) + 1) /\ Len(hashed) + 1 \in 1..Len(hashed')
        BY <1>0, <1>3, <2>2, <3>1
      <4>2. FieldsAt(name, declared, hashed')
        BY <1>0, <1>3, Places
      <4>3. At(HeadLen(name) + (Len(hashed) + 1), name, declared, hashed') = hashed'[Len(hashed) + 1]
        BY <4>1, <4>2 DEF FieldsAt
      <4> QED  BY <1>3, <1>4, <3>1, <4>1, <4>3
    <3>2. CASE i \in 1..Len(toSrv)
      <4>1. toSrv'[i] = At(Consumed + i, name, declared, hashed)
        BY <1>4, <1>12, <3>2 DEF Aligned, Framed
      <4>2. Consumed + i \in Nat /\ Consumed + i <= HeadLen(name) + Len(hashed)
        BY <1>0, <2>2, <3>2
      <4>3. At(Consumed + i, name, declared, hashed') = At(Consumed + i, name, declared, hashed)
        <5> DEFINE q == Consumed + i
        <5>1. q \in Nat /\ q <= HeadLen(name) + Len(hashed) /\ Len(hashed) <= Len(hashed')
          BY <1>0, <1>3, <4>2
        <5> HIDE DEF q
        <5>2. At(q, name, declared, hashed') = At(q, name, declared, hashed)
          BY <1>0, <1>3, <5>1, AtKept
        <5> QED  BY <5>2 DEF q
      <4> QED  BY <4>1, <4>3
    <3> QED  BY <1>0, <3>1, <3>2
  <2>4. Written' /\ WhenStreaming'
    <3>1. Reading => Place' = HeadLen(name) + Len(hashed')
      <4>1. Place' = Consumed' + Len(toSrv')
        BY DEF Place
      <4> QED  BY <1>0, <1>3, <1>4, <2>1, <2>2, <4>1
    <3>2. toCli \in {<<>>, <<"nack">>}
      BY <1>2, <1>12 DEF Aligned, WhenStreaming
    <3>3. Len(hashed') \in Nat
      BY <1>0, <1>3
    <3> QED
      BY <1>0, <1>2, <1>9, <1>12, <2>1, <2>2, <3>1, <3>2, <3>3 DEF Written, WhenStreaming
  <2>5. HeaderRead' /\ AfterCommit'
    BY <1>2, <1>9, <1>12 DEF Aligned, HeaderRead, AfterCommit, InPayload
  <2>6. TakenIsPrefix'
    BY <1>0, <1>2, <1>3, <1>5, <1>12 DEF Aligned, TakenIsPrefix, PayloadRead
  <2>7. Verified'
    BY <1>2, <1>6, <1>12 DEF Aligned, Verified
  <2> QED  BY <1>8, <2>3, <2>4, <2>5, <2>6, <2>7 DEF Aligned
<1> QED  BY <1>7, <1>8, <1>10, <1>11, <1>12 DEF WireInv, Everywhere

LEMMA SendTrailerStep ==
    ASSUME WireInv, SendTrailer
    PROVE  WireInv'
<1>0. /\ Len(toSrv) \in Nat /\ Len(hashed) \in Nat /\ Consumed \in Nat /\ declared \in Nat
      /\ toSrv \in Seq(Byte) /\ hashed \in Seq(Byte) /\ name \in Seq(Byte)
      /\ HeadLen(name) \in Nat /\ SumLen \in Nat /\ SumLen > 0
  BY Numbers, Lengths
<1>1. /\ cli = "stream" /\ cli' = "reply" /\ Len(hashed) = declared /\ toSrv' = toSrv \o Sum(hashed)
      /\ UNCHANGED <<file, name, declared, hashed, toCli, srv, nameLen, filename, size, taken, maxSize, stored>>
  BY DEF SendTrailer, svars, hvars, gvars
<1>2. Aligned
  <2>1. ~GrewBySum
    BY <1>0, <1>1 DEF GrewBySum
  <2> QED  BY <2>1 DEF WireInv, Lost
<1>3. Sum(hashed) \in Seq(Byte) /\ Len(Sum(hashed)) = SumLen
  <2>1. Len(hashed) \in 0..(2^Width - 1)
    BY <1>1 DEF WireInv, Everywhere, TypeOK
  <2> QED  BY <1>0, <2>1, SumFacts
<1>4. /\ toSrv' \in Seq(Byte) /\ Len(toSrv') = Len(toSrv) + SumLen
      /\ \A i \in 1..Len(toSrv) : toSrv'[i] = toSrv[i]
      /\ \A i \in 1..SumLen : toSrv'[Len(toSrv) + i] = Sum(hashed)[i]
  <2> DEFINE t == Sum(hashed)  r == toSrv \o t
  <2>0. toSrv \in Seq(Byte)
    BY <1>0
  <2>1. t \in Seq(Byte) /\ Len(t) = SumLen
    BY <1>3
  <2>a. t \in Seq(Byte)
    BY <2>1
  <2> HIDE DEF t
  <2>2. /\ r \in Seq(Byte) /\ Len(r) = Len(toSrv) + Len(t)
        /\ \A i \in 1..Len(toSrv) : r[i] = toSrv[i]
        /\ \A i \in 1..Len(t) : r[Len(toSrv) + i] = t[i]
    BY <2>0, <2>a, ConcatFacts
  <2>3. toSrv' = r
    BY <1>1 DEF t
  <2> HIDE DEF r
  <2> QED  BY <2>1, <2>2, <2>3 DEF t
<1>5. TypeOK' /\ HandlerOK'
  BY <1>1, <1>4 DEF WireInv, Everywhere, TypeOK, HandlerOK, PayloadRead, InPayload, TooLarge
<1>6. WhenClosed' /\ WhenIdle' /\ WhenStreaming'
  BY <1>1 DEF WhenClosed, WhenIdle, WhenStreaming
<1>7. GrewBySum' = GrewBySum /\ Announced' = Announced /\ Consumed' = Consumed /\ Reading' = Reading
  BY <1>1 DEF GrewBySum, Announced, Consumed, Reading
<1>8. StoredIsSent' /\ maxSize' \in ParseByteSize
  BY <1>1, <1>7 DEF WireInv, Everywhere, StoredIsSent, ParseByteSize
<1>9. /\ stored = <<>> /\ toCli \in {<<>>, <<"nack">>}
      /\ Reading => Consumed + Len(toSrv) = HeadLen(name) + Len(hashed) /\ toCli = <<>>
  BY <1>1, <1>2 DEF Aligned, WhenStreaming, Place
<1>10. Framed'
  <2> SUFFICES ASSUME Reading, NEW i \in 1..(Len(toSrv) + SumLen)
               PROVE  toSrv'[i] = At(Consumed + i, name, declared, hashed)
    BY <1>1, <1>4, <1>7 DEF Framed
  <2>1. CASE i <= Len(toSrv)
    BY <1>0, <1>2, <1>4, <2>1 DEF Aligned, Framed
  <2>2. CASE i > Len(toSrv)
    <3> DEFINE j == i - Len(toSrv)
    <3>1. j \in 1..SumLen /\ i = Len(toSrv) + j /\ Consumed + i = HeadLen(name) + Len(hashed) + j
      BY <1>0, <1>9, <2>2
    <3> HIDE DEF j
    <3>2. FieldsAt(name, declared, hashed)
      BY <1>0, Places
    <3>3. At(HeadLen(name) + Len(hashed) + j, name, declared, hashed) = Sum(hashed)[j]
      BY <3>1, <3>2 DEF FieldsAt
    <3> QED  BY <1>4, <3>1, <3>3
  <2> QED  BY <1>0, <2>1, <2>2
<1>11. Written' /\ WhenReplying'
  BY <1>0, <1>1, <1>4, <1>7, <1>9 DEF Written, WhenReplying, Place
<1>12. HeaderRead' /\ TakenIsPrefix' /\ Verified' /\ AfterCommit'
  <2>1. srv = "barrier" => GrewBySum
    BY <1>1, <1>2 DEF Aligned, Verified
  <2> QED
    BY <1>1, <1>2, <1>7, <1>9, <2>1
    DEF Aligned, HeaderRead, TakenIsPrefix, Verified, AfterCommit, InPayload, PayloadRead
<1> QED
  BY <1>5, <1>6, <1>8, <1>10, <1>11, <1>12 DEF WireInv, Everywhere, Aligned

\* An ACK in front of the queue of replies is the answer to the payload just hashed.
LEMMA AckIsOurs ==
    ASSUME WireInv, cli = "reply", toCli # <<>>, Head(toCli) = "ack"
    PROVE  Aligned /\ Acked
<1>1. Head(<<"nack">>) = "nack"
  OBVIOUS
<1>2. Aligned
  BY DEF WireInv, Lost
<1> QED  BY <1>1, <1>2 DEF Aligned, WhenReplying

LEMMA ReadResponseStep ==
    ASSUME WireInv, ReadResponse
    PROVE  WireInv'
<1>1. CASE CloseConn
  BY <1>1, ClientStops DEF ReadResponse
<1>2. CASE ~CloseConn
  <2>1. /\ cli = "reply" /\ toCli # <<>> /\ Head(toCli) = "ack"
        /\ cli' = "idle" /\ toCli' = Tail(toCli)
        /\ UNCHANGED <<file, name, declared, hashed, toSrv, srv, nameLen, filename, size, taken, maxSize, stored>>
    BY <1>2 DEF ReadResponse, svars, hvars, gvars
  <2>2. Aligned /\ Acked
    BY <2>1, AckIsOurs
  <2>3. toCli' = <<>>
    <3>1. Tail(<<"ack">>) = <<>>
      OBVIOUS
    <3> QED  BY <2>1, <2>2, <3>1 DEF Acked
  <2>4. TypeOK' /\ HandlerOK'
    BY <2>1, <2>3 DEF WireInv, Everywhere, TypeOK, HandlerOK, PayloadRead, InPayload, TooLarge
  <2>5. WhenClosed' /\ WhenIdle' /\ WhenStreaming' /\ WhenReplying'
    BY <2>1, <2>2, <2>3 DEF WhenClosed, WhenIdle, WhenStreaming, WhenReplying, Acked
  <2>6. /\ GrewBySum' = GrewBySum /\ Announced' = Announced /\ Consumed' = Consumed
        /\ Reading' = Reading /\ Place' = Place
    BY <2>1 DEF GrewBySum, Announced, Consumed, Reading, Place
  <2>7. Framed' /\ Written'
    BY <2>1, <2>2, <2>6 DEF Aligned, Framed, Written
  <2>8. HeaderRead' /\ TakenIsPrefix' /\ Verified' /\ AfterCommit'
    BY <2>1, <2>2, <2>6
    DEF Aligned, Acked, HeaderRead, TakenIsPrefix, Verified, AfterCommit, InPayload, PayloadRead
  <2>9. StoredIsSent' /\ maxSize' \in ParseByteSize
    BY <2>1, <2>6 DEF WireInv, Everywhere, StoredIsSent, ParseByteSize
  <2> QED  BY <2>4, <2>5, <2>7, <2>8, <2>9 DEF WireInv, Everywhere, Aligned
<1> QED  BY <1>1, <1>2

\* A step that changes at most the file.
LEMMA FileOnly ==
    ASSUME WireInv, file' \in Contents,
           UNCHANGED <<cli, name, declared, hashed, toSrv, toCli, srv, nameLen, filename, size,
                       taken, maxSize, stored>>
    PROVE  WireInv'
<1>1. TypeOK' /\ HandlerOK'
  BY DEF WireInv, Everywhere, TypeOK, HandlerOK, PayloadRead, InPayload, TooLarge
<1>2. /\ GrewBySum' = GrewBySum /\ Announced' = Announced /\ Consumed' = Consumed
      /\ Reading' = Reading /\ Place' = Place /\ Acked' = Acked
  BY DEF GrewBySum, Announced, Consumed, Reading, Place, Acked
<1>3. WhenClosed' /\ WhenIdle' /\ StoredIsSent' /\ maxSize' \in ParseByteSize /\ (Lost => Lost')
  BY <1>2 DEF WireInv, Everywhere, WhenClosed, WhenIdle, StoredIsSent, ParseByteSize, Lost
<1>4. ASSUME Aligned PROVE Aligned'
  <2>1. Framed' /\ Written' /\ WhenStreaming' /\ WhenReplying'
    BY <1>2, <1>4 DEF Aligned, Framed, Written, WhenStreaming, WhenReplying
  <2>2. HeaderRead' /\ TakenIsPrefix' /\ Verified' /\ AfterCommit'
    BY <1>2, <1>4
    DEF Aligned, HeaderRead, TakenIsPrefix, Verified, AfterCommit, InPayload, PayloadRead
  <2> QED  BY <2>1, <2>2 DEF Aligned
<1> QED  BY <1>1, <1>3, <1>4 DEF WireInv, Everywhere

----------------------------------------------------------------------------
(* The theorems.                                                           *)

LEMMA InitInv == Init => WireInv
<1> SUFFICES ASSUME Init PROVE WireInv
  OBVIOUS
<1>1. maxSize \in 0..(2^Width - 1)
  <2>1. (AskedTenths * Unit) \div 10 \in Nat
    <3>1. AskedTenths * Unit \in Nat
      BY WireAssumption
    <3> QED  BY <3>1
  <2> QED  BY <2>1, WireAssumption, PowerAssumption DEF Init, ParseByteSize
<1>2. 0 \in 0..(2^Width - 1) /\ 0 \in 0..(Base^LenLen - 1)
  BY WireAssumption, PowerAssumption
<1>3. TypeOK /\ HandlerOK
  BY <1>1, <1>2 DEF Init, TypeOK, HandlerOK, PayloadRead, InPayload
<1>4. Framed /\ Written /\ WhenClosed /\ WhenIdle /\ WhenStreaming /\ WhenReplying
  BY DEF Init, Framed, Written, Reading, WhenClosed, WhenIdle, WhenStreaming, WhenReplying
<1>5. HeaderRead /\ TakenIsPrefix /\ Verified /\ AfterCommit
  BY DEF Init, HeaderRead, TakenIsPrefix, Verified, AfterCommit, Reading, InPayload, PayloadRead
<1>6. StoredIsSent /\ maxSize \in ParseByteSize
  BY DEF Init, StoredIsSent
<1> QED  BY <1>3, <1>4, <1>5, <1>6 DEF WireInv, Everywhere, Aligned

LEMMA StepInv ==
    ASSUME WireInv, [Next]_vars
    PROVE  WireInv'
<1>1. CASE Client
  <2>1. CASE ShortRead \/ PeerGone
    BY <2>1, ClientStops DEF ShortRead, PeerGone
  <2> QED
    BY <1>1, <2>1, DialStep, SendHeaderStep, SendByteStep, SendTrailerStep, ReadResponseStep DEF Client
<1>2. CASE Handler
  BY <1>2, ReadMagicStep, ReadNameLenStep, ReadNameStep, ReadSizeStep, HeaderEndsStep,
     ReceiveBodyStep, ReceiveTrailerStep, CommitStep, CommitFailsStep DEF Handler
<1>3. CASE Break
  BY <1>3, ClientStops DEF Break
<1>4. CASE HandlerLeaves
  BY <1>4, HandlerLeavesStep
<1>5. CASE FileChanges
  BY <1>5, FileOnly DEF FileChanges, cvars, svars, hvars
<1>6. CASE UNCHANGED vars
  <2>1. /\ UNCHANGED <<cli, name, declared, hashed, toSrv, toCli, srv, nameLen, filename, size,
                       taken, maxSize, stored>>
        /\ file' \in Contents
    BY <1>6 DEF vars, cvars, svars, hvars, gvars, WireInv, Everywhere, TypeOK
  <2> QED  BY <2>1, FileOnly
<1> QED  BY <1>1, <1>2, <1>3, <1>4, <1>5, <1>6 DEF Next

LEMMA Invariance == Spec => []WireInv
<1>1. WireInv /\ [Next]_vars => WireInv'
  BY StepInv
<1> QED  BY InitInv, <1>1, PTL DEF Spec

\* Every variable of the framing keeps its type, whatever is announced and wherever the
\* connection ends (ReadRequestHeader, ReceiveStream, transferFile).
THEOREM WireTypeCorrect == Spec => []TypeOK
<1>1. WireInv => TypeOK
  BY DEF WireInv, Everywhere
<1> QED  BY <1>1, Invariance, PTL

\* Whenever the client is between two files, a handler that still reads is in front of a
\* header with nothing under way: a connection kept after an ACK never lets a rest of one
\* request be read as the next one, although the handler knows bytes only by their count.
THEOREM WireInStep == Spec => []InStep
<1>1. WireInv => InStep
  BY DEF WireInv, Everywhere, WhenIdle, InStep
<1> QED  BY <1>1, Invariance, PTL

\* CommitBarrier is first reached with the name of the request and as many bytes as were
\* announced, the first that went through the sender's hasher.  These are all of them,
\* and nothing else is committed for the request, unless the file grew while it was read
\* by just the sum of the announced part: ReceiveStream then takes payload bytes for the
\* trailer, and what it commits is still no more than the announced part.
THEOREM WireStoredIsSent == Spec => []StoredIsSent
<1>1. WireInv => StoredIsSent
  BY DEF WireInv, Everywhere
<1> QED  BY <1>1, Invariance, PTL

\* The sender takes a file for delivered only when the payload it hashed for this very
\* request was committed under its name, and nothing else: no ACK is left over from an
\* earlier request, and none answers a payload that was cut off.
THEOREM WireAckMatches == Spec => AckMatches
<1> DEFINE P == cli = "reply" /\ cli' = "idle" => stored = <<[name |-> name, data |-> hashed]>>
<1>1. ASSUME WireInv, [Next]_vars PROVE [P]_vars
  <2> SUFFICES ASSUME Next, cli = "reply", cli' = "idle"
               PROVE  stored = <<[name |-> name, data |-> hashed]>>
    BY <1>1
  <2>1. ReadResponse
    BY DEF Next, Client, Handler, Dial, SendHeader, SendByte, SendTrailer, ShortRead, PeerGone,
           Break, FileChanges, HandlerLeaves, ReadMagic, ReadNameLen, ReadName, ReadSize, HeaderEnds,
           ReceiveBody, ReceiveTrailer, Commit, CommitFails, CloseConn, cvars
  <2>2. toCli # <<>> /\ Head(toCli) = "ack"
    BY <2>1 DEF ReadResponse, CloseConn
  <2> QED  BY <1>1, <2>2, AckIsOurs DEF Acked
<1>2. WireInv /\ [Next]_vars => [P]_vars
  BY <1>1
<1> QED  BY <1>2, Invariance, PTL DEF Spec, AckMatches

\* A -max-size of at least one byte, too large for the width or not, bounds every request
\* that the receiver goes on with.  Below one byte ParseByteSize gives 0, which stands for
\* no limit.
THEOREM WireLimitHonoured ==
    ASSUME AskedTenths * Unit >= 10
    PROVE  Spec => []LimitHonoured
<1>1. ASSUME WireInv PROVE LimitHonoured
  <2> DEFINE asked == AskedTenths * Unit  v == asked \div 10
  <2>1. asked \in Nat /\ asked >= 10
    BY WireAssumption
  <2> HIDE DEF asked
  <2>2. v \in Nat /\ v >= 1 /\ v * 10 <= asked
    BY <2>1
  <2>3. maxSize \in IF v < 2^Width THEN {v} ELSE {2^(Width - 1), 2^Width - 1}
    BY <1>1 DEF WireInv, Everywhere, ParseByteSize, asked
  <2> HIDE DEF v
  <2>4. maxSize \in Int /\ maxSize >= 1 /\ maxSize <= v
    <3> DEFINE w == 2^Width  u == 2^(Width - 1)
    <3>1. w \in Nat /\ u \in Nat \ {0} /\ u < w /\ maxSize \in IF v < w THEN {v} ELSE {u, w - 1}
      BY <2>3, WireAssumption, PowerAssumption
    <3> HIDE DEF w, u
    <3> QED  BY <2>2, <3>1
  <2>5. InPayload => size \in Nat /\ size <= maxSize
    BY <1>1, <2>4, Numbers DEF WireInv, Everywhere, HandlerOK, TooLarge
  <2>6. InPayload => size * 10 <= asked
    BY <2>1, <2>2, <2>4, <2>5
  <2> QED  BY <2>6 DEF LimitHonoured, InPayload, asked
<1>2. WireInv => LimitHonoured
  BY <1>1
<1> QED  BY <1>2, Invariance, PTL
===========================================================================
