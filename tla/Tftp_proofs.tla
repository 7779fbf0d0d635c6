------------------------------ MODULE Tftp_proofs ------------------------------
(***************************************************************************)
(* Proofs about Tftp for files of any length, any number of retries, calls *)
(* and faults of the network.                                              *)
(***************************************************************************)
EXTENDS Tftp, SequenceTheorems, TLAPS

\* What may be on its way: a DATA names the block it carries; one that the
\* client repeats may carry nothing.
ClientBound == {m \in Datagrams : m.op = "DATA" => m.data = Chunk(m.no)}
ServerBound == {m \in Datagrams : m.op = "DATA" => m.data \in {Chunk(m.no), 0}}

\* A sequence whose members are their own positions.
InOrder(q) == \A k \in DOMAIN q : q[k] = k

Results == {"none", "ok", "error"}

CRecord == [state : {"idle", "get", "put"}, port : 0 .. MaxCalls,
            op : {RRQ, WRQ}, count : 0 .. LastBlock,
            tries : 0 .. RetryNum - 1, retry : 0 .. RetryNum - 1]

SRecord == [state : {"off", "listen", "recv", "send"}, port : 0 .. MaxCalls,
            count : 0 .. LastBlock + 1, tries : 0 .. RetryNum - 1,
            full : BOOLEAN, buf : ServerBound, known : BOOLEAN]

\* The client counts the blocks it has got, and returns 0 from a get only with
\* the last one.
ClientSide ==
    /\ c \in CRecord
    /\ cret \in Results
    /\ got \in Seq(0 .. LastBlock) /\ Len(got) <= LastBlock /\ InOrder(got)
    /\ c.state = "get" => c.count = Len(got) + 1
    /\ c.state = "put" => got = <<>> /\ c.count < LastBlock
    /\ c.state # "idle" => cret = "none"
    /\ cret = "ok" /\ got # <<>> => Len(got) = LastBlock

\* What has been stored: in order, and empty at most at the end.
StoredInOrder ==
    /\ stored \in Seq(0 .. LastBlock) /\ Len(stored) <= LastBlock
    /\ \A k \in DOMAIN stored :
          stored[k] = k \/ (stored[k] = 0 /\ k = Len(stored))

\* The server counts the blocks it has stored, all of them full while it goes
\* on.  After a repeated block it may send one block beyond the last.
ServerSide ==
    /\ s \in SRecord
    /\ sret \in Results
    /\ StoredInOrder
    /\ s.state = "recv" => s.count = Len(stored) + 1 /\ s.count <= LastBlock
                              /\ InOrder(stored)
    /\ s.state = "send" => s.count > 0 /\ (s.full => s.count <= LastBlock)

Ways == toServer \in Seq(ServerBound) /\ toClient \in Seq(ClientBound)

NetworkType == faults \in 0 .. MaxFaults /\ calm \in BOOLEAN

Inv == ClientSide /\ ServerSide /\ Ways /\ NetworkType

-----------------------------------------------------------------------------
(* What is sent.                                                           *)

LEMMA ChunkType == \A k : Chunk(k) \in 0 .. LastBlock
  BY TftpAssumption DEF Chunk

LEMMA AckBound ==
    ASSUME NEW port \in 0 .. MaxCalls, NEW k \in 0 .. LastBlock + 1
    PROVE  Ack(port, k) \in ClientBound /\ Ack(port, k) \in ServerBound
  BY TftpAssumption DEF Ack, ClientBound, ServerBound, Datagrams, NameNo

LEMMA DataBound ==
    ASSUME NEW port \in 0 .. MaxCalls, NEW k \in 0 .. LastBlock + 1
    PROVE  /\ Data(port, k, Chunk(k)) \in ClientBound
           /\ Data(port, k, Chunk(k)) \in ServerBound
           /\ Data(port, k, 0) \in ServerBound
<1>1. Chunk(k) \in 0 .. LastBlock /\ 0 \in 0 .. LastBlock
    BY ChunkType, TftpAssumption
<1>2. k \in NameNo .. LastBlock + 1
    BY TftpAssumption DEF NameNo
<1> QED
    BY <1>1, <1>2 DEF Data, ClientBound, ServerBound, Datagrams

LEMMA RequestBound ==
    ASSUME NEW port \in 0 .. MaxCalls, NEW op \in {RRQ, WRQ}
    PROVE  Request(port, op) \in ServerBound
  BY TftpAssumption DEF Request, ServerBound, Datagrams, NameNo, RRQ, WRQ

LEMMA SentToServer ==
    ASSUME Ways, NEW q \in Seq(ServerBound), ClientSends(q)
    PROVE  toServer' \in Seq(ServerBound)
<1>1. toServer \in Seq(ServerBound)
    BY DEF Ways
<1>2. toServer \o q \in Seq(ServerBound)
    BY <1>1, ConcatProperties
<1> QED
    BY <1>1, <1>2 DEF ClientSends

LEMMA SentToClient ==
    ASSUME Ways, NEW m \in ClientBound, ServerSends(m)
    PROVE  toClient' \in Seq(ClientBound)
  BY DEF Ways, ServerSends

\* What is left of a way when its first datagram has been received.
LEMMA Received ==
    ASSUME NEW B, NEW q \in Seq(B), q # <<>>
    PROVE  Head(q) \in B /\ Tail(q) \in Seq(B)
  BY HeadTailProperties

-----------------------------------------------------------------------------
(* The client.                                                             *)

\* A call returns, from an attempt whose blocks are in order.
LEMMA ClientReturnsStep ==
    ASSUME ClientSide, NEW result \in {"ok", "error"}, ClientReturns(result),
           got' \in Seq(0 .. LastBlock), Len(got') <= LastBlock, InOrder(got'),
           result = "ok" /\ got' # <<>> => Len(got') = LastBlock
    PROVE  ClientSide' /\ toClient' \in Seq(ClientBound)
<1>1. c' = [Idle EXCEPT !.port = c.port] /\ cret' = result /\ toClient' = <<>>
    BY DEF ClientReturns
<1>2. c' \in CRecord /\ c'.state = "idle"
    <2>1. c.port \in 0 .. MaxCalls
        BY DEF ClientSide, CRecord
    <2>2. 0 \in 0 .. LastBlock /\ 0 \in 0 .. RetryNum - 1
        BY TftpAssumption
    <2> QED
        BY <1>1, <2>1, <2>2 DEF Idle, CRecord
<1>3. toClient' \in Seq(ClientBound)
    BY <1>1
<1> QED
    BY <1>1, <1>2, <1>3 DEF ClientSide, Results, InOrder

\* An attempt begins: nothing has been got.
LEMMA AttemptStep ==
    ASSUME NEW port \in 0 .. MaxCalls, NEW op \in {RRQ, WRQ},
           NEW retry \in 0 .. RetryNum - 1,
           c' = Attempt(port, op, retry), got' = <<>>, cret' = "none"
    PROVE  ClientSide'
<1>1. 0 \in 0 .. RetryNum - 1 /\ {0, 1} \subseteq 0 .. LastBlock
    BY TftpAssumption
<1>2. c' \in CRecord
    BY <1>1 DEF Attempt, CRecord
<1>3. /\ c'.state = "get" => c'.count = 1
      /\ c'.state = "put" => c'.count = 0
    BY DEF Attempt
<1>4. /\ got' \in Seq(0 .. LastBlock) /\ Len(got') = 0 /\ InOrder(got')
    BY DEF InOrder
<1>5. 0 < LastBlock /\ Len(got') <= LastBlock /\ got' = <<>>
    BY <1>4, TftpAssumption
<1> QED
    BY <1>2, <1>3, <1>4, <1>5 DEF ClientSide, Results

LEMMA ClientRetriesStep ==
    ASSUME ClientSide, Ways, c.state # "idle", NEW m \in Seq(ServerBound),
           NEW rest \in Seq(ClientBound), ClientRetries(m, rest)
    PROVE  ClientSide' /\ Ways'
<1>1. c \in CRecord /\ cret = "none"
    BY DEF ClientSide, CRecord
<1>2. CASE c.retry + 1 = RetryNum
    <2>1. ClientReturns("error") /\ ClientSends(m) /\ got' = got
        BY <1>2 DEF ClientRetries
    <2>2. ClientSide' /\ toClient' \in Seq(ClientBound)
        BY <2>1, ClientReturnsStep DEF ClientSide, InOrder
    <2> QED
        BY <2>1, <2>2, SentToServer DEF Ways
<1>3. CASE c.retry + 1 # RetryNum
    <2>1. /\ c' = Attempt(c.port, c.op, c.retry + 1)
          /\ got' = <<>> /\ cret' = "none"
          /\ ClientSends(Append(m, Request(c.port, c.op)))
          /\ toClient' = rest
        BY <1>1, <1>3 DEF ClientRetries
    <2>2. c.retry + 1 \in 0 .. RetryNum - 1
        BY <1>1, <1>3, TftpAssumption DEF CRecord
    <2>3. c.port \in 0 .. MaxCalls /\ c.op \in {RRQ, WRQ}
        BY <1>1 DEF CRecord
    <2>4. ClientSide'
        BY <2>1, <2>2, <2>3, AttemptStep
    <2>5. Request(c.port, c.op) \in ServerBound
        BY <2>3, RequestBound
    <2>6. Append(m, Request(c.port, c.op)) \in Seq(ServerBound)
        BY <2>5
    <2>7. toServer' \in Seq(ServerBound)
        BY <2>1, <2>6, SentToServer
    <2> QED
        BY <2>1, <2>4, <2>7 DEF Ways
<1> QED
    BY <1>2, <1>3

LEMMA ClientTriedStep ==
    ASSUME ClientSide, Ways, c.state # "idle", NEW m \in Seq(ServerBound),
           NEW rest \in Seq(ClientBound), ClientTried(m, rest)
    PROVE  ClientSide' /\ Ways'
<1>1. CASE c.tries + 1 = RetryNum
    BY <1>1, ClientRetriesStep DEF ClientTried
<1>2. CASE c.tries + 1 # RetryNum
    <2>1. /\ c' = [c EXCEPT !.tries = @ + 1] /\ ClientSends(m)
          /\ toClient' = rest /\ got' = got /\ cret' = cret
        BY <1>2 DEF ClientTried
    <2>2. c.tries + 1 \in 0 .. RetryNum - 1
        BY <1>2, TftpAssumption DEF ClientSide, CRecord
    <2>3. /\ c' \in CRecord /\ c'.state = c.state /\ c'.count = c.count
        BY <2>1, <2>2 DEF ClientSide, CRecord
    <2>4. ClientSide'
        BY <2>1, <2>3 DEF ClientSide, InOrder
    <2> QED
        BY <2>1, <2>4, SentToServer DEF Ways
<1> QED
    BY <1>1, <1>2

\* The block the client waits for is the next one of the file.
LEMMA GetBlockStep ==
    ASSUME ClientSide, Ways, NEW m \in ClientBound,
           NEW rest \in Seq(ClientBound), GetBlock(m, rest)
    PROVE  ClientSide' /\ Ways'
<1> DEFINE k == c.count
<1>1. /\ c \in CRecord /\ c.state = "get" /\ cret = "none"
      /\ k = Len(got) + 1 /\ k \in 0 .. LastBlock /\ c.port \in 0 .. MaxCalls
      /\ got \in Seq(0 .. LastBlock) /\ InOrder(got)
    BY DEF ClientSide, CRecord, GetBlock
<1>2. Len(got) \in Nat /\ k \in 1 .. LastBlock
    BY <1>1, LenProperties
<1>3. m.data = k
    BY <1>2 DEF GetBlock, IsNext, ClientBound, Chunk
<1>4. got' = Append(got, k)
    BY <1>3 DEF GetBlock
<1>5. /\ got' \in Seq(0 .. LastBlock) /\ Len(got') = k
      /\ got' # <<>> /\ InOrder(got')
    <2> HIDE DEF k
    <2>1. k \in 0 .. LastBlock
        BY <1>2
    <2>2. Append(got, k) \in Seq(0 .. LastBlock) /\ Len(Append(got, k)) = k
          /\ Append(got, k) # <<>>
        BY <1>1, <2>1
    <2>3. InOrder(Append(got, k))
        BY <1>1, <1>2, <2>1 DEF InOrder
    <2> QED
        BY <1>4, <2>2, <2>3 DEF InOrder
<1>6. Ack(c.port, k) \in ServerBound
    BY <1>1, AckBound, TftpAssumption
<1>7. CASE IsFull(m.data)
    <2>1. k < LastBlock /\ k + 1 \in 0 .. LastBlock
        BY <1>2, <1>3, <1>7, TftpAssumption DEF IsFull
    <2>2. /\ c' = [c EXCEPT !.count = k + 1, !.tries = 0]
          /\ ClientSends(<<Ack(c.port, k)>>) /\ toClient' = rest /\ cret' = cret
        BY <1>7 DEF GetBlock
    <2>3. 0 \in 0 .. RetryNum - 1
        BY TftpAssumption
    <2> HIDE DEF k
    <2>4. c' \in CRecord /\ c'.state = "get" /\ c'.count = k + 1
        BY <1>1, <2>1, <2>2, <2>3 DEF CRecord
    <2>5. ClientSide'
        <3>1. c'.count = Len(got') + 1 /\ Len(got') <= LastBlock
            BY <1>5, <1>2, <2>1, <2>4, TftpAssumption
        <3> QED
            BY <1>1, <1>5, <2>2, <2>4, <3>1 DEF ClientSide, Results, InOrder
    <2>6. toServer' \in Seq(ServerBound)
        <3>1. <<Ack(c.port, k)>> \in Seq(ServerBound)
            BY <1>6
        <3> QED
            BY <2>2, <3>1, SentToServer
    <2> QED
        BY <2>2, <2>5, <2>6 DEF Ways
<1>8. CASE ~IsFull(m.data)
    <2>1. k = LastBlock
        BY <1>2, <1>3, <1>8, TftpAssumption DEF IsFull
    <2>2. /\ ClientReturns("ok")
          /\ ClientSends(<<Ack(c.port, k), Ack(c.port, k)>>)
        BY <1>8 DEF GetBlock
    <2> HIDE DEF k
    <2>3. ClientSide' /\ toClient' \in Seq(ClientBound)
        BY <1>5, <2>1, <2>2, ClientReturnsStep, TftpAssumption
    <2>4. toServer' \in Seq(ServerBound)
        <3>1. <<Ack(c.port, k), Ack(c.port, k)>> \in Seq(ServerBound)
            BY <1>6
        <3> QED
            BY <2>2, <3>1, SentToServer
    <2> QED
        BY <2>3, <2>4 DEF Ways
<1> QED
    BY <1>7, <1>8

LEMMA GetOtherStep ==
    ASSUME ClientSide, Ways, NEW m \in ClientBound,
           NEW rest \in Seq(ClientBound), GetOther(m, rest)
    PROVE  ClientSide' /\ Ways'
<1>1. /\ c.state = "get" /\ c.port \in 0 .. MaxCalls
      /\ c.count = Len(got) + 1 /\ c.count \in 0 .. LastBlock
      /\ got \in Seq(0 .. LastBlock)
    BY DEF ClientSide, CRecord, GetOther
<1>2. c.count - 1 \in 0 .. LastBlock + 1
    BY <1>1, LenProperties, TftpAssumption
<1>3. <<Ack(c.port, c.count - 1)>> \in Seq(ServerBound) /\ <<>> \in Seq(ServerBound)
    BY <1>1, <1>2, AckBound
<1> QED
    BY <1>1, <1>3, ClientTriedStep, ClientRetriesStep DEF GetOther

LEMMA PutBlockStep ==
    ASSUME ClientSide, Ways, NEW m \in ClientBound,
           NEW rest \in Seq(ClientBound), PutBlock(m, rest)
    PROVE  ClientSide' /\ Ways'
<1> DEFINE k == c.count + 1
<1>1. /\ c \in CRecord /\ c.state = "put" /\ cret = "none"
      /\ c.port \in 0 .. MaxCalls /\ got' = got /\ got = <<>>
      /\ c.count \in 0 .. LastBlock /\ c.count < LastBlock
    BY DEF ClientSide, CRecord, PutBlock
<1>2. k \in 0 .. LastBlock + 1 /\ k \in 1 .. LastBlock /\ Chunk(k) = k
    BY <1>1, TftpAssumption DEF Chunk
<1>3. ClientSends(<<Data(c.port, k, Chunk(k))>>)
    BY DEF PutBlock
<1> HIDE DEF k
<1>4. toServer' \in Seq(ServerBound)
    <2>1. Data(c.port, k, Chunk(k)) \in ServerBound
        BY <1>1, <1>2, DataBound
    <2>2. <<Data(c.port, k, Chunk(k))>> \in Seq(ServerBound)
        BY <2>1
    <2> QED
        BY <1>3, <2>2, SentToServer
<1>5. CASE IsFull(Chunk(k))
    <2>1. k < LastBlock
        BY <1>2, <1>5, TftpAssumption DEF IsFull
    <2>2. /\ c' = [c EXCEPT !.count = k, !.tries = 0]
          /\ toClient' = rest /\ cret' = cret
        BY <1>5 DEF PutBlock, k
    <2>3. c' \in CRecord /\ c'.state = "put" /\ c'.count = k
        <3>1. k \in 0 .. LastBlock /\ 0 \in 0 .. RetryNum - 1
            BY <1>2, TftpAssumption
        <3> QED
            BY <1>1, <2>2, <3>1 DEF CRecord
    <2>4. ClientSide'
        BY <1>1, <2>1, <2>2, <2>3 DEF ClientSide, InOrder
    <2> QED
        BY <1>4, <2>2, <2>4 DEF Ways
<1>6. CASE ~IsFull(Chunk(k))
    <2>1. ClientReturns("ok")
        BY <1>6 DEF PutBlock, k
    <2>2. ClientSide' /\ toClient' \in Seq(ClientBound)
        BY <1>1, <2>1, ClientReturnsStep DEF ClientSide, InOrder
    <2> QED
        BY <1>4, <2>2 DEF Ways
<1> QED
    BY <1>5, <1>6

LEMMA PutOtherStep ==
    ASSUME ClientSide, Ways, NEW m \in ClientBound,
           NEW rest \in Seq(ClientBound), PutOther(m, rest)
    PROVE  ClientSide' /\ Ways'
<1>1. c.state = "put" /\ c.port \in 0 .. MaxCalls /\ c.count \in 0 .. LastBlock + 1
    BY TftpAssumption DEF ClientSide, CRecord, PutOther
<1>2. <<Data(c.port, c.count, 0)>> \in Seq(ServerBound) /\ <<>> \in Seq(ServerBound)
    BY <1>1, DataBound
<1> QED
    BY <1>1, <1>2, ClientTriedStep, ClientRetriesStep DEF PutOther

LEMMA ClientTimeoutStep ==
    ASSUME ClientSide, Ways, GetTimeout \/ PutTimeout
    PROVE  ClientSide' /\ Ways'
<1>1. c.state # "idle" /\ toClient \in Seq(ClientBound) /\ <<>> \in Seq(ServerBound)
    BY DEF GetTimeout, PutTimeout, Ways
<1> QED
    BY <1>1, ClientTriedStep, ClientRetriesStep DEF GetTimeout, PutTimeout

LEMMA ClientReceivesStep ==
    ASSUME ClientSide, Ways, ClientReceives
    PROVE  ClientSide' /\ Ways'
<1>1. Head(toClient) \in ClientBound /\ Tail(toClient) \in Seq(ClientBound)
    BY Received DEF ClientReceives, Ways
<1> QED
    BY <1>1, GetBlockStep, GetOtherStep, PutBlockStep, PutOtherStep
    DEF ClientReceives

LEMMA TftpClientStartStep ==
    ASSUME ClientSide, Ways, NetworkType, NEW op \in {RRQ, WRQ},
           TftpClientStart(op)
    PROVE  ClientSide' /\ Ways' /\ NetworkType'
<1> DEFINE port == IF AllQuiet THEN 1 ELSE c.port + 1
<1>1. port \in 0 .. MaxCalls
    BY TftpAssumption DEF ClientSide, CRecord, TftpClientStart
<1>2. /\ c' = Attempt(port, op, 0) /\ got' = <<>> /\ cret' = "none"
      /\ ClientSends(<<Request(port, op)>>) /\ toClient' = toClient
    BY DEF TftpClientStart
<1>3. NetworkType'
    BY TftpAssumption DEF TftpClientStart, NetworkType
<1> HIDE DEF port
<1>4. ClientSide'
    BY <1>1, <1>2, AttemptStep, TftpAssumption
<1>5. <<Request(port, op)>> \in Seq(ServerBound)
    BY <1>1, RequestBound
<1> QED
    BY <1>2, <1>3, <1>4, <1>5, SentToServer DEF Ways

-----------------------------------------------------------------------------
(* The server.                                                             *)

\* A sequence in order is stored in order.
LEMMA InOrderStored ==
    ASSUME stored' \in Seq(0 .. LastBlock), Len(stored') <= LastBlock,
           InOrder(stored')
    PROVE  StoredInOrder'
  BY DEF InOrder, StoredInOrder

LEMMA ListenType ==
    /\ Listen \in SRecord /\ Listen.state = "listen"
    /\ Off \in SRecord /\ Off.state = "off"
<1>1. 0 \in 0 .. MaxCalls /\ 0 \in 0 .. LastBlock + 1 /\ 0 \in 0 .. RetryNum - 1
    BY TftpAssumption
<1>2. Request(0, RRQ) \in ServerBound
    BY <1>1, RequestBound
<1> QED
    BY <1>1, <1>2 DEF Listen, Off, SRecord

\* A suffix of what was on its way.
LEMMA SuffixType ==
    ASSUME NEW B, NEW q \in Seq(B), NEW k \in 1 .. Len(q) + 1
    PROVE  SubSeq(q, k, Len(q)) \in Seq(B)
<1>1. Len(q) \in Nat /\ \A i \in 1 .. Len(q) : q[i] \in B
    BY LenProperties, ElementOfSeq
<1>2. k \in Int /\ Len(q) \in Int /\ \A i \in k .. Len(q) : q[i] \in B
    BY <1>1
<1> QED
    BY <1>2, SubSeqProperties, Zenon

LEMMA ServerReturnsStep ==
    ASSUME StoredInOrder', NEW result \in {"ok", "error"},
           NEW rest \in Seq(ServerBound), ServerReturns(result, rest)
    PROVE  ServerSide' /\ toServer' \in Seq(ServerBound)
<1>1. s' = Listen /\ sret' = result
    BY DEF ServerReturns
<1>2. s' \in SRecord /\ s'.state = "listen"
    BY <1>1, ListenType
<1>3. ServerSide'
    BY <1>1, <1>2 DEF ServerSide, Results
<1>4. toServer' \in Seq(ServerBound)
    BY SuffixType DEF ServerReturns
<1> QED
    BY <1>3, <1>4

\* One of the turns for a block has gone; next has the buffer filled anew.
LEMMA ServerTriedStep ==
    ASSUME ServerSide, stored' = stored, NEW next \in SRecord,
           next.state = s.state, next.count = s.count,
           next.state = "send" => (next.full => next.count <= LastBlock),
           next.tries = s.tries, s.state \in {"recv", "send"},
           NEW rest \in Seq(ServerBound), ServerTried(next, rest)
    PROVE  ServerSide' /\ toServer' \in Seq(ServerBound)
<1>1. /\ s \in SRecord /\ sret \in Results /\ StoredInOrder
      /\ s.state = "recv" => s.count = Len(stored) + 1 /\ s.count <= LastBlock
                                /\ InOrder(stored)
      /\ s.state = "send" => s.count > 0
    BY DEF ServerSide
<1>2. StoredInOrder'
    BY <1>1 DEF StoredInOrder
<1>3. CASE s.tries + 1 = RetryNum
    BY <1>2, <1>3, ServerReturnsStep DEF ServerTried
<1>4. CASE s.tries + 1 # RetryNum
    <2>1. /\ s' = [next EXCEPT !.tries = @ + 1] /\ toServer' = rest
          /\ sret' = sret
        BY <1>4 DEF ServerTried
    <2>2. next.tries + 1 \in 0 .. RetryNum - 1
        BY <1>1, <1>4, TftpAssumption DEF SRecord
    <2>3. /\ s' \in SRecord /\ s'.state = next.state /\ s'.count = next.count
          /\ s'.full = next.full
        BY <2>1, <2>2 DEF SRecord
    <2>4. InOrder(stored') <=> InOrder(stored)
        BY DEF InOrder
    <2>5. /\ s'.state = "recv" => s'.count = Len(stored') + 1
                 /\ s'.count <= LastBlock /\ InOrder(stored')
          /\ s'.state = "send" => s'.count > 0 /\ (s'.full => s'.count <= LastBlock)
        BY <1>1, <2>3, <2>4
    <2>6. ServerSide'
        BY <1>1, <1>2, <2>1, <2>3, <2>5 DEF ServerSide
    <2> QED
        BY <2>1, <2>6
<1> QED
    BY <1>3, <1>4

\* A request is answered with ACK 0 or with the first block.
LEMMA ServeWrqStep ==
    ASSUME ServerSide, Ways, NEW m \in ServerBound,
           NEW rest \in Seq(ServerBound), ServeWrq(m, rest)
    PROVE  ServerSide' /\ Ways'
<1>1. m.port \in 0 .. MaxCalls
    BY DEF ServerBound, Datagrams
<1>2. /\ s' = [Listen EXCEPT !.state = "recv", !.port = m.port, !.count = 1,
                             !.buf = m]
      /\ stored' = <<>> /\ sret' = "none" /\ toServer' = rest
      /\ ServerSends(Ack(m.port, 0))
    BY DEF ServeWrq
<1>3. 1 \in 0 .. LastBlock + 1 /\ 1 <= LastBlock /\ 0 \in 0 .. LastBlock + 1
    BY TftpAssumption
<1>4. s' \in SRecord /\ s'.state = "recv" /\ s'.count = 1
    BY <1>1, <1>2, <1>3, ListenType DEF SRecord
<1>5. /\ stored' \in Seq(0 .. LastBlock) /\ Len(stored') = 0 /\ InOrder(stored')
    BY <1>2 DEF InOrder
<1>6. StoredInOrder'
    BY <1>3, <1>5, InOrderStored, TftpAssumption
<1>7. ServerSide'
    <2>1. sret' \in Results /\ s'.count = Len(stored') + 1 /\ s'.count <= LastBlock
        BY <1>2, <1>3, <1>4, <1>5 DEF Results
    <2>2. s'.state # "send"
        BY <1>4
    <2> QED
        BY <1>4, <1>5, <1>6, <2>1, <2>2 DEF ServerSide
<1>8. toClient' \in Seq(ClientBound)
    BY <1>1, <1>2, <1>3, AckBound, SentToClient
<1> QED
    BY <1>2, <1>7, <1>8 DEF Ways

LEMMA ServeRrqStep ==
    ASSUME ServerSide, Ways, NEW m \in ServerBound,
           NEW rest \in Seq(ServerBound), ServeRrq(m, rest)
    PROVE  ServerSide' /\ Ways'
<1>1. m.port \in 0 .. MaxCalls
    BY DEF ServerBound, Datagrams
<1>2. /\ s' = [Listen EXCEPT !.state = "send", !.port = m.port, !.count = 1,
                             !.full = IsFull(Chunk(1)), !.buf = m]
      /\ stored' = <<>> /\ sret' = "none" /\ toServer' = rest
      /\ ServerSends(Data(m.port, 1, Chunk(1)))
    BY DEF ServeRrq
<1>3. 1 \in 0 .. LastBlock + 1 /\ 1 <= LastBlock
    BY TftpAssumption
<1>4. IsFull(Chunk(1)) \in BOOLEAN
    BY DEF IsFull
<1>5. s' \in SRecord /\ s'.state = "send" /\ s'.count = 1
    BY <1>1, <1>2, <1>3, <1>4, ListenType DEF SRecord
<1>6. /\ stored' \in Seq(0 .. LastBlock) /\ Len(stored') = 0 /\ InOrder(stored')
    BY <1>2 DEF InOrder
<1>7. StoredInOrder'
    BY <1>6, InOrderStored, TftpAssumption
<1>8. ServerSide'
    <2>1. sret' \in Results /\ s'.count > 0 /\ s'.count <= LastBlock
        BY <1>2, <1>3, <1>5 DEF Results
    <2>2. s'.state # "recv"
        BY <1>5
    <2> QED
        BY <1>5, <1>7, <2>1, <2>2 DEF ServerSide
<1>9. toClient' \in Seq(ClientBound)
    BY <1>1, <1>2, <1>3, DataBound, SentToClient
<1> QED
    BY <1>2, <1>8, <1>9 DEF Ways

LEMMA ServerExitsStep ==
    ASSUME ServerSide, Ways, NEW m \in ServerBound, ServerExits(m)
    PROVE  ServerSide' /\ Ways'
<1>1. /\ s' = Off /\ toServer' = <<>> /\ stored' = stored /\ sret' = sret
      /\ toClient' = toClient
    BY DEF ServerExits
<1>2. s' \in SRecord /\ s'.state = "off"
    BY <1>1, ListenType
<1>3. sret' \in Results /\ StoredInOrder'
    BY <1>1 DEF ServerSide, StoredInOrder
<1>4. s'.state # "recv" /\ s'.state # "send"
    BY <1>2
<1>5. ServerSide'
    BY <1>2, <1>3, <1>4 DEF ServerSide
<1> QED
    BY <1>1, <1>5 DEF Ways

\* The block the server waits for is the next one of the file, or nothing.
LEMMA RecvBlockStep ==
    ASSUME ServerSide, Ways, NEW m \in ServerBound,
           NEW rest \in Seq(ServerBound), NEW known \in BOOLEAN,
           RecvBlock(m, rest, known)
    PROVE  ServerSide' /\ Ways'
<1> DEFINE k == s.count
           d == m.data
<1>1. /\ s \in SRecord /\ s.state = "recv" /\ sret \in Results
      /\ s.port \in 0 .. MaxCalls /\ k \in 0 .. LastBlock + 1
      /\ k = Len(stored) + 1 /\ k <= LastBlock
      /\ stored \in Seq(0 .. LastBlock) /\ InOrder(stored)
    BY DEF ServerSide, StoredInOrder, SRecord, RecvBlock
<1>2. Len(stored) \in Nat /\ k \in 1 .. LastBlock
    BY <1>1, LenProperties
<1>3. d \in {k, 0}
    BY <1>2 DEF RecvBlock, IsExpected, ServerBound, Chunk
<1>4. stored' = Append(stored, d) /\ ServerSends(Ack(s.port, k))
    BY DEF RecvBlock
<1>5. toClient' \in Seq(ClientBound)
    BY <1>1, <1>4, AckBound, SentToClient
<1>6. CASE IsFull(m.data)
    <2>1. d = k /\ k < LastBlock
        BY <1>2, <1>3, <1>6, TftpAssumption DEF IsFull
    <2>2. /\ s' = [s EXCEPT !.count = k + 1, !.tries = 0, !.buf = m,
                            !.known = known]
          /\ toServer' = rest /\ sret' = sret
        BY <1>6 DEF RecvBlock
    <2> HIDE DEF k, d
    <2>3. k \in 0 .. LastBlock /\ k + 1 \in 0 .. LastBlock + 1 /\ k + 1 <= LastBlock
          /\ 0 \in 0 .. RetryNum - 1
        BY <1>2, <2>1, TftpAssumption
    <2>4. s' \in SRecord /\ s'.state = "recv" /\ s'.count = k + 1
        BY <1>1, <2>2, <2>3 DEF SRecord
    <2>5. stored' \in Seq(0 .. LastBlock) /\ Len(stored') = k /\ InOrder(stored')
        <3>1. Append(stored, k) \in Seq(0 .. LastBlock)
              /\ Len(Append(stored, k)) = k
            BY <1>1, <2>3
        <3>2. InOrder(Append(stored, k))
            BY <1>1, <1>2, <2>3 DEF InOrder
        <3> QED
            BY <1>4, <2>1, <3>1, <3>2
    <2>6. StoredInOrder'
        BY <2>1, <2>3, <2>5, InOrderStored, TftpAssumption
    <2>7. ServerSide'
        <3>1. s'.count = Len(stored') + 1 /\ s'.count <= LastBlock
            BY <2>3, <2>4, <2>5
        <3>2. s'.state # "send" /\ sret' \in Results
            BY <1>1, <2>2, <2>4
        <3> QED
            BY <2>4, <2>5, <2>6, <3>1, <3>2 DEF ServerSide
    <2> QED
        BY <1>5, <2>2, <2>7 DEF Ways
<1>7. CASE ~IsFull(m.data)
    <2>1. ServerReturns("ok", rest)
        BY <1>7 DEF RecvBlock
    <2> HIDE DEF k, d
    <2>2. d \in 0 .. LastBlock /\ k <= LastBlock
        BY <1>2, <1>3, TftpAssumption
    <2>3. Append(stored, d) \in Seq(0 .. LastBlock) /\ Len(Append(stored, d)) = k
        BY <1>1, <2>2
    <2>4. \A i \in DOMAIN Append(stored, d) :
              \/ Append(stored, d)[i] = i
              \/ Append(stored, d)[i] = 0 /\ i = Len(Append(stored, d))
        BY <1>1, <1>2, <1>3, <2>2 DEF InOrder
    <2>5. StoredInOrder'
        <3>1. stored' \in Seq(0 .. LastBlock) /\ Len(stored') <= LastBlock
            BY <1>4, <2>2, <2>3
        <3>2. \A i \in DOMAIN stored' :
                  stored'[i] = i \/ (stored'[i] = 0 /\ i = Len(stored'))
            BY <1>4, <2>4
        <3> QED
            BY <3>1, <3>2 DEF StoredInOrder
    <2>6. ServerSide' /\ toServer' \in Seq(ServerBound)
        BY <2>1, <2>5, ServerReturnsStep
    <2> QED
        BY <1>5, <2>6 DEF Ways
<1> QED
    BY <1>6, <1>7

LEMMA RecvOtherStep ==
    ASSUME ServerSide, Ways, NEW m \in ServerBound,
           NEW rest \in Seq(ServerBound), NEW known \in BOOLEAN,
           RecvOther(m, rest, known)
    PROVE  ServerSide' /\ Ways'
<1> DEFINE next == [s EXCEPT !.buf = m, !.known = known]
<1>1. /\ s \in SRecord /\ s.state = "recv" /\ s.port \in 0 .. MaxCalls
      /\ s.count \in 0 .. LastBlock + 1 /\ s.count = Len(stored) + 1
      /\ stored \in Seq(0 .. LastBlock)
    BY DEF ServerSide, StoredInOrder, SRecord, RecvOther
<1>2. s.count - 1 \in 0 .. LastBlock + 1
    BY <1>1, LenProperties, TftpAssumption
<1>3. /\ next \in SRecord /\ next.state = s.state /\ next.count = s.count
      /\ next.tries = s.tries
    BY <1>1 DEF SRecord
<1>4. stored' = stored /\ ServerTried(next, rest)
    BY DEF RecvOther
<1>5. toClient' \in Seq(ClientBound)
    <2>1. CASE ServerSends(Ack(s.port, s.count - 1))
        BY <1>1, <1>2, <2>1, AckBound, SentToClient
    <2>2. CASE toClient' = toClient
        BY <2>2 DEF Ways
    <2> QED
        BY <2>1, <2>2 DEF RecvOther
<1> HIDE DEF next
<1>6. ServerSide' /\ toServer' \in Seq(ServerBound)
    BY <1>1, <1>3, <1>4, ServerTriedStep
<1> QED
    BY <1>5, <1>6 DEF Ways

LEMMA RecvTimeoutStep ==
    ASSUME ServerSide, Ways, RecvTimeout
    PROVE  ServerSide' /\ Ways'
<1>1. /\ s \in SRecord /\ s.buf \in ServerBound /\ s.known \in BOOLEAN
      /\ toServer \in Seq(ServerBound)
    BY DEF ServerSide, SRecord, Ways
<1>2. CASE RecvBlock(s.buf, toServer, s.known)
    BY <1>1, <1>2, RecvBlockStep
<1>3. CASE RecvOther(s.buf, toServer, s.known)
    BY <1>1, <1>3, RecvOtherStep
<1>4. CASE /\ s.state = "recv" /\ ServerTried(s, toServer)
           /\ UNCHANGED <<stored, toClient>>
    <2>1. ServerSide' /\ toServer' \in Seq(ServerBound)
        BY <1>1, <1>4, ServerTriedStep
    <2> QED
        BY <1>4, <2>1 DEF Ways
<1> QED
    BY <1>2, <1>3, <1>4 DEF RecvTimeout

\* One block beyond the last may be sent, and none beyond that.
LEMMA SendNextStep ==
    ASSUME ServerSide, Ways, NEW m \in ServerBound,
           NEW rest \in Seq(ServerBound), SendNext(m, rest)
    PROVE  ServerSide' /\ Ways'
<1> DEFINE k == s.count + 1
<1>1. /\ s \in SRecord /\ s.state = "send" /\ s.port \in 0 .. MaxCalls
      /\ s.count \in 0 .. LastBlock + 1 /\ s.count > 0
      /\ s.full => s.count <= LastBlock
      /\ stored' = stored /\ StoredInOrder /\ sret \in Results
    BY DEF ServerSide, SRecord, SendNext
<1>2. StoredInOrder'
    BY <1>1 DEF StoredInOrder
<1>3. CASE s.full
    <2>1. k \in 0 .. LastBlock + 1 /\ k > 1 /\ 0 \in 0 .. RetryNum - 1
        BY <1>1, <1>3, TftpAssumption
    <2>2. /\ s' = [s EXCEPT !.count = k, !.tries = 0,
                            !.full = IsFull(Chunk(k)), !.buf = m]
          /\ toServer' = rest /\ sret' = sret
          /\ ServerSends(Data(s.port, k, Chunk(k)))
        BY <1>3 DEF SendNext
    <2> HIDE DEF k
    <2>3. IsFull(Chunk(k)) \in BOOLEAN /\ (IsFull(Chunk(k)) => k <= LastBlock)
        BY <2>1, TftpAssumption DEF IsFull, Chunk
    <2>4. /\ s' \in SRecord /\ s'.state = "send" /\ s'.count = k
          /\ s'.full = IsFull(Chunk(k))
        BY <1>1, <2>1, <2>2, <2>3 DEF SRecord
    <2>5. s'.count > 0 /\ (s'.full => s'.count <= LastBlock)
        BY <2>1, <2>3, <2>4
    <2>6. ServerSide'
        <3>1. s'.state # "recv" /\ sret' \in Results
            BY <1>1, <2>2, <2>4
        <3> QED
            BY <1>2, <2>4, <2>5, <3>1 DEF ServerSide
    <2>7. toClient' \in Seq(ClientBound)
        BY <1>1, <2>1, <2>2, DataBound, SentToClient
    <2> QED
        BY <2>2, <2>6, <2>7 DEF Ways
<1>4. CASE ~s.full
    <2>1. ServerReturns("ok", rest) /\ toClient' = toClient
        BY <1>4 DEF SendNext
    <2>2. ServerSide' /\ toServer' \in Seq(ServerBound)
        BY <1>2, <2>1, ServerReturnsStep
    <2> QED
        BY <2>1, <2>2 DEF Ways
<1> QED
    BY <1>3, <1>4

LEMMA SendAgainStep ==
    ASSUME ServerSide, Ways, NEW m \in ServerBound,
           NEW rest \in Seq(ServerBound), SendAgain(m, rest)
    PROVE  ServerSide' /\ Ways'
<1> DEFINE k == s.count - 1
           next == [s EXCEPT !.full = IsFull(Chunk(k)), !.buf = m]
<1>1. /\ s \in SRecord /\ s.state = "send" /\ s.port \in 0 .. MaxCalls
      /\ s.count \in 0 .. LastBlock + 1 /\ s.count > 0 /\ stored' = stored
      /\ ServerSends(Data(s.port, k, Chunk(k))) /\ ServerTried(next, rest)
    BY DEF ServerSide, SRecord, SendAgain
<1>2. k \in 0 .. LastBlock + 1 /\ s.count = k + 1
    BY <1>1, TftpAssumption
<1>3. toClient' \in Seq(ClientBound)
    BY <1>1, <1>2, DataBound, SentToClient
<1>4. next.state = s.state /\ next.count = s.count /\ next.tries = s.tries
      /\ next.full = IsFull(Chunk(k))
    BY <1>1 DEF SRecord
<1> HIDE DEF k
<1>5. IsFull(Chunk(k)) \in BOOLEAN /\ (IsFull(Chunk(k)) => k < LastBlock)
    BY <1>2, TftpAssumption DEF IsFull, Chunk
<1>6. next \in SRecord
    BY <1>1, <1>5 DEF SRecord
<1>7. next.full => next.count <= LastBlock
    BY <1>2, <1>4, <1>5, TftpAssumption
<1> HIDE DEF next
<1>8. ServerSide' /\ toServer' \in Seq(ServerBound)
    BY <1>1, <1>4, <1>6, <1>7, ServerTriedStep
<1> QED
    BY <1>3, <1>8 DEF Ways

LEMMA SendIgnoresStep ==
    ASSUME ServerSide, Ways, NEW m \in ServerBound,
           NEW rest \in Seq(ServerBound), SendIgnores(m, rest)
    PROVE  ServerSide' /\ Ways'
<1> DEFINE next == [s EXCEPT !.buf = m]
<1>1. /\ s \in SRecord /\ s.state = "send" /\ UNCHANGED <<stored, toClient>>
      /\ s.full => s.count <= LastBlock
      /\ ServerTried(next, rest)
    BY DEF ServerSide, SendIgnores
<1>2. /\ next \in SRecord /\ next.state = s.state /\ next.count = s.count
      /\ next.tries = s.tries /\ next.full = s.full
    BY <1>1 DEF SRecord
<1> HIDE DEF next
<1>3. ServerSide' /\ toServer' \in Seq(ServerBound)
    BY <1>1, <1>2, ServerTriedStep
<1> QED
    BY <1>1, <1>3 DEF Ways

LEMMA SendTimeoutStep ==
    ASSUME ServerSide, Ways, SendTimeout
    PROVE  ServerSide' /\ Ways'
<1>1. /\ s \in SRecord /\ s.state = "send" /\ UNCHANGED <<stored, toClient>>
      /\ s.full => s.count <= LastBlock
      /\ ServerTried(s, toServer) /\ toServer \in Seq(ServerBound)
    BY DEF ServerSide, SendTimeout, Ways
<1>2. ServerSide' /\ toServer' \in Seq(ServerBound)
    BY <1>1, ServerTriedStep
<1> QED
    BY <1>1, <1>2 DEF Ways

LEMMA ServerReceivesStep ==
    ASSUME ServerSide, Ways, ServerReceives
    PROVE  ServerSide' /\ Ways'
<1>1. Head(toServer) \in ServerBound /\ Tail(toServer) \in Seq(ServerBound)
    BY Received DEF ServerReceives, Ways
<1> QED
    BY <1>1, ServeWrqStep, ServeRrqStep, ServerExitsStep, RecvBlockStep,
       RecvOtherStep, SendNextStep, SendAgainStep, SendIgnoresStep
    DEF ServerReceives

-----------------------------------------------------------------------------
(* The network.                                                            *)

\* A way whose datagrams are lost, repeated or overtaken has no others.
LEMMA DisturbedType ==
    ASSUME NEW B, NEW q \in Seq(B), NEW r \in Disturbed(q)
    PROVE  r \in Seq(B)
<1>1. PICK k \in DOMAIN q :
          r \in {RemoveAt(q, k), Append(q, q[k]), Append(RemoveAt(q, k), q[k])}
    BY DEF Disturbed
<1>2. Len(q) \in Nat /\ k \in 1 .. Len(q) /\ \A i \in 1 .. Len(q) : q[i] \in B
    BY LenProperties, ElementOfSeq
<1>3. SubSeq(q, 1, k - 1) \in Seq(B)
    <2>1. 1 \in Int /\ k - 1 \in Int /\ \A i \in 1 .. k - 1 : q[i] \in B
        BY <1>2
    <2> QED
        BY <2>1, SubSeqProperties, Zenon
<1>4. SubSeq(q, k + 1, Len(q)) \in Seq(B)
    <2>1. k + 1 \in Int /\ Len(q) \in Int /\ \A i \in k + 1 .. Len(q) : q[i] \in B
        BY <1>2
    <2> QED
        BY <2>1, SubSeqProperties, Zenon
<1>5. RemoveAt(q, k) \in Seq(B)
    BY <1>3, <1>4, ConcatProperties DEF RemoveAt
<1>6. q[k] \in B
    BY <1>2
<1> DEFINE left == RemoveAt(q, k)
           again == q[k]
<1>7. left \in Seq(B) /\ again \in B /\ r \in {left, Append(q, again), Append(left, again)}
    BY <1>1, <1>5, <1>6
<1> HIDE DEF left, again
<1>8. Append(q, again) \in Seq(B) /\ Append(left, again) \in Seq(B)
    BY <1>7
<1> QED
    BY <1>7, <1>8

LEMMA FaultType ==
    ASSUME NetworkType, Fault
    PROVE  NetworkType'
<1>1. faults \in 0 .. MaxFaults /\ faults < MaxFaults /\ faults' = faults + 1
    BY DEF NetworkType, Fault
<1>2. faults' \in 0 .. MaxFaults
    BY <1>1, TftpAssumption
<1>3. calm' \in BOOLEAN
    BY Zenon DEF Fault
<1> QED
    BY <1>2, <1>3, Zenon DEF NetworkType

LEMMA ClientSideKept ==
    ASSUME ClientSide, UNCHANGED client
    PROVE  ClientSide'
  BY DEF ClientSide, client

LEMMA ServerSideKept ==
    ASSUME ServerSide, UNCHANGED server
    PROVE  ServerSide'
  BY DEF ServerSide, StoredInOrder, InOrder, server

-----------------------------------------------------------------------------
LEMMA InitInv == Init => Inv
<1> SUFFICES ASSUME Init PROVE Inv
    OBVIOUS
<1>1. c = Idle /\ got = <<>> /\ cret = "none"
    BY DEF Init
<1>2. c \in CRecord /\ c.state = "idle"
    <2>1. 0 \in 0 .. LastBlock /\ 0 \in 0 .. RetryNum - 1 /\ 0 \in 0 .. MaxCalls
        BY TftpAssumption
    <2> QED
        BY <1>1, <2>1 DEF Idle, CRecord
<1>3. got \in Seq(0 .. LastBlock) /\ Len(got) <= LastBlock /\ InOrder(got)
    BY <1>1, TftpAssumption DEF InOrder
<1>4. ClientSide
    BY <1>1, <1>2, <1>3 DEF ClientSide, Results
<1>5. s \in SRecord /\ s.state = "off" /\ stored = <<>> /\ sret = "none"
    BY ListenType DEF Init
<1>6. StoredInOrder
    BY <1>5, TftpAssumption DEF StoredInOrder
<1>7. ServerSide
    BY <1>5, <1>6 DEF ServerSide, Results
<1>8. Ways
    BY DEF Init, Ways
<1>9. NetworkType
    <2>1. faults = 0 /\ calm = FALSE
        BY DEF Init
    <2>2. 0 \in 0 .. MaxFaults
        BY TftpAssumption
    <2> QED
        BY <2>1, <2>2, Zenon DEF NetworkType
<1> QED
    BY <1>4, <1>7, <1>8, <1>9 DEF Inv

LEMMA NextInv == Inv /\ [Next]_vars => Inv'
<1> SUFFICES ASSUME Inv, [Next]_vars PROVE Inv'
    OBVIOUS
<1>1. ClientSide /\ ServerSide /\ Ways /\ NetworkType
    BY DEF Inv
<1>2. ASSUME NEW op \in {RRQ, WRQ}, TftpClientStart(op)
      PROVE  Inv'
    <2>1. UNCHANGED server
        BY <1>2 DEF TftpClientStart
    <2> QED
        BY <1>1, <1>2, <2>1, TftpClientStartStep, ServerSideKept DEF Inv
<1>3. CASE TftpServerStart
    <2>1. /\ s' = Listen /\ UNCHANGED <<stored, sret, toServer, toClient>>
          /\ UNCHANGED client /\ UNCHANGED network
        BY <1>3 DEF TftpServerStart
    <2>2. s' \in SRecord /\ s'.state = "listen"
        BY <2>1, ListenType
    <2>3. sret' \in Results /\ StoredInOrder'
        BY <1>1, <2>1 DEF ServerSide, StoredInOrder
    <2>4. s'.state # "recv" /\ s'.state # "send"
        BY <2>2
    <2>5. ServerSide'
        BY <2>2, <2>3, <2>4 DEF ServerSide
    <2>6. Ways' /\ NetworkType'
        BY <1>1, <2>1 DEF Ways, NetworkType, network
    <2> QED
        BY <1>1, <2>1, <2>5, <2>6, ClientSideKept DEF Inv
<1>4. CASE ClientReceives
    <2>1. UNCHANGED server /\ UNCHANGED network
        BY <1>4 DEF ClientReceives
    <2>2. NetworkType'
        BY <1>1, <2>1 DEF network, NetworkType
    <2> QED
        BY <1>1, <1>4, <2>1, <2>2, ClientReceivesStep, ServerSideKept DEF Inv
<1>5. CASE ServerReceives
    <2>1. UNCHANGED client /\ UNCHANGED network
        BY <1>5 DEF ServerReceives
    <2>2. NetworkType'
        BY <1>1, <2>1 DEF network, NetworkType
    <2> QED
        BY <1>1, <1>5, <2>1, <2>2, ServerReceivesStep, ClientSideKept DEF Inv
<1>6. ASSUME ClientTimeout \/ ServerTimeout
      PROVE  ClientSide' /\ ServerSide' /\ Ways'
    <2>1. CASE ClientTimeout
        BY <1>1, <2>1, ClientTimeoutStep, ServerSideKept DEF ClientTimeout
    <2>2. CASE ServerTimeout
        BY <1>1, <2>2, RecvTimeoutStep, SendTimeoutStep, ClientSideKept
        DEF ServerTimeout
    <2> QED
        BY <1>6, <2>1, <2>2
<1>7. CASE TimesOut
    <2>1. NetworkType'
        BY <1>1, <1>7 DEF TimesOut, network, NetworkType
    <2> QED
        BY <1>6, <1>7, <2>1 DEF TimesOut, Inv
<1>8. CASE TimesOutEarly
    <2>1. NetworkType'
        BY <1>1, <1>8, FaultType DEF TimesOutEarly
    <2> QED
        BY <1>6, <1>8, <2>1 DEF TimesOutEarly, Inv
<1>9. CASE Disturb
    <2>1. /\ toServer \in Seq(ServerBound) /\ toClient \in Seq(ClientBound)
          /\ UNCHANGED client /\ UNCHANGED server
        BY <1>1, <1>9 DEF Ways, Disturb
    <2>2. toServer' \in Seq(ServerBound) /\ toClient' \in Seq(ClientBound)
        BY <1>9, <2>1, DisturbedType DEF Disturb
    <2>3. NetworkType'
        BY <1>1, <1>9, FaultType DEF Disturb
    <2> QED
        BY <1>1, <2>1, <2>2, <2>3, ClientSideKept, ServerSideKept DEF Inv, Ways
<1>10. CASE UNCHANGED vars
    <2>1. /\ UNCHANGED client /\ UNCHANGED server /\ UNCHANGED network
          /\ UNCHANGED <<toServer, toClient>>
        BY <1>10 DEF vars
    <2>2. Ways' /\ NetworkType'
        BY <1>1, <2>1 DEF Ways, network, NetworkType
    <2> QED
        BY <1>1, <2>1, <2>2, ClientSideKept, ServerSideKept DEF Inv
<1> QED
    BY <1>2, <1>3, <1>4, <1>5, <1>7, <1>8, <1>9, <1>10 DEF Next

LEMMA InvAlways == Spec => []Inv
  BY InitInv, NextInv, PTL DEF Spec

\* The variables keep their types for files of any length: neither recv_handle
\* is called more often than the file has blocks.
THEOREM TypeCorrect == Spec => []TypeOK
<1>1. Inv => TypeOK
    <2> SUFFICES ASSUME Inv PROVE TypeOK
        OBVIOUS
    <2>1. ServerBound \subseteq Datagrams /\ ClientBound \subseteq Datagrams
        BY DEF ServerBound, ClientBound
    <2>2. toServer \in Seq(Datagrams) /\ toClient \in Seq(Datagrams)
        BY <2>1, SeqMonotonic DEF Inv, Ways
    <2>3. s \in [state : {"off", "listen", "recv", "send"}, port : 0 .. MaxCalls,
                 count : 0 .. LastBlock + 1, tries : 0 .. RetryNum - 1,
                 full : BOOLEAN, buf : Datagrams, known : BOOLEAN]
        BY <2>1 DEF Inv, ServerSide, SRecord
    <2>4. c \in CRecord /\ cret \in Results /\ sret \in Results
        BY DEF Inv, ClientSide, ServerSide
    <2>5. /\ got \in Seq(0 .. LastBlock) /\ Len(got) <= LastBlock
          /\ stored \in Seq(0 .. LastBlock) /\ Len(stored) <= LastBlock
        BY DEF Inv, ClientSide, ServerSide, StoredInOrder
    <2> QED
        BY <2>2, <2>3, <2>4, <2>5 DEF TypeOK, Inv, NetworkType, CRecord, Results
<1> QED
    BY <1>1, InvAlways, PTL

\* Whatever the network loses, repeats, reorders or delays, recv_handle of both
\* sides gets the blocks of the file one after the other, each once, and a get
\* that returns 0 has all of them.
THEOREM BlocksSound == Spec => []BlocksInOrder
<1>1. Inv => BlocksInOrder
    BY DEF Inv, ClientSide, ServerSide, StoredInOrder, InOrder, BlocksInOrder
<1> QED
    BY <1>1, InvAlways, PTL

-----------------------------------------------------------------------------
(* Without faults one datagram is on its way at a time, from the call to the  *)
(* end of the transfer: the phases of a get, and those of a put.             *)

Serving(k) == s.state = "send" /\ s.port = c.port /\ s.count = k /\ s.full = IsFull(k)
Storing(k) == s.state = "recv" /\ s.port = c.port /\ s.count = k

\* The client has returned 0 from a get; or from a put.
GotAll == c.state = "idle" /\ cret = "ok" /\ got # <<>>
SentAll == c.state = "idle" /\ cret = "ok" /\ got = <<>>

GetAsked == c.state = "get" /\ c.count = 1 /\ s.state = "listen"
            /\ toServer = <<Request(c.port, RRQ)>> /\ toClient = <<>>
GetSent == c.state = "get" /\ Serving(c.count) /\ c.count \in 1 .. LastBlock
           /\ toServer = <<>> /\ toClient = <<Data(c.port, c.count, c.count)>>
GetAcked == c.state = "get" /\ Serving(c.count - 1) /\ IsFull(c.count - 1)
            /\ toServer = <<Ack(c.port, c.count - 1)>> /\ toClient = <<>>
GetDone == GotAll /\ Serving(LastBlock) /\ toClient = <<>>
           /\ toServer = <<Ack(c.port, LastBlock), Ack(c.port, LastBlock)>>
GetOver == GotAll /\ s.state \in {"listen", "off"} /\ sret = "ok" /\ toClient = <<>>
           /\ toServer \in {<<>>, <<Ack(c.port, LastBlock)>>}

PutAsked == c.state = "put" /\ c.count = 0 /\ s.state = "listen"
            /\ toServer = <<Request(c.port, WRQ)>> /\ toClient = <<>>
PutAcked == c.state = "put" /\ Storing(c.count + 1)
            /\ toServer = <<>> /\ toClient = <<Ack(c.port, c.count)>>
PutSent == c.state = "put" /\ Storing(c.count) /\ IsFull(c.count)
           /\ toServer = <<Data(c.port, c.count, c.count)>> /\ toClient = <<>>
PutDone == SentAll /\ Storing(LastBlock)
           /\ toServer = <<Data(c.port, LastBlock, LastBlock)>> /\ toClient = <<>>
PutOver == SentAll /\ s.state = "listen" /\ sret = "ok"
           /\ toServer = <<>> /\ toClient = <<>>
           /\ Len(stored) = LastBlock /\ InOrder(stored)

InPhase ==
    \/ GetAsked \/ GetSent \/ GetAcked \/ GetDone \/ GetOver
    \/ PutAsked \/ PutAcked \/ PutSent \/ PutDone \/ PutOver

CalmInv == calm => InPhase

\* The datagram on its way is taken, and the one in answer is alone.
LEMMA One ==
    ASSUME NEW m, NEW n
    PROVE  /\ Head(<<m>>) = m /\ Tail(<<m>>) = <<>> /\ <<m>> # <<>>
           /\ Head(<<m, n>>) = m /\ Tail(<<m, n>>) = <<n>>
           /\ Append(<<>>, m) = <<m>>
  OBVIOUS

LEMMA OneSent ==
    ASSUME toServer = <<>>, s.state # "off", NEW B, NEW q \in Seq(B), ClientSends(q)
    PROVE  toServer' = q
<1>1. toServer' = <<>> \o q
    BY DEF ClientSends
<1>2. <<>> \o q = q
    BY ConcatEmptySeq
<1> QED
    BY <1>1, <1>2

\* What the server drops, and does not drop, of what is left when a transfer ends.
LEMMA Dropped ==
    ASSUME NEW result, NEW m, NEW rest \in {<<>>, <<m>>}, ServerReturns(result, rest)
    PROVE  toServer' \in {<<>>, rest} /\ s' = Listen /\ sret' = result
<1>1. PICK k \in 1 .. Len(rest) + 1 : toServer' = SubSeq(rest, k, Len(rest))
    BY DEF ServerReturns
<1>2. CASE rest = <<>>
    <2>1. Len(rest) = 0 /\ k = 1
        BY <1>2
    <2>2. SubSeq(<<>>, 1, 0) = <<>>
        OBVIOUS
    <2> QED
        BY <1>1, <1>2, <2>1, <2>2 DEF ServerReturns
<1>3. CASE rest = <<m>>
    <2>1. Len(rest) = 1 /\ k \in {1, 2}
        BY <1>3
    <2>2. rest \in Seq({m})
        BY <1>3
    <2>3. SubSeq(rest, 1, Len(rest)) = rest
        BY <2>2, SubSeqFull
    <2>4. SubSeq(rest, 2, Len(rest)) = <<>>
        BY <2>1, <2>2, SubSeqEmpty
    <2> QED
        BY <1>1, <2>1, <2>3, <2>4 DEF ServerReturns
<1> QED
    BY <1>2, <1>3

LEMMA Fields ==
    ASSUME NEW port, NEW k, NEW data, NEW op
    PROVE  /\ Data(port, k, data).op = "DATA" /\ Data(port, k, data).no = k
           /\ Data(port, k, data).data = data /\ Data(port, k, data).port = port
           /\ Ack(port, k).op = "ACK" /\ Ack(port, k).no = k /\ Ack(port, k).port = port
           /\ Request(port, op).op = op /\ Request(port, op).port = port
  BY DEF Data, Ack, Request

LEMMA BlockKinds ==
    ASSUME NEW k \in Nat
    PROVE  /\ k \in 1 .. LastBlock => Chunk(k) = k /\ (IsFull(k) <=> k # LastBlock)
           /\ IsFull(k) => k >= 1 /\ k + 1 \in 1 .. LastBlock
           /\ ~IsFull(LastBlock) /\ LastBlock \in 1 .. LastBlock
  BY TftpAssumption DEF Chunk, IsFull

-----------------------------------------------------------------------------
\* The client of a get has a block.
LEMMA GetSentGoesOn ==
    ASSUME Inv, GetSent, ClientReceives
    PROVE  InPhase'
<1> DEFINE k == c.count
           m == Data(c.port, k, k)
<1>1. /\ c \in CRecord /\ k \in Nat /\ k \in 1 .. LastBlock /\ got \in Seq(0 .. LastBlock)
      /\ c.port \in 0 .. MaxCalls /\ k \in 0 .. LastBlock + 1
    BY TftpAssumption DEF Inv, ClientSide, CRecord, GetSent
<1>2. /\ c.state = "get" /\ Serving(k) /\ toServer = <<>> /\ Head(toClient) = m
      /\ Tail(toClient) = <<>> /\ m.op = "DATA" /\ m.no = k /\ m.data = k
    BY One, Fields DEF GetSent
<1>3. s' = s /\ s.state # "off"
    BY <1>2 DEF ClientReceives, server, Serving
<1> DEFINE a == Ack(c.port, k)
<1>4. a \in ServerBound
    BY <1>1, AckBound
<1> HIDE DEF m
<1>5. IsNext(m)
    BY <1>2 DEF IsNext
<1>6. GetBlock(m, <<>>)
    BY <1>2, <1>5 DEF ClientReceives, GetOther, PutBlock, PutOther
<1>7. CASE IsFull(k)
    <2>1. /\ c' = [c EXCEPT !.count = k + 1, !.tries = 0] /\ ClientSends(<<a>>)
          /\ toClient' = <<>>
        BY <1>2, <1>6, <1>7 DEF GetBlock
    <2>2. c'.state = "get" /\ c'.count - 1 = k /\ c'.port = c.port
        BY <1>1, <1>2, <2>1 DEF CRecord
    <2>3. toServer' = <<a>>
        <3>1. <<a>> \in Seq(ServerBound)
            BY <1>4
        <3> QED
            BY <1>2, <1>3, <2>1, <3>1, OneSent
    <2>4. GetAcked'
        BY <1>2, <1>3, <1>7, <2>1, <2>2, <2>3 DEF GetAcked, Serving, IsFull
    <2> QED
        BY <2>4 DEF InPhase
<1>8. CASE ~IsFull(k)
    <2>1. k = LastBlock
        BY <1>1, <1>8, BlockKinds
    <2>2. ClientReturns("ok") /\ ClientSends(<<a, a>>) /\ got' = Append(got, k)
        BY <1>2, <1>6, <1>8 DEF GetBlock
    <2>3. c'.state = "idle" /\ c'.port = c.port /\ cret' = "ok" /\ toClient' = <<>>
        BY <2>2 DEF ClientReturns, Idle
    <2>4. toServer' = <<a, a>>
        <3>1. <<a, a>> \in Seq(ServerBound)
            BY <1>4
        <3> QED
            BY <1>2, <1>3, <2>2, <3>1, OneSent
    <2>5. got' # <<>>
        BY <1>1, <2>2
    <2>6. GetDone'
        BY <1>2, <1>3, <2>1, <2>3, <2>4, <2>5 DEF GetDone, GotAll, Serving, IsFull
    <2> QED
        BY <2>6 DEF InPhase
<1> QED
    BY <1>7, <1>8

\* The client of a put has the ACK of a block, or of the request.
LEMMA PutAckedGoesOn ==
    ASSUME Inv, PutAcked, ClientReceives
    PROVE  InPhase'
<1> DEFINE k == c.count + 1
           m == Ack(c.port, c.count)
           d == Data(c.port, k, k)
<1>1. /\ c \in CRecord /\ c.count \in Nat /\ k \in Nat /\ k \in 1 .. LastBlock
      /\ c.port \in 0 .. MaxCalls /\ k \in 0 .. LastBlock + 1 /\ got = <<>>
    BY TftpAssumption DEF Inv, ClientSide, CRecord, PutAcked
<1>2. /\ c.state = "put" /\ Storing(k) /\ toServer = <<>> /\ Head(toClient) = m
      /\ Tail(toClient) = <<>> /\ m.op = "ACK" /\ m.no = c.count
    BY One, Fields DEF PutAcked
<1>3. s' = s /\ s.state # "off" /\ Chunk(k) = k
    BY <1>1, <1>2, BlockKinds DEF ClientReceives, server, Storing
<1>4. d \in ServerBound
    BY <1>1, <1>3, DataBound
<1> HIDE DEF m, d
<1>5. PutBlock(m, <<>>)
    BY <1>2 DEF ClientReceives, GetOther, GetBlock, PutOther
<1>6. ClientSends(<<d>>) /\ got' = got
    BY <1>3, <1>5 DEF PutBlock, d
<1>7. toServer' = <<d>>
    <2>1. <<d>> \in Seq(ServerBound)
        BY <1>4
    <2> QED
        BY <1>2, <1>3, <1>6, <2>1, OneSent
<1>8. CASE IsFull(k)
    <2>1. c' = [c EXCEPT !.count = k, !.tries = 0] /\ toClient' = <<>>
        BY <1>3, <1>5, <1>8 DEF PutBlock
    <2>2. c'.state = "put" /\ c'.count = k /\ c'.port = c.port
        BY <1>1, <1>2, <2>1 DEF CRecord
    <2>3. PutSent'
        BY <1>2, <1>3, <1>7, <1>8, <2>1, <2>2 DEF PutSent, Storing, IsFull, d
    <2> QED
        BY <2>3 DEF InPhase
<1>9. CASE ~IsFull(k)
    <2>1. k = LastBlock
        BY <1>1, <1>9, BlockKinds
    <2>2. ClientReturns("ok")
        BY <1>3, <1>5, <1>9 DEF PutBlock
    <2>3. c'.state = "idle" /\ c'.port = c.port /\ cret' = "ok" /\ toClient' = <<>>
        BY <2>2 DEF ClientReturns, Idle
    <2>4. PutDone'
        BY <1>1, <1>2, <1>3, <1>6, <1>7, <2>1, <2>3 DEF PutDone, SentAll, Storing, d
    <2> QED
        BY <2>4 DEF InPhase
<1> QED
    BY <1>8, <1>9

\* The server has a request.
LEMMA AskedGoesOn ==
    ASSUME Inv, GetAsked \/ PutAsked, ServerReceives
    PROVE  InPhase'
<1>1. /\ s.state = "listen" /\ c' = c /\ toClient = <<>> /\ c \in CRecord
      /\ RRQ # WRQ /\ RRQ # "ACK"
    BY DEF Inv, ClientSide, ServerReceives, client, GetAsked, PutAsked, RRQ, WRQ
<1>2. Chunk(1) = 1 /\ 1 \in 1 .. LastBlock
    BY BlockKinds, TftpAssumption
<1>3. CASE GetAsked
    <2> DEFINE m == Request(c.port, RRQ)
               d == Data(c.port, 1, 1)
    <2>1. /\ c.state = "get" /\ c.count = 1 /\ Head(toServer) = m
          /\ Tail(toServer) = <<>> /\ m.op = RRQ /\ m.port = c.port /\ d.port = c.port
        BY <1>3, One, Fields DEF GetAsked
    <2> HIDE DEF m
    <2>2. ServeRrq(m, <<>>)
        BY <1>1, <2>1 DEF ServerReceives, ServeWrq, ServerExits, RecvBlock, RecvOther,
                          SendNext, SendAgain, SendIgnores
    <2>3. /\ s' = [Listen EXCEPT !.state = "send", !.port = c.port, !.count = 1,
                                 !.full = IsFull(1), !.buf = m]
          /\ toServer' = <<>> /\ ServerSends(d)
        BY <1>2, <2>1, <2>2 DEF ServeRrq
    <2>4. s'.state = "send" /\ s'.port = c.port /\ s'.count = 1 /\ s'.full = IsFull(1)
        BY <2>3 DEF Listen
    <2>5. toClient' = <<d>>
        BY <1>1, <2>1, <2>3, One DEF ServerSends
    <2>6. GetSent'
        BY <1>1, <1>2, <2>1, <2>3, <2>4, <2>5 DEF GetSent, Serving, IsFull
    <2> QED
        BY <2>6 DEF InPhase
<1>4. CASE PutAsked
    <2> DEFINE m == Request(c.port, WRQ)
               a == Ack(c.port, 0)
    <2>1. /\ c.state = "put" /\ c.count = 0 /\ Head(toServer) = m
          /\ Tail(toServer) = <<>> /\ m.op = WRQ /\ m.port = c.port /\ a.port = c.port
        BY <1>4, One, Fields DEF PutAsked
    <2> HIDE DEF m
    <2>2. ServeWrq(m, <<>>)
        BY <1>1, <2>1 DEF ServerReceives, ServeRrq, ServerExits, RecvBlock, RecvOther,
                          SendNext, SendAgain, SendIgnores
    <2>3. /\ s' = [Listen EXCEPT !.state = "recv", !.port = c.port, !.count = 1,
                                 !.buf = m]
          /\ toServer' = <<>> /\ ServerSends(a)
        BY <2>1, <2>2 DEF ServeWrq
    <2>4. s'.state = "recv" /\ s'.port = c.port /\ s'.count = 1
        BY <2>3 DEF Listen
    <2>5. toClient' = <<a>>
        BY <1>1, <2>1, <2>3, One DEF ServerSends
    <2>6. PutAcked'
        BY <1>1, <2>1, <2>3, <2>4, <2>5 DEF PutAcked, Storing
    <2> QED
        BY <2>6 DEF InPhase
<1> QED
    BY <1>3, <1>4

\* The server of a get has the ACK of a block.
LEMMA AckedGoesOn ==
    ASSUME Inv, GetAcked \/ GetDone, ServerReceives
    PROVE  InPhase'
<1> DEFINE k == s.count
           m == Ack(c.port, k)
<1>1. /\ s \in SRecord /\ s.state = "send" /\ s.port = c.port /\ s.full = IsFull(k)
      /\ k \in Nat /\ c' = c /\ got' = got /\ cret' = cret /\ toClient = <<>>
      /\ c \in CRecord /\ Serving(k)
    BY DEF Inv, ClientSide, ServerSide, SRecord, ServerReceives, client, GetAcked,
           GetDone, Serving
<1>2. m.op = "ACK" /\ m.no = k /\ m.port = c.port
    BY Fields
<1>3. CASE GetAcked
    <2> DEFINE d == Data(c.port, k + 1, k + 1)
    <2>1. /\ c.state = "get" /\ c.count = k + 1 /\ Head(toServer) = m
          /\ Tail(toServer) = <<>> /\ IsFull(k)
        <3>1. c.count \in Int /\ c.count - 1 = k
            BY <1>1, <1>3 DEF GetAcked, Serving, CRecord
        <3> QED
            BY <1>1, <1>3, <3>1, One DEF GetAcked
    <2>2. Chunk(k + 1) = k + 1 /\ k + 1 \in 1 .. LastBlock /\ d.port = c.port
        <3>1. k + 1 \in 1 .. LastBlock /\ k + 1 \in Nat
            BY <1>1, <2>1, BlockKinds
        <3>2. Chunk(k + 1) = k + 1
            BY <3>1, BlockKinds
        <3>3. d.port = c.port
            BY Fields
        <3> QED
            BY <3>1, <3>2, <3>3
    <2> HIDE DEF m, d
    <2>3. SendNext(m, <<>>)
        BY <1>1, <1>2, <2>1 DEF ServerReceives, ServeRrq, ServeWrq, ServerExits, RecvBlock,
                                RecvOther, SendAgain, SendIgnores
    <2>4. /\ ServerSends(d) /\ toServer' = <<>>
          /\ s' = [s EXCEPT !.count = k + 1, !.tries = 0, !.full = IsFull(k + 1),
                            !.buf = m]
        BY <1>1, <2>1, <2>2, <2>3 DEF SendNext, d
    <2>5. /\ s'.state = "send" /\ s'.port = c.port /\ s'.count = k + 1
          /\ s'.full = IsFull(k + 1)
        BY <1>1, <2>4 DEF SRecord
    <2>6. toClient' = <<d>>
        BY <1>1, <2>1, <2>2, <2>4, One DEF ServerSends
    <2>7. GetSent'
        BY <1>1, <2>1, <2>2, <2>4, <2>5, <2>6 DEF GetSent, Serving, IsFull, d
    <2> QED
        BY <2>7 DEF InPhase
<1>4. CASE GetDone
    <2>1. /\ GotAll /\ k = LastBlock /\ Head(toServer) = m /\ Tail(toServer) = <<m>>
        BY <1>4, One DEF GetDone, Serving
    <2>2. ~s.full
        BY <1>1, <2>1, BlockKinds
    <2> HIDE DEF m
    <2>3. SendNext(m, <<m>>)
        BY <1>1, <1>2, <2>1 DEF ServerReceives, ServeRrq, ServeWrq, ServerExits, RecvBlock,
                                RecvOther, SendAgain, SendIgnores
    <2>4. ServerReturns("ok", <<m>>) /\ toClient' = <<>>
        BY <1>1, <2>2, <2>3 DEF SendNext
    <2>5. toServer' \in {<<>>, <<m>>} /\ s' = Listen /\ sret' = "ok"
        BY <2>4, Dropped
    <2>6. s'.state = "listen"
        BY <2>5, ListenType
    <2>7. GetOver'
        BY <1>1, <2>1, <2>4, <2>5, <2>6 DEF GetOver, GotAll, m
    <2> QED
        BY <2>7 DEF InPhase
<1> QED
    BY <1>3, <1>4

\* The server of a put has a block.
LEMMA SentGoesOn ==
    ASSUME Inv, PutSent \/ PutDone, ServerReceives
    PROVE  InPhase'
<1> DEFINE k == s.count
           m == Data(c.port, k, k)
           a == Ack(c.port, k)
<1>1. /\ s \in SRecord /\ s.state = "recv" /\ s.port = c.port
      /\ k \in Nat /\ c' = c /\ got' = got /\ cret' = cret /\ toClient = <<>>
      /\ c \in CRecord /\ Storing(k) /\ toServer = <<m>>
    BY DEF Inv, ClientSide, ServerSide, SRecord, ServerReceives, client, PutSent,
           PutDone, Storing
<1>2. /\ m.op = "DATA" /\ m.no = k /\ m.data = k /\ m.port = c.port /\ a.port = c.port
      /\ Head(toServer) = m /\ Tail(toServer) = <<>>
    BY <1>1, One, Fields
<1> HIDE DEF m, a
<1>3. IsExpected(m)
    BY <1>2 DEF IsExpected
<1>4. RecvBlock(m, <<>>, TRUE)
    BY <1>1, <1>2, <1>3 DEF ServerReceives, ServeRrq, ServeWrq, ServerExits, RecvOther,
                            SendNext, SendAgain, SendIgnores
<1>5. stored' = Append(stored, k) /\ ServerSends(a)
    BY <1>1, <1>2, <1>4 DEF RecvBlock, a
<1>6. CASE PutSent
    <2>1. c.state = "put" /\ c.count = k /\ IsFull(k)
        BY <1>6 DEF PutSent, Storing
    <2>2. /\ s' = [s EXCEPT !.count = k + 1, !.tries = 0, !.buf = m, !.known = TRUE]
          /\ toServer' = <<>>
        BY <1>2, <1>4, <2>1 DEF RecvBlock
    <2>3. s'.state = "recv" /\ s'.port = c.port /\ s'.count = k + 1
        BY <1>1, <2>2 DEF SRecord
    <2>4. toClient' = <<a>>
        BY <1>1, <1>2, <1>5, <2>1, One DEF ServerSends
    <2>5. PutAcked'
        BY <1>1, <2>1, <2>2, <2>3, <2>4 DEF PutAcked, Storing, a
    <2> QED
        BY <2>5 DEF InPhase
<1>7. CASE PutDone
    <2>1. SentAll /\ k = LastBlock /\ c.state = "idle"
        BY <1>7 DEF PutDone, Storing, SentAll
    <2>2. ServerReturns("ok", <<>>)
        BY <1>2, <1>4, <2>1, BlockKinds, TftpAssumption DEF RecvBlock
    <2>3. toServer' = <<>> /\ s' = Listen /\ sret' = "ok"
        BY <2>2, Dropped
    <2>4. s'.state = "listen"
        BY <2>3, ListenType
    <2>5. toClient' = <<>>
        BY <1>1, <1>5, <2>1 DEF ServerSends
    <2>6. /\ stored \in Seq(0 .. LastBlock) /\ InOrder(stored)
          /\ k = Len(stored) + 1 /\ k \in 0 .. LastBlock
        BY <1>1, <2>1 DEF Inv, ServerSide, StoredInOrder
    <2>7. Len(Append(stored, k)) = k /\ InOrder(Append(stored, k))
        BY <2>6 DEF InOrder
    <2>8. Len(stored') = LastBlock /\ InOrder(stored')
        BY <1>5, <2>1, <2>7
    <2>9. PutOver'
        BY <1>1, <2>1, <2>3, <2>4, <2>5, <2>8 DEF PutOver, SentAll
    <2> QED
        BY <2>9 DEF InPhase
<1> QED
    BY <1>6, <1>7

\* The second ACK of the last block of a get ends the server, which the application
\* may start again.
LEMMA OverGoesOn ==
    ASSUME Inv, GetOver, ServerReceives \/ TftpServerStart
    PROVE  InPhase'
<1>1. /\ c' = c /\ got' = got /\ cret' = cret /\ sret = "ok" /\ toClient = <<>>
      /\ s.state \in {"listen", "off"} /\ GotAll
    BY DEF ServerReceives, TftpServerStart, client, GetOver
<1>2. CASE TftpServerStart
    <2>1. s' = Listen /\ sret' = sret /\ toServer' = toServer /\ toClient' = toClient
        BY <1>2 DEF TftpServerStart
    <2>2. s'.state = "listen"
        BY <2>1, ListenType
    <2>3. GetOver'
        BY <1>1, <2>1, <2>2 DEF GetOver, GotAll
    <2> QED
        BY <2>3 DEF InPhase
<1>3. CASE ServerReceives
    <2> DEFINE m == Ack(c.port, LastBlock)
    <2>1. toServer = <<m>>
        BY <1>3 DEF ServerReceives, GetOver
    <2>2. Head(toServer) = m /\ m.op = "ACK" /\ RRQ # "ACK" /\ WRQ # "ACK"
        BY <2>1, One, Fields DEF RRQ, WRQ
    <2> HIDE DEF m
    <2>3. ServerExits(m)
        BY <1>1, <1>3, <2>2 DEF ServerReceives, ServeRrq, ServeWrq, RecvBlock, RecvOther,
                                SendNext, SendAgain, SendIgnores
    <2>4. s' = Off /\ toServer' = <<>> /\ sret' = sret /\ toClient' = toClient
        BY <2>3 DEF ServerExits
    <2>5. s'.state = "off"
        BY <2>4, ListenType
    <2>6. GetOver'
        BY <1>1, <2>4, <2>5 DEF GetOver, GotAll
    <2> QED
        BY <2>6 DEF InPhase
<1> QED
    BY <1>2, <1>3

\* A call begins a transfer without faults when it finds the server waiting.
LEMMA CallIsCalm ==
    ASSUME Inv, NEW op \in {RRQ, WRQ}, TftpClientStart(op), calm'
    PROVE  InPhase'
<1>1. AllQuiet /\ s.state = "listen" /\ s' = s
    BY DEF TftpClientStart, server
<1>2. /\ c' = Attempt(1, op, 0) /\ ClientSends(<<Request(1, op)>>) /\ toClient' = <<>>
      /\ toServer = <<>>
    BY <1>1 DEF TftpClientStart, AllQuiet
<1>3. toServer' = <<Request(1, op)>>
    <2>1. 1 \in 0 .. MaxCalls
        BY TftpAssumption
    <2>2. <<Request(1, op)>> \in Seq(ServerBound)
        BY <2>1, RequestBound
    <2> QED
        BY <1>1, <1>2, <2>2, OneSent
<1>4. CASE op = RRQ
    <2>1. c'.state = "get" /\ c'.count = 1 /\ c'.port = 1
        BY <1>2, <1>4 DEF Attempt
    <2>2. GetAsked'
        BY <1>1, <1>2, <1>3, <1>4, <2>1 DEF GetAsked
    <2> QED
        BY <2>2 DEF InPhase
<1>5. CASE op = WRQ
    <2>1. c'.state = "put" /\ c'.count = 0 /\ c'.port = 1
        BY <1>2, <1>5 DEF Attempt, RRQ, WRQ
    <2>2. PutAsked'
        BY <1>1, <1>2, <1>3, <1>5, <2>1 DEF PutAsked
    <2> QED
        BY <2>2 DEF InPhase
<1> QED
    BY <1>4, <1>5

\* While a datagram is on its way no timeout is due, and afterwards nobody waits.
LEMMA NobodyTimesOut ==
    ASSUME InPhase
    PROVE  ~TimesOut
<1>1. NothingOnItsWay => c.state = "idle" /\ s.state \in {"listen", "off"}
    BY One DEF InPhase, NothingOnItsWay, GetAsked, GetSent, GetAcked, GetDone, GetOver,
               PutAsked, PutAcked, PutSent, PutDone, PutOver, GotAll, SentAll
<1> QED
    BY <1>1 DEF TimesOut, ClientTimeout, ServerTimeout, GetTimeout, PutTimeout, RecvTimeout,
                SendTimeout, RecvBlock, RecvOther

LEMMA CalmNext ==
    ASSUME Inv, CalmInv, [Next]_vars
    PROVE  CalmInv'
<1> SUFFICES ASSUME calm'
             PROVE  InPhase'
    BY DEF CalmInv
<1>1. CASE \E op \in {RRQ, WRQ} : TftpClientStart(op)
    BY <1>1, CallIsCalm
<1>2. CASE TimesOutEarly \/ Disturb
    BY <1>2 DEF TimesOutEarly, Disturb, Fault
<1>3. ASSUME UNCHANGED network
      PROVE  InPhase
    BY <1>3 DEF network, CalmInv
<1>4. CASE TimesOut
    BY <1>3, <1>4, NobodyTimesOut DEF TimesOut
<1>5. CASE TftpServerStart
    <2>1. InPhase /\ s.state = "off"
        BY <1>3, <1>5 DEF TftpServerStart
    <2>2. GetOver
        BY <2>1 DEF InPhase, GetAsked, GetSent, GetAcked, GetDone, PutAsked, PutAcked,
                    PutSent, PutDone, PutOver, Serving, Storing
    <2> QED
        BY <1>5, <2>2, OverGoesOn
<1>6. CASE ClientReceives
    <2>1. InPhase /\ toClient # <<>>
        BY <1>3, <1>6 DEF ClientReceives
    <2>2. GetSent \/ PutAcked
        BY <2>1 DEF InPhase, GetAsked, GetAcked, GetDone, GetOver, PutAsked, PutSent,
                    PutDone, PutOver
    <2> QED
        BY <1>6, <2>2, GetSentGoesOn, PutAckedGoesOn
<1>7. CASE ServerReceives
    <2>1. InPhase /\ toServer # <<>>
        BY <1>3, <1>7 DEF ServerReceives
    <2>2. \/ GetAsked \/ GetAcked \/ GetDone \/ GetOver
          \/ PutAsked \/ PutSent \/ PutDone
        BY <2>1 DEF InPhase, GetSent, PutAcked, PutOver
    <2> QED
        BY <1>7, <2>2, AskedGoesOn, AckedGoesOn, SentGoesOn, OverGoesOn
<1>8. CASE UNCHANGED vars
    <2>1. InPhase /\ UNCHANGED <<c, got, cret, s, stored, sret, toServer, toClient>>
        BY <1>3, <1>8 DEF vars, client, server
    <2>2. /\ (GotAll <=> GotAll') /\ (SentAll <=> SentAll')
          /\ \A k : (Serving(k) <=> Serving(k)') /\ (Storing(k) <=> Storing(k)')
        BY <2>1 DEF GotAll, SentAll, Serving, Storing, IsFull
    <2> QED
        BY <2>1, <2>2 DEF InPhase, GetAsked, GetSent, GetAcked, GetDone, GetOver, PutAsked,
              PutAcked, PutSent, PutDone, PutOver, Serving, Storing, GotAll, SentAll, InOrder
<1> QED
    BY <1>1, <1>2, <1>4, <1>5, <1>6, <1>7, <1>8 DEF Next

\* Without faults no call fails, for a file of any length, and when everything has
\* been received the server has sent or stored the whole file: the repeated last
\* ACK of a get comes after the server's transfer has ended, and no turn is counted
\* on either side.
THEOREM LosslessCompletes == Spec => []LosslessSucceeds
<1>1. Inv /\ CalmInv => LosslessSucceeds
    <2> SUFFICES ASSUME Inv, CalmInv, calm
                 PROVE  /\ cret # "error"
                        /\ cret = "ok" /\ AllQuiet =>
                              sret = "ok" /\ (got = <<>> => Len(stored) = LastBlock
                                                 /\ stored[LastBlock] = LastBlock)
        BY DEF LosslessSucceeds
    <2>1. InPhase
        BY DEF CalmInv
    <2>2. c.state # "idle" => cret = "none"
        BY DEF Inv, ClientSide
    <2>3. cret # "error"
        BY <2>1, <2>2 DEF InPhase, GetAsked, GetSent, GetAcked, GetDone, GetOver, PutAsked,
              PutAcked, PutSent, PutDone, PutOver, GotAll, SentAll
    <2>4. ASSUME cret = "ok", AllQuiet
          PROVE  GetOver \/ PutOver
        BY <2>1, <2>2, <2>4, One DEF InPhase, GetAsked, GetSent, GetAcked, GetDone, PutAsked,
              PutAcked, PutSent, PutDone, Serving, Storing, AllQuiet
    <2>5. PutOver => stored[LastBlock] = LastBlock
        <3> SUFFICES ASSUME PutOver
                     PROVE  stored[LastBlock] = LastBlock
            OBVIOUS
        <3>1. stored \in Seq(0 .. LastBlock) /\ Len(stored) = LastBlock /\ InOrder(stored)
            BY DEF Inv, ServerSide, StoredInOrder, PutOver
        <3>2. LastBlock \in DOMAIN stored
            BY <3>1, TftpAssumption
        <3> QED
            BY <3>1, <3>2 DEF InOrder
    <2> QED
        BY <2>3, <2>4, <2>5 DEF GetOver, PutOver, GotAll
<1>2. Init => CalmInv
    BY DEF Init, CalmInv
<1>3. Inv /\ CalmInv /\ [Next]_vars => CalmInv'
    BY CalmNext
<1> QED
    BY <1>1, <1>2, <1>3, InvAlways, PTL DEF Spec
=============================================================================
