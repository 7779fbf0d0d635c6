--------------------------------- MODULE Tftp ---------------------------------
(***************************************************************************)
(* The TFTP client and the TFTP server of common/network/tftp, each on a   *)
(* device of its own, and the datagrams between them, which may be lost,   *)
(* repeated, overtaken or late.                                            *)
(*                                                                         *)
(* A step is what a side does from one return of select to the next call:  *)
(* both are single tasks.  The file has LastBlock blocks, the last of which is  *)
(* short; a DATA carries the block it names, or nothing.  Every call       *)
(* transfers that file; what a stray DATA of another file does is in the   *)
(* README.                                                                 *)
(***************************************************************************)
EXTENDS Integers, Sequences, SequencesExt

CONSTANTS
    LastBlock,           \* the number of the last block, short or empty
    RetryNum,       \* tftp_retry_num of both sides
    MaxCalls,       \* bound: calls while an earlier one is still served
    MaxFaults       \* bound: faults of the network while it is not quiet

ASSUME TftpAssumption ==
    /\ LastBlock \in Nat \ {0} /\ RetryNum \in Nat \ {0}
    /\ MaxCalls \in Nat \ {0} /\ MaxFaults \in Nat

VARIABLES
    c,          \* the client: the locals of tftp_client_start and below
    got,        \* what recv_handle of the client was given in this attempt
    cret,       \* what tftp_client_start returned last
    s,          \* the server: the locals of tftp_server_start and below
    stored,     \* what recv_handle of the server was given in this transfer
    sret,       \* how the last transfer of the server ended
    toServer,   \* datagrams on their way, the next one first
    toClient,
    faults,     \* faults so far
    calm        \* no fault since a call that found the server waiting

client == <<c, got, cret>>
server == <<s, stored, sret>>
network == <<faults, calm>>
vars == <<client, server, toServer, toClient, network>>

RRQ == "RRQ"
WRQ == "WRQ"

\* The block number of a request: two characters of the name of the file.
NameNo == -1

Chunk(k) == IF k \in 1 .. LastBlock THEN k ELSE 0
IsFull(data) == data \in 1 .. LastBlock - 1

Data(port, k, data) == [port |-> port, op |-> "DATA", no |-> k, data |-> data]
Ack(port, k) == [port |-> port, op |-> "ACK", no |-> k, data |-> 0]
Request(port, op) == [port |-> port, op |-> op, no |-> NameNo, data |-> 0]

Idle == [state |-> "idle", port |-> 0, op |-> RRQ, count |-> 0, tries |-> 0,
         retry |-> 0]
Listen == [state |-> "listen", port |-> 0, count |-> 0, tries |-> 0,
           full |-> TRUE, buf |-> Request(0, RRQ), known |-> FALSE]
Off == [Listen EXCEPT !.state = "off"]

Init ==
    /\ c = Idle /\ got = <<>> /\ cret = "none"
    /\ s = Off /\ stored = <<>> /\ sret = "none"
    /\ toServer = <<>> /\ toClient = <<>>
    /\ faults = 0 /\ calm = FALSE

-----------------------------------------------------------------------------
(* Sending.  rest is what is left on the way to the sender.                *)

\* A server that is off has no socket.
ClientSends(m) == toServer' = IF s.state = "off" THEN toServer
                              ELSE toServer \o m

\* The datagrams for a call reach its socket only.
ServerSends(m) ==
    toClient' = IF c.state # "idle" /\ c.port = m.port THEN Append(toClient, m)
                ELSE toClient

-----------------------------------------------------------------------------
(* tftp_client_start.                                                      *)

\* tftp_client_get begins with block 1, tftp_client_send with ACK 0.
Attempt(port, op, retry) ==
    [state |-> IF op = RRQ THEN "get" ELSE "put", port |-> port, op |-> op,
     count |-> IF op = RRQ THEN 1 ELSE 0, tries |-> 0, retry |-> retry]

AllQuiet == toServer = <<>> /\ toClient = <<>> /\ s.state \in {"off", "listen"}

\* A call has a socket, and thus a port, of its own.
TftpClientStart(op) ==
    LET port == IF AllQuiet THEN 1 ELSE c.port + 1
    IN  /\ c.state = "idle" /\ port <= MaxCalls
        /\ c' = Attempt(port, op, 0)
        /\ got' = <<>> /\ cret' = "none"
        /\ ClientSends(<<Request(port, op)>>)
        /\ calm' = (AllQuiet /\ s.state = "listen")
        /\ faults' = IF AllQuiet THEN 0 ELSE faults
        /\ UNCHANGED <<server, toClient>>

\* The call returns and closes its socket.
ClientReturns(result) ==
    /\ cret' = result
    /\ c' = [Idle EXCEPT !.port = c.port]
    /\ toClient' = <<>>

\* exit: -1, and RETRY sends the request again, from the same socket.  m is what
\* the attempt sent at last.
ClientRetries(m, rest) ==
    IF c.retry + 1 = RetryNum
    THEN ClientReturns("error") /\ ClientSends(m) /\ UNCHANGED got
    ELSE /\ c' = Attempt(c.port, c.op, c.retry + 1)
         /\ got' = <<>>
         /\ ClientSends(Append(m, Request(c.port, c.op)))
         /\ toClient' = rest
         /\ UNCHANGED cret

\* One of the tftp_retry_num turns for a block has gone.
ClientTried(m, rest) ==
    IF c.tries + 1 = RetryNum
    THEN ClientRetries(m, rest)
    ELSE /\ c' = [c EXCEPT !.tries = @ + 1]
         /\ ClientSends(m)
         /\ toClient' = rest
         /\ UNCHANGED <<got, cret>>

-----------------------------------------------------------------------------
(* tftp_client_get, after a datagram m.                                    *)

\* Mutant: the number of the block is not looked at.
IsNextAny(m) == m.op = "DATA"

IsNext(m) == m.op = "DATA" /\ m.no = c.count

\* The last block is acknowledged twice: on arrival, and before done.
GetBlock(m, rest) ==
    /\ c.state = "get" /\ IsNext(m)
    /\ got' = Append(got, m.data)
    /\ IF IsFull(m.data)
       THEN /\ c' = [c EXCEPT !.count = @ + 1, !.tries = 0]
            /\ ClientSends(<<Ack(c.port, c.count)>>)
            /\ toClient' = rest
            /\ UNCHANGED cret
       ELSE /\ ClientReturns("ok")
            /\ ClientSends(<<Ack(c.port, c.count), Ack(c.port, c.count)>>)

\* Any other DATA is answered with the ACK of the block before.
GetOther(m, rest) ==
    /\ c.state = "get" /\ ~IsNext(m)
    /\ IF m.op = "DATA"
       THEN ClientTried(<<Ack(c.port, c.count - 1)>>, rest)
       ELSE ClientRetries(<<>>, rest)

\* Mutant: a timeout is no turn.
GetTimeoutUncounted ==
    c.state = "get" /\ UNCHANGED <<client, toServer, toClient>>

GetTimeout ==
    c.state = "get" /\ ClientTried(<<>>, toClient)

-----------------------------------------------------------------------------
(* tftp_client_send.                                                       *)

\* done: the ACK of the last block is not waited for.
PutBlock(m, rest) ==
    /\ c.state = "put" /\ m.op = "ACK" /\ m.no = c.count
    /\ ClientSends(<<Data(c.port, c.count + 1, Chunk(c.count + 1))>>)
    /\ IF IsFull(Chunk(c.count + 1))
       THEN /\ c' = [c EXCEPT !.count = @ + 1, !.tries = 0]
            /\ toClient' = rest
            /\ UNCHANGED cret
       ELSE ClientReturns("ok")
    /\ UNCHANGED got

\* Any other ACK is answered with the header of the last DATA, without its data:
\* the call of send_handle is commented out.
PutOther(m, rest) ==
    /\ c.state = "put"
    /\ IF m.op = "ACK"
       THEN m.no # c.count /\ ClientTried(<<Data(c.port, c.count, 0)>>, rest)
       ELSE ClientRetries(<<>>, rest)

\* Without the ACK of the request the attempt ends; later nothing is resent.
PutTimeout ==
    /\ c.state = "put"
    /\ IF c.count = 0 THEN ClientRetries(<<>>, toClient)
       ELSE ClientTried(<<>>, toClient)

-----------------------------------------------------------------------------
(* tftp_server_start.                                                      *)

\* The application starts the server.
TftpServerStart ==
    /\ s.state = "off"
    /\ s' = Listen
    /\ UNCHANGED <<client, stored, sret, toServer, toClient, network>>

\* The transfer ends and the socket is opened anew (START_AGAIN): what it had
\* received is lost, what is still on its way is not.
ServerReturns(result, rest) ==
    /\ sret' = result
    /\ s' = Listen
    /\ \E k \in 1 .. Len(rest) + 1 : toServer' = SubSeq(rest, k, Len(rest))

\* One of the tftp_retry_num turns for a block has gone.
ServerTried(next, rest) ==
    IF s.tries + 1 = RetryNum
    THEN ServerReturns("error", rest)
    ELSE /\ s' = [next EXCEPT !.tries = @ + 1]
         /\ toServer' = rest
         /\ UNCHANGED sret

\* Mutant: the ACK of the request is the last one before block 0.
ServeWrqZero(m, rest) ==
    /\ s.state = "listen" /\ m.op = WRQ
    /\ s' = [Listen EXCEPT !.state = "recv", !.port = m.port, !.buf = m]
    /\ stored' = <<>> /\ sret' = "none"
    /\ toServer' = rest
    /\ ServerSends(Ack(m.port, 0))

\* data, the address of the sender, is not set before a datagram is received.
ServeWrq(m, rest) ==
    /\ s.state = "listen" /\ m.op = WRQ
    /\ s' = [Listen EXCEPT !.state = "recv", !.port = m.port, !.count = 1,
                           !.buf = m]
    /\ stored' = <<>> /\ sret' = "none"
    /\ toServer' = rest
    /\ ServerSends(Ack(m.port, 0))

ServeRrq(m, rest) ==
    /\ s.state = "listen" /\ m.op = RRQ
    /\ s' = [Listen EXCEPT !.state = "send", !.port = m.port, !.count = 1,
                           !.full = IsFull(Chunk(1)), !.buf = m]
    /\ stored' = <<>> /\ sret' = "none"
    /\ toServer' = rest
    /\ ServerSends(Data(m.port, 1, Chunk(1)))

\* "The type is not support": whatever else comes ends the server.
ServerExits(m) ==
    /\ s.state = "listen" /\ m.op \notin {RRQ, WRQ}
    /\ s' = Off
    /\ toServer' = <<>>
    /\ UNCHANGED <<stored, sret, toClient>>

-----------------------------------------------------------------------------
(* tftp_server_recv: m is in the buffer.                                   *)

\* Mutant: the number of the block is not looked at.
IsExpectedAny(m) == m.op = "DATA"

IsExpected(m) == m.op = "DATA" /\ m.no = s.count

RecvBlock(m, rest, known) ==
    /\ s.state = "recv" /\ IsExpected(m)
    /\ stored' = Append(stored, m.data)
    /\ ServerSends(Ack(s.port, s.count))
    /\ IF IsFull(m.data)
       THEN /\ s' = [s EXCEPT !.count = @ + 1, !.tries = 0, !.buf = m,
                              !.known = known]
            /\ toServer' = rest
            /\ UNCHANGED sret
       ELSE ServerReturns("ok", rest)

RecvOther(m, rest, known) ==
    /\ s.state = "recv" /\ ~IsExpected(m)
    /\ IF m.no # s.count THEN ServerSends(Ack(s.port, s.count - 1))
       ELSE UNCHANGED toClient
    /\ ServerTried([s EXCEPT !.buf = m, !.known = known], rest)
    /\ UNCHANGED stored

\* After a timeout it goes on with the datagram the buffer still holds, if data
\* has the address of the client; without one before it may have any.
RecvTimeout ==
    \/ RecvBlock(s.buf, toServer, s.known)
    \/ RecvOther(s.buf, toServer, s.known)
    \/ /\ s.state = "recv" /\ ~s.known
       /\ ServerTried(s, toServer)
       /\ UNCHANGED <<stored, toClient>>

-----------------------------------------------------------------------------
(* tftp_server_send.                                                       *)

\* Whether that was the last block is told by the length of what was sent last.
SendNext(m, rest) ==
    LET k == s.count + 1
    IN  /\ s.state = "send" /\ m.op = "ACK" /\ m.no = s.count
        /\ IF s.full
           THEN /\ ServerSends(Data(s.port, k, Chunk(k)))
                /\ s' = [s EXCEPT !.count = k, !.tries = 0,
                                  !.full = IsFull(Chunk(k)), !.buf = m]
                /\ toServer' = rest
                /\ UNCHANGED sret
           ELSE ServerReturns("ok", rest) /\ UNCHANGED toClient
        /\ UNCHANGED stored

\* Any other number is answered with the block before; before the first there is
\* none, and nothing is sent in its place.
SendAgain(m, rest) ==
    LET k == s.count - 1
    IN  /\ s.state = "send" /\ m.no # s.count
        /\ ServerSends(Data(s.port, k, Chunk(k)))
        /\ ServerTried([s EXCEPT !.full = IsFull(Chunk(k)), !.buf = m], rest)
        /\ UNCHANGED stored

SendIgnores(m, rest) ==
    /\ s.state = "send" /\ m.op # "ACK" /\ m.no = s.count
    /\ ServerTried([s EXCEPT !.buf = m], rest)
    /\ UNCHANGED <<stored, toClient>>

\* Nothing is sent.
SendTimeout ==
    /\ s.state = "send"
    /\ ServerTried(s, toServer)
    /\ UNCHANGED <<stored, toClient>>

-----------------------------------------------------------------------------
(* The network.                                                            *)

ClientReceives ==
    /\ toClient # <<>>
    /\ LET m == Head(toClient)
           rest == Tail(toClient)
       IN  \/ GetBlock(m, rest) \/ GetOther(m, rest)
           \/ PutBlock(m, rest) \/ PutOther(m, rest)
    /\ UNCHANGED <<server, network>>

ServerReceives ==
    /\ toServer # <<>>
    /\ LET m == Head(toServer)
           rest == Tail(toServer)
       IN  \/ ServeWrq(m, rest) \/ ServeRrq(m, rest) \/ ServerExits(m)
           \/ RecvBlock(m, rest, TRUE) \/ RecvOther(m, rest, TRUE)
           \/ SendNext(m, rest) \/ SendAgain(m, rest) \/ SendIgnores(m, rest)
    /\ UNCHANGED <<client, network>>

ClientTimeout == (GetTimeout \/ PutTimeout) /\ UNCHANGED server
ServerTimeout == (RecvTimeout \/ SendTimeout) /\ UNCHANGED client

\* Seconds go by only when nothing is on its way.
NothingOnItsWay == toServer = <<>> /\ toClient = <<>>

TimesOut ==
    /\ NothingOnItsWay
    /\ ClientTimeout \/ ServerTimeout
    /\ UNCHANGED network

Fault ==
    /\ faults < MaxFaults
    /\ faults' = faults + 1 /\ calm' = FALSE

\* A datagram is late.
TimesOutEarly ==
    /\ ~NothingOnItsWay
    /\ ClientTimeout \/ ServerTimeout
    /\ Fault

\* What may become of the datagrams q: one is lost, repeated, or overtaken by
\* those behind it.
Disturbed(q) ==
    UNION {{RemoveAt(q, k), Append(q, q[k]), Append(RemoveAt(q, k), q[k])} :
               k \in DOMAIN q}

Disturb ==
    /\ \/ toServer' \in Disturbed(toServer) /\ UNCHANGED toClient
       \/ toClient' \in Disturbed(toClient) /\ UNCHANGED toServer
    /\ Fault
    /\ UNCHANGED <<client, server>>

-----------------------------------------------------------------------------
Next ==
    \/ \E op \in {RRQ, WRQ} : TftpClientStart(op)
    \/ TftpServerStart
    \/ ClientReceives \/ ServerReceives
    \/ TimesOut \/ TimesOutEarly \/ Disturb

Spec == Init /\ [][Next]_vars

\* Both tasks run, datagrams that are not lost arrive, and time goes by.
FairSpec ==
    /\ Spec
    /\ WF_vars(ClientReceives) /\ WF_vars(ServerReceives)
    /\ WF_vars(NothingOnItsWay /\ ClientTimeout /\ UNCHANGED network)
    /\ WF_vars(NothingOnItsWay /\ ServerTimeout /\ UNCHANGED network)

-----------------------------------------------------------------------------
(* Properties.                                                             *)

Datagrams == [port : 0 .. MaxCalls, op : {RRQ, WRQ, "DATA", "ACK"},
              no : NameNo .. LastBlock + 1, data : 0 .. LastBlock]

\* The variables keep their types, and neither recv_handle is called more often
\* than the file has blocks.
TypeOK ==
    /\ c \in [state : {"idle", "get", "put"}, port : 0 .. MaxCalls,
              op : {RRQ, WRQ}, count : 0 .. LastBlock,
              tries : 0 .. RetryNum - 1, retry : 0 .. RetryNum - 1]
    /\ s \in [state : {"off", "listen", "recv", "send"}, port : 0 .. MaxCalls,
              count : 0 .. LastBlock + 1, tries : 0 .. RetryNum - 1,
              full : BOOLEAN, buf : Datagrams, known : BOOLEAN]
    /\ cret \in {"none", "ok", "error"} /\ sret \in {"none", "ok", "error"}
    /\ got \in Seq(0 .. LastBlock) /\ Len(got) <= LastBlock
    /\ stored \in Seq(0 .. LastBlock) /\ Len(stored) <= LastBlock
    /\ toServer \in Seq(Datagrams) /\ toClient \in Seq(Datagrams)
    /\ faults \in 0 .. MaxFaults /\ calm \in BOOLEAN

\* Whatever the network repeats, reorders or delays, and however often the
\* request is repeated, recv_handle gets the blocks of the file one after the
\* other, each once, so that the file that is written lacks at most its end; and
\* tftp_client_get returns 0 only when it has all of them.
BlocksInOrder ==
    /\ \A k \in DOMAIN got : got[k] = k
    /\ \A k \in DOMAIN stored :
          stored[k] = k \/ (stored[k] = 0 /\ k = Len(stored))
    /\ cret = "ok" /\ got # <<>> => Len(got) = LastBlock

\* Without faults the two understand each other: the call does not fail, and
\* when everything has been received the server has sent or stored the whole file.
LosslessSucceeds ==
    calm =>
        /\ cret # "error"
        /\ cret = "ok" /\ AllQuiet =>
              sret = "ok" /\ (got = <<>> => Len(stored) = LastBlock /\ stored[LastBlock] = LastBlock)

\* Calls and transfers end, though datagrams are lost.
TransfersEnd ==
    /\ c.state # "idle" ~> c.state = "idle"
    /\ s.state \in {"recv", "send"} ~> s.state \notin {"recv", "send"}
=============================================================================
