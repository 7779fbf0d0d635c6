----------------------------- MODULE DHCPServer -----------------------------
(***************************************************************************)
(* The DHCP server of the soft-AP: component/common/network/dhcp/dhcps.c.  *)
(*                                                                         *)
(* The server keeps ONE conversation: dhcp_server_state_machine (state),   *)
(* the address it last put in a reply (alloc), the address a client last   *)
(* asked for (request), plus a table of taken addresses: the bitmap        *)
(* ip_range (marked) and the owner of each pool address, client_mac (mac). *)
(* One action is one datagram handled by dhcps_receive_udp_packet_handler  *)
(* in the tcpip thread, or one call of the application's interface.        *)
(*                                                                         *)
(* An address is its last byte when it lies in the server's /24 network.   *)
(* Datagrams whose source port is not 68, that arrive on the station       *)
(* interface, cannot be coalesced or lack the magic cookie change nothing  *)
(* that is read afterwards, and are left out.                              *)
(***************************************************************************)
EXTENDS Integers, FiniteSetsExt

CONSTANTS
    Clients,            \* hardware addresses of the stations
    NoClient,           \* the all-zero hardware address
    DHCP_POOL_START,    \* 100 in dhcps.h
    DHCP_POOL_END,      \* 200 in dhcps.h
    WordBits,           \* 32, the width of one word of ip_range
    Pools,              \* ranges the application may set with ATPF
    Locals,             \* addresses the AP interface may have
    Requests,           \* addresses a station may ask for
    InformingClients    \* stations that also send DHCPINFORM

NoAddr  == -1           \* 0.0.0.0
Foreign == 256          \* any address of another network

Byte == 0 .. 255
Slots == DHCP_POOL_START .. DHCP_POOL_END
Addrs == Byte \cup {NoAddr, Foreign}

ASSUME ConstantsAssumption ==
    /\ NoClient \notin Clients
    /\ DHCP_POOL_START \in 1 .. 255 /\ DHCP_POOL_END \in 1 .. 255
    /\ DHCP_POOL_START <= DHCP_POOL_END
    /\ WordBits \in Nat \ {0}
    /\ Pools \subseteq Slots \X Slots
    /\ Locals \subseteq 1 .. 255
    /\ Requests \subseteq Byte \cup {Foreign}
    /\ InformingClients \subseteq Clients

VARIABLES
    state,      \* dhcp_server_state_machine
    alloc,      \* dhcps_allocated_client_address
    request,    \* client_request_ip
    marked,     \* ip_table.ip_range
    mac,        \* ip_table.client_mac
    pool,       \* dhcps_addr_pool_start/_end; <<>> while both are 0.0.0.0
    own,        \* dhcps_local_address and dhcps_local_gateway
    up,         \* dhcps_pcb # NULL
    sent,       \* history: the reply to the latest datagram
    lease       \* history: what each station was ACKed and has not given up

table == <<marked, mac, pool, own, up>>
vars == <<state, alloc, request, table, sent, lease>>

NoReply == [type |-> "none", to |-> NoClient, addr |-> NoAddr,
            asked |-> NoAddr]

Init ==
    /\ state = "IDLE"
    /\ alloc = NoAddr
    /\ request = NoAddr
    /\ marked = {}
    /\ mac = [i \in Slots |-> NoClient]
    /\ pool = <<>>
    /\ own = {}
    /\ up = FALSE
    /\ sent = NoReply
    /\ lease = [c \in Clients |-> NoAddr]

-----------------------------------------------------------------------------
(* The table lookups.                                                      *)

\* Mutant: the bit of address i is read one place too high.
CheckClientRequestIPShifted(c) ==
    LET seen == {i \in Slots : mac[i] = c /\ i + 1 \in marked}
    IN  {IF seen = {} THEN 0 ELSE Min(seen)}

\* The addresses check_client_request_ip can return for c, 0 when none: the
\* first slot that holds c's hardware address and whose bit is seen set.  The
\* bit of a multiple of WordBits is read with a shift by -1, undefined in C:
\* it may read either way.
CheckClientRequestIP(c) ==
    LET seen  == {i \in Slots : mac[i] = c /\ i % WordBits # 0 /\ i \in marked}
        maybe == {i \in Slots : mac[i] = c /\ i % WordBits = 0}
    IN  {i \in maybe : \A j \in seen : i < j}
            \cup {IF seen = {} THEN 0 ELSE Min(seen)}

\* check_client_direct_request_ip: the address asked for, when it is in the
\* pool of the header file and its slot is empty or c's; 0 otherwise.
CheckClientDirectRequestIP(r, c) ==
    IF r \in Slots /\ mac[r] \in {NoClient, c} THEN r ELSE 0

\* search_next_ip: the lowest unmarked address of the configured pool.
SearchNextIP ==
    LET free == {b \in pool[1] .. pool[2] : b \notin marked}
    IN  IF free = {} THEN 0 ELSE Min(free)

\* Mutant: the standing offer is acknowledged whatever address was asked for.
RequestVerdictAnyOffer(c, r) ==
    LET direct == CheckClientDirectRequestIP(r, c)
    IN  CASE state \in {"OFFER", "IDLE"} /\ direct > 0 ->
                [state |-> "ACK", alloc |-> direct]
          [] state = "OFFER" /\ direct = 0 /\ alloc \notin {NoAddr, 0} ->
                [state |-> "ACK", alloc |-> alloc]
          [] OTHER -> [state |-> "NAK", alloc |-> alloc]

\* dhcps_handle_state_machine_change on a REQUEST by c, client_request_ip = r.
RequestVerdict(c, r) ==
    LET direct == CheckClientDirectRequestIP(r, c)
    IN  CASE state \in {"OFFER", "IDLE"} /\ direct > 0 ->
                [state |-> "ACK", alloc |-> direct]
          [] state = "OFFER" /\ direct = 0
                /\ alloc \notin {NoAddr, 0} /\ alloc = r ->
                [state |-> "ACK", alloc |-> alloc]
          [] OTHER -> [state |-> "NAK", alloc |-> alloc]

-----------------------------------------------------------------------------
(* The replies.  An OFFER and an ACK need a fresh pbuf and are silently     *)
(* dropped when there is none; what follows the call is done all the same. *)

Reply(type, c, addr, asked) ==
    [type |-> type, to |-> c, addr |-> addr, asked |-> asked]

SendOffer(c, asked) ==
    \/ /\ sent' = NoReply
       /\ alloc' = alloc
    \/ \E known \in CheckClientRequestIP(c) :
           /\ alloc' = IF known # 0 THEN known ELSE SearchNextIP
           /\ sent' = Reply("OFFER", c, alloc', asked)

\* Mutant: the offer is not cleared once it is acknowledged.
AckAndRecordKeepsOffer(c, addr, asked) ==
    /\ \/ /\ sent' = NoReply
          /\ lease' = lease
       \/ /\ sent' = Reply("ACK", c, addr, asked)
          /\ lease' = [lease EXCEPT ![c] = addr]
    /\ marked' = marked \cup {addr}
    /\ mac' = [mac EXCEPT ![addr] = c]
    /\ request' = NoAddr
    /\ alloc' = addr
    /\ state' = "IDLE"
    /\ UNCHANGED <<pool, own, up>>

\* Mutant: the acknowledged address is not marked in the bitmap.
AckAndRecordUnmarked(c, addr, asked) ==
    /\ sent' = Reply("ACK", c, addr, asked)
    /\ lease' = [lease EXCEPT ![c] = addr]
    /\ mac' = [mac EXCEPT ![addr] = c]
    /\ request' = NoAddr
    /\ alloc' = NoAddr
    /\ state' = "IDLE"
    /\ UNCHANGED <<marked, pool, own, up>>

\* dhcps_send_ack, then mark_ip_in_table, save_client_addr and the resets.
AckAndRecord(c, addr, asked) ==
    /\ \/ /\ sent' = NoReply
          /\ lease' = lease
       \/ /\ sent' = Reply("ACK", c, addr, asked)
          /\ lease' = [lease EXCEPT ![c] = addr]
    /\ marked' = marked \cup {addr}
    /\ mac' = [mac EXCEPT ![addr] = c]
    /\ request' = NoAddr
    /\ alloc' = NoAddr
    /\ state' = "IDLE"
    /\ UNCHANGED <<pool, own, up>>

\* Mutant: the state is not reset after a NAK.
RefuseNoReset(c, asked) ==
    /\ sent' = Reply("NAK", c, alloc, asked)
    /\ lease' = [lease EXCEPT ![c] = NoAddr]
    /\ state' = "NAK"
    /\ UNCHANGED <<alloc, table>>

\* dhcps_send_nak: client_request_ip keeps the refused address.
Refuse(c, asked) ==
    /\ sent' = Reply("NAK", c, alloc, asked)
    /\ lease' = [lease EXCEPT ![c] = NoAddr]
    /\ state' = "IDLE"
    /\ UNCHANGED <<alloc, table>>

-----------------------------------------------------------------------------
(* One datagram of station c.  asked is option 50, NoAddr when absent; a   *)
(* DISCOVER, a DECLINE or a RELEASE gives up the lease the station held.   *)

\* client_request_ip once the options are read: option 50 is kept whatever the message.
Asked(asked) == IF asked # NoAddr THEN asked ELSE request

Discover(c, asked) ==
    /\ up
    /\ request' = Asked(asked)
    /\ state' = IF state = "IDLE" THEN "OFFER" ELSE state
    /\ lease' = [lease EXCEPT ![c] = NoAddr]
    /\ SendOffer(c, asked)
    /\ UNCHANGED table

\* A REQUEST that selects an offer or confirms a remembered address carries
\* option 50; one that renews a lease carries ciaddr, which is looked at only
\* when client_request_ip is 0.0.0.0.
Request(c, asked, ciaddr) ==
    /\ up
    /\ LET r == IF Asked(asked) = NoAddr THEN ciaddr ELSE Asked(asked)
           verdict == RequestVerdict(c, r)
       IN  \/ /\ verdict.state = "ACK"
              /\ AckAndRecord(c, verdict.alloc, asked)
           \/ /\ verdict.state = "NAK"
              /\ request' = r
              /\ Refuse(c, asked)

Select(c) == \E a \in Requests : Request(c, a, NoAddr)

Renew(c) == \E a \in Requests : Request(c, NoAddr, a)

Decline(c, asked) ==
    /\ up
    /\ request' = Asked(asked)
    /\ state' = "IDLE"
    /\ lease' = [lease EXCEPT ![c] = NoAddr]
    /\ sent' = NoReply
    /\ UNCHANGED <<alloc, table>>

Release(c, asked) ==
    /\ up
    /\ request' = Asked(asked)
    /\ state' = "IDLE"
    /\ lease' = [lease EXCEPT ![c] = NoAddr]
    /\ sent' = NoReply
    /\ UNCHANGED <<alloc, table>>

\* A message type the server does not know: the state is returned unchanged,
\* so in state OFFER it is answered as a DISCOVER is.
Inform(c, asked) ==
    /\ up
    /\ request' = Asked(asked)
    /\ IF state = "OFFER"
       THEN SendOffer(c, asked)
       ELSE sent' = NoReply /\ alloc' = alloc
    /\ UNCHANGED <<state, table, lease>>

-----------------------------------------------------------------------------
(* The application's interface.                                            *)

\* dhcps_init follows the start of the AP, which drops every station.  It
\* resets the table, not the conversation.  udp_new may fail half-way.
DhcpsInit(local, gateway) ==
    /\ mac' = [i \in Slots |-> NoClient]
    /\ lease' = [c \in Clients |-> NoAddr]
    /\ sent' = NoReply
    /\ \/ /\ up' = TRUE
          /\ own' = {local, gateway}
          /\ marked' = {local, gateway}
          /\ pool' = IF pool = <<>>
                     THEN <<DHCP_POOL_START, DHCP_POOL_END>> ELSE pool
       \/ /\ up' = FALSE
          /\ marked' = {}
          /\ UNCHANGED <<own, pool>>
    /\ UNCHANGED <<state, alloc, request>>

DhcpsDeinit ==
    /\ up
    /\ up' = FALSE
    /\ sent' = NoReply
    /\ UNCHANGED <<state, alloc, request, marked, mac, pool, own, lease>>

DhcpsSetAddrPool(p) ==
    /\ pool' = p
    /\ sent' = NoReply
    /\ UNCHANGED <<state, alloc, request, marked, mac, own, up, lease>>

-----------------------------------------------------------------------------
Next ==
    \/ \E c \in Clients :
           \/ \E a \in Requests \cup {NoAddr} : Discover(c, a)
           \/ Select(c)
           \/ Renew(c)
           \/ \E a \in Requests : Decline(c, a)
           \/ \E a \in Requests \cup {NoAddr} : Release(c, a)
    \/ \E c \in InformingClients, a \in Requests \cup {NoAddr} : Inform(c, a)
    \/ \E local, gateway \in Locals : DhcpsInit(local, gateway)
    \/ DhcpsDeinit
    \/ \E p \in Pools : DhcpsSetAddrPool(p)

Spec == Init /\ [][Next]_vars

-----------------------------------------------------------------------------
(* Properties.                                                             *)

\* The variables keep their types; ACK and NAK never outlive the callback
\* that entered them.
TypeOK ==
    /\ state \in {"IDLE", "OFFER"}
    /\ alloc \in {NoAddr, 0} \cup Slots
    /\ request \in Addrs
    /\ marked \subseteq 1 .. 255
    /\ mac \in [Slots -> Clients \cup {NoClient}]
    /\ pool \in Pools \cup {<<>>, <<DHCP_POOL_START, DHCP_POOL_END>>}
    /\ own \subseteq Locals
    /\ up \in BOOLEAN
    /\ sent \in [type : {"none", "OFFER", "ACK", "NAK"},
                 to : Clients \cup {NoClient},
                 addr : {NoAddr, 0} \cup Slots,
                 asked : Requests \cup {NoAddr}]
    /\ lease \in [Clients -> {NoAddr} \cup Slots]

\* No two stations hold the same acknowledged address, although the server
\* checks a REQUEST against one offer it shares between all of them.
NoDoubleLease ==
    \A c, d \in Clients : lease[c] # NoAddr /\ lease[c] = lease[d] => c = d

\* What NoDoubleLease rests on: an address a station holds is marked, recorded
\* for that station, and not the one in the standing offer.
LeaseRecorded ==
    \A c \in Clients :
        lease[c] # NoAddr =>
            /\ lease[c] \in marked
            /\ mac[lease[c]] = c
            /\ alloc # lease[c]

\* The inductive strengthening: the server listens only once it has a pool,
\* and an OFFER just sent is the standing offer.
TypeInv == TypeOK /\ (up => pool # <<>>)
LeaseInv == LeaseRecorded /\ (sent.type = "OFFER" => sent.addr = alloc)

\* An address a station holds is never offered to another one.
OfferNotInUse ==
    sent.type = "OFFER" =>
        \A d \in Clients \ {sent.to} : lease[d] = NoAddr \/ lease[d] # sent.addr

\* A station the table knows is offered an address recorded for it, never a
\* second one; the slots whose bit is read with an undefined shift excepted.
KnownStationKeepsAddress ==
    sent.type = "OFFER"
        /\ (\E i \in Slots : i % WordBits # 0 /\ mac[i] = sent.to)
    => sent.addr \in Slots /\ mac[sent.addr] = sent.to

\* A REQUEST that names an address in option 50 is acknowledged with that
\* address, whatever conversations with other stations came before.
AckGivesWhatWasAsked ==
    sent.type = "ACK" /\ sent.asked # NoAddr => sent.addr = sent.asked

\* The inductive strengthening of both: an address is recorded for a station
\* only together with its bit in the bitmap.
RecordedIsMarked == \A i \in Slots : mac[i] # NoClient => i \in marked
AnswerInv == RecordedIsMarked /\ KnownStationKeepsAddress /\ AckGivesWhatWasAsked
=============================================================================
