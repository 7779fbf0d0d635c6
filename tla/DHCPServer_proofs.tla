-------------------------- MODULE DHCPServer_proofs -------------------------
(***************************************************************************)
(* Proofs about DHCPServer for every set of stations, every pool and every *)
(* server address.  The safety proofs assume that no station sends a       *)
(* message type the server does not know (InformingClients = {}): with     *)
(* DHCPINFORM the code does break NoDoubleLease, as a run shows.           *)
(***************************************************************************)
EXTENDS DHCPServer, WellFoundedInduction, TLAPS

-----------------------------------------------------------------------------
(* Facts about the operators of the model.                                 *)

\* A non-empty set of naturals has a least element, and Min is it.
LEMMA MinOfNat ==
    ASSUME NEW S \in SUBSET Nat, S # {}
    PROVE  Min(S) \in S /\ \A y \in S : Min(S) <= y
<1> DEFINE R == {ss \in Nat \X Nat : ss[1] < ss[2]}
<1>0. R = OpToRel(<, Nat) BY DEF OpToRel
<1> HIDE DEF R
<1>1. IsWellFoundedOn(R, Nat) BY <1>0, NatLessThanWellFounded, Zenon
<1>2. PICK m \in S : \A y \in S : ~(<<y, m>> \in R)
  BY <1>1, WFMin
<1>3. \A y \in S : m <= y
  <2> SUFFICES ASSUME NEW y \in S, y < m PROVE FALSE
    OBVIOUS
  <2>1. <<y, m>> \in Nat \X Nat /\ <<y, m>>[1] < <<y, m>>[2]
    OBVIOUS
  <2>2. <<y, m>> \in R
    BY <2>1, Zenon DEF R
  <2>3. QED BY <2>2, <1>2
<1>4. QED BY <1>3 DEF Min

\* The pool of the header file holds proper host bytes only.
LEMMA SlotsAreHosts == Slots \subseteq 1 .. 255 /\ Slots \subseteq Nat \ {0}
  BY ConstantsAssumption DEF Slots

\* check_client_request_ip returns 0 or an address recorded for c.
LEMMA CheckClientRequestIPResult ==
    ASSUME NEW c \in Clients, NEW ip \in CheckClientRequestIP(c)
    PROVE  ip = 0 \/ (ip \in Slots /\ mac[ip] = c)
<1> DEFINE seen == {i \in Slots : mac[i] = c /\ i % WordBits # 0 /\ i \in marked}
<1>1. CASE \E i \in Slots : ip = i /\ mac[i] = c
  BY <1>1
<1>2. CASE ip = IF seen = {} THEN 0 ELSE Min(seen)
  <2>1. seen \in SUBSET Nat
    BY SlotsAreHosts
  <2>2. seen # {} => Min(seen) \in seen
    BY <2>1, MinOfNat
  <2>3. QED BY <1>2, <2>2
<1>3. QED BY <1>1, <1>2 DEF CheckClientRequestIP

\* search_next_ip returns 0 or an unmarked address of the configured pool.
LEMMA SearchNextIPResult ==
    ASSUME TypeOK, pool # <<>>
    PROVE  SearchNextIP = 0 \/ (SearchNextIP \in Slots /\ SearchNextIP \notin marked)
<1> DEFINE free == {b \in pool[1] .. pool[2] : b \notin marked}
<1>1. pool[1] \in Slots /\ pool[2] \in Slots
  BY ConstantsAssumption DEF TypeOK, Slots
<1>2. pool[1] .. pool[2] \subseteq Slots
  BY <1>1, ConstantsAssumption DEF Slots
<1>3. free \in SUBSET Nat
  BY <1>2, SlotsAreHosts
<1>4. free # {} => Min(free) \in free
  BY <1>3, MinOfNat
<1>5. QED BY <1>2, <1>4 DEF SearchNextIP

\* A verdict of ACK names an address of the table that is free, c's own, or
\* the one in the standing offer.
LEMMA RequestVerdictResult ==
    ASSUME TypeOK, NEW c \in Clients, NEW r \in Addrs
    PROVE  /\ RequestVerdict(c, r).state \in {"ACK", "NAK"}
           /\ RequestVerdict(c, r).state = "ACK" =>
                /\ RequestVerdict(c, r).alloc \in Slots
                /\ \/ mac[RequestVerdict(c, r).alloc] \in {NoClient, c}
                   \/ RequestVerdict(c, r).alloc = alloc
                /\ RequestVerdict(c, r).alloc = r
<1>1. CheckClientDirectRequestIP(r, c) > 0 =>
        /\ r \in Slots /\ mac[r] \in {NoClient, c}
        /\ CheckClientDirectRequestIP(r, c) = r
  BY DEF CheckClientDirectRequestIP
<1>2. alloc \notin {NoAddr, 0} => alloc \in Slots
  BY DEF TypeOK
<1>3. QED BY <1>1, <1>2 DEF RequestVerdict

-----------------------------------------------------------------------------
(* Type correctness.                                                       *)

LEMMA NoReplyType ==
    NoReply \in [type : {"none", "OFFER", "ACK", "NAK"},
                 to : Clients \cup {NoClient},
                 addr : {NoAddr, 0} \cup Slots,
                 asked : Requests \cup {NoAddr}]
  BY DEF NoReply

LEMMA InitType == Init => TypeInv
<1> SUFFICES ASSUME Init PROVE TypeInv
  OBVIOUS
<1>1. /\ mac \in [Slots -> Clients \cup {NoClient}]
      /\ lease \in [Clients -> {NoAddr} \cup Slots]
  BY DEF Init
<1>2. pool \in Pools \cup {<<>>, <<DHCP_POOL_START, DHCP_POOL_END>>}
  BY DEF Init
<1> QED BY <1>1, <1>2, NoReplyType DEF Init, TypeInv, TypeOK, Addrs

LEMMA SendOfferType ==
    ASSUME TypeInv, up, NEW c \in Clients, NEW asked \in Requests \cup {NoAddr},
           SendOffer(c, asked)
    PROVE  /\ alloc' \in {NoAddr, 0} \cup Slots
           /\ sent' \in [type : {"none", "OFFER", "ACK", "NAK"},
                         to : Clients \cup {NoClient},
                         addr : {NoAddr, 0} \cup Slots,
                         asked : Requests \cup {NoAddr}]
<1>1. CASE sent' = NoReply /\ alloc' = alloc
  BY <1>1 DEF TypeInv, TypeOK, NoReply
<1>2. CASE \E known \in CheckClientRequestIP(c) :
             /\ alloc' = IF known # 0 THEN known ELSE SearchNextIP
             /\ sent' = Reply("OFFER", c, alloc', asked)
  <2>1. alloc' \in {0} \cup Slots
    BY <1>2, CheckClientRequestIPResult, SearchNextIPResult DEF TypeInv
  <2>2. QED BY <1>2, <2>1 DEF Reply
<1>3. QED BY <1>1, <1>2 DEF SendOffer

LEMMA NextType == TypeInv /\ [Next]_vars => TypeInv'
<1> SUFFICES ASSUME TypeInv, [Next]_vars PROVE TypeInv'
  OBVIOUS
<1> USE DEF TypeInv
<1>1. ASSUME NEW c \in Clients, NEW a \in Requests \cup {NoAddr}, Discover(c, a)
      PROVE  TypeInv'
  <2>1. up /\ SendOffer(c, a)
    BY <1>1 DEF Discover
  <2>2. /\ alloc' \in {NoAddr, 0} \cup Slots
        /\ sent' \in [type : {"none", "OFFER", "ACK", "NAK"},
                      to : Clients \cup {NoClient},
                      addr : {NoAddr, 0} \cup Slots,
                      asked : Requests \cup {NoAddr}]
    BY <2>1, SendOfferType
  <2>3. Asked(a) \in Addrs
    BY ConstantsAssumption DEF Asked, TypeOK, Addrs
  <2>4. QED BY <1>1, <2>2, <2>3 DEF Discover, TypeOK, table
<1>2. ASSUME NEW c \in Clients,
             NEW asked \in Requests \cup {NoAddr}, NEW ci \in Requests \cup {NoAddr},
             Request(c, asked, ci)
      PROVE  TypeInv'
  <2> DEFINE r == IF Asked(asked) = NoAddr THEN ci ELSE Asked(asked)
             verdict == RequestVerdict(c, r)
  <2>1. r \in Addrs
    BY ConstantsAssumption DEF Asked, TypeOK, Addrs
  <2>2. CASE verdict.state = "ACK" /\ AckAndRecord(c, verdict.alloc, asked)
    <3>1. verdict.alloc \in Slots
      BY <2>1, <2>2, RequestVerdictResult
    <3> HIDE DEF verdict
    <3>2. /\ marked' \subseteq 1 .. 255
          /\ mac' \in [Slots -> Clients \cup {NoClient}]
      BY ZenonT(30), <2>2, <3>1, SlotsAreHosts DEF AckAndRecord, TypeOK
    <3>3. lease' \in [Clients -> {NoAddr} \cup Slots]
      BY <2>2, <3>1 DEF AckAndRecord, TypeOK
    <3>4. sent' \in [type : {"none", "OFFER", "ACK", "NAK"},
                    to : Clients \cup {NoClient},
                    addr : {NoAddr, 0} \cup Slots,
                    asked : Requests \cup {NoAddr}]
      BY <2>2, <3>1 DEF AckAndRecord, TypeOK, Reply, NoReply
    <3>5. QED BY <2>2, <3>2, <3>3, <3>4 DEF AckAndRecord, TypeOK, Addrs
  <2>3. CASE verdict.state = "NAK" /\ request' = r /\ Refuse(c, asked)
    <3> HIDE DEF r, verdict
    <3>1. QED BY <2>1, <2>3 DEF Refuse, TypeOK, table, Reply
  <2>4. QED BY <1>2, <2>2, <2>3 DEF Request
<1>3. ASSUME NEW c \in Clients, NEW a \in Requests, Decline(c, a)
      PROVE  TypeInv'
  <2>1. Asked(a) \in Addrs
    BY ConstantsAssumption DEF Asked, TypeOK, Addrs
  <2>2. QED BY <1>3, <2>1 DEF Decline, TypeOK, table, NoReply
<1>4. ASSUME NEW c \in Clients, NEW a \in Requests \cup {NoAddr}, Release(c, a)
      PROVE  TypeInv'
  <2>1. Asked(a) \in Addrs
    BY ConstantsAssumption DEF Asked, TypeOK, Addrs
  <2>2. QED BY <1>4, <2>1 DEF Release, TypeOK, table, NoReply
<1>5. ASSUME NEW c \in InformingClients, NEW a \in Requests \cup {NoAddr}, Inform(c, a)
      PROVE  TypeInv'
  <2>1. c \in Clients
    BY ConstantsAssumption
  <2>2. Asked(a) \in Addrs
    BY ConstantsAssumption DEF Asked, TypeOK, Addrs
  <2>3. CASE state = "OFFER"
    BY <1>5, <2>1, <2>2, <2>3, SendOfferType DEF Inform, TypeOK, table
  <2>4. CASE state # "OFFER"
    BY <1>5, <2>2, <2>4 DEF Inform, TypeOK, table, NoReply
  <2>5. QED BY <2>3, <2>4
<1>6. ASSUME NEW l \in Locals, NEW g \in Locals, DhcpsInit(l, g)
      PROVE  TypeInv'
  <2>1. pool' \in Pools \cup {<<>>, <<DHCP_POOL_START, DHCP_POOL_END>>}
    BY <1>6 DEF DhcpsInit, TypeOK
  <2>2. up' => pool' # <<>>
    BY <1>6 DEF DhcpsInit
  <2>3. /\ mac' \in [Slots -> Clients \cup {NoClient}]
        /\ lease' \in [Clients -> {NoAddr} \cup Slots]
        /\ sent' = NoReply
    BY <1>6 DEF DhcpsInit
  <2>4. own' \subseteq Locals /\ marked' \subseteq 1 .. 255
    <3>1. \/ own' = {l, g} /\ marked' = {l, g}
          \/ own' = own /\ marked' = {}
      BY <1>6, Zenon DEF DhcpsInit
    <3>2. own \subseteq Locals
      BY DEF TypeOK
    <3>3. {l, g} \subseteq Locals /\ Locals \subseteq 1 .. 255
      BY ConstantsAssumption
    <3>4. QED BY <3>1, <3>2, <3>3
  <2>5. up' \in BOOLEAN /\ UNCHANGED <<state, alloc, request>>
    BY <1>6, Zenon DEF DhcpsInit
  <2>6. QED BY <2>1, <2>2, <2>3, <2>4, <2>5, NoReplyType DEF TypeOK
<1>7. CASE DhcpsDeinit
  BY <1>7 DEF DhcpsDeinit, TypeOK, NoReply
<1>8. ASSUME NEW p \in Pools, DhcpsSetAddrPool(p)
      PROVE  TypeInv'
  BY <1>8, ConstantsAssumption DEF DhcpsSetAddrPool, TypeOK, NoReply
<1>9. CASE UNCHANGED vars
  BY <1>9 DEF vars, table, TypeOK
<1>10. QED
  BY <1>1, <1>2, <1>3, <1>4, <1>5, <1>6, <1>7, <1>8, <1>9 DEF Next, Select, Renew

\* The variables keep their types, ACK and NAK never outlive a callback.
THEOREM TypeCorrect == Spec => []TypeOK
<1>1. TypeInv => TypeOK
  BY DEF TypeInv
<1>2. QED BY InitType, NextType, <1>1, PTL DEF Spec

-----------------------------------------------------------------------------
(* No double lease.                                                        *)

LEMMA InitLease == Init => LeaseInv
  BY DEF Init, LeaseInv, LeaseRecorded, NoReply

\* An offer never names an address another station holds.
LEMMA SendOfferLease ==
    ASSUME TypeInv, LeaseInv, up, NEW c \in Clients, NEW asked, SendOffer(c, asked)
    PROVE  /\ \A d \in Clients \ {c} : lease[d] # NoAddr => alloc' # lease[d]
           /\ sent'.type = "OFFER" => sent'.addr = alloc'
<1>1. CASE sent' = NoReply /\ alloc' = alloc
  BY <1>1 DEF LeaseInv, LeaseRecorded, NoReply
<1>2. CASE \E known \in CheckClientRequestIP(c) :
             /\ alloc' = IF known # 0 THEN known ELSE SearchNextIP
             /\ sent' = Reply("OFFER", c, alloc', asked)
  <2>1. sent'.addr = alloc'
    BY <1>2 DEF Reply
  <2>2. \/ alloc' = 0
        \/ alloc' \in Slots /\ mac[alloc'] = c
        \/ alloc' \in Slots /\ alloc' \notin marked
    BY <1>2, CheckClientRequestIPResult, SearchNextIPResult DEF TypeInv
  <2>3. \A d \in Clients : lease[d] # NoAddr => lease[d] # 0
    BY SlotsAreHosts DEF TypeInv, TypeOK, NoAddr
  <2>4. QED BY <2>1, <2>2, <2>3 DEF LeaseInv, LeaseRecorded
<1>3. QED BY <1>1, <1>2 DEF SendOffer

\* Recording an acknowledged address takes it from no station that holds it.
LEMMA AckLease ==
    ASSUME TypeInv, LeaseInv, NEW c \in Clients, NEW a \in Slots,
           NEW asked, mac[a] \in {NoClient, c} \/ a = alloc,
           AckAndRecord(c, a, asked)
    PROVE  LeaseInv'
<1>1. sent'.type # "OFFER"
  BY DEF AckAndRecord, Reply, NoReply
<1>2. a # NoAddr
  BY SlotsAreHosts DEF NoAddr
<1>3. ASSUME NEW d \in Clients, lease'[d] # NoAddr
      PROVE  lease'[d] \in marked' /\ mac'[lease'[d]] = d /\ alloc' # lease'[d]
  <2>1. CASE lease'[d] = a /\ d = c
    BY <1>2, <2>1 DEF AckAndRecord, TypeInv, TypeOK
  <2>2. CASE lease'[d] = lease[d]
    <3>1. /\ lease[d] \in Slots /\ lease[d] \in marked
          /\ mac[lease[d]] = d /\ alloc # lease[d]
      BY <1>3, <2>2 DEF LeaseInv, LeaseRecorded, TypeInv, TypeOK
    <3>2. lease[d] = a => d = c
      BY <3>1, ConstantsAssumption
    <3>3. mac'[lease[d]] = d
      BY <3>1, <3>2 DEF AckAndRecord, TypeInv, TypeOK
    <3>4. QED BY <1>3, <2>2, <3>1, <3>3 DEF AckAndRecord
  <2>3. QED BY <2>1, <2>2 DEF AckAndRecord, TypeInv, TypeOK
<1>4. QED BY <1>1, <1>3 DEF LeaseInv, LeaseRecorded

LEMMA NextLease ==
    ASSUME InformingClients = {}, TypeInv, LeaseInv, [Next]_vars
    PROVE  LeaseInv'
<1>1. ASSUME NEW c \in Clients, NEW a \in Requests \cup {NoAddr}, Discover(c, a)
      PROVE  LeaseInv'
  <2>1. up /\ SendOffer(c, a)
    BY <1>1 DEF Discover
  <2>2. lease' = [lease EXCEPT ![c] = NoAddr] /\ UNCHANGED <<marked, mac>>
    BY <1>1 DEF Discover, table
  <2>3. QED BY <2>1, <2>2, SendOfferLease DEF LeaseInv, LeaseRecorded, TypeInv, TypeOK
<1>2. ASSUME NEW c \in Clients,
             NEW asked \in Requests \cup {NoAddr}, NEW ci \in Requests \cup {NoAddr},
             Request(c, asked, ci)
      PROVE  LeaseInv'
  <2> DEFINE r == IF Asked(asked) = NoAddr THEN ci ELSE Asked(asked)
             verdict == RequestVerdict(c, r)
  <2>1. r \in Addrs
    BY ConstantsAssumption DEF Asked, TypeInv, TypeOK, Addrs
  <2>2. CASE verdict.state = "ACK" /\ AckAndRecord(c, verdict.alloc, asked)
    <3>1. /\ verdict.alloc \in Slots
          /\ mac[verdict.alloc] \in {NoClient, c} \/ verdict.alloc = alloc
      BY <2>1, <2>2, RequestVerdictResult DEF TypeInv
    <3> HIDE DEF verdict
    <3>2. QED BY <2>2, <3>1, AckLease
  <2>3. CASE Refuse(c, asked)
    BY <2>3 DEF Refuse, Reply, table, LeaseInv, LeaseRecorded, TypeInv, TypeOK
  <2>4. QED BY <1>2, <2>2, <2>3 DEF Request
<1>3. ASSUME NEW c \in Clients, NEW a \in Requests, Decline(c, a)
      PROVE  LeaseInv'
  BY <1>3 DEF Decline, NoReply, table, LeaseInv, LeaseRecorded, TypeInv, TypeOK
<1>4. ASSUME NEW c \in Clients, NEW a \in Requests \cup {NoAddr}, Release(c, a)
      PROVE  LeaseInv'
  BY <1>4 DEF Release, NoReply, table, LeaseInv, LeaseRecorded, TypeInv, TypeOK
<1>5. ASSUME NEW l \in Locals, NEW g \in Locals, DhcpsInit(l, g)
      PROVE  LeaseInv'
  BY <1>5 DEF DhcpsInit, NoReply, LeaseInv, LeaseRecorded
<1>6. CASE DhcpsDeinit
  BY <1>6 DEF DhcpsDeinit, NoReply, LeaseInv, LeaseRecorded
<1>7. ASSUME NEW p \in Pools, DhcpsSetAddrPool(p)
      PROVE  LeaseInv'
  BY <1>7 DEF DhcpsSetAddrPool, NoReply, LeaseInv, LeaseRecorded
<1>8. CASE UNCHANGED vars
  BY <1>8 DEF vars, table, LeaseInv, LeaseRecorded
<1>9. QED
  BY <1>1, <1>2, <1>3, <1>4, <1>5, <1>6, <1>7, <1>8 DEF Next, Select, Renew

LEMMA LeaseInvImplies == TypeInv /\ LeaseInv => NoDoubleLease /\ OfferNotInUse
  BY DEF LeaseInv, LeaseRecorded, NoDoubleLease, OfferNotInUse, TypeInv, TypeOK

\* Two stations never hold the same acknowledged address, and no address a
\* station holds is offered to another, as long as every station keeps to the
\* message types the server knows.
THEOREM LeasesExclusive ==
    ASSUME InformingClients = {}
    PROVE  Spec => [](NoDoubleLease /\ OfferNotInUse)
<1>1. Init => TypeInv /\ LeaseInv
  BY InitType, InitLease
<1>2. TypeInv /\ LeaseInv /\ [Next]_vars => (TypeInv /\ LeaseInv)'
  BY NextType, NextLease
<1>3. QED BY <1>1, <1>2, LeaseInvImplies, PTL DEF Spec

\* An address a station holds is never offered to another one, under the same
\* hypothesis.
THEOREM OffersExclusive ==
    ASSUME InformingClients = {}
    PROVE  Spec => []OfferNotInUse
<1>1. Spec => [](NoDoubleLease /\ OfferNotInUse)
  BY LeasesExclusive
<1>2. QED BY <1>1, PTL

-----------------------------------------------------------------------------
(* What a known station is offered and a REQUEST is answered with.  Here    *)
(* the stations may send DHCPINFORM.                                        *)

LEMMA InitAnswer == Init => AnswerInv
  BY ConstantsAssumption DEF Init, AnswerInv, RecordedIsMarked, NoReply,
     KnownStationKeepsAddress, AckGivesWhatWasAsked

\* check_client_request_ip finds the recorded address of a station the table
\* knows, unless its only slots are those read with an undefined shift.
LEMMA KnownStationFound ==
    ASSUME RecordedIsMarked, NEW c \in Clients, NEW ip \in CheckClientRequestIP(c),
           NEW i \in Slots, i % WordBits # 0, mac[i] = c
    PROVE  ip \in Slots /\ mac[ip] = c
<1> DEFINE seen == {j \in Slots : mac[j] = c /\ j % WordBits # 0 /\ j \in marked}
<1>1. i \in seen
  BY ConstantsAssumption DEF RecordedIsMarked
<1>2. CASE \E j \in Slots : ip = j /\ mac[j] = c
  BY <1>2
<1>3. CASE ip = IF seen = {} THEN 0 ELSE Min(seen)
  <2>1. seen \in SUBSET Nat
    BY SlotsAreHosts
  <2>2. Min(seen) \in seen
    BY <1>1, <2>1, MinOfNat
  <2>3. QED BY <1>1, <1>3, <2>2
<1>4. QED BY <1>2, <1>3 DEF CheckClientRequestIP

\* An OFFER to a station the table knows names an address recorded for it.
LEMMA SendOfferAnswer ==
    ASSUME AnswerInv, NEW c \in Clients, NEW asked, SendOffer(c, asked),
           UNCHANGED <<marked, mac>>
    PROVE  AnswerInv'
<1>1. RecordedIsMarked'
  BY DEF AnswerInv, RecordedIsMarked
<1>2. CASE sent' = NoReply
  BY <1>1, <1>2 DEF AnswerInv, NoReply, KnownStationKeepsAddress, AckGivesWhatWasAsked
<1>3. CASE \E known \in CheckClientRequestIP(c) :
             /\ alloc' = IF known # 0 THEN known ELSE SearchNextIP
             /\ sent' = Reply("OFFER", c, alloc', asked)
  <2>1. PICK known \in CheckClientRequestIP(c) :
             /\ alloc' = IF known # 0 THEN known ELSE SearchNextIP
             /\ sent' = Reply("OFFER", c, alloc', asked)
    BY <1>3
  <2>2. sent'.type = "OFFER" /\ sent'.to = c /\ sent'.addr = alloc'
    BY <2>1 DEF Reply
  <2>3. ASSUME NEW i \in Slots, i % WordBits # 0, mac[i] = c
        PROVE  alloc' \in Slots /\ mac[alloc'] = c
    <3>1. known \in Slots /\ mac[known] = c
      BY <2>3, KnownStationFound DEF AnswerInv
    <3>2. known # 0
      BY <3>1, SlotsAreHosts
    <3>3. QED BY <2>1, <3>1, <3>2
  <2>4. KnownStationKeepsAddress'
    BY <2>2, <2>3 DEF KnownStationKeepsAddress
  <2>5. AckGivesWhatWasAsked'
    BY <2>2 DEF AckGivesWhatWasAsked
  <2>6. QED BY <1>1, <2>4, <2>5 DEF AnswerInv
<1>4. QED BY <1>2, <1>3 DEF SendOffer

\* A reply that is no OFFER and no ACK, while the table stands, keeps both.
LEMMA QuietAnswer ==
    ASSUME RecordedIsMarked, UNCHANGED <<marked, mac>>,
           sent'.type \notin {"OFFER", "ACK"}
    PROVE  AnswerInv'
  BY DEF AnswerInv, RecordedIsMarked, KnownStationKeepsAddress, AckGivesWhatWasAsked

LEMMA NextAnswer ==
    ASSUME TypeInv, AnswerInv, [Next]_vars
    PROVE  AnswerInv'
<1>1. RecordedIsMarked
  BY DEF AnswerInv
<1>2. ASSUME NEW c \in Clients, NEW a \in Requests \cup {NoAddr}, Discover(c, a)
      PROVE  AnswerInv'
  BY <1>2, SendOfferAnswer DEF Discover, table
<1>3. ASSUME NEW c \in Clients,
             NEW asked \in Requests \cup {NoAddr}, NEW ci \in Requests \cup {NoAddr},
             Request(c, asked, ci)
      PROVE  AnswerInv'
  <2> DEFINE r == IF Asked(asked) = NoAddr THEN ci ELSE Asked(asked)
             verdict == RequestVerdict(c, r)
  <2>1. r \in Addrs
    BY ConstantsAssumption DEF Asked, TypeInv, TypeOK, Addrs
  <2>2. asked # NoAddr => r = asked
    BY DEF Asked
  <2>3. CASE verdict.state = "ACK" /\ AckAndRecord(c, verdict.alloc, asked)
    <3>1. verdict.alloc \in Slots /\ verdict.alloc = r
      BY <2>1, <2>3, RequestVerdictResult DEF TypeInv
    <3> HIDE DEF r, verdict
    <3>2. RecordedIsMarked'
      BY <1>1, <2>3, <3>1 DEF AckAndRecord, RecordedIsMarked, TypeInv, TypeOK
    <3>3. CASE sent' = NoReply
      BY <3>2, <3>3 DEF AnswerInv, NoReply, KnownStationKeepsAddress,
         AckGivesWhatWasAsked
    <3>4. CASE sent' = Reply("ACK", c, verdict.alloc, asked)
      BY <3>1, <3>2, <3>4, <2>2 DEF AnswerInv, Reply, KnownStationKeepsAddress,
         AckGivesWhatWasAsked
    <3>5. QED BY <2>3, <3>3, <3>4 DEF AckAndRecord
  <2>4. CASE Refuse(c, asked)
    BY <1>1, <2>4, QuietAnswer DEF Refuse, Reply, table
  <2>5. QED BY <1>3, <2>3, <2>4 DEF Request
<1>4. ASSUME NEW c \in Clients, NEW a \in Requests, Decline(c, a)
      PROVE  AnswerInv'
  BY <1>1, <1>4, QuietAnswer DEF Decline, NoReply, table
<1>5. ASSUME NEW c \in Clients, NEW a \in Requests \cup {NoAddr}, Release(c, a)
      PROVE  AnswerInv'
  BY <1>1, <1>5, QuietAnswer DEF Release, NoReply, table
<1>6. ASSUME NEW c \in InformingClients, NEW a \in Requests \cup {NoAddr}, Inform(c, a)
      PROVE  AnswerInv'
  <2>1. c \in Clients
    BY ConstantsAssumption
  <2>2. CASE state = "OFFER"
    BY <1>6, <2>1, <2>2, SendOfferAnswer DEF Inform, table
  <2>3. CASE state # "OFFER"
    BY <1>1, <1>6, <2>3, QuietAnswer DEF Inform, NoReply, table
  <2>4. QED BY <2>2, <2>3
<1>7. ASSUME NEW l \in Locals, NEW g \in Locals, DhcpsInit(l, g)
      PROVE  AnswerInv'
  BY <1>7 DEF DhcpsInit, NoReply, AnswerInv, RecordedIsMarked,
     KnownStationKeepsAddress, AckGivesWhatWasAsked
<1>8. CASE DhcpsDeinit
  BY <1>1, <1>8, QuietAnswer DEF DhcpsDeinit, NoReply
<1>9. ASSUME NEW p \in Pools, DhcpsSetAddrPool(p)
      PROVE  AnswerInv'
  BY <1>1, <1>9, QuietAnswer DEF DhcpsSetAddrPool, NoReply
<1>10. CASE UNCHANGED vars
  BY <1>10 DEF vars, table, AnswerInv, RecordedIsMarked,
     KnownStationKeepsAddress, AckGivesWhatWasAsked
<1>11. QED
  BY <1>2, <1>3, <1>4, <1>5, <1>6, <1>7, <1>8, <1>9, <1>10 DEF Next, Select, Renew

LEMMA AnswersSound == Spec => []AnswerInv
<1>1. Init => TypeInv /\ AnswerInv
  BY InitType, InitAnswer
<1>2. TypeInv /\ AnswerInv /\ [Next]_vars => (TypeInv /\ AnswerInv)'
  BY NextType, NextAnswer
<1>3. QED BY <1>1, <1>2, PTL DEF Spec

\* A station the table knows is offered an address recorded for it, unless its
\* only record is a slot whose bit is read with an undefined shift.
THEOREM KnownStationKeeps == Spec => []KnownStationKeepsAddress
  BY AnswersSound, PTL DEF AnswerInv

\* A REQUEST that names an address is acknowledged with that address.
THEOREM AckIsWhatWasAsked == Spec => []AckGivesWhatWasAsked
  BY AnswersSound, PTL DEF AnswerInv
=============================================================================
