-------------------------- MODULE WifiConnect_proofs --------------------------
(***************************************************************************)
(* Proofs about WifiConnect.  For any number of callers and with or        *)
(* without the worker thread: types, the life of join_result and of        *)
(* disconnect_sema.  When the events are dispatched by the driver itself:  *)
(* rtw_join_status says CONNECTING only while a call is in progress; and   *)
(* for a single caller, what wakes it and what its error names.            *)
(***************************************************************************)
EXTENDS WifiConnect, TLAPS

\* Where join_user_data may be a call's own.
Attached(c) ==
    \/ pc[c] \in {"wait", "check", "freeSema", "detach"}
    \/ pc[c] = "freeResult" /\ call[c].bssid

Types ==
    /\ pc \in [Callers -> Labels]
    /\ call \in [Callers -> [bssid : BOOLEAN, open : BOOLEAN, user : BOOLEAN]]
    /\ joinUserData \in Callers \cup {NoCaller}

\* Of all the calls only c takes a step.
Moves(c) ==
    /\ pc' \in [Callers -> Labels]
    /\ pc' = [pc EXCEPT ![c] = pc'[c]]

AttachedInv == joinUserData \in Callers => Attached(joinUserData)

ListeningInv ==
    "HANDSHAKE_DONE" \in registered => \E c \in Callers : pc[c] \in Listening

\* ConnectingMeansCall is not inductive alone: the handlers set the flag too,
\* if they are registered (ListeningInv) or have a join_result (AttachedInv).
IInv ==
    /\ Types
    /\ queue = <<>>
    /\ AttachedInv
    /\ ListeningInv
    /\ ConnectingMeansCall

-----------------------------------------------------------------------------
(* Lemmas about the steps of one caller.                                   *)

\* An event that sets CONNECTING finds a call in progress.
LEMMA IndicateFindsCall ==
    ASSUME ~Threaded, IInv, NEW event \in Events,
           Indicate(event, registered), "CONNECTING" \in status'
    PROVE  \E c \in Callers : InProgress(c)
<1>1. CASE status' = status
    BY <1>1 DEF IInv, ConnectingMeansCall
<1>2. CASE joinUserData # NoCaller
    <2>1. joinUserData \in Callers /\ Attached(joinUserData)
        BY <1>2 DEF IInv, Types, AttachedInv
    <2> QED
        BY <2>1 DEF Attached, InProgress
<1>3. CASE event = "HANDSHAKE_DONE" /\ event \in registered
    <2>1. PICK c \in Callers : pc[c] \in Listening
        BY <1>3 DEF IInv, ListeningInv
    <2> QED
        BY <2>1 DEF Listening, InProgress
<1>4. event \notin registered \/ (event # "HANDSHAKE_DONE" /\ joinUserData = NoCaller)
      => status' = status
    BY DEF Indicate, Handle, NoNetworkHdl, ConnectedHdl, DisconnHdl,
           HandshakeDoneHdl, Waiting, dispatched, handled, Events
<1> QED
    BY <1>1, <1>2, <1>3, <1>4

\* The queue of the worker thread stays empty.
LEMMA IndicateQueue ==
    ASSUME ~Threaded, queue = <<>>, NEW event, Indicate(event, registered)
    PROVE  queue' = <<>>
BY DEF Indicate, dispatched, handled

\* A call that goes on to, or stays at, a label of its join.
LEMMA Advance ==
    ASSUME IInv, NEW c \in Callers, Moves(c), pc'[c] \notin Outside,
           "HANDSHAKE_DONE" \in registered' =>
               \/ pc'[c] \in Listening
               \/ "HANDSHAKE_DONE" \in registered /\ pc[c] \notin Listening
    PROVE  ListeningInv' /\ ConnectingMeansCall'
<1>1. ConnectingMeansCall'
    BY DEF ConnectingMeansCall, InProgress, Outside
<1>2. ListeningInv'
    <2>1. SUFFICES ASSUME "HANDSHAKE_DONE" \in registered'
                   PROVE  \E d \in Callers : pc'[d] \in Listening
        BY DEF ListeningInv
    <2>2. CASE pc'[c] \in Listening
        BY <2>2
    <2>3. CASE "HANDSHAKE_DONE" \in registered /\ pc[c] \notin Listening
        <3>1. PICK d \in Callers : pc[d] \in Listening
            BY <2>3 DEF IInv, ListeningInv
        <3>2. pc'[d] = pc[d]
            BY <2>3, <3>1 DEF Moves, IInv, Types
        <3> QED
            BY <3>1, <3>2
    <2> QED
        BY <2>1, <2>2, <2>3
<1> QED
    BY <1>1, <1>2

\* A call before its join, and one that ends it: nothing hangs on it.
LEMMA Aside ==
    ASSUME IInv, NEW c \in Callers, Moves(c), pc[c] \notin Listening,
           "HANDSHAKE_DONE" \in registered' => "HANDSHAKE_DONE" \in registered,
           \/ "CONNECTING" \notin status'
           \/ /\ pc[c] \in Outside
              /\ "CONNECTING" \in status' => \E d \in Callers : InProgress(d)
    PROVE  ListeningInv' /\ ConnectingMeansCall'
<1>1. \A d \in Callers \ {c} : pc'[d] = pc[d]
    BY DEF Moves, IInv, Types
<1>2. ListeningInv'
    <2>1. SUFFICES ASSUME "HANDSHAKE_DONE" \in registered'
                   PROVE  \E d \in Callers : pc'[d] \in Listening
        BY DEF ListeningInv
    <2>2. PICK d \in Callers : pc[d] \in Listening
        BY <2>1 DEF IInv, ListeningInv
    <2> QED
        BY <1>1, <2>2
<1>3. ConnectingMeansCall'
    <2>1. SUFFICES ASSUME "CONNECTING" \in status'
                   PROVE  \E d \in Callers : InProgress(d)'
        BY DEF ConnectingMeansCall
    <2>2. PICK d \in Callers : InProgress(d)
        BY <2>1
    <2>3. pc'[d] = pc[d]
        BY <1>1, <2>1, <2>2 DEF InProgress, Outside
    <2> QED
        BY <2>2, <2>3 DEF InProgress
<1> QED
    BY <1>2, <1>3

\* join_user_data is left alone, and the call it belongs to stays attached.
LEMMA StaysAttached ==
    ASSUME IInv, NEW c \in Callers, Moves(c),
           \A d \in Callers \ {c} : call'[d] = call[d],
           joinUserData' = joinUserData, Attached(c) => Attached(c)'
    PROVE  AttachedInv'
<1>1. SUFFICES ASSUME joinUserData \in Callers
               PROVE  Attached(joinUserData)'
    BY DEF AttachedInv
<1>2. Attached(joinUserData)
    BY <1>1 DEF IInv, AttachedInv
<1>3. CASE joinUserData = c
    BY <1>2, <1>3
<1>4. CASE joinUserData # c
    <2>1. pc'[joinUserData] = pc[joinUserData]
        BY <1>1, <1>4 DEF IInv, Types, Moves
    <2>2. call'[joinUserData] = call[joinUserData]
        BY <1>1, <1>4
    <2> QED
        BY <1>2, <2>1, <2>2 DEF Attached
<1> QED
    BY <1>3, <1>4

\* The driver and the tasks beside the calls.
LEMMA Beside ==
    ASSUME IInv, UNCHANGED <<caller, joinUserData, registered>>, queue' = <<>>,
           "CONNECTING" \in status' => \E d \in Callers : InProgress(d)
    PROVE  IInv'
<1>1. Types' /\ AttachedInv' /\ ListeningInv'
    BY DEF IInv, Types, AttachedInv, Attached, ListeningInv, caller
<1>2. ConnectingMeansCall'
    BY DEF ConnectingMeansCall, InProgress, caller
<1> QED
    BY <1>1, <1>2 DEF IInv

-----------------------------------------------------------------------------
(* The steps of a call.                                                    *)

\* Before its join, and where it returns.
LEMMA StepsOutside ==
    ASSUME ~Threaded, IInv,
           NEW c \in Callers,
           \/ \E kind \in CallKinds : Enter(c, kind)
           \/ EntryFree(c) \/ EntryBusy(c) \/ EntryDisconnectFails(c)
           \/ SpinEnds(c) \/ InvalidKey(c) \/ NoMemory(c) \/ Finish(c)
           \/ (PrepareFails(c) /\ call[c].bssid)
    PROVE  IInv'
<1> USE DEF dispatched, handled
<1>1. pc[c] \in Outside \cup {"prepare", "finish"}
    BY DEF Enter, EntryFree, EntryBusy, EntryDisconnectFails, SpinEnds,
           InvalidKey, NoMemory, Finish, PrepareFails, Outside
<1>2. Moves(c)
    BY DEF Enter, EntryFree, EntryBusy, EntryDisconnectFails, SpinEnds,
           InvalidKey, NoMemory, Finish, PrepareFails, Return, GoTo, Moves,
           IInv, Types, Labels, Outside
<1>4. registered' = registered /\ joinUserData' = joinUserData
    BY DEF Enter, EntryFree, EntryBusy, EntryDisconnectFails, SpinEnds,
           InvalidKey, NoMemory, Finish, PrepareFails
<1>5. /\ \A d \in Callers \ {c} : call'[d] = call[d]
      /\ call' \in [Callers -> [bssid : BOOLEAN, open : BOOLEAN, user : BOOLEAN]]
    <2>1. call \in [Callers -> [bssid : BOOLEAN, open : BOOLEAN, user : BOOLEAN]]
        BY DEF IInv, Types
    <2>2. \/ call' = call
          \/ \E kind \in CallKinds \cup {NoCall} : call' = [call EXCEPT ![c] = kind]
        BY DEF Enter, EntryFree, EntryBusy, EntryDisconnectFails, SpinEnds,
               InvalidKey, NoMemory, Finish, PrepareFails, Return
    <2>3. CallKinds \cup {NoCall} \subseteq
              [bssid : BOOLEAN, open : BOOLEAN, user : BOOLEAN]
        <3>1. NoCall \in [bssid : BOOLEAN, open : BOOLEAN, user : BOOLEAN]
            BY DEF NoCall
        <3> QED
            BY <3>1, KindsAssumption
    <2> QED
        BY <2>1, <2>2, <2>3
<1>6. \/ "CONNECTING" \notin status'
      \/ /\ pc[c] \in Outside
         /\ "CONNECTING" \in status' => \E d \in Callers : InProgress(d)
    <2>1. CASE status' = status /\ pc[c] \in Outside
        BY <2>1 DEF IInv, ConnectingMeansCall
    <2>2. CASE status' = status \ {"CONNECTING"}
        BY <2>2
    <2>3. CASE EntryBusy(c)
        <3>1. CASE status' = status
            BY <2>3, <3>1 DEF IInv, ConnectingMeansCall, EntryBusy, Outside
        <3>2. CASE Indicate("DISCONNECT", registered)
            BY <2>3, <3>2, IndicateFindsCall DEF Events, EntryBusy, Outside
        <3> QED
            BY <2>3, <3>1, <3>2 DEF EntryBusy, WifiDisconnect
    <2>4. CASE \/ \E kind \in CallKinds : Enter(c, kind)
               \/ EntryFree(c) \/ EntryDisconnectFails(c) \/ SpinEnds(c)
        BY <2>1, <2>4 DEF Enter, EntryFree, EntryDisconnectFails, SpinEnds,
                          Outside
    <2>5. CASE \/ InvalidKey(c) \/ NoMemory(c) \/ Finish(c)
               \/ (PrepareFails(c) /\ call[c].bssid)
        BY <2>2, <2>5 DEF InvalidKey, NoMemory, Finish, PrepareFails
    <2> QED
        BY <2>3, <2>4, <2>5
<1>7. queue' = <<>>
    <2>1. CASE EntryBusy(c)
        BY <2>1, IndicateQueue DEF EntryBusy, WifiDisconnect, IInv, Events
    <2> QED
        BY <2>1 DEF Enter, EntryFree, EntryDisconnectFails, SpinEnds,
               InvalidKey, NoMemory, Finish, PrepareFails, IInv
<1>8. AttachedInv'
    <2>1. ~Attached(c)
        BY <1>1 DEF Attached, Outside
    <2> QED
        BY <1>2, <1>4, <1>5, <2>1, StaysAttached
<1>9. pc[c] \notin Listening
    BY <1>1 DEF Outside, Listening
<1>10. ListeningInv' /\ ConnectingMeansCall'
    BY <1>2, <1>4, <1>6, <1>9, Aside
<1> QED
    BY <1>2, <1>4, <1>5, <1>7, <1>8, <1>10 DEF IInv, Types, Moves

\* Within its join, the steps that leave join_user_data alone.
LEMMA StepsInside ==
    ASSUME ~Threaded, IInv, NEW c \in Callers,
           \/ Start(c) \/ Prepare(c) \/ (PrepareFails(c) /\ ~call[c].bssid)
           \/ Issue(c) \/ IssueFails(c) \/ WaitDisconnect(c)
           \/ JoinTimeout(c) \/ Joined(c) \/ Check(c)
           \/ FreeSema(c) \/ FreeResult(c) \/ UnregisterHandlers(c)
    PROVE  IInv'
<1> USE DEF dispatched, handled
<1>1. call' = call /\ joinUserData' = joinUserData
    BY DEF Start, Prepare, PrepareFails, Issue, IssueFails, WaitDisconnect,
           JoinTimeout, Joined, Check, FreeSema, FreeResult,
           UnregisterHandlers, UnregisterHandshake, Unregister
<1>2. queue' = <<>>
    BY DEF Start, Prepare, PrepareFails, Issue, IssueFails, WaitDisconnect,
           JoinTimeout, Joined, Check, FreeSema, FreeResult,
           UnregisterHandlers, UnregisterHandshake, Unregister, IInv
<1>3. /\ Moves(c) /\ pc'[c] \notin Outside
      /\ "HANDSHAKE_DONE" \in registered' =>
            \/ pc'[c] \in Listening
            \/ "HANDSHAKE_DONE" \in registered /\ pc[c] \notin Listening
    <2> USE DEF GoTo, Moves, IInv, Types, Labels, Outside, Listening
    <2>1. CASE Start(c) \/ Prepare(c) \/ (PrepareFails(c) /\ ~call[c].bssid)
        BY <2>1 DEF Start, Prepare, PrepareFails
    <2>2. CASE Issue(c)
        BY <2>2 DEF Issue
    <2>3. CASE IssueFails(c) \/ WaitDisconnect(c)
        BY <2>3 DEF IssueFails, WaitDisconnect
    <2>4. CASE JoinTimeout(c) \/ Joined(c) \/ Check(c)
        BY <2>4 DEF JoinTimeout, AfterWait, Joined, Check
    <2>5. CASE FreeSema(c) \/ FreeResult(c)
        BY <2>5 DEF FreeSema, FreeResult
    <2>6. CASE UnregisterHandlers(c)
        BY <2>6 DEF UnregisterHandlers, UnregisterHandshake, Unregister
    <2> QED
        BY <2>1, <2>2, <2>3, <2>4, <2>5, <2>6
<1>4. ListeningInv' /\ ConnectingMeansCall'
    BY <1>3, Advance
<1>5. Attached(c) => Attached(c)'
    <2>1. pc \in [Callers -> Labels] /\ call \in [Callers -> [bssid : BOOLEAN,
              open : BOOLEAN, user : BOOLEAN]]
        BY DEF IInv, Types
    <2>2. CASE Start(c) \/ Prepare(c) \/ PrepareFails(c)
        BY <2>2 DEF Start, Prepare, PrepareFails, Attached
    <2>3. CASE Issue(c) \/ IssueFails(c) \/ WaitDisconnect(c)
        BY <2>3 DEF Issue, IssueFails, WaitDisconnect, Attached
    <2>4. CASE JoinTimeout(c)
        BY <1>1, <2>1, <2>4 DEF JoinTimeout, AfterWait, Attached, GoTo
    <2>5. CASE Joined(c) \/ Check(c)
        BY <1>1, <2>1, <2>5 DEF Joined, Check, Attached, GoTo
    <2>6. CASE FreeSema(c)
        BY <1>1, <2>1, <2>6 DEF FreeSema, Attached, GoTo
    <2>7. CASE FreeResult(c)
        BY <1>1, <2>1, <2>7 DEF FreeResult, Attached, GoTo
    <2>8. CASE UnregisterHandlers(c)
        BY <2>8 DEF UnregisterHandlers, UnregisterHandshake, Unregister, Attached
    <2> QED
        BY <2>2, <2>3, <2>4, <2>5, <2>6, <2>7, <2>8
<1>6. AttachedInv'
    BY <1>1, <1>3, <1>5, StaysAttached
<1> QED
    BY <1>1, <1>2, <1>3, <1>4, <1>6 DEF IInv, Types, Moves

\* The two steps that set join_user_data.
LEMMA StepsOfJoinUserData ==
    ASSUME IInv, NEW c \in Callers, Attach(c) \/ Detach(c)
    PROVE  IInv'
<1> USE DEF dispatched, handled
<1>1. call' = call /\ queue' = <<>> /\ registered' = registered
    BY DEF Attach, Detach, IInv
<1>2. Moves(c) /\ pc'[c] \notin Outside /\ pc'[c] \in Listening
    BY DEF Attach, Detach, GoTo, Moves, IInv, Types, Labels, Outside, Listening
<1>3. ListeningInv' /\ ConnectingMeansCall'
    BY <1>2, Advance
<1>4. joinUserData' \in Callers \cup {NoCaller} /\ AttachedInv'
    <2>1. CASE Attach(c)
        <3>1. joinUserData' = c /\ pc'[c] \in {"wait", "detach"}
            BY <2>1 DEF Attach, GoTo, IInv, Types
        <3> QED
            BY <3>1 DEF AttachedInv, Attached
    <2>2. CASE Detach(c)
        BY <2>2, ConstantsAssumption DEF Detach, AttachedInv
    <2> QED
        BY <2>1, <2>2
<1> QED
    BY <1>1, <1>2, <1>3, <1>4 DEF IInv, Types, Moves

-----------------------------------------------------------------------------
LEMMA InitIInv == Init => IInv
<1> SUFFICES ASSUME Init PROVE IInv
    OBVIOUS
<1>1. Types
    BY DEF Init, Types, NoCall, Labels, Outside
<1>2. AttachedInv
    BY ConstantsAssumption DEF Init, AttachedInv
<1>3. ListeningInv /\ ConnectingMeansCall /\ queue = <<>>
    BY DEF Init, ListeningInv, ConnectingMeansCall
<1> QED
    BY <1>1, <1>2, <1>3 DEF IInv

LEMMA NextIInv ==
    ASSUME ~Threaded, IInv, [Next]_vars
    PROVE  IInv'
<1>1. ASSUME NEW c \in Callers, NEW kind \in CallKinds, Enter(c, kind)
      PROVE  IInv'
    BY <1>1, StepsOutside
<1>2. ASSUME NEW c \in Callers, Proceed(c)
      PROVE  IInv'
    <2>1. CASE Attach(c) \/ Detach(c)
        BY <2>1, StepsOfJoinUserData
    <2>2. CASE PrepareFails(c)
        BY <2>2, StepsOutside, StepsInside
    <2>3. CASE \/ EntryFree(c) \/ EntryBusy(c) \/ EntryDisconnectFails(c)
               \/ SpinEnds(c) \/ InvalidKey(c) \/ NoMemory(c) \/ Finish(c)
        BY <2>3, StepsOutside
    <2>4. CASE \/ Start(c) \/ Prepare(c) \/ Issue(c) \/ IssueFails(c)
               \/ WaitDisconnect(c) \/ JoinTimeout(c) \/ Joined(c)
               \/ Check(c) \/ FreeSema(c) \/ FreeResult(c)
               \/ UnregisterHandlers(c)
        BY <2>4, StepsInside
    <2> QED
        BY <1>2, <2>1, <2>2, <2>3, <2>4 DEF Proceed
<1>3. CASE Driver
    <2>1. \E event \in Events :
              /\ Indicate(event, registered)
              /\ UNCHANGED <<caller, joinUserData, registered>>
        BY <1>3 DEF Driver, DriverTo, Events
    <2>2. PICK event \in Events :
          /\ Indicate(event, registered)
          /\ UNCHANGED <<caller, joinUserData, registered>>
        BY <2>1
    <2>3. queue' = <<>>
        BY <2>2, IndicateQueue DEF IInv
    <2>4. "CONNECTING" \in status' => \E d \in Callers : InProgress(d)
        BY <2>2, IndicateFindsCall
    <2> QED
        BY <2>2, <2>3, <2>4, Beside
<1>4. CASE AppDisconnect
    <2>1. UNCHANGED <<caller, joinUserData, registered>>
        BY <1>4 DEF AppDisconnect
    <2>2. CASE Indicate("DISCONNECT", registered)
        <3>1. queue' = <<>>
            BY <2>2, IndicateQueue DEF IInv
        <3>2. "CONNECTING" \in status' => \E d \in Callers : InProgress(d)
            BY <2>2, IndicateFindsCall DEF Events
        <3> QED
            BY <2>1, <3>1, <3>2, Beside
    <2>3. CASE UNCHANGED dispatched
        <3>1. queue' = <<>> /\ status' = status
            BY <2>3 DEF dispatched, handled, IInv
        <3> QED
            BY <2>1, <3>1, Beside DEF IInv, ConnectingMeansCall
    <2> QED
        BY <1>4, <2>2, <2>3 DEF AppDisconnect, WifiDisconnect
<1>5. ~Worker
    BY DEF Worker, IInv
<1>6. CASE UNCHANGED vars
    <2>1. /\ UNCHANGED <<caller, joinUserData, registered>>
          /\ queue' = <<>> /\ status' = status
        BY <1>6 DEF vars, dispatched, handled, IInv
    <2> QED
        BY <2>1, Beside DEF IInv, ConnectingMeansCall
<1> QED
    BY <1>1, <1>2, <1>3, <1>4, <1>5, <1>6 DEF Next

\* The flag for which the next wifi_connect would spin without end is set only
\* while a call is in progress that clears it, for any number of callers and
\* any kinds of calls, when the driver dispatches the events itself.
THEOREM ConnectingEnds == ~Threaded => (Spec => []ConnectingMeansCall)
<1>1. SUFFICES ASSUME ~Threaded
               PROVE  Spec => []ConnectingMeansCall
    OBVIOUS
<1>2. Init => IInv
    BY InitIInv
<1>3. IInv /\ [Next]_vars => IInv'
    BY <1>1, NextIInv
<1>4. IInv => ConnectingMeansCall
    BY DEF IInv
<1> QED
    BY <1>2, <1>3, <1>4, PTL DEF Spec

-----------------------------------------------------------------------------
(* Type correctness, however the events are dispatched.                    *)

\* What the handlers change, and what a call changes of its own.
HandledTypes ==
    /\ sema \in [Callers -> Nat]
    /\ status \subseteq LinkReady \cup {"NO_NETWORKS", "HANDSHAKE_DONE"}
    /\ errorFlag \in {"UNKNOWN", "INVALID_KEY", "NONE_NETWORK", "CONNECT_FAIL",
                      "WRONG_PASSWORD"}
    /\ disconnectSema \in Nat \cup {-1}

QueueType == queue \in Seq(Events) /\ Len(queue) <= QueueSize

CallerTypes ==
    /\ pc \in [Callers -> Labels]
    /\ call \in [Callers -> CallKinds \cup {NoCall}]
    /\ result \in [Callers -> {"none", "NOMEM", "SUCCESS", "TIMEOUT", "ERROR"}]
    /\ owned \in [Callers -> SUBSET {"result", "sema"}]

SharedTypes ==
    /\ joinUserData \in Callers \cup {NoCaller}
    /\ registered \subseteq Events

StationTypes ==
    /\ driver \in DriverStates /\ fell \in DriverStates \cup {"none"}
    /\ openNet \in BOOLEAN

LEMMA TypeOKParts ==
    TypeOK <=> HandledTypes /\ QueueType /\ CallerTypes /\ SharedTypes /\ StationTypes
  BY DEF TypeOK, HandledTypes, QueueType, CallerTypes, SharedTypes, StationTypes

\* An open or a WPA call: what is read of it is there.
LEMMA KindsOfCalls ==
    ASSUME CallerTypes
    PROVE  call \in [Callers -> [bssid : BOOLEAN, open : BOOLEAN, user : BOOLEAN]]
<1>1. NoCall \in [bssid : BOOLEAN, open : BOOLEAN, user : BOOLEAN]
    BY DEF NoCall
<1> QED
    BY <1>1, KindsAssumption DEF CallerTypes

LEMMA UpJoinSemaType ==
    ASSUME sema \in [Callers -> Nat], joinUserData \in Callers \cup {NoCaller},
           UpJoinSema
    PROVE  sema' \in [Callers -> Nat]
<1>1. CASE joinUserData \in Callers
    BY <1>1 DEF UpJoinSema
<1>2. CASE joinUserData = NoCaller
    BY <1>2 DEF UpJoinSema
<1> QED
    BY <1>1, <1>2

\* A handler keeps the types of what it changes.
LEMMA HandleTypes ==
    ASSUME HandledTypes, SharedTypes, NEW event, Handle(event)
    PROVE  HandledTypes'
<1> USE DEF HandledTypes, SharedTypes, LinkReady
<1>1. CASE NoNetworkHdl
    BY <1>1 DEF NoNetworkHdl
<1>2. CASE ConnectedHdl
    BY <1>2, UpJoinSemaType DEF ConnectedHdl
<1>3. CASE HandshakeDoneHdl
    BY <1>3, UpJoinSemaType DEF HandshakeDoneHdl
<1>4. CASE DisconnHdl
    <2>1. sema' \in [Callers -> Nat]
        BY <1>4, UpJoinSemaType DEF DisconnHdl
    <2>2. errorFlag' \in {"UNKNOWN", "INVALID_KEY", "NONE_NETWORK",
                          "CONNECT_FAIL", "WRONG_PASSWORD"}
        BY <1>4 DEF DisconnHdl, Blame
    <2>3. disconnectSema' \in Nat \cup {-1} /\ status' = status
        BY <1>4 DEF DisconnHdl
    <2> QED
        BY <2>1, <2>2, <2>3
<1> QED
    BY <1>1, <1>2, <1>3, <1>4 DEF Handle

\* An event that finds room in the queue, and one that is dropped.
LEMMA EnqueueType ==
    ASSUME QueueType, NEW event \in Events,
           queue' = IF Len(queue) < QueueSize THEN Append(queue, event) ELSE queue
    PROVE  QueueType'
<1>1. CASE Len(queue) < QueueSize
    <2>1. Append(queue, event) \in Seq(Events)
          /\ Len(Append(queue, event)) = Len(queue) + 1
        BY DEF QueueType
    <2>2. Len(queue) \in Nat /\ QueueSize \in Nat
        BY ConstantsAssumption DEF QueueType
    <2>3. queue' = Append(queue, event)
        BY <1>1
    <2> HIDE DEF QueueType
    <2>4. queue' \in Seq(Events) /\ Len(queue') = Len(queue) + 1
        BY <2>1, <2>3
    <2>5. Len(queue') <= QueueSize
        BY <1>1, <2>2, <2>4
    <2> QED
        BY <2>4, <2>5 DEF QueueType
<1>2. CASE ~(Len(queue) < QueueSize)
    BY <1>2 DEF QueueType
<1> QED
    BY <1>1, <1>2

LEMMA IndicateTypes ==
    ASSUME TypeOK, NEW event \in Events, Indicate(event, registered)
    PROVE  HandledTypes' /\ QueueType'
<1>1. HandledTypes /\ QueueType /\ SharedTypes
    BY TypeOKParts
<1>2. CASE UNCHANGED dispatched
    BY <1>1, <1>2 DEF dispatched, handled, HandledTypes, QueueType
<1>3. CASE Threaded /\ event \in registered
    <2>1. QueueType'
        BY <1>1, <1>3, EnqueueType DEF Indicate
    <2>2. UNCHANGED handled
        BY <1>3 DEF Indicate
    <2> QED
        BY <1>1, <2>1, <2>2 DEF handled, HandledTypes
<1>4. CASE Handle(event) /\ UNCHANGED queue
    BY <1>1, <1>4, HandleTypes DEF QueueType
<1> QED
    BY <1>2, <1>3, <1>4 DEF Indicate

LEMMA WifiDisconnectTypes ==
    ASSUME TypeOK, WifiDisconnect
    PROVE  HandledTypes' /\ QueueType' /\ StationTypes'
<1>1. HandledTypes /\ QueueType /\ StationTypes
    BY TypeOKParts
<1>2. CASE UNCHANGED <<dispatched, station>>
    BY <1>1, <1>2 DEF dispatched, handled, station, HandledTypes, QueueType,
       StationTypes
<1>3. CASE /\ driver' = "down" /\ fell' = driver /\ UNCHANGED openNet
           /\ Indicate("DISCONNECT", registered)
    <2>1. HandledTypes' /\ QueueType'
        BY <1>3, IndicateTypes DEF Events
    <2>2. StationTypes'
        BY <1>1, <1>3 DEF StationTypes, DriverStates
    <2> QED
        BY <2>1, <2>2
<1> QED
    BY <1>2, <1>3 DEF WifiDisconnect

\* The station's part and the worker's.
LEMMA BesideTypes ==
    ASSUME TypeOK, Driver \/ AppDisconnect \/ Worker \/ UNCHANGED vars
    PROVE  TypeOK'
<1>1. HandledTypes /\ QueueType /\ CallerTypes /\ SharedTypes /\ StationTypes
    BY TypeOKParts
<1>2. CallerTypes' /\ SharedTypes'
    <2>1. UNCHANGED <<caller, joinUserData, registered>>
        BY DEF Driver, DriverTo, AppDisconnect, Worker, vars
    <2> QED
        BY <1>1, <2>1 DEF caller, CallerTypes, SharedTypes
<1>3. CASE Driver
    <2>1. PICK state \in DriverStates, event \in Events : DriverTo(state, event)
        BY <1>3 DEF Driver, DriverStates, Events
    <2>2. HandledTypes' /\ QueueType'
        BY <2>1, IndicateTypes DEF DriverTo
    <2>3. StationTypes'
        BY <1>1, <2>1 DEF DriverTo, StationTypes
    <2> QED
        BY <1>2, <2>2, <2>3, TypeOKParts, PTL
<1>4. CASE AppDisconnect
    BY <1>2, <1>4, WifiDisconnectTypes, TypeOKParts, PTL DEF AppDisconnect
<1>5. CASE Worker
    <2>1. HandledTypes'
        BY <1>1, <1>5, HandleTypes DEF Worker
    <2>2. QueueType'
        <3>1. queue # <<>> /\ queue' = Tail(queue)
            BY <1>5 DEF Worker
        <3>2. Tail(queue) \in Seq(Events) /\ Len(Tail(queue)) = Len(queue) - 1
            BY <1>1, <3>1 DEF QueueType
        <3>3. Len(queue) \in Nat /\ QueueSize \in Nat /\ Len(queue) <= QueueSize
            BY <1>1, ConstantsAssumption DEF QueueType
        <3>4. queue' \in Seq(Events) /\ Len(queue') = Len(queue) - 1
            BY <3>1, <3>2
        <3>5. Len(queue') <= QueueSize
            BY <3>3, <3>4
        <3> QED
            BY <3>4, <3>5 DEF QueueType
    <2>3. StationTypes'
        BY <1>1, <1>5 DEF Worker, station, StationTypes
    <2> QED
        BY <1>2, <2>1, <2>2, <2>3, TypeOKParts, PTL
<1>6. CASE UNCHANGED vars
    <2>1. HandledTypes' /\ QueueType' /\ StationTypes'
        BY <1>1, <1>6 DEF vars, dispatched, handled, station, HandledTypes,
           QueueType, StationTypes
    <2> QED
        BY <1>2, <2>1, TypeOKParts, PTL
<1> QED
    BY <1>3, <1>4, <1>5, <1>6

\* A step of a call changes its own entries, to values of their types.
LEMMA CallTypes ==
    ASSUME TypeOK, NEW c \in Callers,
           (\E kind \in CallKinds : Enter(c, kind)) \/ Proceed(c)
    PROVE  CallerTypes'
<1>1. CallerTypes
    BY TypeOKParts
<1> USE DEF CallerTypes, GoTo, Return, Labels, Outside, Listening
<1>2. CASE \E kind \in CallKinds : Enter(c, kind)
    BY <1>1, <1>2 DEF Enter
<1>3. CASE EntryFree(c) \/ EntryBusy(c) \/ EntryDisconnectFails(c) \/ SpinEnds(c)
    BY <1>1, <1>3 DEF EntryFree, EntryBusy, EntryDisconnectFails, SpinEnds
<1>4. CASE Start(c) \/ InvalidKey(c) \/ NoMemory(c) \/ Prepare(c)
    BY <1>1, <1>4 DEF Start, InvalidKey, NoMemory, Prepare
<1>5. CASE PrepareFails(c)
    BY <1>1, <1>5 DEF PrepareFails
<1>6. CASE Issue(c)
    BY <1>1, <1>6 DEF Issue
<1>7. CASE IssueFails(c) \/ WaitDisconnect(c) \/ Attach(c)
    BY <1>1, <1>7 DEF IssueFails, WaitDisconnect, Attach
<1>8. CASE JoinTimeout(c) \/ Joined(c) \/ Check(c)
    BY <1>1, <1>8 DEF JoinTimeout, AfterWait, Joined, Check
<1>9. CASE FreeSema(c) \/ FreeResult(c) \/ Detach(c)
    BY <1>1, <1>9 DEF FreeSema, FreeResult, Detach
<1>10. CASE UnregisterHandlers(c)
    BY <1>1, <1>10 DEF UnregisterHandlers, UnregisterHandshake, Unregister
<1>11. CASE Finish(c)
    BY <1>1, <1>11 DEF Finish
<1> QED
    BY <1>2, <1>3, <1>4, <1>5, <1>6, <1>7, <1>8, <1>9, <1>10, <1>11 DEF Proceed

\* The join is issued: a station that is connected leaves with its event.
LEMMA IssueTypes ==
    ASSUME TypeOK, NEW c \in Callers, Issue(c)
    PROVE  HandledTypes' /\ QueueType' /\ SharedTypes' /\ StationTypes'
<1>1. HandledTypes /\ QueueType /\ CallerTypes /\ SharedTypes /\ StationTypes
    BY TypeOKParts
<1>2. QueueType'
    <2>1. CASE queue' = queue
        BY <1>1, <2>1 DEF QueueType
    <2>2. CASE queue' = IF Len(queue) < QueueSize
                        THEN Append(queue, "DISCONNECT") ELSE queue
        BY <1>1, <2>2, EnqueueType DEF Events
    <2> QED
        BY <2>1, <2>2 DEF Issue
<1>3. HandledTypes'
    <2>1. sema' \in [Callers -> Nat]
        BY <1>1, UpJoinSemaType DEF Issue, HandledTypes, SharedTypes
    <2>2. status' = status
        BY DEF Issue
    <2>3. errorFlag' \in {"UNKNOWN", "INVALID_KEY", "NONE_NETWORK",
                          "CONNECT_FAIL", "WRONG_PASSWORD"}
        BY <1>1 DEF Issue, Blame, HandledTypes
    <2>4. disconnectSema' \in Nat \cup {-1}
        BY <1>1 DEF Issue, HandledTypes
    <2> QED
        BY <1>1, <2>1, <2>2, <2>3, <2>4 DEF HandledTypes
<1>4. SharedTypes'
    BY <1>1 DEF Issue, SharedTypes
<1>5. StationTypes'
    <2>1. call[c].open \in BOOLEAN
        BY <1>1, KindsOfCalls
    <2> QED
        BY <1>1, <2>1 DEF Issue, StationTypes, DriverStates
<1> QED
    BY <1>2, <1>3, <1>4, <1>5

\* The other steps of a call set what it shares to values of their types.
LEMMA CallShares ==
    ASSUME TypeOK, NEW c \in Callers,
           (\E kind \in CallKinds : Enter(c, kind)) \/ Proceed(c)
    PROVE  HandledTypes' /\ QueueType' /\ SharedTypes' /\ StationTypes'
<1>1. HandledTypes /\ QueueType /\ CallerTypes /\ SharedTypes /\ StationTypes
    BY TypeOKParts
<1> DEFINE Kept ==
        /\ UNCHANGED <<dispatched, station>>
        /\ UNCHANGED joinUserData \/ joinUserData' \in {c, NoCaller}
        /\ registered' \subseteq registered \cup Events
<1>2. ASSUME Kept
      PROVE  HandledTypes' /\ QueueType' /\ SharedTypes' /\ StationTypes'
    BY <1>1, <1>2 DEF dispatched, handled, station, HandledTypes, QueueType,
       SharedTypes, StationTypes
<1>3. CASE \/ \E kind \in CallKinds : Enter(c, kind)
           \/ EntryFree(c) \/ EntryDisconnectFails(c) \/ SpinEnds(c)
           \/ IssueFails(c) \/ Attach(c) \/ JoinTimeout(c) \/ Check(c)
           \/ FreeResult(c) \/ Detach(c) \/ UnregisterHandlers(c)
    <2>1. Kept
        <3>1. CASE \/ \E kind \in CallKinds : Enter(c, kind)
                   \/ EntryFree(c) \/ EntryDisconnectFails(c) \/ SpinEnds(c)
                   \/ JoinTimeout(c) \/ Check(c) \/ FreeResult(c)
            BY <3>1 DEF Enter, EntryFree, EntryDisconnectFails, SpinEnds,
               JoinTimeout, Check, FreeResult
        <3>2. CASE IssueFails(c) \/ Attach(c) \/ Detach(c)
            BY <3>2 DEF IssueFails, Attach, Detach
        <3>3. CASE UnregisterHandlers(c)
            BY <3>3 DEF UnregisterHandlers, UnregisterHandshake, Unregister
        <3> QED
            BY <1>3, <3>1, <3>2, <3>3
    <2> QED
        BY <1>2, <2>1
<1>4. CASE EntryBusy(c)
    <2>1. HandledTypes' /\ QueueType' /\ StationTypes'
        BY <1>4, WifiDisconnectTypes DEF EntryBusy
    <2> QED
        BY <1>1, <1>4, <2>1 DEF EntryBusy, SharedTypes
<1>5. CASE \/ Start(c) \/ InvalidKey(c) \/ NoMemory(c) \/ Prepare(c)
           \/ PrepareFails(c) \/ WaitDisconnect(c) \/ Joined(c) \/ FreeSema(c)
           \/ Finish(c)
    <2> USE DEF Start, InvalidKey, NoMemory, Prepare, PrepareFails,
            WaitDisconnect, Joined, FreeSema, Finish
    <2>1. UNCHANGED <<queue, station, joinUserData, registered>>
        BY <1>5
    <2>2. sema' \in [Callers -> Nat]
        BY <1>1, <1>5 DEF HandledTypes
    <2>3. /\ status' \subseteq status \cup {"CONNECTING"}
          /\ errorFlag' \in {errorFlag, "UNKNOWN", "INVALID_KEY"}
          /\ disconnectSema' \in {disconnectSema, -1}
        BY <1>5
    <2>4. HandledTypes'
        BY <1>1, <2>2, <2>3 DEF HandledTypes, LinkReady
    <2>5. QueueType' /\ SharedTypes' /\ StationTypes'
        BY <1>1, <2>1 DEF QueueType, SharedTypes, StationTypes, station
    <2> QED
        BY <2>4, <2>5
<1>6. CASE Issue(c)
    BY <1>6, IssueTypes
<1> QED
    BY <1>3, <1>4, <1>5, <1>6 DEF Proceed

LEMMA InitTypes == Init => TypeOK
<1> SUFFICES ASSUME Init PROVE TypeOK
    OBVIOUS
<1>1. CallerTypes /\ SharedTypes /\ StationTypes
    BY DEF Init, CallerTypes, SharedTypes, StationTypes, Labels, Outside,
       DriverStates
<1>2. HandledTypes
    BY DEF Init, HandledTypes
<1>3. QueueType
    <2>1. queue = <<>> /\ Len(<<>>) = 0 /\ <<>> \in Seq(Events)
        BY DEF Init
    <2> QED
        BY <2>1, ConstantsAssumption DEF QueueType
<1> QED
    BY <1>1, <1>2, <1>3, TypeOKParts

LEMMA NextTypes == TypeOK /\ [Next]_vars => TypeOK'
<1> SUFFICES ASSUME TypeOK, [Next]_vars PROVE TypeOK'
    OBVIOUS
<1>1. ASSUME NEW c \in Callers,
             (\E kind \in CallKinds : Enter(c, kind)) \/ Proceed(c)
      PROVE  TypeOK'
    BY <1>1, CallTypes, CallShares, TypeOKParts, PTL
<1>2. CASE Driver \/ AppDisconnect \/ Worker \/ UNCHANGED vars
    BY <1>2, BesideTypes
<1> QED
    BY <1>1, <1>2 DEF Next

\* The variables keep their types for any callers, any kinds of calls, and
\* with or without the worker thread; the queue never exceeds its size.
THEOREM TypeCorrect == Spec => []TypeOK
  BY InitTypes, NextTypes, PTL DEF Spec

-----------------------------------------------------------------------------
(* The join_result and the semaphores, however the events are dispatched.  *)

\* From its allocation to its release a call of wifi_connect has a join_result.
OwnedInv ==
    \A c \in Callers :
        ~call[c].bssid
            /\ pc[c] \in {"issue", "waitDisconnect", "attach", "wait", "check",
                          "freeSema", "detach"}
        => "result" \in owned[c]

\* What ResultOutlivesHandlers rests on: join_user_data is a call's own only
\* between its Attach and its Detach.
JoinInv == TypeOK /\ AttachedInv /\ OwnedInv

\* A step of one call leaves the entries of the others alone.
LEMMA OthersKept ==
    ASSUME TypeOK, NEW c \in Callers,
           (\E kind \in CallKinds : Enter(c, kind)) \/ Proceed(c),
           NEW d \in Callers, d # c
    PROVE  pc'[d] = pc[d] /\ call'[d] = call[d] /\ owned'[d] = owned[d]
<1>1. CallerTypes
    BY TypeOKParts
<1> USE DEF CallerTypes, GoTo, Return
<1>2. CASE \E kind \in CallKinds : Enter(c, kind)
    BY <1>1, <1>2 DEF Enter
<1>3. CASE EntryFree(c) \/ EntryBusy(c) \/ EntryDisconnectFails(c) \/ SpinEnds(c)
    BY <1>1, <1>3 DEF EntryFree, EntryBusy, EntryDisconnectFails, SpinEnds
<1>4. CASE Start(c) \/ InvalidKey(c) \/ NoMemory(c) \/ Prepare(c)
    BY <1>1, <1>4 DEF Start, InvalidKey, NoMemory, Prepare
<1>5. CASE PrepareFails(c)
    BY <1>1, <1>5 DEF PrepareFails
<1>6. CASE Issue(c) \/ IssueFails(c) \/ WaitDisconnect(c) \/ Attach(c)
    BY <1>1, <1>6 DEF Issue, IssueFails, WaitDisconnect, Attach
<1>7. CASE JoinTimeout(c) \/ Joined(c) \/ Check(c)
    BY <1>1, <1>7 DEF JoinTimeout, AfterWait, Joined, Check
<1>8. CASE FreeSema(c) \/ FreeResult(c) \/ Detach(c)
    BY <1>1, <1>8 DEF FreeSema, FreeResult, Detach
<1>9. CASE UnregisterHandlers(c) \/ Finish(c)
    BY <1>1, <1>9 DEF UnregisterHandlers, UnregisterHandshake, Unregister, Finish
<1> QED
    BY <1>2, <1>3, <1>4, <1>5, <1>6, <1>7, <1>8, <1>9 DEF Proceed

\* A call of wifi_connect allocates join_result before it issues its join and
\* releases it only once it is detached.
LEMMA OwnStep ==
    ASSUME JoinInv, NEW c \in Callers,
           (\E kind \in CallKinds : Enter(c, kind)) \/ Proceed(c),
           ~call'[c].bssid,
           pc'[c] \in {"issue", "waitDisconnect", "attach", "wait", "check",
                       "freeSema", "detach"}
    PROVE  "result" \in owned'[c]
<1>1. CallerTypes /\ OwnedInv
    BY TypeOKParts DEF JoinInv
<1> USE DEF CallerTypes, GoTo, Return, OwnedInv
<1>2. CASE \E kind \in CallKinds : Enter(c, kind)
    BY <1>1, <1>2 DEF Enter
<1>3. CASE EntryFree(c) \/ EntryBusy(c) \/ EntryDisconnectFails(c) \/ SpinEnds(c)
    BY <1>1, <1>3 DEF EntryFree, EntryBusy, EntryDisconnectFails, SpinEnds
<1>4. CASE Start(c) \/ InvalidKey(c) \/ NoMemory(c) \/ Prepare(c)
    BY <1>1, <1>4 DEF Start, InvalidKey, NoMemory, Prepare
<1>5. CASE PrepareFails(c)
    BY <1>1, <1>5 DEF PrepareFails
<1>6. CASE Issue(c)
    BY <1>1, <1>6 DEF Issue
<1>7. CASE IssueFails(c) \/ WaitDisconnect(c) \/ Attach(c)
    BY <1>1, <1>7 DEF IssueFails, WaitDisconnect, Attach
<1>8. CASE JoinTimeout(c) \/ Joined(c) \/ Check(c)
    BY <1>1, <1>8 DEF JoinTimeout, AfterWait, Joined, Check
<1>9. CASE FreeSema(c)
    BY <1>1, <1>9 DEF FreeSema
<1>10. CASE FreeResult(c)
    BY <1>1, <1>10 DEF FreeResult
<1>11. CASE Detach(c)
    BY <1>1, <1>11 DEF Detach
<1>12. CASE UnregisterHandlers(c) \/ Finish(c)
    BY <1>1, <1>12 DEF UnregisterHandlers, UnregisterHandshake, Unregister, Finish
<1> QED
    BY <1>2, <1>3, <1>4, <1>5, <1>6, <1>7, <1>8, <1>9, <1>10, <1>11, <1>12
    DEF Proceed

\* join_user_data is reset before its call leaves the steps of Attached.
LEMMA AttachedStep ==
    ASSUME JoinInv, NEW c \in Callers,
           (\E kind \in CallKinds : Enter(c, kind)) \/ Proceed(c),
           joinUserData' = c
    PROVE  Attached(c)'
<1>1. CallerTypes /\ (joinUserData = c => Attached(c))
    BY TypeOKParts DEF JoinInv, AttachedInv
<1>2. NoCaller # c
    BY ConstantsAssumption
<1> USE DEF CallerTypes, GoTo, Return, Attached
<1>3. CASE \E kind \in CallKinds : Enter(c, kind)
    BY <1>1, <1>3 DEF Enter
<1>4. CASE EntryFree(c) \/ EntryBusy(c) \/ EntryDisconnectFails(c) \/ SpinEnds(c)
    BY <1>1, <1>4 DEF EntryFree, EntryBusy, EntryDisconnectFails, SpinEnds
<1>5. CASE Start(c) \/ InvalidKey(c) \/ NoMemory(c) \/ Prepare(c)
    BY <1>1, <1>5 DEF Start, InvalidKey, NoMemory, Prepare
<1>6. CASE PrepareFails(c) \/ Issue(c) \/ IssueFails(c) \/ WaitDisconnect(c)
    BY <1>1, <1>6 DEF PrepareFails, Issue, IssueFails, WaitDisconnect
<1>7. CASE Attach(c)
    BY <1>1, <1>7 DEF Attach
<1>8. CASE JoinTimeout(c) \/ Joined(c) \/ Check(c)
    BY <1>1, <1>8 DEF JoinTimeout, AfterWait, Joined, Check
<1>9. CASE FreeSema(c)
    BY <1>1, <1>9 DEF FreeSema
<1>10. CASE FreeResult(c)
    BY <1>1, <1>10 DEF FreeResult
<1>11. CASE Detach(c)
    BY <1>1, <1>2, <1>11 DEF Detach
<1>12. CASE UnregisterHandlers(c) \/ Finish(c)
    BY <1>1, <1>12 DEF UnregisterHandlers, UnregisterHandshake, Unregister, Finish
<1> QED
    BY <1>3, <1>4, <1>5, <1>6, <1>7, <1>8, <1>9, <1>10, <1>11, <1>12 DEF Proceed

LEMMA JoinUserDataStep ==
    ASSUME NEW c \in Callers,
           (\E kind \in CallKinds : Enter(c, kind)) \/ Proceed(c)
    PROVE  joinUserData' \in {joinUserData, c, NoCaller}
  BY DEF Enter, Proceed, EntryFree, EntryBusy, EntryDisconnectFails, SpinEnds,
     Start, InvalidKey, NoMemory, Prepare, PrepareFails, Issue, IssueFails,
     WaitDisconnect, Attach, JoinTimeout, Joined, Check, FreeSema, FreeResult,
     Detach, UnregisterHandlers, UnregisterHandshake, Unregister, Finish

LEMMA NextJoinInv == JoinInv /\ [Next]_vars => JoinInv'
<1> SUFFICES ASSUME JoinInv, [Next]_vars PROVE JoinInv'
    OBVIOUS
<1>1. TypeOK'
    BY NextTypes DEF JoinInv
<1>2. ASSUME NEW c \in Callers,
             (\E kind \in CallKinds : Enter(c, kind)) \/ Proceed(c)
      PROVE  AttachedInv' /\ OwnedInv'
    <2>1. TypeOK
        BY DEF JoinInv
    <2>2. \A d \in Callers \ {c} :
              pc'[d] = pc[d] /\ call'[d] = call[d] /\ owned'[d] = owned[d]
        BY <1>2, <2>1, OthersKept
    <2>3. OwnedInv'
        BY <1>2, <2>2, OwnStep DEF JoinInv, OwnedInv
    <2>4. CASE joinUserData' = c
        BY <1>2, <2>3, <2>4, AttachedStep DEF AttachedInv
    <2>5. CASE joinUserData' = joinUserData /\ joinUserData' # c
        BY <2>2, <2>3, <2>5 DEF JoinInv, AttachedInv, Attached
    <2>6. CASE joinUserData' = NoCaller
        BY <2>3, <2>6, ConstantsAssumption DEF AttachedInv
    <2> QED
        BY <1>2, <2>3, <2>4, <2>5, <2>6, JoinUserDataStep
<1>3. CASE Driver \/ AppDisconnect \/ Worker \/ UNCHANGED vars
    <2>1. UNCHANGED <<caller, joinUserData>>
        BY <1>3 DEF Driver, DriverTo, AppDisconnect, Worker, vars
    <2>2. UNCHANGED <<pc, call, owned, joinUserData>>
        BY <2>1 DEF caller
    <2> QED
        BY <1>1, <2>2 DEF JoinInv, AttachedInv, Attached, OwnedInv
<1> QED
    BY <1>1, <1>2, <1>3 DEF Next, JoinInv

\* While a handler may find a join_result of wifi_connect in join_user_data it
\* is allocated, for any number of calls, with or without the worker thread.
THEOREM JoinResultAllocated == Spec => []ResultOutlivesHandlers
<1>1. Init => JoinInv
    <2>1. Init => AttachedInv /\ OwnedInv
        BY ConstantsAssumption DEF Init, AttachedInv, OwnedInv
    <2> QED
        BY <2>1, InitTypes DEF JoinInv
<1>2. JoinInv => ResultOutlivesHandlers
    <2>1. SUFFICES ASSUME JoinInv, joinUserData # NoCaller,
                          ~call[joinUserData].bssid
                   PROVE  "result" \in owned[joinUserData]
        BY DEF ResultOutlivesHandlers
    <2>2. joinUserData \in Callers
        BY <2>1 DEF JoinInv, TypeOK
    <2>3. pc[joinUserData] \in {"wait", "check", "freeSema", "detach"}
        BY <2>1, <2>2 DEF JoinInv, AttachedInv, Attached
    <2> QED
        BY <2>1, <2>2, <2>3 DEF JoinInv, OwnedInv
<1> QED
    BY <1>1, <1>2, NextJoinInv, PTL DEF Spec

\* The handler of disconnections counts on disconnect_sema, and never makes it.
LEMMA HandlersKeepNull ==
    ASSUME TypeOK, disconnectSema < 0,
           \/ \E event : Handle(event)
           \/ WifiDisconnect
           \/ \E event, to : Indicate(event, to)
    PROVE  disconnectSema' < 0
<1>1. disconnectSema = -1
    BY DEF TypeOK
<1>2. ASSUME NEW event, Handle(event)
      PROVE  disconnectSema' = -1
    BY <1>1, <1>2 DEF Handle, NoNetworkHdl, ConnectedHdl, HandshakeDoneHdl,
       DisconnHdl
<1>3. ASSUME NEW event, NEW to, Indicate(event, to)
      PROVE  disconnectSema' = -1
    BY <1>1, <1>2, <1>3 DEF Indicate, dispatched, handled
<1>4. CASE WifiDisconnect
    BY <1>1, <1>3, <1>4 DEF WifiDisconnect, dispatched, handled
<1> QED
    BY <1>2, <1>3, <1>4

LEMMA NextDisconnectSema ==
    TypeOK /\ DisconnectSemaTransient /\ [Next]_vars => DisconnectSemaTransient'
<1> SUFFICES ASSUME TypeOK, DisconnectSemaTransient, [Next]_vars
             PROVE  DisconnectSemaTransient'
    OBVIOUS
<1>1. disconnectSema \in Nat \cup {-1} /\ disconnectSema' \in Nat \cup {-1}
    BY NextTypes DEF TypeOK
<1>2. ASSUME NEW c \in Callers,
             (\E kind \in CallKinds : Enter(c, kind)) \/ Proceed(c)
      PROVE  DisconnectSemaTransient'
    <2>1. \A d \in Callers \ {c} : pc'[d] = pc[d]
        BY <1>2, OthersKept
    <2>2. CallerTypes
        BY TypeOKParts
    <2>3. CASE WaitDisconnect(c)
        BY <2>3 DEF WaitDisconnect, DisconnectSemaTransient
    <2>4. CASE Issue(c) /\ disconnectSema' # disconnectSema
        <3>1. Threaded /\ ~call[c].bssid /\ disconnectSema' = 0
            BY <2>4 DEF Issue
        <3>2. pc'[c] = "waitDisconnect"
            BY <2>2, <2>4, <3>1 DEF Issue, GoTo, CallerTypes
        <3> QED
            BY <3>2 DEF DisconnectSemaTransient
    <2>5. CASE /\ disconnectSema' >= 0 => disconnectSema >= 0
               /\ pc[c] # "waitDisconnect"
        BY <2>1, <2>5 DEF DisconnectSemaTransient
    <2>6. CASE EntryBusy(c)
        <3>1. disconnectSema < 0 => disconnectSema' < 0
            BY <2>6, HandlersKeepNull DEF EntryBusy
        <3>2. pc[c] # "waitDisconnect"
            BY <2>6 DEF EntryBusy
        <3> QED
            BY <1>1, <2>5, <3>1, <3>2
    <2>7. WaitDisconnect(c) \/ EntryBusy(c)
          \/ (Issue(c) /\ disconnectSema' # disconnectSema)
          \/ (disconnectSema' = disconnectSema /\ pc[c] # "waitDisconnect")
        BY <1>2 DEF Enter, Proceed, EntryFree, EntryDisconnectFails, SpinEnds,
           Start, InvalidKey, NoMemory, Prepare, PrepareFails, Issue, IssueFails,
           Attach, JoinTimeout, Joined, Check, FreeSema, FreeResult, Detach,
           UnregisterHandlers, UnregisterHandshake, Unregister, Finish,
           dispatched, handled
    <2> QED
        BY <2>3, <2>4, <2>5, <2>6, <2>7
<1>3. CASE Driver \/ AppDisconnect \/ Worker \/ UNCHANGED vars
    <2>1. pc' = pc
        BY <1>3 DEF Driver, DriverTo, AppDisconnect, Worker, vars, caller
    <2>2. disconnectSema < 0 => disconnectSema' < 0
        <3>1. CASE Driver
            BY <3>1, HandlersKeepNull DEF Driver, DriverTo
        <3>2. CASE AppDisconnect
            BY <3>2, HandlersKeepNull DEF AppDisconnect
        <3>3. CASE Worker
            BY <3>3, HandlersKeepNull DEF Worker
        <3>4. CASE UNCHANGED vars
            BY <3>4 DEF vars, dispatched, handled
        <3> QED
            BY <1>3, <3>1, <3>2, <3>3, <3>4
    <2> QED
        BY <1>1, <2>1, <2>2 DEF DisconnectSemaTransient
<1> QED
    BY <1>2, <1>3 DEF Next

\* disconnect_sema exists only while a call waits for it, for any number of
\* calls.
THEOREM DisconnectSemaEnds == Spec => []DisconnectSemaTransient
<1>1. Init => TypeOK /\ DisconnectSemaTransient
    BY InitTypes DEF Init, DisconnectSemaTransient
<1>2. TypeOK /\ DisconnectSemaTransient /\ [Next]_vars
      => (TypeOK /\ DisconnectSemaTransient)'
    BY NextTypes, NextDisconnectSema
<1> QED
    BY <1>1, <1>2, PTL DEF Spec

-----------------------------------------------------------------------------
(* What wakes a call and what its error names, for a single caller whose    *)
(* events the driver dispatches itself: another call's join would put the   *)
(* driver back to work between the wake and the check.                      *)

\* Where a call has been woken by its semaphore and not by its timeout.
Woken(c) ==
    \/ pc[c] = "check"
    \/ pc[c] = "wait" /\ sema[c] > 0
    \/ pc[c] \in {"freeSema", "freeResult"} /\ call[c].bssid
          /\ result[c] # "TIMEOUT"

\* The semaphore is down until join_user_data is set, and what raises it then
\* is the end of the join.
WokenInv ==
    \A c \in Callers :
        /\ pc[c] \in {"issue", "waitDisconnect", "attach"} => sema[c] = 0
        /\ Woken(c) => driver \notin {"joining", "noNetwork"}

\* rtw_join_status never runs ahead of the driver, and error_flag blames
\* nothing before a join that began has ended.
PhaseInv ==
    /\ \A c \in Callers :
           /\ pc[c] \in {"prepare", "issue"} => status = {"CONNECTING"}
           /\ pc[c] = "issue" => errorFlag = "UNKNOWN"
    /\ "NO_NETWORKS" \in status => driver \in {"noNetwork", "down"}
    /\ "LINK_READY" \in status => driver \in {"assoc", "joined", "down"}
    /\ errorFlag = "NONE_NETWORK" => driver = "down" /\ fell = "noNetwork"
    /\ errorFlag = "WRONG_PASSWORD" =>
           driver = "down" /\ fell \in {"assoc", "joined"}

OneCall == \A c, d \in Callers : c = d

SingleInv == IInv /\ TypeOK /\ WokenInv /\ PhaseInv

\* A call that gets its join ready is neither in join_user_data nor are the
\* handlers registered for it.
LEMMA PreparingAlone ==
    ASSUME OneCall, SingleInv, NEW c \in Callers
    PROVE  /\ pc[c] \in {"prepare", "issue", "waitDisconnect", "attach", "entry"}
                => ~Waiting
           /\ pc[c] \in {"prepare", "issue"} => "HANDSHAKE_DONE" \notin registered
<1>1. ASSUME Waiting
      PROVE  pc[c] \notin {"prepare", "issue", "waitDisconnect", "attach", "entry"}
    <2>1. joinUserData \in Callers
        BY <1>1 DEF Waiting, SingleInv, TypeOK
    <2>2. joinUserData = c
        BY <2>1 DEF OneCall
    <2> QED
        BY <2>1, <2>2 DEF SingleInv, IInv, AttachedInv, Attached
<1>2. ASSUME "HANDSHAKE_DONE" \in registered
      PROVE  pc[c] \notin {"prepare", "issue"}
    <2>1. PICK d \in Callers : pc[d] \in Listening
        BY <1>2 DEF SingleInv, IInv, ListeningInv
    <2>2. d = c
        BY <2>1 DEF OneCall
    <2> QED
        BY <2>1, <2>2 DEF Listening
<1> QED
    BY <1>1, <1>2

\* What an event changes, by its handler.
LEMMA EventChanges ==
    ASSUME ~Threaded, NEW event \in Events, Indicate(event, registered)
    PROVE  /\ ~Waiting \/ event = "NO_NETWORK" => sema' = sema
           /\ event = "NO_NETWORK" =>
                 errorFlag' = errorFlag
                 /\ status' \in {status, {"NO_NETWORKS", "CONNECTING"}}
           /\ event \in {"CONNECT", "HANDSHAKE_DONE"} =>
                 errorFlag' = errorFlag
                 /\ status' \in {status, LinkReady, LinkReady \cup {"HANDSHAKE_DONE"}}
           /\ event = "DISCONNECT" =>
                 errorFlag' \in {errorFlag, Blame} /\ status' = status
           /\ ~Waiting => errorFlag' = errorFlag
           /\ ~Waiting /\ "HANDSHAKE_DONE" \notin registered => status' = status
<1> USE DEF Events
<1>1. CASE UNCHANGED dispatched
    BY <1>1 DEF dispatched, handled
<1>2. CASE event \in registered /\ Handle(event)
    <2> USE DEF Waiting, UpJoinSema
    <2>1. CASE event = "NO_NETWORK"
        BY <1>2, <2>1 DEF Handle, NoNetworkHdl
    <2>2. CASE event = "CONNECT"
        BY <1>2, <2>2 DEF Handle, ConnectedHdl
    <2>3. CASE event = "HANDSHAKE_DONE"
        BY <1>2, <2>3 DEF Handle, HandshakeDoneHdl
    <2>4. CASE event = "DISCONNECT"
        BY <1>2, <2>4 DEF Handle, DisconnHdl
    <2> QED
        BY <2>1, <2>2, <2>3, <2>4
<1> QED
    BY <1>1, <1>2 DEF Indicate

\* What a disconnection is blamed on agrees with where the driver was.
LEMMA BlameAgrees ==
    ASSUME PhaseInv, driver # "down"
    PROVE  /\ Blame = "NONE_NETWORK" => driver = "noNetwork"
           /\ Blame = "WRONG_PASSWORD" => driver \in {"assoc", "joined"}
  BY DEF Blame, PhaseInv, LinkReady

\* An event of the driver, whether a caller disconnected the station or not.
LEMMA EventStep ==
    ASSUME ~Threaded, OneCall, SingleInv, NEW event \in Events,
           Indicate(event, registered), UNCHANGED <<call, result>>,
           \A c \in Callers : pc'[c] \in {pc[c], "spin"},
           \/ event = "NO_NETWORK" /\ driver = "joining" /\ driver' = "noNetwork"
                 /\ fell' = fell
           \/ event = "CONNECT" /\ driver = "joining"
                 /\ driver' \in {"assoc", "joined"} /\ fell' = fell
           \/ event = "HANDSHAKE_DONE" /\ driver = "assoc" /\ driver' = "joined"
                 /\ fell' = fell
           \/ event = "DISCONNECT" /\ driver # "down" /\ driver' = "down"
                 /\ fell' = driver
    PROVE  WokenInv' /\ PhaseInv'
<1>1. WokenInv /\ PhaseInv
    BY DEF SingleInv
<1>2. ASSUME NEW c \in Callers
      PROVE  /\ pc'[c] \in {"issue", "waitDisconnect", "attach"} => sema'[c] = 0
             /\ Woken(c)' => driver' \notin {"joining", "noNetwork"}
             /\ pc'[c] \in {"prepare", "issue"} => status' = {"CONNECTING"}
             /\ pc'[c] = "issue" => errorFlag' = "UNKNOWN"
    <2>1. CASE pc'[c] \in {"prepare", "issue", "waitDisconnect", "attach"}
        <3>1. pc'[c] = pc[c]
            BY <2>1
        <3>2. ~Waiting
            BY <2>1, <3>1, PreparingAlone
        <3>3. sema' = sema /\ errorFlag' = errorFlag
            BY <3>2, EventChanges
        <3>4. pc[c] \in {"prepare", "issue"} => status' = status
            BY <3>2, PreparingAlone, EventChanges
        <3> QED
            BY <1>1, <2>1, <3>1, <3>3, <3>4 DEF WokenInv, PhaseInv, Woken
    <2>2. CASE event = "NO_NETWORK" /\ Woken(c)'
        <3>1. sema' = sema
            BY <2>2, EventChanges
        <3>2. Woken(c)
            BY <2>2, <3>1 DEF Woken
        <3> QED
            BY <1>1, <2>2, <3>2 DEF WokenInv
    <2> QED
        BY <2>1, <2>2
<1>3. WokenInv'
    BY <1>2 DEF WokenInv
<1>4. PhaseInv'
    <2>1. CASE event = "NO_NETWORK"
        BY <1>1, <1>2, <2>1, EventChanges DEF PhaseInv
    <2>2. CASE event \in {"CONNECT", "HANDSHAKE_DONE"}
        BY <1>1, <1>2, <2>2, EventChanges DEF PhaseInv, LinkReady
    <2>3. CASE event = "DISCONNECT"
        BY <1>1, <1>2, <2>3, EventChanges, BlameAgrees DEF PhaseInv
    <2> QED
        BY <2>1, <2>2, <2>3 DEF Events
<1> QED
    BY <1>3, <1>4

\* The steps of the call that leave the driver alone.
LEMMA QuietSteps ==
    ASSUME ~Threaded, OneCall, SingleInv, NEW c \in Callers,
           \/ \E kind \in CallKinds : Enter(c, kind)
           \/ Proceed(c) /\ ~EntryBusy(c) /\ ~Issue(c)
    PROVE  WokenInv' /\ PhaseInv'
<1>1. CallerTypes /\ sema \in [Callers -> Nat] /\ WokenInv /\ PhaseInv
    BY TypeOKParts DEF SingleInv, HandledTypes
<1>2. \A d \in Callers : d = c
    BY DEF OneCall
<1> USE DEF CallerTypes, GoTo, Return, WokenInv, PhaseInv, Woken, dispatched,
        handled, station
<1>3. CASE \E kind \in CallKinds : Enter(c, kind)
    BY <1>1, <1>2, <1>3 DEF Enter
<1>4. CASE EntryFree(c) \/ EntryDisconnectFails(c) \/ SpinEnds(c)
    BY <1>1, <1>2, <1>4 DEF EntryFree, EntryDisconnectFails, SpinEnds
<1>5. CASE Start(c)
    BY <1>1, <1>2, <1>5 DEF Start
<1>6. CASE InvalidKey(c) \/ NoMemory(c)
    BY <1>1, <1>2, <1>6 DEF InvalidKey, NoMemory
<1>7. CASE Prepare(c)
    BY <1>1, <1>2, <1>7 DEF Prepare
<1>8. CASE PrepareFails(c)
    BY <1>1, <1>2, <1>8 DEF PrepareFails
<1>9. CASE IssueFails(c) \/ WaitDisconnect(c)
    BY <1>1, <1>2, <1>9 DEF IssueFails, WaitDisconnect
<1>10. CASE Attach(c)
    BY <1>1, <1>2, <1>10 DEF Attach
<1>11. CASE JoinTimeout(c) \/ Joined(c) \/ Check(c)
    BY <1>1, <1>2, <1>11 DEF JoinTimeout, AfterWait, Joined, Check
<1>12. CASE FreeSema(c) \/ FreeResult(c) \/ Detach(c)
    BY <1>1, <1>2, <1>12 DEF FreeSema, FreeResult, Detach
<1>13. CASE UnregisterHandlers(c) \/ Finish(c)
    BY <1>1, <1>2, <1>13 DEF UnregisterHandlers, UnregisterHandshake, Unregister,
       Finish
<1> QED
    BY <1>3, <1>4, <1>5, <1>6, <1>7, <1>8, <1>9, <1>10, <1>11, <1>12, <1>13
    DEF Proceed

\* The call disconnects the join in progress, before its own.
LEMMA EntryBusyStep ==
    ASSUME ~Threaded, OneCall, SingleInv, NEW c \in Callers, EntryBusy(c)
    PROVE  WokenInv' /\ PhaseInv'
<1>1. /\ CallerTypes /\ WokenInv /\ PhaseInv
      /\ UNCHANGED <<call, result>>
    BY TypeOKParts DEF SingleInv, EntryBusy
<1>2. \A d \in Callers : pc'[d] \in {pc[d], "spin"}
    BY <1>1 DEF EntryBusy, GoTo, CallerTypes
<1>3. CASE driver = "down"
    <2>1. UNCHANGED <<sema, status, errorFlag, driver, fell>>
        BY <1>3 DEF EntryBusy, WifiDisconnect, dispatched, handled, station
    <2> QED
        BY <1>1, <1>2, <2>1 DEF WokenInv, PhaseInv, Woken
<1>4. CASE driver # "down"
    BY <1>1, <1>2, <1>4, EventStep DEF EntryBusy, WifiDisconnect, Events
<1> QED
    BY <1>3, <1>4

\* The call starts its join: nobody is woken by the station that leaves.
LEMMA IssueStep ==
    ASSUME ~Threaded, OneCall, SingleInv, NEW c \in Callers, Issue(c)
    PROVE  WokenInv' /\ PhaseInv'
<1>1. CallerTypes /\ WokenInv /\ PhaseInv
    BY TypeOKParts DEF SingleInv
<1>2. pc[c] = "issue" /\ ~Waiting
    BY PreparingAlone DEF Issue
<1>3. sema' = sema /\ errorFlag' = errorFlag /\ status' = status
    BY <1>2 DEF Issue, UpJoinSema, Waiting
<1>4. pc'[c] = "attach" /\ driver' = "joining"
    BY <1>1 DEF Issue, GoTo, CallerTypes
<1>5. sema[c] = 0 /\ status = {"CONNECTING"} /\ errorFlag = "UNKNOWN"
    BY <1>1, <1>2 DEF WokenInv, PhaseInv
<1>6. WokenInv'
    BY <1>3, <1>4, <1>5 DEF WokenInv, Woken, OneCall
<1>7. PhaseInv'
    BY <1>3, <1>4, <1>5 DEF PhaseInv, OneCall
<1> QED
    BY <1>6, <1>7

LEMMA NextSingle ==
    ASSUME ~Threaded, OneCall, SingleInv, [Next]_vars
    PROVE  SingleInv'
<1>1. IInv' /\ TypeOK'
    BY NextIInv, NextTypes DEF SingleInv
<1>2. WokenInv' /\ PhaseInv'
    <2>1. ASSUME NEW c \in Callers,
                 (\E kind \in CallKinds : Enter(c, kind)) \/ Proceed(c)
          PROVE  WokenInv' /\ PhaseInv'
        BY <2>1, QuietSteps, EntryBusyStep, IssueStep
    <2>2. CASE Driver
        <3>1. UNCHANGED <<pc, call, result>>
            BY <2>2 DEF Driver, DriverTo, caller
        <3> QED
            BY <2>2, <3>1, EventStep DEF Driver, DriverTo, Events
    <2>3. CASE AppDisconnect
        <3>1. UNCHANGED <<pc, call, result>>
            BY <2>3 DEF AppDisconnect, caller
        <3>2. CASE driver = "down"
            <4>1. UNCHANGED <<sema, status, errorFlag, driver, fell>>
                BY <2>3, <3>2 DEF AppDisconnect, WifiDisconnect, dispatched,
                   handled, station
            <4> QED
                BY <3>1, <4>1 DEF SingleInv, WokenInv, PhaseInv, Woken
        <3>3. CASE driver # "down"
            BY <2>3, <3>1, <3>3, EventStep DEF AppDisconnect, WifiDisconnect,
               Events
        <3> QED
            BY <3>2, <3>3
    <2>4. ~Worker
        BY DEF Worker, SingleInv, IInv
    <2>5. CASE UNCHANGED vars
        <3>1. UNCHANGED <<pc, call, result, sema, status, errorFlag, driver, fell>>
            BY <2>5 DEF vars, caller, dispatched, handled, station
        <3> QED
            BY <3>1 DEF SingleInv, WokenInv, PhaseInv, Woken
    <2> QED
        BY <2>1, <2>2, <2>3, <2>4, <2>5 DEF Next
<1> QED
    BY <1>1, <1>2 DEF SingleInv

LEMMA SingleAlways == ~Threaded /\ OneCall => (Spec => []SingleInv)
<1>1. SUFFICES ASSUME ~Threaded, OneCall
               PROVE  Spec => []SingleInv
    OBVIOUS
<1>2. Init => SingleInv
    <2>1. Init => WokenInv /\ PhaseInv
        BY DEF Init, WokenInv, Woken, PhaseInv
    <2> QED
        BY <2>1, InitIInv, InitTypes DEF SingleInv
<1>3. SingleInv /\ [Next]_vars => SingleInv'
    BY <1>1, NextSingle
<1> QED
    BY <1>2, <1>3, PTL DEF Spec

\* With one caller and the driver dispatching, a call is woken by the end of
\* the join it started, never while the driver is still at it.
THEOREM WakesAreVerdicts ==
    ~Threaded /\ OneCall => (Spec => []WokenByVerdict)
<1>1. SingleInv => WokenByVerdict
    BY DEF SingleInv, WokenInv, Woken, WokenByVerdict
<1> QED
    BY <1>1, SingleAlways, PTL

\* Under the same hypotheses error_flag blames the network only when the last
\* join ended in not finding it, and the password only when the link was made.
THEOREM ErrorsNamePhases ==
    ~Threaded /\ OneCall => (Spec => []ErrorNamesPhase)
<1>1. SingleInv => ErrorNamesPhase
    BY DEF SingleInv, PhaseInv, ErrorNamesPhase
<1> QED
    BY <1>1, SingleAlways, PTL
=============================================================================
