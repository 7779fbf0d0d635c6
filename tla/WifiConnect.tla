----------------------------- MODULE WifiConnect -----------------------------
(***************************************************************************)
(* Joining a network: wifi_connect, wifi_connect_bssid and wifi_disconnect *)
(* of component/common/api/wifi/wifi_conf.c with the event handlers they   *)
(* register, and the dispatch of events in wifi_ind.c.                     *)
(*                                                                         *)
(* A caller starts the join in the driver, publishes its join_result in    *)
(* join_user_data and waits for its semaphore, which the handlers raise.   *)
(* The driver runs at a higher priority than the callers: a handler runs   *)
(* to its end between two steps of a caller.  With CONFIG_WIFI_IND_USE_    *)
(* THREAD the events go through a queue to a worker thread instead.        *)
(***************************************************************************)
EXTENDS Integers, Sequences

CONSTANTS
    Callers,        \* the tasks that call wifi_connect or wifi_connect_bssid
    NoCaller,       \* NULL, as the value of join_user_data
    Threaded,       \* CONFIG_WIFI_IND_USE_THREAD
    CallKinds,      \* how they call: see KindsAssumption
    QueueSize       \* WIFI_MANAGER_Q_SZ

ASSUME ConstantsAssumption ==
    /\ NoCaller \notin Callers
    /\ Threaded \in BOOLEAN
    /\ QueueSize \in Nat

Events == {"NO_NETWORK", "CONNECT", "DISCONNECT", "HANDSHAKE_DONE"}

\* By BSSID or not, to an open (or WEP) or a WPA network, with a semaphore of
\* the caller's or NULL.
ASSUME KindsAssumption ==
    CallKinds \subseteq [bssid : BOOLEAN, open : BOOLEAN, user : BOOLEAN]

NoCall == [bssid |-> FALSE, open |-> FALSE, user |-> FALSE]

VARIABLES
    pc, call,   \* of each caller: where it is, and how it called
    result,     \* of each caller: what its call will return
    owned,      \* of each caller: which of join_result and its semaphore live
    sema,       \* of each caller: the count of join_sema
    status,     \* rtw_join_status: LINK_READY stands for the five flags that
                \* are set and cleared together
    errorFlag,  \* error_flag; INVALID_KEY is WRONG_PASSWORD as it is set for
                \* the length of the password alone
    joinUserData,       \* join_user_data: the caller whose join_result it is
    registered,         \* the events whose handler is in event_callback_list
    disconnectSema,     \* disconnect_sema: its count, -1 for NULL
    queue,              \* the event queue of wifi_worker_thread
    driver,     \* the WLAN driver: where its join is
    openNet,    \* the WLAN driver: whether the network is an open one
    fell        \* the WLAN driver: where the join was when it last ended

handled == <<sema, status, errorFlag, disconnectSema>>
dispatched == <<handled, queue>>
station == <<driver, openNet, fell>>
caller == <<pc, call, result, owned>>
vars == <<caller, dispatched, station, joinUserData, registered>>

Init ==
    /\ pc = [c \in Callers |-> "idle"]
    /\ call = [c \in Callers |-> NoCall]
    /\ result = [c \in Callers |-> "none"]
    /\ owned = [c \in Callers |-> {}]
    /\ sema = [c \in Callers |-> 0]
    /\ status = {}
    /\ errorFlag = "UNKNOWN"
    /\ joinUserData = NoCaller
    /\ registered = {}
    /\ disconnectSema = -1
    /\ queue = <<>>
    /\ driver = "down"
    /\ openNet = FALSE
    /\ fell = "none"

-----------------------------------------------------------------------------
(* The event handlers.                                                     *)

\* rtw_up_sema of join_user_data: a deleted semaphore counts nothing more.
UpJoinSema ==
    sema' = IF joinUserData # NoCaller /\ "sema" \in owned[joinUserData]
            THEN [sema EXCEPT ![joinUserData] = @ + 1] ELSE sema

Waiting == joinUserData # NoCaller
LinkReady == {"CONNECTING", "LINK_READY"}

NoNetworkHdl ==
    /\ status' = IF Waiting THEN {"NO_NETWORKS", "CONNECTING"} ELSE status
    /\ UNCHANGED <<sema, errorFlag, disconnectSema>>

\* On a WPA network the handshake is still to come.
ConnectedHdl ==
    /\ status' = IF Waiting THEN LinkReady ELSE status
    /\ IF Waiting /\ call[joinUserData].open THEN UpJoinSema ELSE UNCHANGED sema
    /\ UNCHANGED <<errorFlag, disconnectSema>>

HandshakeDoneHdl ==
    /\ status' = LinkReady \cup {"HANDSHAKE_DONE"}
    /\ UpJoinSema
    /\ UNCHANGED <<errorFlag, disconnectSema>>

\* What a disconnection is blamed on.  CONNECT_FAIL stands for the codes of
\* the authentication and of the association too, WRONG_PASSWORD for
\* 4WAY_HANDSHAKE_TIMEOUT too.
Blame ==
    IF "NO_NETWORKS" \in status THEN "NONE_NETWORK"
    ELSE IF status = {"CONNECTING"} THEN "CONNECT_FAIL"
    ELSE IF status = LinkReady /\ ~call[joinUserData].open THEN "WRONG_PASSWORD"
    ELSE errorFlag

DisconnHdl ==
    /\ errorFlag' = IF Waiting THEN Blame ELSE errorFlag
    /\ UpJoinSema
    /\ disconnectSema' = IF disconnectSema >= 0 THEN disconnectSema + 1 ELSE -1
    /\ UNCHANGED status

Handle(event) ==
    \/ event = "NO_NETWORK" /\ NoNetworkHdl
    \/ event = "CONNECT" /\ ConnectedHdl
    \/ event = "HANDSHAKE_DONE" /\ HandshakeDoneHdl
    \/ event = "DISCONNECT" /\ DisconnHdl

\* wifi_indication to the handlers in `to`: rtw_indicate_event_handle, or
\* rtw_send_event_to_worker, which drops the event when the queue is full.
Indicate(event, to) ==
    IF event \notin to THEN UNCHANGED dispatched
    ELSE IF Threaded
         THEN /\ queue' = IF Len(queue) < QueueSize
                          THEN Append(queue, event) ELSE queue
              /\ UNCHANGED handled
         ELSE Handle(event) /\ UNCHANGED queue

\* The worker thread; the message names the handler, registered or not.
Worker ==
    /\ queue # <<>>
    /\ Handle(Head(queue))
    /\ queue' = Tail(queue)
    /\ UNCHANGED <<caller, station, joinUserData, registered>>

-----------------------------------------------------------------------------
(* The WLAN driver (not in this repository).                               *)

DriverTo(state, event) ==
    /\ driver' = state
    /\ fell' = IF state = "down" THEN driver ELSE fell
    /\ Indicate(event, registered)
    /\ UNCHANGED <<openNet, caller, joinUserData, registered>>

Driver ==
    \/ driver = "joining" /\ DriverTo("noNetwork", "NO_NETWORK")
    \/ driver = "joining" /\ DriverTo(IF openNet THEN "joined" ELSE "assoc",
                                      "CONNECT")
    \/ driver = "assoc" /\ DriverTo("joined", "HANDSHAKE_DONE")
    \/ driver # "down" /\ DriverTo("down", "DISCONNECT")

IsConnectedToAP == driver \in {"assoc", "joined"}

\* wifi_disconnect, of any task: a bogus BSSID makes the driver leave.
WifiDisconnect ==
    IF driver = "down" THEN UNCHANGED <<dispatched, station>>
    ELSE /\ driver' = "down" /\ fell' = driver
         /\ Indicate("DISCONNECT", registered)
         /\ UNCHANGED openNet

AppDisconnect ==
    /\ WifiDisconnect
    /\ UNCHANGED <<caller, joinUserData, registered>>

-----------------------------------------------------------------------------
(* wifi_connect and wifi_connect_bssid.                                    *)

GoTo(c, label) == pc' = [pc EXCEPT ![c] = label]

Return(c) ==
    /\ GoTo(c, "idle")
    /\ call' = [call EXCEPT ![c] = NoCall]
    /\ result' = [result EXCEPT ![c] = "none"]
    /\ owned' = [owned EXCEPT ![c] = {}]

Enter(c, kind) ==
    /\ pc[c] = "idle"
    /\ call' = [call EXCEPT ![c] = kind]
    /\ GoTo(c, "entry")
    /\ UNCHANGED <<result, owned, dispatched, station, joinUserData, registered>>

\* No join in progress: on with this one.
EntryFree(c) ==
    /\ pc[c] = "entry" /\ "CONNECTING" \notin status
    /\ GoTo(c, "start")
    /\ UNCHANGED <<call, result, owned, dispatched, station, joinUserData,
                   registered>>

\* The join in progress is disconnected, then waited for.
EntryBusy(c) ==
    /\ pc[c] = "entry" /\ "CONNECTING" \in status
    /\ WifiDisconnect
    /\ GoTo(c, "spin")
    /\ UNCHANGED <<call, result, owned, joinUserData, registered>>

EntryDisconnectFails(c) ==
    /\ pc[c] = "entry" /\ "CONNECTING" \in status
    /\ Return(c)
    /\ UNCHANGED <<dispatched, station, joinUserData, registered>>

SpinEnds(c) ==
    /\ pc[c] = "spin" /\ "CONNECTING" \notin status
    /\ GoTo(c, "start")
    /\ UNCHANGED <<call, result, owned, dispatched, station, joinUserData,
                   registered>>

\* Mutant: the flags of the join before are kept.
StartKeepsFlags(c) ==
    /\ pc[c] = "start"
    /\ status' = status \cup {"CONNECTING"}
    /\ GoTo(c, "prepare")
    /\ UNCHANGED <<call, result, owned, sema, errorFlag, disconnectSema, queue,
                   station, joinUserData, registered>>

\* The flags of a simple config are overwritten, and so never seen below.
Start(c) ==
    /\ pc[c] = "start"
    /\ status' = {"CONNECTING"}
    /\ GoTo(c, "prepare")
    /\ UNCHANGED <<call, result, owned, sema, errorFlag, disconnectSema, queue,
                   station, joinUserData, registered>>

\* A password of a wrong length.
InvalidKey(c) ==
    /\ pc[c] = "prepare"
    /\ errorFlag' = IF call[c].bssid THEN "UNKNOWN" ELSE "INVALID_KEY"
    /\ status' = status \ {"CONNECTING"}
    /\ Return(c)
    /\ UNCHANGED <<sema, disconnectSema, queue, station,
                   joinUserData, registered>>

\* join_result cannot be allocated.
NoMemory(c) ==
    /\ pc[c] = "prepare"
    /\ errorFlag' = "UNKNOWN"
    /\ status' = status \ {"CONNECTING"}
    /\ Return(c)
    /\ UNCHANGED <<sema, disconnectSema, queue, station,
                   joinUserData, registered>>

\* Mutant: join_user_data is set as soon as there is a join_result.
PrepareAttached(c) ==
    /\ pc[c] = "prepare"
    /\ errorFlag' = "UNKNOWN"
    /\ owned' = [owned EXCEPT ![c] = {"result", "sema"}]
    /\ sema' = [sema EXCEPT ![c] = 0]
    /\ joinUserData' = c
    /\ GoTo(c, "issue")
    /\ UNCHANGED <<call, result, status, disconnectSema, queue, station,
                   registered>>

Prepare(c) ==
    /\ pc[c] = "prepare"
    /\ errorFlag' = "UNKNOWN"
    /\ owned' = [owned EXCEPT ![c] = {"result", "sema"}]
    /\ sema' = [sema EXCEPT ![c] = 0]
    /\ GoTo(c, "issue")
    /\ UNCHANGED <<call, result, status, disconnectSema, queue, station,
                   joinUserData, registered>>

\* The copy of the password or the semaphore cannot be had.  wifi_connect_bssid
\* returns at once; wifi_connect cleans up, and deletes join_semaphore, which
\* was never set: the model goes on as when the stack holds NULL there.
PrepareFails(c) ==
    /\ pc[c] = "prepare"
    /\ errorFlag' = "UNKNOWN"
    /\ IF call[c].bssid
       THEN /\ status' = status \ {"CONNECTING"}
            /\ Return(c)
       ELSE /\ owned' = [owned EXCEPT ![c] = {"result"}]
            /\ result' = [result EXCEPT ![c] = "NOMEM"]
            /\ GoTo(c, IF call[c].user THEN "detach" ELSE "freeSema")
            /\ UNCHANGED <<call, status>>
    /\ UNCHANGED <<sema, disconnectSema, queue, station, joinUserData,
                   registered>>

\* The handlers are registered, then the join is started: a station that is
\* connected is disconnected first, with its event.  The result of
\* wifi_connect_local is not looked at.
Issue(c) ==
    LET waits == Threaded /\ ~call[c].bssid /\ IsConnectedToAP
    IN  /\ pc[c] = "issue"
        /\ registered' = Events
        /\ driver' = "joining" /\ openNet' = call[c].open
        /\ fell' = IF driver = "down" THEN fell ELSE driver
        /\ IF ~IsConnectedToAP THEN UNCHANGED <<sema, status, errorFlag, queue>>
           ELSE IF Threaded
                THEN /\ queue' = IF Len(queue) < QueueSize
                                 THEN Append(queue, "DISCONNECT") ELSE queue
                     /\ UNCHANGED <<sema, status, errorFlag>>
                ELSE /\ errorFlag' = IF Waiting THEN Blame ELSE errorFlag
                     /\ UpJoinSema
                     /\ UNCHANGED <<status, queue>>
        /\ disconnectSema' = IF waits THEN 0 ELSE disconnectSema
        /\ GoTo(c, IF Threaded /\ ~call[c].bssid /\ disconnectSema' >= 0
                   THEN "waitDisconnect" ELSE "attach")
        /\ UNCHANGED <<call, result, owned, joinUserData>>

IssueFails(c) ==
    /\ pc[c] = "issue"
    /\ registered' = Events
    /\ GoTo(c, "attach")
    /\ UNCHANGED <<call, result, owned, dispatched, station, joinUserData>>

\* Mutant: disconnect_sema is not deleted.
WaitDisconnectKept(c) ==
    /\ pc[c] = "waitDisconnect"
    /\ disconnectSema' = 0
    /\ GoTo(c, "attach")
    /\ UNCHANGED <<call, result, owned, sema, status, errorFlag, queue,
                   station, joinUserData, registered>>

\* disconnect_sema is waited for 50 ms: with the count above 0 or without.
WaitDisconnect(c) ==
    /\ pc[c] = "waitDisconnect"
    /\ disconnectSema' = -1
    /\ GoTo(c, "attach")
    /\ UNCHANGED <<call, result, owned, sema, status, errorFlag, queue,
                   station, joinUserData, registered>>

\* A caller with a semaphore of its own does not wait.
Attach(c) ==
    /\ pc[c] = "attach"
    /\ joinUserData' = c
    /\ result' = [result EXCEPT ![c] = IF call[c].user THEN "SUCCESS" ELSE @]
    /\ GoTo(c, IF call[c].user THEN "detach" ELSE "wait")
    /\ UNCHANGED <<call, owned, dispatched, station, registered>>

\* Where a call goes from its wait: wifi_connect_bssid deletes first.
AfterWait(c) == IF call[c].bssid THEN "freeResult" ELSE "freeSema"

\* Mutant: the wait has no timeout.
JoinTimeoutNever(c) ==
    /\ pc[c] = "wait" /\ sema[c] > 0
    /\ sema' = [sema EXCEPT ![c] = 0]
    /\ GoTo(c, AfterWait(c))
    /\ UNCHANGED <<call, result, owned, status, errorFlag, disconnectSema,
                   queue, station, joinUserData, registered>>

JoinTimeout(c) ==
    /\ pc[c] = "wait" /\ sema[c] = 0
    /\ result' = [result EXCEPT ![c] = "TIMEOUT"]
    /\ GoTo(c, AfterWait(c))
    /\ UNCHANGED <<call, owned, dispatched, station, joinUserData, registered>>

\* Mutant: the wait ends though the semaphore is down.
JoinedUnguarded(c) ==
    /\ pc[c] = "wait"
    /\ sema' = [sema EXCEPT ![c] = @ - 1]
    /\ GoTo(c, IF call[c].bssid THEN "freeSema" ELSE "check")
    /\ UNCHANGED <<call, result, owned, status, errorFlag, disconnectSema,
                   queue, station, joinUserData, registered>>

Joined(c) ==
    /\ pc[c] = "wait" /\ sema[c] > 0
    /\ sema' = [sema EXCEPT ![c] = @ - 1]
    /\ GoTo(c, IF call[c].bssid THEN "freeSema" ELSE "check")
    /\ UNCHANGED <<call, result, owned, status, errorFlag, disconnectSema,
                   queue, station, joinUserData, registered>>

Check(c) ==
    /\ pc[c] = "check"
    /\ result' = [result EXCEPT ![c] =
                     IF IsConnectedToAP THEN "SUCCESS" ELSE "ERROR"]
    /\ GoTo(c, IF call[c].bssid THEN "detach" ELSE "freeSema")
    /\ UNCHANGED <<call, owned, dispatched, station, joinUserData, registered>>

\* Mutant: join_user_data is not reset before join_result is freed.
DetachLast(c) ==
    /\ pc[c] = "detach"
    /\ owned' = [owned EXCEPT ![c] = @ \ {"result"}]
    /\ GoTo(c, IF call[c].bssid THEN "unregisterConnect" ELSE "freeResult")
    /\ UNCHANGED <<call, result, dispatched, station, joinUserData, registered>>

\* wifi_connect: semaphore, detach, join_result.  wifi_connect_bssid: both
\* (after a timeout join_result first), check, detach.
FreeSema(c) ==
    /\ pc[c] = "freeSema"
    /\ owned' = [owned EXCEPT ![c] = @ \ {"sema"}]
    /\ sema' = [sema EXCEPT ![c] = 0]
    /\ GoTo(c, IF ~call[c].bssid \/ result[c] = "TIMEOUT" THEN "detach"
               ELSE "freeResult")
    /\ UNCHANGED <<call, result, status, errorFlag, disconnectSema, queue,
                   station, joinUserData, registered>>

FreeResult(c) ==
    /\ pc[c] = "freeResult"
    /\ owned' = [owned EXCEPT ![c] = @ \ {"result"}]
    /\ GoTo(c, IF ~call[c].bssid THEN "unregisterConnect"
               ELSE IF result[c] = "TIMEOUT" THEN "freeSema" ELSE "check")
    /\ UNCHANGED <<call, result, dispatched, station, joinUserData, registered>>

Detach(c) ==
    /\ pc[c] = "detach"
    /\ joinUserData' = NoCaller
    /\ GoTo(c, IF call[c].bssid THEN "unregisterConnect" ELSE "freeResult")
    /\ UNCHANGED <<call, result, owned, dispatched, station, registered>>

Unregister(c, label, event, next) ==
    /\ pc[c] = label
    /\ registered' = registered \ {event}
    /\ GoTo(c, next)
    /\ UNCHANGED <<call, result, owned, dispatched, station, joinUserData>>

\* Mutant: this handler stays as well.
UnregisterHandshakeMissing(c) ==
    Unregister(c, "unregisterHandshake", "none", "finish")

UnregisterHandshake(c) ==
    Unregister(c, "unregisterHandshake", "HANDSHAKE_DONE", "finish")

\* The handler of disconnections stays.
UnregisterHandlers(c) ==
    \/ Unregister(c, "unregisterConnect", "CONNECT", "unregisterNoNetwork")
    \/ Unregister(c, "unregisterNoNetwork", "NO_NETWORK", "unregisterHandshake")
    \/ UnregisterHandshake(c)

Finish(c) ==
    /\ pc[c] = "finish"
    /\ status' = status \ {"CONNECTING"}
    /\ Return(c)
    /\ UNCHANGED <<sema, errorFlag, disconnectSema, queue,
                   station, joinUserData, registered>>

-----------------------------------------------------------------------------
Proceed(c) ==
    \/ EntryFree(c) \/ EntryBusy(c) \/ EntryDisconnectFails(c) \/ SpinEnds(c)
    \/ Start(c) \/ InvalidKey(c) \/ NoMemory(c) \/ Prepare(c) \/ PrepareFails(c)
    \/ Issue(c) \/ IssueFails(c) \/ WaitDisconnect(c) \/ Attach(c)
    \/ JoinTimeout(c) \/ Joined(c) \/ Check(c)
    \/ FreeSema(c) \/ FreeResult(c) \/ Detach(c)
    \/ UnregisterHandlers(c) \/ Finish(c)

Next ==
    \/ \E c \in Callers : \E kind \in CallKinds : Enter(c, kind)
    \/ \E c \in Callers : Proceed(c)
    \/ Driver \/ AppDisconnect
    \/ Worker

Spec == Init /\ [][Next]_vars

\* The scheduler runs every task that is ready; a wait ends by its timeout at
\* the latest.  Nothing is asked of the driver.
FairSpec ==
    /\ Spec
    /\ \A c \in Callers : WF_vars(Proceed(c))
    /\ WF_vars(Worker)

-----------------------------------------------------------------------------
(* Properties.                                                             *)

\* Where a call is while rtw_join_status is its own.
InProgress(c) == pc[c] \notin {"idle", "entry", "spin", "start"}

\* Where a call is before its join, where the handlers may be registered for
\* its sake, and where it is at all.
Outside == {"idle", "entry", "spin", "start"}
Listening ==
    {"waitDisconnect", "attach", "wait", "check", "freeSema", "freeResult",
     "detach", "unregisterConnect", "unregisterNoNetwork",
     "unregisterHandshake"}
Labels == Outside \cup Listening \cup {"prepare", "issue", "finish"}

DriverStates == {"down", "joining", "noNetwork", "assoc", "joined"}

\* The variables keep their types.
TypeOK ==
    /\ pc \in [Callers -> Labels]
    /\ call \in [Callers -> CallKinds \cup {NoCall}]
    /\ result \in [Callers -> {"none", "NOMEM", "SUCCESS", "TIMEOUT", "ERROR"}]
    /\ owned \in [Callers -> SUBSET {"result", "sema"}]
    /\ sema \in [Callers -> Nat]
    /\ status \subseteq LinkReady \cup {"NO_NETWORKS", "HANDSHAKE_DONE"}
    /\ errorFlag \in {"UNKNOWN", "INVALID_KEY", "NONE_NETWORK", "CONNECT_FAIL",
                      "WRONG_PASSWORD"}
    /\ joinUserData \in Callers \cup {NoCaller}
    /\ registered \subseteq Events
    /\ disconnectSema \in Nat \cup {-1}
    /\ queue \in Seq(Events) /\ Len(queue) <= QueueSize
    /\ driver \in DriverStates /\ fell \in DriverStates \cup {"none"}
    /\ openNet \in BOOLEAN

\* JOIN_CONNECTING, for which the next call spins without end, is set only
\* while a call is there to clear it, though a handler sets it as well.
ConnectingMeansCall ==
    "CONNECTING" \in status => \E c \in Callers : InProgress(c)

\* What wakes a call is the end of the join it started: "if is connected to
\* ap, would trigger disconn_hdl but need to make sure it is invoked before
\* setting join_user_data".
WokenByVerdict ==
    \A c \in Callers : pc[c] = "check" => driver \notin {"joining", "noNetwork"}

\* error_flag blames the network only when the last join ended in not finding
\* it, and the password only when it ended with the link made.
ErrorNamesPhase ==
    /\ errorFlag = "NONE_NETWORK" => fell = "noNetwork"
    /\ errorFlag = "WRONG_PASSWORD" => fell \in {"assoc", "joined"}

\* While a handler may find a join_result of wifi_connect, it is allocated.
ResultOutlivesHandlers ==
    joinUserData # NoCaller /\ ~call[joinUserData].bssid =>
        "result" \in owned[joinUserData]

\* disconnect_sema exists only while a call waits for it: none is left for the
\* next call to be let through by.
DisconnectSemaTransient ==
    disconnectSema >= 0 => \E c \in Callers : pc[c] = "waitDisconnect"

\* Every call returns.
CallReturns == \A c \in Callers : pc[c] # "idle" ~> pc[c] = "idle"
=============================================================================
