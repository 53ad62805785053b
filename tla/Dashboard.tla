------------------------------- MODULE Dashboard ------------------------------
(***************************************************************************)
(* The control room: the web backend (apps/backend/main.py and             *)
(* modbus_client.py) between the pages of the frontend (App.vue) and the   *)
(* conveyor registers.                                                     *)
(*                                                                         *)
(* The backend is one asyncio program: the status poller and one handler   *)
(* per WebSocket are tasks that take turns at every await and share the    *)
(* Modbus client, its flag is_connected and the list of sockets.           *)
(***************************************************************************)
EXTENDS Naturals, SequencesExt, FiniteSets

CONSTANTS
    Pages,      \* browser pages
    Sockets,    \* identities of WebSockets, free again when none is listed
    Poller,     \* the task status_poller
    NoSocket,
    Actions,    \* what the clients ask of the conveyor: "start", "stop"
    MaxRaised   \* bound on the handlers that end by an exception

ASSUME DashboardAssumption ==
    /\ Poller \notin Sockets /\ NoSocket \notin Sockets
    /\ Actions \subseteq {"start", "stop"}
    /\ MaxRaised \in Nat

COMMAND_STOP == 0
COMMAND_RUN_CLOCKWISE == 1
STATUS_IDLE == 0
STATUS_RUNNING == 1

VARIABLES
    command, status,    \* registers 40021, as this client writes it, and 40023
    server,             \* the Modbus server is up
    link,               \* the client's connection to it is intact
    is_connected,
    sim_status,
    pc,                 \* what each task awaits
    connecting,         \* ... and whether it awaits connect() first
    active,             \* manager.active_connections
    polled,             \* the status of the broadcast
    cursor,             \* the position of each task's broadcast in the list
    socket,             \* the WebSocket of each page
    shown, eStop        \* the conveyor status of each page, and its E-STOP

registerVars == <<command, status>>
plantVars == <<registerVars, server>>
serviceVars == <<link, is_connected, sim_status>>
taskVars == <<pc, connecting>>
broadcastVars == <<active, polled, cursor>>
pageVars == <<socket, shown, eStop>>
vars == <<plantVars, serviceVars, taskVars, broadcastVars, pageVars>>

Tasks == Sockets \cup {Poller}
Writes == Actions       \* write_control, by its action
Calls == {"read_status", "read_crop_counts"} \cup Writes
LabelOf(s) == IF s = STATUS_RUNNING THEN "running" ELSE "waiting"
ValueOf(a) == IF a = "start" THEN COMMAND_RUN_CLOCKWISE ELSE COMMAND_STOP

-----------------------------------------------------------------------------
(* The tasks and the shared client *)

(* A task goes on to c; a call begins with connect() if there is no        *)
(* connection by then.                                                     *)
Goto(t, c) ==
    /\ pc' = [pc EXCEPT ![t] = c]
    /\ connecting' = [connecting EXCEPT ![t] = c \in Calls /\ ~is_connected']

(* lifespan: the first connect(), then the poller *)
Starts ==
    /\ link' = is_connected'
    /\ sim_status' = "waiting"
    /\ pc' = [t \in Tasks |-> IF t = Poller THEN "read_status" ELSE "off"]
    /\ connecting' = [t \in Tasks |-> t = Poller /\ ~is_connected']
    /\ active' = << >>
    /\ polled' = "waiting"
    /\ cursor' = [t \in Tasks |-> 1]

Init ==
    /\ command = COMMAND_STOP /\ status = STATUS_IDLE
    /\ server = TRUE /\ link = TRUE /\ is_connected = TRUE
    /\ sim_status = "waiting"
    /\ pc = [t \in Tasks |-> IF t = Poller THEN "read_status" ELSE "off"]
    /\ connecting = [t \in Tasks |-> FALSE]
    /\ active = << >> /\ polled = "waiting" /\ cursor = [t \in Tasks |-> 1]
    /\ socket = [p \in Pages |-> NoSocket]
    /\ shown = [p \in Pages |-> "waiting"]
    /\ eStop = [p \in Pages |-> FALSE]

(* The backend ends and is started again, which every page notices. *)
BackendRestarts ==
    /\ is_connected' \in {FALSE, server}
    /\ Starts
    /\ socket' = [p \in Pages |-> NoSocket]
    /\ UNCHANGED <<plantVars, shown, eStop>>

ConnectSucceeds(t) ==
    /\ connecting[t]
    /\ server
    /\ is_connected' = TRUE
    /\ link' = TRUE
    /\ connecting' = [connecting EXCEPT ![t] = FALSE]
    /\ UNCHANGED <<plantVars, sim_status, pc, broadcastVars, pageVars>>

(* What follows the answer r of a call.  crop_counts are only passed on,   *)
(* and the success of a write only goes into the control_result.           *)
PollerReturns(t, r) ==
    \/ /\ pc[t] = "read_status"
       /\ polled' = r
       /\ Goto(t, "read_crop_counts")
       /\ UNCHANGED <<active, cursor>>
    \/ /\ pc[t] = "read_crop_counts"
       /\ Goto(t, "send")
       /\ UNCHANGED broadcastVars

HandlerReturns(t) ==
    /\ pc[t] \in Writes
    /\ Goto(t, "send")
    /\ UNCHANGED broadcastVars

Returns(t, r) == PollerReturns(t, r) \/ HandlerReturns(t)

(* No connection: the call is simulated. *)
ConnectFails(t) ==
    /\ connecting[t]
    /\ is_connected' = FALSE
    /\ sim_status' = IF pc[t] \in Writes THEN LabelOf(ValueOf(pc[t])) ELSE sim_status
    /\ UNCHANGED <<plantVars, link, pageVars>>
    /\ Returns(t, sim_status)

Requesting(t) == pc[t] \in Calls /\ ~connecting[t]

Written(t) == IF pc[t] \in Writes THEN ValueOf(pc[t]) ELSE command

Succeeds(t) ==
    /\ Requesting(t)
    /\ link
    /\ command' = Written(t)
    /\ UNCHANGED <<status, server, serviceVars, pageVars>>
    /\ Returns(t, LabelOf(status))

(* An error reply *)
Rejected(t) ==
    /\ Requesting(t)
    /\ link
    /\ UNCHANGED <<plantVars, serviceVars, pageVars>>
    /\ Returns(t, "error")

(* Variant: the flag survives the exception. *)
Raises_flag_kept(t) ==
    /\ Requesting(t)
    /\ ~link
    /\ is_connected' = is_connected
    /\ UNCHANGED <<plantVars, link, sim_status, pageVars>>
    /\ Returns(t, "error")

(* Variant: only the poller's requests have a timeout. *)
Raises_poller_only(t) ==
    /\ Requesting(t)
    /\ ~link
    /\ t = Poller
    /\ is_connected' = FALSE
    /\ UNCHANGED <<plantVars, link, sim_status, pageVars>>
    /\ Returns(t, "error")

(* An exception, since the connection is broken *)
Raises(t) ==
    /\ Requesting(t)
    /\ ~link
    /\ is_connected' = FALSE
    /\ UNCHANGED <<plantVars, link, sim_status, pageVars>>
    /\ Returns(t, "error")

(* ... or no answer in time, with or without an effect *)
AnswerLost(t) ==
    /\ Requesting(t)
    /\ link
    /\ is_connected' = FALSE
    /\ command' \in {command, Written(t)}
    /\ UNCHANGED <<status, server, link, sim_status, pageVars>>
    /\ Returns(t, "error")

-----------------------------------------------------------------------------
(* broadcast: of the status by the poller, of a control_result by a        *)
(* handler.  Each goes through the list as it finds it after every await.  *)

Viewers(s) == {p \in Pages : socket[p] = s}

(* ws.onmessage of a page: what it shows of conveyor_status, but for the   *)
(* counts; a control_result it only logs.                                  *)
Receive(p) == IF eStop[p] THEN shown[p] ELSE polled

(* The next socket of the list.  A send to a socket that is gone raises,   *)
(* and is passed over.                                                     *)
SendNext(t) ==
    /\ pc[t] = "send"
    /\ cursor[t] <= Len(active)
    /\ shown' = [p \in Pages |->
          IF t = Poller /\ socket[p] = active[cursor[t]] THEN Receive(p) ELSE shown[p]]
    /\ cursor' = [cursor EXCEPT ![t] = @ + 1]
    /\ UNCHANGED <<plantVars, serviceVars, taskVars, active, polled, socket, eStop>>

SendDone(t) ==
    /\ pc[t] = "send"
    /\ cursor[t] > Len(active)
    /\ cursor' = [cursor EXCEPT ![t] = 1]
    /\ polled' = IF t = Poller THEN "waiting" ELSE polled     \* not used before it is set again
    /\ UNCHANGED <<plantVars, serviceVars, active, pageVars>>
    /\ Goto(t, IF t = Poller THEN "sleep" ELSE "receive")

Wake ==
    /\ pc[Poller] = "sleep"
    /\ UNCHANGED <<plantVars, serviceVars, broadcastVars, pageVars>>
    /\ Goto(Poller, "read_status")

-----------------------------------------------------------------------------
(* The handlers, websocket_endpoint *)

(* initWebSocket of a page, and manager.connect *)
Open(p, s) ==
    /\ socket[p] = NoSocket
    /\ pc[s] = "off"
    /\ active' = Append(active, s)
    /\ socket' = [socket EXCEPT ![p] = s]
    /\ UNCHANGED <<plantVars, serviceVars, polled, cursor, shown, eStop>>
    /\ Goto(s, "receive")

(* control_conveyor *)
Press(s, a) ==
    /\ pc[s] = "receive"
    /\ Viewers(s) # {}
    /\ UNCHANGED <<plantVars, serviceVars, broadcastVars, pageVars>>
    /\ Goto(s, a)

(* Variant: disconnect takes the first of the list. *)
Disconnect_first(s) ==
    /\ pc[s] = "receive"
    /\ Viewers(s) = {}
    /\ active' = Tail(active)
    /\ UNCHANGED <<plantVars, serviceVars, polled, cursor, pageVars>>
    /\ Goto(s, "off")

(* WebSocketDisconnect *)
Disconnect(s) ==
    /\ pc[s] = "receive"
    /\ Viewers(s) = {}
    /\ active' = RemoveFirst(active, s)
    /\ UNCHANGED <<plantVars, serviceVars, polled, cursor, pageVars>>
    /\ Goto(s, "off")

Raised == {s \in Sockets : pc[s] = "raised"}

(* Any other exception ends the handler without disconnect: json.loads, or *)
(* get, on a message that is no JSON object, which may also be the last of *)
(* a page that has gone.  The server closes the connection, which its page *)
(* notices; the socket stays in the list.                                  *)
HandlerRaises(s) ==
    /\ pc[s] = "receive"
    /\ Cardinality(Raised) < MaxRaised
    /\ socket' = [p \in Pages |-> IF socket[p] = s THEN NoSocket ELSE socket[p]]
    /\ UNCHANGED <<plantVars, serviceVars, broadcastVars, shown, eStop>>
    /\ Goto(s, "raised")

-----------------------------------------------------------------------------
(* The pages and the plant *)

(* ws.onclose: the page was closed or lost its connection. *)
Close(p) ==
    /\ socket[p] # NoSocket
    /\ socket' = [socket EXCEPT ![p] = NoSocket]
    /\ UNCHANGED <<plantVars, serviceVars, taskVars, broadcastVars, shown, eStop>>

ToggleEStop(p) ==
    /\ eStop' = [eStop EXCEPT ![p] = ~eStop[p]]
    /\ shown' = [shown EXCEPT ![p] = IF eStop[p] THEN "waiting" ELSE "error"]
    /\ UNCHANGED <<plantVars, serviceVars, taskVars, broadcastVars, socket>>

ConveyorReports ==
    /\ status' \in {STATUS_IDLE, STATUS_RUNNING} \ {status}
    /\ UNCHANGED <<command, server, serviceVars, taskVars, broadcastVars, pageVars>>

ServerStops ==
    /\ server
    /\ server' = FALSE
    /\ link' = FALSE
    /\ UNCHANGED <<registerVars, is_connected, sim_status, taskVars, broadcastVars, pageVars>>

ServerStarts ==
    /\ ~server
    /\ server' = TRUE
    /\ command' = COMMAND_STOP
    /\ status' = STATUS_IDLE
    /\ UNCHANGED <<serviceVars, taskVars, broadcastVars, pageVars>>

LinkBreaks ==
    /\ link
    /\ link' = FALSE
    /\ UNCHANGED <<plantVars, is_connected, sim_status, taskVars, broadcastVars, pageVars>>

(* pymodbus opens a lost connection again on its own. *)
LinkReturns ==
    /\ server /\ ~link /\ is_connected
    /\ link' = TRUE
    /\ UNCHANGED <<plantVars, is_connected, sim_status, taskVars, broadcastVars, pageVars>>

-----------------------------------------------------------------------------

CallStep(t) == ConnectSucceeds(t) \/ ConnectFails(t) \/ Succeeds(t) \/ Raises(t)

SendStep(t) == SendNext(t) \/ SendDone(t)

PollerStep == CallStep(Poller) \/ SendStep(Poller) \/ Wake
HandlerStep(s) == CallStep(s) \/ SendStep(s) \/ Disconnect(s)
PageOpens(p) == \E s \in Sockets : Open(p, s)

Presses == \E s \in Sockets : \E a \in Writes : Press(s, a)

Disturbance ==
    \/ BackendRestarts \/ ServerStops \/ LinkBreaks \/ ConveyorReports
    \/ \E s \in Sockets : HandlerRaises(s)
    \/ \E p \in Pages : Close(p) \/ ToggleEStop(p)

Next ==
    \/ PollerStep
    \/ \E s \in Sockets : HandlerStep(s)
    \/ \E p \in Pages : PageOpens(p)
    \/ Presses
    \/ Disturbance
    \/ \E t \in Tasks : Rejected(t) \/ AnswerLost(t)
    \/ ServerStarts \/ LinkReturns

(* An answer that fails although the server is up, where it matters: a     *)
(* call whose answer is not shown takes the same step when it is rejected. *)
Unlucky ==
    \E t \in Tasks :
        \/ server /\ ConnectFails(t)
        \/ is_connected /\ AnswerLost(t)
        \/ pc[t] = "read_status" /\ (Rejected(t) \/ AnswerLost(t))

Trouble == Disturbance \/ Unlucky

Spec == Init /\ [][Next]_vars

(* asyncio runs every task whose await is over, requests and connections   *)
(* end by a timeout at the latest, a page takes what it is sent, and one   *)
(* that lost its WebSocket opens another.                                  *)
Fairness ==
    /\ WF_vars(PollerStep)
    /\ \A s \in Sockets : WF_vars(HandlerStep(s))
    /\ \A p \in Pages : WF_vars(PageOpens(p))

FairSpec == Spec /\ Fairness

-----------------------------------------------------------------------------
(* Properties *)

(* Nobody is listed twice, whoever is served is listed, and nobody stays   *)
(* listed after its handler has ended, but for a handler that something    *)
(* other than WebSocketDisconnect has ended (main.py:88 to 89, 108): its   *)
(* socket stays for good.                                                  *)
Served == {s \in Sockets : pc[s] \notin {"off", "raised"}}

ListedWhileServed ==
    /\ IsInjective(active)
    /\ Range(active) = Served \cup Raised

(* Once the surroundings are quiet, every page comes to show what the      *)
(* conveyor reports, whatever happened before and however often somebody   *)
(* presses start or stop.                                                  *)
PagesShowStatus ==
    \A p \in Pages :
        \/ []<><<Trouble>>_vars
        \/ <>[](~server \/ eStop[p])
        \/ <>[](shown[p] = LabelOf(status))

(* A handler is ready for the next message again and again, unless it has  *)
(* ended: it comes back from its write, also without a server, and from    *)
(* telling of the result, although the list changes under its cursor.      *)
HandlersReturn ==
    \A s \in Sockets : []<>(pc[s] \in {"receive", "off", "raised"})

(* The E-STOP of a page, which logs that the whole system has been         *)
(* stopped, takes the run command out of the register, at least with a     *)
(* server to write to and in quiet surroundings.                           *)
EStopStopsConveyor ==
    \A p \in Pages :
        \/ []<><<Trouble \/ Presses>>_vars
        \/ <>[]~server
        \/ eStop[p] ~> (command # COMMAND_RUN_CLOCKWISE \/ ~eStop[p])

=============================================================================
