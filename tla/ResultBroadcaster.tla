--------------------------- MODULE ResultBroadcaster ---------------------------
(***************************************************************************)
(* The WebSocket server inside the vision node, which shows viewers what   *)
(* the detector finds (WebSocketResultBroadcaster).                        *)
(*                                                                         *)
(* The node's own thread starts it, gives it payloads and stops it; an     *)
(* event loop in a daemon thread serves the viewers.  Each payload becomes *)
(* a task of the loop that sends it to one viewer after the other and      *)
(* waits where one does not read.  Nothing bounds that wait: send has no   *)
(* timeout here, and a ping of the library waits behind the same buffer.   *)
(***************************************************************************)
EXTENDS Naturals

CONSTANTS
    Viewers,        \* connections
    NoViewer,
    MaxFrames       \* bound on the payloads

VARIABLES
    node,               \* the node's thread: new, up, stopping, joining, ended
    thread,             \* the loop's thread: none, starting, running, failed, stopped
    started, listening, \* the flag broadcast looks at; the server's socket
    frames,             \* payloads made so far
    task,               \* of each payload: none, queued, sending, done
    todo, current,      \* the viewers it has still to send to; the one it waits for
    stale,              \* the viewers that raised
    wire,               \* each connection: away, open, full (does not read), closed
    clients,            \* the set of the broadcaster
    shutdown            \* the task of stop: none, queued, closing, done

loopVars == <<thread, started, listening>>
taskVars == <<task, todo, current, stale>>
viewerVars == <<wire, clients>>
vars == <<node, loopVars, frames, taskVars, viewerVars, shutdown>>

Init ==
    /\ node = "new" /\ thread = "none"
    /\ started = FALSE /\ listening = FALSE
    /\ frames = 0
    /\ task = [f \in 1 .. MaxFrames |-> "none"]
    /\ todo = [f \in 1 .. MaxFrames |-> {}] /\ stale = [f \in 1 .. MaxFrames |-> {}]
    /\ current = [f \in 1 .. MaxFrames |-> NoViewer]
    /\ wire = [v \in Viewers |-> "away"] /\ clients = {}
    /\ shutdown = "none"

(***************************************************************************)
(* The loop's thread.                                                      *)
(***************************************************************************)
Start ==
    /\ node = "new"
    /\ node' = "up" /\ thread' = "starting"
    /\ UNCHANGED <<started, listening, frames, taskVars, viewerVars, shutdown>>

ServerListens ==
    /\ thread = "starting"
    /\ thread' = "running" /\ started' = TRUE /\ listening' = TRUE
    /\ UNCHANGED <<node, frames, taskVars, viewerVars, shutdown>>

(* The port is taken, or the package is missing: logged, and the thread ends *)
ServerFails ==
    /\ thread = "starting"
    /\ thread' = "failed"
    /\ UNCHANGED <<node, started, listening, frames, taskVars, viewerVars, shutdown>>

(***************************************************************************)
(* Viewers.                                                                *)
(***************************************************************************)
Connects(v) ==
    /\ thread = "running" /\ listening /\ wire[v] = "away"
    /\ wire' = [wire EXCEPT ![v] = "open"] /\ clients' = clients \cup {v}
    /\ UNCHANGED <<node, loopVars, frames, taskVars, shutdown>>

StopsReading(v) ==
    /\ wire[v] = "open"
    /\ wire' = [wire EXCEPT ![v] = "full"]
    /\ UNCHANGED <<node, loopVars, frames, taskVars, clients, shutdown>>

Leaves(v) ==
    /\ wire[v] = "open"
    /\ wire' = [wire EXCEPT ![v] = "closed"]
    /\ UNCHANGED <<node, loopVars, frames, taskVars, clients, shutdown>>

Waiting(v) == {f \in 1 .. MaxFrames : current[f] = v}
First(F) == CHOOSE f \in F : \A g \in F : f <= g

(* It reads again, or leaves, which nothing makes it do: the first task     *)
(* that waits for it gets on, whatever the connection does next             *)
Recovers(v) ==
    /\ wire[v] = "full"
    /\ \E w \in {"open", "closed"} :
        /\ wire' = [wire EXCEPT ![v] = w]
        /\ IF Waiting(v) = {} THEN UNCHANGED <<current, stale>>
           ELSE LET f == First(Waiting(v)) IN
                /\ current' = [current EXCEPT ![f] = NoViewer]
                /\ stale' = [stale EXCEPT ![f] = IF w = "closed" THEN @ \cup {v} ELSE @]
    /\ UNCHANGED <<node, loopVars, frames, task, todo, clients, shutdown>>

(* _handler: wait_closed has returned *)
HandlerEnds(v) ==
    /\ thread = "running" /\ wire[v] = "closed" /\ v \in clients
    /\ clients' = clients \ {v}
    /\ UNCHANGED <<node, loopVars, frames, taskVars, wire, shutdown>>

(***************************************************************************)
(* Payloads: broadcast on the node's thread, _broadcast_json on the loop.  *)
(***************************************************************************)
(* Variant: a payload is handed over as soon as there is a loop *)
Broadcast_to_any_loop ==
    /\ node = "up" /\ frames < MaxFrames
    /\ frames' = frames + 1
    /\ task' = [task EXCEPT ![frames + 1] = "queued"]
    /\ UNCHANGED <<node, loopVars, todo, current, stale, viewerVars, shutdown>>

Broadcast ==
    /\ node = "up" /\ frames < MaxFrames
    /\ frames' = frames + 1
    /\ task' = [task EXCEPT ![frames + 1] = IF started THEN "queued" ELSE "done"]
    /\ UNCHANGED <<node, loopVars, todo, current, stale, viewerVars, shutdown>>

BeginTask(f) ==
    /\ thread = "running" /\ task[f] = "queued"
    /\ todo' = [todo EXCEPT ![f] = clients]
    /\ task' = [task EXCEPT ![f] = IF clients = {} THEN "done" ELSE "sending"]
    /\ UNCHANGED <<node, loopVars, frames, current, stale, viewerVars, shutdown>>

Sending(f) == thread = "running" /\ task[f] = "sending"

Sends(f, v) ==
    /\ Sending(f) /\ current[f] = NoViewer /\ v \in todo[f]
    /\ todo' = [todo EXCEPT ![f] = @ \ {v}]
    /\ current' = [current EXCEPT ![f] = IF wire[v] = "full" THEN v ELSE NoViewer]
    /\ stale' = [stale EXCEPT ![f] = IF wire[v] = "closed" THEN @ \cup {v} ELSE @]
    /\ UNCHANGED <<node, loopVars, frames, task, viewerVars, shutdown>>

(* send has returned, or raised because the connection is closed *)
SendReturns(f) ==
    /\ Sending(f) /\ current[f] # NoViewer /\ wire[current[f]] # "full"
    /\ current' = [current EXCEPT ![f] = NoViewer]
    /\ stale' = [stale EXCEPT ![f] = IF wire[current[f]] = "closed" THEN @ \cup {current[f]} ELSE @]
    /\ UNCHANGED <<node, loopVars, frames, task, todo, viewerVars, shutdown>>

EndTask(f) ==
    /\ Sending(f) /\ current[f] = NoViewer /\ todo[f] = {}
    /\ clients' = clients \ stale[f]
    /\ task' = [task EXCEPT ![f] = "done"]
    /\ UNCHANGED <<node, loopVars, frames, todo, current, stale, wire, shutdown>>

(***************************************************************************)
(* stop, from destroy_node.                                                *)
(***************************************************************************)
Stop ==
    /\ node = "up"
    /\ node' = "stopping" /\ shutdown' = "queued"
    /\ UNCHANGED <<loopVars, frames, taskVars, viewerVars>>

(* server.close closes the connections too; before there is a server the   *)
(* task has nothing to do                                                  *)
ShutdownBegins ==
    /\ thread \in {"starting", "running"} /\ shutdown = "queued"
    /\ listening' = FALSE
    /\ wire' = [v \in Viewers |-> IF wire[v] = "open" THEN "closed" ELSE wire[v]]
    /\ shutdown' = IF listening THEN "closing" ELSE "done"
    /\ UNCHANGED <<node, thread, started, frames, taskVars, clients>>

(* wait_closed waits for every handler *)
ShutdownEnds ==
    /\ thread = "running" /\ shutdown = "closing"
    /\ \A v \in Viewers : wire[v] \in {"away", "closed"}
    /\ clients' = {} /\ shutdown' = "done"
    /\ UNCHANGED <<node, loopVars, frames, taskVars, wire>>

(* The task is done, or a second has passed; the loop is told to stop *)
LeavesShutdown ==
    /\ node = "stopping"
    /\ node' = "joining"
    /\ UNCHANGED <<loopVars, frames, taskVars, viewerVars, shutdown>>

(* A server that is still starting raises *)
LoopStops ==
    /\ node \in {"joining", "ended"} /\ thread \in {"starting", "running"}
    /\ thread' = "stopped"
    /\ UNCHANGED <<node, started, listening, frames, taskVars, viewerVars, shutdown>>

(* The thread has ended, or another second has passed *)
LeavesJoin ==
    /\ node = "joining"
    /\ node' = "ended" /\ started' = FALSE
    /\ UNCHANGED <<thread, listening, frames, taskVars, viewerVars, shutdown>>

LoopStep ==
    \/ ServerListens \/ ServerFails
    \/ \E f \in 1 .. MaxFrames :
        BeginTask(f) \/ SendReturns(f) \/ EndTask(f) \/ \E v \in Viewers : Sends(f, v)
    \/ \E v \in Viewers : HandlerEnds(v)
    \/ ShutdownBegins \/ ShutdownEnds \/ LoopStops

Next ==
    \/ Start \/ Broadcast \/ Stop \/ LeavesShutdown \/ LeavesJoin
    \/ LoopStep
    \/ \E v \in Viewers : Connects(v) \/ StopsReading(v) \/ Leaves(v) \/ Recovers(v)

Spec == Init /\ [][Next]_vars

(***************************************************************************)
(* The loop runs what is ready.  Nothing is assumed of the viewers.        *)
(***************************************************************************)
Fairness == WF_vars(LoopStep)

FairSpec == Spec /\ Fairness

(***************************************************************************)
(* Properties.                                                             *)
(***************************************************************************)

HeldUp(f) == current[f] # NoViewer /\ wire[current[f]] = "full"

(* Nothing but the one viewer it waits for, and only while that one does not *)
(* read, holds up a payload: not a payload before it that waits for good,    *)
(* not a viewer that left, not a server that could not be started.  Whether  *)
(* viewers come, leave, stop reading or recover, a payload handed over       *)
(* leaves the loop (_broadcast_json comes to its end) unless it waits for    *)
(* ever for such a viewer, or the loop is stopped.                           *)
OnlyNonReadersHoldUp ==
    \A f \in 1 .. MaxFrames :
        []<>~HeldUp(f) => (task[f] = "queued" ~> (task[f] = "done" \/ thread = "stopped"))

=============================================================================
