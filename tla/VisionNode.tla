------------------------------ MODULE VisionNode -------------------------------
(***************************************************************************)
(* The whole vision node: its state machine, and its WebSocket server with *)
(* the viewers.  The state machine hands frames over and reads nothing     *)
(* back, and the server takes any number of frames at any time, so the two *)
(* share no state, and every behaviour is of one of them.                  *)
(***************************************************************************)
EXTENDS VisionAlone

CONSTANTS Viewers, NoViewer, MaxFrames

VARIABLES
    side,       \* which of the two this behaviour is of
    node, thread, started, listening, frames, task, todo, current, stale, wire, clients,
    shutdown

broadcasterVars ==
    <<node, thread, started, listening, frames, task, todo, current, stale, wire, clients,
      shutdown>>
visionNodeVars == <<side, vars, broadcasterVars>>

Broadcaster == INSTANCE ResultBroadcaster

VisionNodeInit ==
    /\ side \in {"machine", "viewers"}
    /\ Init
    /\ Broadcaster!Init

VisionNodeNext ==
    /\ UNCHANGED side
    /\ \/ side = "machine" /\ Next /\ UNCHANGED broadcasterVars
       \/ side = "viewers" /\ Broadcaster!Next /\ UNCHANGED vars

VisionNodeSpec ==
    VisionNodeInit /\ [][VisionNodeNext]_visionNodeVars /\ Broadcaster!Fairness

(* ResultBroadcaster: a payload waits for ever only for one viewer that never reads *)
OnlyNonReadersHoldUp == Broadcaster!OnlyNonReadersHoldUp

=============================================================================
