------------------------------ MODULE HarvestLine -----------------------------
(***************************************************************************)
(* The harvest cell: runs of the harvest process, one after the other, and *)
(* the capture chain they ask for pictures of the fruit the arm holds.     *)
(***************************************************************************)
EXTENDS DobotHarvest, CaptureChain

vars == <<harvestVars, chainVars>>

Init == HarvestInit /\ ChainInit

-----------------------------------------------------------------------------

RunStarts ==
    /\ HarvestStarts
    /\ UNCHANGED chainVars

(* A run that ends gives up what it asked for. *)
RunStopped ==
    /\ Interrupted
    /\ ClientLeaves

ProcessStep ==
    /\ \/ PoseReceived
       \/ BeginJump \/ BeginRotate \/ BeginPlace
       \/ GoalAccepted \/ MotionSucceeds
       \/ BeginSuction \/ SuctionSet
    /\ UNCHANGED chainVars

ProcessEnds ==
    /\ NotReady \/ Completes \/ GoalRejected \/ MotionFails \/ SuctionFails
    /\ UNCHANGED chainVars

Asks ==
    /\ BeginCapture
    /\ ClientAsks

AskingFails ==
    /\ phase = "ready"
    /\ CaptureFails
    /\ ~Listening \/ Len(queue) = ControlBacklog
    /\ UNCHANGED chainVars

GetsPicture ==
    /\ reply.kind = "ok"
    /\ Captured(reply.picture)
    /\ ClientLeaves

GetsError ==
    /\ reply.kind = "error"
    /\ CaptureFails
    /\ ClientLeaves

TimesOut ==
    /\ phase = "capture"
    /\ CaptureFails
    /\ ClientGivesUp

RunStep == ProcessStep \/ ProcessEnds \/ Asks \/ AskingFails \/ GetsPicture \/ GetsError \/ TimesOut

Surroundings ==
    /\ ArmArrives \/ PoseMessage
    /\ UNCHANGED chainVars

DaemonStep ==
    /\ DaemonStarts \/ AcceptPi \/ TakeRequest \/ ReadsNothing \/ SendCommand \/ Deliver \/ ReportError \/ LinkFails
    /\ UNCHANGED harvestVars

PiStep ==
    /\ PiConnects \/ PiReads \/ PiAnswers(PictureOf(arm)) \/ PiNotices
    /\ UNCHANGED harvestVars

(* What keeps the chain from answering *)
Trouble ==
    /\ DaemonStops \/ DiskFails \/ PiDrops \/ PiPowerCut
    /\ UNCHANGED harvestVars

Next ==
    \/ RunStarts \/ RunStopped \/ RunStep
    \/ Surroundings
    \/ DaemonStep \/ PiStep \/ Trouble

Spec == Init /\ [][Next]_vars

(* A run goes on, its timeout included; both ends of the chain go on, but  *)
(* for the daemon, which nobody has to start.                              *)
Fairness ==
    /\ WF_vars(RunStep)
    /\ WF_vars(dpc # "down" /\ DaemonStep)
    /\ WF_vars(PiStep)

FairSpec == Spec /\ Fairness

-----------------------------------------------------------------------------
(* Properties *)

(* The arm never crosses the cell below the safe height, wherever an       *)
(* earlier run left it and whatever pose messages arrive.                  *)
TravelsAtSafeHeight ==
    [][goal' \notin {goal, NoGoal} /\ goal'.at # arm.at
          => arm.z = "safe" /\ goal'.z = "safe"]_vars

(* A run that puts its fruit down does so at the conveyor, and holds three *)
(* pictures, each taken of the arm at the camera at its angle, whatever    *)
(* failed and was tried again on the way.                                  *)
PlacedAfterThreePictures ==
    [][suction /\ ~suction' =>
          /\ arm = PoseAt("conveyor")
          /\ results = [i \in DOMAIN CAMERA_CAPTURE_ANGLES_DEG |->
                            CameraPose(CAMERA_CAPTURE_ANGLES_DEG[i])]]_vars

(* Every run ends, also when the daemon or the Pi never answers. *)
RunEnds == phase # "off" ~> phase = "off"

(* When nothing more fails and the daemon does not wait for a Pi that lost *)
(* its power, the daemon is free for the next request again and again ...  *)
DaemonReturns ==
    \/ []<><<Trouble>>_vars
    \/ <>[](pi_conn = "silent" \/ dpc = "down")
    \/ []<>(dpc = "control")

(* ... and connections the Pi left behind spoil only finitely many         *)
(* requests: in the end only the camera itself makes one fail.             *)
FailuresEnd ==
    \/ []<><<Trouble>>_vars
    \/ <>[][~LinkFails]_vars

=============================================================================
