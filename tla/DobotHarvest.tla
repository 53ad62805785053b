----------------------------- MODULE DobotHarvest -----------------------------
(***************************************************************************)
(* The harvest sequence of dobot/harvest_test.py: one process per run, a   *)
(* fixed program of jump moves, rotations, captures and suction calls.     *)
(*                                                                         *)
(* The process does not know where the arm is: it believes current_pose,   *)
(* which both its own motions and the callbacks of /dobot_TCP assign.  A   *)
(* motion that began goes on without the process.  The run is one with     *)
(* --vision-mode socket; the other modes take no pictures.                 *)
(***************************************************************************)
EXTENDS HarvestCell

VARIABLES
    phase,          \* "off", "ready" between instructions, or what it waits for
    step,           \* the instruction of run_sequence
    current_pose,
    moves,          \* motions left in the instruction
    results,        \* capture_results
    arm,            \* where the arm is
    goal,           \* the motion the action server executes, if any
    passed,         \* a pose the latest motion went through
    suction

processVars == <<phase, step, current_pose, moves, results>>
robotVars == <<arm, goal, passed, suction>>
harvestVars == <<processVars, robotVars>>

NoGoal == NoPicture

(* run_sequence *)
Jump(p) == [op |-> "jump", arg |-> p]
Rotate(a) == [op |-> "rotate", arg |-> a]
Capture(a) == [op |-> "capture", arg |-> a]
Suction(on) == [op |-> "suction", arg |-> on]
Place == [op |-> "place", arg |-> 0]

(* The arm is turned to each angle and a picture is asked for *)
Views ==
    [i \in 1 .. 2 * Len(CAMERA_CAPTURE_ANGLES_DEG) |->
        IF i % 2 = 1 THEN Rotate(CAMERA_CAPTURE_ANGLES_DEG[(i + 1) \div 2])
                     ELSE Capture(CAMERA_CAPTURE_ANGLES_DEG[i \div 2])]

Program ==
    << Jump("harvest"), Suction(TRUE), Jump("camera") >>
        \o Views
        \o << Rotate(0), Place, Suction(FALSE), Jump("home") >>

Doing(op) == step \in DOMAIN Program /\ Program[step].op = op
Arg == Program[step].arg

(* Every picture the daemon answers with is taken for normal, so that the  *)
(* destination is the conveyor once there are three of them.               *)
Classified == Len(results) = Len(CAMERA_CAPTURE_ANGLES_DEG)

HarvestInit ==
    /\ phase = "off" /\ step = 0
    /\ current_pose = NoPicture /\ moves = << >> /\ results = << >>
    /\ arm = PoseOf(Elsewhere, "between", 0) /\ goal = NoGoal
    /\ passed = arm /\ suction = FALSE

-----------------------------------------------------------------------------
(* The process *)

(* The process ends; nothing it began is undone. *)
Ends ==
    /\ phase' = "off"
    /\ step' = 0
    /\ moves' = << >>
    /\ results' = << >>
    /\ current_pose' = NoPicture

(* main, up to wait_for_interfaces *)
HarvestStarts ==
    /\ phase = "off"
    /\ phase' = "wait"
    /\ UNCHANGED <<step, current_pose, moves, results, robotVars>>

(* wait_for_current_pose: the first message, of the arm as it is now *)
PoseReceived ==
    /\ phase = "wait"
    /\ phase' = "ready"
    /\ step' = 1
    /\ current_pose' = arm
    /\ UNCHANGED <<moves, results, robotVars>>

(* ... or an interface is missing, or no pose arrives in time. *)
NotReady ==
    /\ phase = "wait"
    /\ Ends
    /\ UNCHANGED robotVars

Interrupted ==
    /\ phase # "off"
    /\ Ends
    /\ UNCHANGED robotVars

Completes ==
    /\ phase = "ready"
    /\ step > Len(Program)
    /\ Ends
    /\ UNCHANGED robotVars

(* jump_move_to: up, across, down *)
JumpMoves(from, to) ==
    (IF from.z # "safe" THEN << [from EXCEPT !.z = "safe"] >> ELSE << >>)
        \o << [to EXCEPT !.z = "safe"] >>
        \o (IF to.z # "safe" THEN << to >> ELSE << >>)

Plan(m) ==
    /\ phase = "ready"
    /\ moves' = m
    /\ phase' = "go"
    /\ UNCHANGED <<step, current_pose, results, robotVars>>

BeginJump == Doing("jump") /\ Plan(JumpMoves(current_pose, PoseAt(Arg)))
BeginRotate == Doing("rotate") /\ Plan(<< CameraPose(Arg) >>)

(* quality_status_from_capture_results, destination_for_quality_status *)
BeginPlace ==
    /\ Doing("place")
    /\ Classified
    /\ Plan(JumpMoves(current_pose, PoseAt("conveyor")))

-----------------------------------------------------------------------------
(* move_ptp *)

OnTheWay(x, y) == IF x = y THEN x ELSE Turning
Between(p, q) ==
    PoseOf(IF p.at = q.at THEN p.at ELSE Elsewhere,
           IF p.z = q.z THEN p.z ELSE "between",
           OnTheWay(p.r, q.r))

(* The action server executes one goal at a time. *)
GoalAccepted ==
    /\ phase = "go"
    /\ goal = NoGoal
    /\ goal' = Head(moves)
    /\ arm' = Between(arm, Head(moves))
    /\ passed' = arm'
    /\ phase' = "move"
    /\ UNCHANGED <<step, current_pose, moves, results, suction>>

GoalRejected ==
    /\ phase = "go"
    /\ Ends
    /\ UNCHANGED robotVars

(* Variant: the pose reached is left to the callbacks. *)
MotionSucceeds_pose_kept ==
    /\ phase = "move"
    /\ arm' = goal
    /\ goal' = NoGoal
    /\ current_pose' = current_pose
    /\ moves' = Tail(moves)
    /\ phase' = IF moves' = << >> THEN "ready" ELSE "go"
    /\ step' = IF moves' = << >> THEN step + 1 ELSE step
    /\ UNCHANGED <<results, passed, suction>>

MotionSucceeds ==
    /\ phase = "move"
    /\ arm' = goal
    /\ goal' = NoGoal
    /\ current_pose' = Head(moves)
    /\ moves' = Tail(moves)
    /\ phase' = IF moves' = << >> THEN "ready" ELSE "go"
    /\ step' = IF moves' = << >> THEN step + 1 ELSE step
    /\ UNCHANGED <<results, passed, suction>>

(* The arm stops on its way: an alarm, a limit, an aborted goal. *)
MotionFails ==
    /\ phase = "move"
    /\ goal' = NoGoal
    /\ Ends
    /\ UNCHANGED <<arm, passed, suction>>

(* A motion whose process has ended *)
ArmArrives ==
    /\ phase # "move"
    /\ goal # NoGoal
    /\ arm' \in {arm, goal}
    /\ goal' = NoGoal
    /\ UNCHANGED <<passed, suction, processVars>>

(* _tcp_callback, while the process spins: the pose the arm has now, or    *)
(* one of its latest motion in a message still under way.                  *)
PoseMessage ==
    /\ phase \in {"go", "move", "suction"}
    /\ current_pose' \in {arm, passed}
    /\ UNCHANGED <<phase, step, moves, results, robotVars>>

-----------------------------------------------------------------------------
(* set_suction and the captures *)

Advance ==
    /\ phase' = "ready"
    /\ step' = step + 1

BeginSuction ==
    /\ phase = "ready"
    /\ Doing("suction")
    /\ phase' = "suction"
    /\ UNCHANGED <<step, current_pose, moves, results, robotVars>>

SuctionSet ==
    /\ phase = "suction"
    /\ suction' = Arg
    /\ Advance
    /\ UNCHANGED <<current_pose, moves, results, arm, goal, passed>>

(* The service fails, with or without an effect. *)
SuctionFails ==
    /\ phase = "suction"
    /\ suction' \in {suction, Arg}
    /\ Ends
    /\ UNCHANGED <<arm, goal, passed>>

BeginCapture ==
    /\ phase = "ready"
    /\ Doing("capture")
    /\ phase' = "capture"
    /\ UNCHANGED <<step, current_pose, moves, results, robotVars>>

Captured(p) ==
    /\ phase = "capture"
    /\ results' = Append(results, p)
    /\ Advance
    /\ UNCHANGED <<current_pose, moves, robotVars>>

(* VisionCaptureError ends the run. *)
CaptureFails ==
    /\ phase \in {"ready", "capture"}
    /\ Doing("capture")
    /\ Ends
    /\ UNCHANGED robotVars

=============================================================================
