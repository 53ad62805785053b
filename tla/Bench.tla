--------------------------------- MODULE Bench ---------------------------------
(***************************************************************************)
(* The tools and services around the line that share no state with it or   *)
(* with each other while they are at work: the calibration of the arm, the *)
(* selection of the camera's region, the pins of the Raspberry Pi, single  *)
(* pictures and their verdict, and the small Modbus clients (the heartbeat *)
(* and the commands apart).  Every behaviour is of one of them.            *)
(***************************************************************************)
EXTENDS Naturals, Sequences, FiniteSets

CONSTANTS
    Side, Spots, NoSpot, MaxSessions,
    Pixels, Corners, Sizes, NoFrame,
    MaxCycles, Threads,
    MaxPictures, Needed, Clients, Nobody,
    Tools, Modulus, MaxBeats, MaxRestarts

ASSUME BenchAssumption ==
    /\ Side \in Nat \ {0, 1} /\ Spots \subseteq [x : Nat, y : Nat, z : Nat] /\ NoSpot \notin Spots
    /\ Pixels \subseteq [x : Nat, y : Nat] /\ Corners = 4 /\ Cardinality(Pixels) >= Corners
    /\ NoFrame \notin Sizes
    /\ Needed \in Nat \ {0} /\ Nobody \notin Clients
    /\ Modulus \in Nat \ {0, 1}
    /\ {MaxSessions, MaxCycles, MaxPictures, MaxBeats, MaxRestarts} \subseteq Nat

VARIABLES
    desk,       \* which of them this behaviour is of
    target, files, backups, newest, tool, phase, keep, pose, fresh, captures, base, had,
    sessions, offered, shell,
    config, selector, step, window, order, frame, points, quad, detector, mode, any_size, loaded,
    used,
    at, holder, enable, stepPin, servoPin, cycle, activeLow, layers, loose, running, told, loop, late,
    server, asked, held, pictures, marker, torn, pi, link, taken, request, packet,
    inspector, paths, backlog, serving, index, hasError,
    up, restarts, reg, beacon, zeroBased, battery, heartbeat, beats, values, written, since,
    outcome, stages, done, accepted, wanted, undisturbed

armVars ==
    <<target, files, backups, newest, tool, phase, keep, pose, fresh, captures, base, had,
      sessions, offered, shell>>
regionVars ==
    <<config, selector, step, window, order, frame, points, quad, detector, mode, any_size, loaded,
      used>>
pinsVars ==
    <<at, holder, enable, stepPin, servoPin, cycle, activeLow, layers, loose, running, told,
      loop, late>>
pictureVars ==
    <<server, asked, held, pictures, marker, torn, pi, link, taken, request, packet,
      inspector, paths, backlog, serving, index, hasError>>
registerVars ==
    <<up, restarts, reg, beacon, zeroBased, battery, heartbeat, beats, values, written, since,
      outcome, stages, done, accepted, wanted, undisturbed>>
benchVars ==
    <<desk, armVars, regionVars, pinsVars, pictureVars, registerVars>>

Arm == INSTANCE DobotCalibration
Region == INSTANCE RoiSelection
Pins == INSTANCE GpioBench
Pictures == INSTANCE QualityCheck
Heartbeat == INSTANCE RegisterTools WITH Tools <- {}
Commands == INSTANCE RegisterTools WITH MaxBeats <- 0

(* The state of those that this behaviour is not of is fixed *)
Init ==
    /\ desk \in {"arm", "region", "pins", "pictures", "heartbeat", "commands"}
    /\ Arm!Init /\ (desk # "arm" => files["json"] = Arm!Absent)
    /\ Region!Init /\ (desk # "region" => config = Region!Absent)
    /\ Pins!Init
    /\ Pictures!Init
    /\ Commands!Init /\ (desk # "heartbeat" => zeroBased)

Next ==
    /\ UNCHANGED desk
    /\ \/ /\ desk = "arm" /\ Arm!Next
          /\ UNCHANGED <<regionVars, pinsVars, pictureVars, registerVars>>
       \/ /\ desk = "region" /\ Region!Next
          /\ UNCHANGED <<armVars, pinsVars, pictureVars, registerVars>>
       \/ /\ desk = "pins" /\ Pins!Next
          /\ UNCHANGED <<armVars, regionVars, pictureVars, registerVars>>
       \/ /\ desk = "pictures" /\ Pictures!Next
          /\ UNCHANGED <<armVars, regionVars, pinsVars, registerVars>>
       \/ /\ desk = "heartbeat" /\ Heartbeat!Next
          /\ UNCHANGED <<armVars, regionVars, pinsVars, pictureVars>>
       \/ /\ desk = "commands" /\ Commands!Next
          /\ UNCHANGED <<armVars, regionVars, pinsVars, pictureVars>>

Spec == Init /\ [][Next]_benchVars

(***************************************************************************)
(* Properties: those of the modules.                                       *)
(***************************************************************************)

(* DobotCalibration: measuring the grid anew never costs what was measured before *)
CalibrationSurvives == Arm!CalibrationSurvives
(* DobotCalibration: the menu of harvest_test lists the positions as they were measured *)
MenuTellsMeasured == Arm!MenuTellsMeasured
(* RoiSelection: a file saved holds what the operator has left clicked *)
SavedAsClicked == Region!SavedAsClicked
(* RoiSelection: the detector looks in a polygon of the image it looks at *)
RoiInFrameSpace == Region!RoiInFrameSpace
(* GpioBench: the pins are as the program that holds them, or held them last, wants them *)
PinsObeyHolder == Pins!PinsObeyHolder
(* QualityCheck: a picture is stored under the request it was taken for *)
PictureOfItsRequest == Pictures!PictureOfItsRequest
(* QualityCheck: a verdict is of all the pictures that were asked about *)
VerdictOfAllPictures == Pictures!VerdictOfAllPictures
(* RegisterTools: a new heartbeat comes after the values it stands for *)
HeartbeatVouches == Heartbeat!HeartbeatVouches
(* RegisterTools: a tool that reports success has had everything accepted *)
OkMeansWritten == Commands!OkMeansWritten

=============================================================================
