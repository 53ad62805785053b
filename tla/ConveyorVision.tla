---------------------------- MODULE ConveyorVision ----------------------------
(***************************************************************************)
(* The RealSense vision node: the state machine and the gated Modbus       *)
(* client of realsense/conveyor_modbus.py, driven by the ROS node of       *)
(* realsense/topview_color_detector.py.                                    *)
(*                                                                         *)
(* A camera frame is one callback.  It updates the state machine and, when *)
(* the desired state differs from the one last written, reads the status   *)
(* of the conveyor over one connection and then writes the command, unless *)
(* the status forbids it, and the vision registers over a second one.  A   *)
(* step is the part of the callback up to the answer of one request.       *)
(*                                                                         *)
(* A request can be refused (no connection, nothing raised), rejected (an  *)
(* error reply) or raise: pymodbus raises when an answer does not come,    *)
(* only RuntimeError is caught, and so the node ends.                      *)
(***************************************************************************)
EXTENDS ConveyorRegisters

CONSTANTS
    StableFrames,       \* disappear_stable_frames
    RunCommand,         \* conveyor_run_command
    SpeedCmd,           \* conveyor_speed_cmd
    ShutdownCommand,    \* modbus_shutdown_command
    Colors,             \* colours the detector can report here
    Rejections          \* requests that may come back unserved, without a raise

\* 40026 cube_color
COLOR_NONE == 0
COLOR_UNKNOWN == 3

\* 40027 last_vision_event
EVENT_NONE == 0
EVENT_CUBE_DETECTED == 1
EVENT_CUBE_LOST == 2
EVENT_DELIVERED == 3
EVENT_EMERGENCY_STOP == 5
Events == 0 .. 5

ASSUME VisionAssumption ==
    /\ StableFrames \in Nat \ {0}
    /\ RunCommand \in Commands \cap CommandValues
    /\ ShutdownCommand \in Commands \cap CommandValues
    /\ SpeedCmd \in SpeedValues
    /\ Colors \subseteq COLOR_NONE + 1 .. COLOR_UNKNOWN
    /\ Rejections \subseteq {"read", "command", "vision"}

VARIABLES
    cube_detected,          \* 40025
    cube_color,             \* 40026
    last_vision_event,      \* 40027
    roi,                    \* the colour seen in the ROI, COLOR_NONE if empty
    vpc,                    \* the request the node is in, or "idle", "down"
    purpose,                \* what the request is for
    object_active,          \* state machine
    no_detection_streak,
    desired,                \* the state being written
    last_modbus_state,
    write_ok                \* ok, inside async_write_command_plan

visionRegisters == <<cube_detected, cube_color, last_vision_event>>
machineVars == <<object_active, no_detection_streak>>
nodeVars == <<vpc, purpose, machineVars, desired, last_modbus_state, write_ok>>

(* A ConveyorRegisterState: its other fields follow from these two. *)
VisionState == [event : Events, color : Colors \cup {COLOR_NONE}]
VisionStateOf(e, c) == [event |-> e, color |-> c]
NoState == VisionStateOf(-1, -1)

idle_state == VisionStateOf(EVENT_NONE, COLOR_NONE)
emergency_stop_state == VisionStateOf(EVENT_EMERGENCY_STOP, COLOR_NONE)

CommandOf(e) ==
    CASE e \in {EVENT_CUBE_DETECTED, EVENT_CUBE_LOST} -> RunCommand
      [] e = EVENT_EMERGENCY_STOP -> COMMAND_EMERGENCY_STOP
      [] OTHER -> COMMAND_STOP
SpeedOf(e) == IF e = EVENT_EMERGENCY_STOP THEN 0 ELSE SpeedCmd
DetectedOf(e) == IF e = EVENT_CUBE_DETECTED THEN 1 ELSE 0

VisionPhases == {"down", "idle", "read", "command", "visionOnly", "vision", "broken"}

VisionTypeOK ==
    /\ cube_detected \in {0, 1}
    /\ cube_color \in Colors \cup {COLOR_NONE}
    /\ last_vision_event \in Events
    /\ roi \in Colors \cup {COLOR_NONE}
    /\ vpc \in VisionPhases
    /\ purpose \in {"init", "frame", "shutdown"}
    /\ object_active \in BOOLEAN
    /\ no_detection_streak \in 0 .. StableFrames - 1
    /\ desired \in VisionState
    /\ last_modbus_state \in VisionState \cup {NoState}
    /\ write_ok \in BOOLEAN

VisionRegistersInit ==
    /\ cube_detected = 0
    /\ cube_color = COLOR_NONE
    /\ last_vision_event = EVENT_NONE

VisionInit ==
    /\ VisionRegistersInit
    /\ roi = COLOR_NONE
    /\ vpc = "down"
    /\ purpose = "init"
    /\ object_active = FALSE
    /\ no_detection_streak = 0
    /\ desired = idle_state
    /\ last_modbus_state = NoState
    /\ write_ok = TRUE

-----------------------------------------------------------------------------
(* ConveyorVisionStateMachine.update *)

(* Variant for the mutation runs: a cube seen again does not start the     *)
(* count of empty frames anew.                                             *)
Detect_streak_kept(c) ==
    /\ c # COLOR_NONE
    /\ object_active' = TRUE
    /\ no_detection_streak' = no_detection_streak
    /\ desired' = VisionStateOf(EVENT_CUBE_DETECTED, c)

Detect(c) ==
    /\ c # COLOR_NONE
    /\ object_active' = TRUE
    /\ no_detection_streak' = 0
    /\ desired' = VisionStateOf(EVENT_CUBE_DETECTED, c)

Lose(c) ==
    /\ c = COLOR_NONE
    /\ object_active
    /\ no_detection_streak + 1 < StableFrames
    /\ no_detection_streak' = no_detection_streak + 1
    /\ desired' = VisionStateOf(EVENT_CUBE_LOST, COLOR_NONE)
    /\ UNCHANGED object_active

Deliver(c) ==
    /\ c = COLOR_NONE
    /\ object_active
    /\ no_detection_streak + 1 >= StableFrames
    /\ object_active' = FALSE
    /\ no_detection_streak' = 0
    /\ desired' = VisionStateOf(EVENT_DELIVERED, COLOR_NONE)

SeeNothing(c) ==
    /\ c = COLOR_NONE
    /\ ~object_active
    /\ desired' = idle_state
    /\ UNCHANGED machineVars

Update(c) == Detect(c) \/ Lose(c) \/ Deliver(c) \/ SeeNothing(c)

(* Variant: a run is only allowed on a belt that moves already. *)
Allowed_running_only(c, s) ==
    \/ c \in {COMMAND_RUN_CLOCKWISE, COMMAND_RUN_COUNTER_CLOCKWISE, COMMAND_RESET}
         /\ s \in {STATUS_RUNNING, STATUS_DELIVERED}
    \/ c = COMMAND_STOP
         /\ s \in {STATUS_IDLE, STATUS_RUNNING, STATUS_DELIVERED, STATUS_ERROR}
    \/ c = COMMAND_EMERGENCY_STOP /\ s # STATUS_EMERGENCY_STOPPED

(* Variant: a stop does no harm and is always allowed. *)
Allowed_stop_always(c, s) ==
    \/ c \in {COMMAND_RUN_CLOCKWISE, COMMAND_RUN_COUNTER_CLOCKWISE, COMMAND_RESET}
         /\ s \in {STATUS_IDLE, STATUS_RUNNING, STATUS_DELIVERED}
    \/ c = COMMAND_STOP
    \/ c = COMMAND_EMERGENCY_STOP /\ s # STATUS_EMERGENCY_STOPPED

(* _command_allowed_for_physical_status *)
Allowed(c, s) ==
    \/ c \in {COMMAND_RUN_CLOCKWISE, COMMAND_RUN_COUNTER_CLOCKWISE, COMMAND_RESET}
         /\ s \in {STATUS_IDLE, STATUS_RUNNING, STATUS_DELIVERED}
    \/ c = COMMAND_STOP
         /\ s \in {STATUS_IDLE, STATUS_RUNNING, STATUS_DELIVERED, STATUS_ERROR}
    \/ c = COMMAND_EMERGENCY_STOP /\ s # STATUS_EMERGENCY_STOPPED

-----------------------------------------------------------------------------
(* The node *)

(* __init__ up to its forced write of the idle state *)
NodeStart ==
    /\ vpc = "down"
    /\ vpc' = "read"
    /\ purpose' = "init"
    /\ object_active' = FALSE
    /\ no_detection_streak' = 0
    /\ desired' = idle_state
    /\ last_modbus_state' = NoState
    /\ write_ok' = TRUE
    /\ UNCHANGED <<visionRegisters, commandVars>>

(* on_image up to the first request of _write_modbus_state, if it makes one *)
Frame ==
    /\ vpc = "idle"
    /\ purpose' = "frame"
    /\ Update(roi)
    /\ vpc' = IF desired' = last_modbus_state THEN "idle" ELSE "read"
    /\ write_ok' = TRUE
    /\ UNCHANGED <<last_modbus_state, visionRegisters, commandVars>>

(* read_physical_state answers; build_command_write_plan *)
ReadStatus ==
    /\ vpc = "read"
    /\ vpc' = IF Allowed(CommandOf(desired.event), status) THEN "command" ELSE "visionOnly"
    /\ UNCHANGED <<purpose, machineVars, desired, last_modbus_state, write_ok,
                   visionRegisters, commandVars>>

(* read_physical_state returns None: only the vision registers are written *)
ReadFails ==
    /\ vpc = "read"
    /\ "read" \in Rejections
    /\ vpc' = "visionOnly"
    /\ UNCHANGED <<purpose, machineVars, desired, last_modbus_state, write_ok,
                   visionRegisters, commandVars>>

(* Variant: the speed register is left to its own write. *)
PutCommand_speed_dropped ==
    /\ command' = CommandOf(desired.event)
    /\ UNCHANGED speed_cmd

PutCommand ==
    /\ command' = CommandOf(desired.event)
    /\ speed_cmd' = SpeedOf(desired.event)

PutVision ==
    /\ cube_detected' = DetectedOf(desired.event)
    /\ cube_color' = desired.color
    /\ last_vision_event' = desired.event

(* The first write of async_write_command_plan *)
WriteCommand ==
    /\ vpc = "command"
    /\ PutCommand
    /\ vpc' = "vision"
    /\ UNCHANGED <<purpose, machineVars, desired, last_modbus_state, write_ok, visionRegisters>>

(* An error reply to it does not keep the vision registers from being written *)
CommandRejected ==
    /\ vpc = "command"
    /\ "command" \in Rejections
    /\ write_ok' = FALSE
    /\ vpc' = "vision"
    /\ UNCHANGED <<purpose, machineVars, desired, last_modbus_state, visionRegisters, commandVars>>

(* The end of _write_modbus_state, and of the node after its last write *)
Return ==
    /\ vpc' = IF purpose = "shutdown" THEN "down" ELSE "idle"
    /\ UNCHANGED <<purpose, machineVars, desired, write_ok>>

WriteVision ==
    /\ vpc \in {"vision", "visionOnly"}
    /\ PutVision
    /\ last_modbus_state' = IF write_ok THEN desired ELSE last_modbus_state
    /\ Return
    /\ UNCHANGED commandVars

VisionRejected ==
    /\ vpc \in {"vision", "visionOnly"}
    /\ "vision" \in Rejections
    /\ Return
    /\ UNCHANGED <<last_modbus_state, visionRegisters, commandVars>>

(* Variant: the state counts as written when there was no connection. *)
WriteRefused_recorded ==
    /\ vpc \in {"command", "visionOnly"}
    /\ Return
    /\ last_modbus_state' = desired
    /\ UNCHANGED <<visionRegisters, commandVars>>

(* No connection for the writes: async_write_command_plan returns False. *)
WriteRefused ==
    /\ vpc \in {"command", "visionOnly"}
    /\ Return
    /\ UNCHANGED <<last_modbus_state, visionRegisters, commandVars>>

(* destroy_node, _send_shutdown_command *)
BeginShutdown ==
    \/ /\ ShutdownCommand = COMMAND_STOP
       /\ desired' = idle_state
       /\ vpc' = "read"
       /\ purpose' = "shutdown"
       /\ UNCHANGED machineVars
    \/ /\ ShutdownCommand = COMMAND_EMERGENCY_STOP
       /\ desired' = emergency_stop_state
       /\ vpc' = "read"
       /\ purpose' = "shutdown"
       /\ object_active' = FALSE
       /\ no_detection_streak' = 0
    \/ /\ ShutdownCommand \notin {COMMAND_STOP, COMMAND_EMERGENCY_STOP}
       /\ vpc' = "down"
       /\ UNCHANGED <<purpose, machineVars, desired>>

(* An exception other than RuntimeError leaves on_image, spin and main. *)
Throw ==
    /\ IF purpose = "frame"
       THEN BeginShutdown
       ELSE vpc' = "down" /\ UNCHANGED <<purpose, machineVars, desired>>
    /\ write_ok' = TRUE
    /\ UNCHANGED last_modbus_state

RequestRaises ==
    /\ vpc \in {"read", "command", "visionOnly", "vision", "broken"}
    /\ Throw
    /\ UNCHANGED <<visionRegisters, commandVars>>

CommandReplyLost ==
    /\ vpc = "command"
    /\ PutCommand
    /\ Throw
    /\ UNCHANGED visionRegisters

VisionReplyLost ==
    /\ vpc \in {"vision", "visionOnly"}
    /\ PutVision
    /\ Throw
    /\ UNCHANGED commandVars

(* Ctrl+C or the quit key between callbacks; Ctrl+C inside one acts like a  *)
(* request that raises.                                                    *)
Quit ==
    /\ vpc = "idle"
    /\ BeginShutdown
    /\ write_ok' = TRUE
    /\ UNCHANGED <<last_modbus_state, visionRegisters, commandVars>>

(* The process is killed or the PC fails. *)
Kill ==
    /\ vpc # "down"
    /\ vpc' = "down"
    /\ UNCHANGED <<purpose, machineVars, desired, last_modbus_state, write_ok,
                   visionRegisters, commandVars>>

NodeRequests ==
    \/ ReadStatus \/ ReadFails
    \/ WriteCommand \/ CommandRejected
    \/ WriteVision \/ VisionRejected \/ WriteRefused
    \/ RequestRaises \/ CommandReplyLost \/ VisionReplyLost

(* A cube enters the ROI, leaves it, or is missed by the detector: what     *)
(* color_code_from_detections makes of the colours of a frame.             *)
RoiChanges ==
    /\ roi' \in Colors \cup {COLOR_NONE}

=============================================================================
