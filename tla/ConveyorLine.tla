----------------------------- MODULE ConveyorLine -----------------------------
(***************************************************************************)
(* The conveyor line: the controller on the Raspberry Pi, the vision node  *)
(* on the PC and the registers of the shared server between them.  They    *)
(* interact through 40021, 40022 and 40023 only, each side reading what    *)
(* the other wrote at some earlier moment.                                 *)
(***************************************************************************)
EXTENDS ConveyorPi, ConveyorVision

CONSTANT Faults     \* what may go wrong: a subset of FaultKinds

FaultKinds ==
    {"pi",          \* a request of the controller fails
     "emergency",   \* somebody uses the buttons
     "crash",       \* a process ends and is started again
     "server",      \* the server is started again
     "quit",        \* the vision node is asked to quit
     "vision"}      \* a request of the vision node raises

ASSUME LineAssumption == Faults \subseteq FaultKinds

VARIABLE
    late    \* history: command writes that have reached 40021 since
            \* emergency_stopped was published; nothing reads it

visionVars == <<nodeVars, visionRegisters, roi>>
lineVars == <<vars, visionVars, late>>

LineInit == RegistersInit /\ PiInit /\ VisionInit /\ late = 0

CommandArrives == WriteCommand \/ CommandReplyLost

CountsLate ==
    late' = IF status' # STATUS_EMERGENCY_STOPPED THEN 0
            ELSE IF CommandArrives THEN late + 1
            ELSE late

-----------------------------------------------------------------------------

PiLoop ==
    /\ LoopStep
    /\ "pi" \notin Faults => ~(ConnectFails \/ RequestFails \/ WriteReplyLost)
    /\ UNCHANGED visionVars
    /\ CountsLate

NodeLoop ==
    /\ \/ Frame
       \/ ReadStatus \/ ReadFails
       \/ WriteCommand \/ CommandRejected
       \/ WriteVision \/ VisionRejected \/ WriteRefused
       \/ "vision" \in Faults /\ (RequestRaises \/ CommandReplyLost \/ VisionReplyLost)
       \/ vpc = "broken" /\ RequestRaises
    /\ UNCHANGED <<roi, statusVars, piVars, buttonVars>>
    /\ CountsLate

NodeStarts ==
    /\ NodeStart
    /\ UNCHANGED <<roi, statusVars, piVars, buttonVars>>
    /\ CountsLate

NodeEnds ==
    /\ \/ "quit" \in Faults /\ Quit
       \/ "crash" \in Faults /\ Kill
    /\ UNCHANGED <<roi, statusVars, piVars, buttonVars>>
    /\ CountsLate

ControllerEnds ==
    /\ "crash" \in Faults
    /\ ProcessExit \/ ProcessStart
    /\ UNCHANGED visionVars
    /\ CountsLate

MotorInterferes ==
    /\ MotorDrops
    /\ UNCHANGED visionVars
    /\ CountsLate

ButtonsUsed ==
    /\ "emergency" \in Faults
    /\ ButtonNext
    /\ UNCHANGED visionVars
    /\ CountsLate

CubesMove ==
    /\ RoiChanges
    /\ UNCHANGED <<vars, nodeVars, visionRegisters>>
    /\ CountsLate

(* The vision registers go back to their initial values too, and a write   *)
(* connection the node has open breaks.                                    *)
ServerStartsAgain ==
    /\ "server" \in Faults
    /\ ServerRestart
    /\ cube_detected' = 0
    /\ cube_color' = COLOR_NONE
    /\ last_vision_event' = EVENT_NONE
    /\ vpc' = IF vpc = "vision" THEN "broken" ELSE vpc
    /\ UNCHANGED <<purpose, machineVars, desired, last_modbus_state, write_ok, roi>>
    /\ CountsLate

LineNext ==
    \/ PiLoop \/ ControllerEnds \/ MotorInterferes \/ ButtonsUsed
    \/ NodeLoop \/ NodeStarts \/ NodeEnds
    \/ CubesMove \/ ServerStartsAgain

(* The controller's loop goes on, a lost driver is reported, and the       *)
(* camera keeps sending frames to a node that is up.                       *)
LineFairness ==
    /\ WF_lineVars(PiLoop)
    /\ WF_lineVars(LostDriverReported /\ UNCHANGED visionVars /\ CountsLate)
    /\ WF_lineVars(NodeLoop)

LineSpec == LineInit /\ [][LineNext]_lineVars
FairLineSpec == LineSpec /\ LineFairness

-----------------------------------------------------------------------------
(* Properties *)

(* The belt only ever moves in the direction and at the speed the node is  *)
(* configured with, although the registers are read while the other side   *)
(* writes, are lost with the server and outlive both processes.            *)
BeltAsConfigured ==
    enabled => direction = DirectionOf(RunCommand) /\ motor_speed = SpeedCmd

(* Conveyor_작업_메모.md has no command written while emergency_stopped is     *)
(* published, but the node asks for the status first and writes over a       *)
(* connection of its own afterwards (_write_modbus_state).  However long an  *)
(* emergency is published, however often the node starts, quits, fails or    *)
(* sees another cube meanwhile: at most one command write reaches 40021      *)
(* during it, the one decided on before.                                     *)
AtMostOneLateCommand == late <= 1

(* The state the node derived last is one it believes to be written. *)
Recorded == vpc = "idle" /\ desired = last_modbus_state

(* Both sides are up and no emergency is latched. *)
Undisturbed ==
    /\ session
    /\ ~local_emergency_latched
    /\ vpc # "down"
    /\ purpose # "shutdown"

(* When the ROI stays empty, both sides stay up and the node keeps         *)
(* recording its states as written, the belt ends up off.                  *)
EmptyBeltStops ==
    <>[](Undisturbed /\ roi = COLOR_NONE) /\ []<>Recorded => <>[]~enabled

(* Once both sides are up for good, the controller publishes no error any  *)
(* more and the node has recorded the empty belt, a cube that comes to     *)
(* stay is moved as long as the node records what it writes.               *)
CubeMovesBelt ==
    /\ <>(/\ Recorded /\ desired = idle_state
          /\ [](Undisturbed /\ status # STATUS_ERROR)
          /\ <>[](roi # COLOR_NONE))
    /\ []<>Recorded
    => []<>enabled

=============================================================================
