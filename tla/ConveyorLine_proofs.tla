-------------------------- MODULE ConveyorLine_proofs -------------------------
(***************************************************************************)
(* What holds of the conveyor line for every configuration of the node,    *)
(* any set of faults and any scene.  The node is one of the clients that   *)
(* ConveyorPi allows for, so that all that is proved of the controller     *)
(* alone holds of the line.                                                *)
(***************************************************************************)
EXTENDS ConveyorLine, ConveyorPi_proofs

-----------------------------------------------------------------------------
(* The inductive invariant *)

(* The node only ever desires states it may write: emergency_stop is one   *)
(* only if it is the configured shutdown command.                          *)
DesiredConfigured ==
    \/ desired.event \in {EVENT_NONE, EVENT_CUBE_DETECTED, EVENT_CUBE_LOST, EVENT_DELIVERED}
    \/ desired.event = EVENT_EMERGENCY_STOP /\ ShutdownCommand = COMMAND_EMERGENCY_STOP

(* A run command stands in the registers together with its speed, and is   *)
(* read together with it.                                                  *)
RegistersConfigured ==
    command \in RunCommands => command = RunCommand /\ speed_cmd = SpeedCmd
ReadConfigured ==
    last_command \in RunCommands =>
        last_command = RunCommand /\ last_speed_cmd = SpeedCmd

LineInv == DesiredConfigured /\ RegistersConfigured /\ ReadConfigured

LEMMA DesiredStep == DesiredConfigured /\ [LineNext]_lineVars => DesiredConfigured'
<1> SUFFICES ASSUME DesiredConfigured, [LineNext]_lineVars PROVE DesiredConfigured'
    OBVIOUS
<1> USE DEF DesiredConfigured, EVENT_NONE, EVENT_CUBE_DETECTED, EVENT_CUBE_LOST,
            EVENT_DELIVERED, EVENT_EMERGENCY_STOP
<1>1. CASE UNCHANGED desired
    BY <1>1
<1>2. CASE \E c : Update(c)
    BY <1>2 DEF Update, Detect, Lose, Deliver, SeeNothing, idle_state, VisionStateOf
<1>3. CASE BeginShutdown
    BY <1>3 DEF BeginShutdown, idle_state, emergency_stop_state, VisionStateOf
<1>4. CASE NodeStart
    BY <1>4 DEF NodeStart, idle_state, VisionStateOf
<1>5. UNCHANGED desired \/ (\E c : Update(c)) \/ BeginShutdown \/ NodeStart
  <2>1. CASE NodeLoop
    <3>1. CASE Frame
        BY <3>1 DEF Frame
    <3>2. CASE RequestRaises \/ CommandReplyLost \/ VisionReplyLost
        BY <3>2 DEF RequestRaises, CommandReplyLost, VisionReplyLost, Throw
    <3>3. CASE ReadStatus \/ ReadFails \/ WriteCommand \/ CommandRejected
        BY <3>3 DEF ReadStatus, ReadFails, WriteCommand, CommandRejected
    <3>4. CASE WriteVision \/ VisionRejected \/ WriteRefused
        BY <3>4 DEF WriteVision, VisionRejected, WriteRefused, Return
    <3> QED BY <2>1, <3>1, <3>2, <3>3, <3>4 DEF NodeLoop
  <2>2. CASE NodeEnds
      BY <2>2 DEF NodeEnds, Quit, Kill
  <2>3. CASE NodeStarts
      BY <2>3 DEF NodeStarts
  <2>4. CASE PiLoop \/ ControllerEnds \/ MotorInterferes \/ ButtonsUsed
      BY <2>4 DEF PiLoop, ControllerEnds, MotorInterferes, ButtonsUsed, visionVars, nodeVars
  <2>5. CASE CubesMove \/ ServerStartsAgain
      BY <2>5 DEF CubesMove, ServerStartsAgain, nodeVars
  <2>6. CASE UNCHANGED lineVars
      BY <2>6 DEF lineVars, visionVars, nodeVars
  <2> QED BY <2>1, <2>2, <2>3, <2>4, <2>5, <2>6 DEF LineNext
<1> QED BY <1>1, <1>2, <1>3, <1>4, <1>5

-----------------------------------------------------------------------------
(* The line as a controller among clients *)

(* What the node puts into 40021 and 40022. *)
LEMMA NodeCommands ==
    ASSUME DesiredConfigured
    PROVE  /\ CommandOf(desired.event) \in CommandValues
           /\ SpeedOf(desired.event) \in SpeedValues
           /\ CommandOf(desired.event) \in RunCommands =>
                 /\ CommandOf(desired.event) = RunCommand
                 /\ SpeedOf(desired.event) = SpeedCmd
BY VisionAssumption, RegisterAssumption
   DEF DesiredConfigured, CommandOf, SpeedOf, RunCommands, COMMAND_STOP,
       COMMAND_EMERGENCY_STOP, COMMAND_RUN_CLOCKWISE, COMMAND_RUN_COUNTER_CLOCKWISE,
       EVENT_NONE, EVENT_CUBE_DETECTED, EVENT_CUBE_LOST, EVENT_DELIVERED, EVENT_EMERGENCY_STOP

(* A step of the node writes a command of its own or none. *)
LEMMA NodeWrites ==
    ASSUME NodeLoop \/ NodeStarts \/ NodeEnds
    PROVE  /\ UNCHANGED <<statusVars, piVars, buttonVars>>
           /\ PutCommand \/ UNCHANGED commandVars
<1>1. CASE NodeLoop
  <2>1. CASE Frame \/ ReadStatus \/ ReadFails
      BY <1>1, <2>1 DEF NodeLoop, Frame, ReadStatus, ReadFails
  <2>2. CASE WriteCommand \/ CommandRejected \/ WriteVision
      BY <1>1, <2>2 DEF NodeLoop, WriteCommand, CommandRejected, WriteVision
  <2>3. CASE VisionRejected \/ WriteRefused
      BY <1>1, <2>3 DEF NodeLoop, VisionRejected, WriteRefused
  <2>4. CASE RequestRaises \/ CommandReplyLost \/ VisionReplyLost
      BY <1>1, <2>4 DEF NodeLoop, RequestRaises, CommandReplyLost, VisionReplyLost
  <2> QED BY <1>1, <2>1, <2>2, <2>3, <2>4 DEF NodeLoop
<1>2. CASE NodeStarts
    BY <1>2 DEF NodeStarts, NodeStart
<1>3. CASE NodeEnds
    BY <1>3 DEF NodeEnds, Quit, Kill
<1> QED BY <1>1, <1>2, <1>3

(* The line changes the controller's variables as ConveyorPi does. *)
LEMMA LineStepIsPiStep == DesiredConfigured /\ [LineNext]_lineVars => [Next]_vars
<1> SUFFICES ASSUME DesiredConfigured, [LineNext]_lineVars PROVE [Next]_vars
    OBVIOUS
<1>1. CASE NodeLoop \/ NodeStarts \/ NodeEnds
  <2>1. CASE PutCommand
    <3>1. command' \in CommandValues /\ speed_cmd' \in SpeedValues
        BY <2>1, NodeCommands DEF PutCommand
    <3>2. ClientWrites
        BY <1>1, <3>1, NodeWrites DEF ClientWrites
    <3> QED BY <3>2 DEF Next
  <2>2. CASE UNCHANGED commandVars
      BY <1>1, <2>2, NodeWrites DEF vars
  <2> QED BY <1>1, <2>1, <2>2, NodeWrites
<1>2. CASE PiLoop \/ ControllerEnds \/ MotorInterferes
    BY <1>2 DEF PiLoop, ControllerEnds, MotorInterferes, Next, PiNext
<1>3. CASE ButtonsUsed \/ ServerStartsAgain
    BY <1>3 DEF ButtonsUsed, ServerStartsAgain, Next
<1>4. CASE CubesMove \/ UNCHANGED lineVars
    BY <1>4 DEF CubesMove, lineVars
<1> QED BY <1>1, <1>2, <1>3, <1>4 DEF LineNext

(* What the controller reads and remembers. *)
LEMMA RememberedCommand ==
    [Next]_vars =>
        \/ last_command' = command /\ last_speed_cmd' = speed_cmd
        \/ last_command' = NoValue
        \/ UNCHANGED <<last_command, last_speed_cmd>>
<1> SUFFICES ASSUME [Next]_vars
             PROVE  \/ last_command' = command /\ last_speed_cmd' = speed_cmd
                    \/ last_command' = NoValue
                    \/ UNCHANGED <<last_command, last_speed_cmd>>
    OBVIOUS
<1> USE DEF controllerVars
<1>1. CASE ReadAndApply
    BY <1>1 DEF ReadAndApply, Apply, ApplyInvalid, ApplyLatched, ApplyCommand
<1>2. CASE PollEmergency \/ PollRestart \/ WriteEmergency
    BY <1>2 DEF PollEmergency, PollRestart, WriteEmergency, HandleEmergencyButton,
                HandleRestartButton
<1>3. CASE PollNothing \/ WriteRestart \/ WriteStatus \/ Sleep \/ Announce
    BY <1>3 DEF PollNothing, WriteRestart, WriteStatus, Sleep, Announce
<1>4. CASE Connect \/ ConnectFails \/ Backoff
    BY <1>4 DEF Connect, ConnectFails, Backoff
<1>5. CASE RequestFails \/ WriteReplyLost
    BY <1>5 DEF RequestFails, WriteReplyLost, Raise
<1>6. CASE ProcessExit \/ ProcessStart \/ MotorDrops
    BY <1>6 DEF ProcessExit, ProcessStart, MotorDrops
<1>7. CASE ButtonNext \/ ClientWrites \/ ServerRestart \/ UNCHANGED vars
    BY <1>7 DEF ButtonNext, PushEmergency, PushRestart, ClientWrites, ServerRestart, vars, piVars
<1> QED BY <1>1, <1>2, <1>3, <1>4, <1>5, <1>6, <1>7 DEF Next, PiNext, LoopStep

(* 40021 and 40022 change together or not at all. *)
LEMMA CommandRegisters ==
    [LineNext]_lineVars => PutCommand \/ RegistersReset \/ UNCHANGED commandVars
<1> SUFFICES ASSUME [LineNext]_lineVars
             PROVE  PutCommand \/ RegistersReset \/ UNCHANGED commandVars
    OBVIOUS
<1>1. CASE NodeLoop \/ NodeStarts \/ NodeEnds
    BY <1>1, NodeWrites
<1>2. CASE PiLoop \/ ControllerEnds \/ MotorInterferes
  <2>1. PiNext
      BY <1>2 DEF PiLoop, ControllerEnds, MotorInterferes, PiNext
  <2> QED
      BY <2>1 DEF PiNext, LoopStep, Connect, ConnectFails, Backoff, Announce, PollEmergency,
                  PollRestart, PollNothing, WriteEmergency, WriteRestart, ReadAndApply, WriteStatus,
                  Sleep, RequestFails, WriteReplyLost, ProcessExit, ProcessStart, MotorDrops,
                  WriteDone
<1>3. CASE ServerStartsAgain
    BY <1>3 DEF ServerStartsAgain, ServerRestart
<1>4. CASE ButtonsUsed \/ CubesMove \/ UNCHANGED lineVars
    BY <1>4 DEF ButtonsUsed, ButtonNext, PushEmergency, PushRestart, CubesMove, lineVars, vars
<1> QED BY <1>1, <1>2, <1>3, <1>4 DEF LineNext

LEMMA LineInvariance == LineSpec => []LineInv
<1>1. LineInit => LineInv
    BY DEF LineInit, LineInv, VisionInit, RegistersInit, PiInit, DesiredConfigured,
           RegistersConfigured, ReadConfigured, idle_state, VisionStateOf, NoValue, RunCommands,
           COMMAND_STOP, COMMAND_RUN_CLOCKWISE, COMMAND_RUN_COUNTER_CLOCKWISE
<1>2. LineInv /\ [LineNext]_lineVars => LineInv'
  <2> SUFFICES ASSUME LineInv, [LineNext]_lineVars PROVE LineInv'
      OBVIOUS
  <2>1. DesiredConfigured'
      BY DesiredStep DEF LineInv
  <2>2. RegistersConfigured'
    <3>1. CASE PutCommand
        BY <3>1, NodeCommands DEF LineInv, PutCommand, RegistersConfigured
    <3>2. CASE RegistersReset
        BY <3>2 DEF RegistersReset, RegistersConfigured, RunCommands, COMMAND_STOP,
                    COMMAND_RUN_CLOCKWISE, COMMAND_RUN_COUNTER_CLOCKWISE
    <3>3. CASE UNCHANGED commandVars
        BY <3>3 DEF LineInv, commandVars, RegistersConfigured
    <3> QED BY <3>1, <3>2, <3>3, CommandRegisters
  <2>3. ReadConfigured'
    <3>1. [Next]_vars
        BY LineStepIsPiStep DEF LineInv
    <3>2. NoValue \notin RunCommands
        BY DEF NoValue, RunCommands, COMMAND_RUN_CLOCKWISE, COMMAND_RUN_COUNTER_CLOCKWISE
    <3> QED BY <3>1, <3>2, RememberedCommand DEF LineInv, ReadConfigured, RegistersConfigured
  <2> QED BY <2>1, <2>2, <2>3 DEF LineInv
<1> QED BY <1>1, <1>2, PTL DEF LineSpec

-----------------------------------------------------------------------------
(* Theorems *)

(* The line implements the controller among arbitrary clients: what the    *)
(* vision node writes is what some client of the specification may write,  *)
(* and it changes nothing else of the controller's world.                  *)
THEOREM LineImplementsPi == LineSpec => Spec
<1>1. LineInit => Init
    BY DEF LineInit, Init
<1>2. LineInv /\ [LineNext]_lineVars => [Next]_vars
    BY LineStepIsPiStep DEF LineInv
<1> QED BY <1>1, <1>2, LineInvariance, PTL DEF LineSpec, Spec

(* So the belt of the line is off while the emergency is latched ... *)
THEOREM LineLatchKeepsOff == LineSpec => []LatchedMeansOff
BY LineImplementsPi, LatchKeepsOff, PTL

(* ... and only ever moves in the direction and at the speed the node is   *)
(* configured with, whatever fails, crashes or is started again.           *)
THEOREM LineBeltAsConfigured == LineSpec => []BeltAsConfigured
<1>1. LineInv /\ DriveFollowsCommand => BeltAsConfigured
    BY DEF LineInv, ReadConfigured, DriveFollowsCommand, BeltAsConfigured
<1> QED BY <1>1, LineInvariance, LineImplementsPi, DriveIsCommanded, PTL

-----------------------------------------------------------------------------
(* The late command *)

(* An emergency finds the node between its look at the status and its write  *)
(* at most once: it has written then, or it still may.                       *)
LateInv ==
    IF status = STATUS_EMERGENCY_STOPPED
    THEN late = 0 \/ (late = 1 /\ vpc # "command")
    ELSE late = 0

LEMMA LateInvInitially == LineInit => LateInv
BY DEF LineInit, VisionInit, RegistersInit, LateInv, STATUS_EMERGENCY_STOPPED,
       STATUS_IDLE

(* Only a look at a status other than emergency_stopped leads to a command. *)
LEMMA CommandDecided ==
    [LineNext]_lineVars /\ status = STATUS_EMERGENCY_STOPPED /\ vpc # "command"
        => vpc' # "command"
<1> SUFFICES ASSUME [LineNext]_lineVars, status = STATUS_EMERGENCY_STOPPED, vpc # "command"
             PROVE  vpc' # "command"
    OBVIOUS
<1>1. CASE NodeLoop
  <2>1. CASE ReadStatus
    <3>1. ~Allowed(CommandOf(desired.event), STATUS_EMERGENCY_STOPPED)
        BY DEF Allowed, STATUS_IDLE, STATUS_RUNNING, STATUS_DELIVERED, STATUS_ERROR,
               STATUS_EMERGENCY_STOPPED
    <3> QED BY <2>1, <3>1 DEF ReadStatus
  <2>2. CASE Frame \/ ReadFails \/ WriteCommand \/ CommandRejected
      BY <2>2 DEF Frame, ReadFails, WriteCommand, CommandRejected
  <2>3. CASE WriteVision \/ VisionRejected \/ WriteRefused
      BY <2>3 DEF WriteVision, VisionRejected, WriteRefused, Return
  <2>4. CASE RequestRaises \/ CommandReplyLost \/ VisionReplyLost
      BY <2>4 DEF RequestRaises, CommandReplyLost, VisionReplyLost, Throw, BeginShutdown
  <2> QED BY <1>1, <2>1, <2>2, <2>3, <2>4 DEF NodeLoop
<1>2. CASE NodeStarts \/ NodeEnds
    BY <1>2 DEF NodeStarts, NodeStart, NodeEnds, Quit, BeginShutdown, Kill
<1>3. CASE PiLoop \/ ControllerEnds \/ MotorInterferes \/ ButtonsUsed
    BY <1>3 DEF PiLoop, ControllerEnds, MotorInterferes, ButtonsUsed, visionVars, nodeVars
<1>4. CASE CubesMove \/ ServerStartsAgain \/ UNCHANGED lineVars
    BY <1>4 DEF CubesMove, ServerStartsAgain, lineVars, visionVars, nodeVars
<1> QED BY <1>1, <1>2, <1>3, <1>4 DEF LineNext

LEMMA LineStepCounts == LineNext => CountsLate
BY DEF LineNext, PiLoop, ControllerEnds, MotorInterferes, ButtonsUsed, NodeLoop, NodeStarts,
       NodeEnds, CubesMove, ServerStartsAgain

LEMMA LateInvStep == LateInv /\ [LineNext]_lineVars => LateInv'
<1> SUFFICES ASSUME LateInv, [LineNext]_lineVars PROVE LateInv'
    OBVIOUS
<1>1. CASE UNCHANGED lineVars
    BY <1>1 DEF LateInv, lineVars, vars, statusVars, visionVars, nodeVars
<1>2. CASE LineNext /\ status' # STATUS_EMERGENCY_STOPPED
    BY <1>2, LineStepCounts DEF CountsLate, LateInv
<1>3. CASE LineNext /\ status' = STATUS_EMERGENCY_STOPPED /\ CommandArrives
  <2>1. vpc = "command" /\ vpc' # "command"
      BY <1>3 DEF CommandArrives, WriteCommand, CommandReplyLost, Throw, BeginShutdown
  <2>2. late = 0
      BY <2>1 DEF LateInv
  <2>3. late' = 1
      BY <1>3, <2>2, LineStepCounts DEF CountsLate
  <2> QED BY <1>3, <2>1, <2>3 DEF LateInv
<1>4. CASE LineNext /\ status' = STATUS_EMERGENCY_STOPPED /\ ~CommandArrives
  <2>1. late' = late
      BY <1>4, LineStepCounts DEF CountsLate
  <2>2. CASE status = STATUS_EMERGENCY_STOPPED
      BY <1>4, <2>1, <2>2, CommandDecided DEF LateInv
  <2>3. CASE status # STATUS_EMERGENCY_STOPPED
      BY <1>4, <2>1, <2>3 DEF LateInv
  <2> QED BY <2>2, <2>3
<1> QED BY <1>1, <1>2, <1>3, <1>4

(* At most one command write reaches 40021 while an emergency is published,  *)
(* whatever the configuration, the faults and the scene.                     *)
THEOREM EmergencyAdmitsOneCommand == LineSpec => []AtMostOneLateCommand
<1>1. LateInv => AtMostOneLateCommand
    BY DEF LateInv, AtMostOneLateCommand
<1> QED BY <1>1, LateInvInitially, LateInvStep, PTL DEF LineSpec

=============================================================================
