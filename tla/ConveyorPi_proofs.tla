-------------------------- MODULE ConveyorPi_proofs --------------------------
(***************************************************************************)
(* What holds of the conveyor controller whatever values the clients write *)
(* and however long it runs.                                               *)
(***************************************************************************)
EXTENDS ConveyorPi, TLAPS

-----------------------------------------------------------------------------
(* The inductive invariant *)

(* A latched controller has stopped its motor and says so. *)
LatchedStopped ==
    local_emergency_latched =>
        /\ direction = "none"
        /\ state.status \in {STATUS_ERROR, STATUS_EMERGENCY_STOPPED}

(* Without a sound connection the motor was stopped, not just switched off. *)
UnattendedStopped ==
    pc \in {"down", "connect", "announce", "backoff"} => direction = "none"

(* The run in progress is the one the last command read asks for. *)
RunFollowsCommand ==
    direction # "none" =>
        /\ last_command \in RunCommands
        /\ direction = DirectionOf(last_command)
        /\ motor_speed = last_speed_cmd

(* There is no connection while none is in use. *)
SessionInUse == session => pc \notin {"down", "connect", "backoff"}

(* The cache of the last write tells what the registers hold. *)
CacheTrue ==
    session /\ pc # "announce" => last_written_state = StateOf(status, error_code)

(* Between cycles there is nothing left to publish. *)
NothingPending ==
    session /\ pc \in {"poll", "read", "sleep"} => state = last_written_state

(* No button event is recent when the next poll comes. *)
DebounceOver ==
    ~FastPolling => (pc \in {"down", "connect", "announce", "poll"} => ~recent_event)

IInv ==
    /\ TypeOK
    /\ HaltedIsOff
    /\ LatchedStopped
    /\ UnattendedStopped
    /\ RunFollowsCommand
    /\ SessionInUse
    /\ CacheTrue
    /\ NothingPending
    /\ LatchedNeverInvitesRun
    /\ DebounceOver

-----------------------------------------------------------------------------
(* The enumerations *)

LEMMA StateTypes ==
    /\ StateOf(STATUS_IDLE, ERROR_NONE) \in ControllerState
    /\ StateOf(STATUS_RUNNING, ERROR_NONE) \in ControllerState
    /\ StateOf(STATUS_ERROR, ERROR_INVALID_COMMAND) \in ControllerState
    /\ StateOf(STATUS_ERROR, ERROR_MODBUS_READ_FAILED) \in ControllerState
    /\ StateOf(STATUS_EMERGENCY_STOPPED, ERROR_LOCAL_EMERGENCY_STOP) \in ControllerState
BY DEF StateOf, ControllerState, Statuses, ErrorCodes, STATUS_IDLE, STATUS_RUNNING, STATUS_ERROR,
       STATUS_EMERGENCY_STOPPED, ERROR_NONE, ERROR_INVALID_COMMAND, ERROR_MODBUS_READ_FAILED,
       ERROR_LOCAL_EMERGENCY_STOP

LEMMA StateFields ==
    ASSUME NEW s \in ControllerState
    PROVE  s.status \in Statuses /\ s.error \in ErrorCodes
BY DEF ControllerState

LEMMA InitialValues ==
    /\ STATUS_IDLE \in Statuses
    /\ ERROR_NONE \in ErrorCodes
    /\ COMMAND_STOP \in CommandValues
    /\ 0 \in SpeedValues
BY RegisterAssumption DEF Statuses, ErrorCodes, STATUS_IDLE, ERROR_NONE

LEMMA DirectionTypes ==
    ASSUME NEW c
    PROVE  DirectionOf(c) \in Directions
BY DEF DirectionOf, Directions

-----------------------------------------------------------------------------
(* The motor: the controller uses it through its contract only. *)

LEMMA MotorUse == [Next]_vars => [MotorNext]_motorVars
<1> SUFFICES ASSUME [Next]_vars PROVE [MotorNext]_motorVars
  OBVIOUS
<1>1. KeepMotor => UNCHANGED motorVars
  BY DEF KeepMotor
<1>2. StopMotor => MotorHalt
  BY DEF StopMotor
<1>3. ASSUME NEW c, NEW s, StartMotor(c, s) PROVE MotorNext
  BY <1>3, DirectionTypes DEF StartMotor, MotorNext
<1>4. ASSUME NEW c, NEW s, Apply(c, s) PROVE MotorNext \/ UNCHANGED motorVars
  BY <1>1, <1>2, <1>3, <1>4 DEF Apply, ApplyInvalid, ApplyLatched, ApplyCommand, MotorNext
<1>5. CASE Connect \/ ConnectFails \/ Backoff \/ Announce \/ PollNothing \/ WriteRestart
           \/ WriteStatus \/ Sleep \/ ProcessStart
  BY <1>1, <1>5 DEF Connect, ConnectFails, Backoff, Announce, PollNothing, WriteRestart,
     WriteStatus, Sleep, ProcessStart
<1>6. CASE PollEmergency \/ PollRestart \/ WriteEmergency
  BY <1>1, <1>2, <1>6 DEF PollEmergency, PollRestart, WriteEmergency, HandleEmergencyButton,
     HandleRestartButton, MotorNext
<1>7. CASE ReadAndApply
  BY <1>4, <1>7 DEF ReadAndApply
<1>8. CASE RequestFails \/ WriteReplyLost \/ ProcessExit
  BY <1>2, <1>8 DEF RequestFails, WriteReplyLost, ProcessExit, Raise, MotorNext
<1>9. CASE MotorDrops
  BY <1>9 DEF MotorDrops, MotorNext
<1>10. CASE ButtonNext \/ ClientWrites \/ ServerRestart
  BY <1>10 DEF ButtonNext, PushEmergency, PushRestart, ClientWrites, ServerRestart, piVars, motorVars
<1>11. CASE UNCHANGED vars
  BY <1>11 DEF vars, piVars, motorVars
<1>12. QED
  BY <1>5, <1>6, <1>7, <1>8, <1>9, <1>10, <1>11 DEF Next, PiNext, LoopStep

LEMMA MotorKeepsType ==
    MotorTypeOK /\ HaltedIsOff /\ [MotorNext]_motorVars => MotorTypeOK' /\ HaltedIsOff'
<1> SUFFICES ASSUME MotorTypeOK, HaltedIsOff, [MotorNext]_motorVars
             PROVE  MotorTypeOK' /\ HaltedIsOff'
  OBVIOUS
<1> USE DEF MotorTypeOK, HaltedIsOff
<1>1. ASSUME NEW d \in Directions, MotorStart(d) PROVE MotorTypeOK' /\ HaltedIsOff'
  BY <1>1 DEF MotorStart, Directions
<1>2. CASE MotorHalt
  BY <1>2 DEF MotorHalt
<1>3. CASE MotorDropDriver
  BY <1>3 DEF MotorDropDriver
<1>4. CASE MotorDropRunning
  BY <1>4 DEF MotorDropRunning
<1>5. CASE UNCHANGED motorVars
  BY <1>5 DEF motorVars
<1>6. QED
  BY <1>1, <1>2, <1>3, <1>4, <1>5 DEF MotorNext

-----------------------------------------------------------------------------
(* Type correctness *)

LEMMA RegistersKeepType == TypeOK /\ [Next]_vars => RegistersTypeOK'
<1> SUFFICES ASSUME TypeOK, [Next]_vars PROVE RegistersTypeOK'
  OBVIOUS
<1> USE DEF TypeOK, RegistersTypeOK, commandVars, statusVars
<1>1. PublishState => status' \in Statuses /\ error_code' \in ErrorCodes
  BY StateFields DEF PublishState, PiTypeOK
<1>2. CASE Announce \/ WriteEmergency \/ WriteRestart \/ WriteStatus \/ WriteReplyLost
  BY <1>1, <1>2 DEF Announce, WriteEmergency, WriteRestart, WriteStatus, WriteReplyLost, WriteDone
<1>3. CASE Connect \/ ConnectFails \/ Backoff \/ PollEmergency \/ PollRestart \/ PollNothing
           \/ ReadAndApply \/ Sleep \/ RequestFails
  BY <1>3 DEF Connect, ConnectFails, Backoff, PollEmergency, PollRestart, PollNothing,
     ReadAndApply, Sleep, RequestFails
<1>4. CASE ProcessExit \/ ProcessStart \/ MotorDrops \/ ButtonNext
  BY <1>4 DEF ProcessExit, ProcessStart, MotorDrops, ButtonNext, PushEmergency, PushRestart
<1>5. CASE ClientWrites
  BY <1>5 DEF ClientWrites
<1>6. CASE ServerRestart
  BY <1>6, InitialValues DEF ServerRestart, RegistersReset
<1>7. CASE UNCHANGED vars
  BY <1>7 DEF vars
<1>8. QED
  BY <1>2, <1>3, <1>4, <1>5, <1>6, <1>7 DEF Next, PiNext, LoopStep

LEMMA PiKeepsType == TypeOK /\ [Next]_vars => PiTypeOK'
<1> SUFFICES ASSUME TypeOK, [Next]_vars PROVE PiTypeOK'
  OBVIOUS
<1> USE DEF TypeOK, PiTypeOK, controllerVars, readerVars, buttonVars
<1>1. CASE Connect
  BY <1>1 DEF Connect, KeepMotor, Phases, Requests
<1>2. CASE ConnectFails
  BY <1>2 DEF ConnectFails, KeepMotor, Phases, Requests
<1>3. CASE Backoff
  BY <1>3 DEF Backoff, KeepMotor, Phases, Requests
<1>4. CASE Announce
  BY <1>4 DEF Announce, KeepMotor, WriteDone, Phases, Requests
<1>5. CASE PollEmergency
  BY <1>5, StateTypes DEF PollEmergency, RestartEdge, SampleLines, HandleEmergencyButton, StopMotor, SetState,
     Phases, Requests
<1>6. CASE PollRestart
  BY <1>6, StateTypes DEF PollRestart, SampleLines, HandleRestartButton, StopMotor, SetState,
     Phases, Requests
<1>7. CASE PollNothing
  BY <1>7 DEF PollNothing, SampleLines, KeepMotor, Phases, Requests
<1>8. CASE WriteEmergency
  BY <1>8, StateTypes DEF WriteEmergency, WriteDone, HandleRestartButton, StopMotor, SetState, KeepMotor,
     Phases, Requests
<1>9. CASE WriteRestart
  BY <1>9 DEF WriteRestart, WriteDone, KeepMotor, Phases, Requests
<1>10. CASE ReadAndApply
  BY <1>10, StateTypes DEF ReadAndApply, Apply, ApplyInvalid, ApplyLatched, ApplyCommand,
     SetState, StopMotor, KeepMotor, StartMotor, RegistersTypeOK, Phases, Requests
<1>11. CASE WriteStatus
  BY <1>11 DEF WriteStatus, WriteDone, KeepMotor, Phases, Requests
<1>12. CASE Sleep
  BY <1>12 DEF Sleep, KeepMotor, Phases, Requests
<1>13. CASE RequestFails
  BY <1>13, StateTypes DEF RequestFails, Raise, StopMotor, SetState, Phases, Requests
<1>14. CASE WriteReplyLost
  BY <1>14, StateTypes DEF WriteReplyLost, Raise, StopMotor, SetState, Phases, Requests
<1>15. CASE ProcessExit
  BY <1>15, StateTypes DEF ProcessExit, SetState, Phases, Requests
<1>16. CASE ProcessStart
  BY <1>16 DEF ProcessStart, KeepMotor, Phases, Requests
<1>17. CASE MotorDrops
  BY <1>17 DEF MotorDrops
<1>18. CASE PushEmergency
  BY <1>18 DEF PushEmergency, piVars
<1>19. CASE PushRestart
  BY <1>19 DEF PushRestart, piVars
<1>20. CASE ClientWrites
  BY <1>20 DEF ClientWrites, piVars
<1>21. CASE ServerRestart
  BY <1>21 DEF ServerRestart
<1>22. CASE UNCHANGED vars
  BY <1>22 DEF vars, piVars
<1>23. QED
  BY <1>1, <1>2, <1>3, <1>4, <1>5, <1>6, <1>7, <1>8, <1>9, <1>10, <1>11,
     <1>12, <1>13, <1>14, <1>15, <1>16, <1>17, <1>18, <1>19, <1>20, <1>21, <1>22 DEF Next, PiNext, LoopStep, ButtonNext

(* Every variable keeps its type, and a motor that was stopped is off. *)
THEOREM TypeCorrect == Spec => [](TypeOK /\ HaltedIsOff)
<1>1. Init => TypeOK /\ HaltedIsOff
  BY InitialValues, StateTypes DEF Init, RegistersInit, PiInit, MotorInit, TypeOK, RegistersTypeOK,
     MotorTypeOK, PiTypeOK, HaltedIsOff, Phases, Requests
<1>2. TypeOK /\ HaltedIsOff /\ [Next]_vars => TypeOK' /\ HaltedIsOff'
  BY MotorUse, MotorKeepsType, RegistersKeepType, PiKeepsType DEF TypeOK
<1>3. QED
  BY <1>1, <1>2, PTL DEF Spec

-----------------------------------------------------------------------------
(* The motor's part of the invariant *)

MotorInv == LatchedStopped /\ UnattendedStopped /\ RunFollowsCommand

LEMMA RunIsNoOtherCommand ==
    /\ COMMAND_STOP \notin RunCommands
    /\ COMMAND_RESET \notin RunCommands
    /\ COMMAND_EMERGENCY_STOP \notin RunCommands
    /\ RunCommands \subseteq Commands
BY DEF RunCommands, Commands, COMMAND_STOP, COMMAND_RUN_CLOCKWISE, COMMAND_RUN_COUNTER_CLOCKWISE,
       COMMAND_RESET, COMMAND_EMERGENCY_STOP

LEMMA StateStatus ==
    ASSUME NEW s, NEW e
    PROVE  StateOf(s, e).status = s /\ StateOf(s, e).error = e
BY DEF StateOf

LEMMA MotorInvStep == TypeOK /\ HaltedIsOff /\ MotorInv /\ [Next]_vars => MotorInv'
<1> SUFFICES ASSUME TypeOK, HaltedIsOff, MotorInv, [Next]_vars PROVE MotorInv'
  OBVIOUS
<1> USE DEF MotorInv, LatchedStopped, UnattendedStopped, RunFollowsCommand
<1>1. CASE Connect \/ ConnectFails \/ Backoff \/ ProcessStart
  BY <1>1 DEF Connect, ConnectFails, Backoff, ProcessStart, KeepMotor, motorVars, controllerVars
<1>2. CASE Announce \/ PollNothing \/ WriteRestart \/ WriteStatus \/ Sleep
  <2>1. pc' \in {"poll", "read", "sleep"}
    BY <1>2 DEF Announce, PollNothing, WriteRestart, WriteStatus, Sleep
  <2>2. KeepMotor /\ UNCHANGED controllerVars
    BY <1>2 DEF Announce, PollNothing, WriteRestart, WriteStatus, Sleep
  <2>3. QED
    BY <2>1, <2>2 DEF KeepMotor, motorVars, controllerVars
<1>3. CASE PollEmergency \/ PollRestart
  BY <1>3, StateStatus DEF PollEmergency, PollRestart, HandleEmergencyButton, HandleRestartButton,
     StopMotor, MotorHalt, SetState
<1>4. CASE RequestFails \/ WriteReplyLost
  BY <1>4, StateStatus DEF RequestFails, WriteReplyLost, Raise, StopMotor, MotorHalt, SetState
<1>5. CASE ProcessExit
  BY <1>5 DEF ProcessExit, MotorHalt
<1>6. CASE WriteEmergency
  BY <1>6 DEF WriteEmergency, HandleRestartButton, StopMotor, MotorHalt, KeepMotor, motorVars,
     controllerVars
<1>7. CASE ReadAndApply
  <2>1. pc' \in {"sleep", "write"}
    BY <1>7 DEF ReadAndApply
  <2>2. CASE ApplyInvalid(command)
    BY <2>1, <2>2, StateStatus DEF ApplyInvalid, StopMotor, MotorHalt, SetState
  <2>3. CASE ApplyLatched(command)
    BY <2>1, <2>3, StateStatus DEF ApplyLatched, KeepMotor, motorVars, SetState
  <2>4. CASE ApplyCommand(command, speed_cmd)
    <3> DEFINE changed == command # last_command \/ speed_cmd # last_speed_cmd
    <3>1. /\ ~local_emergency_latched'
          /\ last_command' = command
          /\ last_speed_cmd' = speed_cmd
      BY <2>4 DEF ApplyCommand
    <3>2. CASE command \in {COMMAND_STOP, COMMAND_RESET, COMMAND_EMERGENCY_STOP}
      <4>1. IF changed THEN StopMotor ELSE KeepMotor
        BY <2>4, <3>2, RunIsNoOtherCommand DEF ApplyCommand
      <4>2. direction' = "none"
        BY <3>2, <4>1, RunIsNoOtherCommand DEF StopMotor, MotorHalt, KeepMotor, motorVars
      <4>3. QED
        BY <2>1, <3>1, <4>2
    <3>3. CASE command \in RunCommands
      <4>1. IF changed \/ ~running THEN StartMotor(command, speed_cmd) ELSE KeepMotor
        BY <2>4, <3>3, RunIsNoOtherCommand DEF ApplyCommand
      <4>2. direction' = DirectionOf(command) /\ motor_speed' = speed_cmd
        BY <4>1 DEF StartMotor, MotorStart, KeepMotor, motorVars, HaltedIsOff
      <4>3. QED
        BY <2>1, <3>1, <3>3, <4>2
    <3>4. QED
      BY <2>4, <3>2, <3>3 DEF ApplyCommand
  <2>5. QED
    BY <1>7, <2>2, <2>3, <2>4 DEF ReadAndApply, Apply
<1>8. CASE MotorDrops
  BY <1>8 DEF MotorDrops, MotorDropDriver, MotorDropRunning, controllerVars
<1>9. CASE ButtonNext \/ ClientWrites \/ ServerRestart \/ UNCHANGED vars
  BY <1>9 DEF ButtonNext, PushEmergency, PushRestart, ClientWrites, ServerRestart, vars, piVars,
     motorVars, controllerVars
<1>10. QED
  BY <1>1, <1>2, <1>3, <1>4, <1>5, <1>6, <1>7, <1>8, <1>9 DEF Next, PiNext, LoopStep

-----------------------------------------------------------------------------
(* The published status *)

PublishInv == SessionInUse /\ CacheTrue /\ NothingPending

(* A write that returned leaves the cache and the registers in agreement. *)
LEMMA WriteAgrees ==
    ASSUME TypeOK, WriteDone
    PROVE  /\ last_written_state' = state
           /\ last_written_state' = StateOf(status, error_code)'
           /\ session' = session /\ session
BY DEF WriteDone, PublishState, TypeOK, PiTypeOK, ControllerState, StateOf

LEMMA PublishInvStep == TypeOK /\ PublishInv /\ [Next]_vars => PublishInv'
<1> SUFFICES ASSUME TypeOK, PublishInv, [Next]_vars PROVE PublishInv'
  OBVIOUS
<1> USE DEF PublishInv, SessionInUse, CacheTrue, NothingPending
<1>1. CASE Connect
  BY <1>1 DEF Connect
<1>2. CASE ConnectFails \/ Backoff \/ ProcessStart
  BY <1>2 DEF ConnectFails, Backoff, ProcessStart
<1>3. CASE Announce
  BY <1>3, WriteAgrees DEF Announce, controllerVars
<1>4. CASE PollEmergency \/ PollRestart
  BY <1>4 DEF PollEmergency, PollRestart, statusVars, StateOf
<1>5. CASE PollNothing
  BY <1>5 DEF PollNothing, controllerVars, statusVars, StateOf
<1>6. CASE WriteEmergency
  <2>1. CASE restart_pending
    BY <1>6, <2>1, WriteAgrees DEF WriteEmergency
  <2>2. CASE ~restart_pending
    BY <1>6, <2>2, WriteAgrees DEF WriteEmergency, controllerVars
  <2>3. QED
    BY <2>1, <2>2
<1>7. CASE WriteRestart \/ WriteStatus
  BY <1>7, WriteAgrees DEF WriteRestart, WriteStatus, controllerVars
<1>8. CASE ReadAndApply
  BY <1>8 DEF ReadAndApply, statusVars, StateOf
<1>9. CASE Sleep
  BY <1>9 DEF Sleep, controllerVars, statusVars, StateOf
<1>10. CASE RequestFails \/ WriteReplyLost
  BY <1>10 DEF RequestFails, WriteReplyLost, Raise
<1>11. CASE ProcessExit
  BY <1>11 DEF ProcessExit
<1>12. CASE MotorDrops
  BY <1>12 DEF MotorDrops, controllerVars, statusVars, StateOf
<1>13. CASE ServerRestart
  BY <1>13 DEF ServerRestart
<1>14. CASE ButtonNext \/ ClientWrites
  BY <1>14 DEF ButtonNext, PushEmergency, PushRestart, ClientWrites, piVars, controllerVars,
     statusVars, StateOf
<1>15. CASE UNCHANGED vars
  BY <1>15 DEF vars, piVars, controllerVars, statusVars, StateOf
<1>16. QED
  BY <1>1, <1>2, <1>3, <1>4, <1>5, <1>6, <1>7, <1>8, <1>9, <1>10, <1>11, <1>12, <1>13, <1>14,
     <1>15 DEF Next, PiNext, LoopStep, ButtonNext

-----------------------------------------------------------------------------
(* The status while latched *)

LEMMA InviteStep ==
    TypeOK /\ LatchedStopped /\ LatchedNeverInvitesRun /\ [Next]_vars => LatchedNeverInvitesRun'
<1> SUFFICES ASSUME TypeOK, LatchedStopped, LatchedNeverInvitesRun, [Next]_vars
             PROVE  LatchedNeverInvitesRun'
  OBVIOUS
<1> USE DEF LatchedStopped, LatchedNeverInvitesRun
<1>1. CASE Connect \/ ConnectFails \/ Backoff \/ ProcessStart
  BY <1>1 DEF Connect, ConnectFails, Backoff, ProcessStart
<1>2. CASE Announce \/ WriteRestart \/ WriteStatus
  BY <1>2 DEF Announce, WriteRestart, WriteStatus, WriteDone, PublishState, controllerVars
<1>3. CASE WriteEmergency
  BY <1>3 DEF WriteEmergency, WriteDone, PublishState, controllerVars
<1>4. CASE PollEmergency \/ PollRestart
  BY <1>4 DEF PollEmergency, PollRestart
<1>5. CASE PollNothing \/ Sleep
  BY <1>5 DEF PollNothing, Sleep, controllerVars, statusVars
<1>6. CASE ReadAndApply
  <2>1. UNCHANGED local_emergency_latched
    BY <1>6 DEF ReadAndApply, Apply, ApplyInvalid, ApplyLatched, ApplyCommand
  <2>2. pc = "read" /\ session /\ UNCHANGED statusVars
    BY <1>6 DEF ReadAndApply
  <2>3. QED
    BY <2>1, <2>2 DEF statusVars
<1>7. CASE RequestFails \/ WriteReplyLost
  BY <1>7 DEF RequestFails, WriteReplyLost, Raise
<1>8. CASE ProcessExit
  BY <1>8 DEF ProcessExit
<1>9. CASE MotorDrops
  BY <1>9 DEF MotorDrops, controllerVars, statusVars
<1>10. CASE ServerRestart
  BY <1>10 DEF ServerRestart
<1>11. CASE ButtonNext \/ ClientWrites
  BY <1>11 DEF ButtonNext, PushEmergency, PushRestart, ClientWrites, piVars, controllerVars, statusVars
<1>12. CASE UNCHANGED vars
  BY <1>12 DEF vars, piVars, controllerVars, statusVars
<1>13. QED
  BY <1>1, <1>2, <1>3, <1>4, <1>5, <1>6, <1>7, <1>8, <1>9, <1>10, <1>11, <1>12
     DEF Next, PiNext, LoopStep

-----------------------------------------------------------------------------
(* The debounce time *)

LEMMA DebounceStep == DebounceOver /\ [Next]_vars => DebounceOver'
<1> SUFFICES ASSUME DebounceOver, [Next]_vars PROVE DebounceOver'
  OBVIOUS
<1> USE DEF DebounceOver
<1>1. CASE ProcessStart \/ Connect \/ Announce
  BY <1>1 DEF ProcessStart, Connect, Announce, WriteDone, readerVars
<1>2. CASE ConnectFails \/ PollEmergency \/ PollRestart \/ PollNothing
  BY <1>2 DEF ConnectFails, PollEmergency, PollRestart, PollNothing
<1>3. CASE Backoff
  BY <1>3 DEF Backoff
<1>4. CASE WriteEmergency \/ WriteRestart \/ WriteStatus
  BY <1>4 DEF WriteEmergency, WriteRestart, WriteStatus
<1>5. CASE ReadAndApply \/ RequestFails \/ WriteReplyLost
  BY <1>5 DEF ReadAndApply, RequestFails, WriteReplyLost, Raise
<1>6. CASE Sleep
  BY <1>6 DEF Sleep
<1>7. CASE ProcessExit
  BY <1>7 DEF ProcessExit
<1>8. CASE MotorDrops \/ ServerRestart
  BY <1>8 DEF MotorDrops, ServerRestart, readerVars
<1>9. CASE ButtonNext \/ ClientWrites \/ UNCHANGED vars
  BY <1>9 DEF ButtonNext, PushEmergency, PushRestart, ClientWrites, vars, piVars, readerVars
<1>10. QED
  BY <1>1, <1>2, <1>3, <1>4, <1>5, <1>6, <1>7, <1>8, <1>9 DEF Next, PiNext, LoopStep

-----------------------------------------------------------------------------
(* The theorems *)

LEMMA Invariance == Spec => []IInv
<1> USE DEF MotorInv, PublishInv
<1>1. Init => IInv
  <2> SUFFICES ASSUME Init PROVE IInv
    OBVIOUS
  <2>1. TypeOK /\ HaltedIsOff
    BY InitialValues, StateTypes DEF Init, RegistersInit, PiInit, MotorInit, TypeOK, RegistersTypeOK,
       MotorTypeOK, PiTypeOK, HaltedIsOff, Phases, Requests
  <2>2. LatchedStopped /\ UnattendedStopped /\ RunFollowsCommand /\ SessionInUse
    BY DEF Init, PiInit, MotorInit, LatchedStopped, UnattendedStopped, RunFollowsCommand, SessionInUse
  <2>3. CacheTrue /\ NothingPending /\ LatchedNeverInvitesRun /\ DebounceOver
    BY DEF Init, PiInit, CacheTrue, NothingPending, LatchedNeverInvitesRun, DebounceOver
  <2>4. QED
    BY <2>1, <2>2, <2>3 DEF IInv
<1>2. IInv /\ [Next]_vars => IInv'
  <2> SUFFICES ASSUME IInv, [Next]_vars PROVE IInv'
    OBVIOUS
  <2>1. TypeOK' /\ HaltedIsOff'
    BY MotorUse, MotorKeepsType, RegistersKeepType, PiKeepsType DEF IInv, TypeOK
  <2>2. MotorInv'
    BY MotorInvStep DEF IInv
  <2>3. PublishInv'
    BY PublishInvStep DEF IInv
  <2>4. LatchedNeverInvitesRun' /\ DebounceOver'
    BY InviteStep, DebounceStep DEF IInv
  <2>5. QED
    BY <2>1, <2>2, <2>3, <2>4 DEF IInv
<1>3. QED
  BY <1>1, <1>2, PTL DEF Spec

(* While the emergency stop is latched the belt is off. *)
THEOREM LatchKeepsOff == Spec => []LatchedMeansOff
<1>1. IInv => LatchedMeansOff
  BY DEF IInv, LatchedStopped, HaltedIsOff, LatchedMeansOff
<1>2. QED
  BY <1>1, Invariance, PTL

(* The belt is driven by nothing but the last command read. *)
THEOREM DriveIsCommanded == Spec => []DriveFollowsCommand
<1>1. IInv => DriveFollowsCommand
  BY DEF IInv, HaltedIsOff, RunFollowsCommand, DriveFollowsCommand
<1>2. QED
  BY <1>1, Invariance, PTL

(* Without a connection the belt is off. *)
THEOREM UnattendedIsOff == Spec => []OffWhileUnattended
<1>1. IInv => OffWhileUnattended
  BY DEF IInv, HaltedIsOff, UnattendedStopped, OffWhileUnattended
<1>2. QED
  BY <1>1, Invariance, PTL

(* Between cycles the registers hold the controller's state. *)
THEOREM StatusIsTrue == Spec => []StatusPublished
<1>1. IInv => StatusPublished
  BY StateStatus DEF IInv, CacheTrue, NothingPending, StatusPublished
<1>2. QED
  BY <1>1, Invariance, PTL

(* The status published while latched invites nobody to run the belt. *)
THEOREM LatchIsVisible == Spec => []LatchedNeverInvitesRun
<1>1. IInv => LatchedNeverInvitesRun
  BY DEF IInv
<1>2. QED
  BY <1>1, Invariance, PTL

(* With a poll interval no shorter than the debounce time, no emergency    *)
(* press seen by a poll is ever swallowed.                                 *)
THEOREM PressSeenLatches ==
    ASSUME ~FastPolling
    PROVE  Spec => EmergencyEdgeLatches
<1> DEFINE Latches == pc = "poll" /\ EmergencyEdge /\ pc' \notin {"poll", "down"}
                         => local_emergency_latched'
<1>1. IInv /\ [Next]_vars => [Latches]_vars
  <2> SUFFICES ASSUME IInv, Next, pc = "poll", EmergencyEdge, pc' \notin {"poll", "down"}
               PROVE  local_emergency_latched'
    OBVIOUS
  <2>1. ~recent_event
    BY DEF IInv, DebounceOver
  <2>2. CASE PollEmergency
    BY <2>2 DEF PollEmergency, HandleEmergencyButton
  <2>3. CASE RequestFails \/ WriteReplyLost
    BY <2>3 DEF RequestFails, WriteReplyLost, Requests
  <2>4. CASE ButtonNext \/ ClientWrites \/ ServerRestart \/ MotorDrops
    BY <2>4 DEF ButtonNext, PushEmergency, PushRestart, ClientWrites, ServerRestart, MotorDrops, piVars
  <2>5. CASE Connect \/ ConnectFails \/ Backoff \/ Announce \/ PollRestart \/ PollNothing
             \/ WriteEmergency \/ WriteRestart
    BY <2>1, <2>5 DEF Connect, ConnectFails, Backoff, Announce, PollRestart, PollNothing,
       WriteEmergency, WriteRestart
  <2>6. CASE ReadAndApply \/ WriteStatus \/ Sleep \/ ProcessExit \/ ProcessStart
    BY <2>6 DEF ReadAndApply, WriteStatus, Sleep, ProcessExit, ProcessStart
  <2>7. QED
    BY <2>2, <2>3, <2>4, <2>5, <2>6 DEF Next, PiNext, LoopStep
<1>2. QED
  BY <1>1, Invariance, PTL DEF Spec, EmergencyEdgeLatches

=============================================================================
