------------------------------ MODULE ConveyorPi ------------------------------
(***************************************************************************)
(* The conveyor controller on the Raspberry Pi (conveyor/modbus_client/    *)
(* conveyor_modbus_client_controller.py): class ConveyorController and the *)
(* loop ConveyorModbusClientRunner.run_forever, with the two push buttons  *)
(* it polls (conveyor_motor.py, class ButtonReader) and the motor it       *)
(* drives, known here by its contract.                                     *)
(*                                                                         *)
(* The loop is one asyncio task: a step runs from the return of one await  *)
(* to the next, and the registers change under other clients only in       *)
(* between.  Every Modbus request may fail; a write may also reach the     *)
(* server and lose its answer.  A connection that broke fails the next     *)
(* request made on it.                                                     *)
(***************************************************************************)
EXTENDS ConveyorRegisters, MotorContract

CONSTANT FastPolling    \* the poll interval is set below the debounce time

ASSUME PollingAssumption == FastPolling \in BOOLEAN

NoValue == -1           \* None in last_command and last_speed_cmd

VARIABLES
    pc,                 \* the request or sleep the loop is in
    session,            \* the TCP connection of the current client is intact
    local_emergency_latched,
    last_command,
    last_speed_cmd,
    state,              \* controller.state
    last_written_state, \* runner.last_written_state
    restart_pending,    \* events.restart_pressed of the poll being handled
    motor_speed,        \* speed argument of the last motor start
    emergency_line,     \* GPIO levels: 1 released, 0 pressed
    restart_line,
    last_emergency,     \* levels seen by the previous poll
    last_restart,
    recent_event        \* less than debounce_sec since the last button event

buttonVars == <<emergency_line, restart_line>>
readerVars == <<last_emergency, last_restart, recent_event>>
controllerVars == <<local_emergency_latched, last_command, last_speed_cmd, state>>
piVars == <<pc, session, controllerVars, last_written_state, restart_pending,
            motor_speed, motorVars, readerVars>>
vars == <<commandVars, statusVars, piVars, buttonVars>>

ControllerState == [status : Statuses, error : ErrorCodes]
StateOf(s, e) == [status |-> s, error |-> e]
NothingWritten == StateOf(NoValue, NoValue)

Requests == {"announce", "writeEmergency", "writeRestart", "read", "write"}
Phases == Requests \cup {"down", "connect", "poll", "sleep", "backoff"}

DirectionOf(c) ==
    IF c = COMMAND_RUN_CLOCKWISE THEN "clockwise" ELSE "counter_clockwise"

PiTypeOK ==
    /\ pc \in Phases
    /\ session \in BOOLEAN
    /\ local_emergency_latched \in BOOLEAN
    /\ last_command \in Commands \cup {NoValue}
    /\ last_speed_cmd \in SpeedValues \cup {NoValue}
    /\ state \in ControllerState
    /\ last_written_state \in ControllerState \cup {NothingWritten}
    /\ restart_pending \in BOOLEAN
    /\ motor_speed \in SpeedValues \cup {NoValue}
    /\ emergency_line \in {0, 1} /\ restart_line \in {0, 1}
    /\ last_emergency \in {0, 1} /\ last_restart \in {0, 1}
    /\ recent_event \in BOOLEAN

TypeOK == RegistersTypeOK /\ MotorTypeOK /\ PiTypeOK

PiInit ==
    /\ pc = "connect"
    /\ session = FALSE
    /\ local_emergency_latched = FALSE
    /\ last_command = NoValue
    /\ last_speed_cmd = NoValue
    /\ state = StateOf(STATUS_IDLE, ERROR_NONE)
    /\ last_written_state = NothingWritten
    /\ restart_pending = FALSE
    /\ motor_speed = NoValue
    /\ last_emergency = 1
    /\ last_restart = 1
    /\ recent_event = FALSE
    /\ MotorInit
    /\ emergency_line = 1
    /\ restart_line = 1

-----------------------------------------------------------------------------
(* ConveyorController *)

SetState(s, e) == state' = StateOf(s, e)

StopMotor == MotorHalt /\ UNCHANGED motor_speed
KeepMotor == UNCHANGED <<motorVars, motor_speed>>
StartMotor(c, s) == MotorStart(DirectionOf(c)) /\ motor_speed' = s

(* Variant for the mutation runs: the command is remembered before it is   *)
(* parsed.                                                                 *)
ApplyInvalid_remembered(c) ==
    /\ c \notin Commands
    /\ StopMotor
    /\ SetState(STATUS_ERROR, ERROR_INVALID_COMMAND)
    /\ last_command' = c
    /\ UNCHANGED <<local_emergency_latched, last_speed_cmd>>

(* apply_modbus_command(c, s) *)
ApplyInvalid(c) ==
    /\ c \notin Commands
    /\ StopMotor
    /\ SetState(STATUS_ERROR, ERROR_INVALID_COMMAND)
    /\ UNCHANGED <<local_emergency_latched, last_command, last_speed_cmd>>

ApplyLatched(c) ==
    /\ c \in Commands
    /\ local_emergency_latched
    /\ SetState(STATUS_EMERGENCY_STOPPED, ERROR_LOCAL_EMERGENCY_STOP)
    /\ KeepMotor
    /\ UNCHANGED <<local_emergency_latched, last_command, last_speed_cmd>>

(* Variant: a new speed alone is not a change. *)
ApplyCommand_speed_ignored(c, s) ==
    LET changed == c # last_command IN
    /\ c \in Commands
    /\ ~local_emergency_latched
    /\ last_command' = c
    /\ last_speed_cmd' = s
    /\ UNCHANGED local_emergency_latched
    /\ \/ /\ c \in {COMMAND_STOP, COMMAND_RESET}
          /\ IF changed THEN StopMotor ELSE KeepMotor
          /\ SetState(STATUS_IDLE, ERROR_NONE)
       \/ /\ c \in RunCommands
          /\ IF changed \/ ~running THEN StartMotor(c, s) ELSE KeepMotor
          /\ SetState(STATUS_RUNNING, ERROR_NONE)
       \/ /\ c = COMMAND_EMERGENCY_STOP
          /\ IF changed THEN StopMotor ELSE KeepMotor
          /\ SetState(STATUS_EMERGENCY_STOPPED, ERROR_LOCAL_EMERGENCY_STOP)

(* Variant: an unchanged run command is taken to be running. *)
ApplyCommand_run_assumed(c, s) ==
    LET changed == c # last_command \/ s # last_speed_cmd IN
    /\ c \in Commands
    /\ ~local_emergency_latched
    /\ last_command' = c
    /\ last_speed_cmd' = s
    /\ UNCHANGED local_emergency_latched
    /\ \/ /\ c \in {COMMAND_STOP, COMMAND_RESET}
          /\ IF changed THEN StopMotor ELSE KeepMotor
          /\ SetState(STATUS_IDLE, ERROR_NONE)
       \/ /\ c \in RunCommands
          /\ IF changed THEN StartMotor(c, s) ELSE KeepMotor
          /\ SetState(STATUS_RUNNING, ERROR_NONE)
       \/ /\ c = COMMAND_EMERGENCY_STOP
          /\ IF changed THEN StopMotor ELSE KeepMotor
          /\ SetState(STATUS_EMERGENCY_STOPPED, ERROR_LOCAL_EMERGENCY_STOP)

ApplyCommand(c, s) ==
    LET changed == c # last_command \/ s # last_speed_cmd IN
    /\ c \in Commands
    /\ ~local_emergency_latched
    /\ last_command' = c
    /\ last_speed_cmd' = s
    /\ UNCHANGED local_emergency_latched
    /\ \/ /\ c \in {COMMAND_STOP, COMMAND_RESET}
          /\ IF changed THEN StopMotor ELSE KeepMotor
          /\ SetState(STATUS_IDLE, ERROR_NONE)
       \/ /\ c \in RunCommands
          /\ IF changed \/ ~running THEN StartMotor(c, s) ELSE KeepMotor
          /\ SetState(STATUS_RUNNING, ERROR_NONE)
       \/ /\ c = COMMAND_EMERGENCY_STOP
          /\ IF changed THEN StopMotor ELSE KeepMotor
          /\ SetState(STATUS_EMERGENCY_STOPPED, ERROR_LOCAL_EMERGENCY_STOP)

Apply(c, s) == ApplyInvalid(c) \/ ApplyLatched(c) \/ ApplyCommand(c, s)

(* Variant: the button only latches; the next command is to stop the motor. *)
HandleEmergencyButton_latch_only ==
    /\ local_emergency_latched' = TRUE
    /\ KeepMotor
    /\ SetState(STATUS_EMERGENCY_STOPPED, ERROR_LOCAL_EMERGENCY_STOP)
    /\ UNCHANGED <<last_command, last_speed_cmd>>

HandleEmergencyButton ==
    /\ local_emergency_latched' = TRUE
    /\ StopMotor
    /\ SetState(STATUS_EMERGENCY_STOPPED, ERROR_LOCAL_EMERGENCY_STOP)
    /\ UNCHANGED <<last_command, last_speed_cmd>>

HandleRestartButton ==
    /\ local_emergency_latched' = FALSE
    /\ last_command' = NoValue
    /\ last_speed_cmd' = NoValue
    /\ StopMotor
    /\ SetState(STATUS_IDLE, ERROR_NONE)

-----------------------------------------------------------------------------
(* ConveyorModbusClientRunner.run_forever *)

(* Variant: the exception handler reconnects without stopping the motor. *)
Raise_motor_kept ==
    /\ KeepMotor
    /\ SetState(STATUS_ERROR, ERROR_MODBUS_READ_FAILED)
    /\ session' = FALSE
    /\ pc' = "backoff"
    /\ restart_pending' = FALSE
    /\ UNCHANGED <<local_emergency_latched, last_command, last_speed_cmd,
                   last_written_state, readerVars>>

(* The exception handler around the inner loop. *)
Raise ==
    /\ StopMotor
    /\ SetState(STATUS_ERROR, ERROR_MODBUS_READ_FAILED)
    /\ session' = FALSE
    /\ pc' = "backoff"
    /\ restart_pending' = FALSE
    /\ UNCHANGED <<local_emergency_latched, last_command, last_speed_cmd,
                   last_written_state, readerVars>>

Connect ==
    /\ pc = "connect"
    /\ session' = TRUE
    /\ pc' = "announce"
    /\ KeepMotor
    /\ UNCHANGED <<controllerVars, last_written_state, restart_pending, readerVars,
                   commandVars, statusVars, buttonVars>>

ConnectFails ==
    /\ pc = "connect"
    /\ pc' = "backoff"
    /\ KeepMotor
    /\ UNCHANGED <<session, controllerVars, last_written_state, restart_pending, readerVars,
                   commandVars, statusVars, buttonVars>>

Backoff ==
    /\ pc = "backoff"
    /\ pc' = "connect"
    /\ recent_event' = FALSE
    /\ KeepMotor
    /\ UNCHANGED <<session, controllerVars, last_written_state, restart_pending,
                   last_emergency, last_restart, commandVars, statusVars, buttonVars>>

(* _write_status_if_changed, the part after its early return *)
PublishState ==
    /\ status' = state.status
    /\ error_code' = state.error

WriteDone ==
    /\ session
    /\ PublishState
    /\ last_written_state' = state
    /\ UNCHANGED <<session, readerVars, commandVars, buttonVars>>

(* Variant: the write after a connect is not forced. *)
Announce_if_changed ==
    /\ pc = "announce"
    /\ IF state = last_written_state
       THEN UNCHANGED <<session, readerVars, commandVars, statusVars, buttonVars, last_written_state>>
       ELSE WriteDone
    /\ pc' = "poll"
    /\ KeepMotor
    /\ UNCHANGED <<controllerVars, restart_pending>>

Announce ==
    /\ pc = "announce"
    /\ WriteDone
    /\ pc' = "poll"
    /\ KeepMotor
    /\ UNCHANGED <<controllerVars, restart_pending>>

(* ButtonReader.poll: a falling edge counts unless the last button event,  *)
(* of either button, is too recent; the new levels are remembered anyway.  *)
EmergencyEdge == last_emergency = 1 /\ emergency_line = 0
RestartEdge == last_restart = 1 /\ restart_line = 0

SampleLines ==
    /\ last_emergency' = emergency_line
    /\ last_restart' = restart_line
    /\ recent_event' = (recent_event \/ EmergencyEdge \/ RestartEdge)

PollEmergency ==
    /\ pc = "poll"
    /\ EmergencyEdge /\ ~recent_event
    /\ SampleLines
    /\ HandleEmergencyButton
    /\ restart_pending' = RestartEdge
    /\ pc' = "writeEmergency"
    /\ UNCHANGED <<session, last_written_state, commandVars, statusVars, buttonVars>>

PollRestart ==
    /\ pc = "poll"
    /\ ~EmergencyEdge /\ RestartEdge /\ ~recent_event
    /\ SampleLines
    /\ HandleRestartButton
    /\ pc' = "writeRestart"
    /\ UNCHANGED <<session, last_written_state, restart_pending, commandVars, statusVars, buttonVars>>

PollNothing ==
    /\ pc = "poll"
    /\ recent_event \/ ~(EmergencyEdge \/ RestartEdge)
    /\ SampleLines
    /\ pc' = "read"
    /\ KeepMotor
    /\ UNCHANGED <<session, controllerVars, last_written_state, restart_pending,
                   commandVars, statusVars, buttonVars>>

(* The emergency has been written; a restart seen by the same poll comes   *)
(* next.                                                                   *)
WriteEmergency ==
    /\ pc = "writeEmergency"
    /\ WriteDone
    /\ restart_pending' = FALSE
    /\ IF restart_pending
       THEN HandleRestartButton /\ pc' = "writeRestart"
       ELSE KeepMotor /\ UNCHANGED controllerVars /\ pc' = "read"

WriteRestart ==
    /\ pc = "writeRestart"
    /\ WriteDone
    /\ pc' = "read"
    /\ KeepMotor
    /\ UNCHANGED <<controllerVars, restart_pending>>

(* _read_command_block answers and the command is applied at once *)
ReadAndApply ==
    /\ pc = "read"
    /\ session
    /\ Apply(command, speed_cmd)
    /\ pc' = IF state' = last_written_state THEN "sleep" ELSE "write"
    /\ UNCHANGED <<session, last_written_state, restart_pending, readerVars,
                   commandVars, statusVars, buttonVars>>

WriteStatus ==
    /\ pc = "write"
    /\ WriteDone
    /\ pc' = "sleep"
    /\ KeepMotor
    /\ UNCHANGED <<controllerVars, restart_pending>>

(* Variant: a sleep shorter than the debounce time. *)
Sleep_too_short ==
    /\ pc = "sleep"
    /\ pc' = "poll"
    /\ recent_event' \in {recent_event, FALSE}
    /\ KeepMotor
    /\ UNCHANGED <<session, controllerVars, last_written_state, restart_pending,
                   last_emergency, last_restart, commandVars, statusVars, buttonVars>>

(* With the default interval the debounce time has passed after a sleep. *)
Sleep ==
    /\ pc = "sleep"
    /\ pc' = "poll"
    /\ recent_event' \in IF FastPolling THEN {recent_event, FALSE} ELSE {FALSE}
    /\ KeepMotor
    /\ UNCHANGED <<session, controllerVars, last_written_state, restart_pending,
                   last_emergency, last_restart, commandVars, statusVars, buttonVars>>

(* A request fails: error reply, timeout or broken connection. *)
RequestFails ==
    /\ pc \in Requests
    /\ Raise
    /\ UNCHANGED <<commandVars, statusVars, buttonVars>>

(* A status write reaches the server, its answer does not come back. *)
WriteReplyLost ==
    /\ pc \in Requests \ {"read"}
    /\ session
    /\ PublishState
    /\ Raise
    /\ UNCHANGED <<commandVars, buttonVars>>

(* The process ends, by Ctrl+C or a power cut: async_main's finally, or    *)
(* the loss of power, stops the motor.  Its memory is gone, the latch too; *)
(* the registers keep their values.                                        *)
ProcessExit ==
    /\ pc # "down"
    /\ pc' = "down"
    /\ session' = FALSE
    /\ MotorHalt
    /\ motor_speed' = NoValue
    /\ local_emergency_latched' = FALSE
    /\ last_command' = NoValue
    /\ last_speed_cmd' = NoValue
    /\ SetState(STATUS_IDLE, ERROR_NONE)
    /\ last_written_state' = NothingWritten
    /\ restart_pending' = FALSE
    /\ last_emergency' = 1
    /\ last_restart' = 1
    /\ recent_event' = FALSE
    /\ UNCHANGED <<commandVars, statusVars, buttonVars>>

(* async_main again: the state set up at exit is that of a new process. *)
ProcessStart ==
    /\ pc = "down"
    /\ pc' = "connect"
    /\ KeepMotor
    /\ UNCHANGED <<session, controllerVars, last_written_state, restart_pending,
                   readerVars, commandVars, statusVars, buttonVars>>

(* A step thread of an earlier run interferes, as the contract allows. *)
MotorDrops ==
    /\ MotorDropDriver \/ MotorDropRunning
    /\ UNCHANGED <<pc, session, controllerVars, last_written_state, restart_pending,
                   motor_speed, readerVars, commandVars, statusVars, buttonVars>>

LostDriverReported ==
    /\ ~enabled
    /\ MotorDropRunning
    /\ UNCHANGED <<pc, session, controllerVars, last_written_state, restart_pending,
                   motor_speed, readerVars, commandVars, statusVars, buttonVars>>

LoopStep ==
    \/ Connect \/ ConnectFails \/ Backoff \/ Announce
    \/ PollEmergency \/ PollRestart \/ PollNothing
    \/ WriteEmergency \/ WriteRestart
    \/ ReadAndApply \/ WriteStatus \/ Sleep
    \/ RequestFails \/ WriteReplyLost

PiNext == LoopStep \/ ProcessExit \/ ProcessStart \/ MotorDrops

-----------------------------------------------------------------------------
(* The controller's surroundings *)

(* A person presses or releases a button at any time, also between polls.  *)
PushEmergency ==
    /\ emergency_line' = 1 - emergency_line
    /\ UNCHANGED <<restart_line, piVars, commandVars, statusVars>>

PushRestart ==
    /\ restart_line' = 1 - restart_line
    /\ UNCHANGED <<emergency_line, piVars, commandVars, statusVars>>

ButtonNext == PushEmergency \/ PushRestart

(* Any client may write 40021 and 40022, in one request or in two. *)
ClientWrites ==
    /\ command' \in CommandValues
    /\ speed_cmd' \in SpeedValues
    /\ UNCHANGED <<statusVars, piVars, buttonVars>>

(* The Modbus server is started again: every connection breaks. *)
ServerRestart ==
    /\ RegistersReset
    /\ session' = FALSE
    /\ UNCHANGED <<pc, controllerVars, last_written_state, restart_pending,
                   motor_speed, motorVars, readerVars, buttonVars>>

Init == RegistersInit /\ PiInit

Next == PiNext \/ ButtonNext \/ ClientWrites \/ ServerRestart

(* The asyncio loop goes on unless the process ends, and a driver that was *)
(* lost is reported.                                                       *)
Fairness ==
    /\ WF_vars(LoopStep)
    /\ WF_vars(LostDriverReported)

Spec == Init /\ [][Next]_vars
FairSpec == Spec /\ Fairness

-----------------------------------------------------------------------------
(* Properties *)

(* While the local emergency stop is latched the motor is off, whatever    *)
(* commands arrive, requests fail or connections come back.                *)
LatchedMeansOff == local_emergency_latched => ~enabled /\ ~running

(* The belt is only driven by the command and the speed that were read     *)
(* last: never in the other direction, never after a stop, a reset or an   *)
(* emergency stop was read, although unchanged commands are not applied    *)
(* again.                                                                  *)
DriveFollowsCommand ==
    enabled =>
        /\ last_command \in RunCommands
        /\ direction = DirectionOf(last_command)
        /\ motor_speed = last_speed_cmd

(* Without a connection nobody can stop the belt, so it does not run: not  *)
(* after an error, not while reconnecting, not before the first poll.      *)
OffWhileUnattended ==
    pc \in {"down", "connect", "announce", "backoff"} => ~enabled /\ ~running

(* After a cycle on a sound connection 40023 and 40024 hold the state of   *)
(* the controller, although unchanged states are not written again and     *)
(* although an earlier write may have lost its answer.                     *)
StatusPublished ==
    session /\ pc \in {"sleep", "poll"} =>
        status = state.status /\ error_code = state.error

(* While latched, the published status is one under which the vision node  *)
(* withholds run commands: emergency_stopped, or error after an invalid    *)
(* command was read.                                                       *)
LatchedNeverInvitesRun ==
    local_emergency_latched /\ session /\ pc \in {"read", "write", "sleep", "poll"} =>
        status \in {STATUS_ERROR, STATUS_EMERGENCY_STOPPED}

(* An emergency press seen by a poll latches: the debounce time never      *)
(* swallows it, not even after a restart press.  This rests on the sleep   *)
(* between two polls being longer than the debounce time.                  *)
EmergencyEdgeLatches ==
    [][pc = "poll" /\ EmergencyEdge /\ pc' \notin {"poll", "down"}
          => local_emergency_latched']_vars

(* What stays in 40021 while the connection lasts is obeyed: a run command *)
(* drives the belt again and again while no emergency is latched, also     *)
(* after errors and after interference by an old step thread; anything     *)
(* else ends with the belt off for good.                                   *)
CommandObeyed ==
    /\ \A c \in RunCommands :
        <>[](session /\ ~local_emergency_latched /\ command = c)
            => []<>(enabled /\ direction = DirectionOf(c))
    /\ <>[](session /\ command \notin RunCommands) => <>[]~enabled

=============================================================================
