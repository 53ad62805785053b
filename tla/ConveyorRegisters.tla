-------------------------- MODULE ConveyorRegisters --------------------------
(***************************************************************************)
(* The control registers of the conveyor block, 40021 to 40024, as the     *)
(* shared Modbus server holds them (modbus/shared_server), with the enums  *)
(* of conveyor/modbus_client/register_map.py.  A server start or restart   *)
(* puts the initial values back.                                           *)
(***************************************************************************)
EXTENDS Integers

CONSTANTS
    CommandValues,  \* values some client may put into 40021
    SpeedValues     \* values some client may put into 40022

\* 40021 conveyor_command
COMMAND_STOP == 0
COMMAND_RUN_CLOCKWISE == 1
COMMAND_RUN_COUNTER_CLOCKWISE == 2
COMMAND_RESET == 3
COMMAND_EMERGENCY_STOP == 4
Commands == 0 .. 4
RunCommands == {COMMAND_RUN_CLOCKWISE, COMMAND_RUN_COUNTER_CLOCKWISE}

\* 40023 conveyor_status
STATUS_IDLE == 0
STATUS_RUNNING == 1
STATUS_DELIVERED == 2
STATUS_ERROR == 3
STATUS_EMERGENCY_STOPPED == 4
Statuses == 0 .. 4

\* 40024 conveyor_error_code
ERROR_NONE == 0
ERROR_MODBUS_READ_FAILED == 2
ERROR_INVALID_COMMAND == 5
ERROR_LOCAL_EMERGENCY_STOP == 6
ErrorCodes == 0 .. 6

Words == 0 .. 2^16 - 1  \* what a register can hold

(* The server starts with 0 in both command registers. *)
ASSUME RegisterAssumption ==
    /\ CommandValues \subseteq Words
    /\ SpeedValues \subseteq Words
    /\ COMMAND_STOP \in CommandValues
    /\ 0 \in SpeedValues

VARIABLES
    command,        \* 40021, written by PC clients
    speed_cmd,      \* 40022, written by PC clients
    status,         \* 40023, written by the Raspberry Pi
    error_code      \* 40024, written by the Raspberry Pi

commandVars == <<command, speed_cmd>>
statusVars == <<status, error_code>>

RegistersTypeOK ==
    /\ command \in CommandValues
    /\ speed_cmd \in SpeedValues
    /\ status \in Statuses
    /\ error_code \in ErrorCodes

RegistersInit ==
    /\ command = COMMAND_STOP
    /\ speed_cmd = 0
    /\ status = STATUS_IDLE
    /\ error_code = ERROR_NONE

(* initial_holding_registers, when the server process is started again *)
RegistersReset ==
    /\ command' = COMMAND_STOP
    /\ speed_cmd' = 0
    /\ status' = STATUS_IDLE
    /\ error_code' = ERROR_NONE

=============================================================================
