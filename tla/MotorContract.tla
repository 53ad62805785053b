---------------------------- MODULE MotorContract ----------------------------
(***************************************************************************)
(* What the controller may rely on when it drives the conveyor motor,      *)
(* whatever the step threads behind it are doing.                          *)
(*                                                                         *)
(*   - only a start enables the driver or raises "running";                *)
(*   - between a start and the stop that follows it the driver and the     *)
(*     flag may drop on their own (a step thread of an earlier run ends);  *)
(*   - once a stop or emergency_stop has returned, the driver is off and   *)
(*     stays off until the next start.                                     *)
(*                                                                         *)
(* ConveyorMotor is shown to implement this module; ConveyorPi drives it.  *)
(***************************************************************************)

VARIABLES
    enabled,    \* the ENABLE line is active (it is active low: value 0)
    running,    \* ConveyorMotor.running
    direction   \* ConveyorMotor.direction: "none" after a completed stop

motorVars == <<enabled, running, direction>>

Directions == {"clockwise", "counter_clockwise"}

MotorTypeOK ==
    /\ enabled \in BOOLEAN
    /\ running \in BOOLEAN
    /\ direction \in Directions \cup {"none"}

MotorInit ==
    /\ enabled = FALSE
    /\ running = FALSE
    /\ direction = "none"

(* start_clockwise / start_counter_clockwise *)
MotorStart(d) ==
    /\ enabled' = TRUE
    /\ running' = TRUE
    /\ direction' = d

(* stop / emergency_stop / close, once the call has returned *)
MotorHalt ==
    /\ enabled' = FALSE
    /\ running' = FALSE
    /\ direction' = "none"

(* A step thread of an earlier run, or a stop that has not returned yet,   *)
(* switches the driver off ...                                             *)
MotorDropDriver ==
    /\ direction # "none"
    /\ enabled
    /\ enabled' = FALSE
    /\ UNCHANGED <<running, direction>>

(* ... or clears the flag.  Neither is ever raised this way. *)
MotorDropRunning ==
    /\ direction # "none"
    /\ running
    /\ running' = FALSE
    /\ UNCHANGED <<enabled, direction>>

MotorNext ==
    \/ \E d \in Directions : MotorStart(d)
    \/ MotorHalt
    \/ MotorDropDriver
    \/ MotorDropRunning

MotorSpec == MotorInit /\ [][MotorNext]_motorVars

(***************************************************************************)
(* A stopped motor is off: no driver current and no run in progress.       *)
(***************************************************************************)
HaltedIsOff == direction = "none" => ~enabled /\ ~running

(***************************************************************************)
(* A driver that was switched off under a run is reported: the flag falls  *)
(* too, unless a start or a stop comes first.                              *)
(***************************************************************************)
LostDriverIsReported == running /\ ~enabled ~> ~running \/ enabled

=============================================================================
