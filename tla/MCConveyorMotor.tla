--------------------------- MODULE MCConveyorMotor ---------------------------
(* The instance of ConveyorMotor that TLC checks: three step threads, a     *)
(* ramp of a few units and speeds below, inside and above the range.        *)
EXTENDS ConveyorMotor

MCSpeedCmds == {0, 1, MaxSpeed + 1}

=============================================================================
