---------------------------- MODULE MCConveyorPi ----------------------------
(* Small instances of ConveyorPi for TLC. *)
EXTENDS ConveyorPi
=============================================================================
