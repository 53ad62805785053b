--------------------------- MODULE OperatorHistory ---------------------------
(***************************************************************************)
(* ConveyorPi with a memory of what the operator did, to state what the    *)
(* button policy promises: pi_controller/README.md, "Button policy".  The  *)
(* history variable never influences the controller.                       *)
(***************************************************************************)
EXTENDS ConveyorPi

VARIABLE
    run_owed    \* the restart button released the latch and no run command
                \* has been written to 40021 since

HistoryInit == Init /\ run_owed = FALSE

Unlatches == local_emergency_latched /\ ~local_emergency_latched' /\ pc' # "down"

HistoryLoopStep ==
    /\ LoopStep
    /\ run_owed' = (run_owed \/ Unlatches)

HistoryProcess ==
    /\ ProcessExit \/ ProcessStart \/ MotorDrops \/ ServerRestart
    /\ UNCHANGED run_owed

HistoryClient ==
    /\ ClientWrites
    /\ run_owed' = (run_owed /\ command' \notin RunCommands)

HistoryButtons ==
    /\ ButtonNext
    /\ UNCHANGED run_owed

HistoryNext == HistoryLoopStep \/ HistoryProcess \/ HistoryClient \/ HistoryButtons

HistorySpec == HistoryInit /\ [][HistoryNext]_<<vars, run_owed>>

(* The button policy on BUTTON2: it does not start the motor directly, a   *)
(* new Modbus run command is required.                                     *)
RestartNeedsNewRun ==
    [][~enabled /\ enabled' => ~run_owed]_<<vars, run_owed>>

=============================================================================
