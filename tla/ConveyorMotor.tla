---------------------------- MODULE ConveyorMotor ----------------------------
(***************************************************************************)
(* The threaded stepper driver of the Raspberry Pi (conveyor/              *)
(* pi_controller/conveyor_motor.py, class ConveyorMotor).                  *)
(*                                                                         *)
(* One caller, the thread of the controller's asyncio loop, calls start,   *)
(* stop and emergency_stop; every start that finds "running" false makes a *)
(* new daemon thread executing _run_loop.  emergency_stop does not wait    *)
(* for the thread and stop waits for one second at most, so a thread may   *)
(* outlive its run and share current_delay, the stop event, the ENABLE     *)
(* line and "running" with the thread of the next run.                     *)
(*                                                                         *)
(* A section under self._lock is one step.  What a thread does outside the *)
(* lock (reading the event, comparing the delay, writing the ENABLE line)  *)
(* touches one shared variable and is a step of its own; the pulse only    *)
(* sleeps and is part of the step before it.                               *)
(***************************************************************************)
EXTENDS MotionProfile

CONSTANTS
    Loops,      \* identities of step threads; a finished one may be reused.
                \* A finite set bounds how many are alive at a time.
    NoLoop,     \* self._thread before the first start
    SpeedCmds   \* speed commands the caller passes on (register 40022)

ASSUME LoopAssumption == NoLoop \notin Loops
ASSUME SpeedAssumption == SpeedCmds \subseteq Int

VARIABLES
    enabled, running, direction,    \* see MotorContract
    target_delay, current_delay,
    stop_event,                     \* self._stop_event.is_set()
    thread,                         \* self._thread
    loop,                           \* loop[l]: where step thread l is
    caller                          \* where the calling thread is

deviceVars == <<enabled, running, direction>>
vars == <<deviceVars, target_delay, current_delay, stop_event, thread, loop, caller>>

Contract == INSTANCE MotorContract
    WITH enabled <- enabled, running <- running, direction <- direction

LoopPc == {"dead", "checkStop", "accelerate", "checkSlow", "decelerate", "disable", "finish"}
CallerPc == {"idle", "join", "disable", "clear"}

TypeOK ==
    /\ Contract!MotorTypeOK
    /\ target_delay \in Delays
    /\ current_delay \in Delays
    /\ stop_event \in BOOLEAN
    /\ thread \in Loops \cup {NoLoop}
    /\ loop \in [Loops -> LoopPc]
    /\ caller \in CallerPc

Live == {l \in Loops : loop[l] # "dead"}

Init ==
    /\ Contract!MotorInit
    /\ target_delay = TargetDelay
    /\ current_delay = InitialDelay
    /\ stop_event = FALSE
    /\ thread = NoLoop
    /\ loop = [l \in Loops |-> "dead"]
    /\ caller = "idle"

-----------------------------------------------------------------------------
(* The calling thread *)

(* _start while a run is in progress: retarget it, re-enable the driver. *)
Retarget(d, speed) ==
    /\ caller = "idle"
    /\ running
    /\ target_delay' = speed_cmd_to_target_delay(speed)
    /\ direction' = d
    /\ enabled' = TRUE
    /\ UNCHANGED <<running, current_delay, stop_event, thread, loop, caller>>

(* Variant for the mutation runs: the stop event is not cleared. *)
StartLoop_event_kept(d, speed, l) ==
    /\ caller = "idle"
    /\ ~running
    /\ loop[l] = "dead"
    /\ target_delay' = speed_cmd_to_target_delay(speed)
    /\ direction' = d
    /\ enabled' = TRUE
    /\ running' = TRUE
    /\ current_delay' = InitialDelay
    /\ thread' = l
    /\ loop' = [loop EXCEPT ![l] = "checkStop"]
    /\ UNCHANGED <<stop_event, caller>>

(* _start with "running" false: a new step thread, even if an old one is   *)
(* still on its way out.                                                   *)
StartLoop(d, speed, l) ==
    /\ caller = "idle"
    /\ ~running
    /\ loop[l] = "dead"
    /\ target_delay' = speed_cmd_to_target_delay(speed)
    /\ direction' = d
    /\ enabled' = TRUE
    /\ running' = TRUE
    /\ current_delay' = InitialDelay
    /\ stop_event' = FALSE
    /\ thread' = l
    /\ loop' = [loop EXCEPT ![l] = "checkStop"]
    /\ UNCHANGED caller

(* stop, first section: signal the threads, then wait for the latest one. *)
Stop ==
    /\ caller = "idle"
    /\ stop_event' = TRUE
    /\ caller' = IF thread \in Live THEN "join" ELSE "disable"
    /\ UNCHANGED <<deviceVars, target_delay, current_delay, thread, loop>>

(* thread.join returns because the thread ended ... *)
JoinEnded ==
    /\ caller = "join"
    /\ thread \notin Live
    /\ caller' = "disable"
    /\ UNCHANGED <<deviceVars, target_delay, current_delay, stop_event, thread, loop>>

(* ... or because one second went by. *)
JoinTimeout ==
    /\ caller = "join"
    /\ thread \in Live
    /\ caller' = "disable"
    /\ UNCHANGED <<deviceVars, target_delay, current_delay, stop_event, thread, loop>>

(* emergency_stop, first section: signal the threads, wait for none. *)
EmergencyStop ==
    /\ caller = "idle"
    /\ stop_event' = TRUE
    /\ caller' = "disable"
    /\ UNCHANGED <<deviceVars, target_delay, current_delay, thread, loop>>

(* Variant: the driver is left to the step thread. *)
CallerDisable_left_to_loop ==
    /\ caller = "disable"
    /\ caller' = "clear"
    /\ UNCHANGED <<deviceVars, target_delay, current_delay, stop_event, thread, loop>>

(* The common end of stop and emergency_stop, in two steps. *)
CallerDisable ==
    /\ caller = "disable"
    /\ enabled' = FALSE
    /\ caller' = "clear"
    /\ UNCHANGED <<running, direction, target_delay, current_delay, stop_event, thread, loop>>

CallerClear ==
    /\ caller = "clear"
    /\ running' = FALSE
    /\ direction' = "none"
    /\ caller' = "idle"
    /\ UNCHANGED <<enabled, target_delay, current_delay, stop_event, thread, loop>>

-----------------------------------------------------------------------------
(* A step thread, _run_loop *)

Goto(l, from, to) ==
    /\ loop[l] = from
    /\ loop' = [loop EXCEPT ![l] = to]

CheckStop(l) ==
    /\ Goto(l, "checkStop", IF stop_event THEN "checkSlow" ELSE "accelerate")
    /\ UNCHANGED <<deviceVars, target_delay, current_delay, stop_event, thread, caller>>

Accelerate(l) ==
    /\ Goto(l, "accelerate", "checkStop")
    /\ current_delay' = next_accel_delay(current_delay, target_delay)
    /\ UNCHANGED <<deviceVars, target_delay, stop_event, thread, caller>>

(* Variant: "<=" for "<" in the test for standstill. *)
CheckSlow_or_equal(l) ==
    /\ Goto(l, "checkSlow", IF current_delay <= InitialDelay THEN "decelerate" ELSE "disable")
    /\ UNCHANGED <<deviceVars, target_delay, current_delay, stop_event, thread, caller>>

CheckSlow(l) ==
    /\ Goto(l, "checkSlow", IF current_delay < InitialDelay THEN "decelerate" ELSE "disable")
    /\ UNCHANGED <<deviceVars, target_delay, current_delay, stop_event, thread, caller>>

Decelerate(l) ==
    /\ Goto(l, "decelerate", "checkSlow")
    /\ current_delay' = next_decel_delay(current_delay)
    /\ UNCHANGED <<deviceVars, target_delay, stop_event, thread, caller>>

LoopDisable(l) ==
    /\ Goto(l, "disable", "finish")
    /\ enabled' = FALSE
    /\ UNCHANGED <<running, direction, target_delay, current_delay, stop_event, thread, caller>>

(* Variant: only the latest thread clears "running". *)
LoopFinish_latest_only(l) ==
    /\ Goto(l, "finish", "dead")
    /\ running' = (running /\ l # thread)
    /\ UNCHANGED <<enabled, direction, target_delay, current_delay, stop_event, thread, caller>>

LoopFinish(l) ==
    /\ Goto(l, "finish", "dead")
    /\ running' = FALSE
    /\ UNCHANGED <<enabled, direction, target_delay, current_delay, stop_event, thread, caller>>

LoopStep(l) ==
    \/ CheckStop(l) \/ Accelerate(l)
    \/ CheckSlow(l) \/ Decelerate(l)
    \/ LoopDisable(l) \/ LoopFinish(l)

CallReturns == JoinEnded \/ JoinTimeout \/ CallerDisable \/ CallerClear

Next ==
    \/ \E d \in Contract!Directions, s \in SpeedCmds :
          \/ Retarget(d, s)
          \/ \E l \in Loops : StartLoop(d, s, l)
    \/ Stop
    \/ EmergencyStop
    \/ JoinEnded
    \/ JoinTimeout
    \/ CallerDisable
    \/ CallerClear
    \/ \E l \in Loops : LoopStep(l)

(* The operating system schedules every runnable thread, and a call of the *)
(* caller that has begun goes on.  Nothing obliges the caller to call.     *)
Fairness ==
    /\ \A l \in Loops : WF_vars(LoopStep(l))
    /\ WF_vars(CallReturns)

Spec == Init /\ [][Next]_vars
FairSpec == Spec /\ Fairness

-----------------------------------------------------------------------------
(* Properties *)

(* Whatever the step threads of earlier runs still do, the motor keeps the *)
(* contract its caller relies on: only a start enables the driver, and     *)
(* after stop or emergency_stop has returned the driver stays off.         *)
ImplementsContract == Contract!MotorSpec

(* From a start to the next stop the latest thread steps and nothing has   *)
(* told it to stop, even when a thread of an earlier run switches the      *)
(* driver off or clears "running" meanwhile.  The controller's shortcut,   *)
(* no new start while the command is unchanged and motor.running is true,  *)
(* rests on this.                                                          *)
StartedMeansStepping ==
    caller = "idle" /\ direction # "none" =>
        /\ thread \in Loops
        /\ loop[thread] \in {"checkStop", "accelerate"}
        /\ ~stop_event

(* A thread that outlived its run may switch the driver off under the next *)
(* run.  The belt then stands still while "running" is true, but only      *)
(* until that same thread clears "running", so that the controller's next  *)
(* poll starts the motor again.                                            *)
LostEnableIsReported ==
    running /\ ~enabled =>
        \/ caller = "clear"
        \/ \E l \in Loops : loop[l] = "finish"

(* Once the threads are told to stop, they all ramp down and end, unless   *)
(* a new start takes the signal back.                                      *)
StopEndsLoops == stop_event ~> (Live = {} \/ ~stop_event)

(* A driver switched off under a run does not go unnoticed for good. *)
LostEnableHeals == Contract!LostDriverIsReported

=============================================================================
