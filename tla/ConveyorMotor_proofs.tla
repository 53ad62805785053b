------------------------- MODULE ConveyorMotor_proofs -------------------------
(***************************************************************************)
(* What holds of the conveyor motor for every number of step threads and   *)
(* every ramp profile.                                                     *)
(***************************************************************************)
EXTENDS ConveyorMotor, TLAPS

-----------------------------------------------------------------------------
(* The speed profile *)

(* Every speed command is clamped into the supported range. *)
LEMMA ClampRange ==
    ASSUME NEW speed \in Int
    PROVE  clamp_speed_cmd(speed) \in 1 .. MaxSpeed
BY ProfileAssumption DEF clamp_speed_cmd, MinSpeed

(* The span of the profile bounds the gain of a clamped speed. *)
LEMMA GainBound ==
    ASSUME NEW s \in 1 .. MaxSpeed
    PROVE  /\ SpeedGain * s \in Int
           /\ 0 < SpeedGain * s
           /\ SpeedGain * s <= SpeedGain * MaxSpeed
BY ProfileAssumption, SMTT(30)

LEMMA TargetDelayType == TargetDelay \in Int /\ TargetDelay > 0 /\ TargetDelay <= InitialDelay
<1>1. SpeedGain * MaxSpeed \in Nat
  BY ProfileAssumption, SMTT(30)
<1>2. QED
  BY <1>1, ProfileAssumption DEF TargetDelay

(* Whatever value register 40022 holds, the target delay is one of the     *)
(* profile: never faster than full speed, never slower than standstill.    *)
THEOREM TargetInRange ==
    ASSUME NEW speed \in Int
    PROVE  speed_cmd_to_target_delay(speed) \in Delays
<1> DEFINE s == clamp_speed_cmd(speed)
           gain == SpeedGain * s
           span == SpeedGain * MaxSpeed
<1>1. s \in 1 .. MaxSpeed
  BY ClampRange
<1>2. gain \in Int /\ 0 < gain /\ gain <= span
  BY <1>1, GainBound
<1>3. span \in Int /\ InitialDelay \in Int
  BY ProfileAssumption, SMTT(30)
<1> HIDE DEF gain, span
<1>4. InitialDelay - gain \in InitialDelay - span .. InitialDelay
  BY <1>2, <1>3
<1>5. QED
  BY <1>4 DEF speed_cmd_to_target_delay, Delays, TargetDelay, gain, span, s

(* A ramp step towards a target of the profile stays in the profile. *)
LEMMA AccelRange ==
    ASSUME NEW c \in Delays, NEW t \in Delays
    PROVE  next_accel_delay(c, t) \in Delays
BY TargetDelayType, ProfileAssumption DEF next_accel_delay, Delays

LEMMA DecelRange ==
    ASSUME NEW c \in Delays
    PROVE  next_decel_delay(c) \in Delays
BY TargetDelayType, ProfileAssumption DEF next_decel_delay, Delays

-----------------------------------------------------------------------------
(* Type correctness *)

LEMMA ThreadStepIsOfSomeAction ==
    ASSUME NEW l \in Loops, LoopStep(l)
    PROVE  \/ CheckStop(l) \/ Accelerate(l) \/ CheckSlow(l)
           \/ Decelerate(l) \/ LoopDisable(l) \/ LoopFinish(l)
BY DEF LoopStep

(* Every variable keeps its type; in particular both delays stay within    *)
(* the profile, also when several threads ramp the same delay.             *)
THEOREM TypeCorrect == Spec => []TypeOK
<1> USE DEF TypeOK, LoopPc, CallerPc, Contract!MotorTypeOK, deviceVars
<1>1. Init => TypeOK
  <2>1. TargetDelay \in Delays /\ InitialDelay \in Delays
    BY TargetDelayType, ProfileAssumption DEF Delays
  <2>2. QED
    BY <2>1 DEF Init, Contract!MotorInit
<1>2. TypeOK /\ [Next]_vars => TypeOK'
  <2> SUFFICES ASSUME TypeOK, [Next]_vars PROVE TypeOK'
    OBVIOUS
  <2>1. ASSUME NEW d \in Contract!Directions, NEW s \in SpeedCmds, Retarget(d, s)
        PROVE  TypeOK'
    <3>1. s \in Int
      BY SpeedAssumption
    <3>2. QED
      BY <2>1, <3>1, TargetInRange DEF Retarget
  <2>2. ASSUME NEW d \in Contract!Directions, NEW s \in SpeedCmds, NEW l \in Loops,
               StartLoop(d, s, l)
        PROVE  TypeOK'
    <3>1. s \in Int
      BY SpeedAssumption
    <3>2. InitialDelay \in Delays
      BY TargetDelayType, ProfileAssumption DEF Delays
    <3>3. QED
      BY <2>2, <3>1, <3>2, TargetInRange DEF StartLoop
  <2>3. CASE Stop
    BY <2>3 DEF Stop
  <2>4. CASE EmergencyStop
    BY <2>4 DEF EmergencyStop
  <2>5. CASE CallReturns
    BY <2>5 DEF CallReturns, JoinEnded, JoinTimeout, CallerDisable, CallerClear
  <2>6. ASSUME NEW l \in Loops, LoopStep(l)
        PROVE  TypeOK'
    <3>1. CASE CheckStop(l)
      BY <3>1 DEF CheckStop, Goto
    <3>2. CASE Accelerate(l)
      BY <3>2, AccelRange DEF Accelerate, Goto
    <3>3. CASE CheckSlow(l)
      BY <3>3 DEF CheckSlow, Goto
    <3>4. CASE Decelerate(l)
      BY <3>4, DecelRange DEF Decelerate, Goto
    <3>5. CASE LoopDisable(l)
      BY <3>5 DEF LoopDisable, Goto
    <3>6. CASE LoopFinish(l)
      BY <3>6 DEF LoopFinish, Goto
    <3>7. QED
      BY <2>6, <3>1, <3>2, <3>3, <3>4, <3>5, <3>6, ThreadStepIsOfSomeAction
  <2>7. CASE UNCHANGED vars
    BY <2>7 DEF vars
  <2>8. QED
    BY <2>1, <2>2, <2>3, <2>4, <2>5, <2>6, <2>7 DEF Next, CallReturns
<1>3. QED
  BY <1>1, <1>2, PTL DEF Spec

-----------------------------------------------------------------------------
(* The inductive invariant.  Its second conjunct is what makes the third   *)
(* one survive a step: when the last section of a stop clears "running"    *)
(* and the direction, the driver has been switched off by the section      *)
(* before it and nobody but the caller could have switched it on.          *)
IInv ==
    /\ TypeOK
    /\ caller = "clear" => ~enabled
    /\ Contract!HaltedIsOff
    /\ StartedMeansStepping
    /\ LostEnableIsReported

LEMMA NoDirection == "none" \notin Contract!Directions
BY DEF Contract!Directions

(* A step of a thread leaves every other thread where it was. *)
LEMMA GotoFrame ==
    ASSUME loop \in [Loops -> LoopPc], NEW l \in Loops, NEW from, NEW to, Goto(l, from, to)
    PROVE  /\ loop[l] = from
           /\ loop'[l] = to
           /\ \A m \in Loops \ {l} : loop'[m] = loop[m]
BY DEF Goto

LEMMA InvInit == Init => IInv
<1>1. Init => TypeOK
  <2>1. TargetDelay \in Delays /\ InitialDelay \in Delays
    BY TargetDelayType, ProfileAssumption DEF Delays
  <2>2. QED
    BY <2>1 DEF Init, Contract!MotorInit, TypeOK, LoopPc, CallerPc, Contract!MotorTypeOK
<1>2. QED
  BY <1>1 DEF IInv, Init, Contract!MotorInit, Contract!HaltedIsOff,
              StartedMeansStepping, LostEnableIsReported

LEMMA InvStep == IInv /\ TypeOK' /\ [Next]_vars => IInv'
<1> SUFFICES ASSUME IInv, TypeOK', [Next]_vars
             PROVE  IInv'
  OBVIOUS
<1> USE DEF IInv, Contract!HaltedIsOff, StartedMeansStepping, LostEnableIsReported
<1>1. ASSUME NEW d \in Contract!Directions, NEW s \in SpeedCmds, Retarget(d, s)
      PROVE  IInv'
  <2>1. direction # "none"
    BY <1>1 DEF Retarget
  <2>2. QED
    BY <1>1, <2>1, NoDirection DEF Retarget
<1>2. ASSUME NEW d \in Contract!Directions, NEW s \in SpeedCmds, NEW l \in Loops,
             StartLoop(d, s, l)
      PROVE  IInv'
  <2>1. loop'[l] = "checkStop" /\ thread' = l /\ ~stop_event'
    BY <1>2 DEF StartLoop, TypeOK
  <2>2. enabled' /\ caller' = "idle" /\ direction' # "none"
    BY <1>2, NoDirection DEF StartLoop
  <2>3. QED
    BY <2>1, <2>2
<1>3. CASE Stop
  BY <1>3 DEF Stop, deviceVars
<1>4. CASE EmergencyStop
  BY <1>4 DEF EmergencyStop, deviceVars
<1>5. CASE JoinEnded
  BY <1>5 DEF JoinEnded, deviceVars
<1>6. CASE JoinTimeout
  BY <1>6 DEF JoinTimeout, deviceVars
<1>7. CASE CallerDisable
  BY <1>7 DEF CallerDisable
<1>8. CASE CallerClear
  BY <1>8 DEF CallerClear
<1>9. ASSUME NEW l \in Loops, LoopStep(l)
      PROVE  IInv'
  <2>1. loop \in [Loops -> LoopPc]
    BY DEF TypeOK
  <2>2. CASE CheckStop(l)
    BY <2>1, <2>2, GotoFrame DEF CheckStop, deviceVars
  <2>3. CASE Accelerate(l)
    BY <2>1, <2>3, GotoFrame DEF Accelerate, deviceVars
  <2>4. CASE CheckSlow(l)
    BY <2>1, <2>4, GotoFrame DEF CheckSlow, deviceVars
  <2>5. CASE Decelerate(l)
    BY <2>1, <2>5, GotoFrame DEF Decelerate, deviceVars
  <2>6. CASE LoopDisable(l)
    BY <2>1, <2>6, GotoFrame DEF LoopDisable
  <2>7. CASE LoopFinish(l)
    BY <2>1, <2>7, GotoFrame DEF LoopFinish
  <2>8. QED
    BY <1>9, <2>2, <2>3, <2>4, <2>5, <2>6, <2>7 DEF LoopStep
<1>10. CASE UNCHANGED vars
  BY <1>10 DEF vars, deviceVars
<1>11. QED
  BY <1>1, <1>2, <1>3, <1>4, <1>5, <1>6, <1>7, <1>8, <1>9, <1>10 DEF Next

(* The inductive invariant holds throughout. *)
THEOREM Invariance == Spec => []IInv
<1>1. TypeOK /\ IInv /\ TypeOK' /\ [Next]_vars => IInv'
  BY InvStep
<1>2. QED
  BY <1>1, InvInit, TypeCorrect, PTL DEF Spec

(* From a start to the next stop the latest step thread is stepping: the   *)
(* controller may skip a start when motor.running is true.                 *)
THEOREM StartedMotorSteps == Spec => []StartedMeansStepping
<1>1. IInv => StartedMeansStepping
  BY DEF IInv
<1>2. QED
  BY <1>1, Invariance, PTL

(* A driver switched off under a run by an older thread is always about to *)
(* be reported through "running".                                          *)
THEOREM LostEnableNoticed == Spec => []LostEnableIsReported
<1>1. IInv => LostEnableIsReported
  BY DEF IInv
<1>2. QED
  BY <1>1, Invariance, PTL

-----------------------------------------------------------------------------
(* The motor implements its contract: every step is a start, a halt, a     *)
(* drop of the driver or of the flag, or invisible.                        *)
LEMMA StepImplements == IInv /\ [Next]_vars => [Contract!MotorNext]_(Contract!motorVars)
<1> SUFFICES ASSUME IInv, [Next]_vars
             PROVE  [Contract!MotorNext]_(Contract!motorVars)
  OBVIOUS
<1> USE DEF Contract!motorVars, Contract!MotorNext
<1>a. enabled \in BOOLEAN /\ running \in BOOLEAN
  BY DEF IInv, TypeOK, Contract!MotorTypeOK
<1>b. direction = "none" => enabled = FALSE /\ running = FALSE
  BY <1>a DEF IInv, Contract!HaltedIsOff
<1>1. ASSUME NEW d \in Contract!Directions, NEW s \in SpeedCmds, Retarget(d, s)
      PROVE  Contract!MotorStart(d)
  BY <1>1 DEF Retarget, Contract!MotorStart
<1>2. ASSUME NEW d \in Contract!Directions, NEW s \in SpeedCmds, NEW l \in Loops,
             StartLoop(d, s, l)
      PROVE  Contract!MotorStart(d)
  BY <1>2 DEF StartLoop, Contract!MotorStart
<1>3. CASE Stop \/ EmergencyStop \/ JoinEnded \/ JoinTimeout
  BY <1>3 DEF Stop, EmergencyStop, JoinEnded, JoinTimeout, deviceVars
<1>4. CASE CallerDisable
  BY <1>4, <1>a, <1>b DEF CallerDisable, Contract!MotorDropDriver
<1>5. CASE CallerClear
  BY <1>5, <1>a DEF CallerClear, IInv, Contract!MotorHalt
<1>6. ASSUME NEW l \in Loops, LoopStep(l)
      PROVE  [Contract!MotorNext]_(Contract!motorVars)
  <2>1. CASE LoopDisable(l)
    BY <2>1, <1>a, <1>b DEF LoopDisable, Contract!MotorDropDriver
  <2>2. CASE LoopFinish(l)
    BY <2>2, <1>a, <1>b DEF LoopFinish, Contract!MotorDropRunning
  <2>3. CASE CheckStop(l) \/ Accelerate(l) \/ CheckSlow(l) \/ Decelerate(l)
    BY <2>3 DEF CheckStop, Accelerate, CheckSlow, Decelerate, deviceVars
  <2>4. QED
    BY <1>6, <2>1, <2>2, <2>3 DEF LoopStep
<1>7. CASE UNCHANGED vars
  BY <1>7 DEF vars, deviceVars
<1>8. QED
  BY <1>1, <1>2, <1>3, <1>4, <1>5, <1>6, <1>7 DEF Next

(* ConveyorMotor implements MotorContract, whatever its threads do. *)
THEOREM MotorRefinesContract == Spec => ImplementsContract
<1>1. Init => Contract!MotorInit
  BY DEF Init
<1>2. QED
  BY <1>1, StepImplements, Invariance, PTL DEF Spec, ImplementsContract, Contract!MotorSpec

=============================================================================
