---------------------------- MODULE MotionProfile ----------------------------
(***************************************************************************)
(* The speed profile of the conveyor stepper (conveyor/pi_controller/      *)
(* motion_profile.py).  A "delay" is the half-period of the step pulse, so *)
(* a LARGER delay is a SLOWER belt.  Delays are counted in ramp units: one *)
(* unit is RAMP_DELTA_SEC = 0.0000005 s.  In these units the code has      *)
(* InitialDelay = 1000, MaxSpeed = 100, SpeedGain = 8 (the 800 units of    *)
(* span divided by 100), which makes every delay of the profile a whole    *)
(* number; the rounding of binary floating point is abstracted away.       *)
(***************************************************************************)
EXTENDS Integers

CONSTANTS
    InitialDelay,   \* INITIAL_STEP_DELAY_SEC: where a run starts and ends
    MaxSpeed,       \* MAX_SPEED_CMD
    SpeedGain       \* ramp units gained per unit of the speed command

ASSUME ProfileAssumption ==
    /\ MaxSpeed \in Nat \ {0}
    /\ SpeedGain \in Nat \ {0}
    /\ InitialDelay \in Nat
    /\ InitialDelay > SpeedGain * MaxSpeed

MinSpeed == 1

(* TARGET_STEP_DELAY_SEC, the delay of the full-speed profile. *)
TargetDelay == InitialDelay - SpeedGain * MaxSpeed

Delays == TargetDelay .. InitialDelay

(* 0 is "default full speed" for the manual tools that send speed 0;       *)
(* everything else is clamped into 1..MaxSpeed.  The registers only carry  *)
(* integers, so the non-integer branch cannot be taken here.               *)
clamp_speed_cmd(speed) ==
    CASE speed = 0        -> MaxSpeed
      [] speed < MinSpeed /\ speed # 0 -> MinSpeed
      [] speed > MaxSpeed -> MaxSpeed
      [] OTHER            -> speed

speed_cmd_to_target_delay(speed) ==
    InitialDelay - SpeedGain * clamp_speed_cmd(speed)

(* max(target, current - 1): one ramp step towards a faster target.  When  *)
(* the target is SLOWER than the current delay the result is the target    *)
(* itself, however far away it is.                                         *)
next_accel_delay(current, target) ==
    IF current - 1 > target THEN current - 1 ELSE target

(* Variant for the mutation runs: min() forgotten. *)
next_decel_delay_unbounded(current) == current + 1

(* min(initial, current + 1): one ramp step towards standstill. *)
next_decel_delay(current) ==
    IF current + 1 < InitialDelay THEN current + 1 ELSE InitialDelay

=============================================================================
