------------------------------- MODULE GpioBench -------------------------------
(***************************************************************************)
(* The programs that drive the pins of the conveyor's Raspberry Pi: the    *)
(* controller (its motor and button lines) and the three diagnostics of    *)
(* conveyor/gpio, started beside each other in any order.                  *)
(*                                                                         *)
(* The kernel gives a line to one program at a time; requesting an output  *)
(* drives it to 0, and a pin keeps its level when its line is released.    *)
(* ENABLE is active at 0.  Ctrl+C reaches a program where it sleeps.       *)
(***************************************************************************)
EXTENDS Naturals

CONSTANTS
    MaxCycles,          \* bound on the cycles of gpio_level_diagnostic
    Threads             \* step threads of the controller's motor that may live at once

Programs == {"controller", "level", "pulse", "shield"}
Lines == {"stepper", "servo", "buttons"}

VARIABLES
    at,                 \* where each program is
    holder,             \* the program that holds each line, or "nobody"
    enable, stepPin, servoPin,
    cycle,              \* of the level diagnostic
    activeLow,          \* whether a diagnostic was told what the driver is wired for
    layers,             \* what the shield diagnostic has still to test
    loose,              \* pins whose last holder ended without putting them to rest
    running,            \* of the controller's motor
    told,               \* the motor's stop event
    loop, late        \* the step threads; those that have seen the event

pinVars == <<enable, stepPin, servoPin>>
argVars == <<cycle, activeLow, layers>>
motorVars == <<running, told, loop, late>>
vars == <<at, holder, pinVars, argVars, loose, motorVars>>

enable_value(p, on) == IF activeLow[p] = on THEN 0 ELSE 1

Goto(p, place) == at' = [at EXCEPT ![p] = place]
Free(l) == holder[l] = "nobody"
Take(p, l) == holder' = [holder EXCEPT ![l] = p]

(* All that a program holds; exclusive, and best effort *)
ReleaseAll(p) == holder' = [l \in Lines |-> IF holder[l] = p THEN "nobody" ELSE holder[l]]

(* set_enable(False), then STEP to 0: how the three diagnostics end *)
Rest(p) ==
    /\ enable' = enable_value(p, FALSE)
    /\ stepPin' = 0

AfterRest(p) == IF activeLow[p] THEN loose ELSE loose \cup {"enable"}

PinsOf(l) == CASE l = "stepper" -> {"enable", "step"} [] l = "servo" -> {"servo"} [] OTHER -> {}

Init ==
    /\ at = [p \in Programs |-> "off"]
    /\ holder = [l \in Lines |-> "nobody"]
    /\ enable = 1 /\ stepPin = 0 /\ servoPin = 0
    /\ cycle = 0 /\ activeLow = [p \in Programs |-> TRUE] /\ layers = {}
    /\ loose = {}
    /\ running = FALSE /\ told = FALSE /\ loop = [t \in Threads |-> "none"] /\ late = {}

(***************************************************************************)
(* The lines of the stepper: requested one by one, DIR first.             *)
(***************************************************************************)
StepperRequested(p) ==
    /\ Free("stepper") /\ Take(p, "stepper")
    /\ enable' = 0 /\ stepPin' = 0
    /\ loose' = loose \ PinsOf("stepper")

StepperBusy(p) ==
    /\ ~Free("stepper")
    /\ ReleaseAll(p)

(* The controller: lines of the motor, ENABLE off, then those of the buttons *)
ControllerStarts ==
    /\ at["controller"] = "off"
    /\ \/ StepperRequested("controller") /\ Goto("controller", "requested")
       \/ StepperBusy("controller") /\ UNCHANGED <<at, enable, stepPin, loose>>
    /\ running' = FALSE /\ told' = FALSE
    /\ UNCHANGED <<servoPin, argVars, loop, late>>

ControllerSetUp ==
    /\ at["controller"] = "requested"
    /\ enable' = 1
    /\ Goto("controller", "buttons")
    /\ UNCHANGED <<holder, stepPin, servoPin, argVars, loose, motorVars>>

ButtonsRequested ==
    /\ at["controller"] = "buttons"
    /\ IF Free("buttons")
       THEN Take("controller", "buttons") /\ Goto("controller", "stopped")
       ELSE ReleaseAll("controller") /\ Goto("controller", "off")
    /\ UNCHANGED <<pinVars, argVars, loose, motorVars>>

(***************************************************************************)
(* The controller's motor.  Its calls and its step threads write the same  *)
(* pins: the calls ENABLE alone, a thread STEP, and ENABLE once at its     *)
(* end, whatever run it is then (ConveyorMotor has the delays).            *)
(***************************************************************************)
ControllerRuns ==
    /\ at["controller"] \in {"stopped", "running"}
    /\ enable' = 0
    /\ Goto("controller", "running")
    /\ IF running
       THEN UNCHANGED motorVars
       ELSE \E t \in Threads :
               /\ loop[t] = "none"
               /\ loop' = [loop EXCEPT ![t] = "low"]
               /\ running' = TRUE /\ told' = FALSE
               /\ UNCHANGED late
    /\ UNCHANGED <<holder, stepPin, servoPin, argVars, loose>>

(* stop and emergency_stop: the event; then, with a thread still alive      *)
(* after one second of waiting or after none, the driver                   *)
ControllerTells ==
    /\ at["controller"] \in {"stopped", "running"}
    /\ told' = TRUE
    /\ Goto("controller", "stopping")
    /\ UNCHANGED <<holder, pinVars, argVars, loose, running, loop, late>>

(* Variant: the driver is left to the step thread *)
ControllerStops_left_to_thread ==
    /\ at["controller"] = "stopping"
    /\ running' = FALSE
    /\ Goto("controller", "stopped")
    /\ UNCHANGED <<holder, pinVars, argVars, loose, told, loop, late>>

ControllerStops ==
    /\ at["controller"] = "stopping"
    /\ enable' = 1 /\ running' = FALSE
    /\ Goto("controller", "stopped")
    /\ UNCHANGED <<holder, stepPin, servoPin, argVars, loose, told, loop, late>>

ThreadPulses(t) ==
    /\ \/ loop[t] = "low" /\ stepPin' = 1 /\ loop' = [loop EXCEPT ![t] = "high"]
       \/ loop[t] = "high" /\ stepPin' = 0 /\ loop' = [loop EXCEPT ![t] = "low"]
    /\ UNCHANGED <<at, holder, enable, servoPin, argVars, loose, running, told, late>>

(* It sees the event between two pulses, ramps down, and leaves its loop *)
ThreadTold(t) ==
    /\ told /\ loop[t] = "low" /\ t \notin late
    /\ late' = late \cup {t}
    /\ UNCHANGED <<at, holder, pinVars, argVars, loose, running, told, loop>>

ThreadDisables(t) ==
    /\ loop[t] = "low" /\ t \in late
    /\ enable' = 1
    /\ loop' = [loop EXCEPT ![t] = "leaving"]
    /\ UNCHANGED <<at, holder, stepPin, servoPin, argVars, loose, running, told, late>>

ThreadFinishes(t) ==
    /\ loop[t] = "leaving"
    /\ running' = FALSE
    /\ loop' = [loop EXCEPT ![t] = "none"] /\ late' = late \ {t}
    /\ UNCHANGED <<at, holder, pinVars, argVars, loose, told>>

(* The threads end with the program *)
ThreadsGone == loop' = [t \in Threads |-> "none"] /\ late' = {}

(* emergency_stop comes first (Tells, Stops).  Then the lines are released, *)
(* under a thread that may be in a pulse: nothing puts STEP to 0            *)
ControllerEnds ==
    /\ at["controller"] = "stopped"
    /\ ReleaseAll("controller")
    /\ Goto("controller", "off")
    /\ loose' = loose \cup {pin \in {"step"} : \E t \in Threads : loop[t] = "high"}
    /\ ThreadsGone
    /\ UNCHANGED <<pinVars, argVars, running, told>>

(***************************************************************************)
(* gpio_level_diagnostic sets ENABLE and alternates STEP and DIR; only its *)
(* last lines put the pins to rest, its finally releases the lines.        *)
(***************************************************************************)
LevelStarts(low) ==
    /\ at["level"] = "off"
    /\ activeLow' = [activeLow EXCEPT !["level"] = low] /\ cycle' = 0
    /\ \/ StepperRequested("level") /\ Goto("level", "requested")
       \/ StepperBusy("level") /\ UNCHANGED <<at, enable, stepPin, loose>>
    /\ UNCHANGED <<servoPin, layers, motorVars>>

LevelEnables ==
    /\ at["level"] = "requested"
    /\ enable' = enable_value("level", TRUE)
    /\ Goto("level", "measure")
    /\ UNCHANGED <<holder, stepPin, servoPin, argVars, loose, motorVars>>

LevelCycle ==
    /\ at["level"] = "measure" /\ cycle < MaxCycles
    /\ stepPin' = cycle % 2
    /\ cycle' = cycle + 1
    /\ UNCHANGED <<at, holder, enable, servoPin, activeLow, layers, loose, motorVars>>

LevelEnds ==
    /\ at["level"] = "measure" /\ cycle > 0
    /\ Rest("level") /\ ReleaseAll("level")
    /\ Goto("level", "off")
    /\ loose' = AfterRest("level")
    /\ UNCHANGED <<servoPin, argVars, motorVars>>

LevelInterrupted ==
    /\ at["level"] = "measure"
    /\ ReleaseAll("level")
    /\ Goto("level", "off")
    /\ loose' = loose \cup PinsOf("stepper")
    /\ UNCHANGED <<pinVars, argVars, motorVars>>

(***************************************************************************)
(* gpio_pulse_diagnostic, and the stepper layer of the shield diagnostic.  *)
(***************************************************************************)
PulseStarts(low) ==
    /\ at["pulse"] = "off"
    /\ activeLow' = [activeLow EXCEPT !["pulse"] = low]
    /\ \/ StepperRequested("pulse") /\ Goto("pulse", "requested")
       \/ StepperBusy("pulse") /\ UNCHANGED <<at, enable, stepPin, loose>>
    /\ UNCHANGED <<servoPin, cycle, layers, motorVars>>

PulseEnables(p) ==
    /\ at[p] = "requested"
    /\ enable' = enable_value(p, TRUE)
    /\ Goto(p, "pulsing")
    /\ UNCHANGED <<holder, stepPin, servoPin, argVars, loose, motorVars>>

Pulse(p) ==
    /\ at[p] = "pulsing"
    /\ stepPin' = 1 - stepPin
    /\ UNCHANGED <<at, holder, enable, servoPin, argVars, loose, motorVars>>

(* The time is over, or Ctrl+C: the finally is the same *)
PulseEnds(p) ==
    /\ at[p] = "pulsing"
    /\ Rest(p) /\ ReleaseAll(p)
    /\ Goto(p, "off")
    /\ loose' = AfterRest(p)
    /\ UNCHANGED <<servoPin, argVars, motorVars>>

(***************************************************************************)
(* shield_actuator_diagnostic: buttons, servo and stepper, as --mode says. *)
(***************************************************************************)
Modes == {{"buttons"}, {"servo"}, {"stepper"}, Lines}

ShieldStarts(mode, low) ==
    /\ at["shield"] = "off"
    /\ activeLow' = [activeLow EXCEPT !["shield"] = low]
    /\ layers' = mode
    /\ Goto("shield", "next")
    /\ UNCHANGED <<holder, pinVars, cycle, loose, motorVars>>

TestButtons ==
    /\ at["shield"] = "next" /\ "buttons" \in layers
    /\ layers' = layers \ {"buttons"}
    /\ IF Free("buttons")
       THEN Take("shield", "buttons") /\ Goto("shield", "watching")
       ELSE ReleaseAll("shield") /\ Goto("shield", "off")
    /\ UNCHANGED <<pinVars, cycle, activeLow, loose, motorVars>>

TestServo ==
    /\ at["shield"] = "next" /\ "servo" \in layers /\ "buttons" \notin layers
    /\ layers' = layers \ {"servo"}
    /\ Take("shield", "servo")
    /\ servoPin' = 0 /\ loose' = loose \ PinsOf("servo")
    /\ Goto("shield", "holding")
    /\ UNCHANGED <<enable, stepPin, cycle, activeLow, motorVars>>

ServoPulse ==
    /\ at["shield"] = "holding"
    /\ servoPin' = 1 - servoPin
    /\ UNCHANGED <<at, holder, enable, stepPin, argVars, loose, motorVars>>

(* A layer is over: its lines are released; Ctrl+C ends the program with it *)
LayerEnds ==
    /\ at["shield"] \in {"watching", "holding"}
    /\ servoPin' = 0
    /\ ReleaseAll("shield")
    /\ \E place \in {"next", "off"} : Goto("shield", place)
    /\ UNCHANGED <<enable, stepPin, argVars, loose, motorVars>>

TestStepper ==
    /\ at["shield"] = "next" /\ layers = {"stepper"}
    /\ layers' = {}
    /\ \/ StepperRequested("shield") /\ Goto("shield", "requested")
       \/ StepperBusy("shield") /\ Goto("shield", "off")
          /\ UNCHANGED <<enable, stepPin, loose>>
    /\ UNCHANGED <<servoPin, cycle, activeLow, motorVars>>

ShieldEnds ==
    /\ at["shield"] = "next" /\ layers = {}
    /\ Goto("shield", "off")
    /\ UNCHANGED <<holder, pinVars, argVars, loose, motorVars>>

(* A program is killed: the kernel takes its lines back *)
Killed(p) ==
    /\ at[p] # "off"
    /\ ReleaseAll(p)
    /\ Goto(p, "off")
    /\ loose' = loose \cup UNION {PinsOf(l) : l \in {k \in Lines : holder[k] = p}}
    /\ IF p = "controller" THEN ThreadsGone ELSE UNCHANGED <<loop, late>>
    /\ UNCHANGED <<pinVars, argVars, running, told>>

Next ==
    \/ ControllerStarts \/ ControllerSetUp \/ ButtonsRequested
    \/ ControllerRuns \/ ControllerTells \/ ControllerStops \/ ControllerEnds
    \/ \E t \in Threads :
        ThreadPulses(t) \/ ThreadTold(t) \/ ThreadDisables(t) \/ ThreadFinishes(t)
    \/ \E low \in BOOLEAN :
        \/ LevelStarts(low) \/ PulseStarts(low)
        \/ \E mode \in Modes : ShieldStarts(mode, low)
    \/ LevelEnables \/ LevelCycle \/ LevelEnds \/ LevelInterrupted
    \/ \E p \in {"pulse", "shield"} : PulseEnables(p) \/ Pulse(p) \/ PulseEnds(p)
    \/ TestButtons \/ TestServo \/ ServoPulse \/ LayerEnds \/ TestStepper \/ ShieldEnds
    \/ \E p \in Programs : Killed(p)

Spec == Init /\ [][Next]_vars

(* However the programs are started beside each other and ended, and        *)
(* whatever step threads of earlier runs still do: the driver is off under *)
(* a controller that has stopped, and on under one that runs unless a late *)
(* thread has switched it off, which the motor's flag tells or is about to *)
(* tell.  With nobody at the stepper the driver is off and STEP is low,    *)
(* each unless the last holder left the pin loose: killed, interrupted in  *)
(* the level check, told of another wiring, or, for STEP alone, a          *)
(* controller that ended in a pulse of a step thread.  The servo signal is *)
(* low when nobody holds it, unless its holder was killed.                 *)
PinsObeyHolder ==
    /\ at["controller"] \in {"buttons", "stopped"} => enable = 1
    /\ at["controller"] = "running" /\ running =>
        enable = 0 \/ \E t \in Threads : loop[t] = "leaving"
    /\ holder["stepper"] = "nobody" /\ "enable" \notin loose => enable = 1
    /\ holder["stepper"] = "nobody" /\ "step" \notin loose => stepPin = 0
    /\ holder["servo"] = "nobody" /\ "servo" \notin loose => servoPin = 0

=============================================================================
