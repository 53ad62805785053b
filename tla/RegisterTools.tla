----------------------------- MODULE RegisterTools -----------------------------
(***************************************************************************)
(* The small clients of the shared Modbus server: the TurtleBot heartbeat  *)
(* (turtlebot_modbus_heartbeat.py), the manual command                     *)
(* (conveyor_modbus_command.py with ConveyorModbusTcpClient), and the      *)
(* smoke test of the server (modbus_client_smoke.py).                      *)
(*                                                                         *)
(* Each makes one request after the other; what belongs together is        *)
(* written by several.  The server takes requests one at a time, refuses   *)
(* addresses it does not have, and may be restarted between any two.       *)
(***************************************************************************)
EXTENDS Naturals, Sequences

CONSTANTS
    Tools,          \* runs of the command tools
    Modulus,        \* of the heartbeat: 65536 in the code
    MaxBeats,       \* bound on the ticks of the heartbeat node
    MaxRestarts     \* bound on the restarts of the server

VARIABLES
    up, restarts,           \* the server
    reg,                    \* its registers
    beacon, zeroBased,      \* the heartbeat node; FALSE with --literal-addresses
    battery, heartbeat,     \* its snapshot, which goes on changing
    beats,
    values, written,        \* the list it is writing, how many of it are written
    since,                  \* the restarts before the first of them
    outcome,                \* of each tool: off, running, ok, failed
    stages, done,           \* requests it has still to make; those of this stage
    accepted,               \* whether those were accepted
    wanted,                 \* all it was asked to write
    undisturbed             \* history: tools since whose start nobody else has written

serverVars == <<up, restarts>>
beaconVars == <<beacon, zeroBased, battery, heartbeat, beats, values, written, since>>
toolVars == <<outcome, stages, done, accepted, wanted>>
vars == <<serverVars, reg, beaconVars, toolVars, undisturbed>>

CONVEYOR_COMMAND == 40021
CONVEYOR_SPEED_CMD == 40022
CONVEYOR_STATUS == 40023
TURTLEBOT_STATUS == 40055
TURTLEBOT_NAV_STATE == 40057
TURTLEBOT_BATTERY_PERCENT == 40058
TURTLEBOT_CURRENT_GOAL == 40059
TURTLEBOT_HEARTBEAT == 40063
SYSTEM_COMMAND == 40071
SYSTEM_COMMAND_SEQ == 40072

HoldingRegisterBase == 40001
ServerCount == 100

(* Of the blocks of the register map, the registers the programs here write *)
ConveyorBlock == {CONVEYOR_COMMAND, CONVEYOR_SPEED_CMD, CONVEYOR_STATUS}
TurtleBotBlock ==
    {TURTLEBOT_STATUS, TURTLEBOT_NAV_STATE, TURTLEBOT_BATTERY_PERCENT,
     TURTLEBOT_CURRENT_GOAL, TURTLEBOT_HEARTBEAT}
SystemBlock == {SYSTEM_COMMAND, SYSTEM_COMMAND_SEQ}
Registers == ConveyorBlock \cup TurtleBotBlock \cup SystemBlock

protocol_address(register, zero) == IF zero THEN register - HoldingRegisterBase ELSE register
register_number(address) == address + HoldingRegisterBase

(* Words of a counter of 32 bits, which the map keeps in two registers *)
Word == 65536
split_u32(value) == <<value % Word, value \div Word>>
combine_u32(lo, hi) == hi * Word + lo

(***************************************************************************)
(* The server.  A request is [at |-> address, put |-> values].             *)
(***************************************************************************)
initial_holding_registers == [r \in Registers |-> 0]

Legal(q) == q.at + Len(q.put) <= ServerCount

After(q) ==
    [r \in Registers |->
        LET i == r - register_number(q.at) + 1
        IN  IF i \in 1 .. Len(q.put) THEN q.put[i] ELSE reg[r]]

ServerStops ==
    /\ up
    /\ up' = FALSE
    /\ UNCHANGED <<restarts, reg, beaconVars, toolVars, undisturbed>>

ServerStarts ==
    /\ ~up /\ restarts < MaxRestarts
    /\ up' = TRUE /\ restarts' = restarts + 1
    /\ reg' = initial_holding_registers
    /\ undisturbed' = {}
    /\ UNCHANGED <<beaconVars, toolVars>>

Init ==
    /\ up = TRUE /\ restarts = 0
    /\ reg = initial_holding_registers
    /\ beacon = "off" /\ zeroBased \in BOOLEAN
    /\ battery = 0 /\ heartbeat = 0 /\ beats = 0
    /\ values = <<>> /\ written = 0 /\ since = 0
    /\ outcome = [t \in Tools |-> "off"] /\ stages = [t \in Tools |-> <<>>]
    /\ done = [t \in Tools |-> 0] /\ accepted = [t \in Tools |-> TRUE]
    /\ wanted = [t \in Tools |-> <<>>]
    /\ undisturbed = {}

(***************************************************************************)
(* The heartbeat.  Its callbacks run one at a time, so that the battery    *)
(* changes between ticks only.                                             *)
(***************************************************************************)
(* With --no-ros and --once it writes one snapshot and ends *)
NodeStarts ==
    /\ beacon \in {"off", "ended"} /\ up /\ beats < MaxBeats
    /\ beacon' = "ready" /\ heartbeat' = 0
    /\ UNCHANGED <<serverVars, reg, zeroBased, battery, beats, values, written, since, toolVars, undisturbed>>

OnBattery(percent) ==
    /\ beacon = "ready"
    /\ battery' = percent
    /\ UNCHANGED <<serverVars, reg, beacon, zeroBased, heartbeat, beats, values, written, since, toolVars, undisturbed>>

register_values(b, h) ==
    <<[register |-> TURTLEBOT_STATUS, value |-> 1], [register |-> TURTLEBOT_NAV_STATE, value |-> 1],
      [register |-> TURTLEBOT_BATTERY_PERCENT, value |-> b],
      [register |-> TURTLEBOT_CURRENT_GOAL, value |-> 1], [register |-> TURTLEBOT_HEARTBEAT, value |-> h]>>

(* Variant: in the order of the fields a reader looks at first *)
Tick_heartbeat_first ==
    /\ beacon = "ready" /\ beats < MaxBeats
    /\ beats' = beats + 1
    /\ heartbeat' = (heartbeat + 1) % Modulus
    /\ LET list == register_values(battery, heartbeat')
       IN  values' = <<list[5], list[1], list[2], list[3], list[4]>>
    /\ written' = 0 /\ since' = restarts
    /\ beacon' = "writing"
    /\ UNCHANGED <<serverVars, reg, zeroBased, battery, toolVars, undisturbed>>

Tick ==
    /\ beacon = "ready" /\ beats < MaxBeats
    /\ beats' = beats + 1
    /\ heartbeat' = (heartbeat + 1) % Modulus
    /\ values' = register_values(battery, heartbeat')
    /\ written' = 0 /\ since' = restarts
    /\ beacon' = "writing"
    /\ UNCHANGED <<serverVars, reg, zeroBased, battery, toolVars, undisturbed>>

Snapshot ==
    [at |-> protocol_address(values[written + 1].register, zeroBased),
     put |-> <<values[written + 1].value>>]

WriteSnapshot ==
    /\ beacon = "writing" /\ up /\ Legal(Snapshot)
    /\ reg' = After(Snapshot)
    /\ written' = written + 1
    /\ beacon' = IF written' = Len(values) THEN "ready" ELSE "writing"
    /\ UNCHANGED <<serverVars, zeroBased, battery, heartbeat, beats, values, since, toolVars, undisturbed>>

(* Refused, lost or unanswered: the error leaves the callback and ends the  *)
(* node.  Ctrl+C and --once end it between ticks.                           *)
NodeEnds ==
    /\ beacon \in {"ready", "writing"}
    /\ beacon' = "ended"
    /\ UNCHANGED <<serverVars, reg, zeroBased, battery, heartbeat, beats, values, written, since, toolVars, undisturbed>>

(***************************************************************************)
(* The command tools.  A stage is a list of requests made one after the    *)
(* other, whose answers are looked at when all of them are made.           *)
(***************************************************************************)
Put(register, list, zero) == [at |-> protocol_address(register, zero), put |-> list]

write_command(command, speed, zero) ==
    << <<Put(CONVEYOR_COMMAND, <<command>>, zero), Put(CONVEYOR_SPEED_CMD, <<speed>>, zero)>> >>

(* --write-demo, and then --system-command *)
write_demo == <<Put(CONVEYOR_COMMAND, <<0>>, TRUE), Put(CONVEYOR_SPEED_CMD, <<0>>, TRUE)>>
system_command(command, seq) ==
    <<Put(SYSTEM_COMMAND, <<command>>, TRUE), Put(SYSTEM_COMMAND_SEQ, <<seq>>, TRUE)>>

(* write_state puts the whole conveyor block at once, status included *)
write_state(command, speed, status) == << <<Put(CONVEYOR_COMMAND, <<command, speed, status>>, TRUE)>> >>

CommandRequests == {write_command(1, 50, zero) : zero \in BOOLEAN}
SmokeRequests == {<<write_demo>>, <<system_command(1, 2)>>, <<write_demo, system_command(1, 2)>>}
Requests == CommandRequests \cup SmokeRequests \cup {write_state(2, 50, 1)}

(* connect, and for the smoke test a first read, have been answered *)
ToolStarts(t, list) ==
    /\ outcome[t] = "off" /\ up
    /\ outcome' = [outcome EXCEPT ![t] = "running"]
    /\ stages' = [stages EXCEPT ![t] = list] /\ wanted' = [wanted EXCEPT ![t] = list]
    /\ done' = [done EXCEPT ![t] = 0] /\ accepted' = [accepted EXCEPT ![t] = TRUE]
    /\ undisturbed' = undisturbed \cup {t}
    /\ UNCHANGED <<serverVars, reg, beaconVars>>

ToolEnds(t, o) ==
    /\ outcome[t] = "off"
    /\ outcome' = [outcome EXCEPT ![t] = o]
    /\ UNCHANGED <<serverVars, reg, beaconVars, stages, done, accepted, wanted, undisturbed>>

(* --dry-run: ok without a request.  Or no connection. *)
ToolDoesNothing(t) == \E o \in {"ok", "failed"} : ToolEnds(t, o)

(* parse_conveyor_command knows no such command: nothing is connected.     *)
CommandUnknown(t) == ToolEnds(t, "failed")

Running(t) == outcome[t] = "running" /\ stages[t] # <<>> /\ done[t] < Len(Head(stages[t]))

(* Variant: of two answers only the second is looked at *)
Accepts_last(t, yes) == accepted' = [accepted EXCEPT ![t] = yes]

Accepts(t, yes) == accepted' = [accepted EXCEPT ![t] = @ /\ yes]

Request(t) ==
    /\ Running(t) /\ up
    /\ LET q == Head(stages[t])[done[t] + 1]
       IN  \/ Legal(q) /\ reg' = After(q) /\ undisturbed' = undisturbed \cap {t} /\ Accepts(t, TRUE)
           \/ reg' = reg /\ undisturbed' = undisturbed /\ Accepts(t, FALSE)
    /\ done' = [done EXCEPT ![t] = @ + 1]
    /\ UNCHANGED <<serverVars, beaconVars, outcome, stages, wanted>>

(* The process is gone, and what it knew *)
ToolFails(t) ==
    /\ outcome' = [outcome EXCEPT ![t] = "failed"]
    /\ stages' = [stages EXCEPT ![t] = <<>>] /\ wanted' = [wanted EXCEPT ![t] = <<>>]
    /\ done' = [done EXCEPT ![t] = 0] /\ accepted' = [accepted EXCEPT ![t] = TRUE]

(* No answer, or a broken connection *)
RequestRaises(t) ==
    /\ Running(t)
    /\ ToolFails(t)
    /\ UNCHANGED <<serverVars, reg, beaconVars, undisturbed>>

(* parse_system_command knows no such command, and raises when the demo, if *)
(* that was asked for, too, has been written already.                      *)
SystemCommandUnknown(t) ==
    /\ Running(t) /\ done[t] = 0
    /\ Head(stages[t]) = system_command(1, 2)
    /\ ToolFails(t)
    /\ UNCHANGED <<serverVars, reg, beaconVars, undisturbed>>

(* The answers of a stage; the smoke test reads back what it has written,  *)
(* shows it, and fails only if the read does                               *)
StageEnds(t) ==
    /\ outcome[t] = "running" /\ done[t] = Len(Head(stages[t]))
    /\ \/ ~accepted[t] /\ ToolFails(t)
       \/ /\ accepted[t]
          /\ stages' = [stages EXCEPT ![t] = Tail(@)] /\ done' = [done EXCEPT ![t] = 0]
          /\ outcome' = [outcome EXCEPT ![t] = IF Len(stages[t]) = 1 THEN "ok" ELSE "running"]
          /\ UNCHANGED <<accepted, wanted>>
    /\ UNCHANGED <<serverVars, reg, beaconVars, undisturbed>>

Next ==
    \/ ServerStops \/ ServerStarts
    \/ NodeStarts \/ Tick \/ WriteSnapshot \/ NodeEnds
    \/ \E percent \in {0, 100} : OnBattery(percent)
    \/ \E t \in Tools :
        \/ \E list \in Requests : ToolStarts(t, list)
        \/ ToolDoesNothing(t) \/ CommandUnknown(t) \/ SystemCommandUnknown(t)
        \/ Request(t) \/ RequestRaises(t) \/ StageEnds(t)

Spec == Init /\ [][Next]_vars

(***************************************************************************)
(* Properties.                                                             *)
(***************************************************************************)

Holds(q) == \A i \in 1 .. Len(q.put) :
    register_number(q.at) + i - 1 \in Registers => reg[register_number(q.at) + i - 1] = q.put[i]

(* A heartbeat that changes tells a reader that the four values before it    *)
(* are those of one snapshot, the one it was counted for, unless the server  *)
(* was restarted within it.  The registers are written one by one.           *)
HeartbeatVouches ==
    [][ reg'[TURTLEBOT_HEARTBEAT] # reg[TURTLEBOT_HEARTBEAT] /\ up /\ since = restarts =>
            \A i \in 1 .. Len(values) : reg'[values[i].register] = values[i].value ]_vars

(* A tool that reports success has had all it wrote accepted: if nobody else *)
(* has written since it was started and the server is the same, the          *)
(* registers hold it.                                                        *)
OkMeansWritten ==
    \A t \in undisturbed : outcome[t] = "ok" =>
        \A s \in 1 .. Len(wanted[t]) : \A i \in 1 .. Len(wanted[t][s]) : Holds(wanted[t][s][i])

=============================================================================
