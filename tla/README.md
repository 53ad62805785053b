# A verification development for SmartFarmProject

TLA+ modules that model the control programs of the smart farm, TLC
configurations that check them on small instances, and proofs for every value of
the constants. Paths below are relative to `src/workspace/src/` of the repository
unless they start with `docs/`.

## 1. The system

The farm is a handful of Python programs on several machines that meet in one
place, the holding registers of a shared Modbus TCP server.

| Component | Code | State | Operations | Interacts through |
|---|---|---|---|---|
| Speed profile | `conveyor/pi_controller/motion_profile.py` | none | clamp, target delay, one ramp step up or down | called by the motor |
| Motor driver | `conveyor/pi_controller/conveyor_motor.py` `ConveyorMotor` | running, direction, delays, stop event, thread, ENABLE line | start, stop, emergency_stop, close, `_run_loop` | daemon threads share its fields |
| Button reader | same file, `ButtonReader` | last levels, time of the last event | poll | GPIO lines, polled by the controller |
| Pi controller | `conveyor/modbus_client/conveyor_modbus_client_controller.py` | latch, last command and speed, state, last written state | apply command, handle button, connect, poll, read, write, recover | 40021/40022 in, 40023/40024 out |
| Shared server | `modbus/shared_server/` | register blocks 40021 to 40110 | read, write, restart with initial values | Modbus TCP |
| Vision node | `realsense/realsense/conveyor_modbus.py`, `topview_color_detector.py` | object active, no-detection streak, last state written | on_image, gated command write, shutdown write | reads 40023/40024, writes 40021/40022 and 40025 to 40027 |
| WebSocket broadcaster | `topview_color_detector.py` `WebSocketResultBroadcaster` | set of viewers, loop thread, started flag | start, broadcast, one task per frame, stop | WebSockets |
| Region tools | `realsense/scripts/select_conveyor_roi.py`, `select_conveyor_raw_roi.py` | clicked points, frozen frame | click, undo, reset, save; self test | a JSON file the vision node loads |
| Command tools | `conveyor_modbus_command.py`, `modbus/shared_server/modbus_client_smoke.py` | none | register writes, one after the other | 40021 and following |
| Web backend | `apps/backend/` | WebSocket list, Modbus client, its connected flag and simulated status | poll and broadcast, control | 40021, 40023, 40081 to 40092; WebSockets |
| Web frontend | `apps/frontend/` | view state, WebSocket, E-STOP switch | reconnect, show, toggle E-STOP (it sends nothing) | WebSocket |
| Calibration tools | `dobot/dobot/calibrate_positions.py`, `calibrate_harvest_positions.py` | last pose, captures, a base calibration | capture, back up, write | a JSON file that `harvest_test.py` loads |
| Harvest sequence | `dobot/dobot/harvest_test.py`, `vision_capture_client.py` | current pose, suction | move, jump, suction, capture, classify | ROS actions, TCP to the capture daemon |
| Capture daemon and camera | `vision/camera1_pi/` | one Pi connection, sessions on disk | capture with one retry | TCP sockets |
| Video receiver | `vision/camera1_pi/pc_receiver_streamer.py`, `raspi_capture_send.py` | videos, `.part` files, `latest.json`, the window's queue | receive, rename, mark, answer; HTTP reads; play; Ctrl+C | TCP, a directory |
| Single pictures | `vision/camera1_pi/pc_jpeg_capture_server.py` with the camera client | request number, pictures, `latest_jpeg.json` | ask, read a packet, store, mark | TCP, a directory |
| Inference | `infer_server.py`, `infer_client.py` beside it | one connection at a time | judge three pictures | TCP, the same directory |
| Heartbeat | `turtlebot/turtlebot/turtlebot_modbus_heartbeat.py` | snapshot, counter | battery callback, tick | 40041 and following |
| GPIO diagnostics | `conveyor/gpio/` | the lines each holds | request, drive, release | the pins the motor driver uses |

What makes each of them hard, and what makes it correct:

* **Motor driver.** The stop signal, the delay, the driver line and the flag
  `running` are shared by the caller and by every step thread still alive;
  `emergency_stop` waits for none of them and `stop` for one second. Correct
  means: only a start drives the belt, after a stop it is off, and the flag tells
  the caller the truth soon enough.
* **Pi controller.** Two caches (the last command applied, the last state
  written) decide what is *not* done. Requests fail or lose their answer, the
  server and the process restart, buttons are pressed at any time. Correct means:
  the belt never runs while latched, never without a connection, never by any
  other command than the last one read; the published status is true; a standing
  command is obeyed in the end.
* **Vision node.** It checks the status and writes the command in two requests,
  and it remembers what it *wanted* to write. Correct means: cubes move, an empty
  belt stops, an emergency is respected.
* **Server.** Every value is lost at a restart; every register has one owner.
* **Backend and frontend.** Coroutines share one client and one list of sockets,
  which a broadcast walks while handlers change it. Correct means: nobody is lost
  from the list, and every page comes to show what the conveyor reports.
* **Harvest and capture.** Long calls with callbacks and timeouts in between; a
  failure half-way leaves the arm and the suction as they are.
* **Video receiver.** One thread per upload, a shared directory. Correct means:
  what is acknowledged or named as the latest is whole.
* **Heartbeat and command tools.** What belongs together is written by several
  requests, and the server may restart between any two. Correct means: a new
  heartbeat vouches for the values before it, and "ok" for everything asked for.
* **Calibration and region tools.** An operator's session may end anywhere, files
  are written in place, and several programs read one file with rules of their own
  for finding it. Correct means: what was measured survives, and a reader takes it
  for what it was measured as.
* **Pictures and verdicts.** A request number travels with each picture and is
  never compared; pictures vanish while they are judged. Correct means: a picture
  is filed under its own request, and a verdict is about all pictures.
* **Diagnostics.** Programs beside each other hold lines of one chip, and a pin
  keeps its level when its holder has gone. Correct means: whoever ends leaves the
  driver off.
* **Broadcaster.** `send` has no timeout. Correct means: a viewer that does not read
  holds up the frames it is sent and nothing else.

The full list of hazards, each at its line, is in `PROJECT.json`.

## 2. Modules

| Module | Models |
|---|---|
| `MotionProfile` | the arithmetic of `motion_profile.py` in ramp units (`RAMP_DELTA_SEC` = 1) |
| `MotorContract` | what a caller of the motor may rely on: the abstract specification |
| `ConveyorMotor` | the threaded driver; refines `MotorContract` |
| `ConveyorRegisters` | the control registers 40021 to 40024 |
| `ConveyorPi` | the controller loop with its buttons, driving a motor known by its contract, among arbitrary clients of the registers |
| `OperatorHistory` | `ConveyorPi` with history variables, to state the button policy |
| `ConveyorVision` | the vision node: state machine, gated client, life cycle (no specification of its own) |
| `VisionAlone` | the node under any status and any scene, with a history of its last frames |
| `ConveyorLine` | composition of `ConveyorPi` and `ConveyorVision` over the shared registers, with a history of the commands written into an emergency; refines `ConveyorPi` |
| `ConveyorMotor_proofs`, `ConveyorPi_proofs`, `VisionAlone_proofs`, `ConveyorLine_proofs` | the theorems of these modules |
| `MCConveyorMotor`, `MCConveyorPi`, `MCBench` | instances for TLC |
| `HarvestCell` | places, poses and pictures of the harvest cell |
| `DobotHarvest` | one harvest run after the other, the arm and the pose messages |
| `CaptureChain` | capture client, capture daemon, camera client and the connections between them |
| `HarvestLine`, `HarvestLine_proofs` | composition of the two: a run asks the chain for its pictures; its safety theorems |
| `Dashboard`, `Dashboard_proofs` | the web backend between its pages and the conveyor registers; the theorem about its list |
| `VideoReceiver` | the threads of the video receiver, their senders and files |
| `VideoViewers`, `VideoViewers_proofs` | `VideoReceiver` with a browser, or with the window and Ctrl+C; theorems about both |
| `DobotCalibration` | sessions of both calibration tools and the menu `harvest_test.py` makes |
| `RoiSelection` | both region tools, their file, and the polygon the detector uses |
| `GpioBench` | controller with its step threads and three diagnostics at the pins |
| `QualityCheck` | single pictures and their verdict |
| `RegisterTools` | heartbeat, manual command and smoke test over the registers |
| `ResultBroadcaster` | the WebSocket server inside the vision node |
| `VisionNode` | `VisionAlone` and `ResultBroadcaster`, each in its own behaviours |
| `Bench`, `Bench_proofs` | `DobotCalibration`, `RoiSelection`, `GpioBench`, `QualityCheck` and `RegisterTools`, one per behaviour, as one specification; theorems about all five |

**From code to model: the motor.** One section under `self._lock` is one action.
Outside the lock a thread touches one shared variable at a time (the event, the
delay it compares, the ENABLE line), and each such access is an action of its
own. The pulse only sleeps. `_start` is `Retarget` when `running` is true and
`StartLoop` when it is not; the GPIO writes of `_start` are under the lock.
`Loops` is a finite set of thread identities and so bounds how many threads are
alive at once; a dead one may be reused.

**From code to model: the controller.** `run_forever` is one asyncio task. `pc`
names the request or the sleep it is in, and a step runs from the return of one
`await` to the next. A button edge is handled in the step that samples it, the
status it publishes reaches the server in the next step. `RequestFails` is the
exception path of every request; `WriteReplyLost` is a write that took effect and
whose answer was lost. `session` says that the TCP connection of the current
client is sound: a server restart breaks it and the next request on it fails.
Commands and speeds range over sets that include values outside the enum.
`ProcessExit` stands for Ctrl+C and for a power cut: both leave the driver off,
the first by `async_main`'s `finally`, the second with the power.

**From code to model: the vision node.** A camera frame is one callback
(`on_image`). `Frame` updates the state machine and decides whether anything is
to be written; from there on a step reaches from the answer of one request to the
answer of the next: `ReadStatus`, `WriteCommand`, `WriteVision`. A
`ConveyorRegisterState` is its event and its colour, from which the four other
fields follow (`CommandOf`, `SpeedOf`, `DetectedOf`). A request can end in three
ways other than well, and the code treats them differently:
*refused* (`connect()` returns False, `WriteRefused`: the plan is dropped),
*rejected* (an error reply, `ReadFails`, `CommandRejected`, `VisionRejected`;
the constant `Rejections` says which requests the server may reject) and
*raising* (no answer). The last is not caught, because only `RuntimeError` is:
it leaves `on_image`, `rclpy.spin` and `main`, whose `finally` sends the shutdown
command (`Throw`, `BeginShutdown`). `Kill` ends the process without that. A
server restart between the two writes leaves the write connection `"broken"`.
pymodbus retries a request within its call; with one writer per register a
repeated write has no further effect, and the retries are not modelled.

**From code to model: the line.** `ConveyorLine` adds nothing but the
composition: each action is an action of one side with the variables of the other
unchanged, except `ServerStartsAgain`, which resets the registers of both. The
arbitrary clients of `ConveyorPi` (`ClientWrites`) are replaced by the node. The
constant `Faults` selects what may go wrong in an instance. The history
variable `late` counts the command writes that reach 40021 while `emergency_stopped`
is published (`CommandArrives`: also one whose answer is lost).

**From code to model: the harvest run.** `harvest_test.py` is one process per run. It
waits for its interfaces and for a first pose, without which it ends (`"wait"`,
`PoseReceived`, `NotReady`): no run plans a motion before it knows where the arm is.
`Program` is `run_sequence` with its calls in order; `phase` says which of them
waits and for what, and `JumpMoves` are the up to three motions of
`jump_move_to`. The process plans from `current_pose`, which it assigns itself
when a motion succeeds (`MotionSucceeds`) and which `_tcp_callback` assigns
whenever the process spins (`PoseMessage`), possibly to a pose on the way. The arm
is modelled by what the PTP action server does for the code: it executes one goal
at a time and rejects others, and a goal goes on when its process ends
(`ArmArrives`). A pose is a place, a height and an angle: the heights are the safe
height, that of a position, and any other; between two poses of one height the
arm keeps it. A message reports the pose of the arm or one of the latest motion.
Home lies at the safe height (`home` at z = 100 mm in the calibration file of the
repository) and the other positions below it. Every exception, Ctrl+C and kill
ends the process with the arm and the suction as they are (`Ends`).

**From code to model: the capture chain.** A step of the daemon reaches from one
blocking call to the next (`dpc`): the accepts, the wait for a control request,
the send to the camera, the wait for its packet. A connection exists in the kernel
before it is accepted and outlives the process that opened it, so `queue` may hold
requests whose client has timed out (`Gone`), and `backlog` connections the camera
has left (`"dead"`). What is sent into such a connection is lost without an
error: only the read that follows fails, and an answer to a client that has gone
is never an exception. `attempt` is the loop variable of the retry. An attempt
fails on a closed, broken or left connection (`LinkFails`) or when the picture
cannot be saved (`DiskFails`). A picture is the pose the arm had when it was
taken, `NoPicture` when the arm was not before the camera.

**From code to model: the dashboard.** The backend is one asyncio program; its
tasks are the poller and one handler per WebSocket, and a step of a task reaches
from one `await` to the next. `pc` is the call a task awaits, `connecting` says
that it awaits `connect()` first. The decision to connect is made on the flag
`is_connected` as it is when the call begins (`Goto`), and after a successful
`connect()` the request is sent whatever the flag has become since. A request over
a broken `link` raises; over a sound one it may be answered, rejected, or lose its
answer. `cursor` is the position of the `for` loop in the list it walks, so a
removal ahead of it skips a socket, and an arrival makes the loop longer.
A handler broadcasts its `control_result` itself, with a cursor of its own, and is
not back at its socket before (`SendStep`). A message that is no JSON object raises in
the handler; only `WebSocketDisconnect` is caught, so the task ends and its socket
stays listed (`HandlerRaises`, `Raised`, at most `MaxRaised`). `crop_counts` and the
content of `control_result` are not followed: pages show the first beside the status
and log the second. Nothing in the frontend sends `control_conveyor`;
`Press` stands for any client of the documented message. The vision node's writes
to 40021 do not matter to the backend and are left to `ConveyorLine`; `status`
changes freely (`ConveyorReports`). A page whose machine sleeps can hold up a
broadcast until the WebSocket library gives it up, which is not modelled: a send
ends.

**From code to model: the video receiver.** A sender is one run of
`raspi_capture_send.py`: it records first (`Records`), or ends without a recording or
a connection (`RunFails`), and sends a finished file. `handler` is what the thread of an
upload does next. A file (inode) is identified by the upload that made it;
`part` and `saved` say which file lies under `<path>.part` and `<path>`, `fd` which
one a thread writes, so a renaming takes a file away from under a thread that
still writes it, as the file system does. `open("wb")` empties the file that is
there. A chunk is on disk when it has been received; in the code the buffer is
flushed before the renaming at the latest, and nobody reads a `.part` file by its
name in `latest.json`. `write_text` empties `latest.json` and writes it when the
text is complete; over the text of another thread it leaves the tail of a longer
one (`"garbled"`). `DiskFails` stands for every other exception. The path is made
of the file name and the second of the arrival.

**From code to model: the viewers of the videos.** `VideoViewers` extends the
receiver. An HTTP request is resolved (`latest.json` or a file of the index),
stats its file, announces its length, and reads it: three steps between which
uploads go on. What was opened is followed by inode. The window's thread takes the
newest path from its queue. Ctrl+C ends the accepting thread and then
`server_close` waits for every upload thread; the sockets have no timeout, so a
sender that lost its power keeps the program from ending. The two kinds of viewer
do not touch the state of the other and are kept in separate behaviours.

**From code to model: the bench.** Five modules share no state; `Bench` declares
their variables together, instantiates them, and `desk` says of which one a
behaviour is. Each has a specification of its own. They are composed so that they
are checked in one run and proved over in one place.

* `DobotCalibration`. A session is `phase`: first pose, prompts, load the base,
  back up, open (which empties the file), write, summary. `Interrupted` may end it
  anywhere. Each program is started in a shell of its own (`Shells`): the variables
  `DOBOT_POSITIONS_JSON` and `DOBOT_POSITIONS_OUTPUT` that are set in it, none, one or
  both, and whether it is in the source tree. `CornersPath`, `NinePath` and
  `HarvestPath` say where the three look then; the last depends on which files exist.
  A variable has one value in all shells that set it, and one path stands for the
  current directory of every shell outside the tree. `InstallConfig` is a build, which
  copies the file of the source tree (`dobot/setup.py`). `MenuOf` is the sort of
  `build_harvest_targets`, stated by counting predecessors, the height in the file being
  its last key; the captured grid is what the operator measured, the other one is
  interpolated from two corners, with its heights by one of four modes.
* `RoiSelection`. A mouse callback (`click`, `undo`) may run in any `waitKey`, so
  also after the last point; what is done then is checked when the window's
  function returns. A file holds up to three polygons, each with the image it was
  clicked in; `used` is what the detector looked for cubes with, and `any_size` its
  option to accept a frame of another size.
* `GpioBench`. A line belongs to one program at a time; requesting it drives its
  pins to 0, at which ENABLE is active, before the program says otherwise.
  The motor's calls write ENABLE only; its step threads pulse STEP until they have seen
  the stop event, switch ENABLE off once at their end, whatever run it is by then, and
  end with the program, perhaps within a pulse. `loose` names the pins whose last holder
  left them so: killed, interrupted, wired otherwise, or ended within a pulse.
* `QualityCheck`. `asked` is the request number, `request` and `packet` what is on
  its way, `taken` what the camera holds. `ServerEnds` cuts the connection, and the
  camera learns of it at its next read or send. A picture is broken from the
  opening of its file to the writing of its last byte, and so is the marker (`torn`). The inference server
  serves a backlog in order and looks at one picture per step.
* `RegisterTools`. One request per step. A tool's request is accepted or refused;
  answers are looked at when all of a stage are in. `undisturbed` are the tools
  since whose start nobody else wrote and the server did not restart.

**From code to model: the broadcaster.** The node's thread and the loop's thread take
turns anywhere; `task` is the coroutine of each frame, `wire` the buffer of each
connection: a viewer that does not read fills it and blocks the task that sends to it.
Nothing bounds that wait: `send` has no timeout, and a viewer need never read again.

**Left out of the modules.** Logging, `action_log`, the dry-run modes, GPIO
set-up and its failures, the width of a debounce in seconds (only whether it has
passed), image processing, and `stop()` blocking the event loop for up to a
second, which delays the controller and is part of its step. pymodbus reconnecting
on its own within one poll interval is not modelled: a broken connection fails
the next request.

## 3. Runs

| Run | Checks | Bounds |
|---|---|---|
| `motor` | `TypeOK`, `StartedMeansStepping`, refinement of `MotorContract` (`ImplementsContract`); with fair threads `StopEndsLoops`, `LostEnableHeals` | three threads, a ramp of two speeds over four delays, speeds 0, in range and beyond |
| `pi` | `TypeOK`, `LatchedMeansOff`, `DriveFollowsCommand`, `OffWhileUnattended`, `StatusPublished`, `EmergencyEdgeLatches`; under fairness `CommandObeyed` | four commands and an invalid one, two speeds |
| `vision` | `RegistersTellRecord`, `MotionNeedsRecentCube`; under fairness `OnlyNonReadersHoldUp` | two colours, three stable frames, rejected reads and vision writes, shutdown by `emergency_stop`; two viewers, two frames for them |
| `line_safe` | `BeltAsConfigured`, `AtMostOneLateCommand` | buttons, server restarts, raising and rejected node requests; one stable frame |
| `line_live` | `EmptyBeltStops`, `CubeMovesBelt` | failing controller requests, crashes, quits, server restarts; two stable frames, shutdown by `reset` |
| `harvest` | `TravelsAtSafeHeight`, `PlacedAfterThreePictures`, `RunEnds`, `DaemonReturns`, `FailuresEnd` | one waiting request, two waiting camera connections |
| `dashboard` | `ListedWhileServed`; under fairness `PagesShowStatus`, `HandlersReturn` | one page, two sockets, the command start, one handler that raises |
| `video` | `AckedIsStored`, `LatestIsWhole`, `WatchedIsWhole`; under fairness `NobodyWaits` | two uploads of two chunks within two seconds |
| `bench` | `CalibrationSurvives`, `MenuTellsMeasured`, `SavedAsClicked`, `RoiInFrameSpace`, `PinsObeyHolder`, `PictureOfItsRequest`, `VerdictOfAllPictures`, `OkMeansWritten`, `HeartbeatVouches` | a grid of two by two and two sessions; two frame sizes; two cycles, two step threads; two pictures, one inference client; two tools, a heartbeat modulo 3, one restart |
| `dashboard_estop` | violates `EStopStopsConveyor` | one page, one socket |
| `operator_restart` | violates `RestartNeedsNewRun` | commands 0 and 1 |
| `line_empty_restart` | violates `EmptyBeltStops` | buttons, one stable frame |

**Bounds.** Three threads suffice for the motor because every conflict is between
the caller, the latest thread and one that has outlived its run; the third lets
two outlived ones meet. Ramps are a few units long instead of 800: what matters
is that a thread can be at the start, inside and at the end of one. The second
speed of `pi` is what distinguishes a change of speed from a change of command;
the invalid command is any value outside 0 to 4, and reset (3) is left out because
the code treats it as stop. In `vision` three stable frames
are the least with a beginning, a middle and an end of the count; the second
colour makes a change of colour a new state. The lines use one colour because the
controller never reads it, and split the fault kinds over the two runs: what is
safety-relevant beside what only delays. A shutdown by `reset` sends nothing
(`BeginShutdown`, third case), the hardest case for an empty belt that has to
stop. One waiting request is enough for an abandoned one to be
served before that of the next run, and two waiting camera connections for a dead
one to be accepted before the live one (`listen(1)` of Linux lets two wait); the
number of runs is not bounded. In `dashboard` a second socket lets a page come
back while its former handler is still listed, ahead of the new one; that is the
case in which a broadcast skips somebody. In `video` two uploads may meet on one
path or have one each, and two chunks give a beginning and an end; uploads end
and are not made again, so the system stops (`CHECK_DEADLOCK FALSE`). In `bench`
most programs end or reach a bound, and in `vision` the frames for the viewers run out, so there,
too, the system may stop. Two step threads let one be late under the run of the other. Two
sessions
are the least in which one tool changes what the other left, and two by two spots the
least grid in which rows and columns can be confused. One restart of the server is
enough to fall into every gap between two requests, and a modulus of 3 with four
ticks lets the heartbeat wrap around. Two pictures let a late one meet a newer
request; three paths of an inspection may name one of them twice. Two frames and two
viewers let one task wait for a viewer that another has found closed. The bounds are
constants (`MaxSessions`, `MaxCycles`, `MaxPictures`, `MaxBeats`, `MaxRestarts`,
`MaxFrames`, `MaxRaised`) in the guards; no counter is bounded by a constraint, and all state
spaces are finite.

**Fairness.** The operating system runs every runnable thread, and a motor call
that began goes on (`ConveyorMotor!Fairness`). The controller's task goes on
unless its process ends, and a driver lost under a run is reported, which is
`LostEnableHeals` of the motor (`ConveyorPi!Fairness`). The camera keeps
delivering frames, so that a node that is up keeps taking steps
(`ConveyorLine!LineFairness`). A harvest run goes on: its motion and suction
calls are answered and its capture call ends by an answer or by its timeout. The
camera client, run with `--reconnect`, goes on, and so does the daemon while it
is up (`HarvestLine!Fairness`). In the backend every request and
every connect ends, by its timeout at the latest, asyncio runs each task whose
await is over, and a page without WebSocket opens another five seconds later
(`Dashboard!Fairness`). A sender of a video goes on or, by its timeout, gives up,
unless its power fails, and threads run (`VideoReceiver!Fairness`); so do the
threads of the viewers. The event loop of the broadcaster runs
what is ready (`ResultBroadcaster!Fairness`); nothing is assumed of its viewers. On
the bench nothing is fair. Nobody is obliged to press a button, write a
register, restart a server or keep it from restarting, nor to start a process
again: the liveness properties ask only for what follows *once* the connection
holds and the command, or the scene, stays.

**What the liveness of the line needs.** `EmptyBeltStops` holds as long as no
emergency and no unreadable status comes between; with buttons it fails
(`line_empty_restart`). `CubeMovesBelt` has a long antecedent because the node
never repeats a command that was withheld or lost after it remembered the state:
a run withheld while `error` was published, or erased by a server restart, is not
sent again until the scene changes. The antecedent therefore asks that the node
has recorded the empty belt and that from then on both sides stay up and no error
is published.

**What the liveness of the capture chain needs.** A run ends in any case: the
client has a timeout. The daemon has none: `DaemonReturns` excepts a camera that
lost its power after it acknowledged a command (`PiPowerCut`), for whose packet
the daemon waits for ever, and `FailuresEnd` says that every other failure leaves
only finitely many connections behind that can spoil a request. Both suppose
that crashes, failing disks and power cuts end at some time (`Trouble`).

**What the liveness of the dashboard needs.** `PagesShowStatus` speaks of
surroundings that come to rest: no more failures, reloads, or changes of the status
(`Trouble`). A rejected or lost answer counts as trouble only where its effect
differs from that of a good one (`Unlucky`), because an action is recognised by
its effect; otherwise every poll would count. Start and stop messages may go on
for ever. `HandlersReturn` needs no rest at all.

**What the liveness of viewers needs.** `NobodyWaits`: a silent sender holds up no
other upload, no request of a browser and no picture of the window; the end of the
program is excepted, for which `server_close` waits. `OnlyNonReadersHoldUp`:
a payload leaves the loop unless it waits for ever for one viewer that does not read, or
the loop is stopped; a payload that does wait holds up no other.

**The violated runs** each check one statement of a document or a comment; the
`findings` of `PROJECT.json` quote it and say what the code does instead.

**Seen while modelling, with no run of its own.** A command decided on before an
emergency is published still reaches 40021 during it, one at most
(`AtMostOneLateCommand`), although `Conveyor_작업_메모.md:409` forbids any: the node
reads the status and writes over two connections (`topview_color_detector.py:623`).
With `DOBOT_POSITIONS_JSON` set, the first calibration tool
(`calibrate_positions.py:145`) writes where neither the second nor `harvest_test`
looks, so the menu may be of an older calibration than the last one, although
`harvest_test.py:123` speaks of the latest; `MenuTellsMeasured` promises the latest
only of the path the second tool would write. After `emergency_stop`, which
waits for nobody, a start can leave two step threads driving the same belt, and
the ramp then advances twice per pulse. A target slower than the current delay is
taken in one step. With a poll interval below the debounce time of the buttons an
emergency press right after a restart press is dropped (`FastPolling`; the
default interval is longer). The capture daemon serves a request whose client has timed out as any other: it
files a picture of whatever is before the camera by then under the abandoned
sequence and its angle. Two videos of one file name that arrive in one second share
a `.part` file: the first to be complete is renamed and acknowledged while the
other still writes into it, so `OK <saved_path>` may name a mixture
(`AckedIsStored` without `Alone`); `latest.json` written by two threads at a time
may be unreadable until the next upload.

**Hazards no property covers.** The list in `PROJECT.json` is about what the runs
check. Beside it stand the following, for which there is no promise of the code or
its documents to state.

* The emergency latch is memory of the process only
  (`conveyor_modbus_client_controller.py:60`): a restart forgets it.
* A press shorter than a request of the controller is never sampled
  (`conveyor_motor.py:233`).
* 40023 keeps the last state after the controller's process has ended
  (`conveyor_modbus_client_controller.py:309`); nothing in the registers tells.
* A command write that is answered by an error does not keep the vision registers
  from being written, and the state is not remembered (`conveyor_modbus.py:535`);
  `RegistersTellRecord` is about servers that do not reject commands.
* A restart of the server stops the conveyor under a node that remembers run as
  written (`modbus_server.py:28`); the cube has to change before it runs again.
* With `modbus_shutdown_command:=emergency_stop` the node leaves a command behind for
  which the controller publishes `emergency_stopped` without a latch
  (`topview_color_detector.py:639`); the next node then withholds its commands
  until somebody else writes one.
* A camera that loses its power after it acknowledged a command holds the daemon for
  ever (`vision_capture_daemon.py:120`), and a request whose client has gone is
  served as any other (`vision_capture_daemon.py:137`).
* An unreadable base calibration is found out after nine captures, which are lost
  (`DobotCalibration!LoadFails`).
* `--self-test` of the region tool writes its sample over the calibration in use
  (`select_conveyor_roi.py:651`).
* A client that connects to the inference server and sends nothing blocks it, and a
  missing picture is answered by a `KeyError` that hides the message
  (`infer_server.py`).
* The index of the video pages lists `.part` files, whose content is that of an
  upload under way; `WatchedIsWhole` is about whole files.

## 4. Proofs

All theorems hold for every value of the constants that satisfies the named
assumptions (`ProfileAssumption`, `RegisterAssumption`, `VisionAssumption`,
`LineAssumption`, `ReceiverAssumption`, `DashboardAssumption`, `BenchAssumption`), which TLC evaluates in the runs.

* **Motor.** `ConveyorMotor_proofs` proves, for any set of threads and any
  profile, type correctness, `StartedMeansStepping`, `LostEnableIsReported`, and
  the refinement of `MotorContract`. The inductive invariant `IInv` relates what
  the latest thread does to the stop event and to `running`.
* **Controller.** `ConveyorPi_proofs` has one invariant of ten parts, each needed
  by another: `HaltedIsOff` (a motor not running has its driver off or is about to
  lose it), `LatchedStopped` and `UnattendedStopped` (a latched, or an
  unconnected, controller has stopped its motor), `RunFollowsCommand` (a running
  motor runs the last command read), `SessionInUse` (a request is in flight only on
  a client), `CacheTrue` and `NothingPending` (over a sound session the registers
  hold what the cache says, and between cycles the cache is the state),
  `LatchedNeverInvitesRun` (inductive together with the cache) and `DebounceOver`
  (after a sleep no debounce is pending). From it follow the run's safety
  properties. `PressSeenLatches` assumes `~FastPolling`.
* **Line.** Every step of `LineNext` is a step of `ConveyorPi` or leaves its
  variables unchanged, `LineImplementsPi`; what is proved of the controller then
  holds of the line. The invariant `LineInv` says that the node desires only what
  it is configured for, so a run command in 40021 stands there with its speed, and
  is read with it; with `DriveFollowsCommand` that is `BeltAsConfigured`.
  Between the two reads of nobody can a pair be torn, because the node writes both
  registers in one request. `LateInv`: an emergency finds the node between its look at
  the status and its write at most once, it has written then or still may, and while it
  lasts no look leads to a command (`CommandDecided`); hence
  `EmergencyAdmitsOneCommand`, in any configuration.
* **Vision.** `RecordIsTrue` assumes that command writes are not rejected:
  `CommandRejected` writes the vision registers and does not remember it.
  `MotionFollowsCubes` rests on `WindowInv`: the streak is the number of empty
  frames since the last cube, an inactive object has had `StableFrames` of them or
  was never there, the desired state tells which, and shutdown is the last thing a
  life does.
* **Harvest.** `HarvestLine_proofs` proves `TravelsAtSafeHeight` and
  `PlacedAfterThreePictures` from one invariant, `HarvestInv /\ ChainInv`. `Placed`
  says where the arm is at each step of `Program` (`Station`), `Truthful` that where
  a pose of the latest motion, or `current_pose` between two motions, tells of a safe height
  the arm is at one, and else over the place it tells of, and `Planned` that each motion left begins where the one before it ends, the first of
  them going straight up wherever the arm is. For the pictures the daemon and the
  connections matter: `Chained` (nothing is left on the channel unless the daemon
  waits for it), `OneLive` (of all connections queued at the daemon at most one is of
  a living camera, so a picture cannot come from another one) and `Asked` (a request
  that is wanted has a run that waits for it, with the arm where it was asked).
* **Videos.** `IInv` says which files lie under a path and who writes them
  (`PartsTell`, `SavedTell`, `WritersTell`: only uploads of that path), from which
  `OwnFile` follows: an upload alone on its path shares no file. `Receiving` then
  keeps the received chunks in place, and `Keeping` the saved file, through
  `Ends`: what is acknowledged or marked is no longer received. `ViewersLookOn`
  (every step of a viewer, of the window and of the end leaves the receiver as it is)
  carries this over to `VideoViewers`, where `ViewInv` adds what the queue, the window
  and a request under way know of an upload; each is kept because a saved file of an
  upload alone on its path is never written again (`StoreLasts`).

* **Dashboard.** `Listed`: the list is the sockets served and those a handler that raised
  has left there, each once. The invariant
  adds only types; the work is in two lemmas about sequences without repetitions,
  `AppendNew` and `RemoveListed` (`list.remove` takes the first occurrence, here the
  only one), and in `ReturnsWork`: a task at work stays at work whatever its call
  returns, so nothing but `Open`, `Disconnect` and a restart touches the list.
* **Single pictures** (this and the next four in `Bench_proofs`). `PictureInv`: a request under way on a connection that is up is
  the last one (`OneRequest`, because the server does not ask again before it has an
  answer, and everything else died with its connection), and a picture is finished
  before the marker names it (`FinishedFirst`). `InspectionInv` builds on it: a
  picture reported as stored only changes by being deleted (`Aged`), the server knows
  of the pictures it has passed what `hasError` says (`Found`), and so the verdict is
  about all of them (`Judged`).
* **Calibration.** `CalibrationInv` follows a session of the second tool over a whole
  file: until the file is opened it is what it was, when it is opened a copy exists
  unless `--no-backup`, and the base it is written from has the other positions.
  `MenuTellsMeasured` has two halves. `MenuInv` follows a file from the captures to the
  menu, through whatever shells: every whole file has the positions of the captures it
  keeps, and what is offered is the file at `NinePath` where that is the newest. That the menu lists every position once, in the order of the captures, is about
  a sort that is stated by counting predecessors: `Precedes` is a strict linear order on
  the entries (`MenuOrder`), so the counts are different (`MenuPlaces`) and, being as many
  as there are places, use them all (`MenuListsAll`).
* **Pins.** `PinInv`: exactly the program at a place that needs a line holds it
  (`HoldersKnown`); step threads live only while their controller has its lines, and
  STEP is high under it only where one of them is within a pulse (`ThreadsKnown`).
* **Region.** `SelectionInv`: whatever the mouse callbacks did while a window stayed, the
  points that pass `Accepted` are four different ones, and `OrderIsOfClicked` says that
  either order only permutes them (for `auto` because four results that are different
  and all clicked are all that was clicked). `DetectorInv`: every file says of each of its
  polygons in which image it was clicked, also one that broke off or was read before.
* **Registers.** `BeatInv`: what the node has written of its list is in the registers
  unless the server restarted since it began, because the five registers are different
  (`BeatsApart`) and the heartbeat is the last. `CommandInv`: of an undisturbed tool all
  it has made so far holds; a later request of a list never touches the registers of
  an earlier one (`RequestsApart`), and a write of another tool takes the first off
  `undisturbed` (`OthersKeep`).

Every invariant and every action property the runs check is a theorem. Only
model-checked are the liveness properties (`StopEndsLoops`, `LostEnableHeals`,
`CommandObeyed`, `EmptyBeltStops`, `CubeMovesBelt`, `RunEnds`, `DaemonReturns`,
`FailuresEnd`, `PagesShowStatus`, `HandlersReturn`, `NobodyWaits`, `OnlyNonReadersHoldUp`), which
rest on fairness and so on `ENABLED`, beyond the proof system. `MotionProfile`'s ramps
beyond the target's range have no theorem either. `Bench` assumes four corners, as
the code does: `FourDifferent` and `LeastOfFour` name them one by one, since an induction
over their number is out of reach.

## 5. Not modelled

* **Personal workspaces** (`src/workspaces/`): the same programs at earlier states.
  **Reference scripts** (`conveyor/ref/`): course samples.
* Pixels and drawing (colour thresholds, contours, the warp to the top view), the YOLO
  model (its outcome is a choice), the layout of pages and windows.
* Dry-run modes, argument parsing, logging, and the classes they use in place of the
  hardware (`DryRunModbusClient`).
* Malformed headers and messages of the TCP services, other than a WebSocket message
  that makes its handler raise; the modules' senders are those of the repository.
* The options `--output` and `--positions` of the calibration programs, which name a
  path of their own.
* Registers no program of the repository reads or writes yet: the Dobot block, the
  farm statistics.
* The modes of `harvest_test.py` without a camera, and `--skip-suction`.

What could be added: `ConveyorPi` over `ConveyorMotor` itself, which the refinement
`MotorRefinesContract` prepares.
