--------------------------- MODULE VisionAlone_proofs --------------------------
(***************************************************************************)
(* What holds of the vision node for every number of frames, every scene   *)
(* and every status the controller may report.                             *)
(***************************************************************************)
EXTENDS VisionAlone, TLAPS

-----------------------------------------------------------------------------
(* What the node remembers as written *)

(* No frame is handled after the shutdown has begun. *)
ShutdownIsLast == vpc = "idle" => purpose # "shutdown"

Recorded ==
    /\ last_vision_event = last_modbus_state.event
    /\ cube_color = last_modbus_state.color
    /\ cube_detected = DetectedOf(last_modbus_state.event)

(* A life of the node writes its registers and its record together, until  *)
(* an answer is lost; then it shuts down.                                  *)
RecordInv ==
    /\ ShutdownIsLast
    /\ write_ok
    /\ vpc # "down" /\ purpose # "shutdown" /\ last_modbus_state # NoState => Recorded

LEMMA RecordStep ==
    ASSUME "command" \notin Rejections, RecordInv, [Next]_vars
    PROVE  RecordInv'
<1> USE DEF RecordInv, ShutdownIsLast, Recorded
<1>1. CASE Frame
    BY <1>1 DEF Frame, visionRegisters
<1>2. CASE NodeStart
    BY <1>2 DEF NodeStart
<1>3. CASE ReadStatus \/ ReadFails \/ WriteCommand
    BY <1>3 DEF ReadStatus, ReadFails, WriteCommand, visionRegisters
<1>4. CASE CommandRejected
    BY <1>4 DEF CommandRejected
<1>5. CASE WriteVision
    BY <1>5 DEF WriteVision, PutVision, Return
<1>6. CASE VisionRejected \/ WriteRefused
    BY <1>6 DEF VisionRejected, WriteRefused, Return, visionRegisters
<1>7. CASE RequestRaises \/ CommandReplyLost \/ VisionReplyLost
    BY <1>7 DEF RequestRaises, CommandReplyLost, VisionReplyLost, Throw, BeginShutdown
<1>8. CASE Quit \/ Kill
    BY <1>8 DEF Quit, BeginShutdown, Kill
<1>9. CASE RoiChanges /\ UNCHANGED nodeState
    BY <1>9 DEF nodeState, nodeVars, visionRegisters
<1>10. CASE PiReports \/ UNCHANGED vars
    BY <1>10 DEF PiReports, vars, nodeState, nodeVars, visionRegisters
<1> QED BY <1>1, <1>2, <1>3, <1>4, <1>5, <1>6, <1>7, <1>8, <1>9, <1>10
        DEF Next, FrameShown, Started, OtherSteps, NodeRequests

(* Unless a command write is rejected, the vision registers are what the   *)
(* node remembers, in every life of it.                                    *)
THEOREM RecordIsTrue ==
    ASSUME "command" \notin Rejections
    PROVE  Spec => []RegistersTellRecord
<1>1. Init => RecordInv
    BY DEF Init, VisionInit, RecordInv, ShutdownIsLast
<1>2. RecordInv /\ [Next]_vars => RecordInv'
    BY RecordStep
<1>3. RecordInv => RegistersTellRecord
    BY DEF RecordInv, ShutdownIsLast, Recorded, RegistersTellRecord
<1> QED BY <1>1, <1>2, <1>3, PTL DEF Spec

-----------------------------------------------------------------------------
(* The frames seen last and the state machine *)

FrameColors == Colors \cup {COLOR_NONE}

(* While an object is active, the last frame that showed it is            *)
(* no_detection_streak frames old; otherwise no frame in sight showed one. *)
StreakAge ==
    object_active =>
        /\ no_detection_streak < Len(recent_frames)
        /\ recent_frames[Len(recent_frames) - no_detection_streak] # COLOR_NONE
        /\ \A k \in 0 .. no_detection_streak - 1 :
              recent_frames[Len(recent_frames) - k] = COLOR_NONE
NothingSeen ==
    ~object_active => \A i \in 1 .. Len(recent_frames) : recent_frames[i] = COLOR_NONE

(* The run command is desired exactly while an object is active. *)
DesiredTellsObject ==
    purpose = "frame" => (CommandOf(desired.event) = RunCommand <=> object_active)

WindowInv ==
    /\ roi \in FrameColors
    /\ no_detection_streak \in 0 .. StableFrames - 1
    /\ object_active \in BOOLEAN
    /\ recent_frames \in Seq(FrameColors)
    /\ Len(recent_frames) <= StableFrames
    /\ ShutdownIsLast
    /\ DesiredTellsObject
    /\ purpose # "shutdown" => StreakAge /\ NothingSeen

(* One more frame in the window: the others move back by one. *)
MovedBy(s, c, t, n) ==
    /\ Len(t) <= n
    /\ Len(t) > 0
    /\ t[Len(t)] = c
    /\ \/ Len(t) = Len(s) + 1
       \/ Len(s) = n /\ Len(t) = n
    /\ \A k \in 1 .. Len(t) - 1 : t[Len(t) - k] = s[Len(s) - (k - 1)]

LEMMA WindowMoves ==
    ASSUME NEW n \in Nat \ {0}, NEW S, NEW s \in Seq(S), Len(s) <= n, NEW c \in S,
           NEW t, t = LastOf(Append(s, c), n)
    PROVE  t \in Seq(S) /\ MovedBy(s, c, t, n)
<1> USE DEF MovedBy
<1>1. CASE Len(s) + 1 <= n
  <2>1. t = Append(s, c)
      BY <1>1 DEF LastOf
  <2> QED BY <1>1, <2>1
<1>2. CASE Len(s) = n
  <2>1. t = Tail(Append(s, c))
      BY <1>2 DEF LastOf
  <2>2. t \in Seq(S) /\ Len(t) = n /\ \A i \in 1 .. n : t[i] = Append(s, c)[i + 1]
      BY <1>2, <2>1
  <2> QED BY <1>2, <2>2
<1> QED BY <1>1, <1>2

(* The commands of the states that update() returns. *)
LEMMA CommandsOfEvents ==
    /\ CommandOf(EVENT_CUBE_DETECTED) = RunCommand
    /\ CommandOf(EVENT_CUBE_LOST) = RunCommand
    /\ CommandOf(EVENT_DELIVERED) = COMMAND_STOP
    /\ CommandOf(EVENT_NONE) = COMMAND_STOP
BY DEF CommandOf, EVENT_CUBE_DETECTED, EVENT_CUBE_LOST, EVENT_DELIVERED, EVENT_NONE,
       EVENT_EMERGENCY_STOP

LEMMA FrameStep ==
    ASSUME RunCommand \in RunCommands, WindowInv, FrameShown, UNCHANGED roi
    PROVE  WindowInv'
<1> DEFINE w == recent_frames
<1> USE VisionAssumption
<1>1. w' \in Seq(FrameColors) /\ MovedBy(w, roi, w', StableFrames)
  <2>1. /\ StableFrames \in Nat \ {0}
        /\ w \in Seq(FrameColors) /\ Len(w) <= StableFrames
        /\ roi \in FrameColors
        /\ w' = LastOf(Append(w, roi), StableFrames)
      BY DEF WindowInv, FrameShown
  <2>2. QED
      BY <2>1, WindowMoves
<1>2. /\ vpc = "idle" /\ purpose # "shutdown" /\ purpose' = "frame"
      /\ object_active \in BOOLEAN
      /\ StreakAge /\ NothingSeen
      /\ w \in Seq(FrameColors) /\ Len(w) <= StableFrames
      /\ no_detection_streak \in 0 .. StableFrames - 1
    BY DEF FrameShown, Frame, WindowInv, ShutdownIsLast
<1> USE DEF MovedBy
<1>3. RunCommand # COMMAND_STOP
    BY DEF RunCommands, COMMAND_STOP, COMMAND_RUN_CLOCKWISE, COMMAND_RUN_COUNTER_CLOCKWISE
<1>4. SUFFICES /\ no_detection_streak' \in 0 .. StableFrames - 1
               /\ object_active' \in BOOLEAN
               /\ CommandOf(desired.event)' = RunCommand <=> object_active'
               /\ StreakAge' /\ NothingSeen'
    BY <1>1, <1>2 DEF WindowInv, ShutdownIsLast, DesiredTellsObject
<1>5. CASE Detect(roi)
  <2>1. CommandOf(desired.event)' = RunCommand
    <3>1. desired'.event = EVENT_CUBE_DETECTED
        BY <1>5 DEF Detect, VisionStateOf
    <3> QED BY <3>1, CommandsOfEvents
  <2> QED BY <1>1, <1>5, <2>1 DEF Detect, StreakAge, NothingSeen
<1>6. CASE Lose(roi)
  <2>1. CommandOf(desired.event)' = RunCommand
    <3>1. desired'.event = EVENT_CUBE_LOST
        BY <1>6 DEF Lose, VisionStateOf
    <3> QED BY <3>1, CommandsOfEvents
  <2>2. /\ object_active /\ object_active' /\ roi = COLOR_NONE
        /\ no_detection_streak' = no_detection_streak + 1
        /\ no_detection_streak + 1 < StableFrames
      BY <1>6 DEF Lose
  <2>3. no_detection_streak < Len(w) /\ w[Len(w) - no_detection_streak] # COLOR_NONE
      BY <1>2, <2>2 DEF StreakAge
  <2>4. no_detection_streak' < Len(w')
      BY <1>1, <1>2, <2>2, <2>3
  <2>5. w'[Len(w') - no_detection_streak'] # COLOR_NONE
      BY <1>1, <1>2, <2>2, <2>3, <2>4
  <2>6. ASSUME NEW k \in 0 .. no_detection_streak' - 1
        PROVE  w'[Len(w') - k] = COLOR_NONE
    <3>1. CASE k = 0
        BY <1>1, <2>2, <3>1
    <3>2. CASE k \in 1 .. no_detection_streak
      <4>1. k \in 1 .. Len(w') - 1
          BY <1>1, <1>2, <2>2, <2>4, <3>2
      <4>2. w[Len(w) - (k - 1)] = COLOR_NONE
        <5>1. k - 1 \in 0 .. no_detection_streak - 1
            BY <1>2, <3>2
        <5> QED BY <1>2, <2>2, <5>1 DEF StreakAge
      <4> QED BY <1>1, <4>1, <4>2
    <3> QED BY <1>2, <2>2, <3>1, <3>2
  <2> QED BY <1>2, <2>1, <2>2, <2>4, <2>5, <2>6 DEF StreakAge, NothingSeen
<1>7. CASE Deliver(roi)
  <2>1. CommandOf(desired.event)' # RunCommand
    <3>1. desired'.event = EVENT_DELIVERED
        BY <1>7 DEF Deliver, VisionStateOf
    <3> QED BY <1>3, <3>1, CommandsOfEvents
  <2>2. /\ object_active /\ object_active' = FALSE /\ roi = COLOR_NONE
        /\ no_detection_streak' = 0
        /\ no_detection_streak = StableFrames - 1
      BY <1>2, <1>7 DEF Deliver
  <2>3. Len(w) = StableFrames /\ Len(w') = StableFrames
      BY <1>1, <1>2, <2>2 DEF StreakAge
  <2>4. ASSUME NEW i \in 1 .. Len(w')
        PROVE  w'[i] = COLOR_NONE
    <3>1. CASE i = Len(w')
        BY <1>1, <2>2, <3>1
    <3>2. CASE i < Len(w')
      <4> DEFINE k == Len(w') - i
      <4>1. k \in 1 .. Len(w') - 1 /\ k - 1 \in 0 .. no_detection_streak - 1
          BY <2>2, <2>3, <3>2
      <4>2. w[Len(w) - (k - 1)] = COLOR_NONE
          BY <1>2, <2>2, <4>1 DEF StreakAge
      <4>3. w'[Len(w') - k] = COLOR_NONE
          BY <1>1, <4>1, <4>2
      <4> QED BY <2>3, <4>3
    <3> QED BY <2>3, <3>1, <3>2
  <2>5. StreakAge'
      BY <2>2 DEF StreakAge
  <2>6. NothingSeen'
      BY <2>4 DEF NothingSeen
  <2>7. no_detection_streak' \in 0 .. StableFrames - 1
      BY <2>2
  <2> QED BY <2>1, <2>2, <2>5, <2>6, <2>7
<1>8. CASE SeeNothing(roi)
  <2>1. CommandOf(desired.event)' # RunCommand
    <3>1. desired'.event = EVENT_NONE
        BY <1>8 DEF SeeNothing, idle_state, VisionStateOf
    <3> QED BY <1>3, <3>1, CommandsOfEvents
  <2>2. /\ ~object_active /\ object_active' = object_active /\ roi = COLOR_NONE
        /\ no_detection_streak' = no_detection_streak
      BY <1>8 DEF SeeNothing, machineVars
  <2>3. ASSUME NEW i \in 1 .. Len(w')
        PROVE  w'[i] = COLOR_NONE
    <3>1. CASE i = Len(w')
        BY <1>1, <2>2, <3>1
    <3>2. CASE i < Len(w')
      <4> DEFINE k == Len(w') - i
      <4>1. k \in 1 .. Len(w') - 1 /\ Len(w) - (k - 1) \in 1 .. Len(w)
          BY <1>1, <1>2, <3>2
      <4>2. w'[Len(w') - k] = COLOR_NONE
          BY <1>1, <1>2, <2>2, <4>1 DEF NothingSeen
      <4> QED BY <1>1, <4>2
    <3> QED BY <1>1, <3>1, <3>2
  <2>4. StreakAge'
      BY <2>2 DEF StreakAge
  <2>5. NothingSeen'
      BY <2>3 DEF NothingSeen
  <2> QED BY <1>2, <2>1, <2>2, <2>4, <2>5
<1> QED BY <1>5, <1>6, <1>7, <1>8 DEF FrameShown, Frame, Update

(* A node that has seen no frame yet. *)
LEMMA FreshWindow ==
    ASSUME roi' \in FrameColors, vpc' # "idle", purpose' # "frame", object_active' = FALSE,
           no_detection_streak' = 0, recent_frames' = << >>
    PROVE  WindowInv'
<1>1. no_detection_streak' \in 0 .. StableFrames - 1
    BY VisionAssumption
<1>2. recent_frames' \in Seq(FrameColors) /\ Len(recent_frames') = 0
    OBVIOUS
<1>3. Len(recent_frames') <= StableFrames
    BY <1>2, VisionAssumption
<1>4. StreakAge' /\ NothingSeen'
    BY <1>2 DEF StreakAge, NothingSeen
<1> QED BY <1>1, <1>2, <1>3, <1>4 DEF WindowInv, ShutdownIsLast, DesiredTellsObject

(* What the steps between two frames leave as it is. *)
LEMMA OtherStep ==
    ASSUME WindowInv, OtherSteps, UNCHANGED roi
    PROVE  WindowInv'
<1> USE DEF WindowInv, ShutdownIsLast, DesiredTellsObject, StreakAge, NothingSeen, OtherSteps
<1>1. CASE ReadStatus \/ ReadFails \/ WriteCommand \/ CommandRejected
    BY <1>1 DEF ReadStatus, ReadFails, WriteCommand, CommandRejected, machineVars
<1>2. CASE WriteVision \/ VisionRejected \/ WriteRefused
    BY <1>2 DEF WriteVision, VisionRejected, WriteRefused, Return, machineVars
<1>3. CASE BeginShutdown
  <2>1. 0 \in 0 .. StableFrames - 1
      BY VisionAssumption
  <2>2. /\ vpc' # "idle"
        /\ purpose' = "shutdown" \/ UNCHANGED <<purpose, machineVars, desired>>
        /\ UNCHANGED machineVars \/ (object_active' = FALSE /\ no_detection_streak' = 0)
      BY <1>3 DEF BeginShutdown
  <2>3. object_active' \in BOOLEAN /\ no_detection_streak' \in 0 .. StableFrames - 1
      BY <2>1, <2>2 DEF machineVars
  <2>4. CASE purpose' = "shutdown"
      BY <2>2, <2>3, <2>4
  <2>5. CASE UNCHANGED <<purpose, machineVars, desired>>
      BY <2>2, <2>5 DEF machineVars
  <2> QED BY <2>2, <2>4, <2>5
<1>4. CASE RequestRaises \/ CommandReplyLost \/ VisionReplyLost
  <2>1. CASE BeginShutdown
      BY <1>3, <2>1
  <2>2. CASE ~BeginShutdown
      BY <1>4, <2>2 DEF RequestRaises, CommandReplyLost, VisionReplyLost, Throw, machineVars
  <2> QED BY <2>1, <2>2
<1>5. CASE Quit
    BY <1>3, <1>5 DEF Quit
<1>6. CASE Kill
    BY <1>6 DEF Kill, machineVars
<1> QED BY <1>1, <1>2, <1>4, <1>5, <1>6 DEF NodeRequests

LEMMA WindowStep ==
    ASSUME RunCommand \in RunCommands, WindowInv, [Next]_vars
    PROVE  WindowInv'
<1>1. CASE FrameShown /\ UNCHANGED roi
    BY <1>1, FrameStep
<1>2. CASE OtherSteps /\ UNCHANGED roi
    BY <1>2, OtherStep
<1>3. CASE Started /\ UNCHANGED roi
  <2>1. /\ roi' = roi /\ vpc' = "read" /\ purpose' = "init" /\ object_active' = FALSE
        /\ no_detection_streak' = 0 /\ recent_frames' = << >>
      BY <1>3 DEF Started, NodeStart
  <2> QED BY <2>1, FreshWindow DEF WindowInv
<1>4. CASE UNCHANGED <<nodeState, recent_frames>> /\ roi' \in FrameColors
    BY <1>4 DEF WindowInv, ShutdownIsLast, DesiredTellsObject, StreakAge, NothingSeen,
                nodeState, nodeVars, machineVars
<1>5. CASE RoiChanges /\ UNCHANGED <<nodeState, recent_frames>>
    BY <1>4, <1>5 DEF RoiChanges, FrameColors
<1>6. CASE PiReports \/ UNCHANGED vars
    BY <1>4, <1>6 DEF PiReports, vars, WindowInv
<1> QED BY <1>1, <1>2, <1>3, <1>5, <1>6 DEF Next

(* With a run command configured, whatever fails and however often the     *)
(* node starts again: a frame changes 40021 to the run command only if one *)
(* of the last StableFrames frames showed a cube, to a stop only if none   *)
(* did.                                                                    *)
THEOREM MotionFollowsCubes ==
    ASSUME RunCommand \in RunCommands
    PROVE  Spec => MotionNeedsRecentCube
<1>1. Init => WindowInv
  <2> SUFFICES ASSUME Init PROVE WindowInv
      OBVIOUS
  <2>1. /\ roi = COLOR_NONE /\ vpc = "down" /\ purpose = "init" /\ object_active = FALSE
        /\ no_detection_streak = 0 /\ recent_frames = << >>
      BY DEF Init, VisionInit
  <2>2. no_detection_streak \in 0 .. StableFrames - 1
      BY <2>1, VisionAssumption
  <2>3. recent_frames \in Seq(FrameColors) /\ Len(recent_frames) = 0
      BY <2>1
  <2>4. Len(recent_frames) <= StableFrames
      BY <2>3, VisionAssumption
  <2>5. StreakAge /\ NothingSeen
      BY <2>1, <2>3 DEF StreakAge, NothingSeen
  <2> QED BY <2>1, <2>2, <2>3, <2>4, <2>5
          DEF WindowInv, FrameColors, ShutdownIsLast, DesiredTellsObject
<1>2. WindowInv /\ [Next]_vars => WindowInv'
    BY WindowStep
<1>3. WindowInv /\ [Next]_vars
        => [command' # command /\ vpc = "command" /\ purpose = "frame"
              => (command' = RunCommand
                    <=> \E i \in DOMAIN recent_frames : recent_frames[i] # COLOR_NONE)]_vars
  <2> SUFFICES ASSUME WindowInv, [Next]_vars, command' # command, vpc = "command", purpose = "frame"
               PROVE  command' = RunCommand
                        <=> \E i \in DOMAIN recent_frames : recent_frames[i] # COLOR_NONE
      OBVIOUS
  <2>1. PutCommand
    <3>1. CASE FrameShown \/ Started \/ PiReports \/ UNCHANGED nodeState \/ UNCHANGED vars
        BY <3>1 DEF FrameShown, Frame, Started, NodeStart, PiReports, vars, nodeState, commandVars
    <3>2. CASE OtherSteps
        BY <3>2 DEF OtherSteps, NodeRequests, ReadStatus, ReadFails, WriteCommand, CommandRejected,
                    WriteVision, VisionRejected, WriteRefused, RequestRaises, CommandReplyLost,
                    VisionReplyLost, Quit, Kill, commandVars
    <3> QED BY <3>1, <3>2 DEF Next
  <2>2. command' = RunCommand <=> object_active
      BY <2>1 DEF PutCommand, WindowInv, DesiredTellsObject
  <2>3. /\ recent_frames \in Seq(FrameColors)
        /\ no_detection_streak \in 0 .. StableFrames - 1
        /\ StreakAge /\ NothingSeen
      BY DEF WindowInv
  <2>4. DOMAIN recent_frames = 1 .. Len(recent_frames)
      BY <2>3
  <2>5. ASSUME object_active
        PROVE  \E i \in 1 .. Len(recent_frames) : recent_frames[i] # COLOR_NONE
    <3>1. Len(recent_frames) - no_detection_streak \in 1 .. Len(recent_frames)
        BY <2>3, <2>5, VisionAssumption DEF StreakAge
    <3> QED BY <2>3, <2>5, <3>1 DEF StreakAge
  <2>6. ASSUME ~object_active
        PROVE  ~ \E i \in 1 .. Len(recent_frames) : recent_frames[i] # COLOR_NONE
      BY <2>3, <2>6 DEF NothingSeen
  <2> QED BY <2>2, <2>4, <2>5, <2>6
<1> QED BY <1>1, <1>2, <1>3, PTL DEF Spec, MotionNeedsRecentCube

=============================================================================
