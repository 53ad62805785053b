----------------------------- MODULE VisionAlone ------------------------------
(***************************************************************************)
(* The vision node by itself: the controller may report any status at any  *)
(* time.  A history variable keeps the frames the state machine was given  *)
(* last.                                                                   *)
(***************************************************************************)
EXTENDS ConveyorVision, SequencesExt

VARIABLE recent_frames  \* the colours of up to StableFrames frames, oldest first

nodeState == <<nodeVars, visionRegisters, commandVars>>
vars == <<nodeState, roi, statusVars, recent_frames>>

TypeOK ==
    /\ RegistersTypeOK
    /\ VisionTypeOK
    /\ recent_frames \in BoundedSeq(Colors \cup {COLOR_NONE}, StableFrames)

LastOf(s, n) == IF Len(s) > n THEN Tail(s) ELSE s

FrameShown ==
    /\ Frame
    /\ recent_frames' = LastOf(Append(recent_frames, roi), StableFrames)

Started ==
    /\ NodeStart
    /\ recent_frames' = << >>

OtherSteps ==
    /\ NodeRequests \/ Quit \/ Kill
    /\ UNCHANGED recent_frames

(* The conveyor controller reports any state. *)
PiReports ==
    /\ status' \in Statuses
    /\ UNCHANGED <<nodeState, roi, error_code, recent_frames>>

Init == RegistersInit /\ VisionInit /\ recent_frames = << >>

Next ==
    \/ (FrameShown \/ Started \/ OtherSteps) /\ UNCHANGED <<roi, statusVars>>
    \/ RoiChanges /\ UNCHANGED <<nodeState, statusVars, recent_frames>>
    \/ PiReports

Spec == Init /\ [][Next]_vars

-----------------------------------------------------------------------------
(* Properties *)

(* Between two callbacks 40025 to 40027 hold the state the node remembers  *)
(* as written, whatever requests fail, and however often the node starts   *)
(* again, unless a command write is answered with an error.                *)
RegistersTellRecord ==
    vpc = "idle" /\ last_modbus_state # NoState =>
        /\ last_vision_event = last_modbus_state.event
        /\ cube_color = last_modbus_state.color
        /\ cube_detected = DetectedOf(last_modbus_state.event)

(* A frame changes 40021 to the run command only if one of the last        *)
(* StableFrames frames showed a cube, and to a stop only if none did.      *)
MotionNeedsRecentCube ==
    [][command' # command /\ vpc = "command" /\ purpose = "frame"
          => (command' = RunCommand
                <=> \E i \in DOMAIN recent_frames : recent_frames[i] # COLOR_NONE)]_vars

=============================================================================
