------------------------------ MODULE HarvestCell -----------------------------
(***************************************************************************)
(* The vocabulary of the harvest cell: where the Dobot arm can be, and     *)
(* what a picture shows.                                                   *)
(***************************************************************************)
EXTENDS Integers, SequencesExt

CAMERA_CAPTURE_ANGLES_DEG == <<0, 120, -120>>
Angles == {0, 120, -120}
Turning == 1            \* any other angle

(* The calibrated positions, and anywhere else. *)
Places == {"harvest", "camera", "conveyor", "defect", "home"}
Elsewhere == "elsewhere"

(* Safe height, the height of a calibrated position, and any other. *)
Heights == {"safe", "work", "between"}

(* Pose4, with x and y in one *)
Pose == [at : Places \cup {Elsewhere}, z : Heights, r : Angles \cup {Turning}]
PoseOf(p, h, a) == [at |-> p, z |-> h, r |-> a]

(* positions.home lies at the default safe height, the others below it. *)
HeightOf(p) == IF p = "home" THEN "safe" ELSE "work"
PoseAt(p) == PoseOf(p, HeightOf(p), 0)
CameraPose(a) == PoseOf("camera", HeightOf("camera"), a)

(* A picture shows the pose of an arm that is before the camera. *)
NoPicture == PoseOf(Elsewhere, "between", Turning)
PictureOf(arm) == IF arm.at = "camera" THEN arm ELSE NoPicture

=============================================================================
