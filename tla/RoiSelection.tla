----------------------------- MODULE RoiSelection -----------------------------
(***************************************************************************)
(* The tools that select the region of the conveyor in a camera frame      *)
(* (scripts/select_conveyor_roi.py: a quad for the top view, then the      *)
(* region in the top view; scripts/select_conveyor_raw_roi.py: the region  *)
(* in the frame itself), and the detector node that reads their file.      *)
(*                                                                         *)
(* An operator freezes a frame and clicks Corners points in each window.   *)
(* The mouse callbacks run inside waitKey, also in the 300 ms for which a  *)
(* finished window stays.  One selection is made over a file that earlier  *)
(* ones may have left; the detector is started over the file it finds.     *)
(***************************************************************************)
EXTENDS Integers, Sequences, FiniteSets

CONSTANTS
    Pixels,         \* what can be clicked, as [x, y]
    Corners,        \* points of a polygon: max_points of ClickState, 4 in the code
    Sizes,          \* frame sizes of the camera's profiles
    NoFrame

VARIABLES
    config,             \* the JSON file
    selector, step, window,     \* the tool at work, its step, and the window it collects in
    order,              \* --point-order
    frame,              \* the size of the frame frozen
    points,             \* the points of the window's ClickState
    quad,               \* the polygon of the first of two windows
    detector, mode,     \* the node: off, up, failed; its perspective_mode
    any_size,           \* its allow_dimension_mismatch
    loaded,             \* the configuration it has loaded
    used                \* what it has looked for cubes with

selectorVars == <<selector, order, frame>>
clickVars == <<window, points, quad>>
detectorVars == <<detector, mode, any_size, loaded, used>>
vars == <<config, step, selectorVars, clickVars, detectorVars>>

Polygons == {p \in [1 .. Corners -> Pixels] : \A i, j \in 1 .. Corners : p[i] = p[j] => i = j}
None == <<>>

(* A polygon of a file, with the image in which it was clicked *)
In(space, p) == [space |-> space, points |-> p]
Nowhere == In("none", None)

Absent == [kind |-> "absent"]
Truncated == [kind |-> "truncated"]
Readable(c) == c.kind = "config"

(* save_outputs and save_raw_roi_outputs; settings are the runtime_defaults *)
TopviewConfig(q, roi) ==
    [kind |-> "config", size |-> frame, settings |-> "default",
     topview |-> In("raw", q), conveyor_roi |-> In("topview", roi), raw_roi |-> Nowhere]
RawConfig(roi) ==
    [kind |-> "config", size |-> frame,
     settings |-> IF Readable(config) THEN config.settings ELSE "default",
     topview |-> Nowhere, conveyor_roi |-> Nowhere, raw_roi |-> In("raw", roi)]

(***************************************************************************)
(* The order of the points.  auto takes the least sum of the coordinates   *)
(* for the first corner, the greatest for the third, and the least and the *)
(* greatest difference y - x for the others; ties go to the first clicked. *)
(***************************************************************************)
(* Variant: the number of points is not checked *)
Unique_any_number(p) == Len(p) > 0 /\ Cardinality({p[i] : i \in 1 .. Len(p)}) = Len(p)

Unique(p) == Len(p) = Corners /\ Cardinality({p[i] : i \in 1 .. Len(p)}) = Corners

FirstLeast(p, f) ==
    CHOOSE i \in 1 .. Len(p) :
        /\ \A j \in 1 .. Len(p) : f[i] <= f[j]
        /\ \A j \in 1 .. i - 1 : f[i] < f[j]

auto_order_points(p) ==
    LET Sum == [i \in 1 .. Len(p) |-> p[i].x + p[i].y]
        Difference == [i \in 1 .. Len(p) |-> p[i].y - p[i].x]
        Minus(f) == [i \in 1 .. Len(p) |-> -f[i]]
    IN  <<p[FirstLeast(p, Sum)], p[FirstLeast(p, Difference)],
          p[FirstLeast(p, Minus(Sum))], p[FirstLeast(p, Minus(Difference))]>>

order_points(p) == IF order = "auto" /\ Unique(p) THEN auto_order_points(p) ELSE p

Init ==
    /\ \E old \in {"absent", "topview"} :
        LET s == CHOOSE s \in Sizes : TRUE
            p == CHOOSE p \in Polygons : TRUE
        IN  config = IF old = "absent" THEN Absent
                     ELSE [kind |-> "config", size |-> s, settings |-> "tuned",
                           topview |-> In("raw", p), conveyor_roi |-> In("topview", p),
                           raw_roi |-> Nowhere]
    /\ selector = "none" /\ step = "new" /\ order = "click" /\ frame = NoFrame
    /\ window = "none" /\ points = None /\ quad = None
    /\ detector = "off" /\ mode = "raw" /\ any_size = FALSE
    /\ loaded = Absent /\ used = Nowhere

(***************************************************************************)
(* A selection.                                                            *)
(***************************************************************************)
ToolStarts(t, o) ==
    /\ step = "new" /\ detector = "off"
    /\ selector' = t /\ order' = o
    /\ step' = "source"
    /\ UNCHANGED <<config, frame, clickVars, detectorVars>>

TopviewToolStarts == \E o \in {"click", "auto"} : ToolStarts("topview", o)
RawToolStarts == \E o \in {"click", "auto"} : ToolStarts("raw", o)

(* The process of the tool ends, and what it knew is gone *)
SelectorEnds(how) ==
    /\ step' = how
    /\ selector' = "none" /\ order' = "click" /\ frame' = NoFrame
    /\ window' = "none" /\ points' = None /\ quad' = None

(* A frame of the topic, of a camera, a video or an image *)
FrameArrives(s) ==
    /\ step = "source"
    /\ frame' = s
    /\ UNCHANGED <<config, step, selector, order, clickVars, detectorVars>>

(* No frame in time, one that cannot be converted, an unreadable source *)
SourceFails ==
    /\ step = "source"
    /\ SelectorEnds("ended")
    /\ UNCHANGED <<config, detectorVars>>

(* SPACE freezes the frame, and the first window opens *)
Freeze ==
    /\ step = "source" /\ frame # NoFrame
    /\ step' = "click"
    /\ window' = IF selector = "raw" THEN "raw" ELSE "quad"
    /\ UNCHANGED <<config, selectorVars, points, quad, detectorVars>>

(* A left click; with all points there it adds none *)
LeftClick(p) ==
    /\ step \in {"click", "linger"} /\ Len(points) < Corners
    /\ points' = Append(points, p)
    /\ UNCHANGED <<config, step, selectorVars, window, quad, detectorVars>>

(* A right click or u takes the last point back *)
Undo ==
    /\ step \in {"click", "linger"} /\ points # None
    /\ points' = SubSeq(points, 1, Len(points) - 1)
    /\ UNCHANGED <<config, step, selectorVars, window, quad, detectorVars>>

(* r takes all of them back *)
Reset ==
    /\ step = "click" /\ points # None
    /\ points' = None
    /\ UNCHANGED <<config, step, selectorVars, window, quad, detectorVars>>

(* The loop sees that all points are there; the window stays for 300 ms *)
Complete ==
    /\ step = "click" /\ Len(points) = Corners
    /\ step' = "linger"
    /\ UNCHANGED <<config, selectorVars, clickVars, detectorVars>>

(* The window closes and its points are put in order, which raises when they *)
(* are not as many as they must be, not different, or in no unique order     *)
Accepted == Unique(points) /\ Unique(order_points(points))

WindowCloses ==
    /\ step = "linger" /\ Accepted
    /\ IF window = "quad"
       THEN /\ quad' = order_points(points)
            /\ window' = "roi" /\ points' = None
            /\ step' = "click"
       ELSE /\ step' = "save"
            /\ UNCHANGED <<window, points, quad>>
    /\ UNCHANGED <<config, selectorVars, detectorVars>>

WindowFails ==
    /\ step = "linger" /\ ~Accepted
    /\ SelectorEnds("ended")
    /\ UNCHANGED <<config, detectorVars>>

(* The file is opened, and so emptied, after its settings were read *)
Save ==
    /\ step = "save"
    /\ config' = IF selector = "raw" THEN RawConfig(order_points(points))
                 ELSE TopviewConfig(quad, order_points(points))
    /\ step' = "saved"
    /\ UNCHANGED <<selectorVars, clickVars, detectorVars>>

SaveBreaksOff ==
    /\ step = "save"
    /\ config' = Truncated
    /\ SelectorEnds("ended")
    /\ UNCHANGED detectorVars

(* --self-test asks nobody, and writes polygons of its own to the same file *)
OwnPolygon == CHOOSE p \in Polygons : TRUE

SelfTest(tool, result) ==
    /\ step = "source" /\ frame # NoFrame /\ selector = tool
    /\ config' = result
    /\ SelectorEnds("ended")
    /\ UNCHANGED detectorVars

TopviewSelfTest == SelfTest("topview", TopviewConfig(OwnPolygon, OwnPolygon))
RawSelfTest == SelfTest("raw", RawConfig(OwnPolygon))

(* q or ESC *)
Cancelled ==
    /\ step \in {"source", "click"}
    /\ SelectorEnds("ended")
    /\ UNCHANGED <<config, detectorVars>>

(***************************************************************************)
(* The detector.  process_frame_for_detection chooses the image and the    *)
(* polygon by the mode at every frame; the constructor has chosen a        *)
(* polygon too, and demands what the top view needs.                       *)
(***************************************************************************)

(* Variant: the region of a file is used wherever it was clicked *)
raw_polygon_from_config_any(c) ==
    CASE c.raw_roi # Nowhere -> c.raw_roi
      [] c.raw_roi = Nowhere /\ c.conveyor_roi # Nowhere -> c.conveyor_roi
      [] OTHER -> c.topview

raw_polygon_from_config(c) ==
    CASE c.raw_roi # Nowhere -> c.raw_roi
      [] c.raw_roi = Nowhere /\ c.conveyor_roi.space = "raw" -> c.conveyor_roi
      [] OTHER -> c.topview

polygon_from_config(c) == c.conveyor_roi

(* The matrix and the size of the top view, without which it cannot start *)
TopviewKnown(c) == c.topview # Nowhere

NodeStarts(m, any) ==
    /\ step \in {"new", "ended", "saved"} /\ detector = "off"
    /\ mode' = m /\ any_size' = any
    /\ IF Readable(config) /\ (m = "topview" => TopviewKnown(config))
       THEN detector' = "up" /\ loaded' = config
       ELSE detector' = "failed" /\ loaded' = loaded
    /\ SelectorEnds("ended")
    /\ UNCHANGED <<config, used>>

(* A frame of another size is dropped unless allow_dimension_mismatch; one  *)
(* in an unknown encoding, and every one in an unknown mode, is dropped too *)
Dropped(s) == (s # loaded.size /\ ~any_size) \/ mode = "unknown"

OnImage(s) ==
    /\ detector = "up" /\ ~Dropped(s)
    /\ used' = [image |-> mode, size |-> s,
                roi |-> IF mode = "raw" THEN raw_polygon_from_config(loaded)
                        ELSE polygon_from_config(loaded)]
    /\ UNCHANGED <<config, step, selectorVars, clickVars, detector, mode, any_size, loaded>>

DropImage(s) ==
    /\ detector = "up" /\ Dropped(s)
    /\ UNCHANGED vars

Next ==
    \/ TopviewToolStarts \/ RawToolStarts
    \/ \E s \in Sizes : FrameArrives(s)
    \/ SourceFails \/ Freeze \/ Complete
    \/ \E p \in Pixels : LeftClick(p)
    \/ Undo \/ Reset \/ WindowCloses \/ WindowFails
    \/ Save \/ SaveBreaksOff \/ TopviewSelfTest \/ RawSelfTest \/ Cancelled
    \/ \E m \in {"raw", "topview", "unknown"}, any \in BOOLEAN : NodeStarts(m, any)
    \/ \E s \in Sizes : OnImage(s) \/ DropImage(s)

Spec == Init /\ [][Next]_vars

(***************************************************************************)
(* Properties.                                                             *)
(***************************************************************************)

(* Whatever is clicked, taken back and clicked again, up to the last moment  *)
(* of a window: a file saved holds as many different corners as it must, and *)
(* those of its last window are what the operator has left there.            *)
SavedAsClicked ==
    step = "saved" =>
        LET Last == IF selector = "raw" THEN config.raw_roi ELSE config.conveyor_roi
            Saved == {config.raw_roi, config.conveyor_roi, config.topview} \ {Nowhere}
        IN  /\ \A poly \in Saved : poly.points \in Polygons
            /\ {Last.points[i] : i \in 1 .. Corners} = {points[i] : i \in 1 .. Len(points)}

(* Whichever tool wrote the file and whichever mode the detector runs in: the *)
(* polygon it looks in was clicked in the image it looks at, and in one of   *)
(* its size unless allow_dimension_mismatch gives that up.                   *)
RoiInFrameSpace ==
    used # Nowhere =>
        /\ used.roi.space = used.image
        /\ used.size = loaded.size \/ any_size

=============================================================================
