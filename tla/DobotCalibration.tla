--------------------------- MODULE DobotCalibration ---------------------------
(***************************************************************************)
(* The calibration tools of the Dobot arm: calibrate_positions.py (two     *)
(* corners of the harvest grid and three more positions) and               *)
(* calibrate_harvest_positions.py (every position of the grid), and what   *)
(* harvest_test.py makes of the file they leave.                           *)
(*                                                                         *)
(* The tools are run one after the other, at most MaxSessions times.  An   *)
(* operator holds the arm at a spot and has its pose stored; the file is   *)
(* written in place, opened (and so emptied) first.  A session may end at  *)
(* any moment: by q, by Ctrl+C, by an exception or by a loss of power.     *)
(* The programs are started in different shells, whose variables and       *)
(* directories decide where each of them looks for the file.               *)
(***************************************************************************)
EXTENDS Naturals, Sequences, FiniteSets

CONSTANTS
    Side,           \* positions along a side of the grid; the code has 3
    Spots,          \* where the arm is held, as [x, y, z] in steps that Side - 1 divides
    NoSpot,
    MaxSessions     \* bound on the runs of the tools

VARIABLES
    target,             \* the file of the session
    files, backups,     \* the calibration by path; the copies made before a change
    newest,             \* the path a tool has last written whole
    tool, phase,
    keep,               \* the tool makes a backup: no --no-backup
    pose, fresh,        \* the last pose received, and whether within --max-pose-age
    captures,           \* the spots captured in this session, in order
    base,               \* the calibration the tool has loaded
    had,                \* the calibration in its file when the tool was started
    sessions,
    offered, shell      \* the calibration harvest_test shows as its menu, and where it was started

storeVars == <<files, backups, newest>>
sessionVars == <<target, tool, keep, base, had, sessions>>
poseVars == <<pose, fresh>>
menuVars == <<offered, shell>>
vars == <<storeVars, sessionVars, poseVars, phase, captures, menuVars>>

Absent == [kind |-> "absent"]
Truncated == [kind |-> "truncated"]
Blank == [kind |-> "positions", grid |-> <<>>, others |-> 0, corners |-> <<>>, mode |-> "average",
          full |-> <<>>]
Whole(c) == c.kind = "positions"

(***************************************************************************)
(* Where each program finds the file: as DOBOT_POSITIONS_JSON and _OUTPUT  *)
(* say, or in the package: in its source, for a program of the source tree *)
(* or an installed one started in ros2_ws (place "tree"), in the directory *)
(* of one started elsewhere; harvest_test, which looks for an existing     *)
(* file, in what a build has installed at last.                            *)
(***************************************************************************)
Shells == [set : SUBSET {"json", "output"}, place : {"tree", "elsewhere"}]
Paths == {"json", "output", "source", "cwd", "share"}

InPackage(sh) == IF sh.place = "tree" THEN "source" ELSE "cwd"
CornersPath(sh) == IF "output" \in sh.set THEN "output" ELSE InPackage(sh)
NinePath(sh) == IF "json" \in sh.set THEN "json" ELSE CornersPath(sh)
PathOf(t, sh) == IF t = "corners" THEN CornersPath(sh) ELSE NinePath(sh)

Exists(p) == files[p] # Absent

(* Variant: what is installed is preferred to what was calibrated *)
HarvestPath_share_first(sh) ==
    IF sh.set # {} THEN NinePath(sh)
    ELSE IF Exists("share") THEN "share" ELSE InPackage(sh)

HarvestPath(sh) ==
    IF sh.set # {} THEN NinePath(sh)
    ELSE IF sh.place = "tree" /\ Exists("source") THEN "source"
    ELSE IF Exists("cwd") \/ ~Exists("share") THEN "cwd"
    ELSE "share"

(* interpolate and generate_harvest_grid: rows from lower y, columns from the left x *)
interpolate(a, b, i, count) == (a * (count - 1 - i) + b * i) \div (count - 1)

HeightModes == {"average", "lower_left", "upper_right", "diagonal"}
HeightAt(ll, ur, mode, i) ==
    CASE mode = "lower_left" -> ll.z
      [] mode = "upper_right" -> ur.z
      [] mode = "diagonal" -> interpolate(ll.z, ur.z, i, 2 * Side - 1)
      [] OTHER -> (ll.z + ur.z) \div 2

generate_harvest_grid(ll, ur, mode) ==
    [n \in 1 .. Side * Side |->
        LET row == (n - 1) \div Side
            col == (n - 1) % Side
        IN  [x |-> interpolate(ll.x, ur.x, col, Side),
             y |-> interpolate(ll.y, ur.y, row, Side),
             z |-> HeightAt(ll, ur, mode, row + col)]]

(* The second tool keeps what was measured but for the height, one for all *)
HarvestZ == 0
capture_to_harvest_item(spot) == [spot EXCEPT !.z = HarvestZ]
AtHarvestZ(spots) == [n \in DOMAIN spots |-> capture_to_harvest_item(spots[n])]

(* CAPTURE_STEPS has the corners and three more; HARVEST_CAPTURE_STEPS the grid *)
Steps(t) == IF t = "corners" THEN 5 ELSE Side * Side

(* What a tool writes: the one starts afresh, the other changes what it has loaded *)
CornersResult(mode) ==
    [kind |-> "positions", grid |-> generate_harvest_grid(captures[1], captures[2], mode),
     others |-> sessions, corners |-> SubSeq(captures, 1, 2), mode |-> mode, full |-> <<>>]

(* Variant: the second tool starts afresh, too *)
NineResult_afresh == [Blank EXCEPT !.grid = AtHarvestZ(captures), !.full = captures]

NineResult ==
    [kind |-> "positions", grid |-> AtHarvestZ(captures),
     others |-> base.others, corners |-> base.corners, mode |-> base.mode, full |-> captures]

(* The calibration an operator may have put where DOBOT_POSITIONS_JSON says *)
Older(spot) ==
    LET all == [n \in 1 .. Side * Side |-> spot]
    IN  [kind |-> "positions", grid |-> AtHarvestZ(all), others |-> MaxSessions + 1,
         corners |-> <<>>, mode |-> "average", full |-> all]

Init ==
    /\ target = "source"
    /\ \E c \in {Absent} \cup {Older(spot) : spot \in Spots} :
        files = [p \in Paths |-> IF p = "json" THEN c ELSE Absent]
    /\ backups = {} /\ newest = "none"
    /\ tool = "none" /\ phase = "off" /\ keep = TRUE
    /\ pose = NoSpot /\ fresh = FALSE
    /\ captures = <<>> /\ base = Absent /\ had = Absent
    /\ sessions = 0
    /\ offered = Absent /\ shell = [set |-> {}, place |-> "tree"]

(***************************************************************************)
(* A session.                                                              *)
(***************************************************************************)
Forgets == pose' = NoSpot /\ fresh' = FALSE /\ captures' = <<>> /\ base' = Absent
NoMenu == offered' = Absent /\ shell' = [set |-> {}, place |-> "tree"]

(* The process ends, and what it knows of poses and captures with it *)
SessionEnds ==
    /\ phase' = "off" /\ Forgets
    /\ UNCHANGED <<storeVars, target, tool, keep, had, sessions, menuVars>>

SessionStarts(t, k, sh) ==
    /\ phase = "off" /\ sessions < MaxSessions
    /\ sessions' = sessions + 1
    /\ tool' = t /\ keep' = k
    /\ target' = PathOf(t, sh) /\ had' = files[target']
    /\ phase' = "first" /\ Forgets /\ NoMenu
    /\ UNCHANGED storeVars

CornersStarts == \E sh \in Shells : SessionStarts("corners", FALSE, sh)
NineStarts == \E k \in BOOLEAN, sh \in Shells : SessionStarts("nine", k, sh)

(* Poses arrive while the arm is held somewhere, and may stop arriving *)
PoseMessage(s) ==
    /\ phase \in {"first", "prompt"}
    /\ pose' = s /\ fresh' = TRUE
    /\ UNCHANGED <<storeVars, sessionVars, phase, captures, menuVars>>

PosesStop ==
    /\ phase = "prompt" /\ fresh
    /\ fresh' = FALSE
    /\ UNCHANGED <<storeVars, sessionVars, pose, phase, captures, menuVars>>

FirstPose ==
    /\ phase = "first" /\ pose # NoSpot
    /\ phase' = "prompt"
    /\ UNCHANGED <<storeVars, sessionVars, poseVars, captures, menuVars>>

(* The operator enters s; with a pose that is too old he is asked again.   *)
(* Of the first tool's poses those after the corners are kept as others.   *)
Captures(t, spot, after) ==
    /\ phase = "prompt" /\ fresh /\ tool = t
    /\ captures' = Append(captures, spot)
    /\ phase' = IF Len(captures') < Steps(t) THEN "prompt" ELSE after
    /\ UNCHANGED <<storeVars, sessionVars, poseVars, menuVars>>

CornersCaptures == Captures("corners", IF Len(captures) < 2 THEN pose ELSE NoSpot, "write")
NineCaptures == Captures("nine", pose, "load")

(* load_base_positions: a truncated file raises, and every capture is lost *)
LoadBase ==
    /\ phase = "load" /\ files[target] # Truncated
    /\ base' = IF files[target] = Absent THEN Blank ELSE files[target]
    /\ phase' = IF keep /\ files[target] # Absent THEN "backup" ELSE "write"
    /\ UNCHANGED <<storeVars, target, tool, keep, had, sessions, poseVars, captures, menuVars>>

LoadFails ==
    /\ phase = "load" /\ files[target] = Truncated
    /\ SessionEnds

(* backup_existing copies the file as it stands *)
BackupExisting ==
    /\ phase = "backup"
    /\ backups' = backups \cup {files[target]}
    /\ phase' = "write"
    /\ UNCHANGED <<files, newest, sessionVars, poseVars, captures, menuVars>>

(* write_text opens the file, which empties it, and then writes *)
OpenResult ==
    /\ phase = "write"
    /\ files' = [files EXCEPT ![target] = Truncated]
    /\ phase' = "fill"
    /\ UNCHANGED <<backups, newest, sessionVars, poseVars, captures, menuVars>>

WriteResult ==
    /\ phase = "fill"
    /\ \/ tool = "corners" /\ \E mode \in HeightModes :
             files' = [files EXCEPT ![target] = CornersResult(mode)]
       \/ tool = "nine" /\ files' = [files EXCEPT ![target] = NineResult]
    /\ newest' = target
    /\ phase' = "summary"
    /\ UNCHANGED <<backups, sessionVars, poseVars, captures, menuVars>>

(* The Markdown next to it, left out with --no-md, and the end *)
WriteSummary(t) ==
    /\ phase = "summary" /\ tool = t
    /\ SessionEnds

CornersSummary == WriteSummary("corners")
NineSummary == WriteSummary("nine")

(* No pose within --initial-timeout *)
NoFirstPose ==
    /\ phase = "first" /\ pose = NoSpot
    /\ SessionEnds

(* q, Ctrl+C, a loss of power *)
Interrupted ==
    /\ phase # "off"
    /\ SessionEnds

(***************************************************************************)
(* harvest_test: load_calibration wants nine positions and all the others  *)
(* (home comes with them), and build_harvest_targets numbers the positions *)
(* by x and then by y, both descending, and then by the height in the file,*)
(* which it replaces by its own; equal ones stay in their order.           *)
(***************************************************************************)
Loads(c) == Whole(c) /\ Len(c.grid) = Side * Side /\ c.others > 0

Precedes(g, i, j) ==
    \/ g[i].x > g[j].x
    \/ g[i].x = g[j].x /\ g[i].y > g[j].y
    \/ g[i].x = g[j].x /\ g[i].y = g[j].y /\ g[i].z < g[j].z
    \/ g[i] = g[j] /\ i < j

(* The entry of the file that each index of the menu stands for *)
MenuOf(g) ==
    [n \in DOMAIN g |-> CHOOSE i \in DOMAIN g :
        Cardinality({j \in DOMAIN g : Precedes(g, j, i)}) = n - 1]

HarvestLoads(sh) ==
    /\ phase = "off" /\ Loads(files[HarvestPath(sh)])
    /\ offered' = files[HarvestPath(sh)] /\ shell' = sh
    /\ UNCHANGED <<storeVars, sessionVars, poseVars, phase, captures>>

HarvestRefuses(sh) ==
    /\ phase = "off" /\ ~Loads(files[HarvestPath(sh)])
    /\ NoMenu
    /\ UNCHANGED <<storeVars, sessionVars, poseVars, phase, captures>>

(* A build installs the file of the source tree, if there is one; in the    *)
(* phases left out it would find what it finds before the session or after *)
InstallConfig ==
    /\ phase \in {"off", "fill"} /\ Exists("source")
    /\ files' = [files EXCEPT !["share"] = files["source"]]
    /\ UNCHANGED <<backups, newest, sessionVars, poseVars, phase, captures, menuVars>>

Next ==
    \/ CornersStarts \/ NineStarts \/ CornersCaptures \/ NineCaptures
    \/ \E s \in Spots : PoseMessage(s)
    \/ PosesStop \/ FirstPose \/ NoFirstPose
    \/ LoadBase \/ LoadFails \/ BackupExisting
    \/ OpenResult \/ WriteResult \/ CornersSummary \/ NineSummary \/ Interrupted
    \/ \E sh \in Shells : HarvestLoads(sh) \/ HarvestRefuses(sh)
    \/ InstallConfig

Spec == Init /\ [][Next]_vars

(***************************************************************************)
(* Properties.                                                             *)
(***************************************************************************)

(* The tool for the whole grid never costs the positions it does not measure: *)
(* at every moment at which its session may end, a whole file of its has the  *)
(* camera, box and conveyor positions it was started over, and a file that is *)
(* not whole any more has left a copy (unless told not to make one).          *)
CalibrationSurvives ==
    tool = "nine" /\ Whole(had) =>
        /\ Whole(files[target]) => files[target].others = had.others
        /\ keep => Whole(files[target]) \/ had \in backups

(* However sessions of the two tools, builds and shells follow each other:   *)
(* a menu is of the file a tool wrote last if the second tool, started where *)
(* harvest_test was, would write there; its positions are those of the       *)
(* captures kept with them, all of them where they were all measured last    *)
(* and the two corners otherwise; it lists every entry once, and keeps the   *)
(* order in which they were captured if the operator held to the one he was  *)
(* asked for.                                                                *)
MenuTellsMeasured ==
    Whole(offered) =>
        LET g == offered.grid
            menu == MenuOf(g)
        IN  /\ phase = "off" /\ newest = NinePath(shell) => offered = files[newest]
            /\ g = IF offered.full # <<>> THEN AtHarvestZ(offered.full)
                   ELSE generate_harvest_grid(offered.corners[1], offered.corners[2],
                                              offered.mode)
            /\ {menu[n] : n \in DOMAIN menu} = DOMAIN g
            /\ (\A i, j \in DOMAIN g : i < j =>
                    \/ g[i].x > g[j].x
                    \/ g[i].x = g[j].x /\ g[i].y > g[j].y
                    \/ g[i] = g[j])
               => menu = [n \in DOMAIN g |-> n]

=============================================================================
