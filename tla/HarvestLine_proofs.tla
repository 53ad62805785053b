-------------------------- MODULE HarvestLine_proofs ---------------------------
(***************************************************************************)
(* Proofs about HarvestLine: for any number of runs and of failures on the *)
(* way, and any backlogs, the arm travels at the safe height only, and     *)
(* puts down what it has three pictures of.                                *)
(***************************************************************************)
EXTENDS HarvestLine, SequenceTheorems, TLAPS

-----------------------------------------------------------------------------
(* Where a run is.  A motion that an earlier run began may still go on in   *)
(* the first instruction; from the second on the arm is where the program  *)
(* has brought it.                                                         *)

Motions == {1, 3, 4, 6, 8, 10, 11, 13}
Captures == {5, 7, 9}
Suctions == {2, 12}

Station(s) ==
    CASE s \in {2, 3}         -> PoseAt("harvest")
      [] s \in {4, 5, 6, 11}  -> CameraPose(0)
      [] s \in {7, 8}         -> CameraPose(120)
      [] s \in {9, 10}        -> CameraPose(-120)
      [] s \in {12, 13}       -> PoseAt("conveyor")
      [] s = 14               -> PoseAt("home")

Views3 == <<CameraPose(0), CameraPose(120), CameraPose(-120)>>
Taken(s) == IF s <= 5 THEN 0 ELSE IF s <= 7 THEN 1 ELSE IF s <= 9 THEN 2 ELSE 3

HarvestTypes ==
    /\ arm \in Pose /\ goal \in Pose /\ passed \in Pose /\ current_pose \in Pose
    /\ moves \in Seq(Pose) /\ results \in Seq(Pose) /\ suction \in BOOLEAN

Placed ==
    \/ phase \in {"off", "wait"} /\ results = << >>
    \/ /\ phase \in {"ready", "go", "move", "suction", "capture"} /\ step \in 1 .. 14
       /\ phase \in {"go", "move"} => step \in Motions
       /\ phase = "suction" => step \in Suctions
       /\ phase = "capture" => step \in Captures
       /\ phase \in {"ready", "suction", "capture"} /\ step > 1 =>
            arm = Station(step) /\ goal = NoGoal
       /\ results = SubSeq(Views3, 1, Taken(step))

(* From p the arm may be told to go to q *)
Clear(p, q) == p.at = q.at \/ (p.z = "safe" /\ q.z = "safe")

(* If a pose tells of a safe height the arm is at one, or else under it *)
Covers(p, q) == IF p.z = "safe" THEN q.z = "safe" ELSE p.at = q.at

(* The arm is, or may get, to these *)
Spot(p) == p = arm \/ (p = goal /\ goal # NoGoal)

Truthful ==
    /\ \A p \in Pose : Spot(p) => Covers(arm, p) /\ Covers(passed, p)
    /\ phase \in {"ready", "suction", "capture"} =>
        \A p \in Pose : Spot(p) => Covers(current_pose, p)

(* The motions that are left begin where the arm is *)
Planned ==
    phase \in {"go", "move"} =>
        /\ moves # << >> /\ moves[Len(moves)] = Station(step + 1)
        /\ \A i \in 1 .. Len(moves) : moves[i].z # "between"
        /\ \A i \in 1 .. Len(moves) - 1 : Clear(moves[i], moves[i + 1])
        /\ phase = "go" => \A p \in Pose : Spot(p) => Clear(p, moves[1])
        /\ phase = "move" => goal = moves[1]

-----------------------------------------------------------------------------
(* The chain: a picture under way is the answer to the request being served *)

Chained ==
    /\ dpc # "await" => channel = Silence
    /\ pi_pc = "capturing" /\ pi_conn = "live" => dpc = "await" /\ channel = Silence
    /\ pi_pc \in {"offline", "waiting", "capturing"}
    /\ pi_pc = "offline" => pi_conn # "live"
    /\ dpc \in {"first", "again", "down"} => pi_conn # "live"

OneLive ==
    /\ backlog \in Seq({"live", "dead"})
    /\ \A i \in 1 .. Len(backlog) : backlog[i] = "live" =>
        /\ pi_conn # "live" /\ pi_pc = "waiting"
        /\ \A j \in 1 .. Len(backlog) : backlog[j] = "live" => j = i

(* Requests of a client that is still there, and their answers *)
Asked ==
    /\ queue \in Seq({Wanted, Gone})
    /\ request = Wanted \/ (\E i \in 1 .. Len(queue) : queue[i] = Wanted) => phase = "capture"
    /\ reply.kind = "ok" => phase = "capture" /\ reply.picture = PictureOf(arm)
    /\ dpc = "await" /\ request = Wanted /\ channel.kind = "ok" =>
        channel.picture = PictureOf(arm)

HarvestInv == HarvestTypes /\ Placed /\ Truthful /\ Planned
ChainInv == Chained /\ OneLive /\ Asked

-----------------------------------------------------------------------------
(* The program *)

LEMMA ViewsAre ==
    /\ Views = [i \in 1 .. 6 |-> Views[i]]
    /\ Views[1] = Rotate(0) /\ Views[2] = Capture(0)
    /\ Views[3] = Rotate(120) /\ Views[4] = Capture(120)
    /\ Views[5] = Rotate(-120) /\ Views[6] = Capture(-120)
<1>1. /\ Len(CAMERA_CAPTURE_ANGLES_DEG) = 3 /\ CAMERA_CAPTURE_ANGLES_DEG[1] = 0
      /\ CAMERA_CAPTURE_ANGLES_DEG[2] = 120 /\ CAMERA_CAPTURE_ANGLES_DEG[3] = -120
    BY DEF CAMERA_CAPTURE_ANGLES_DEG
<1>2. DOMAIN Views = 1 .. 6
    BY <1>1 DEF Views
<1>3. \A i \in 1 .. 6 : Views[i] =
          IF i % 2 = 1 THEN Rotate(CAMERA_CAPTURE_ANGLES_DEG[(i + 1) \div 2])
                       ELSE Capture(CAMERA_CAPTURE_ANGLES_DEG[i \div 2])
    BY <1>1 DEF Views
<1>4. /\ 1 % 2 = 1 /\ 2 % 2 = 0 /\ 3 % 2 = 1 /\ 4 % 2 = 0 /\ 5 % 2 = 1 /\ 6 % 2 = 0
      /\ (1 + 1) \div 2 = 1 /\ (3 + 1) \div 2 = 2 /\ (5 + 1) \div 2 = 3
      /\ 2 \div 2 = 1 /\ 4 \div 2 = 2 /\ 6 \div 2 = 3
    OBVIOUS
<1>5. Views[1] = Rotate(0) /\ Views[3] = Rotate(120) /\ Views[5] = Rotate(-120)
    BY <1>1, <1>3, <1>4
<1>6. Views[2] = Capture(0) /\ Views[4] = Capture(120) /\ Views[6] = Capture(-120)
    BY <1>1, <1>3, <1>4
<1>7. Views = [i \in 1 .. 6 |-> Views[i]]
    BY <1>1 DEF Views
<1> QED BY <1>5, <1>6, <1>7

LEMMA ProgramIs ==
    /\ Len(Program) = 13 /\ DOMAIN Program = 1 .. 13
    /\ Program[1] = Jump("harvest") /\ Program[2] = Suction(TRUE) /\ Program[3] = Jump("camera")
    /\ Program[4] = Rotate(0) /\ Program[5] = Capture(0)
    /\ Program[6] = Rotate(120) /\ Program[7] = Capture(120)
    /\ Program[8] = Rotate(-120) /\ Program[9] = Capture(-120)
    /\ Program[10] = Rotate(0) /\ Program[11] = Place
    /\ Program[12] = Suction(FALSE) /\ Program[13] = Jump("home")
<1> DEFINE S == {Jump("harvest"), Jump("camera"), Jump("home"), Suction(TRUE), Suction(FALSE),
                 Place, Rotate(0), Rotate(120), Rotate(-120), Capture(0), Capture(120),
                 Capture(-120)}
           first == << Jump("harvest"), Suction(TRUE), Jump("camera") >>
           last == << Rotate(0), Place, Suction(FALSE), Jump("home") >>
<1>1. first \in Seq(S) /\ Len(first) = 3 /\ first[1] = Jump("harvest")
      /\ first[2] = Suction(TRUE) /\ first[3] = Jump("camera")
    OBVIOUS
<1>2. last \in Seq(S) /\ Len(last) = 4 /\ last[1] = Rotate(0) /\ last[2] = Place
      /\ last[3] = Suction(FALSE) /\ last[4] = Jump("home")
    OBVIOUS
<1>3. Views \in Seq(S) /\ Len(Views) = 6
    <2>1. /\ Rotate(0) \in S /\ Rotate(120) \in S /\ Rotate(-120) \in S
          /\ Capture(0) \in S /\ Capture(120) \in S /\ Capture(-120) \in S
        OBVIOUS
    <2> HIDE DEF S
    <2>2. \A i \in 1 .. 6 : Views[i] \in S
        BY <2>1, ViewsAre
    <2>3. QED
        BY <2>2, ViewsAre
<1>4. Program = (first \o Views) \o last
    BY DEF Program
<1> HIDE DEF S, first, last
<1> DEFINE most == first \o Views
<1>5. /\ most \in Seq(S) /\ Len(most) = 9
      /\ \A i \in 1 .. 9 : most[i] = IF i <= 3 THEN first[i] ELSE Views[i - 3]
    <2>1. /\ most \in Seq(S) /\ Len(most) = Len(first) + Len(Views)
          /\ \A i \in 1 .. Len(first) + Len(Views) :
                most[i] = IF i <= Len(first) THEN first[i] ELSE Views[i - Len(first)]
        BY <1>1, <1>3, ConcatProperties, Zenon
    <2> HIDE DEF most
    <2>2. QED
        BY <1>1, <1>3, <2>1
<1> HIDE DEF most
<1>6. /\ Len(Program) = 13 /\ Program \in Seq(S)
      /\ \A i \in 1 .. 13 : Program[i] = IF i <= 9 THEN most[i] ELSE last[i - 9]
    <2>1. Program = most \o last
        BY <1>4 DEF most
    <2>2. /\ Program \in Seq(S) /\ Len(Program) = Len(most) + Len(last)
          /\ \A i \in 1 .. Len(most) + Len(last) :
                Program[i] = IF i <= Len(most) THEN most[i] ELSE last[i - Len(most)]
        BY <1>2, <1>5, <2>1, ConcatProperties, Zenon
    <2>3. QED
        BY <1>2, <1>5, <2>2
<1>7. DOMAIN Program = 1 .. 13
    BY <1>6, LenProperties
<1>8. \A i \in 1 .. 13 :
          Program[i] = IF i <= 3 THEN first[i] ELSE IF i <= 9 THEN Views[i - 3] ELSE last[i - 9]
    BY <1>5, <1>6
<1>9. Program[1] = first[1] /\ Program[2] = first[2] /\ Program[3] = first[3]
    BY <1>8
<1>10. /\ Program[4] = Views[1] /\ Program[5] = Views[2] /\ Program[6] = Views[3]
       /\ Program[7] = Views[4] /\ Program[8] = Views[5] /\ Program[9] = Views[6]
    BY <1>8
<1>11. /\ Program[10] = last[1] /\ Program[11] = last[2] /\ Program[12] = last[3]
       /\ Program[13] = last[4]
    BY <1>8
<1> QED BY <1>1, <1>2, <1>6, <1>7, <1>9, <1>10, <1>11, ViewsAre

(* What each place in the program is about *)
LEMMA ProgramSteps ==
    ASSUME NEW s \in 1 .. 14, s = step
    PROVE  /\ Doing("jump") <=> s \in {1, 3, 13}
           /\ Doing("rotate") <=> s \in {4, 6, 8, 10}
           /\ Doing("place") <=> s = 11
           /\ Doing("suction") <=> s \in Suctions
           /\ Doing("capture") <=> s \in Captures
           /\ s \in {1, 3, 13} => PoseAt(Arg) = Station(s + 1) /\ Arg \in Places
           /\ s \in {4, 6, 8, 10} => CameraPose(Arg) = Station(s + 1) /\ Arg \in Angles
           /\ s = 11 => PoseAt("conveyor") = Station(s + 1)
           /\ s = 2 => Arg = TRUE
           /\ s = 12 => Arg = FALSE
<1> USE DEF Doing, Arg, Jump, Rotate, Capture, Suction, Place, Suctions, Captures
<1>1. s = 14 \/ s \in 1 .. 13
    OBVIOUS
<1>2. CASE s = 14
    BY <1>2, ProgramIs
<1>3. CASE s = 1 \/ s = 3 \/ s = 13
    <2>1. PoseAt("camera") = CameraPose(0)
        BY DEF PoseAt, CameraPose, HeightOf
    <2>2. /\ Station(2) = PoseAt("harvest") /\ Station(4) = PoseAt("camera")
          /\ Station(14) = PoseAt("home")
        BY <2>1 DEF Station
    <2>3. QED
        BY <1>3, <2>2, ProgramIs DEF Places
<1>4. CASE s = 4 \/ s = 6 \/ s = 8 \/ s = 10
    BY <1>4, ProgramIs DEF Station, Angles
<1>5. CASE s = 11
    BY <1>5, ProgramIs DEF Station
<1>6. CASE s = 2 \/ s = 12
    BY <1>6, ProgramIs
<1>7. CASE s = 5 \/ s = 7 \/ s = 9
    BY <1>7, ProgramIs
<1>8. \/ s = 14 \/ (s = 1 \/ s = 3 \/ s = 13) \/ (s = 4 \/ s = 6 \/ s = 8 \/ s = 10)
      \/ s = 11 \/ (s = 2 \/ s = 12) \/ (s = 5 \/ s = 7 \/ s = 9)
    OBVIOUS
<1> QED BY <1>2, <1>3, <1>4, <1>5, <1>6, <1>7, <1>8, Zenon

-----------------------------------------------------------------------------
(* Poses and motions *)

LEMMA PoseFields ==
    ASSUME NEW p \in Pose
    PROVE  /\ p = PoseOf(p.at, p.z, p.r)
           /\ p.at \in Places \cup {Elsewhere} /\ p.z \in Heights
           /\ p.r \in Angles \cup {Turning}
           /\ [p EXCEPT !.z = "safe"] = PoseOf(p.at, "safe", p.r)
BY DEF Pose, PoseOf

LEMMA PosesAre ==
    \A a \in Places \cup {Elsewhere}, z \in Heights, r \in Angles \cup {Turning} :
        PoseOf(a, z, r) \in Pose
BY DEF Pose, PoseOf

LEMMA StationsAre ==
    ASSUME NEW s \in 2 .. 14
    PROVE  /\ Station(s) \in Pose /\ Station(s).z # "between"
           /\ s \in 4 .. 11 => Station(s).at = "camera"
<1>1. s \in {2, 3} \/ s \in {4, 5, 6, 11} \/ s \in {7, 8} \/ s \in {9, 10} \/ s \in {12, 13} \/ s = 14
    OBVIOUS
<1>2. \A p \in Places : PoseAt(p) \in Pose /\ PoseAt(p).z # "between"
    BY DEF PoseAt, PoseOf, Pose, HeightOf, Heights, Angles
<1>3. \A a \in Angles : /\ CameraPose(a) \in Pose /\ CameraPose(a).z # "between"
                        /\ CameraPose(a).at = "camera"
    BY DEF CameraPose, PoseOf, Pose, HeightOf, Heights, Places
<1>4. {"harvest", "conveyor", "home"} \subseteq Places /\ {0, 120, -120} = Angles
    BY DEF Places, Angles
<1> QED BY <1>1, <1>2, <1>3, <1>4 DEF Station

(* The last two conjuncts tell that a jump is clear, to its end and from    *)
(* where the arm may be.                                                    *)
Leads(m, to) ==
    /\ m \in Seq(Pose) /\ m # << >> /\ m[Len(m)] = to
    /\ \A i \in 1 .. Len(m) : m[i].z # "between"
    /\ \A i \in 1 .. Len(m) - 1 : Clear(m[i], m[i + 1])

LEMMA Joined ==
    ASSUME NEW x, NEW y, NEW z
    PROVE  /\ << x >> \o << y >> = << x, y >>
           /\ << x, y >> \o << z >> = << x, y, z >>
           /\ << >> \o << y >> = << y >>
           /\ << x, y >> \o << >> = << x, y >>
           /\ << y >> \o << >> = << y >>
<1> DEFINE S == {x, y, z}
<1>1. << x >> \o << y >> = << x, y >>
    <2>1. << x >> \in Seq(S) /\ << y >> \in Seq(S) /\ << x, y >> \in Seq(S)
        OBVIOUS
    <2>2. /\ << x >> \o << y >> \in Seq(S) /\ Len(<< x >> \o << y >>) = 2
          /\ (<< x >> \o << y >>)[1] = x /\ (<< x >> \o << y >>)[2] = y
        BY <2>1, ConcatProperties
    <2>3. Len(<< x, y >>) = 2 /\ << x, y >>[1] = x /\ << x, y >>[2] = y
        OBVIOUS
    <2> HIDE DEF S
    <2>4. ASSUME NEW s \in Seq(S), NEW t \in Seq(S), Len(s) = 2, s[1] = x, s[2] = y,
                 Len(t) = 2, t[1] = x, t[2] = y
          PROVE  s = t
        BY <2>4, SeqEqual
    <2>5. QED
        BY <2>1, <2>2, <2>3, <2>4, Zenon
<1>2. << x, y >> \o << z >> = << x, y, z >>
    <2>1. << x, y >> \in Seq(S) /\ << z >> \in Seq(S) /\ << x, y, z >> \in Seq(S)
        OBVIOUS
    <2>2. /\ << x, y >> \o << z >> \in Seq(S) /\ Len(<< x, y >> \o << z >>) = 3
          /\ (<< x, y >> \o << z >>)[1] = x /\ (<< x, y >> \o << z >>)[2] = y
          /\ (<< x, y >> \o << z >>)[3] = z
        BY <2>1, ConcatProperties
    <2>3. /\ Len(<< x, y, z >>) = 3
          /\ << x, y, z >>[1] = x /\ << x, y, z >>[2] = y /\ << x, y, z >>[3] = z
        OBVIOUS
    <2> HIDE DEF S
    <2>4. ASSUME NEW s \in Seq(S), NEW t \in Seq(S), Len(s) = 3, s[1] = x, s[2] = y, s[3] = z,
                 Len(t) = 3, t[1] = x, t[2] = y, t[3] = z
          PROVE  s = t
        BY <2>4, SeqEqual
    <2>5. QED
        BY <2>1, <2>2, <2>3, <2>4, Zenon
<1>3. << >> \o << y >> = << y >>
    OBVIOUS
<1>4. << x, y >> \o << >> = << x, y >>
    OBVIOUS
<1>5. << y >> \o << >> = << y >>
    OBVIOUS
<1> QED BY <1>1, <1>2, <1>3, <1>4, <1>5

LEMMA JumpLeads ==
    ASSUME NEW from \in Pose, NEW to \in Pose, to.z # "between"
    PROVE  /\ Leads(JumpMoves(from, to), to)
           /\ \A p \in Pose : Covers(from, p) => Clear(p, JumpMoves(from, to)[1])
<1> DEFINE up == [from EXCEPT !.z = "safe"]
           across == [to EXCEPT !.z = "safe"]
<1>a. up = PoseOf(from.at, "safe", from.r) /\ across = PoseOf(to.at, "safe", to.r)
    BY PoseFields
<1>0. JumpMoves(from, to) = (IF from.z # "safe" THEN << up >> ELSE << >>)
                                \o << across >> \o (IF to.z # "safe" THEN << to >> ELSE << >>)
    BY DEF JumpMoves, up, across
<1> HIDE DEF up, across
<1>1. up \in Pose /\ up.at = from.at /\ up.z = "safe"
    BY <1>a, PoseFields, PosesAre DEF PoseOf, Heights
<1>2. across \in Pose /\ across.at = to.at /\ across.z = "safe" /\ (to.z = "safe" => across = to)
    <2>1. across \in Pose /\ across.at = to.at /\ across.z = "safe"
        BY <1>a, PoseFields, PosesAre DEF PoseOf, Heights
    <2>2. to.z = "safe" => across = to
        BY <1>a, PoseFields, Zenon
    <2>3. QED
        BY <2>1, <2>2
<1>3. ASSUME NEW m, m = JumpMoves(from, to)
      PROVE  Leads(m, to) /\ \A p \in Pose : Covers(from, p) => Clear(p, m[1])
    <2>1. CASE from.z # "safe" /\ to.z # "safe"
        <3>1. m = << up, across, to >>
            <4>1. m = (<< up >> \o << across >>) \o << to >>
                BY <1>0, <1>3, <2>1
            <4>2. /\ << up >> \o << across >> = << up, across >>
                  /\ << up, across >> \o << to >> = << up, across, to >>
                BY Joined, Zenon
            <4>3. QED
                BY <4>1, <4>2, Zenon
        <3>2. QED
            BY <1>1, <1>2, <2>1, <3>1 DEF Leads, Clear, Covers
    <2>2. CASE from.z # "safe" /\ to.z = "safe"
        <3>1. m = << up, across >>
            BY <1>0, <1>3, <2>2, Joined
        <3>2. QED
            BY <1>1, <1>2, <2>2, <3>1 DEF Leads, Clear, Covers
    <2>3. CASE from.z = "safe" /\ to.z # "safe"
        <3>1. m = << across, to >>
            BY <1>0, <1>3, <2>3, Joined
        <3>2. QED
            BY <1>1, <1>2, <2>3, <3>1 DEF Leads, Clear, Covers
    <2>4. CASE from.z = "safe" /\ to.z = "safe"
        <3>1. m = << across >>
            BY <1>0, <1>3, <2>4, Joined
        <3>2. QED
            BY <1>1, <1>2, <2>4, <3>1 DEF Leads, Clear, Covers
    <2>5. QED
        BY <2>1, <2>2, <2>3, <2>4
<1> QED BY <1>3

LEMMA BetweenCovers ==
    ASSUME NEW p \in Pose, NEW q \in Pose
    PROVE  /\ Between(p, q) \in Pose
           /\ Clear(p, q) => Covers(Between(p, q), q)
           /\ Covers(p, p)
<1>1. /\ Between(p, q).at = IF p.at = q.at THEN p.at ELSE Elsewhere
      /\ Between(p, q).z = IF p.z = q.z THEN p.z ELSE "between"
    BY DEF Between, PoseOf
<1>2. Between(p, q) \in Pose
    BY PoseFields, PosesAre DEF Between, OnTheWay, Heights
<1> QED BY <1>1, <1>2 DEF Clear, Covers

-----------------------------------------------------------------------------
(* Steps of the harvest process and of the arm *)

LEMMA HarvestStays == ASSUME HarvestInv, UNCHANGED harvestVars PROVE HarvestInv'
<1> USE DEF HarvestInv, harvestVars, processVars, robotVars
<1>1. HarvestTypes'
    BY DEF HarvestTypes
<1>2. Placed'
    BY DEF Placed, Station, PoseAt, CameraPose, PoseOf, HeightOf, Taken, Views3, Motions,
           Captures, Suctions, NoGoal, NoPicture
<1>3. Truthful'
    BY DEF Truthful, Spot, Covers, Pose, Places, Heights, Angles, NoGoal, NoPicture, PoseOf
<1>4. Planned'
    BY DEF Planned, Spot, Clear, Pose, Places, Heights, Angles, Station, PoseAt, CameraPose,
           PoseOf, HeightOf, NoGoal, NoPicture
<1> QED BY <1>1, <1>2, <1>3, <1>4

(* The run ends, whatever it has begun *)
LEMMA HarvestEnds ==
    ASSUME HarvestInv, Ends, UNCHANGED <<arm, passed>>, goal' \in {goal, NoGoal},
           suction' \in BOOLEAN
    PROVE  HarvestInv'
<1> USE DEF HarvestInv
<1>1. /\ phase' = "off" /\ moves' = << >> /\ results' = << >> /\ current_pose' = NoPicture
      /\ UNCHANGED <<arm, passed>> /\ goal' \in {goal, NoGoal}
    BY DEF Ends
<1>2. NoGoal \in Pose /\ NoPicture \in Pose /\ << >> \in Seq(Pose)
    BY DEF NoGoal, NoPicture, PoseOf, Pose, Heights
<1>3. HarvestTypes'
    BY <1>1, <1>2 DEF HarvestTypes
<1>4. \A p \in Pose : Spot(p)' => Spot(p)
    BY <1>1 DEF Spot
<1>5. Truthful'
    BY <1>1, <1>4 DEF Truthful
<1> QED BY <1>1, <1>3, <1>5 DEF Placed, Planned

LEMMA HarvestPlans ==
    ASSUME HarvestInv, NEW m, Plan(m), step \in Motions, Leads(m, Station(step + 1)),
           \A p \in Pose : Spot(p) => Clear(p, m[1])
    PROVE  HarvestInv'
<1> USE DEF HarvestInv
<1>1. /\ phase = "ready" /\ phase' = "go" /\ moves' = m
      /\ UNCHANGED <<step, current_pose, results, arm, goal, passed, suction>>
    BY DEF Plan, robotVars
<1>2. HarvestTypes'
    BY <1>1 DEF HarvestTypes, Leads
<1>3. Placed'
    BY <1>1 DEF Placed
<1>4. \A p : Spot(p)' <=> Spot(p)
    BY <1>1 DEF Spot
<1>5. Truthful'
    BY <1>1, <1>4 DEF Truthful
<1>6. Planned'
    BY <1>1, <1>4 DEF Planned, Leads
<1> QED BY <1>2, <1>3, <1>5, <1>6

LEMMA GoalStep == ASSUME HarvestInv, GoalAccepted PROVE HarvestInv'
<1> USE DEF HarvestInv
<1>1. /\ phase = "go" /\ phase' = "move" /\ goal' = Head(moves)
      /\ arm' = Between(arm, Head(moves)) /\ passed' = arm'
      /\ UNCHANGED <<step, current_pose, moves, results, suction>>
    BY DEF GoalAccepted
<1>2. moves \in Seq(Pose) /\ moves # << >> /\ Head(moves) = moves[1] /\ moves[1] \in Pose
    BY <1>1, HeadTailProperties DEF Planned, HarvestTypes
<1>3. Clear(arm, moves[1]) /\ arm \in Pose
    BY <1>1 DEF Planned, Spot, HarvestTypes
<1>4. arm' \in Pose /\ Covers(arm', moves[1]) /\ Covers(arm', arm')
    <2>1. Between(arm, moves[1]) \in Pose /\ Covers(Between(arm, moves[1]), moves[1])
        BY <1>2, <1>3, BetweenCovers
    <2>2. QED
        BY <1>1, <1>2, <2>1, BetweenCovers
<1>5. HarvestTypes'
    BY <1>1, <1>2, <1>4 DEF HarvestTypes
<1>6. Placed'
    BY <1>1 DEF Placed
<1>7. Truthful'
    BY <1>1, <1>2, <1>4 DEF Truthful, Spot
<1>8. Planned'
    BY <1>1, <1>2 DEF Planned
<1> QED BY <1>5, <1>6, <1>7, <1>8

LEMMA MotionStep == ASSUME HarvestInv, MotionSucceeds PROVE HarvestInv'
<1> USE DEF HarvestInv
<1>1. /\ phase = "move" /\ arm' = goal /\ goal' = NoGoal /\ current_pose' = Head(moves)
      /\ moves' = Tail(moves)
      /\ phase' = IF moves' = << >> THEN "ready" ELSE "go"
      /\ step' = IF moves' = << >> THEN step + 1 ELSE step
      /\ UNCHANGED <<results, passed, suction>>
    BY DEF MotionSucceeds
<1>2. /\ moves \in Seq(Pose) /\ moves # << >> /\ goal = moves[1] /\ step \in Motions
      /\ moves[Len(moves)] = Station(step + 1) /\ moves[1].z # "between"
      /\ \A i \in 1 .. Len(moves) : moves[i].z # "between"
      /\ \A i \in 1 .. Len(moves) - 1 : Clear(moves[i], moves[i + 1])
      /\ results = SubSeq(Views3, 1, Taken(step))
    <2>1. moves \in Seq(Pose) /\ moves # << >>
        BY <1>1 DEF Planned, HarvestTypes
    <2>2. 1 \in 1 .. Len(moves)
        BY <2>1, EmptySeq, LenProperties
    <2>3. QED
        BY <1>1, <2>1, <2>2 DEF Planned, Placed
<1>3. /\ Head(moves) = moves[1] /\ moves[1] \in Pose /\ Tail(moves) \in Seq(Pose)
      /\ Len(moves) \in Nat \ {0} /\ Len(Tail(moves)) = Len(moves) - 1
      /\ \A i \in 1 .. Len(moves) - 1 : Tail(moves)[i] = moves[i + 1]
    BY <1>2, EmptySeq, HeadTailProperties
<1>4. NoGoal \in Pose /\ NoGoal.z = "between"
    BY DEF NoGoal, NoPicture, PoseOf, Pose, Heights
<1>5. goal # NoGoal
    BY <1>2, <1>4
<1>6. HarvestTypes'
    BY <1>1, <1>2, <1>3, <1>4 DEF HarvestTypes
<1>7. Truthful'
    <2>1. Spot(goal) /\ goal \in Pose
        BY <1>2, <1>3, <1>5 DEF Spot
    <2>2. \A p \in Pose : Spot(p)' => p = goal
        BY <1>1 DEF Spot
    <2>3. Covers(goal, goal) /\ Covers(passed, goal)
        BY <2>1, BetweenCovers DEF Truthful
    <2>4. QED
        BY <1>1, <1>2, <1>3, <2>2, <2>3 DEF Truthful
<1>8. CASE moves' = << >>
    <2>1. Len(moves) = 1
        <3>1. Len(moves') = 0 /\ Len(moves') = Len(moves) - 1
            BY <1>1, <1>3, <1>8, EmptySeq, Zenon
        <3>2. Len(moves) \in Nat
            BY <1>3
        <3>3. QED
            BY <3>1, <3>2
    <2>2. arm' = Station(step + 1) /\ phase' = "ready" /\ step' = step + 1
        BY <1>1, <1>2, <1>8, <2>1
    <2>3. step + 1 \in 1 .. 14 /\ Taken(step + 1) = Taken(step)
        BY <1>2 DEF Motions, Taken
    <2>4. Placed'
        BY <1>1, <1>2, <2>2, <2>3 DEF Placed
    <2>5. QED
        BY <1>1, <1>6, <1>7, <1>8, <2>4 DEF Planned
<1>9. CASE moves' # << >>
    <2>1. phase' = "go" /\ step' = step
        BY <1>1, <1>9
    <2>2. Placed'
        BY <1>1, <2>1 DEF Placed
    <2>3. Len(moves') \in Nat \ {0} /\ Len(moves') = Len(moves) - 1
        BY <1>1, <1>3, <1>9, EmptySeq
    <2>4. moves'[Len(moves')] = Station(step + 1)
        BY <1>1, <1>2, <1>3, <2>3
    <2>5. /\ \A i \in 1 .. Len(moves') : moves'[i].z # "between"
          /\ \A i \in 1 .. Len(moves') - 1 : Clear(moves'[i], moves'[i + 1])
        <3>1. \A i \in 1 .. Len(moves') : i + 1 \in 1 .. Len(moves) /\ moves'[i] = moves[i + 1]
            BY <1>1, <1>3, <2>3
        <3>2. \A i \in 1 .. Len(moves') - 1 :
                 /\ i \in 1 .. Len(moves') /\ i + 1 \in 1 .. Len(moves') /\ i + 1 \in 1 .. Len(moves) - 1
            BY <1>3, <2>3
        <3>3. QED
            BY <1>2, <3>1, <3>2
    <2>6. \A p \in Pose : Spot(p)' => Clear(p, moves'[1])
        <3>1. Clear(moves[1], moves[2]) /\ moves'[1] = moves[2]
            BY <1>1, <1>2, <1>3, <2>3
        <3>2. QED
            BY <1>1, <1>2, <3>1 DEF Spot
    <2>7. Planned'
        BY <1>9, <2>1, <2>4, <2>5, <2>6 DEF Planned
    <2>8. QED
        BY <1>6, <1>7, <2>2, <2>7
<1> QED BY <1>8, <1>9

LEMMA PlacedStays ==
    ASSUME Placed, UNCHANGED <<phase, step, results, arm, goal>>
    PROVE  Placed'
BY DEF Placed

LEMMA PlannedStays ==
    ASSUME Planned, UNCHANGED <<phase, step, moves, arm, goal>>
    PROVE  Planned'
<1>1. \A p : Spot(p)' <=> Spot(p)
    BY DEF Spot
<1> QED BY <1>1 DEF Planned

(* A message tells of the arm, or of where its latest motion went through *)
LEMMA MessageStep == ASSUME HarvestInv, PoseMessage PROVE HarvestInv'
<1> USE DEF HarvestInv
<1>1. /\ current_pose' \in {arm, passed}
      /\ UNCHANGED <<phase, step, moves, results, arm, goal, passed, suction>>
    BY DEF PoseMessage, robotVars
<1>2. HarvestTypes'
    BY <1>1 DEF HarvestTypes
<1>3. \A p : Spot(p)' <=> Spot(p)
    BY <1>1 DEF Spot
<1>4. Truthful'
    BY <1>1, <1>3 DEF Truthful
<1> QED BY <1>1, <1>2, <1>4, PlacedStays, PlannedStays

(* A motion nobody waits for ends: the first jump counts with it *)
LEMMA ArriveStep == ASSUME HarvestInv, ArmArrives PROVE HarvestInv'
<1> USE DEF HarvestInv
<1>1. /\ phase # "move" /\ goal # NoGoal /\ arm' \in {arm, goal} /\ goal' = NoGoal
      /\ UNCHANGED <<passed, suction, phase, step, current_pose, moves, results>>
    BY DEF ArmArrives, processVars
<1>2. arm' \in Pose /\ Spot(arm') /\ NoGoal \in Pose
    BY <1>1 DEF HarvestTypes, Spot, NoGoal, NoPicture, PoseOf, Pose, Heights
<1>3. HarvestTypes'
    BY <1>1, <1>2 DEF HarvestTypes
<1>4. Placed'
    BY <1>1 DEF Placed, Suctions, Captures
<1>5. \A p \in Pose : Spot(p)' => p = arm' /\ Spot(p)
    BY <1>1, <1>2 DEF Spot
<1>6. Truthful'
    BY <1>1, <1>2, <1>5, BetweenCovers DEF Truthful
<1>7. Planned'
    BY <1>1, <1>5 DEF Planned
<1> QED BY <1>3, <1>4, <1>6, <1>7

(* What is taken before each instruction *)
LEMMA ViewsTaken ==
    /\ SubSeq(Views3, 1, 0) = << >>
    /\ SubSeq(Views3, 1, 1) = << CameraPose(0) >>
    /\ SubSeq(Views3, 1, 2) = << CameraPose(0), CameraPose(120) >>
    /\ SubSeq(Views3, 1, 3) = Views3
<1> DEFINE S == {CameraPose(0), CameraPose(120), CameraPose(-120)}
<1>1. /\ Views3 \in Seq(S) /\ Len(Views3) = 3 /\ Views3[1] = CameraPose(0)
      /\ Views3[2] = CameraPose(120) /\ Views3[3] = CameraPose(-120)
    BY DEF Views3
<1>2. ASSUME NEW n \in 0 .. 3
      PROVE  /\ SubSeq(Views3, 1, n) \in Seq(S) /\ Len(SubSeq(Views3, 1, n)) = n
             /\ \A i \in 1 .. n : SubSeq(Views3, 1, n)[i] = Views3[i]
    <2> HIDE DEF S
    <2>1. 1 \in Int /\ n \in Int /\ \A i \in 1 .. n : Views3[i] \in S
        <3>1. Views3[1] \in S /\ Views3[2] \in S /\ Views3[3] \in S
            BY <1>1 DEF S
        <3>2. \A i \in 1 .. n : i = 1 \/ i = 2 \/ i = 3
            OBVIOUS
        <3>3. QED
            BY <3>1, <3>2
    <2>2. /\ SubSeq(Views3, 1, n) \in Seq(S)
          /\ Len(SubSeq(Views3, 1, n)) = IF 1 <= n THEN n - 1 + 1 ELSE 0
          /\ \A i \in 1 .. n - 1 + 1 : SubSeq(Views3, 1, n)[i] = Views3[1 + i - 1]
        BY <2>1, SubSeqProperties
    <2>3. QED
        BY <2>2
<1>3. /\ << >> \in Seq(S) /\ << CameraPose(0) >> \in Seq(S)
      /\ << CameraPose(0), CameraPose(120) >> \in Seq(S)
    OBVIOUS
<1> HIDE DEF S
<1>4. SubSeq(Views3, 1, 0) = << >>
    BY <1>2, <1>3, SeqEqual
<1>5. SubSeq(Views3, 1, 1) = << CameraPose(0) >>
    <2>1. Len(SubSeq(Views3, 1, 1)) = 1 /\ SubSeq(Views3, 1, 1)[1] = CameraPose(0)
        BY <1>1, <1>2
    <2>2. Len(<< CameraPose(0) >>) = 1 /\ << CameraPose(0) >>[1] = CameraPose(0)
        OBVIOUS
    <2>3. ASSUME NEW s \in Seq(S), NEW t \in Seq(S), Len(s) = 1, Len(t) = 1, s[1] = t[1]
          PROVE  s = t
        BY <2>3, SeqEqual
    <2>4. 1 \in 0 .. 3
        OBVIOUS
    <2>5. QED
        BY <1>2, <1>3, <2>1, <2>2, <2>3, <2>4, Zenon
<1>6. SubSeq(Views3, 1, 2) = << CameraPose(0), CameraPose(120) >>
    <2> DEFINE two == << CameraPose(0), CameraPose(120) >>
    <2>1. /\ Len(SubSeq(Views3, 1, 2)) = 2
          /\ SubSeq(Views3, 1, 2)[1] = CameraPose(0) /\ SubSeq(Views3, 1, 2)[2] = CameraPose(120)
        BY <1>1, <1>2
    <2>2. Len(two) = 2 /\ two[1] = CameraPose(0) /\ two[2] = CameraPose(120)
        OBVIOUS
    <2>3. ASSUME NEW s \in Seq(S), NEW t \in Seq(S), Len(s) = 2, Len(t) = 2, s[1] = t[1], s[2] = t[2]
          PROVE  s = t
        BY <2>3, SeqEqual
    <2>4. 2 \in 0 .. 3
        OBVIOUS
    <2>5. two \in Seq(S)
        BY <1>3
    <2> HIDE DEF two
    <2>6. SubSeq(Views3, 1, 2) = two
        BY <1>2, <2>1, <2>2, <2>3, <2>4, <2>5, Zenon
    <2>7. QED
        BY <2>6 DEF two
<1>7. SubSeq(Views3, 1, 3) = Views3
    BY <1>1, <1>2, SeqEqual
<1> QED BY <1>4, <1>5, <1>6, <1>7

LEMMA Appended == ASSUME NEW x, NEW y PROVE Append(<< x >>, y) = << x, y >>
<1> DEFINE S == {x, y}
<1>1. << x >> \in Seq(S) /\ y \in S /\ << x, y >> \in Seq(S) /\ Len(<< x >>) = 1 /\ << x >>[1] = x
    OBVIOUS
<1>2. Len(<< x, y >>) = 2 /\ << x, y >>[1] = x /\ << x, y >>[2] = y
    OBVIOUS
<1> HIDE DEF S
<1>3. /\ Append(<< x >>, y) \in Seq(S) /\ Len(Append(<< x >>, y)) = 2
      /\ Append(<< x >>, y)[1] = x /\ Append(<< x >>, y)[2] = y
    BY <1>1, AppendProperties
<1>4. ASSUME NEW s \in Seq(S), NEW t \in Seq(S), Len(s) = 2, Len(t) = 2, s[1] = t[1], s[2] = t[2]
      PROVE  s = t
    BY <1>4, SeqEqual
<1> QED BY <1>1, <1>2, <1>3, <1>4, Zenon

LEMMA StartStep == ASSUME HarvestInv, HarvestStarts PROVE HarvestInv'
<1> USE DEF HarvestInv
<1>1. /\ phase = "off" /\ phase' = "wait"
      /\ UNCHANGED <<step, current_pose, moves, results, arm, goal, passed, suction>>
    BY DEF HarvestStarts, robotVars
<1>2. HarvestTypes' /\ Placed' /\ Planned'
    BY <1>1 DEF HarvestTypes, Placed, Planned
<1>3. \A p : Spot(p)' <=> Spot(p)
    BY <1>1 DEF Spot
<1>4. Truthful'
    BY <1>1, <1>3 DEF Truthful
<1> QED BY <1>2, <1>4

LEMMA PoseStep == ASSUME HarvestInv, PoseReceived PROVE HarvestInv'
<1> USE DEF HarvestInv
<1>1. /\ phase = "wait" /\ phase' = "ready" /\ step' = 1 /\ current_pose' = arm
      /\ UNCHANGED <<moves, results, arm, goal, passed, suction>>
    BY DEF PoseReceived, robotVars
<1>2. HarvestTypes'
    BY <1>1 DEF HarvestTypes
<1>3. Placed'
    <2>1. results' = SubSeq(Views3, 1, Taken(1))
        BY <1>1, ViewsTaken DEF Placed, Taken
    <2>2. QED
        BY <1>1, <2>1 DEF Placed
<1>4. \A p : Spot(p)' <=> Spot(p)
    BY <1>1 DEF Spot
<1>5. Truthful'
    BY <1>1, <1>4 DEF Truthful
<1>6. Planned'
    BY <1>1 DEF Planned
<1> QED BY <1>2, <1>3, <1>5, <1>6

(* Between two instructions the run knows what the program says *)
LEMMA ReadyAt ==
    ASSUME HarvestInv, phase = "ready"
    PROVE  /\ step \in 1 .. 14
           /\ step > 1 => arm = Station(step) /\ goal = NoGoal
           /\ \A p \in Pose : Spot(p) => Covers(current_pose, p)
BY DEF HarvestInv, Placed, Truthful

(* A jump leads from the pose the process believes in to the next station *)
LEMMA JumpingStep ==
    ASSUME HarvestInv, step \in Motions, Plan(JumpMoves(current_pose, Station(step + 1)))
    PROVE  HarvestInv'
<1>1. phase = "ready" /\ step + 1 \in 2 .. 14
    BY DEF Plan, Motions
<1>2. Station(step + 1) \in Pose /\ Station(step + 1).z # "between" /\ current_pose \in Pose
    BY <1>1, StationsAre DEF HarvestInv, HarvestTypes
<1>3. /\ Leads(JumpMoves(current_pose, Station(step + 1)), Station(step + 1))
      /\ \A p \in Pose : Covers(current_pose, p)
                        => Clear(p, JumpMoves(current_pose, Station(step + 1))[1])
    BY <1>2, JumpLeads, Zenon
<1>4. \A p \in Pose : Spot(p) => Clear(p, JumpMoves(current_pose, Station(step + 1))[1])
    BY <1>1, <1>3, ReadyAt, Zenon
<1> QED BY <1>3, <1>4, HarvestPlans, Zenon

LEMMA JumpStep == ASSUME HarvestInv, BeginJump \/ BeginPlace PROVE HarvestInv'
<1>1. CASE BeginJump
    <2>1. phase = "ready" /\ Doing("jump") /\ Plan(JumpMoves(current_pose, PoseAt(Arg)))
        BY <1>1 DEF BeginJump, Plan
    <2>2. step \in Motions /\ PoseAt(Arg) = Station(step + 1)
        BY <2>1, ReadyAt, ProgramSteps DEF Motions
    <2>3. QED
        BY <2>1, <2>2, JumpingStep, Zenon
<1>2. CASE BeginPlace
    <2>1. phase = "ready" /\ Doing("place") /\ Plan(JumpMoves(current_pose, PoseAt("conveyor")))
        BY <1>2 DEF BeginPlace, Plan
    <2>2. step \in Motions /\ PoseAt("conveyor") = Station(step + 1)
        BY <2>1, ReadyAt, ProgramSteps DEF Motions
    <2>3. QED
        BY <2>1, <2>2, JumpingStep, Zenon
<1> QED BY <1>1, <1>2

LEMMA RotateStep == ASSUME HarvestInv, BeginRotate PROVE HarvestInv'
<1>1. phase = "ready" /\ Doing("rotate") /\ Plan(<< CameraPose(Arg) >>)
    BY DEF BeginRotate, Plan
<1>2. step \in {4, 6, 8, 10} /\ CameraPose(Arg) = Station(step + 1)
    BY <1>1, ReadyAt, ProgramSteps
<1>3. /\ step \in Motions /\ step + 1 \in 2 .. 14 /\ step + 1 \in 4 .. 11
      /\ step \in 2 .. 14 /\ step \in 4 .. 11 /\ step > 1
    BY <1>2 DEF Motions
<1>4. /\ Station(step + 1) \in Pose /\ Station(step + 1).z # "between"
      /\ Station(step + 1).at = "camera" /\ Station(step).at = "camera"
    BY <1>3, StationsAre
<1>5. arm = Station(step) /\ goal = NoGoal
    BY <1>1, <1>3, ReadyAt
<1> DEFINE m == << Station(step + 1) >>
<1>6. Plan(m)
    BY <1>1, <1>2, Zenon
<1>7. Leads(m, Station(step + 1)) /\ m[1] = Station(step + 1)
    BY <1>4 DEF Leads
<1>8. \A p \in Pose : Spot(p) => Clear(p, m[1])
    BY <1>4, <1>5, <1>7 DEF Spot, Clear
<1> HIDE DEF m
<1> QED BY <1>3, <1>6, <1>7, <1>8, HarvestPlans, Zenon

(* The process asks for something that does not move the arm *)
LEMMA CallStep ==
    ASSUME HarvestInv, phase = "ready", phase' \in {"suction", "capture"},
           phase' = "suction" => Doing("suction"), phase' = "capture" => Doing("capture"),
           UNCHANGED <<step, current_pose, moves, results, robotVars>>
    PROVE  HarvestInv'
<1> USE DEF HarvestInv
<1>1. UNCHANGED <<step, current_pose, moves, results, arm, goal, passed, suction>>
    BY DEF robotVars
<1>2. /\ step \in 1 .. 14 /\ phase' = "suction" => step \in Suctions
      /\ phase' = "capture" => step \in Captures
    BY ReadyAt, ProgramSteps
<1>3. HarvestTypes'
    BY <1>1 DEF HarvestTypes
<1>4. Placed'
    BY <1>1, <1>2 DEF Placed
<1>5. \A p : Spot(p)' <=> Spot(p)
    BY <1>1 DEF Spot
<1>6. Truthful'
    BY <1>1, <1>5 DEF Truthful
<1>7. Planned'
    BY <1>1 DEF Planned
<1> QED BY <1>3, <1>4, <1>6, <1>7

(* ... and goes on when it has been done *)
LEMMA AdvanceStep ==
    ASSUME HarvestInv, phase \in {"suction", "capture"}, Advance,
           UNCHANGED <<current_pose, moves, arm, goal, passed>>, suction' \in BOOLEAN,
           step \in Suctions \cup Captures, results' = SubSeq(Views3, 1, Taken(step + 1)),
           results' \in Seq(Pose)
    PROVE  HarvestInv'
<1> USE DEF HarvestInv
<1>1. phase' = "ready" /\ step' = step + 1
    BY DEF Advance
<1>2. HarvestTypes'
    BY DEF HarvestTypes
<1>3. step \in {2, 12, 5, 7, 9}
    BY DEF Suctions, Captures
<1>4. arm = Station(step) /\ goal = NoGoal
    BY <1>3 DEF Placed
<1>5. Station(step + 1) = Station(step)
    BY <1>3 DEF Station
<1>6. Placed'
    BY <1>1, <1>3, <1>4, <1>5 DEF Placed
<1>7. \A p : Spot(p)' <=> Spot(p)
    BY DEF Spot
<1>8. Truthful'
    BY <1>1, <1>7 DEF Truthful
<1>9. Planned'
    BY <1>1 DEF Planned
<1> QED BY <1>2, <1>6, <1>8, <1>9

LEMMA SuctionStep == ASSUME HarvestInv, SuctionSet PROVE HarvestInv'
<1>1. /\ phase = "suction" /\ suction' = Arg /\ Advance
      /\ UNCHANGED <<current_pose, moves, results, arm, goal, passed>>
    BY DEF SuctionSet
<1>2. step \in Suctions /\ step \in 1 .. 14 /\ results = SubSeq(Views3, 1, Taken(step))
    BY <1>1 DEF HarvestInv, Placed
<1>3. Arg \in BOOLEAN
    BY <1>2, ProgramSteps DEF Suctions
<1>4. Taken(step + 1) = Taken(step)
    BY <1>2 DEF Suctions, Taken
<1>5. results' = SubSeq(Views3, 1, Taken(step + 1)) /\ results' \in Seq(Pose)
    BY <1>1, <1>2, <1>4 DEF HarvestInv, HarvestTypes
<1> QED BY <1>1, <1>2, <1>3, <1>5, AdvanceStep

(* The picture is of the arm at the place and the angle of the instruction *)
LEMMA PictureStep ==
    ASSUME HarvestInv, Captured(PictureOf(arm))
    PROVE  HarvestInv'
<1>1. /\ phase = "capture" /\ results' = Append(results, PictureOf(arm)) /\ Advance
      /\ UNCHANGED <<current_pose, moves, arm, goal, passed, suction>>
    BY DEF Captured, robotVars
<1>2. /\ step \in Captures /\ step \in 1 .. 14 /\ results = SubSeq(Views3, 1, Taken(step))
      /\ arm = Station(step)
    BY <1>1 DEF HarvestInv, Placed, Captures
<1>3. step \in {5, 7, 9} /\ step \in 2 .. 14 /\ step \in 4 .. 11
    BY <1>2 DEF Captures
<1>4. PictureOf(arm) = Station(step)
    BY <1>2, <1>3, StationsAre DEF PictureOf
<1>5. results' = SubSeq(Views3, 1, Taken(step + 1))
    <2>1. CASE step = 5
        <3>1. Taken(step) = 0 /\ Taken(step + 1) = 1 /\ Station(step) = CameraPose(0)
            BY <2>1 DEF Taken, Station
        <3>2. results' = Append(<< >>, CameraPose(0))
            BY <1>1, <1>2, <1>4, <3>1, ViewsTaken, Zenon
        <3>3. results' = << CameraPose(0) >>
            BY <3>2
        <3>4. QED
            BY <3>1, <3>3, ViewsTaken, Zenon
    <2>2. CASE step = 7
        <3>1. Taken(step) = 1 /\ Taken(step + 1) = 2 /\ Station(step) = CameraPose(120)
            BY <2>2 DEF Taken, Station
        <3>2. results' = Append(<< CameraPose(0) >>, CameraPose(120))
            BY <1>1, <1>2, <1>4, <3>1, ViewsTaken, Zenon
        <3>3. results' = << CameraPose(0), CameraPose(120) >>
            BY <3>2, Appended, Zenon
        <3>4. QED
            BY <3>1, <3>3, ViewsTaken, Zenon
    <2>3. CASE step = 9
        <3>1. Taken(step) = 2 /\ Taken(step + 1) = 3 /\ Station(step) = CameraPose(-120)
            BY <2>3 DEF Taken, Station
        <3>2. QED
            BY <1>1, <1>2, <1>4, <3>1, ViewsTaken DEF Views3
    <2>4. QED
        BY <1>3, <2>1, <2>2, <2>3
<1>6. results' \in Seq(Pose)
    BY <1>1, <1>2, <1>3, <1>4, StationsAre DEF HarvestInv, HarvestTypes
<1> QED BY <1>1, <1>2, <1>5, <1>6, AdvanceStep DEF HarvestInv, HarvestTypes

-----------------------------------------------------------------------------
(* Steps of the capture chain *)

LEMMA Kinds ==
    /\ Silence.kind = "none" /\ Command.kind = "capture" /\ CameraError.kind = "error"
    /\ Silence # Command
    /\ \A p : Message("ok", p).kind = "ok" /\ Message("ok", p).picture = p
    /\ Wanted # Gone /\ NoRequest # Wanted /\ NoRequest # Gone
BY DEF Silence, Command, CameraError, Message, Wanted, Gone, NoRequest

LEMMA SamePicture == ASSUME UNCHANGED arm PROVE PictureOf(arm)' = PictureOf(arm)
BY DEF PictureOf, NoPicture, PoseOf

(* While no run waits for a picture nobody is asking for one *)
LEMMA ChainIdle ==
    ASSUME ChainInv, phase # "capture", UNCHANGED chainVars
    PROVE  ChainInv'
<1> USE DEF ChainInv, chainVars, daemonVars, linkVars
<1>1. Chained' /\ OneLive'
    BY DEF Chained, OneLive, Silence, Message, NoPicture, PoseOf
<1>2. Asked'
    BY DEF Asked, Wanted, Gone, PictureOf, NoPicture, PoseOf
<1> QED BY <1>1, <1>2

LEMMA ChainStays ==
    ASSUME ChainInv, UNCHANGED <<harvestVars, chainVars>>
    PROVE  ChainInv'
<1> USE DEF ChainInv, chainVars, daemonVars, linkVars, harvestVars, processVars, robotVars
<1>1. Chained' /\ OneLive'
    BY DEF Chained, OneLive, Silence, Message, NoPicture, PoseOf
<1>2. PictureOf(arm)' = PictureOf(arm)
    BY SamePicture
<1>3. Asked'
    BY <1>2 DEF Asked, Wanted, Gone
<1> QED BY <1>1, <1>3

(* A client that leaves takes its request and its answer with it *)
LEMMA LeaveStep == ASSUME ChainInv, ClientLeaves PROVE ChainInv'
<1> USE DEF ChainInv
<1>1. /\ reply' = Silence /\ queue' = [i \in DOMAIN queue |-> Gone]
      /\ request' = IF request = Wanted THEN Gone ELSE request
      /\ UNCHANGED <<dpc, attempt, pi_conn, channel, backlog, pi_pc>>
    BY DEF ClientLeaves, linkVars
<1>2. Chained' /\ OneLive'
    BY <1>1 DEF Chained, OneLive, Silence, Message, NoPicture, PoseOf
<1>3. /\ queue' \in Seq({Wanted, Gone}) /\ \A i \in 1 .. Len(queue') : queue'[i] = Gone
    <2>1. queue \in Seq({Wanted, Gone}) /\ DOMAIN queue = 1 .. Len(queue) /\ Len(queue) \in Nat
        BY LenProperties DEF Asked
    <2>2. queue' = [i \in 1 .. Len(queue) |-> Gone]
        BY <1>1, <2>1
    <2>3. queue' \in Seq({Wanted, Gone}) /\ Len(queue') = Len(queue)
        BY <2>1, <2>2
    <2>4. QED
        BY <2>2, <2>3
<1>4. request' # Wanted /\ reply'.kind # "ok"
    BY <1>1, Kinds
<1>5. Asked'
    BY <1>3, <1>4, Kinds DEF Asked, Wanted, Gone
<1> QED BY <1>2, <1>5

LEMMA AskStep == ASSUME ChainInv, Asks PROVE ChainInv'
<1> USE DEF ChainInv
<1>1. /\ phase = "ready" /\ phase' = "capture" /\ queue' = Append(queue, Wanted)
      /\ UNCHANGED <<reply, dpc, attempt, request, pi_conn, channel, backlog, pi_pc, arm>>
    BY DEF Asks, BeginCapture, ClientAsks, linkVars, robotVars
<1>2. Chained' /\ OneLive'
    BY <1>1 DEF Chained, OneLive, Silence, Message, NoPicture, PoseOf
<1>3. queue' \in Seq({Wanted, Gone})
    BY <1>1, AppendProperties DEF Asked
<1>4. request' # Wanted /\ reply'.kind # "ok"
    BY <1>1 DEF Asked
<1>5. Asked'
    BY <1>1, <1>3, <1>4 DEF Asked, Wanted, Gone
<1> QED BY <1>2, <1>5

LEMMA DaemonKeeps ==
    ASSUME ChainInv, DaemonStep
    PROVE  ChainInv'
<1> USE DEF ChainInv
<1>0. UNCHANGED <<phase, arm>>
    BY DEF DaemonStep, harvestVars, processVars, robotVars
<1>a. PictureOf(arm)' = PictureOf(arm)
    BY <1>0, SamePicture
<1>b. Silence' = Silence
    BY DEF Silence, Message, NoPicture, PoseOf
<1>c. backlog # << >> => /\ Head(backlog) = backlog[1] /\ 1 \in 1 .. Len(backlog)
                         /\ Tail(backlog) \in Seq({"live", "dead"})
                         /\ Len(backlog) \in Nat \ {0} /\ Len(Tail(backlog)) = Len(backlog) - 1
                         /\ \A i \in 1 .. Len(backlog) - 1 : Tail(backlog)[i] = backlog[i + 1]
    BY EmptySeq, HeadTailProperties DEF OneLive
<1>d. queue # << >> => /\ Head(queue) = queue[1] /\ 1 \in 1 .. Len(queue)
                       /\ Tail(queue) \in Seq({Wanted, Gone})
                       /\ Len(queue) \in Nat \ {0} /\ Len(Tail(queue)) = Len(queue) - 1
                       /\ \A i \in 1 .. Len(queue) - 1 : Tail(queue)[i] = queue[i + 1]
    BY EmptySeq, HeadTailProperties DEF Asked
<1>1. CASE DaemonStarts
    <2>1. /\ dpc = "down" /\ dpc' = "first"
          /\ UNCHANGED <<reply, queue, request, pi_conn, channel, backlog, pi_pc>>
        BY <1>1 DEF DaemonStarts, linkVars
    <2>2. Chained' /\ OneLive'
        BY <2>1, <1>b DEF Chained, OneLive
    <2>3. Asked'
        BY <2>1, <1>0, <1>a DEF Asked, Wanted, Gone
    <2>4. QED
        BY <2>2, <2>3
<1>2. CASE AcceptPi
    <2>1. /\ dpc \in {"first", "again"} /\ backlog # << >>
          /\ pi_conn' = Head(backlog) /\ backlog' = Tail(backlog) /\ channel' = Silence
          /\ dpc' \in {"control", "send"} /\ UNCHANGED <<reply, queue, request, pi_pc>>
        BY <1>2 DEF AcceptPi
    <2>2. Chained'
        BY <2>1, <1>b, <1>c DEF Chained, OneLive
    <2>3. OneLive'
        <3>1. ASSUME NEW i \in 1 .. Len(backlog'), backlog'[i] = "live"
              PROVE  /\ i + 1 \in 1 .. Len(backlog) /\ backlog[i + 1] = "live"
            BY <2>1, <1>c, <3>1
        <3>2. ASSUME NEW i \in 1 .. Len(backlog'), backlog'[i] = "live"
              PROVE  /\ pi_conn' # "live" /\ pi_pc' = "waiting"
                     /\ \A j \in 1 .. Len(backlog') : backlog'[j] = "live" => j = i
            <4>1. backlog[i + 1] = "live" /\ i + 1 \in 1 .. Len(backlog)
                BY <3>1, <3>2
            <4>2. \A j \in 1 .. Len(backlog) : backlog[j] = "live" => j = i + 1
                BY <4>1 DEF OneLive
            <4>3. backlog[1] # "live"
                BY <4>2, <2>1, <1>c
            <4>4. \A j \in 1 .. Len(backlog') : backlog'[j] = "live" => j = i
                BY <4>2, <3>1
            <4>5. QED
                BY <4>1, <4>3, <4>4, <2>1, <1>c DEF OneLive
        <3>3. QED
            BY <3>2, <2>1, <1>c DEF OneLive
    <2>4. Asked'
        BY <2>1, <1>0, <1>a DEF Asked, Wanted, Gone
    <2>5. QED
        BY <2>2, <2>3, <2>4
<1>3. CASE TakeRequest
    <2>1. /\ dpc = "control" /\ queue # << >> /\ request' = Head(queue) /\ queue' = Tail(queue)
          /\ dpc' = "send" /\ UNCHANGED <<reply, pi_conn, channel, backlog, pi_pc>>
        BY <1>3 DEF TakeRequest, linkVars
    <2>2. Chained' /\ OneLive'
        BY <2>1, <1>b DEF Chained, OneLive
    <2>3. /\ request' = queue[1] /\ 1 \in 1 .. Len(queue) /\ queue' \in Seq({Wanted, Gone})
          /\ \A i \in 1 .. Len(queue') : i + 1 \in 1 .. Len(queue) /\ queue'[i] = queue[i + 1]
        BY <2>1, <1>d
    <2>4. Asked'
        BY <2>1, <2>3, <1>0, <1>a DEF Asked, Wanted, Gone
    <2>5. QED
        BY <2>2, <2>4
<1>4. CASE ReadsNothing
    <2>1. /\ dpc = "control" /\ queue # << >> /\ queue' = Tail(queue)
          /\ UNCHANGED <<reply, dpc, request, pi_conn, channel, backlog, pi_pc>>
        BY <1>4 DEF ReadsNothing, linkVars
    <2>2. Chained' /\ OneLive'
        BY <2>1, <1>b DEF Chained, OneLive
    <2>3. /\ queue' \in Seq({Wanted, Gone})
          /\ \A i \in 1 .. Len(queue') : i + 1 \in 1 .. Len(queue) /\ queue'[i] = queue[i + 1]
        BY <2>1, <1>d
    <2>4. Asked'
        BY <2>1, <2>3, <1>0, <1>a DEF Asked, Wanted, Gone
    <2>5. QED
        BY <2>2, <2>4
<1>5. CASE SendCommand
    <2>1. /\ dpc = "send" /\ dpc' = "await" /\ channel' \in {Command, Silence}
          /\ UNCHANGED <<reply, queue, request, pi_conn, backlog, pi_pc>>
        BY <1>5 DEF SendCommand
    <2>2. Chained' /\ OneLive'
        BY <2>1, <1>b DEF Chained, OneLive
    <2>3. Asked'
        BY <2>1, <1>0, <1>a, Kinds DEF Asked, Wanted, Gone
    <2>4. QED
        BY <2>2, <2>3
<1>6. CASE Deliver \/ ReportError
    <2>1. /\ dpc = "await" /\ channel.kind \in {"ok", "error"} /\ dpc' = "control"
          /\ request' = NoRequest /\ channel' = Silence
          /\ UNCHANGED <<queue, pi_conn, backlog, pi_pc>>
        BY <1>6 DEF Deliver, ReportError, Answer
    <2>2. \/ channel.kind = "ok" /\ reply' = IF request = Wanted THEN channel ELSE reply
          \/ reply' \in {CameraError, reply}
        BY <1>6 DEF Deliver, ReportError, Answer
    <2>3. Chained' /\ OneLive'
        BY <2>1, <1>b, Kinds DEF Chained, OneLive
    <2>4. reply'.kind = "ok" => phase = "capture" /\ reply'.picture = PictureOf(arm)
        BY <2>1, <2>2, Kinds DEF Asked
    <2>5. Asked'
        BY <2>1, <2>4, <1>0, <1>a, Kinds DEF Asked, Wanted, Gone
    <2>6. QED
        BY <2>3, <2>5
<1>7. CASE LinkFails
    <2>1. /\ pi_conn' = "closed" /\ channel' = Silence /\ dpc' \in {"again", "control"}
          /\ request' \in {request, NoRequest} /\ reply' \in {reply, CameraError}
          /\ UNCHANGED <<queue, backlog, pi_pc>>
        BY <1>7 DEF LinkFails, FirstFailure, SecondFailure, DropConnection, Answer
    <2>2. Chained' /\ OneLive'
        BY <2>1, <1>b DEF Chained, OneLive
    <2>3. Asked'
        BY <2>1, <1>0, <1>a, Kinds DEF Asked, Wanted, Gone
    <2>4. QED
        BY <2>2, <2>3
<1> QED BY <1>1, <1>2, <1>3, <1>4, <1>5, <1>6, <1>7 DEF DaemonStep

LEMMA PiKeeps ==
    ASSUME ChainInv, PiStep
    PROVE  ChainInv'
<1> USE DEF ChainInv
<1>0. UNCHANGED <<phase, arm>>
    BY DEF PiStep, harvestVars, processVars, robotVars
<1>a. PictureOf(arm)' = PictureOf(arm)
    BY <1>0, SamePicture
<1>b. Silence' = Silence
    BY DEF Silence, Message, NoPicture, PoseOf
<1>1. CASE PiConnects
    <2>1. /\ pi_pc = "offline" /\ backlog' = Append(backlog, "live") /\ pi_pc' = "waiting"
          /\ UNCHANGED <<reply, queue, dpc, request, pi_conn, channel>>
        BY <1>1 DEF PiConnects, daemonVars
    <2>2. Chained'
        BY <2>1, <1>b DEF Chained
    <2>3. \A i \in 1 .. Len(backlog) : backlog[i] # "live"
        BY <2>1 DEF OneLive
    <2>4. /\ backlog' \in Seq({"live", "dead"}) /\ Len(backlog') = Len(backlog) + 1
          /\ Len(backlog) \in Nat /\ \A i \in 1 .. Len(backlog) : backlog'[i] = backlog[i]
        BY <2>1, LenProperties, AppendProperties DEF OneLive
    <2>5. \A i \in 1 .. Len(backlog') : backlog'[i] = "live" => i = Len(backlog')
        BY <2>3, <2>4
    <2>6. OneLive'
        BY <2>1, <2>4, <2>5 DEF OneLive, Chained
    <2>7. Asked'
        BY <2>1, <1>0, <1>a DEF Asked, Wanted, Gone
    <2>8. QED
        BY <2>2, <2>6, <2>7
<1>2. CASE PiReads
    <2>1. /\ pi_pc = "waiting" /\ pi_conn = "live" /\ channel = Command /\ channel' = Silence
          /\ pi_pc' = "capturing" /\ UNCHANGED <<reply, queue, dpc, request, pi_conn, backlog>>
        BY <1>2 DEF PiReads, daemonVars
    <2>2. Chained' /\ OneLive'
        BY <2>1, <1>b, Kinds DEF Chained, OneLive
    <2>3. Asked'
        BY <2>1, <1>0, <1>a, Kinds DEF Asked, Wanted, Gone
    <2>4. QED
        BY <2>2, <2>3
<1>3. CASE PiAnswers(PictureOf(arm))
    <2>1. /\ pi_pc = "capturing" /\ pi_conn = "live" /\ pi_pc' = "waiting"
          /\ channel' \in {Message("ok", PictureOf(arm)), CameraError}
          /\ UNCHANGED <<reply, queue, dpc, request, pi_conn, backlog>>
        BY <1>3 DEF PiAnswers, daemonVars
    <2>2. Chained' /\ OneLive'
        BY <2>1, <1>b DEF Chained, OneLive
    <2>3. channel'.kind = "ok" => channel'.picture = PictureOf(arm)
        BY <2>1, Kinds
    <2>4. Asked'
        BY <2>1, <2>3, <1>0, <1>a DEF Asked, Wanted, Gone
    <2>5. QED
        BY <2>2, <2>4
<1>4. CASE PiNotices
    <2>1. /\ ~Linked /\ pi_pc' = "offline"
          /\ UNCHANGED <<reply, queue, dpc, request, pi_conn, channel, backlog>>
        BY <1>4 DEF PiNotices, daemonVars
    <2>2. pi_conn # "live" /\ \A i \in 1 .. Len(backlog) : backlog[i] # "live"
        BY <2>1, LenProperties DEF Linked, Range, OneLive
    <2>3. Chained' /\ OneLive'
        BY <2>1, <2>2, <1>b DEF Chained, OneLive
    <2>4. Asked'
        BY <2>1, <1>0, <1>a DEF Asked, Wanted, Gone
    <2>5. QED
        BY <2>3, <2>4
<1> QED BY <1>1, <1>2, <1>3, <1>4 DEF PiStep

LEMMA TroubleKeeps ==
    ASSUME ChainInv, Trouble
    PROVE  ChainInv'
<1> USE DEF ChainInv
<1>0. UNCHANGED <<phase, arm>>
    BY DEF Trouble, harvestVars, processVars, robotVars
<1>a. PictureOf(arm)' = PictureOf(arm)
    BY <1>0, SamePicture
<1>b. Silence' = Silence
    BY DEF Silence, Message, NoPicture, PoseOf
<1>1. CASE DaemonStops
    <2>1. /\ dpc' = "down" /\ queue' = << >> /\ request' = NoRequest /\ pi_conn' = "closed"
          /\ channel' = Silence /\ backlog' = << >> /\ UNCHANGED <<reply, pi_pc>>
        BY <1>1 DEF DaemonStops
    <2>2. << >> \in Seq({"live", "dead"}) /\ << >> \in Seq({Wanted, Gone}) /\ Len(<< >>) = 0
        BY EmptySeq
    <2>3. Chained' /\ OneLive'
        BY <2>1, <2>2, <1>b DEF Chained, OneLive
    <2>4. Asked'
        BY <2>1, <2>2, <1>0, <1>a, Kinds DEF Asked, Wanted, Gone
    <2>5. QED
        BY <2>3, <2>4
<1>2. CASE DiskFails
    <2>1. /\ pi_conn' = "closed" /\ channel' = Silence /\ dpc' \in {"again", "control"}
          /\ request' \in {request, NoRequest} /\ reply' \in {reply, CameraError}
          /\ UNCHANGED <<queue, backlog, pi_pc>>
        BY <1>2 DEF DiskFails, FirstFailure, SecondFailure, DropConnection, Answer
    <2>2. Chained' /\ OneLive'
        BY <2>1, <1>b DEF Chained, OneLive
    <2>3. Asked'
        BY <2>1, <1>0, <1>a, Kinds DEF Asked, Wanted, Gone
    <2>4. QED
        BY <2>2, <2>3
<1>3. CASE PiDrops
    <2>1. /\ pi_pc' = "offline" /\ pi_conn' # "live" /\ backlog' = [i \in DOMAIN backlog |-> "dead"]
          /\ channel' \in {Silence, channel} /\ UNCHANGED <<reply, queue, dpc, request>>
          /\ (pi_conn # "live" => pi_conn' = pi_conn)
        BY <1>3 DEF PiDrops, Buried, daemonVars
    <2>2. Chained'
        BY <2>1, <1>b DEF Chained
    <2>3. OneLive'
        <3>1. DOMAIN backlog = 1 .. Len(backlog) /\ Len(backlog) \in Nat
            BY LenProperties DEF OneLive
        <3>2. backlog' = [i \in 1 .. Len(backlog) |-> "dead"]
            BY <2>1, <3>1
        <3>3. backlog' \in Seq({"live", "dead"}) /\ Len(backlog') = Len(backlog)
            BY <3>1, <3>2
        <3>4. \A i \in 1 .. Len(backlog') : backlog'[i] # "live"
            BY <3>2, <3>3
        <3>5. QED
            BY <3>3, <3>4 DEF OneLive
    <2>4. Asked'
        BY <2>1, <1>0, <1>a, Kinds DEF Asked, Wanted, Gone
    <2>5. QED
        BY <2>2, <2>3, <2>4
<1>4. CASE PiPowerCut
    <2>1. /\ pi_pc = "capturing" /\ pi_conn = "live" /\ pi_pc' = "offline" /\ pi_conn' = "silent"
          /\ UNCHANGED <<reply, queue, dpc, request, channel, backlog>>
        BY <1>4 DEF PiPowerCut, daemonVars
    <2>2. Chained' /\ OneLive'
        BY <2>1, <1>b DEF Chained, OneLive
    <2>3. Asked'
        BY <2>1, <1>0, <1>a DEF Asked, Wanted, Gone
    <2>4. QED
        BY <2>2, <2>3
<1> QED BY <1>1, <1>2, <1>3, <1>4 DEF Trouble

-----------------------------------------------------------------------------
(* The two halves together *)

Inv == HarvestInv /\ ChainInv

LEMMA InitHolds == Init => Inv
<1> SUFFICES ASSUME Init PROVE Inv
    OBVIOUS
<1>1. /\ phase = "off" /\ moves = << >> /\ results = << >> /\ suction = FALSE
      /\ current_pose = NoPicture /\ goal = NoGoal /\ passed = arm
      /\ arm = PoseOf(Elsewhere, "between", 0)
      /\ reply = Silence /\ queue = << >> /\ dpc = "down" /\ request = NoRequest
      /\ pi_conn = "closed" /\ channel = Silence /\ backlog = << >> /\ pi_pc = "offline"
    BY DEF Init, HarvestInit, ChainInit
<1>2. arm \in Pose /\ NoPicture \in Pose /\ NoGoal \in Pose
    BY <1>1 DEF NoGoal, NoPicture, PoseOf, Pose, Heights, Angles
<1>3. HarvestTypes
    BY <1>1, <1>2, EmptySeq DEF HarvestTypes
<1>4. Truthful
    BY <1>1, <1>2, BetweenCovers DEF Truthful, Spot
<1>5. HarvestInv
    BY <1>1, <1>3, <1>4 DEF HarvestInv, Placed, Planned
<1>6. << >> \in Seq({"live", "dead"}) /\ << >> \in Seq({Wanted, Gone}) /\ Len(<< >>) = 0
    BY EmptySeq
<1>7. ChainInv
    BY <1>1, <1>6, Kinds DEF ChainInv, Chained, OneLive, Asked
<1> QED BY <1>5, <1>7 DEF Inv

(* A run that ends *)
LEMMA EndingStep ==
    ASSUME HarvestInv,
           \/ Interrupted \/ NotReady \/ Completes \/ GoalRejected
           \/ MotionFails \/ SuctionFails \/ CaptureFails
    PROVE  HarvestInv'
<1>1. CASE Interrupted \/ NotReady \/ Completes \/ GoalRejected \/ CaptureFails
    <2>1. Ends /\ UNCHANGED <<arm, goal, passed, suction>>
        BY <1>1 DEF Interrupted, NotReady, Completes, GoalRejected, CaptureFails, robotVars
    <2>2. suction' \in BOOLEAN
        BY <2>1 DEF HarvestInv, HarvestTypes
    <2>3. QED
        BY <2>1, <2>2, HarvestEnds
<1>2. CASE MotionFails
    <2>1. Ends /\ goal' = NoGoal /\ UNCHANGED <<arm, passed, suction>>
        BY <1>2 DEF MotionFails
    <2>2. suction' \in BOOLEAN
        BY <2>1 DEF HarvestInv, HarvestTypes
    <2>3. QED
        BY <2>1, <2>2, HarvestEnds
<1>3. CASE SuctionFails
    <2>1. phase = "suction" /\ Ends /\ suction' \in {suction, Arg} /\ UNCHANGED <<arm, goal, passed>>
        BY <1>3 DEF SuctionFails
    <2>2. step \in {2, 12} /\ step \in 1 .. 14
        BY <2>1 DEF HarvestInv, Placed, Suctions
    <2>3. suction' \in BOOLEAN
        BY <2>1, <2>2, ProgramSteps DEF HarvestInv, HarvestTypes
    <2>4. QED
        BY <2>1, <2>3, HarvestEnds
<1> QED BY <1>1, <1>2, <1>3

LEMMA HarvestKeeps == ASSUME Inv, [Next]_vars PROVE HarvestInv'
<1>0. HarvestInv
    BY DEF Inv
<1>1. CASE RunStarts
    BY <1>0, <1>1, StartStep DEF RunStarts
<1>2. CASE RunStopped
    BY <1>0, <1>2, EndingStep DEF RunStopped
<1>3. CASE ProcessStep
    <2>1. ASSUME BeginSuction PROVE HarvestInv'
        BY <1>0, <2>1, CallStep DEF BeginSuction
    <2>2. QED
        BY <1>0, <1>3, <2>1, PoseStep, JumpStep, RotateStep, GoalStep, MotionStep, SuctionStep
           DEF ProcessStep
<1>4. CASE ProcessEnds
    BY <1>0, <1>4, EndingStep DEF ProcessEnds
<1>5. CASE Asks
    BY <1>0, <1>5, CallStep DEF Asks, BeginCapture
<1>6. CASE AskingFails \/ GetsError \/ TimesOut
    BY <1>0, <1>6, EndingStep DEF AskingFails, GetsError, TimesOut
<1>7. CASE GetsPicture
    <2>1. reply.kind = "ok" /\ Captured(reply.picture)
        BY <1>7 DEF GetsPicture
    <2>2. reply.picture = PictureOf(arm)
        BY <2>1 DEF Inv, ChainInv, Asked
    <2>3. QED
        BY <1>0, <2>1, <2>2, PictureStep
<1>8. CASE Surroundings
    BY <1>0, <1>8, ArriveStep, MessageStep DEF Surroundings
<1>9. CASE DaemonStep \/ PiStep \/ Trouble
    BY <1>0, <1>9, HarvestStays DEF DaemonStep, PiStep, Trouble
<1>10. CASE UNCHANGED vars
    BY <1>0, <1>10, HarvestStays DEF vars
<1> QED BY <1>1, <1>2, <1>3, <1>4, <1>5, <1>6, <1>7, <1>8, <1>9, <1>10 DEF Next, RunStep

LEMMA ChainKeeps == ASSUME Inv, [Next]_vars PROVE ChainInv'
<1>0. ChainInv
    BY DEF Inv
<1>1. CASE RunStarts
    BY <1>0, <1>1, ChainIdle DEF RunStarts, HarvestStarts
<1>2. CASE RunStopped
    BY <1>0, <1>2, LeaveStep DEF RunStopped
<1>3. CASE ProcessStep
    <2>1. phase # "capture" /\ UNCHANGED chainVars
        BY <1>3 DEF ProcessStep, PoseReceived, BeginJump, BeginRotate, BeginPlace, Plan, GoalAccepted,
                    MotionSucceeds, BeginSuction, SuctionSet
    <2>2. QED
        BY <1>0, <2>1, ChainIdle
<1>4. CASE ProcessEnds
    <2>1. phase # "capture" /\ UNCHANGED chainVars
        BY <1>4 DEF ProcessEnds, NotReady, Completes, GoalRejected, MotionFails, SuctionFails
    <2>2. QED
        BY <1>0, <2>1, ChainIdle
<1>5. CASE Asks
    BY <1>0, <1>5, AskStep
<1>6. CASE AskingFails
    BY <1>0, <1>6, ChainIdle DEF AskingFails
<1>7. CASE GetsPicture \/ GetsError \/ TimesOut
    BY <1>0, <1>7, LeaveStep DEF GetsPicture, GetsError, TimesOut, ClientGivesUp
<1>8. CASE Surroundings
    <2>1. UNCHANGED chainVars
        BY <1>8 DEF Surroundings
    <2>2. phase # "capture"
        <3>1. CASE PoseMessage
            BY <3>1 DEF PoseMessage
        <3>2. CASE ArmArrives
            <4>1. goal # NoGoal
                BY <3>2 DEF ArmArrives
            <4>2. QED
                BY <4>1 DEF Inv, HarvestInv, Placed, Captures
        <3>3. QED
            BY <1>8, <3>1, <3>2 DEF Surroundings
    <2>3. QED
        BY <1>0, <2>1, <2>2, ChainIdle
<1>9. CASE DaemonStep \/ PiStep \/ Trouble
    BY <1>0, <1>9, DaemonKeeps, PiKeeps, TroubleKeeps
<1>10. CASE UNCHANGED vars
    BY <1>0, <1>10, ChainStays DEF vars
<1> QED BY <1>1, <1>2, <1>3, <1>4, <1>5, <1>6, <1>7, <1>8, <1>9, <1>10 DEF Next, RunStep

LEMMA Invariance == Spec => []Inv
<1>1. Inv /\ [Next]_vars => Inv'
    BY HarvestKeeps, ChainKeeps DEF Inv
<1> QED BY <1>1, InitHolds, PTL DEF Spec

-----------------------------------------------------------------------------
(* Whatever an earlier run left behind and whatever pose messages arrive,  *)
(* move_ptp is never told to cross the cell below the safe height: the     *)
(* first motion of jump_move_to rises from where the arm is, or the arm is *)
(* there already.                                                          *)
THEOREM SafeTravel == Spec => TravelsAtSafeHeight
<1> DEFINE A == goal' \notin {goal, NoGoal} /\ goal'.at # arm.at
                    => arm.z = "safe" /\ goal'.z = "safe"
<1>1. Inv /\ [Next]_vars => [A]_vars
    <2> SUFFICES ASSUME Inv, [Next]_vars, goal' \notin {goal, NoGoal}
                 PROVE  goal'.at # arm.at => arm.z = "safe" /\ goal'.z = "safe"
        OBVIOUS
    <2>1. GoalAccepted
        <3>1. Next
            BY DEF vars, harvestVars, robotVars
        <3>2. goal' \in {goal, NoGoal} \/ GoalAccepted
            BY <3>1 DEF Next, RunStarts, RunStopped, RunStep, ProcessStep, ProcessEnds, Asks,
                AskingFails, GetsPicture, GetsError, TimesOut, Surroundings, DaemonStep, PiStep,
                Trouble, HarvestStarts, PoseReceived, NotReady, Interrupted, BeginJump, BeginRotate, BeginPlace, Plan,
                MotionSucceeds, BeginSuction, SuctionSet, Completes, GoalRejected, MotionFails,
                SuctionFails, BeginCapture, CaptureFails, Captured, ArmArrives, PoseMessage,
                harvestVars, robotVars
        <3>3. QED
            BY <3>2
    <2>2. phase = "go" /\ goal' = Head(moves)
        BY <2>1 DEF GoalAccepted
    <2>3. moves \in Seq(Pose) /\ moves # << >>
        BY <2>2 DEF Inv, HarvestInv, HarvestTypes, Planned
    <2>4. Head(moves) = moves[1]
        BY <2>3, HeadTailProperties
    <2>5. Clear(arm, moves[1])
        BY <2>2 DEF Inv, HarvestInv, HarvestTypes, Planned, Spot
    <2>6. QED
        BY <2>2, <2>4, <2>5 DEF Clear
<1>2. QED
    BY <1>1, Invariance, PTL DEF Spec, TravelsAtSafeHeight

(* run_sequence lets go of the fruit at the conveyor only, and with three  *)
(* pictures, each taken while the arm stood at the camera at its angle.    *)
THEOREM ThreePictures == Spec => PlacedAfterThreePictures
<1> DEFINE Wished == [i \in DOMAIN CAMERA_CAPTURE_ANGLES_DEG |->
                          CameraPose(CAMERA_CAPTURE_ANGLES_DEG[i])]
           A == suction /\ ~suction' => arm = PoseAt("conveyor") /\ results = Wished
<1>1. Wished = Views3
    <2>1. DOMAIN CAMERA_CAPTURE_ANGLES_DEG = 1 .. 3
        BY DEF CAMERA_CAPTURE_ANGLES_DEG
    <2>2. /\ CAMERA_CAPTURE_ANGLES_DEG[1] = 0 /\ CAMERA_CAPTURE_ANGLES_DEG[2] = 120
          /\ CAMERA_CAPTURE_ANGLES_DEG[3] = -120
        BY DEF CAMERA_CAPTURE_ANGLES_DEG
    <2>3. /\ Views3 = [i \in 1 .. 3 |-> Views3[i]] /\ Views3[1] = CameraPose(0)
          /\ Views3[2] = CameraPose(120) /\ Views3[3] = CameraPose(-120)
        BY DEF Views3
    <2>4. \A i \in 1 .. 3 : CameraPose(CAMERA_CAPTURE_ANGLES_DEG[i]) = Views3[i]
        <3>1. \A i \in 1 .. 3 : i = 1 \/ i = 2 \/ i = 3
            OBVIOUS
        <3>2. QED
            BY <2>2, <2>3, <3>1
    <2>5. QED
        BY <2>1, <2>3, <2>4
<1>2. Inv /\ [Next]_vars => [A]_vars
    <2> SUFFICES ASSUME Inv, [Next]_vars, suction, ~suction'
                 PROVE  arm = PoseAt("conveyor") /\ results = Views3
        BY <1>1
    <2>1. SuctionSet \/ SuctionFails
        <3>1. Next
            BY DEF vars, harvestVars, robotVars
        <3>2. suction' = suction \/ SuctionSet \/ SuctionFails
            BY <3>1 DEF Next, RunStarts, RunStopped, RunStep, ProcessStep, ProcessEnds, Asks,
                AskingFails, GetsPicture, GetsError, TimesOut, Surroundings, DaemonStep, PiStep,
                Trouble, HarvestStarts, PoseReceived, NotReady, Interrupted, BeginJump, BeginRotate, BeginPlace, Plan,
                GoalAccepted, MotionSucceeds, BeginSuction, Completes, GoalRejected, MotionFails,
                BeginCapture, CaptureFails, Captured, ArmArrives, PoseMessage,
                harvestVars, robotVars
        <3>3. QED
            BY <3>2
    <2>2. phase = "suction" /\ suction' \in {suction, Arg}
        BY <2>1 DEF SuctionSet, SuctionFails
    <2>3. step \in {2, 12} /\ step \in 1 .. 14 /\ arm = Station(step)
          /\ results = SubSeq(Views3, 1, Taken(step))
        BY <2>2 DEF Inv, HarvestInv, Placed, Suctions
    <2>4. step = 12
        <3>1. step = 2 => Arg = TRUE
            BY <2>3, ProgramSteps
        <3>2. suction' = suction \/ suction' = Arg
            BY <2>2
        <3>3. step # 2
            BY <3>1, <3>2, Zenon
        <3>4. QED
            BY <2>3, <3>3
    <2>5. Station(12) = PoseAt("conveyor") /\ Taken(12) = 3
        BY DEF Station, Taken
    <2>6. QED
        BY <2>3, <2>4, <2>5, ViewsTaken
<1>3. QED
    BY <1>2, Invariance, PTL DEF Spec, PlacedAfterThreePictures

=============================================================================
