----------------------------- MODULE Bench_proofs -----------------------------
(***************************************************************************)
(* What holds of the tools around the line for every number of sessions,   *)
(* pictures, clients and frames.                                           *)
(***************************************************************************)
EXTENDS Bench, FiniteSetTheorems, SequenceTheorems, TLAPS

-----------------------------------------------------------------------------
(* QualityCheck: single pictures *)

Packets == [for : Nat, crop : {"none", "good", "bad", "error"}]

PictureTypes ==
    /\ asked \in 0 .. MaxPictures /\ marker \in Nat
    /\ held \in Packets /\ taken \in Packets /\ packet \in Packets
    /\ pictures \in [1 .. MaxPictures -> {"missing", "broken", "good", "bad", "none", "error"}]

(* While a connection is up, one request at most is under way on it, and it *)
(* is the one made last; what is left of another died with its connection.  *)
OneRequest ==
    /\ link \in {"none", "up", "dead"}
    /\ pi = "away" => link = "none" /\ taken = Pictures!NoPacket
    /\ pi = "sending" => taken.crop # "none"
    /\ server \in {"off", "listening"} => link # "up" /\ request = 0 /\ packet = Pictures!NoPacket
    /\ request # 0 => request = asked /\ server = "asked"
    /\ packet # Pictures!NoPacket =>
        packet.for = asked /\ packet.crop # "none" /\ server = "asked" /\ request = 0
    /\ link = "up" =>
        /\ pi = "waiting" => taken = Pictures!NoPacket
        /\ pi \in {"capturing", "sending"} =>
            taken.for = asked /\ server = "asked" /\ request = 0 /\ packet = Pictures!NoPacket

(* A picture is finished before the marker names it, and not opened again *)
FinishedFirst ==
    /\ held # Pictures!NoPacket => held.for = asked /\ server \in {"store", "fill", "mark", "name"}
    /\ server \in {"store", "fill"} => held.crop \in {"good", "bad"}
    /\ server \in {"asked", "store", "fill", "mark", "name"} => marker < asked
    /\ marker <= asked
    /\ server \in {"store", "fill", "mark", "name"} => asked # 0
    /\ server \in {"mark", "name"} => pictures[asked] # "broken"
    /\ marker # 0 => pictures[marker] # "broken"

PictureInv == PictureTypes /\ OneRequest /\ FinishedFirst

LEMMA PictureInit == Init => PictureInv
BY BenchAssumption DEF Init, Pictures!Init, PictureInv, PictureTypes, OneRequest, FinishedFirst,
       Packets, Pictures!NoPacket, Pictures!Requests

LEMMA PictureStep ==
    ASSUME PictureInv, [Next]_benchVars
    PROVE  PictureInv'
<1> MaxPictures \in Nat
    BY BenchAssumption
<1> USE DEF PictureInv, PictureTypes, OneRequest, FinishedFirst, Packets, Pictures!NoPacket
<1>1. CASE Pictures!ServerStarts \/ Pictures!SendCapture
    BY <1>1 DEF Pictures!ServerStarts, Pictures!SendCapture, Pictures!piVars, Pictures!wireVars
<1>2. CASE Pictures!ReadPacket
    BY <1>2 DEF Pictures!ReadPacket, Pictures!piVars
<1>3. CASE Pictures!OpenPicture \/ Pictures!WritePicture
    <2>1. asked \in 1 .. MaxPictures /\ marker < asked
        BY <1>3 DEF Pictures!OpenPicture, Pictures!WritePicture
    <2>2. PICK what \in {"missing", "broken", "good", "bad", "none", "error"} :
              /\ pictures' = [pictures EXCEPT ![asked] = what]
              /\ server = "fill" => what # "broken"
        BY <1>3 DEF Pictures!OpenPicture, Pictures!WritePicture
    <2>3. /\ pictures' \in [1 .. MaxPictures -> {"missing", "broken", "good", "bad", "none", "error"}]
          /\ pictures'[asked] = what
          /\ marker # 0 => pictures'[marker] = pictures[marker]
        BY <2>1, <2>2
    <2>4. QED
        BY <1>3, <2>1, <2>2, <2>3 DEF Pictures!OpenPicture, Pictures!WritePicture,
                                      Pictures!piVars, Pictures!wireVars
<1>3a. CASE Pictures!OpenMarker \/ Pictures!WriteMarker
    BY <1>3a DEF Pictures!OpenMarker, Pictures!WriteMarker, Pictures!piVars, Pictures!wireVars
<1>4. CASE Pictures!ServerEnds
    <2>1. link' \in {"none", "dead"} /\ (link = "none" => link' = "none")
        BY <1>4 DEF Pictures!ServerEnds
    <2>2. PictureTypes'
        BY <1>4 DEF Pictures!ServerEnds
    <2>3. OneRequest'
        BY <1>4, <2>1 DEF Pictures!ServerEnds
    <2>4. FinishedFirst'
        BY <1>4 DEF Pictures!ServerEnds
    <2>5. QED
        BY <2>2, <2>3, <2>4
<1>5. CASE Pictures!PiConnects \/ Pictures!PiReads
    BY <1>5 DEF Pictures!PiConnects, Pictures!PiReads, Pictures!serverVars, Pictures!wireVars
<1>6. ASSUME NEW crop \in {"good", "bad", "error"}, Pictures!PiCaptures(crop)
      PROVE  PictureInv'
    <2>1. taken' = [for |-> taken.for, crop |-> crop]
        BY <1>6 DEF Pictures!PiCaptures
    <2>2. pi = "capturing" /\ pi' = "sending" /\ UNCHANGED <<Pictures!serverVars, link, request, packet>>
        BY <1>6 DEF Pictures!PiCaptures, Pictures!wireVars
    <2>3. taken' \in Packets /\ taken'.for = taken.for /\ taken'.crop # "none"
        BY <2>1
    <2>4. QED
        BY <2>2, <2>3 DEF Pictures!serverVars
<1>7. CASE Pictures!PiSends \/ Pictures!PiLosesLink
    BY <1>7 DEF Pictures!PiSends, Pictures!PiLosesLink, Pictures!serverVars, Pictures!wireVars
<1>8. ASSUME NEW r \in Pictures!Requests, Pictures!Deletes(r)
      PROVE  PictureInv'
    BY <1>8 DEF Pictures!Deletes, Pictures!Requests, Pictures!piVars, Pictures!wireVars
<1>9. CASE UNCHANGED <<server, asked, held, pictures, marker, pi, link, taken, request, packet>>
    BY <1>9
<1>10. ASSUME NEW c \in Clients, Pictures!ClientAsks(c) \/ Pictures!ClientGivesUp(c)
       PROVE  PictureInv'
    BY <1>9, <1>10 DEF Pictures!ClientAsks, Pictures!ClientGivesUp, Pictures!serverVars,
                       Pictures!piVars, Pictures!wireVars
<1>11. CASE Pictures!AcceptClient \/ Pictures!Refuses \/ Pictures!Infers \/ Pictures!Judges
    BY <1>9, <1>11 DEF Pictures!AcceptClient, Pictures!Refuses, Pictures!Infers, Pictures!Judges,
                       Pictures!Answers, Pictures!serverVars, Pictures!piVars, Pictures!wireVars
<1>12. CASE UNCHANGED pictureVars
    BY <1>9, <1>12 DEF pictureVars
<1>13. Pictures!Next \/ UNCHANGED pictureVars
    BY DEF Next, benchVars
<1>14. QED
    BY <1>1, <1>2, <1>3, <1>3a, <1>4, <1>5, <1>6, <1>7, <1>8, <1>10, <1>11, <1>12, <1>13
       DEF Pictures!Next

(* QualityCheck: for any number of pictures, and whatever ends and starts   *)
(* again, a picture is stored under the request it was taken for, and the   *)
(* marker names finished pictures only.                                     *)
THEOREM PictureKept == Spec => []PictureOfItsRequest
<1>1. PictureInv => PictureOfItsRequest
    BY DEF PictureInv, OneRequest, FinishedFirst, PictureOfItsRequest,
           Pictures!PictureOfItsRequest
<1>2. QED
    BY PictureInit, PictureStep, <1>1, PTL DEF Spec

-----------------------------------------------------------------------------
(* QualityCheck: inspections *)

Shows(c, i) == pictures[paths[c][i]]
Whole(c) == Len(paths[c]) = Needed

InspectionTypes ==
    /\ paths \in [Clients -> Seq(Pictures!Requests)]
    /\ inspector \in [Clients -> {"off", "waiting", "failed", "normal", "error"}]
    /\ backlog \in Seq(Clients) /\ serving \in Clients \cup {Nobody}
    /\ index \in Nat /\ hasError \in BOOLEAN

(* A client asks about pictures reported as stored, and chooses them once *)
Chosen ==
    /\ \A c \in Clients : \A i \in 1 .. Len(paths[c]) : paths[c][i] <= marker
    /\ \A i \in 1 .. Len(backlog) : inspector[backlog[i]] # "off"
    /\ serving # Nobody => inspector[serving] # "off"

(* What the server found in the pictures it has looked at *)
Found ==
    serving # Nobody =>
        /\ index \in 1 .. Needed + 1
        /\ index > 1 => Whole(serving)
        /\ ~hasError => \A i \in 1 .. index - 1 : Shows(serving, i) \in {"good", "missing"}
        /\ hasError => \E i \in 1 .. index - 1 : Shows(serving, i) \in {"bad", "missing"}

Judged ==
    \A c \in Clients :
        /\ inspector[c] \in {"normal", "error"} => Whole(c)
        /\ inspector[c] = "normal" => \A i \in 1 .. Needed : Shows(c, i) # "bad"
        /\ inspector[c] = "error" => \E i \in 1 .. Needed : Shows(c, i) \in {"bad", "missing"}

InspectionInv == InspectionTypes /\ Chosen /\ Found /\ Judged

LEMMA InspectionInit == Init => InspectionInv
<1> SUFFICES ASSUME Init PROVE InspectionInv
    OBVIOUS
<1>1. /\ paths = [c \in Clients |-> << >>] /\ inspector = [c \in Clients |-> "off"]
      /\ backlog = << >> /\ serving = Nobody /\ index = 0 /\ hasError = FALSE
    BY DEF Init, Pictures!Init
<1>2. InspectionTypes
    <2>1. << >> \in Seq(Pictures!Requests) /\ << >> \in Seq(Clients)
        OBVIOUS
    <2>2. paths \in [Clients -> Seq(Pictures!Requests)]
        BY <1>1, <2>1
    <2>3. QED
        BY <1>1, <2>1, <2>2 DEF InspectionTypes
<1>3. /\ \A c \in Clients : inspector[c] = "off" /\ paths[c] = << >> /\ Len(paths[c]) = 0
      /\ Len(backlog) = 0
    BY <1>1
<1>4. Chosen
    BY <1>1, <1>3 DEF Chosen
<1>5. Found /\ Judged
    BY <1>1, <1>3 DEF Found, Judged
<1>6. QED
    BY <1>2, <1>4, <1>5 DEF InspectionInv

(* A picture reported as stored stays what it is until somebody deletes it *)
Aged ==
    \A r \in Pictures!Requests :
        r <= marker => r <= marker' /\ pictures'[r] \in {pictures[r], "missing"}

inspectionVars == <<inspector, paths, backlog, serving, index, hasError>>

LEMMA AgeKeepsVerdicts ==
    ASSUME PictureInv, InspectionInv, Aged, UNCHANGED inspectionVars
    PROVE  InspectionInv'
<1> USE DEF InspectionInv, inspectionVars
<1>1. /\ InspectionTypes'
      /\ UNCHANGED <<inspector, paths, backlog, serving, index, hasError>>
    BY DEF InspectionTypes, Pictures!Requests
<1>2. \A c \in Clients : \A i \in 1 .. Len(paths[c]) :
          /\ paths[c][i] \in Pictures!Requests
          /\ paths'[c][i] <= marker'
          /\ pictures'[paths'[c][i]] \in {pictures[paths[c][i]], "missing"}
    BY <1>1 DEF InspectionTypes, Chosen, Aged
<1>3. Chosen'
    BY <1>1, <1>2 DEF Chosen
<1>3a. \A c \in Clients : Whole(c)' = Whole(c)
    BY <1>1 DEF Whole
<1>3b. \A c \in Clients : Whole(c) =>
          \A i \in 1 .. Needed : Shows(c, i)' \in {Shows(c, i), "missing"}
    BY <1>1, <1>2 DEF Whole, Shows
<1>4. Found'
    <2> SUFFICES ASSUME serving # Nobody
                 PROVE  /\ index \in 1 .. Needed + 1
                        /\ index > 1 => Whole(serving)'
                        /\ ~hasError => \A i \in 1 .. index - 1 : Shows(serving, i)' \in {"good", "missing"}
                        /\ hasError => \E i \in 1 .. index - 1 : Shows(serving, i)' \in {"bad", "missing"}
        BY <1>1 DEF Found, Shows, Whole
    <2>1. serving \in Clients /\ index \in 1 .. Needed + 1 /\ (index > 1 => Whole(serving))
        BY DEF InspectionTypes, Found
    <2>2. \A i \in 1 .. index - 1 : Shows(serving, i)' \in {Shows(serving, i), "missing"}
        BY <1>3b, <2>1, BenchAssumption
    <2>3. ~hasError => \A i \in 1 .. index - 1 : Shows(serving, i)' \in {"good", "missing"}
        BY <2>2 DEF Found
    <2>4. hasError => \E i \in 1 .. index - 1 : Shows(serving, i)' \in {"bad", "missing"}
        BY <2>2 DEF Found
    <2>5. QED
        BY <1>3a, <2>1, <2>3, <2>4
<1>5. Judged'
    <2> SUFFICES ASSUME NEW c \in Clients
                 PROVE  /\ inspector[c] \in {"normal", "error"} => Whole(c)'
                        /\ inspector[c] = "normal" => \A i \in 1 .. Needed : Shows(c, i)' # "bad"
                        /\ inspector[c] = "error" =>
                                \E i \in 1 .. Needed : Shows(c, i)' \in {"bad", "missing"}
        BY <1>1 DEF Judged, Shows, Whole
    <2>1. inspector[c] \in {"normal", "error"} =>
              \A i \in 1 .. Needed : Shows(c, i)' \in {Shows(c, i), "missing"}
        BY <1>3b DEF Judged
    <2>2. QED
        BY <1>3a, <2>1 DEF Judged
<1>6. QED
    BY <1>1, <1>3, <1>4, <1>5

LEMMA InspectionStep ==
    ASSUME PictureInv, InspectionInv, [Next]_benchVars
    PROVE  InspectionInv'
<1> MaxPictures \in Nat /\ Needed \in Nat \ {0} /\ Nobody \notin Clients
    BY BenchAssumption
<1>1. ASSUME UNCHANGED <<pictures, marker>>
      PROVE  Aged
    BY <1>1 DEF Aged, PictureInv, PictureTypes, Pictures!Requests
<1>2. CASE UNCHANGED pictureVars
    BY <1>1, <1>2, AgeKeepsVerdicts DEF pictureVars, inspectionVars
<1>3. CASE \/ Pictures!ServerStarts \/ Pictures!SendCapture \/ Pictures!ReadPacket
           \/ Pictures!OpenMarker \/ Pictures!ServerEnds
           \/ Pictures!PiConnects \/ Pictures!PiReads
           \/ Pictures!PiSends \/ Pictures!PiLosesLink
           \/ \E crop \in {"good", "bad", "error"} : Pictures!PiCaptures(crop)
    <2>1. UNCHANGED <<pictures, marker, inspectionVars>>
        BY <1>3 DEF Pictures!ServerStarts, Pictures!SendCapture, Pictures!ReadPacket,
                    Pictures!OpenMarker, Pictures!ServerEnds, Pictures!PiConnects,
                    Pictures!PiReads, Pictures!PiSends,
                    Pictures!PiLosesLink, Pictures!PiCaptures, Pictures!serverVars,
                    Pictures!inferVars, inspectionVars
    <2>2. QED
        BY <1>1, <2>1, AgeKeepsVerdicts
<1>4. CASE Pictures!OpenPicture \/ Pictures!WritePicture
    <2>1. marker < asked /\ marker' = marker /\ UNCHANGED inspectionVars
        BY <1>4 DEF Pictures!OpenPicture, Pictures!WritePicture, PictureInv, FinishedFirst,
                    Pictures!inferVars, inspectionVars
    <2>2. \A r \in Pictures!Requests : r # asked => pictures'[r] = pictures[r]
        BY <1>4 DEF Pictures!OpenPicture, Pictures!WritePicture, PictureInv, PictureTypes,
                    Pictures!Requests
    <2>3. Aged
        BY <2>1, <2>2 DEF Aged, PictureInv, PictureTypes, Pictures!Requests
    <2>4. QED
        BY <2>1, <2>3, AgeKeepsVerdicts
<1>5. CASE Pictures!WriteMarker
    <2>1. marker < marker' /\ marker' \in Nat /\ pictures' = pictures /\ UNCHANGED inspectionVars
        BY <1>5 DEF Pictures!WriteMarker, PictureInv, PictureTypes, FinishedFirst,
                    Pictures!inferVars, inspectionVars
    <2>2. Aged
        BY <2>1 DEF Aged, PictureInv, PictureTypes, Pictures!Requests
    <2>3. QED
        BY <2>1, <2>2, AgeKeepsVerdicts
<1>6. ASSUME NEW r \in Pictures!Requests, Pictures!Deletes(r)
      PROVE  InspectionInv'
    <2>1. /\ marker' = marker /\ UNCHANGED inspectionVars
          /\ pictures' = [pictures EXCEPT ![r] = "missing"]
        BY <1>6 DEF Pictures!Deletes, Pictures!inferVars, inspectionVars
    <2>2. Aged
        BY <2>1 DEF Aged, PictureInv, PictureTypes, Pictures!Requests
    <2>3. QED
        BY <2>1, <2>2, AgeKeepsVerdicts
<1> USE DEF InspectionInv, Pictures!serverVars
<1>7. ASSUME NEW c \in Clients, Pictures!ClientAsks(c)
      PROVE  InspectionInv'
    <2>1. PICK n \in {Needed, Needed - 1} :
              \E list \in [1 .. n -> {r \in Pictures!Requests : r <= marker}] :
                  paths' = [paths EXCEPT ![c] = list]
        BY <1>7 DEF Pictures!ClientAsks
    <2>2. PICK list \in [1 .. n -> {r \in Pictures!Requests : r <= marker}] :
              paths' = [paths EXCEPT ![c] = list]
        BY <2>1
    <2>3. n \in Nat /\ list \in Seq(Pictures!Requests) /\ Len(list) = n
        BY <2>1
    <2>4. /\ inspector[c] = "off" /\ inspector' = [inspector EXCEPT ![c] = "waiting"]
          /\ backlog' = Append(backlog, c)
          /\ UNCHANGED <<pictures, marker, serving, index, hasError>>
        BY <1>7 DEF Pictures!ClientAsks
    <2>5. InspectionTypes'
        BY <2>2, <2>3, <2>4 DEF InspectionTypes, Pictures!Requests
    <2>6. \A d \in Clients : d # c => paths'[d] = paths[d] /\ inspector'[d] = inspector[d]
        BY <2>2, <2>4 DEF InspectionTypes
    <2>7. paths'[c] = list /\ inspector'[c] = "waiting"
        BY <2>2, <2>4 DEF InspectionTypes
    <2>8. serving # c
        BY <2>4 DEF Chosen
    <2>9. Chosen'
        <3>1. \A i \in 1 .. Len(paths'[c]) : paths'[c][i] <= marker'
            BY <2>3, <2>4, <2>7
        <3>2. \A d \in Clients : \A i \in 1 .. Len(paths'[d]) : paths'[d][i] <= marker'
            BY <2>4, <2>6, <3>1 DEF Chosen
        <3>3. \A i \in 1 .. Len(backlog') : inspector'[backlog'[i]] # "off"
            BY <2>4, <2>6, <2>7 DEF Chosen, InspectionTypes
        <3>4. QED
            BY <2>4, <2>6, <2>8, <3>2, <3>3 DEF Chosen, InspectionTypes
    <2>10. Found'
        BY <2>4, <2>6, <2>8 DEF Found, Shows, Whole, InspectionTypes
    <2>11. Judged'
        BY <2>4, <2>6, <2>7 DEF Judged, Shows, Whole
    <2>12. QED
        BY <2>5, <2>9, <2>10, <2>11
<1>8. ASSUME NEW c \in Clients, Pictures!ClientGivesUp(c)
      PROVE  InspectionInv'
    <2>1. /\ inspector' = [inspector EXCEPT ![c] = "failed"]
          /\ UNCHANGED <<pictures, marker, paths, backlog, serving, index, hasError>>
        BY <1>8 DEF Pictures!ClientGivesUp
    <2>2. InspectionTypes'
        BY <2>1 DEF InspectionTypes, Pictures!Requests
    <2>3. \A d \in Clients : inspector'[d] = IF d = c THEN "failed" ELSE inspector[d]
        BY <2>1 DEF InspectionTypes
    <2>4. Chosen'
        BY <2>1, <2>3 DEF Chosen, InspectionTypes
    <2>5. Found'
        BY <2>1 DEF Found, Shows, Whole
    <2>6. Judged'
        BY <2>1, <2>3 DEF Judged, Shows, Whole
    <2>7. QED
        BY <2>2, <2>4, <2>5, <2>6
<1>9. CASE Pictures!AcceptClient
    <2>1. /\ backlog # << >> /\ serving' = Head(backlog) /\ backlog' = Tail(backlog)
          /\ index' = 1 /\ hasError' = FALSE
          /\ UNCHANGED <<pictures, marker, inspector, paths>>
        BY <1>9 DEF Pictures!AcceptClient
    <2>2. serving' \in Clients /\ backlog' \in Seq(Clients)
        BY <2>1 DEF InspectionTypes
    <2>3. InspectionTypes'
        BY <2>1, <2>2 DEF InspectionTypes, Pictures!Requests
    <2>4. Chosen'
        BY <2>1, <2>2 DEF Chosen, InspectionTypes
    <2>5. Found'
        BY <2>1 DEF Found
    <2>6. Judged'
        BY <2>1 DEF Judged, Shows, Whole
    <2>7. QED
        BY <2>3, <2>4, <2>5, <2>6
<1>10. ASSUME NEW status \in {"failed", "normal", "error"},
              serving # Nobody, Pictures!Answers(status),
              UNCHANGED <<pictures, marker>>,
              status # "failed" => Whole(serving),
              status = "normal" => \A i \in 1 .. Needed : Shows(serving, i) # "bad",
              status = "error" => \E i \in 1 .. Needed : Shows(serving, i) \in {"bad", "missing"}
       PROVE  InspectionInv'
    <2>1. /\ serving' = Nobody /\ UNCHANGED <<paths, backlog, index, hasError>>
          /\ \A d \in Clients : inspector'[d] \in {inspector[d], IF d = serving THEN status ELSE inspector[d]}
          /\ inspector' \in [Clients -> {"off", "waiting", "failed", "normal", "error"}]
        BY <1>10 DEF Pictures!Answers, InspectionTypes
    <2>2. InspectionTypes'
        BY <2>1 DEF InspectionTypes, Pictures!Requests
    <2>3. Chosen'
        BY <1>10, <2>1 DEF Chosen, InspectionTypes
    <2>4. Judged'
        BY <1>10, <2>1 DEF Judged, Shows, Whole
    <2>5. QED
        BY <2>1, <2>2, <2>3, <2>4 DEF Found
<1>11. CASE Pictures!Refuses
    BY <1>10, <1>11 DEF Pictures!Refuses, Pictures!Answers
<1>12. CASE Pictures!Judges
    <2>1. serving # Nobody /\ Whole(serving) /\ index = Needed + 1
        BY <1>12 DEF Pictures!Judges, Found, Whole
    <2>2. Pictures!Answers(IF hasError THEN "error" ELSE "normal") /\ UNCHANGED <<pictures, marker>>
        BY <1>12 DEF Pictures!Judges, Pictures!Answers
    <2>3. CASE hasError
        <3>1. \E i \in 1 .. Needed : Shows(serving, i) \in {"bad", "missing"}
            BY <2>1, <2>3 DEF Found
        <3>2. Pictures!Answers("error")
            BY <2>2, <2>3
        <3>3. QED
            BY <1>10, <2>1, <2>2, <3>1, <3>2
    <2>4. CASE ~hasError
        <3>1. \A i \in 1 .. Needed : Shows(serving, i) # "bad"
            BY <2>1, <2>4 DEF Found
        <3>2. Pictures!Answers("normal")
            BY <2>2, <2>4
        <3>3. QED
            BY <1>10, <2>1, <2>2, <3>1, <3>2
    <2>5. QED
        BY <2>3, <2>4
<1>13. CASE Pictures!Infers
    <2>1. /\ serving # Nobody /\ Whole(serving) /\ index <= Needed
          /\ Shows(serving, index) \in {"good", "bad"}
          /\ hasError' = (hasError \/ Shows(serving, index) = "bad")
          /\ index' = index + 1
          /\ UNCHANGED <<pictures, marker, inspector, paths, backlog, serving>>
        BY <1>13 DEF Pictures!Infers, Whole, Shows
    <2>2. InspectionTypes'
        BY <2>1 DEF InspectionTypes, Pictures!Requests
    <2>3. Chosen' /\ Judged'
        BY <2>1 DEF Chosen, Judged, Shows, Whole
    <2>4. index \in 1 .. Needed
        BY <2>1 DEF Found
    <2>5. Found'
        <3> DEFINE seen(i) == Shows(serving, i)
        <3>a. /\ ~hasError => \A i \in 1 .. index - 1 : seen(i) \in {"good", "missing"}
              /\ hasError => \E i \in 1 .. index - 1 : seen(i) \in {"bad", "missing"}
            BY <2>1 DEF Found
        <3>b. index' = index + 1 /\ index \in Nat /\ seen(index) \in {"good", "bad"}
            BY <2>1, <2>4
        <3>c. hasError' <=> (hasError \/ seen(index) = "bad")
            BY <2>1, Zenon
        <3> HIDE DEF seen
        <3>1. ASSUME ~hasError', NEW i \in 1 .. index' - 1
              PROVE  seen(i) \in {"good", "missing"}
            <4>1. ~hasError /\ seen(index) = "good"
                BY <3>a, <3>b, <3>c, <3>1
            <4>2. i = index \/ i \in 1 .. index - 1
                BY <3>a, <3>b, <3>c
            <4>3. QED
                BY <3>a, <3>b, <3>c, <4>1, <4>2
        <3>2. ASSUME hasError'
              PROVE  \E i \in 1 .. index' - 1 : seen(i) \in {"bad", "missing"}
            <4>1. CASE hasError
                <5>1. PICK i \in 1 .. index - 1 : seen(i) \in {"bad", "missing"}
                    BY <3>a, <3>b, <3>c, <4>1
                <5>2. i \in 1 .. index' - 1
                    BY <3>a, <3>b, <3>c
                <5>3. QED
                    BY <5>1, <5>2
            <4>2. CASE ~hasError
                <5>1. seen(index) = "bad"
                    BY <3>a, <3>b, <3>c, <3>2, <4>2
                <5>2. index \in 1 .. index' - 1
                    BY <2>4, <3>a, <3>b, <3>c
                <5>3. QED
                    BY <5>1, <5>2
            <4>3. QED
                BY <4>1, <4>2
        <3>3. index' \in 1 .. Needed + 1 /\ Whole(serving)'
            BY <2>1, <2>4 DEF Whole
        <3>4. \A i : Shows(serving, i)' = Shows(serving, i)
            BY <2>1 DEF Shows
        <3>5. QED
            BY <2>1, <3>1, <3>2, <3>3, <3>4 DEF Found, seen
    <2>6. QED
        BY <2>2, <2>3, <2>5
<1>14. Pictures!Next \/ UNCHANGED pictureVars
    BY DEF Next, benchVars
<1>15. QED
    BY <1>2, <1>3, <1>4, <1>5, <1>6, <1>7, <1>8, <1>9, <1>11, <1>12, <1>13, <1>14
       DEF Pictures!Next

(* QualityCheck: for any number of clients and pictures, the answer a      *)
(* client got is about all its pictures, also when some of them were       *)
(* deleted, or others stored, while the model looked at them.              *)
THEOREM VerdictKept == Spec => []VerdictOfAllPictures
<1>1. PictureInv /\ InspectionInv => VerdictOfAllPictures
    <2> SUFFICES ASSUME PictureInv, InspectionInv, NEW c \in Clients
                 PROVE  LET Now == {pictures[paths[c][i]] : i \in DOMAIN paths[c]}
                        IN  /\ inspector[c] = "normal" => "bad" \notin Now
                            /\ inspector[c] = "error" => Now \cap {"bad", "missing"} # {}
                            /\ inspector[c] \in {"normal", "error"} => Len(paths[c]) = Needed
        BY DEF VerdictOfAllPictures, Pictures!VerdictOfAllPictures
    <2>1. DOMAIN paths[c] = 1 .. Len(paths[c])
        BY DEF InspectionInv, InspectionTypes
    <2>2. QED
        BY <2>1 DEF InspectionInv, Judged, Shows, Whole
<1>2. Init => PictureInv /\ InspectionInv
    BY PictureInit, InspectionInit
<1>3. PictureInv /\ InspectionInv /\ [Next]_benchVars => (PictureInv /\ InspectionInv)'
    BY PictureStep, InspectionStep
<1>4. QED
    BY <1>1, <1>2, <1>3, PTL DEF Spec

-----------------------------------------------------------------------------
(* DobotCalibration *)

(* A file is absent, truncated, or whole with all its fields. *)
Formed(c) ==
    \/ c \in {Arm!Absent, Arm!Truncated}
    \/ c = [kind |-> "positions", grid |-> c.grid, others |-> c.others,
             corners |-> c.corners, mode |-> c.mode, full |-> c.full]

Stored == files[target]

CalibrationTypes ==
    /\ files = [p \in Arm!Paths |-> files[p]]
    /\ target \in Arm!Paths \ {"share"}
    /\ \A p \in Arm!Paths : Formed(files[p])
    /\ Formed(base)

(* Which tool writes, and over what *)
Writing ==
    /\ phase = "load" => tool = "nine"
    /\ phase \in {"backup", "write", "fill"} =>
        tool = "corners" \/ (tool = "nine" /\ Arm!Whole(base))

(* How far a session of the second tool over a whole file has come *)
Session ==
    /\ phase \in {"first", "prompt", "load", "backup", "write", "fill", "summary", "off"}
    /\ phase \in {"first", "prompt", "load", "backup", "write"} => Stored = had
    /\ phase \in {"backup", "write", "fill"} => Arm!Whole(base) /\ base.others = had.others
    /\ phase = "write" /\ keep => had \in backups
    /\ phase = "fill" => Stored = Arm!Truncated /\ (keep => had \in backups)
    /\ Arm!Whole(Stored) => Stored.others = had.others
    /\ keep => Arm!Whole(Stored) \/ had \in backups

CalibrationInv == CalibrationTypes /\ Writing /\ (tool = "nine" /\ Arm!Whole(had) => Session)

LEMMA NotWhole == ~Arm!Whole(Arm!Absent) /\ ~Arm!Whole(Arm!Truncated)
BY DEF Arm!Whole, Arm!Absent, Arm!Truncated

LEMMA PathsKnown ==
    ASSUME NEW sh \in Arm!Shells
    PROVE  /\ Arm!NinePath(sh) \in Arm!Paths \ {"share"}
           /\ Arm!CornersPath(sh) \in Arm!Paths \ {"share"}
BY DEF Arm!NinePath, Arm!CornersPath, Arm!InPackage, Arm!Paths

LEMMA CalibrationInit == Init => CalibrationInv
<1> SUFFICES ASSUME Init PROVE CalibrationInv
    OBVIOUS
<1>1. PICK c \in {Arm!Absent} \cup {Arm!Older(spot) : spot \in Spots} :
        files = [p \in Arm!Paths |-> IF p = "json" THEN c ELSE Arm!Absent]
    BY DEF Init, Arm!Init
<1>2. Formed(c)
    BY DEF Formed, Arm!Older
<1>3. QED
    BY <1>1, <1>2, NotWhole
       DEF Init, Arm!Init, CalibrationInv, CalibrationTypes, Writing, Formed, Arm!Paths

LEMMA CalibrationStep ==
    ASSUME CalibrationInv, [Next]_benchVars
    PROVE  CalibrationInv'
<1> USE DEF CalibrationInv
<1>1. target \in Arm!Paths
    BY DEF CalibrationTypes
<1>2. ASSUME UNCHANGED <<target, files, backups, tool, keep, base, had, phase>>
      PROVE  CalibrationInv'
    BY <1>2 DEF CalibrationTypes, Formed, Writing, Session, Stored, Arm!Whole, Arm!Paths
<1>3. ASSUME UNCHANGED <<target, files>>, Formed(base')
      PROVE  CalibrationTypes' /\ Stored' = Stored
    BY <1>3 DEF CalibrationTypes, Formed, Stored, Arm!Whole, Arm!Paths
<1>4. ASSUME NEW t \in {"corners", "nine"}, NEW k, NEW sh \in Arm!Shells,
             Arm!SessionStarts(t, k, sh)
      PROVE  CalibrationInv'
    <2>1. /\ UNCHANGED <<files, backups>> /\ base' = Arm!Absent /\ phase' = "first"
          /\ tool' = t /\ target' = Arm!PathOf(t, sh) /\ had' = files[target']
        BY <1>4 DEF Arm!SessionStarts, Arm!storeVars, Arm!Forgets
    <2>2. target' \in Arm!Paths \ {"share"}
        BY <2>1, PathsKnown DEF Arm!PathOf
    <2>3. CalibrationTypes' /\ Stored' = had'
        BY <2>1, <2>2, NotWhole DEF CalibrationTypes, Formed, Stored, Arm!Whole, Arm!Paths
    <2>4. QED
        BY <2>1, <2>3 DEF Arm!Whole, Writing, Session
<1>5. CASE Arm!CornersStarts \/ Arm!NineStarts
    BY <1>4, <1>5 DEF Arm!CornersStarts, Arm!NineStarts
<1>6. CASE \/ Arm!PosesStop
           \/ \E sh \in Arm!Shells : Arm!HarvestLoads(sh) \/ Arm!HarvestRefuses(sh)
           \/ \E s \in Spots : Arm!PoseMessage(s)
    BY <1>2, <1>6 DEF Arm!PosesStop, Arm!HarvestLoads, Arm!HarvestRefuses, Arm!PoseMessage,
                      Arm!storeVars, Arm!sessionVars
(* The session goes on, or ends, and no file changes. *)
<1>7. ASSUME UNCHANGED <<target, files, backups, tool, keep, had>>,
             base' = base \/ (phase' = "off" /\ base' = Arm!Absent),
             \/ phase \in {"first", "prompt"} /\ tool = "nine" /\ phase' \in {"prompt", "load"}
             \/ phase \in {"first", "prompt"} /\ tool = "corners" /\ phase' \in {"prompt", "write"}
             \/ phase = "first" /\ phase' = "prompt"
             \/ phase' = "off"
      PROVE  CalibrationInv'
    <2>1. CalibrationTypes' /\ Stored' = Stored
        BY <1>3, <1>7, NotWhole DEF CalibrationTypes, Formed
    <2>2. QED
        BY <1>7, <2>1 DEF Session, Writing, Arm!Whole, Arm!Truncated
<1>8. CASE Arm!FirstPose \/ Arm!NoFirstPose \/ Arm!CornersSummary
          \/ Arm!NineSummary \/ Arm!Interrupted
           \/ Arm!LoadFails
    BY <1>7, <1>8 DEF Arm!FirstPose, Arm!NoFirstPose, Arm!CornersSummary, Arm!NineSummary,
                     Arm!WriteSummary, Arm!Interrupted, Arm!SessionEnds, Arm!Forgets,
                      Arm!LoadFails, Arm!storeVars, Arm!sessionVars
<1>9. CASE Arm!CornersCaptures \/ Arm!NineCaptures
    BY <1>7, <1>9 DEF Arm!CornersCaptures, Arm!NineCaptures, Arm!Captures,
                      Arm!storeVars, Arm!sessionVars
<1>10. CASE Arm!LoadBase
    <2>1. /\ phase = "load" /\ UNCHANGED <<target, files, backups, tool, keep, had>>
          /\ base' = IF Stored = Arm!Absent THEN Arm!Blank ELSE Stored
          /\ phase' = IF keep /\ Stored # Arm!Absent THEN "backup" ELSE "write"
        BY <1>10 DEF Arm!LoadBase, Stored, Arm!storeVars
    <2>2. Formed(base')
        BY <1>1, <2>1 DEF CalibrationTypes, Formed, Stored, Arm!Blank
    <2>3. CalibrationTypes' /\ Stored' = Stored
        BY <1>3, <2>1, <2>2
    <2>4. ASSUME tool = "nine", Arm!Whole(had), Session
          PROVE  Session'
        <3>1. Stored = had /\ Stored # Arm!Absent
            BY <2>1, <2>4, NotWhole DEF Session
        <3>2. base' = had
            BY <2>1, <3>1
        <3>3. QED
            BY <2>1, <2>3, <2>4, <3>1, <3>2 DEF Session, Arm!Whole
    <2>5. Arm!Whole(base')
        BY <1>1, <1>10, <2>1 DEF Arm!LoadBase, CalibrationTypes, Formed, Stored, Arm!Blank,
                                 Arm!Whole
    <2>6. QED
        BY <2>1, <2>3, <2>4, <2>5 DEF Arm!Whole, Writing
<1>11. CASE Arm!BackupExisting
    <2>1. /\ phase = "backup" /\ phase' = "write" /\ backups' = backups \cup {Stored}
          /\ UNCHANGED <<target, files, tool, keep, base, had>>
        BY <1>11 DEF Arm!BackupExisting, Arm!sessionVars, Stored
    <2>2. CalibrationTypes' /\ Stored' = Stored
        BY <1>3, <2>1 DEF CalibrationTypes, Formed
    <2>3. QED
        BY <2>1, <2>2 DEF Session, Writing, Arm!Whole, Arm!Truncated
<1>12. ASSUME NEW c, Formed(c), NEW path \in Arm!Paths, files' = [files EXCEPT ![path] = c],
              UNCHANGED <<target, base>>
       PROVE  CalibrationTypes' /\ (Stored' = IF path = target THEN c ELSE Stored)
    <2>1. \A p \in Arm!Paths : files'[p] = IF p = path THEN c ELSE files[p]
        BY <1>12 DEF CalibrationTypes
    <2>2. files' = [p \in Arm!Paths |-> files'[p]]
        BY <1>12 DEF CalibrationTypes
    <2>3. \A p \in Arm!Paths : Formed(files'[p])
        BY <1>12, <2>1 DEF CalibrationTypes
    <2>4. QED
        BY <1>1, <1>12, <2>1, <2>2, <2>3 DEF CalibrationTypes, Formed, Stored, Arm!Whole, Arm!Paths
<1>13. CASE Arm!OpenResult
    <2>1. /\ phase = "write" /\ phase' = "fill"
          /\ files' = [files EXCEPT ![target] = Arm!Truncated]
          /\ UNCHANGED <<target, backups, tool, keep, base, had>>
        BY <1>13 DEF Arm!OpenResult, Arm!sessionVars
    <2>2. CalibrationTypes' /\ Stored' = Arm!Truncated
        BY <1>1, <1>12, <2>1, NotWhole DEF Formed
    <2>3. QED
        BY <2>1, <2>2, NotWhole DEF Session, Writing, Arm!Whole, Arm!Truncated
<1>14. CASE Arm!WriteResult
    <2>1. /\ phase = "fill" /\ phase' = "summary"
          /\ UNCHANGED <<target, backups, tool, keep, base, had>>
        BY <1>14 DEF Arm!WriteResult, Arm!sessionVars
    <2>2. CASE tool = "corners"
        <3>1. PICK m \in Arm!HeightModes :
                files' = [files EXCEPT ![target] = Arm!CornersResult(m)]
            BY <1>14, <2>2 DEF Arm!WriteResult
        <3>2. Formed(Arm!CornersResult(m))
            BY DEF Arm!CornersResult, Formed
        <3>3. CalibrationTypes'
            BY <1>1, <1>12, <2>1, <3>1, <3>2
        <3>4. QED
            BY <2>1, <2>2, <3>3 DEF Writing
    <2>3. CASE tool = "nine" /\ Arm!Whole(base)
        <3>1. files' = [files EXCEPT ![target] = Arm!NineResult]
            BY <1>14, <2>3 DEF Arm!WriteResult
        <3>2. Formed(Arm!NineResult) /\ Arm!NineResult.others = base.others
            BY DEF Formed, Arm!NineResult
        <3>3. CalibrationTypes' /\ Stored' = Arm!NineResult
            BY <1>1, <1>12, <2>1, <3>1, <3>2
        <3>4. QED
            BY <2>1, <2>3, <3>2, <3>3 DEF Session, Writing, Arm!Whole, Arm!Truncated
    <2>4. QED
        BY <2>1, <2>2, <2>3 DEF Writing
<1>15. CASE Arm!InstallConfig
    <2>1. /\ UNCHANGED <<target, backups, tool, keep, base, had, phase>>
          /\ files' = [files EXCEPT !["share"] = files["source"]]
        BY <1>15 DEF Arm!InstallConfig, Arm!sessionVars
    <2>2. CalibrationTypes' /\ Stored' = Stored
        BY <1>12, <2>1 DEF CalibrationTypes, Arm!Paths
    <2>3. QED
        BY <2>1, <2>2 DEF Session, Writing, Arm!Whole
<1>16. Arm!Next \/ UNCHANGED armVars
    BY DEF Next, benchVars
<1>17. CASE UNCHANGED armVars
    BY <1>2, <1>17 DEF armVars
<1>18. QED
    BY <1>5, <1>6, <1>8, <1>9, <1>10, <1>11, <1>13, <1>14, <1>16, <1>17, <1>15 DEF Arm!Next

(* DobotCalibration: for any number of sessions of the two tools, whatever *)
(* is interrupted or lost on the way, the positions that the second tool   *)
(* does not measure are in its file or in a backup.                        *)
THEOREM PositionsSurvive == Spec => []CalibrationSurvives
<1>1. CalibrationInv => CalibrationSurvives
    BY DEF CalibrationInv, Session, Stored, CalibrationSurvives, Arm!CalibrationSurvives
<1>2. QED
    BY CalibrationInit, CalibrationStep, <1>1, PTL DEF Spec

-----------------------------------------------------------------------------
(* DobotCalibration: the menu.  Precedes is a strict total order of the      *)
(* entries, so that each index of the menu has one entry.                    *)

Coordinates == [x : Int, y : Int, z : Int]

LEMMA ArmCardinality == \A S : Arm!Cardinality(S) = Cardinality(S)
BY DEF Arm!Cardinality, Cardinality

LEMMA MenuOrder ==
    ASSUME NEW N \in Nat, NEW g \in [1 .. N -> Coordinates]
    PROVE  \A i, j, k \in 1 .. N :
               /\ ~Arm!Precedes(g, i, i)
               /\ Arm!Precedes(g, i, j) /\ Arm!Precedes(g, j, k) => Arm!Precedes(g, i, k)
               /\ i # j => Arm!Precedes(g, i, j) \/ Arm!Precedes(g, j, i)
<1> TAKE i, j, k \in 1 .. N
<1>1. \A l \in 1 .. N : /\ g[l] = [x |-> g[l].x, y |-> g[l].y, z |-> g[l].z]
                        /\ g[l].x \in Int /\ g[l].y \in Int /\ g[l].z \in Int
    BY DEF Coordinates
<1>2. ~Arm!Precedes(g, i, i)
    BY <1>1 DEF Arm!Precedes
<1>3. Arm!Precedes(g, i, j) /\ Arm!Precedes(g, j, k) => Arm!Precedes(g, i, k)
    BY <1>1 DEF Arm!Precedes
<1>4. i # j => Arm!Precedes(g, i, j) \/ Arm!Precedes(g, j, i)
    BY <1>1 DEF Arm!Precedes
<1>5. QED
    BY <1>2, <1>3, <1>4

Before(g, i) == {j \in DOMAIN g : Arm!Precedes(g, j, i)}

(* As many entries stand before one of them as its place in the menu says *)
LEMMA MenuPlaces ==
    ASSUME NEW N \in Nat, NEW g \in [1 .. N -> Coordinates]
    PROVE  LET place == [i \in 1 .. N |-> Cardinality(Before(g, i)) + 1]
           IN  place \in Injection(1 .. N, 1 .. N) /\ place \in Surjection(1 .. N, 1 .. N)
<1> DEFINE place == [i \in 1 .. N |-> Cardinality(Before(g, i)) + 1]
<1>1. IsFiniteSet(1 .. N) /\ Cardinality(1 .. N) = N
    <2>1. IsFiniteSet(1 .. N) /\ Cardinality(1 .. N) = IF 1 > N THEN 0 ELSE N - 1 + 1
        BY FS_Interval, 1 \in Int, N \in Int, Zenon
    <2>2. QED
        BY <2>1
<1>2. ASSUME NEW i \in 1 .. N
      PROVE  /\ IsFiniteSet(Before(g, i)) /\ Cardinality(Before(g, i)) \in Nat
             /\ Cardinality(Before(g, i)) <= N - 1 /\ i \notin Before(g, i)
    <2>1. i \notin Before(g, i)
        BY MenuOrder DEF Before
    <2>2. Before(g, i) \in SUBSET ((1 .. N) \ {i})
        BY <2>1 DEF Before
    <2>3. IsFiniteSet((1 .. N) \ {i}) /\ Cardinality((1 .. N) \ {i}) = N - 1
        BY <1>1, FS_RemoveElement
    <2>4. IsFiniteSet(Before(g, i)) /\ Cardinality(Before(g, i)) <= N - 1
        BY <2>2, <2>3, FS_Subset
    <2>5. Cardinality(Before(g, i)) \in Nat
        BY <2>4, FS_CardinalityType
    <2>6. QED
        BY <2>1, <2>4, <2>5
<1>3. ASSUME NEW i \in 1 .. N, NEW j \in 1 .. N, Arm!Precedes(g, i, j)
      PROVE  Cardinality(Before(g, i)) < Cardinality(Before(g, j))
    <2>1. Before(g, i) \in SUBSET Before(g, j)
        BY <1>3, MenuOrder DEF Before
    <2>2. i \in Before(g, j) /\ i \notin Before(g, i)
        BY <1>2, <1>3 DEF Before
    <2>3. Before(g, i) # Before(g, j)
        BY <2>2
    <2>4. /\ Cardinality(Before(g, i)) <= Cardinality(Before(g, j))
          /\ Cardinality(Before(g, j)) # Cardinality(Before(g, i))
        BY <1>2, <2>1, <2>3, FS_Subset
    <2>5. QED
        BY <1>2, <2>4
<1>4. place \in [1 .. N -> 1 .. N]
    BY <1>2
<1>5. \A i, j \in 1 .. N : place[i] = place[j] => i = j
    BY <1>2, <1>3, MenuOrder
<1>6. place \in Injection(1 .. N, 1 .. N)
    BY <1>4, <1>5 DEF Injection, IsInjective
<1> HIDE DEF place
<1>7. place \in Surjection(1 .. N, 1 .. N)
    BY <1>1, <1>6, FS_Injection
<1>8. QED
    BY <1>6, <1>7 DEF place

(* The menu lists every entry once, in its place *)
LEMMA MenuListsAll ==
    ASSUME NEW N \in Nat, NEW g \in [1 .. N -> Coordinates]
    PROVE  /\ \A n \in 1 .. N : /\ Arm!MenuOf(g)[n] \in 1 .. N
                                /\ Cardinality(Before(g, Arm!MenuOf(g)[n])) = n - 1
           /\ {Arm!MenuOf(g)[n] : n \in 1 .. N} = 1 .. N
           /\ Arm!MenuOf(g) \in [1 .. N -> 1 .. N]
<1> DEFINE place == [i \in 1 .. N |-> Cardinality(Before(g, i)) + 1]
           menu == Arm!MenuOf(g)
<1>1. place \in Injection(1 .. N, 1 .. N) /\ place \in Surjection(1 .. N, 1 .. N)
    BY MenuPlaces
<1>2. /\ \A i \in 1 .. N : place[i] \in 1 .. N
      /\ \A i, j \in 1 .. N : place[i] = place[j] => i = j
      /\ \A n \in 1 .. N : \E i \in 1 .. N : place[i] = n
    BY <1>1 DEF Injection, IsInjective, Surjection
<1>3. \A i \in 1 .. N : place[i] = Cardinality(Before(g, i)) + 1
    OBVIOUS
<1>4. \A i \in 1 .. N : Cardinality(Before(g, i)) \in Int
    <2> TAKE i \in 1 .. N
    <2>1. IsFiniteSet(1 .. N)
        BY FS_Interval, 1 \in Int, N \in Int, Zenon
    <2>2. Before(g, i) \in SUBSET (1 .. N)
        BY DEF Before
    <2>3. QED
        BY <2>1, <2>2, FS_Subset, FS_CardinalityType
<1>5. /\ DOMAIN g = 1 .. N
      /\ menu = [n \in DOMAIN g |-> CHOOSE i \in DOMAIN g :
                    Arm!Cardinality({j \in DOMAIN g : Arm!Precedes(g, j, i)}) = n - 1]
    BY DEF Arm!MenuOf
<1>5a. \A i : Arm!Cardinality({j \in DOMAIN g : Arm!Precedes(g, j, i)}) = Cardinality(Before(g, i))
    BY ArmCardinality DEF Before
<1> HIDE DEF place, menu
<1>6. ASSUME NEW n \in 1 .. N
      PROVE  menu[n] \in 1 .. N /\ Cardinality(Before(g, menu[n])) = n - 1
    <2>1. PICK i \in 1 .. N : place[i] = n
        BY <1>2
    <2>2. Cardinality(Before(g, i)) = n - 1
        BY <1>3, <1>4, <2>1
    <2>3. \E l \in DOMAIN g : Arm!Cardinality({j \in DOMAIN g : Arm!Precedes(g, j, l)}) = n - 1
        BY <1>5, <1>5a, <2>2
    <2> DEFINE entry == CHOOSE l \in DOMAIN g :
                            Arm!Cardinality({j \in DOMAIN g : Arm!Precedes(g, j, l)}) = n - 1
    <2>4. /\ entry \in DOMAIN g
          /\ Arm!Cardinality({j \in DOMAIN g : Arm!Precedes(g, j, entry)}) = n - 1
        BY <2>3, Zenon
    <2>5. menu[n] = entry
        BY <1>5
    <2> HIDE DEF entry
    <2>6. QED
        BY <1>5, <1>5a, <2>4, <2>5
<1>7. ASSUME NEW i \in 1 .. N
      PROVE  menu[place[i]] = i
    <2>1. place[i] \in 1 .. N
        BY <1>2
    <2>2. menu[place[i]] \in 1 .. N /\ Cardinality(Before(g, menu[place[i]])) = place[i] - 1
        BY <1>6, <2>1
    <2>3. place[menu[place[i]]] = place[i]
        BY <1>3, <1>4, <2>1, <2>2
    <2>4. QED
        BY <1>2, <2>2, <2>3
<1>8. {menu[n] : n \in 1 .. N} = 1 .. N
    <2>1. \A n \in 1 .. N : menu[n] \in 1 .. N
        BY <1>6
    <2>2. \A i \in 1 .. N : \E n \in 1 .. N : menu[n] = i
        BY <1>2, <1>7
    <2>3. QED
        BY <2>1, <2>2
<1>9. menu \in [1 .. N -> 1 .. N]
    <2> DEFINE entry(n) == CHOOSE i \in DOMAIN g :
                    Arm!Cardinality({j \in DOMAIN g : Arm!Precedes(g, j, i)}) = n - 1
    <2>1. menu = [n \in 1 .. N |-> entry(n)]
        BY <1>5
    <2> HIDE DEF entry
    <2>2. \A n \in 1 .. N : entry(n) = menu[n]
        BY <2>1
    <2>3. QED
        BY <1>6, <2>1, <2>2
<1>10. QED
    BY <1>6, <1>8, <1>9 DEF menu

(* Entries that are in the order of the menu stay there *)
LEMMA MenuKeepsOrder ==
    ASSUME NEW N \in Nat, NEW g \in [1 .. N -> Coordinates],
           \A i, j \in 1 .. N : i < j =>
               \/ g[i].x > g[j].x
               \/ g[i].x = g[j].x /\ g[i].y > g[j].y
               \/ g[i] = g[j]
    PROVE  Arm!MenuOf(g) = [n \in 1 .. N |-> n]
<1>1. \A l \in 1 .. N : /\ g[l] = [x |-> g[l].x, y |-> g[l].y, z |-> g[l].z]
                        /\ g[l].x \in Int /\ g[l].y \in Int /\ g[l].z \in Int
    BY DEF Coordinates
<1>2. \A i, j \in 1 .. N : i < j => Arm!Precedes(g, i, j)
    BY <1>1 DEF Arm!Precedes
<1>3. \A i, j \in 1 .. N : Arm!Precedes(g, i, j) <=> i < j
    <2> TAKE i, j \in 1 .. N
    <2>1. CASE i < j
        BY <1>2, <2>1
    <2>2. CASE i = j
        BY <2>2, MenuOrder
    <2>3. CASE j < i
        BY <1>2, <2>3, MenuOrder
    <2>4. QED
        BY <2>1, <2>2, <2>3
<1>4. ASSUME NEW i \in 1 .. N
      PROVE  Cardinality(Before(g, i)) = i - 1
    <2>1. Before(g, i) = 1 .. (i - 1)
        BY <1>3 DEF Before
    <2>2. Cardinality(1 .. (i - 1)) = IF 1 > i - 1 THEN 0 ELSE (i - 1) - 1 + 1
        BY FS_Interval, 1 \in Int, i - 1 \in Int, Zenon
    <2>3. QED
        BY <2>1, <2>2
<1>5. ASSUME NEW n \in 1 .. N
      PROVE  Arm!MenuOf(g)[n] = n
    <2>1. Arm!MenuOf(g)[n] \in 1 .. N /\ Cardinality(Before(g, Arm!MenuOf(g)[n])) = n - 1
        BY MenuListsAll
    <2>2. QED
        BY <1>4, <2>1
<1>6. Arm!MenuOf(g) = [n \in 1 .. N |-> Arm!MenuOf(g)[n]]
    BY MenuListsAll
<1>7. QED
    BY <1>5, <1>6

(* A whole file of a tool says what it was computed from *)
Measured(c) ==
    Arm!Whole(c) =>
        /\ c.grid \in Seq(Coordinates)
        /\ c.grid = IF c.full # << >> THEN Arm!AtHarvestZ(c.full)
                    ELSE Arm!generate_harvest_grid(c.corners[1], c.corners[2], c.mode)

(* What a session has captured so far *)
SessionKnown ==
    /\ tool \in {"none", "corners", "nine"} /\ (phase # "off" => tool # "none")
    /\ pose \in Spots \cup {NoSpot} /\ (fresh => pose \in Spots)
    /\ captures \in Seq(Spots \cup {NoSpot})
    /\ \A i \in 1 .. Len(captures) :
        captures[i] \in Spots \/ (tool = "corners" /\ i > 2)
    /\ phase = "load" => tool = "nine"
    /\ phase \in {"load", "backup", "write", "fill"} =>
        Len(captures) >= IF tool = "corners" THEN 2 ELSE 1

(* What is shown is as it was in the file, and the file written last, if    *)
(* harvest_test prefers its place, is what is shown                         *)
MenuShown ==
    /\ newest # "none" => newest \in Arm!Paths \ {"share"} /\ files[newest] # Arm!Absent
    /\ Arm!Whole(offered) =>
        /\ phase = "off" /\ Measured(offered)
        /\ newest = Arm!NinePath(shell) => offered = files[newest]

MenuInv == SessionKnown /\ MenuShown /\ \A p \in Arm!Paths : Measured(files[p])

(* The second tool's heights are all the same *)
LEMMA FixedHeights ==
    ASSUME NEW spots \in Seq(Spots)
    PROVE  Arm!AtHarvestZ(spots) \in Seq(Coordinates) /\ Len(Arm!AtHarvestZ(spots)) = Len(spots)
<1> DEFINE item(n) == Arm!capture_to_harvest_item(spots[n])
<1>1. Len(spots) \in Nat /\ DOMAIN spots = 1 .. Len(spots)
    OBVIOUS
<1>2. \A n \in 1 .. Len(spots) : spots[n] \in Spots
    OBVIOUS
<1>3. ASSUME NEW spot \in Spots
      PROVE  Arm!capture_to_harvest_item(spot) \in Coordinates
    <2>1. spot \in [x : Nat, y : Nat, z : Nat] /\ Arm!HarvestZ = 0
        BY BenchAssumption DEF Arm!HarvestZ
    <2>2. [spot EXCEPT !.z = 0] = [x |-> spot.x, y |-> spot.y, z |-> 0]
        BY <2>1
    <2>3. QED
        BY <2>1, <2>2 DEF Arm!capture_to_harvest_item, Coordinates
<1>4. \A n \in 1 .. Len(spots) : item(n) \in Coordinates
    BY <1>2, <1>3
<1>5. Arm!AtHarvestZ(spots) = [n \in 1 .. Len(spots) |-> item(n)]
    BY <1>1 DEF Arm!AtHarvestZ
<1> HIDE DEF item
<1>6. QED
    BY <1>1, <1>4, <1>5

(* It depends on no state *)
LEMMA MeasuredKept == \A c : Measured(c)' <=> Measured(c)
BY Zenon DEF Measured, Arm!Whole, Arm!generate_harvest_grid, Arm!interpolate, Arm!HeightAt,
             Arm!AtHarvestZ, Arm!capture_to_harvest_item, Arm!HarvestZ

LEMMA MenuInit == Init => MenuInv
<1> SUFFICES ASSUME Init PROVE MenuInv
    OBVIOUS
<1>1. /\ newest = "none" /\ tool = "none" /\ phase = "off" /\ pose = NoSpot /\ fresh = FALSE
      /\ captures = << >> /\ offered = Arm!Absent
    BY DEF Init, Arm!Init
<1>2. << >> \in Seq(Spots \cup {NoSpot}) /\ Len(<< >>) = 0
    OBVIOUS
<1>3. SessionKnown
    BY <1>1, <1>2 DEF SessionKnown
<1>4. ASSUME NEW spot \in Spots
      PROVE  Measured(Arm!Older(spot))
    <2> DEFINE size == Side * Side
               all == [n \in 1 .. size |-> spot]
    <2>1. Side \in Nat /\ Side > 0
        BY BenchAssumption
    <2>2. size \in Nat /\ size > 0
        BY <2>1
    <2>3. Arm!Older(spot) = [kind |-> "positions", grid |-> Arm!AtHarvestZ(all),
                             others |-> MaxSessions + 1, corners |-> << >>, mode |-> "average",
                             full |-> all]
        BY DEF Arm!Older
    <2> HIDE DEF size
    <2>4. all \in Seq(Spots) /\ Len(all) = size
        BY <2>2
    <2>5. all # << >>
        BY <2>2, <2>4
    <2> HIDE DEF all
    <2>6. QED
        BY <2>3, <2>4, <2>5, FixedHeights DEF Measured
<1>5. PICK c \in {Arm!Absent} \cup {Arm!Older(spot) : spot \in Spots} :
        files = [p \in Arm!Paths |-> IF p = "json" THEN c ELSE Arm!Absent]
    BY DEF Init, Arm!Init
<1>6. Measured(c) /\ Measured(Arm!Absent)
    BY <1>4, NotWhole DEF Measured
<1>7. \A p \in Arm!Paths : Measured(files[p])
    BY <1>5, <1>6
<1>8. QED
    BY <1>1, <1>3, <1>7, NotWhole DEF MenuInv, MenuShown

(* The grid between two corners has integer coordinates *)
LEMMA GridBetween ==
    ASSUME NEW ll \in Spots, NEW ur \in Spots, NEW m \in Arm!HeightModes
    PROVE  Arm!generate_harvest_grid(ll, ur, m) \in Seq(Coordinates)
<1>1. Side \in Int /\ Side > 1 /\ 2 * Side - 1 \in Int /\ 2 * Side - 1 > 1
    BY BenchAssumption
<1>2. /\ ll.x \in Int /\ ll.y \in Int /\ ll.z \in Int
      /\ ur.x \in Int /\ ur.y \in Int /\ ur.z \in Int
    BY BenchAssumption
<1>3. Side * Side \in Nat
    BY BenchAssumption
<1>4. \A n \in Int, d \in Int : d > 0 => n \div d \in Int /\ n % d \in Int
    OBVIOUS
<1>5. ASSUME NEW a \in Int, NEW b \in Int, NEW i \in Int, NEW count \in Int, count > 1
      PROVE  Arm!interpolate(a, b, i, count) \in Int
    <2> DEFINE sum == a * (count - 1 - i) + b * i
    <2>1. sum \in Int
        OBVIOUS
    <2> HIDE DEF sum
    <2>2. sum \div (count - 1) \in Int
        BY <1>4, <1>5, <2>1
    <2>3. QED
        BY <2>2 DEF sum, Arm!interpolate
<1>6. ASSUME NEW i \in Int
      PROVE  Arm!HeightAt(ll, ur, m, i) \in Int
    <2>1. Arm!interpolate(ll.z, ur.z, i, 2 * Side - 1) \in Int
        BY <1>1, <1>2, <1>5
    <2>2. (ll.z + ur.z) \div 2 \in Int
        BY <1>2, <1>4
    <2>3. QED
        BY <1>2, <2>1, <2>2 DEF Arm!HeightAt, Arm!HeightModes
<1> DEFINE row(n) == (n - 1) \div Side
           col(n) == (n - 1) % Side
           point(n) == [x |-> Arm!interpolate(ll.x, ur.x, col(n), Side),
                        y |-> Arm!interpolate(ll.y, ur.y, row(n), Side),
                        z |-> Arm!HeightAt(ll, ur, m, row(n) + col(n))]
<1>7. ASSUME NEW n \in 1 .. Side * Side
      PROVE  row(n) \in Int /\ col(n) \in Int
    <2>1. n - 1 \in Int
        BY <1>3, <1>7
    <2>2. QED
        BY <1>1, <1>4, <2>1
<1>8. Arm!generate_harvest_grid(ll, ur, m) = [n \in 1 .. Side * Side |-> point(n)]
    BY DEF Arm!generate_harvest_grid
<1> HIDE DEF row, col
<1>9. ASSUME NEW n \in 1 .. Side * Side
      PROVE  point(n) \in Coordinates
    <2>1. row(n) \in Int /\ col(n) \in Int /\ row(n) + col(n) \in Int
        BY <1>7
    <2>2. /\ Arm!interpolate(ll.x, ur.x, col(n), Side) \in Int
          /\ Arm!interpolate(ll.y, ur.y, row(n), Side) \in Int
          /\ Arm!HeightAt(ll, ur, m, row(n) + col(n)) \in Int
        BY <1>1, <1>2, <1>5, <1>6, <2>1
    <2>3. QED
        BY <2>2 DEF Coordinates
<1> HIDE DEF point
<1> DEFINE size == Side * Side
<1>10. size \in Nat /\ \A n \in 1 .. size : point(n) \in Coordinates
    BY <1>3, <1>9
<1>11. Arm!generate_harvest_grid(ll, ur, m) = [n \in 1 .. size |-> point(n)]
    BY <1>8
<1> HIDE DEF size
<1>12. QED
    BY <1>10, <1>11

(* What a tool writes is of what it has captured *)
LEMMA CornersMeasured ==
    ASSUME SessionKnown, phase = "fill", tool = "corners", NEW m \in Arm!HeightModes
    PROVE  Arm!Whole(Arm!CornersResult(m)) /\ Measured(Arm!CornersResult(m))
<1>1. Len(captures) >= 2 /\ captures[1] \in Spots /\ captures[2] \in Spots
      /\ captures \in Seq(Spots \cup {NoSpot})
    BY DEF SessionKnown
<1> DEFINE two == SubSeq(captures, 1, 2)
<1>2. two[1] = captures[1] /\ two[2] = captures[2]
    BY <1>1, SubSeqProperties
<1> HIDE DEF two
<1>3. Arm!CornersResult(m) = [kind |-> "positions",
                              grid |-> Arm!generate_harvest_grid(captures[1], captures[2], m),
                              others |-> sessions, corners |-> two, mode |-> m, full |-> << >>]
    BY DEF Arm!CornersResult, two
<1>4. QED
    BY <1>1, <1>2, <1>3, GridBetween DEF Arm!Whole, Measured

LEMMA NineMeasured ==
    ASSUME SessionKnown, phase = "fill", tool = "nine"
    PROVE  Arm!Whole(Arm!NineResult) /\ Measured(Arm!NineResult)
<1>1. captures \in Seq(Spots \cup {NoSpot}) /\ Len(captures) >= 1
      /\ \A i \in 1 .. Len(captures) : captures[i] \in Spots
    BY DEF SessionKnown
<1>2. captures = [i \in 1 .. Len(captures) |-> captures[i]] /\ Len(captures) \in Nat
    BY <1>1
<1>3. captures # << >> /\ captures \in Seq(Spots)
    BY <1>1, <1>2
<1>4. Arm!NineResult = [kind |-> "positions", grid |-> Arm!AtHarvestZ(captures),
                        others |-> base.others, corners |-> base.corners, mode |-> base.mode,
                        full |-> captures]
    BY DEF Arm!NineResult
<1>5. QED
    BY <1>3, <1>4, FixedHeights DEF Arm!Whole, Measured

LEMMA MenuStep ==
    ASSUME CalibrationInv, MenuInv, [Next]_benchVars
    PROVE  MenuInv'
<1>1. \A c : (Arm!Whole(c) <=> c.kind = "positions")
    BY DEF Arm!Whole
<1>2. ASSUME UNCHANGED files
      PROVE  \A p \in Arm!Paths : Measured(files[p])'
    BY <1>2, MeasuredKept DEF MenuInv, Arm!Paths
<1>3. ASSUME UNCHANGED <<files, newest, offered, shell>>, SessionKnown',
             phase # "off" \/ phase' = phase
      PROVE  MenuInv'
    BY <1>2, <1>3, MeasuredKept
       DEF MenuInv, MenuShown, Arm!Whole, Arm!NinePath, Arm!CornersPath, Arm!InPackage,
           Arm!Paths, Arm!Absent
<1>4. CASE UNCHANGED armVars
    BY <1>3, <1>4 DEF armVars, MenuInv, SessionKnown
<1>5. << >> \in Seq(Spots \cup {NoSpot}) /\ Len(<< >>) = 0
    OBVIOUS
<1>6. ASSUME NEW t \in {"corners", "nine"}, NEW k, NEW sh, Arm!SessionStarts(t, k, sh)
      PROVE  MenuInv'
    <2>1. /\ UNCHANGED <<files, newest>> /\ phase' = "first" /\ captures' = << >>
          /\ tool' = t /\ pose' = NoSpot /\ fresh' = FALSE /\ offered' = Arm!Absent
        BY <1>6 DEF Arm!SessionStarts, Arm!storeVars, Arm!Forgets, Arm!NoMenu
    <2>2. SessionKnown'
        BY <1>5, <2>1 DEF SessionKnown
    <2>3. QED
        BY <1>2, <2>1, <2>2, NotWhole DEF MenuInv, MenuShown, Arm!Whole, Arm!Paths, Arm!Absent
<1>7. CASE Arm!CornersStarts \/ Arm!NineStarts
    BY <1>6, <1>7 DEF Arm!CornersStarts, Arm!NineStarts
<1>8. CASE Arm!PosesStop \/ Arm!FirstPose \/ \E s \in Spots : Arm!PoseMessage(s)
    <2>1. /\ UNCHANGED <<files, newest, offered, shell, tool, captures>> /\ phase # "off"
          /\ phase' \in {phase, "prompt"}
        BY <1>8 DEF Arm!PoseMessage, Arm!PosesStop, Arm!FirstPose, Arm!storeVars,
                    Arm!sessionVars, Arm!menuVars
    <2>2. pose' \in Spots \cup {NoSpot} /\ (fresh' => pose' \in Spots)
        BY <1>8 DEF Arm!PoseMessage, Arm!PosesStop, Arm!FirstPose, Arm!poseVars,
                    MenuInv, SessionKnown
    <2>3. SessionKnown'
        BY <2>1, <2>2 DEF MenuInv, SessionKnown
    <2>4. QED
        BY <1>3, <2>1, <2>3
<1>9. CASE Arm!NoFirstPose \/ Arm!LoadFails \/ Arm!CornersSummary \/ Arm!NineSummary
            \/ Arm!Interrupted
    <2>1. phase # "off" /\ Arm!SessionEnds
        BY <1>9 DEF Arm!NoFirstPose, Arm!LoadFails, Arm!CornersSummary, Arm!NineSummary,
                     Arm!WriteSummary, Arm!Interrupted
    <2>2. /\ UNCHANGED <<files, newest, offered, shell, tool>> /\ phase' = "off"
          /\ pose' = NoSpot /\ fresh' = FALSE /\ captures' = << >>
        BY <2>1 DEF Arm!SessionEnds, Arm!Forgets, Arm!storeVars, Arm!menuVars
    <2>3. SessionKnown'
        BY <1>5, <2>2 DEF MenuInv, SessionKnown
    <2>4. QED
        BY <1>3, <2>1, <2>2, <2>3
<1>10. ASSUME NEW t \in {"corners", "nine"}, NEW spot, NEW after,
             spot \in Spots \/ (t = "corners" /\ spot = NoSpot /\ Len(captures) >= 2),
             after = IF t = "corners" THEN "write" ELSE "load",
             Arm!Captures(t, spot, after)
      PROVE  MenuInv'
    <2>1. /\ UNCHANGED <<files, newest, offered, shell, tool, pose, fresh>> /\ tool = t
          /\ phase = "prompt" /\ captures' = Append(captures, spot)
          /\ phase' = IF Len(captures') < Arm!Steps(t) THEN "prompt" ELSE after
        BY <1>10 DEF Arm!Captures, Arm!storeVars, Arm!sessionVars, Arm!poseVars, Arm!menuVars
    <2>2. captures \in Seq(Spots \cup {NoSpot}) /\ spot \in Spots \cup {NoSpot}
          /\ Len(captures) \in Nat
        BY <1>10 DEF MenuInv, SessionKnown
    <2>3. /\ captures' \in Seq(Spots \cup {NoSpot}) /\ Len(captures') = Len(captures) + 1
          /\ \A i \in 1 .. Len(captures) : captures'[i] = captures[i]
          /\ captures'[Len(captures) + 1] = spot
        BY <2>1, <2>2
    <2>4. \A i \in 1 .. Len(captures') : captures'[i] \in Spots \/ (tool' = "corners" /\ i > 2)
        <3> TAKE i \in 1 .. Len(captures')
        <3>1. CASE i \in 1 .. Len(captures)
            BY <2>1, <2>3, <3>1 DEF MenuInv, SessionKnown
        <3>2. CASE i = Len(captures) + 1
            BY <1>10, <2>1, <2>2, <2>3, <3>2
        <3>3. QED
            BY <2>2, <2>3, <3>1, <3>2
    <2>5. Arm!Steps(t) \in Nat /\ Arm!Steps(t) >= IF t = "corners" THEN 2 ELSE 1
        <3>1. Side \in Nat /\ Side >= 1
            BY BenchAssumption
        <3>2. Side * Side \in Nat /\ Side * Side >= 1
            BY <3>1
        <3>3. QED
            BY <1>10, <3>2 DEF Arm!Steps
    <2>6. phase' # "prompt" => Len(captures') >= IF t = "corners" THEN 2 ELSE 1
        BY <2>1, <2>2, <2>3, <2>5
    <2>7. SessionKnown'
        BY <1>10, <2>1, <2>3, <2>4, <2>6 DEF MenuInv, SessionKnown
    <2>8. QED
        BY <1>3, <2>1, <2>7
<1>11. CASE Arm!NineCaptures
    <2>1. pose \in Spots
        BY <1>11 DEF Arm!NineCaptures, Arm!Captures, MenuInv, SessionKnown
    <2>2. QED
        BY <1>10, <1>11, <2>1 DEF Arm!NineCaptures
<1>12. CASE Arm!CornersCaptures
    <2>1. pose \in Spots /\ Len(captures) \in Nat
        BY <1>12 DEF Arm!CornersCaptures, Arm!Captures, MenuInv, SessionKnown
    <2>2. CASE Len(captures) < 2
        <3>1. Arm!Captures("corners", pose, "write")
            BY <1>12, <2>2 DEF Arm!CornersCaptures
        <3>2. QED
            BY <1>10, <2>1, <3>1
    <2>3. CASE Len(captures) >= 2
        <3>1. Arm!Captures("corners", NoSpot, "write")
            BY <1>12, <2>1, <2>3 DEF Arm!CornersCaptures
        <3>2. QED
            BY <1>10, <2>3, <3>1
    <2>4. QED
        BY <2>1, <2>2, <2>3
<1>13. CASE Arm!LoadBase \/ Arm!BackupExisting
    <2>1. /\ UNCHANGED <<files, newest, offered, shell, tool, pose, fresh, captures>>
          /\ phase \in {"load", "backup"} /\ phase' \in {"backup", "write"}
        BY <1>13 DEF Arm!LoadBase, Arm!BackupExisting, Arm!storeVars, Arm!sessionVars,
                     Arm!poseVars, Arm!menuVars
    <2>2. SessionKnown'
        BY <2>1 DEF MenuInv, SessionKnown
    <2>3. QED
        BY <1>3, <2>1, <2>2
(* One file changes, to c *)
<1>14. ASSUME NEW c, NEW path \in Arm!Paths, files' = [files EXCEPT ![path] = c], Measured(c)
       PROVE  /\ \A p \in Arm!Paths : Measured(files[p])'
              /\ \A p \in Arm!Paths : files'[p] = IF p = path THEN c ELSE files[p]
    <2>1. \A p \in Arm!Paths : files'[p] = IF p = path THEN c ELSE files[p]
        BY <1>14 DEF CalibrationInv, CalibrationTypes
    <2>2. \A p \in Arm!Paths : Measured(files'[p])
        BY <1>14, <2>1 DEF MenuInv
    <2>3. QED
        BY <2>1, <2>2, MeasuredKept DEF Arm!Paths
<1>15. target \in Arm!Paths \ {"share"} /\ Arm!Truncated # Arm!Absent
    BY DEF CalibrationInv, CalibrationTypes, Arm!Truncated, Arm!Absent
<1>16. CASE Arm!OpenResult
    <2>1. /\ phase = "write" /\ phase' = "fill" /\ UNCHANGED <<newest, offered>>
          /\ UNCHANGED <<tool, pose, fresh, captures>>
          /\ files' = [files EXCEPT ![target] = Arm!Truncated]
        BY <1>16 DEF Arm!OpenResult, Arm!sessionVars, Arm!poseVars, Arm!menuVars
    <2>2. SessionKnown'
        BY <2>1 DEF MenuInv, SessionKnown
    <2>3. ~Arm!Whole(offered) /\ ~Arm!Whole(offered')
        BY <2>1 DEF MenuInv, MenuShown
    <2>4. /\ \A p \in Arm!Paths : Measured(files[p])'
          /\ \A p \in Arm!Paths : files'[p] = IF p = target THEN Arm!Truncated ELSE files[p]
        BY <1>14, <1>15, <2>1, NotWhole DEF Measured
    <2>5. MenuShown'
        BY <1>15, <2>1, <2>3, <2>4 DEF MenuInv, MenuShown, Arm!Whole, Arm!Paths, Arm!Absent
    <2>6. QED
        BY <2>2, <2>4, <2>5 DEF MenuInv
<1>17. CASE Arm!WriteResult
    <2>1. /\ phase = "fill" /\ phase' = "summary" /\ UNCHANGED offered
          /\ newest' = target /\ UNCHANGED <<tool, pose, fresh, captures>>
        BY <1>17 DEF Arm!WriteResult, Arm!sessionVars, Arm!poseVars, Arm!menuVars
    <2>2. SessionKnown'
        BY <2>1 DEF MenuInv, SessionKnown
    <2>3. ~Arm!Whole(offered) /\ ~Arm!Whole(offered')
        BY <2>1 DEF MenuInv, MenuShown
    <2>4. PICK c : files' = [files EXCEPT ![target] = c] /\ Arm!Whole(c) /\ Measured(c)
        BY <1>17, <2>1, CornersMeasured, NineMeasured DEF Arm!WriteResult, MenuInv
    <2>5. /\ \A p \in Arm!Paths : Measured(files[p])'
          /\ \A p \in Arm!Paths : files'[p] = IF p = target THEN c ELSE files[p]
        BY <1>14, <1>15, <2>4
    <2>6. c # Arm!Absent
        BY <2>4, NotWhole
    <2>7. MenuShown'
        BY <1>15, <2>1, <2>3, <2>5, <2>6 DEF MenuShown, Arm!Whole, Arm!Paths, Arm!Absent
    <2>8. QED
        BY <2>2, <2>5, <2>7 DEF MenuInv
<1>18. ASSUME NEW sh \in Arm!Shells, Arm!HarvestLoads(sh) \/ Arm!HarvestRefuses(sh)
       PROVE  MenuInv'
    <2>1. /\ UNCHANGED <<files, newest, tool, pose, fresh, captures, phase>> /\ phase = "off"
          /\ \/ offered' = files[Arm!HarvestPath(sh)] /\ shell' = sh
             \/ offered' = Arm!Absent
        BY <1>18 DEF Arm!HarvestLoads, Arm!HarvestRefuses, Arm!NoMenu, Arm!storeVars,
                     Arm!sessionVars, Arm!poseVars
    <2>2. SessionKnown'
        BY <2>1 DEF MenuInv, SessionKnown
    <2>3. CASE offered' = Arm!Absent
        BY <1>2, <2>1, <2>2, <2>3, NotWhole DEF MenuInv, MenuShown, Arm!Whole, Arm!Paths, Arm!Absent
    <2>4. CASE offered' = files[Arm!HarvestPath(sh)] /\ shell' = sh
        <3>1. Arm!HarvestPath(sh) \in Arm!Paths
            BY PathsKnown DEF Arm!HarvestPath, Arm!Paths
        <3>2. newest = Arm!NinePath(sh) => Arm!HarvestPath(sh) = newest
            BY <1>18 DEF MenuInv, MenuShown, Arm!HarvestPath, Arm!NinePath, Arm!CornersPath,
                         Arm!InPackage, Arm!Exists, Arm!Shells
        <3>3. newest' = Arm!NinePath(shell)' => offered' = files'[newest']
            BY <2>1, <2>4, <3>2 DEF Arm!NinePath, Arm!CornersPath, Arm!InPackage
        <3>4. Measured(files[Arm!HarvestPath(sh)])
            BY <3>1 DEF MenuInv
        <3>5. Measured(offered)'
            BY <2>4, <3>4, MeasuredKept
        <3>6. MenuShown'
            BY <2>1, <3>3, <3>5 DEF MenuInv, MenuShown, Arm!Whole, Arm!Paths, Arm!Absent
        <3>7. QED
            BY <1>2, <2>1, <2>2, <3>6 DEF MenuInv
    <2>5. QED
        BY <2>1, <2>3, <2>4
<1>19. CASE Arm!InstallConfig
    <2>1. /\ UNCHANGED <<newest, offered, shell, tool, pose, fresh, captures, phase>>
          /\ files' = [files EXCEPT !["share"] = files["source"]]
        BY <1>19 DEF Arm!InstallConfig, Arm!sessionVars, Arm!poseVars, Arm!menuVars
    <2>2. SessionKnown'
        BY <2>1 DEF MenuInv, SessionKnown
    <2>3. "share" \in Arm!Paths /\ Measured(files["source"])
        BY DEF MenuInv, Arm!Paths
    <2>4. /\ \A p \in Arm!Paths : Measured(files[p])'
          /\ \A p \in Arm!Paths : files'[p] = IF p = "share" THEN files["source"] ELSE files[p]
        BY <1>14, <2>1, <2>3
    <2>5. newest # "none" => files'[newest] = files[newest]
        BY <2>4 DEF MenuInv, MenuShown
    <2>6. Arm!NinePath(shell)' = Arm!NinePath(shell)
        BY <2>1 DEF Arm!NinePath, Arm!CornersPath, Arm!InPackage
    <2>7. Arm!NinePath(shell) # "none"
        BY DEF Arm!NinePath, Arm!CornersPath, Arm!InPackage
    <2>8. Measured(offered) => Measured(offered)'
        BY <2>1, MeasuredKept
    <2>9. MenuShown'
        BY <2>1, <2>5, <2>6, <2>7, <2>8 DEF MenuInv, MenuShown, Arm!Whole, Arm!Paths, Arm!Absent
    <2>10. QED
        BY <2>2, <2>4, <2>9 DEF MenuInv
<1>20. Arm!Next \/ UNCHANGED armVars
    BY DEF Next, benchVars
<1>21. QED
    BY <1>4, <1>7, <1>8, <1>11, <1>12, <1>13, <1>16, <1>17, <1>18, <1>20, <1>9, <1>19 DEF Arm!Next

(* DobotCalibration: for a grid of any size and any number of sessions of   *)
(* the two tools, in whatever shells: the menu of harvest_test is of the    *)
(* file written last where that is where the second tool would write, its   *)
(* positions are those captured, and it lists each of them once and in the  *)
(* order of the capture.                                                    *)
THEOREM MenuIsMeasured == Spec => []MenuTellsMeasured
<1>1. ASSUME MenuInv
      PROVE  MenuTellsMeasured
    <2> SUFFICES ASSUME Arm!Whole(offered)
                 PROVE  Arm!MenuTellsMeasured
        BY DEF MenuTellsMeasured, Arm!MenuTellsMeasured
    <2> DEFINE g == offered.grid
    <2>1. Measured(offered) /\ (newest = Arm!NinePath(shell) => offered = files[newest])
        BY <1>1 DEF MenuInv, MenuShown
    <2>2. g \in Seq(Coordinates)
        BY <2>1 DEF Measured
    <2>3. g = IF offered.full # << >> THEN Arm!AtHarvestZ(offered.full)
              ELSE Arm!generate_harvest_grid(offered.corners[1], offered.corners[2], offered.mode)
        BY <2>1 DEF Measured
    <2> HIDE DEF g
    <2>4. Len(g) \in Nat /\ DOMAIN g = 1 .. Len(g) /\ g \in [1 .. Len(g) -> Coordinates]
        BY <2>2, LenProperties
    <2>5. {Arm!MenuOf(g)[n] : n \in DOMAIN Arm!MenuOf(g)} = DOMAIN g
        <3>1. {Arm!MenuOf(g)[n] : n \in 1 .. Len(g)} = 1 .. Len(g)
            BY <2>4, MenuListsAll
        <3>2. DOMAIN Arm!MenuOf(g) = 1 .. Len(g)
            BY <2>4, MenuListsAll
        <3>3. QED
            BY <2>4, <3>1, <3>2
    <2>6. ASSUME \A i, j \in DOMAIN g : i < j =>
                    \/ g[i].x > g[j].x
                    \/ g[i].x = g[j].x /\ g[i].y > g[j].y
                    \/ g[i] = g[j]
          PROVE  Arm!MenuOf(g) = [n \in DOMAIN g |-> n]
        BY <2>4, <2>6, MenuKeepsOrder
    <2>7. QED
        BY <2>1, <2>3, <2>5, <2>6 DEF g, Arm!MenuTellsMeasured
<1>2. QED
    BY CalibrationInit, CalibrationStep, MenuInit, MenuStep, <1>1, PTL DEF Spec

-----------------------------------------------------------------------------
(* GpioBench.  A pin is written by the program that holds its line alone,    *)
(* and a program's place in its code tells what it holds.                    *)

(* Where a program holds the lines of the stepper *)
StepperPlaces ==
    {"requested", "buttons", "stopped", "running", "stopping", "measure", "pulsing"}
Places == StepperPlaces \cup {"off", "next", "watching", "holding"}

PinTypes ==
    /\ at \in [Pins!Programs -> Places]
    /\ holder \in [Pins!Lines -> Pins!Programs \cup {"nobody"}]
    /\ activeLow \in [Pins!Programs -> BOOLEAN]
    /\ loop \in [Threads -> {"none", "low", "high", "leaving"}]
    /\ running \in BOOLEAN

(* The kernel's table and the places agree *)
HoldersKnown ==
    /\ \A p \in Pins!Programs : holder["stepper"] = p <=> at[p] \in StepperPlaces
    /\ holder["servo"] \in {"nobody", "shield"}
    /\ holder["servo"] = "shield" <=> at["shield"] = "holding"

(* Step threads live in a controller that has started, and STEP is high    *)
(* under one in a thread's pulse alone                                     *)
ThreadsKnown ==
    /\ \A t \in Threads :
        loop[t] # "none" => at["controller"] \in {"stopped", "running", "stopping"}
    /\ holder["stepper"] = "controller" =>
        stepPin = 0 \/ \E t \in Threads : loop[t] = "high"

PinInv == PinTypes /\ HoldersKnown /\ ThreadsKnown /\ Pins!PinsObeyHolder

LEMMA PinInit == Init => PinInv
<1> SUFFICES ASSUME Init PROVE PinInv
    OBVIOUS
<1>1. /\ at = [p \in Pins!Programs |-> "off"] /\ holder = [l \in Pins!Lines |-> "nobody"]
      /\ enable = 1 /\ stepPin = 0 /\ servoPin = 0 /\ running = FALSE
      /\ activeLow = [p \in Pins!Programs |-> TRUE]
      /\ loop = [t \in Threads |-> "none"]
    BY DEF Init, Pins!Init
<1>2. PinTypes
    BY <1>1 DEF PinTypes, Places
<1>3. HoldersKnown /\ ThreadsKnown /\ Pins!PinsObeyHolder
    BY <1>1 DEF HoldersKnown, ThreadsKnown, Pins!PinsObeyHolder, StepperPlaces,
                Pins!Programs, Pins!Lines
<1>4. QED
    BY <1>2, <1>3 DEF PinInv

LEMMA PinStep ==
    ASSUME PinInv, [Next]_benchVars
    PROVE  PinInv'
<1> USE DEF PinInv, PinTypes, HoldersKnown, ThreadsKnown, Pins!PinsObeyHolder,
            StepperPlaces, Places, Pins!Programs, Pins!Lines
<1>0. Pins!PinsOf("stepper") = {"enable", "step"} /\ Pins!PinsOf("servo") = {"servo"}
    BY DEF Pins!PinsOf
<1>1. CASE Pins!ControllerStarts
    <2>1. CASE Pins!StepperRequested("controller") /\ Pins!Goto("controller", "requested")
        BY <1>0, <1>1, <2>1 DEF Pins!ControllerStarts, Pins!StepperRequested, Pins!Free,
                                Pins!Take, Pins!Goto, Pins!argVars
    <2>2. CASE Pins!StepperBusy("controller") /\ UNCHANGED <<at, enable, stepPin, loose>>
        <3>1. /\ holder' \in [Pins!Lines -> Pins!Programs \cup {"nobody"}]
              /\ holder'["stepper"] = holder["stepper"] /\ holder'["servo"] = holder["servo"]
            BY <1>1, <2>2 DEF Pins!ControllerStarts, Pins!StepperBusy, Pins!ReleaseAll
        <3>2. QED
            BY <1>1, <2>2, <3>1 DEF Pins!ControllerStarts, Pins!argVars
    <2>3. QED
        BY <1>1, <2>1, <2>2 DEF Pins!ControllerStarts
<1>2. CASE Pins!ControllerSetUp \/ Pins!ButtonsRequested
    BY <1>2 DEF Pins!ControllerSetUp, Pins!ButtonsRequested, Pins!ReleaseAll, Pins!Free, Pins!Take,
                Pins!Goto, Pins!argVars, Pins!pinVars, Pins!motorVars
<1>3. CASE Pins!ControllerRuns
    BY <1>3 DEF Pins!ControllerRuns, Pins!Goto, Pins!argVars, Pins!motorVars
<1>4. CASE Pins!ControllerTells
    BY <1>4 DEF Pins!ControllerTells, Pins!Goto, Pins!argVars, Pins!pinVars
<1>5. CASE Pins!ControllerStops
    BY <1>5 DEF Pins!ControllerStops, Pins!Goto, Pins!argVars
<1>6. ASSUME NEW t \in Threads, Pins!ThreadPulses(t)
       PROVE  PinInv'
    BY <1>6 DEF Pins!ThreadPulses, Pins!argVars
<1>7. ASSUME NEW t \in Threads, Pins!ThreadTold(t) \/ Pins!ThreadDisables(t)
       PROVE  PinInv'
    BY <1>7 DEF Pins!ThreadTold, Pins!ThreadDisables, Pins!argVars, Pins!pinVars
<1>8. ASSUME NEW t \in Threads, Pins!ThreadFinishes(t)
       PROVE  PinInv'
    BY <1>8 DEF Pins!ThreadFinishes, Pins!argVars, Pins!pinVars
<1>9. CASE Pins!ControllerEnds
    BY <1>9 DEF Pins!ControllerEnds, Pins!ThreadsGone, Pins!ReleaseAll, Pins!Goto,
                Pins!argVars, Pins!pinVars
<1>10. ASSUME NEW low \in BOOLEAN, Pins!LevelStarts(low)
      PROVE  PinInv'
    BY <1>10, <1>0 DEF Pins!LevelStarts, Pins!StepperRequested, Pins!StepperBusy, Pins!ReleaseAll,
                Pins!Free, Pins!Take, Pins!Goto, Pins!motorVars
<1>11. CASE Pins!LevelEnables \/ Pins!LevelCycle
    BY <1>11 DEF Pins!LevelEnables, Pins!LevelCycle, Pins!enable_value, Pins!Goto, Pins!argVars,
                Pins!motorVars
<1>12. CASE Pins!LevelEnds \/ Pins!LevelInterrupted
    BY <1>12, <1>0 DEF Pins!LevelEnds, Pins!LevelInterrupted, Pins!Rest, Pins!AfterRest,
                Pins!enable_value, Pins!ReleaseAll, Pins!Goto,
                Pins!argVars, Pins!pinVars, Pins!motorVars
<1>13. ASSUME NEW low \in BOOLEAN, Pins!PulseStarts(low)
      PROVE  PinInv'
    BY <1>13, <1>0 DEF Pins!PulseStarts, Pins!StepperRequested, Pins!StepperBusy, Pins!ReleaseAll,
                Pins!Free, Pins!Take, Pins!Goto, Pins!motorVars
<1>14. ASSUME NEW p \in {"pulse", "shield"}, Pins!PulseEnables(p) \/ Pins!Pulse(p)
      PROVE  PinInv'
    BY <1>14 DEF Pins!PulseEnables, Pins!Pulse, Pins!enable_value, Pins!Goto, Pins!argVars,
                Pins!motorVars
<1>15. ASSUME NEW p \in {"pulse", "shield"}, Pins!PulseEnds(p)
       PROVE  PinInv'
    BY <1>15 DEF Pins!PulseEnds, Pins!Rest, Pins!AfterRest, Pins!enable_value, Pins!ReleaseAll,
                 Pins!Goto, Pins!argVars, Pins!motorVars
<1>16. ASSUME NEW low \in BOOLEAN, NEW m \in Pins!Modes, Pins!ShieldStarts(m, low)
       PROVE  PinInv'
    BY <1>16 DEF Pins!ShieldStarts, Pins!Goto, Pins!pinVars, Pins!motorVars
<1>17. CASE Pins!TestButtons \/ Pins!TestServo
    BY <1>17, <1>0 DEF Pins!TestButtons, Pins!TestServo, Pins!ReleaseAll, Pins!Free, Pins!Take,
                 Pins!Goto, Pins!pinVars, Pins!motorVars
<1>18. CASE Pins!ServoPulse \/ Pins!LayerEnds
    BY <1>18 DEF Pins!ServoPulse, Pins!LayerEnds, Pins!ReleaseAll, Pins!Goto, Pins!argVars,
                 Pins!motorVars
<1>19. CASE Pins!TestStepper \/ Pins!ShieldEnds
    BY <1>19, <1>0 DEF Pins!TestStepper, Pins!ShieldEnds, Pins!StepperRequested, Pins!StepperBusy,
                 Pins!ReleaseAll, Pins!Free, Pins!Take,
                 Pins!Goto, Pins!argVars, Pins!pinVars, Pins!motorVars
<1>20. ASSUME NEW p \in Pins!Programs, Pins!Killed(p)
       PROVE  PinInv'
    BY <1>20, <1>0 DEF Pins!Killed, Pins!ThreadsGone, Pins!ReleaseAll, Pins!Goto, Pins!argVars,
                 Pins!pinVars
<1>21. CASE UNCHANGED pinsVars
    BY <1>21 DEF pinsVars, Pins!pinVars, Pins!argVars
<1>22. Pins!Next \/ UNCHANGED pinsVars
    BY DEF Next, benchVars
<1>23. QED
    BY <1>1, <1>2, <1>3, <1>4, <1>5, <1>6, <1>7, <1>8, <1>9, <1>10, <1>11, <1>12, <1>13, <1>14,
       <1>15, <1>16, <1>17, <1>18, <1>19, <1>20, <1>21, <1>22 DEF Pins!Next

(* GpioBench: whatever programs are started beside each other, however they  *)
(* end and whatever late step threads do, the pins are as the program that  *)
(* holds them, or held them last, wants them, but for those left loose.     *)
THEOREM PinsObeyed == Spec => []PinsObeyHolder
<1>1. PinInv => PinsObeyHolder
    BY DEF PinInv, PinsObeyHolder
<1>2. QED
    BY PinInit, PinStep, <1>1, PTL DEF Spec

-----------------------------------------------------------------------------
(* RoiSelection: the order of the points *)

LEMMA SameCardinality == \A S : Region!Cardinality(S) = Cardinality(S)
BY DEF Region!Cardinality, Cardinality

LEMMA FourIndices == IsFiniteSet(1 .. 4) /\ Cardinality(1 .. 4) = 4
<1>1. IsFiniteSet(1 .. 4) /\ Cardinality(1 .. 4) = IF 1 > 4 THEN 0 ELSE 4 - 1 + 1
    BY FS_Interval, 1 \in Int, 4 \in Int, Zenon
<1>2. QED
    BY <1>1

LEMMA FourDifferent ==
    ASSUME NEW q, Len(q) = 4, DOMAIN q = 1 .. 4, q = [i \in 1 .. 4 |-> q[i]],
           Cardinality({q[i] : i \in 1 .. Len(q)}) = 4
    PROVE  \A i, j \in 1 .. 4 : q[i] = q[j] => i = j
<1> DEFINE T == {q[i] : i \in 1 .. 4}
<1>1. q \in Surjection(1 .. 4, T)
    BY DEF Surjection
<1>2. IsFiniteSet(1 .. 4) /\ Cardinality(1 .. 4) = 4
    BY FourIndices
<1>3. Cardinality(T) = Cardinality(1 .. 4)
    BY <1>2
<1>4. q \in Injection(1 .. 4, T)
    BY <1>1, <1>2, <1>3, FS_Surjection
<1>5. QED
    BY <1>4 DEF Injection, IsInjective

LEMMA LeastOfFour ==
    ASSUME NEW f \in [1 .. 4 -> Int]
    PROVE  \E i \in 1 .. 4 : /\ \A j \in 1 .. 4 : f[i] <= f[j]
                             /\ \A j \in 1 .. i - 1 : f[i] < f[j]
<1>1. \E a \in 1 .. 2 : f[a] <= f[1] /\ f[a] <= f[2] /\ (a = 2 => f[2] < f[1])
    OBVIOUS
<1>2. \E b \in 3 .. 4 : f[b] <= f[3] /\ f[b] <= f[4] /\ (b = 4 => f[4] < f[3])
    OBVIOUS
<1>3. PICK a \in 1 .. 2 : f[a] <= f[1] /\ f[a] <= f[2] /\ (a = 2 => f[2] < f[1])
    BY <1>1
<1>4. PICK b \in 3 .. 4 : f[b] <= f[3] /\ f[b] <= f[4] /\ (b = 4 => f[4] < f[3])
    BY <1>2
<1>5. CASE f[a] <= f[b]
    <2>1. \A j \in 1 .. 4 : f[a] <= f[j]
        BY <1>3, <1>4, <1>5
    <2>2. \A j \in 1 .. a - 1 : f[a] < f[j]
        BY <1>3
    <2>3. QED
        BY <2>1, <2>2
<1>6. CASE f[b] < f[a]
    <2>1. \A j \in 1 .. 4 : f[b] <= f[j]
        BY <1>3, <1>4, <1>6
    <2>2. \A j \in 1 .. b - 1 : f[b] < f[j]
        BY <1>3, <1>4, <1>6
    <2>3. QED
        BY <2>1, <2>2
<1>7. QED
    BY <1>5, <1>6

LEMMA FirstLeastIndex ==
    ASSUME NEW p, Len(p) = 4, NEW f \in [1 .. 4 -> Int]
    PROVE  Region!FirstLeast(p, f) \in 1 .. 4
BY LeastOfFour DEF Region!FirstLeast

LEMMA AutoTakesClicked ==
    ASSUME NEW p \in Seq(Pixels), Len(p) = 4
    PROVE  \E a, b, c, d \in 1 .. 4 : Region!auto_order_points(p) = <<p[a], p[b], p[c], p[d]>>
<1>1. \A i \in 1 .. 4 : p[i].x \in Nat /\ p[i].y \in Nat
    <2>1. p \in [1 .. Len(p) -> Pixels]
        BY LenProperties
    <2>2. \A i \in 1 .. 4 : p[i] \in [x : Nat, y : Nat]
        BY <2>1, BenchAssumption
    <2>3. QED
        BY <2>2
<1> DEFINE Sum == [i \in 1 .. Len(p) |-> p[i].x + p[i].y]
           Difference == [i \in 1 .. Len(p) |-> p[i].y - p[i].x]
           Minus(f) == [i \in 1 .. Len(p) |-> -f[i]]
<1>2. Sum \in [1 .. 4 -> Int] /\ Difference \in [1 .. 4 -> Int]
    <2>1. \A i \in 1 .. 4 : p[i].x + p[i].y \in Int /\ p[i].y - p[i].x \in Int
        BY <1>1
    <2>2. QED
        BY <2>1
<1>3. Minus(Sum) \in [1 .. 4 -> Int] /\ Minus(Difference) \in [1 .. 4 -> Int]
    <2>1. ASSUME NEW f \in [1 .. 4 -> Int]
          PROVE  [i \in 1 .. 4 |-> -f[i]] \in [1 .. 4 -> Int]
        OBVIOUS
    <2> HIDE DEF Sum, Difference
    <2>2. QED
        BY <1>2, <2>1
<1>4. Region!auto_order_points(p) =
        <<p[Region!FirstLeast(p, Sum)], p[Region!FirstLeast(p, Difference)],
          p[Region!FirstLeast(p, Minus(Sum))], p[Region!FirstLeast(p, Minus(Difference))]>>
    BY DEF Region!auto_order_points
<1> HIDE DEF Sum, Difference, Minus
<1>5. /\ Region!FirstLeast(p, Sum) \in 1 .. 4 /\ Region!FirstLeast(p, Difference) \in 1 .. 4
      /\ Region!FirstLeast(p, Minus(Sum)) \in 1 .. 4
      /\ Region!FirstLeast(p, Minus(Difference)) \in 1 .. 4
    BY <1>2, <1>3, FirstLeastIndex
<1>6. QED
    BY <1>4, <1>5

(* Points that pass for a polygon are all of the clicked ones, in some order *)
LEMMA OrderIsOfClicked ==
    ASSUME points \in Seq(Pixels), Region!Accepted
    PROVE  /\ Region!order_points(points) \in Region!Polygons
           /\ {Region!order_points(points)[i] : i \in 1 .. Corners} =
              {points[i] : i \in 1 .. Len(points)}
<1> Corners = 4
    BY BenchAssumption
<1>1. /\ Len(points) = 4 /\ Cardinality({points[i] : i \in 1 .. Len(points)}) = 4
      /\ points \in [1 .. 4 -> Pixels]
    <2>1. Len(points) = 4 /\ Region!Cardinality({points[i] : i \in 1 .. Len(points)}) = 4
        BY DEF Region!Accepted, Region!Unique
    <2>2. QED
        BY <2>1, SameCardinality
<1>2. CASE Region!order_points(points) = points
    <2>1. \A i, j \in 1 .. 4 : points[i] = points[j] => i = j
        BY <1>1, FourDifferent
    <2>2. QED
        BY <1>1, <1>2, <2>1 DEF Region!Polygons
<1>3. CASE Region!order_points(points) = Region!auto_order_points(points)
    <2>1. PICK a, b, c, d \in 1 .. 4 :
              Region!order_points(points) = <<points[a], points[b], points[c], points[d]>>
        BY <1>1, <1>3, AutoTakesClicked
    <2> DEFINE q == <<points[a], points[b], points[c], points[d]>>
    <2>2. q \in [1 .. 4 -> Pixels] /\ Len(q) = 4
        BY <1>1
    <2>3. Cardinality({q[i] : i \in 1 .. Len(q)}) = 4
        BY <2>1, SameCardinality DEF Region!Accepted, Region!Unique
    <2>4. \A i \in 1 .. 4 : q[i] \in {points[k] : k \in 1 .. 4}
        OBVIOUS
    <2> HIDE DEF q
    <2>5. \A i, j \in 1 .. 4 : q[i] = q[j] => i = j
        BY <2>2, <2>3, FourDifferent
    <2>6. {q[i] : i \in 1 .. 4} = {points[i] : i \in 1 .. 4}
        <3>1. IsFiniteSet({points[i] : i \in 1 .. 4})
            <4>1. points \in Surjection(1 .. 4, {points[i] : i \in 1 .. 4})
                BY <1>1 DEF Surjection
            <4>2. QED
                BY <4>1, FS_Surjection, FourIndices
        <3>2. {q[i] : i \in 1 .. 4} \in SUBSET {points[i] : i \in 1 .. 4}
            BY <2>4
        <3>3. Cardinality({q[i] : i \in 1 .. 4}) = Cardinality({points[i] : i \in 1 .. 4})
            BY <1>1, <2>2, <2>3
        <3>4. QED
            BY <3>1, <3>2, <3>3, FS_Subset
    <2>7. Region!order_points(points) = q
        BY <2>1 DEF q
    <2>8. QED
        BY <1>1, <2>2, <2>5, <2>6, <2>7 DEF Region!Polygons
<1>4. QED
    BY <1>2, <1>3 DEF Region!order_points

-----------------------------------------------------------------------------
(* What is clicked, and what a window that is done has left *)
SelectionTypes ==
    /\ points \in Seq(Pixels) /\ Len(points) <= Corners
    /\ step \in {"new", "source", "click", "linger", "save", "saved", "ended"}

SelectionKnown ==
    /\ step \in {"click", "linger", "save", "saved"} =>
        (window = "raw" <=> selector = "raw")
    /\ step \in {"click", "linger"} => window \in {"raw", "quad", "roi"}
    /\ step \in {"save", "saved"} => window \in {"raw", "roi"} /\ Region!Accepted
    /\ window = "roi" => quad \in Region!Polygons

SelectionInv == SelectionTypes /\ SelectionKnown /\ Region!SavedAsClicked

LEMMA SelectionInit == Init => SelectionInv
<1> SUFFICES ASSUME Init PROVE SelectionInv
    OBVIOUS
<1>1. points = << >> /\ step = "new" /\ window = "none"
    BY DEF Init, Region!Init, Region!None
<1>2. Corners = 4
    BY BenchAssumption
<1>3. QED
    BY <1>1, <1>2 DEF SelectionInv, SelectionTypes, SelectionKnown, Region!SavedAsClicked

LEMMA SelectionStep ==
    ASSUME SelectionInv, [Next]_benchVars
    PROVE  SelectionInv'
<1> USE DEF SelectionInv, SelectionTypes, SelectionKnown, Region!selectorVars,
            Region!clickVars, Region!detectorVars
<1> Corners = 4
    BY BenchAssumption
(* The windows are as they were: only what is saved may differ *)
<1>1. ASSUME UNCHANGED <<order, points>>
      PROVE  Region!Accepted' = Region!Accepted
    BY <1>1 DEF Region!Accepted, Region!order_points
<1>2. CASE UNCHANGED regionVars
    BY <1>1, <1>2 DEF regionVars, Region!SavedAsClicked
<1>3. ASSUME NEW how \in {"ended"}, Region!SelectorEnds(how)
      PROVE  SelectionInv'
    BY <1>3 DEF Region!SelectorEnds, Region!SavedAsClicked, Region!None
<1>4. CASE Region!SourceFails \/ Region!WindowFails \/ Region!SaveBreaksOff
           \/ Region!TopviewSelfTest \/ Region!RawSelfTest
           \/ Region!Cancelled
           \/ \E m \in {"raw", "topview", "unknown"}, any \in BOOLEAN : Region!NodeStarts(m, any)
    BY <1>3, <1>4 DEF Region!SourceFails, Region!WindowFails, Region!SaveBreaksOff,
                      Region!TopviewSelfTest, Region!RawSelfTest, Region!SelfTest,
                      Region!Cancelled, Region!NodeStarts
<1>5. CASE \/ Region!TopviewToolStarts \/ Region!RawToolStarts
           \/ \E s \in Sizes : Region!FrameArrives(s)
           \/ Region!Freeze \/ Region!Complete
    BY <1>5 DEF Region!TopviewToolStarts, Region!RawToolStarts, Region!ToolStarts,
                Region!FrameArrives, Region!Freeze, Region!Complete,
                Region!SavedAsClicked
<1>6. ASSUME NEW p \in Pixels, Region!LeftClick(p)
      PROVE  SelectionInv'
    BY <1>6 DEF Region!LeftClick, Region!SavedAsClicked
<1>7. CASE Region!Undo \/ Region!Reset
    <2>1. points' \in Seq(Pixels) /\ Len(points') <= Corners
        <3>1. CASE Region!Undo
            <4>1. points # << >> /\ points' = SubSeq(points, 1, Len(points) - 1)
                BY <3>1 DEF Region!Undo, Region!None
            <4>2. Len(points) \in Nat /\ \A i \in 1 .. Len(points) : points[i] \in Pixels
                BY LenProperties
            <4>3. QED
                BY <4>1, <4>2, SubSeqProperties
        <3>2. CASE Region!Reset
            BY <3>2 DEF Region!Reset, Region!None
        <3>3. QED
            BY <1>7, <3>1, <3>2
    <2>2. /\ step \in {"click", "linger"}
          /\ UNCHANGED <<config, step, selector, order, window, quad>>
        BY <1>7 DEF Region!Undo, Region!Reset
    <2>3. QED
        BY <2>1, <2>2 DEF Region!SavedAsClicked
<1>8. CASE Region!WindowCloses
    <2>1. Region!order_points(points) \in Region!Polygons
        BY <1>8, OrderIsOfClicked DEF Region!WindowCloses
    <2>2. /\ step = "linger" /\ Region!Accepted /\ UNCHANGED <<selector, order>>
          /\ \/ /\ window = "quad" /\ quad' = Region!order_points(points)
                /\ window' = "roi" /\ points' = << >> /\ step' = "click"
             \/ window # "quad" /\ step' = "save" /\ UNCHANGED <<window, points, quad>>
        BY <1>8 DEF Region!WindowCloses, Region!None
    <2>3. QED
        <3>1. CASE window = "quad"
            BY <2>1, <2>2, <3>1 DEF Region!SavedAsClicked
        <3>2. CASE window # "quad"
            BY <1>1, <2>2, <3>2 DEF Region!SavedAsClicked
        <3>3. QED
            BY <3>1, <3>2
<1>9. CASE Region!Save
    <2> DEFINE ordered == Region!order_points(points)
    <2>1. /\ ordered \in Region!Polygons
          /\ {ordered[i] : i \in 1 .. Corners} = {points[i] : i \in 1 .. Len(points)}
        BY <1>9, OrderIsOfClicked DEF Region!Save
    <2>2. /\ step = "save" /\ step' = "saved"
          /\ UNCHANGED <<selector, order, window, points, quad>>
          /\ config' = IF selector = "raw" THEN Region!RawConfig(ordered)
                       ELSE Region!TopviewConfig(quad, ordered)
        BY <1>9 DEF Region!Save
    <2> HIDE DEF ordered
    <2>3. CASE selector = "raw"
        <3>1. /\ config'.raw_roi.points = ordered
              /\ config'.conveyor_roi = Region!Nowhere /\ config'.topview = Region!Nowhere
            BY <2>2, <2>3 DEF Region!RawConfig, Region!In
        <3>2. QED
            <4>1. SelectionTypes' /\ SelectionKnown'
                BY <1>1, <2>2
            <4>2. \A poly \in {config'.raw_roi, config'.conveyor_roi, config'.topview}
                                \ {Region!Nowhere} : poly.points \in Region!Polygons
                BY <2>1, <2>2, <2>3, <3>1
            <4>3. {config'.raw_roi.points[i] : i \in 1 .. Corners} =
                  {points'[i] : i \in 1 .. Len(points')}
                <5>1. points' = points
                    BY <2>2
                <5>2. {config'.raw_roi.points[i] : i \in 1 .. Corners} =
                      {ordered[i] : i \in 1 .. Corners}
                    BY <3>1
                <5>3. QED
                    BY <2>1, <5>1, <5>2
            <4>4. QED
                BY <2>2, <2>3, <4>1, <4>2, <4>3 DEF Region!SavedAsClicked
    <2>4. CASE selector # "raw"
        <3>1. /\ config'.conveyor_roi.points = ordered
              /\ config'.raw_roi = Region!Nowhere /\ config'.topview.points = quad
            BY <2>2, <2>4 DEF Region!TopviewConfig, Region!In
        <3>2. QED
            <4>1. SelectionTypes' /\ SelectionKnown'
                BY <1>1, <2>2
            <4>2. \A poly \in {config'.raw_roi, config'.conveyor_roi, config'.topview}
                                \ {Region!Nowhere} : poly.points \in Region!Polygons
                BY <2>1, <2>2, <2>4, <3>1
            <4>3. {config'.conveyor_roi.points[i] : i \in 1 .. Corners} =
                  {points'[i] : i \in 1 .. Len(points')}
                <5>1. points' = points
                    BY <2>2
                <5>2. {config'.conveyor_roi.points[i] : i \in 1 .. Corners} =
                      {ordered[i] : i \in 1 .. Corners}
                    BY <3>1
                <5>3. QED
                    BY <2>1, <5>1, <5>2
            <4>4. QED
                BY <2>2, <2>4, <4>1, <4>2, <4>3 DEF Region!SavedAsClicked
    <2>5. QED
        BY <2>3, <2>4
<1>10. CASE \E s \in Sizes : Region!OnImage(s) \/ Region!DropImage(s)
    <2>1. UNCHANGED <<config, step, selector, order, window, points, quad>>
        BY <1>10 DEF Region!OnImage, Region!DropImage, Region!vars
    <2>2. QED
        BY <1>1, <2>1 DEF Region!SavedAsClicked
<1>11. Region!Next \/ UNCHANGED regionVars
    BY DEF Next, benchVars
<1>12. QED
    BY <1>2, <1>4, <1>5, <1>6, <1>7, <1>8, <1>9, <1>10, <1>11 DEF Region!Next

(* RoiSelection: whatever is clicked, taken back and clicked again, in either *)
(* window and in either order, a file saved holds as many different corners   *)
(* as it must, and those of its last window are the ones left there.          *)
THEOREM ClicksSaved == Spec => []SavedAsClicked
<1>1. SelectionInv => SavedAsClicked
    BY DEF SelectionInv, SavedAsClicked
<1>2. QED
    BY SelectionInit, SelectionStep, <1>1, PTL DEF Spec

-----------------------------------------------------------------------------
(* What the tools write about the image in which a polygon was clicked *)
Placed(c) ==
    Region!Readable(c) =>
        /\ c.topview = Region!Nowhere \/ c.topview.space = "raw"
        /\ c.conveyor_roi = Region!Nowhere \/ c.conveyor_roi.space = "topview"
        /\ c.raw_roi = Region!Nowhere \/ c.raw_roi.space = "raw"
        /\ c.topview = Region!Nowhere \/ c.conveyor_roi # Region!Nowhere
        /\ c.topview # Region!Nowhere \/ c.raw_roi # Region!Nowhere

DetectorInv ==
    /\ Placed(config)
    /\ detector = "up" =>
        /\ Region!Readable(loaded) /\ Placed(loaded)
        /\ mode \in {"raw", "topview", "unknown"}
        /\ mode = "topview" => loaded.topview # Region!Nowhere
    /\ used = Region!Nowhere \/ detector = "up"
    /\ Region!RoiInFrameSpace

LEMMA DetectorInit == Init => DetectorInv
<1> SUFFICES ASSUME Init PROVE DetectorInv
    OBVIOUS
<1>1. detector = "off" /\ used = Region!Nowhere
    BY DEF Init, Region!Init
<1>2. PICK s, p : config \in {Region!Absent,
          [kind |-> "config", size |-> s, settings |-> "tuned", topview |-> Region!In("raw", p),
           conveyor_roi |-> Region!In("topview", p), raw_roi |-> Region!Nowhere]}
    BY DEF Init, Region!Init
<1>3. Placed(config)
    BY <1>2 DEF Placed, Region!Readable, Region!Absent, Region!In, Region!Nowhere
<1>4. QED
    BY <1>1, <1>3 DEF DetectorInv, Region!RoiInFrameSpace

LEMMA WritesPlaced ==
    ASSUME NEW p, NEW q
    PROVE  /\ Placed(Region!RawConfig(p)) /\ Placed(Region!TopviewConfig(q, p))
           /\ Placed(Region!Truncated)
BY DEF Placed, Region!RawConfig, Region!TopviewConfig, Region!Truncated, Region!Readable,
       Region!In, Region!Nowhere

LEMMA DetectorStep ==
    ASSUME DetectorInv, [Next]_benchVars
    PROVE  DetectorInv'
<1> USE DEF DetectorInv, Region!RoiInFrameSpace, Region!selectorVars, Region!detectorVars
<1>1. ASSUME UNCHANGED <<detector, mode, any_size, loaded, used>>, Placed(config)'
      PROVE  DetectorInv'
    BY <1>1 DEF Placed, Region!Readable
<1>2. ASSUME UNCHANGED config
      PROVE  Placed(config)'
    BY <1>2 DEF Placed, Region!Readable
<1>3. CASE UNCHANGED regionVars
    BY <1>1, <1>2, <1>3 DEF regionVars
<1>4. CASE \/ Region!TopviewToolStarts \/ Region!RawToolStarts
           \/ \E s \in Sizes : Region!FrameArrives(s)
           \/ Region!SourceFails \/ Region!Freeze \/ Region!Complete
           \/ \E p \in Pixels : Region!LeftClick(p)
           \/ Region!Undo \/ Region!Reset \/ Region!WindowCloses \/ Region!WindowFails
           \/ Region!Cancelled \/ \E s \in Sizes : Region!DropImage(s)
    <2>1. UNCHANGED <<config, detector, mode, any_size, loaded, used>>
        BY <1>4 DEF Region!TopviewToolStarts, Region!RawToolStarts, Region!ToolStarts,
                    Region!FrameArrives, Region!SourceFails, Region!Freeze,
                    Region!Complete, Region!LeftClick, Region!Undo, Region!Reset,
                    Region!WindowCloses, Region!WindowFails, Region!Cancelled, Region!DropImage,
                    Region!vars
    <2>2. QED
        BY <1>1, <1>2, <2>1
<1>5. CASE Region!Save \/ Region!SaveBreaksOff
           \/ Region!TopviewSelfTest \/ Region!RawSelfTest
    <2>1. PICK p, q : config' \in {Region!RawConfig(p), Region!TopviewConfig(q, p),
                                   Region!Truncated}
        BY <1>5 DEF Region!Save, Region!SaveBreaksOff, Region!TopviewSelfTest, Region!RawSelfTest,
                    Region!SelfTest
    <2>2. Placed(config)'
        BY <2>1, WritesPlaced DEF Placed, Region!Readable
    <2>3. UNCHANGED <<detector, mode, any_size, loaded, used>>
        BY <1>5 DEF Region!Save, Region!SaveBreaksOff, Region!TopviewSelfTest, Region!RawSelfTest,
                    Region!SelfTest
    <2>4. QED
        BY <1>1, <2>2, <2>3
<1>6. ASSUME NEW m \in {"raw", "topview", "unknown"}, NEW any \in BOOLEAN, Region!NodeStarts(m, any)
      PROVE  DetectorInv'
    <2>1. /\ UNCHANGED <<config, used>> /\ detector = "off" /\ mode' = m
          /\ \/ /\ Region!Readable(config) /\ (m = "topview" => config.topview # Region!Nowhere)
                /\ detector' = "up" /\ loaded' = config
             \/ detector' = "failed"
        BY <1>6 DEF Region!NodeStarts, Region!TopviewKnown
    <2>2. Placed(config)' /\ used' = Region!Nowhere
        BY <1>2, <2>1
    <2>3. QED
        BY <2>1, <2>2 DEF Placed, Region!Readable
<1>7. ASSUME NEW s \in Sizes, Region!OnImage(s)
      PROVE  DetectorInv'
    <2>1. /\ detector = "up" /\ mode # "unknown" /\ (s = loaded.size \/ any_size)
          /\ UNCHANGED <<config, detector, mode, any_size, loaded>>
          /\ used' = [image |-> mode, size |-> s,
                      roi |-> IF mode = "raw" THEN Region!raw_polygon_from_config(loaded)
                              ELSE Region!polygon_from_config(loaded)]
        BY <1>7 DEF Region!OnImage, Region!Dropped
    <2>2. mode = "raw" => Region!raw_polygon_from_config(loaded).space = "raw"
        BY <2>1 DEF Placed, Region!raw_polygon_from_config
    <2>3. mode # "raw" => Region!polygon_from_config(loaded).space = "topview"
        BY <2>1 DEF Placed, Region!polygon_from_config
    <2>4. used'.roi.space = used'.image /\ (used'.size = loaded'.size \/ any_size')
        BY <2>1, <2>2, <2>3
    <2>5. QED
        BY <1>2, <2>1, <2>4 DEF Placed, Region!Readable
<1>8. Region!Next \/ UNCHANGED regionVars
    BY DEF Next, benchVars
<1>9. QED
    BY <1>3, <1>4, <1>5, <1>6, <1>7, <1>8 DEF Region!Next

(* RoiSelection: whichever tool wrote the file, or broke off, and whichever *)
(* mode the detector runs in, it looks in a polygon of the image it looks   *)
(* at, of the size that the file was made for unless that was given up.     *)
THEOREM RoiKept == Spec => []RoiInFrameSpace
<1>1. DetectorInv => RoiInFrameSpace
    BY DEF DetectorInv, RoiInFrameSpace
<1>2. QED
    BY DetectorInit, DetectorStep, <1>1, PTL DEF Spec

-----------------------------------------------------------------------------
(* RegisterTools: the heartbeat.  Registers is the same in both instances. *)

Beats(b, h) == Heartbeat!register_values(b, h)

BeatInv ==
    /\ restarts \in Nat /\ since \in Nat /\ since <= restarts /\ beats \in Nat
    /\ desk # "heartbeat" => beacon = "off" /\ values = << >>
    /\ beacon = "writing" =>
        /\ \E b, h : values = Beats(b, h)
        /\ written \in 0 .. 4
        /\ since = restarts => \A i \in 1 .. written : reg[values[i].register] = values[i].value

LEMMA BeatInit == Init => BeatInv
BY DEF Init, Commands!Init, BeatInv

(* The five registers are different, and the heartbeat is the last of them *)
LEMMA BeatsApart ==
    ASSUME NEW b, NEW h
    PROVE  /\ Len(Beats(b, h)) = 5
           /\ Beats(b, h)[5].register = Heartbeat!TURTLEBOT_HEARTBEAT
           /\ \A i \in 1 .. 5 : Beats(b, h)[i].register \in Heartbeat!Registers \cap Nat
           /\ \A i, j \in 1 .. 5 :
                Beats(b, h)[i].register = Beats(b, h)[j].register => i = j
BY DEF Beats, Heartbeat!register_values, Heartbeat!Registers,
       Heartbeat!ConveyorBlock, Heartbeat!TurtleBotBlock, Heartbeat!SystemBlock, Heartbeat!TURTLEBOT_STATUS,
       Heartbeat!TURTLEBOT_NAV_STATE, Heartbeat!TURTLEBOT_BATTERY_PERCENT,
       Heartbeat!TURTLEBOT_CURRENT_GOAL, Heartbeat!TURTLEBOT_HEARTBEAT

(* A write of one register leaves the others as they are *)
LEMMA WriteOfOne ==
    ASSUME BeatInv, Heartbeat!WriteSnapshot
    PROVE  /\ written + 1 \in 1 .. 5
           /\ \A i \in 1 .. written : reg'[values[i].register] = reg[values[i].register]
           /\ reg'[values[written + 1].register] = values[written + 1].value
           /\ written < 4 => reg'[Heartbeat!TURTLEBOT_HEARTBEAT] = reg[Heartbeat!TURTLEBOT_HEARTBEAT]
<1>1. PICK b, h : values = Beats(b, h)
    BY DEF BeatInv, Heartbeat!WriteSnapshot
<1>2. written \in 0 .. 4
    BY DEF BeatInv, Heartbeat!WriteSnapshot
<1> DEFINE put == values[written + 1]
<1>3. \A i \in 1 .. 5 : values[i].register \in Heartbeat!Registers \cap Nat
    BY <1>1, BeatsApart
<1>4. zeroBased
    <2>1. ~zeroBased => Heartbeat!Snapshot.at = put.register
        BY DEF Heartbeat!Snapshot, Heartbeat!protocol_address
    <2>2. \A r \in Heartbeat!Registers : r > 100
        BY DEF Heartbeat!Registers, Heartbeat!ConveyorBlock, Heartbeat!TurtleBotBlock,
               Heartbeat!SystemBlock, Heartbeat!CONVEYOR_COMMAND, Heartbeat!CONVEYOR_SPEED_CMD,
               Heartbeat!CONVEYOR_STATUS, Heartbeat!TURTLEBOT_STATUS,
               Heartbeat!TURTLEBOT_NAV_STATE, Heartbeat!TURTLEBOT_BATTERY_PERCENT,
               Heartbeat!TURTLEBOT_CURRENT_GOAL, Heartbeat!TURTLEBOT_HEARTBEAT,
               Heartbeat!SYSTEM_COMMAND, Heartbeat!SYSTEM_COMMAND_SEQ
    <2>3. put.register > 100 /\ put.register \in Nat
        BY <1>2, <1>3, <2>2
    <2>4. Heartbeat!Snapshot.at + 1 <= 100
        BY DEF Heartbeat!WriteSnapshot, Heartbeat!Legal, Heartbeat!Snapshot, Heartbeat!ServerCount
    <2>5. QED
        BY <2>1, <2>3, <2>4
<1>5. \A r \in Heartbeat!Registers :
          reg'[r] = IF r = put.register THEN put.value ELSE reg[r]
    <2>1. /\ Heartbeat!Snapshot.put = <<put.value>>
          /\ Heartbeat!register_number(Heartbeat!Snapshot.at) = put.register
        BY <1>2, <1>3, <1>4 DEF Heartbeat!Snapshot, Heartbeat!protocol_address,
               Heartbeat!register_number, Heartbeat!HoldingRegisterBase
    <2>2. reg' = Heartbeat!After(Heartbeat!Snapshot)
        BY DEF Heartbeat!WriteSnapshot
    <2>3. Heartbeat!Registers \subseteq Nat
        BY DEF Heartbeat!Registers, Heartbeat!ConveyorBlock, Heartbeat!TurtleBotBlock,
               Heartbeat!SystemBlock, Heartbeat!CONVEYOR_COMMAND, Heartbeat!CONVEYOR_SPEED_CMD,
               Heartbeat!CONVEYOR_STATUS, Heartbeat!TURTLEBOT_STATUS,
               Heartbeat!TURTLEBOT_NAV_STATE, Heartbeat!TURTLEBOT_BATTERY_PERCENT,
               Heartbeat!TURTLEBOT_CURRENT_GOAL, Heartbeat!TURTLEBOT_HEARTBEAT,
               Heartbeat!SYSTEM_COMMAND, Heartbeat!SYSTEM_COMMAND_SEQ
    <2>4. put.register \in Nat
        BY <1>2, <1>3
    <2> HIDE DEF put
    <2>5. QED
        BY <2>1, <2>2, <2>3, <2>4 DEF Heartbeat!After
<1>6. \A i \in 1 .. 5 : i # written + 1 => values[i].register # put.register
    BY <1>1, <1>2, BeatsApart
<1>7. QED
    BY <1>1, <1>2, <1>3, <1>5, <1>6, BeatsApart

LEMMA BeatStep ==
    ASSUME BeatInv, [Next]_benchVars
    PROVE  BeatInv'
<1> USE DEF BeatInv
<1>1. CASE UNCHANGED <<desk, registerVars>>
    BY <1>1 DEF registerVars
<1>2. CASE desk = "heartbeat" /\ desk' = desk /\ Heartbeat!Next
    <2>1. CASE Heartbeat!ServerStops \/ Heartbeat!ServerStarts
        BY <1>2, <2>1 DEF Heartbeat!ServerStops, Heartbeat!ServerStarts, Heartbeat!beaconVars
    <2>2. CASE \/ Heartbeat!NodeStarts \/ Heartbeat!NodeEnds
               \/ \E percent \in {0, 100} : Heartbeat!OnBattery(percent)
        BY <1>2, <2>2 DEF Heartbeat!NodeStarts, Heartbeat!NodeEnds, Heartbeat!OnBattery,
                          Heartbeat!serverVars
    <2>3. CASE Heartbeat!Tick
        BY <1>2, <2>3 DEF Heartbeat!Tick, Heartbeat!serverVars, Beats
    <2>4. CASE Heartbeat!WriteSnapshot
        <3>1. /\ beacon = "writing" /\ written' = written + 1 /\ desk' = desk /\ desk = "heartbeat"
              /\ UNCHANGED <<restarts, since, beats, values>>
              /\ beacon' = IF written' = Len(values) THEN "ready" ELSE "writing"
            BY <1>2, <2>4 DEF Heartbeat!WriteSnapshot, Heartbeat!serverVars
        <3>2. Len(values) = 5
            BY <3>1, BeatsApart
        <3>3. since = restarts =>
                  \A i \in 1 .. written + 1 : reg'[values[i].register] = values[i].value
            BY <2>4, <3>1, WriteOfOne
        <3>4. QED
            BY <3>1, <3>2, <3>3
    <2>5. QED
        BY <1>2, <2>1, <2>2, <2>3, <2>4 DEF Heartbeat!Next
<1>3. CASE desk = "commands" /\ desk' = desk /\ Commands!Next
    <2>1. UNCHANGED <<since, beats, beacon, values>> /\ (restarts' = restarts \/ restarts' = restarts + 1)
        <3>1. CASE Commands!ServerStops \/ Commands!ServerStarts
            BY <3>1 DEF Commands!ServerStops, Commands!ServerStarts, Commands!beaconVars
        <3>2. CASE \/ Commands!NodeStarts \/ Commands!Tick \/ Commands!WriteSnapshot
                   \/ Commands!NodeEnds \/ \E percent \in {0, 100} : Commands!OnBattery(percent)
            BY <1>3, <3>2 DEF Commands!NodeStarts, Commands!Tick, Commands!WriteSnapshot,
                              Commands!NodeEnds, Commands!OnBattery
        <3>3. ASSUME NEW t \in Tools,
                     \/ \E list \in Commands!Requests : Commands!ToolStarts(t, list)
                     \/ Commands!ToolDoesNothing(t) \/ Commands!CommandUnknown(t)
                     \/ Commands!SystemCommandUnknown(t) \/ Commands!Request(t)
                     \/ Commands!RequestRaises(t) \/ Commands!StageEnds(t)
              PROVE  UNCHANGED <<since, beats, beacon, values, restarts>>
            BY <3>3 DEF Commands!ToolStarts, Commands!ToolDoesNothing, Commands!CommandUnknown,
                        Commands!ToolEnds, Commands!SystemCommandUnknown, Commands!Request,
                        Commands!RequestRaises, Commands!StageEnds, Commands!beaconVars,
                        Commands!serverVars
        <3>4. QED
            BY <1>3, <3>1, <3>2, <3>3 DEF Commands!Next
    <2>2. QED
        BY <1>3, <2>1
<1>4. QED
    BY <1>1, <1>2, <1>3 DEF Next, benchVars

(* RegisterTools: for any modulus and any number of restarts, a heartbeat   *)
(* that changes comes after the four values that it was counted for.        *)
THEOREM BeatsVouch == Spec => HeartbeatVouches
<1>1. ASSUME BeatInv, [Next]_benchVars,
             reg'[Heartbeat!TURTLEBOT_HEARTBEAT] # reg[Heartbeat!TURTLEBOT_HEARTBEAT],
             up, since = restarts
      PROVE  \A i \in 1 .. Len(values) : reg'[values[i].register] = values[i].value
    <2>1. reg' # reg
        BY <1>1
    <2>2. CASE Heartbeat!WriteSnapshot
        <3>1. beacon = "writing"
            BY <2>2 DEF Heartbeat!WriteSnapshot
        <3>2. Len(values) = 5 /\ written \in 0 .. 4
            BY <1>1, <3>1, BeatsApart DEF BeatInv
        <3>3. written = 4
            BY <1>1, <2>2, <3>2, WriteOfOne
        <3>4. QED
            BY <1>1, <2>2, <3>1, <3>2, <3>3, WriteOfOne DEF BeatInv
    <2>3. CASE desk = "commands"
        BY <1>1, <2>3 DEF BeatInv
    <2>4. CASE desk = "heartbeat" /\ Heartbeat!Next
        BY <1>1, <2>1, <2>2, <2>4
           DEF Heartbeat!Next, Heartbeat!ServerStops, Heartbeat!ServerStarts,
               Heartbeat!NodeStarts, Heartbeat!NodeEnds, Heartbeat!OnBattery, Heartbeat!Tick
    <2>5. CASE UNCHANGED registerVars
        BY <2>1, <2>5 DEF registerVars
    <2>6. QED
        BY <1>1, <2>3, <2>4, <2>5 DEF Next, benchVars
<1>2. BeatInv /\ [Next]_benchVars =>
        [reg'[Heartbeat!TURTLEBOT_HEARTBEAT] # reg[Heartbeat!TURTLEBOT_HEARTBEAT]
            /\ up /\ since = restarts =>
              \A i \in 1 .. Len(values) : reg'[values[i].register] = values[i].value]_(Heartbeat!vars)
    BY <1>1
<1>3. QED
    BY BeatInit, BeatStep, <1>2, PTL DEF Spec, HeartbeatVouches, Heartbeat!HeartbeatVouches

-----------------------------------------------------------------------------
(* RegisterTools: the commands *)

Asks == [at : Nat, put : Seq(Nat)]
Lists == Seq(Seq(Asks))

Past(t) == Len(wanted[t]) - Len(stages[t])

(* What a tool has made so far is in the registers *)
Made(t) ==
    /\ \A s \in 1 .. Past(t) : \A i \in 1 .. Len(wanted[t][s]) : Commands!Holds(wanted[t][s][i])
    /\ \A i \in 1 .. done[t] : Commands!Holds(wanted[t][Past(t) + 1][i])

ToolInv(t) ==
    /\ outcome[t] = "off" => wanted[t] = << >>
    /\ outcome[t] = "running" =>
        /\ wanted[t] \in Commands!Requests
        /\ Past(t) \in 0 .. Len(wanted[t]) - 1
        /\ \A j \in 1 .. Len(stages[t]) : stages[t][j] = wanted[t][Past(t) + j]
        /\ done[t] \in 0 .. Len(wanted[t][Past(t) + 1])
        /\ t \in undisturbed /\ accepted[t] => Made(t)
    /\ outcome[t] = "ok" /\ t \in undisturbed =>
        \A s \in 1 .. Len(wanted[t]) : \A i \in 1 .. Len(wanted[t][s]) :
            Commands!Holds(wanted[t][s][i])

CommandTypes ==
    /\ outcome \in [Tools -> {"off", "running", "ok", "failed"}]
    /\ stages \in [Tools -> Lists] /\ wanted \in [Tools -> Lists]
    /\ done \in [Tools -> Nat] /\ accepted \in [Tools -> BOOLEAN]
    /\ undisturbed \subseteq Tools

CommandInv ==
    /\ CommandTypes
    /\ desk # "commands" => undisturbed = {}
    /\ \A t \in Tools : ToolInv(t)

LEMMA CommandInit == Init => CommandInv
<1> SUFFICES ASSUME Init PROVE CommandInv
    OBVIOUS
<1>1. /\ outcome = [t \in Tools |-> "off"] /\ stages = [t \in Tools |-> <<>>]
      /\ done = [t \in Tools |-> 0] /\ accepted = [t \in Tools |-> TRUE]
      /\ wanted = [t \in Tools |-> <<>>] /\ undisturbed = {}
    BY DEF Init, Commands!Init
<1>2. << >> \in Lists
    BY DEF Lists
<1>3. CommandTypes
    BY <1>1, <1>2 DEF CommandTypes
<1>4. QED
    BY <1>1, <1>3 DEF CommandInv, ToolInv

-----------------------------------------------------------------------------
(* The lists of requests: each of its registers is written once *)

Touches(q) == Commands!register_number(q.at) .. Commands!register_number(q.at) + Len(q.put) - 1

One(a, v) == [at |-> a, put |-> <<v>>]

LEMMA OneTouches ==
    ASSUME NEW a \in Nat, NEW v \in Nat
    PROVE  One(a, v) \in Asks /\ Touches(One(a, v)) = {a + 40001}
<1>1. <<v>> \in Seq(Nat) /\ Len(<<v>>) = 1
    OBVIOUS
<1>2. One(a, v) \in Asks
    BY <1>1 DEF Asks, One
<1>3. Touches(One(a, v)) = a + 40001 .. a + 40001 + 1 - 1
    BY <1>1 DEF Touches, One, Commands!register_number, Commands!HoldingRegisterBase
<1>4. QED
    BY <1>2, <1>3

Apart(list) ==
    /\ list \in Lists /\ Len(list) \in 1 .. 2
    /\ \A s \in 1 .. Len(list) : Len(list[s]) \in 1 .. 2
    /\ \A s \in 1 .. Len(list) : \A i \in 1 .. Len(list[s]) : list[s][i] \in Asks
    /\ \A s1, s2 \in 1 .. Len(list) :
        \A i1 \in 1 .. Len(list[s1]), i2 \in 1 .. Len(list[s2]) :
            s1 # s2 \/ i1 # i2 => Touches(list[s1][i1]) \cap Touches(list[s2][i2]) = {}

LEMMA OneStage ==
    ASSUME NEW a \in Nat, NEW b \in Nat, NEW v \in Nat, NEW w \in Nat, a # b
    PROVE  Apart(<< <<One(a, v), One(b, w)>> >>)
<1> DEFINE list == << <<One(a, v), One(b, w)>> >>
<1>1. /\ One(a, v) \in Asks /\ Touches(One(a, v)) = {a + 40001}
      /\ One(b, w) \in Asks /\ Touches(One(b, w)) = {b + 40001}
    BY OneTouches
<1>2. list \in Lists
    BY <1>1 DEF Lists
<1>3. /\ Len(list) = 1 /\ Len(list[1]) = 2
      /\ list[1][1] = One(a, v) /\ list[1][2] = One(b, w)
    OBVIOUS
<1> HIDE DEF list
<1>4. Apart(list)
    BY <1>1, <1>2, <1>3 DEF Apart
<1>5. QED
    BY <1>4 DEF list

LEMMA TwoStages ==
    ASSUME NEW a \in Nat, NEW b \in Nat, NEW c \in Nat, NEW d \in Nat,
           NEW v \in Nat, NEW w \in Nat, NEW x \in Nat, NEW y \in Nat,
           a < b, b < c, c < d
    PROVE  Apart(<< <<One(a, v), One(b, w)>>, <<One(c, x), One(d, y)>> >>)
<1> DEFINE list == << <<One(a, v), One(b, w)>>, <<One(c, x), One(d, y)>> >>
<1>1. /\ One(a, v) \in Asks /\ Touches(One(a, v)) = {a + 40001}
      /\ One(b, w) \in Asks /\ Touches(One(b, w)) = {b + 40001}
      /\ One(c, x) \in Asks /\ Touches(One(c, x)) = {c + 40001}
      /\ One(d, y) \in Asks /\ Touches(One(d, y)) = {d + 40001}
    BY OneTouches
<1>2. list \in Lists
    BY <1>1 DEF Lists
<1>3. /\ Len(list) = 2 /\ Len(list[1]) = 2 /\ Len(list[2]) = 2
      /\ list[1][1] = One(a, v) /\ list[1][2] = One(b, w)
      /\ list[2][1] = One(c, x) /\ list[2][2] = One(d, y)
    OBVIOUS
<1> HIDE DEF list
<1>4. \A s \in 1 .. 2 : \A i \in 1 .. 2 :
          /\ list[s][i] \in Asks
          /\ Touches(list[s][i]) = {40001 + IF s = 1 THEN IF i = 1 THEN a ELSE b
                                            ELSE IF i = 1 THEN c ELSE d}
    BY <1>1, <1>3
<1>5. \A s1, s2, i1, i2 \in 1 .. 2 :
          s1 # s2 \/ i1 # i2 => Touches(list[s1][i1]) \cap Touches(list[s2][i2]) = {}
    <2> TAKE s1, s2, i1, i2 \in 1 .. 2
    <2> DEFINE m == 40001 + IF s1 = 1 THEN IF i1 = 1 THEN a ELSE b ELSE IF i1 = 1 THEN c ELSE d
               n == 40001 + IF s2 = 1 THEN IF i2 = 1 THEN a ELSE b ELSE IF i2 = 1 THEN c ELSE d
    <2>1. Touches(list[s1][i1]) = {m} /\ Touches(list[s2][i2]) = {n}
        BY <1>4
    <2>2. s1 # s2 \/ i1 # i2 => m # n
        OBVIOUS
    <2>3. QED
        BY <2>1, <2>2
<1>6. \A s \in 1 .. 2 : Len(list[s]) = 2
    BY <1>3
<1>7. Apart(list)
    <2>1. \A s1, s2 \in 1 .. Len(list) :
            \A i1 \in 1 .. Len(list[s1]), i2 \in 1 .. Len(list[s2]) :
                s1 # s2 \/ i1 # i2 => Touches(list[s1][i1]) \cap Touches(list[s2][i2]) = {}
        BY <1>3, <1>5, <1>6
    <2>2. \A s \in 1 .. Len(list) :
            Len(list[s]) \in 1 .. 2 /\ \A i \in 1 .. Len(list[s]) : list[s][i] \in Asks
        BY <1>3, <1>4, <1>6
    <2>3. Len(list) \in 1 .. 2
        BY <1>3
    <2>4. QED
        BY <1>2, <2>1, <2>2, <2>3 DEF Apart
<1>8. QED
    BY <1>7 DEF list

LEMMA RequestsApart ==
    ASSUME NEW list \in Commands!Requests
    PROVE  Apart(list)
<1> USE DEF Commands!CONVEYOR_COMMAND, Commands!CONVEYOR_SPEED_CMD, Commands!SYSTEM_COMMAND,
            Commands!SYSTEM_COMMAND_SEQ, Commands!HoldingRegisterBase, Commands!Put,
            Commands!protocol_address
<1>1. CASE list = Commands!write_command(1, 50, TRUE)
    <2>1. list = << <<One(20, 1), One(21, 50)>> >>
        BY <1>1 DEF Commands!write_command, One
    <2>2. QED
        BY <2>1, OneStage
<1>2. CASE list = Commands!write_command(1, 50, FALSE)
    <2>1. list = << <<One(40021, 1), One(40022, 50)>> >>
        BY <1>2 DEF Commands!write_command, One
    <2>2. QED
        BY <2>1, OneStage
<1>3. Commands!write_demo = <<One(20, 0), One(21, 0)>>
    BY DEF Commands!write_demo, One
<1>4. Commands!system_command(1, 2) = <<One(70, 1), One(71, 2)>>
    BY DEF Commands!system_command, One
<1>5. CASE list = Commands!write_state(2, 50, 1)
    <2>1. list = << <<[at |-> 20, put |-> <<2, 50, 1>>]>> >>
        BY <1>5 DEF Commands!write_state
    <2>2. <<2, 50, 1>> \in Seq(Nat)
        OBVIOUS
    <2>3. [at |-> 20, put |-> <<2, 50, 1>>] \in Asks
        BY <2>2 DEF Asks
    <2>4. list \in Lists
        BY <2>1, <2>3 DEF Lists
    <2>5. Len(list) = 1 /\ Len(list[1]) = 1 /\ list[1][1] \in Asks
        BY <2>1, <2>3
    <2>6. QED
        BY <2>4, <2>5 DEF Apart
<1>6. list \in {Commands!write_command(1, 50, TRUE), Commands!write_command(1, 50, FALSE),
                <<Commands!write_demo>>, <<Commands!system_command(1, 2)>>,
                <<Commands!write_demo, Commands!system_command(1, 2)>>,
                Commands!write_state(2, 50, 1)}
    BY DEF Commands!Requests, Commands!CommandRequests, Commands!SmokeRequests
<1>7. Apart(<<Commands!write_demo>>) /\ Apart(<<Commands!system_command(1, 2)>>)
    BY <1>3, <1>4, OneStage
<1>8. Apart(<<Commands!write_demo, Commands!system_command(1, 2)>>)
    BY <1>3, <1>4, TwoStages
<1>9. QED
    BY <1>1, <1>2, <1>5, <1>6, <1>7, <1>8

LEMMA WriteHolds ==
    ASSUME NEW q \in Asks, reg' = Commands!After(q)
    PROVE  Commands!Holds(q)'
<1>1. q.at \in Nat /\ Len(q.put) \in Nat
    BY DEF Asks
<1>2. Commands!register_number(q.at) \in Nat
    BY <1>1 DEF Commands!register_number, Commands!HoldingRegisterBase
<1>3. ASSUME NEW i \in 1 .. Len(q.put),
             Commands!register_number(q.at) + i - 1 \in Commands!Registers
      PROVE  reg'[Commands!register_number(q.at) + i - 1] = q.put[i]
    <2>1. Commands!register_number(q.at) + i - 1 - Commands!register_number(q.at) + 1 = i
        BY <1>1, <1>2
    <2>2. QED
        BY <1>1, <1>2, <1>3, <2>1 DEF Commands!After
<1>4. QED
    BY <1>3 DEF Commands!Holds

LEMMA WriteKeeps ==
    ASSUME NEW q \in Asks, NEW p \in Asks, Touches(p) \cap Touches(q) = {},
           reg' = Commands!After(q), Commands!Holds(p)
    PROVE  Commands!Holds(p)'
<1>1. /\ q.at \in Nat /\ Len(q.put) \in Nat /\ p.at \in Nat /\ Len(p.put) \in Nat
    BY DEF Asks
<1>2. Commands!register_number(q.at) \in Nat /\ Commands!register_number(p.at) \in Nat
    BY <1>1 DEF Commands!register_number, Commands!HoldingRegisterBase
<1>3. ASSUME NEW i \in 1 .. Len(p.put),
             Commands!register_number(p.at) + i - 1 \in Commands!Registers
      PROVE  reg'[Commands!register_number(p.at) + i - 1] = p.put[i]
    <2> DEFINE r == Commands!register_number(p.at) + i - 1
               j == r - Commands!register_number(q.at) + 1
    <2>1. r \in Touches(p)
        BY <1>1, <1>2 DEF Touches
    <2>2. j \notin 1 .. Len(q.put)
        <3>1. r \notin Touches(q) /\ r \in Int
            BY <1>2, <2>1
        <3>2. ~(Commands!register_number(q.at) <= r
                    /\ r <= Commands!register_number(q.at) + Len(q.put) - 1)
            BY <1>1, <1>2, <3>1 DEF Touches
        <3> HIDE DEF r
        <3>3. QED
            BY <1>1, <1>2, <3>1, <3>2
    <2>3. reg'[r] = reg[r]
        BY <1>3, <2>2 DEF Commands!After
    <2>4. QED
        BY <1>3, <2>3 DEF Commands!Holds
<1>4. QED
    BY <1>3 DEF Commands!Holds

-----------------------------------------------------------------------------
(* Whatever others do, a tool can count on what it has written only while   *)
(* nobody has: ToolInv says nothing of the registers otherwise              *)
LEMMA OthersKeep ==
    ASSUME NEW t \in Tools, ToolInv(t),
           outcome'[t] = outcome[t], stages'[t] = stages[t], done'[t] = done[t],
           accepted'[t] = accepted[t], wanted'[t] = wanted[t],
           t \in undisturbed' => t \in undisturbed /\ reg' = reg
    PROVE  ToolInv(t)'
<1>1. reg' = reg => \A q : Commands!Holds(q)' = Commands!Holds(q)
    BY DEF Commands!Holds
<1>2. Past(t)' = Past(t)
    BY DEF Past
<1>3. reg' = reg => Made(t)' = Made(t)
    BY <1>1, <1>2 DEF Made
<1>4. QED
    BY <1>1, <1>2, <1>3 DEF ToolInv

LEMMA RequestKeeps ==
    ASSUME CommandInv, NEW t \in Tools, Commands!Request(t)
    PROVE  ToolInv(t)'
<1> DEFINE q == Head(stages[t])[done[t] + 1]
<1>1. /\ outcome[t] = "running" /\ stages[t] # << >> /\ done[t] < Len(Head(stages[t]))
      /\ UNCHANGED <<outcome, stages, wanted>>
      /\ done' = [done EXCEPT ![t] = @ + 1]
    BY DEF Commands!Request, Commands!Running
<1>2. \/ Commands!Legal(q) /\ reg' = Commands!After(q) /\ undisturbed' = undisturbed \cap {t}
         /\ Commands!Accepts(t, TRUE)
      \/ Commands!Accepts(t, FALSE)
    BY DEF Commands!Request
<1>3. /\ wanted[t] \in Commands!Requests /\ Past(t) \in 0 .. Len(wanted[t]) - 1
      /\ stages[t] \in Lists /\ wanted[t] \in Lists /\ Len(stages[t]) \in Nat
      /\ \A j \in 1 .. Len(stages[t]) : stages[t][j] = wanted[t][Past(t) + j]
      /\ done[t] \in Nat /\ done'[t] = done[t] + 1
    BY <1>1 DEF CommandInv, CommandTypes, ToolInv, Lists
<1>4. Head(stages[t]) = wanted[t][Past(t) + 1] /\ Past(t)' = Past(t)
    <2>1. Len(stages[t]) \in Nat \ {0} /\ Head(stages[t]) = stages[t][1]
        BY <1>1, <1>3, EmptySeq, HeadTailProperties DEF Lists
    <2>2. Head(stages[t]) = wanted[t][Past(t) + 1]
        BY <1>3, <2>1
    <2>3. Past(t)' = Past(t)
        BY <1>1 DEF Past
    <2>4. QED
        BY <2>2, <2>3
<1>5. Apart(wanted[t])
    BY <1>3, RequestsApart
<1>6. done'[t] \in 0 .. Len(wanted[t][Past(t) + 1])
    BY <1>1, <1>3, <1>4, <1>5 DEF Apart
<1>6a. /\ q = wanted[t][Past(t) + 1][done[t] + 1] /\ q \in Asks
       /\ Past(t) + 1 \in 1 .. Len(wanted[t])
       /\ done[t] + 1 \in 1 .. Len(wanted[t][Past(t) + 1])
    <2>1. Past(t) + 1 \in 1 .. Len(wanted[t])
        BY <1>3, <1>5 DEF Apart
    <2>2. done[t] + 1 \in 1 .. Len(wanted[t][Past(t) + 1])
        BY <1>1, <1>3, <1>4, <1>5, <2>1 DEF Apart
    <2>3. QED
        BY <1>4, <1>5, <2>1, <2>2 DEF Apart
<1> HIDE DEF q
<1>7. CASE Commands!Accepts(t, FALSE)
    <2>1. ~accepted'[t]
        BY <1>7 DEF Commands!Accepts, CommandInv, CommandTypes
    <2>2. QED
        BY <1>1, <1>3, <1>4, <1>6, <2>1 DEF ToolInv
<1>8. CASE Commands!Accepts(t, TRUE) /\ reg' = Commands!After(q) /\ undisturbed' \subseteq undisturbed
    <2>1. accepted'[t] => accepted[t]
        BY <1>8 DEF Commands!Accepts, CommandInv, CommandTypes
    <2>2. t \in undisturbed' /\ accepted'[t] => Made(t)
        BY <1>1, <1>8, <2>1 DEF CommandInv, ToolInv
    <2>4. \A p \in Asks : p = q => Commands!Holds(p)'
        BY <1>8, WriteHolds
    <2>5. ASSUME NEW s \in 1 .. Past(t) + 1, NEW i \in 1 .. Len(wanted[t][s]),
                 s # Past(t) + 1 \/ i # done[t] + 1, Commands!Holds(wanted[t][s][i])
          PROVE  Commands!Holds(wanted[t][s][i])'
        <3>1. /\ wanted[t][s][i] \in Asks
              /\ Touches(wanted[t][s][i]) \cap Touches(q) = {}
            <4>1. s \in 1 .. Len(wanted[t])
                BY <1>3, <1>5, <2>5 DEF Apart
            <4>2. QED
                BY <1>5, <1>6a, <2>5, <4>1 DEF Apart
        <3>2. ASSUME NEW p \in Asks, p = wanted[t][s][i]
              PROVE  Commands!Holds(p)'
            BY <1>6a, <1>8, <2>5, <3>1, <3>2, WriteKeeps
        <3>3. QED
            BY <1>1, <3>1, <3>2
    <2>6. Made(t) => Made(t)'
        <3> SUFFICES ASSUME Made(t)
                     PROVE  Made(t)'
            OBVIOUS
        <3>1. ASSUME NEW s \in 1 .. Past(t), NEW i \in 1 .. Len(wanted[t][s])
              PROVE  Commands!Holds(wanted[t][s][i])'
            <4>1. s \in 1 .. Past(t) + 1 /\ s # Past(t) + 1
                BY <1>3
            <4>2. QED
                BY <2>5, <4>1 DEF Made
        <3>2. ASSUME NEW i \in 1 .. done[t] + 1
              PROVE  Commands!Holds(wanted[t][Past(t) + 1][i])'
            <4>1. CASE i = done[t] + 1
                BY <1>1, <1>4, <1>6a, <2>4, <4>1
            <4>2. CASE i # done[t] + 1
                <5>1. i \in 1 .. done[t] /\ i \in 1 .. Len(wanted[t][Past(t) + 1])
                    BY <1>3, <1>6a, <4>2
                <5>2. Past(t) + 1 \in 1 .. Past(t) + 1
                    BY <1>3
                <5>3. QED
                    BY <1>1, <1>4, <2>5, <4>2, <5>1, <5>2 DEF Made
            <4>3. QED
                BY <4>1, <4>2
        <3>3. QED
            BY <1>1, <1>3, <1>4, <3>1, <3>2 DEF Made
    <2>7. QED
        BY <1>1, <1>3, <1>4, <1>6, <2>2, <2>6 DEF ToolInv
<1>9. QED
    BY <1>2, <1>7, <1>8

LEMMA StageKeeps ==
    ASSUME CommandInv, NEW t \in Tools, Commands!StageEnds(t)
    PROVE  ToolInv(t)' /\ stages'[t] \in Lists
<1>1. outcome[t] = "running" /\ done[t] = Len(Head(stages[t])) /\ UNCHANGED <<reg, undisturbed>>
    BY DEF Commands!StageEnds
<1>2. /\ wanted[t] \in Commands!Requests /\ Past(t) \in 0 .. Len(wanted[t]) - 1
      /\ stages[t] \in Lists /\ wanted[t] \in Lists /\ Len(stages[t]) \in Nat
      /\ \A j \in 1 .. Len(stages[t]) : stages[t][j] = wanted[t][Past(t) + j]
      /\ Len(wanted[t]) \in Nat
    BY <1>1 DEF CommandInv, CommandTypes, ToolInv, Lists
<1>3. CASE Commands!ToolFails(t)
    <2>1. outcome'[t] = "failed" /\ stages'[t] = << >>
        BY <1>3 DEF Commands!ToolFails, CommandInv, CommandTypes
    <2>2. QED
        BY <2>1 DEF ToolInv, Lists
<1>4. CASE /\ accepted[t] /\ UNCHANGED <<accepted, wanted>>
           /\ stages' = [stages EXCEPT ![t] = Tail(@)] /\ done' = [done EXCEPT ![t] = 0]
           /\ outcome' = [outcome EXCEPT ![t] = IF Len(stages[t]) = 1 THEN "ok" ELSE "running"]
    <2>1. /\ stages'[t] = Tail(stages[t]) /\ done'[t] = 0
          /\ outcome'[t] = IF Len(stages[t]) = 1 THEN "ok" ELSE "running"
        BY <1>4 DEF CommandInv, CommandTypes
    <2>2. Len(stages[t]) \in Nat \ {0}
        <3>1. \A n, m \in Nat : n - m \in 0 .. n - 1 => m \in Nat \ {0}
            OBVIOUS
        <3>2. Len(wanted[t]) - Len(stages[t]) \in 0 .. Len(wanted[t]) - 1
            BY <1>2 DEF Past
        <3>3. Len(wanted[t]) \in Nat /\ Len(stages[t]) \in Nat
            BY <1>2
        <3>4. QED
            BY <3>1, <3>2, <3>3
    <2>3. /\ Head(stages[t]) = stages[t][1] /\ Tail(stages[t]) \in Lists
          /\ Len(Tail(stages[t])) = Len(stages[t]) - 1
          /\ \A j \in 1 .. Len(stages[t]) - 1 : Tail(stages[t])[j] = stages[t][j + 1]
        BY <1>2, <2>2, EmptySeq, HeadTailProperties DEF Lists
    <2>4. Head(stages[t]) = wanted[t][Past(t) + 1]
        BY <1>2, <2>2, <2>3
    <2>5. Past(t)' = Past(t) + 1
        <3>1. /\ Past(t) = Len(wanted[t]) - Len(stages[t])
              /\ Past(t)' = Len(wanted[t]) - Len(stages'[t])
            BY <1>4 DEF Past
        <3>2. \A n, m \in Nat : n - (m - 1) = n - m + 1
            OBVIOUS
        <3>3. Past(t)' = Len(wanted[t]) - (Len(stages[t]) - 1)
            BY <2>1, <2>3, <3>1
        <3>4. Len(wanted[t]) \in Nat /\ Len(stages[t]) \in Nat
            BY <1>2
        <3>5. QED
            BY <3>1, <3>2, <3>3, <3>4
    <2>6. Len(stages[t]) = Len(wanted[t]) - Past(t)
        BY <1>2 DEF Past
    <2>7. t \in undisturbed =>
            \A s \in 1 .. Past(t) + 1 : \A i \in 1 .. Len(wanted[t][s]) :
                Commands!Holds(wanted[t][s][i])
        <3> SUFFICES ASSUME t \in undisturbed, NEW s \in 1 .. Past(t) + 1,
                            NEW i \in 1 .. Len(wanted[t][s])
                     PROVE  Commands!Holds(wanted[t][s][i])
            OBVIOUS
        <3>1. Made(t)
            BY <1>1, <1>4 DEF CommandInv, ToolInv
        <3>2. CASE s \in 1 .. Past(t)
            BY <3>1, <3>2 DEF Made
        <3>3. CASE s = Past(t) + 1
            BY <1>1, <2>4, <3>1, <3>3 DEF Made
        <3>4. QED
            BY <1>2, <3>2, <3>3
    <2>8. \A w : Commands!Holds(w)' = Commands!Holds(w)
        BY <1>1 DEF Commands!Holds
    <2>9. CASE Len(stages[t]) = 1
        <3>1. Past(t) + 1 = Len(wanted[t])
            BY <1>2, <2>6, <2>9
        <3>2. QED
            BY <1>1, <1>4, <2>1, <2>3, <2>7, <2>8, <2>9, <3>1 DEF ToolInv
    <2>10. CASE Len(stages[t]) # 1
        <3>1. Past(t)' \in 0 .. Len(wanted[t]) - 1
            BY <1>2, <2>2, <2>5, <2>6, <2>10
        <3>2. \A j \in 1 .. Len(stages[t]) - 1 : stages'[t][j] = wanted[t][Past(t) + 1 + j]
            <4> TAKE j \in 1 .. Len(stages[t]) - 1
            <4>1. j + 1 \in 1 .. Len(stages[t]) /\ Past(t) + (j + 1) = Past(t) + 1 + j
                BY <1>2
            <4>2. QED
                BY <1>2, <2>1, <2>3, <4>1
        <3>3. Apart(wanted[t]) /\ Past(t) + 2 \in 1 .. Len(wanted[t])
            BY <1>2, <2>5, <3>1, RequestsApart
        <3>4. 0 \in 0 .. Len(wanted[t][Past(t) + 1 + 1])
            BY <1>2, <3>3 DEF Apart
        <3>5. t \in undisturbed' => Made(t)'
            BY <1>1, <1>4, <2>1, <2>5, <2>7, <2>8 DEF Made
        <3>6. QED
            <4>1. /\ outcome'[t] = "running" /\ wanted'[t] = wanted[t] /\ done'[t] = 0
                  /\ Len(stages'[t]) = Len(stages[t]) - 1
                BY <1>4, <2>1, <2>3, <2>10
            <4>2. \A j \in 1 .. Len(stages'[t]) : stages'[t][j] = wanted'[t][Past(t)' + j]
                BY <2>5, <3>2, <4>1
            <4>3. done'[t] \in 0 .. Len(wanted'[t][Past(t)' + 1])
                BY <2>5, <3>4, <4>1
            <4>4. wanted'[t] \in Commands!Requests /\ Past(t)' \in 0 .. Len(wanted'[t]) - 1
                BY <1>2, <3>1, <4>1
            <4>5. QED
                BY <2>1, <2>3, <3>5, <4>1, <4>2, <4>3, <4>4 DEF ToolInv
    <2>11. QED
        BY <2>9, <2>10
<1>5. QED
    BY <1>3, <1>4 DEF Commands!StageEnds

LEMMA CommandStep ==
    ASSUME BeatInv, CommandInv, [Next]_benchVars
    PROVE  CommandInv'
<1>1. ASSUME UNCHANGED Commands!toolVars, undisturbed' = {} \/ UNCHANGED <<reg, undisturbed>>,
             undisturbed' = {} \/ desk' = desk
      PROVE  CommandInv'
    <2>1. CommandTypes'
        BY <1>1 DEF CommandInv, CommandTypes, Commands!toolVars
    <2>2. ASSUME NEW t \in Tools
          PROVE  ToolInv(t)'
        BY <1>1, OthersKeep DEF CommandInv, Commands!toolVars
    <2>3. QED
        BY <1>1, <2>1, <2>2 DEF CommandInv
<1>2. CASE UNCHANGED <<desk, registerVars>>
    BY <1>1, <1>2 DEF registerVars, Commands!toolVars
<1>3. CASE desk = "heartbeat" /\ desk' = desk /\ Heartbeat!Next
    <2>1. undisturbed = {}
        BY <1>3 DEF CommandInv
    <2>2. UNCHANGED Commands!toolVars /\ undisturbed' \in {undisturbed, {}}
        BY <1>3 DEF Heartbeat!Next, Heartbeat!ServerStops, Heartbeat!ServerStarts,
               Heartbeat!NodeStarts, Heartbeat!Tick, Heartbeat!WriteSnapshot,
               Heartbeat!NodeEnds, Heartbeat!OnBattery, Heartbeat!toolVars, Commands!toolVars
    <2>3. QED
        BY <1>1, <2>1, <2>2
<1>4. CASE desk = "commands" /\ desk' = desk /\ Commands!Next
    <2>1. CASE Commands!ServerStops \/ Commands!ServerStarts
        BY <1>1, <1>4, <2>1 DEF Commands!ServerStops, Commands!ServerStarts
    <2>2. CASE \/ Commands!NodeStarts \/ Commands!Tick \/ Commands!WriteSnapshot
               \/ Commands!NodeEnds \/ \E percent \in {0, 100} : Commands!OnBattery(percent)
        BY <1>1, <1>4, <2>2 DEF BeatInv, Commands!NodeStarts, Commands!Tick,
               Commands!WriteSnapshot, Commands!NodeEnds, Commands!OnBattery
    <2>3. ASSUME NEW t \in Tools,
                 \A u \in Tools \ {t} :
                    /\ outcome'[u] = outcome[u] /\ stages'[u] = stages[u] /\ done'[u] = done[u]
                    /\ accepted'[u] = accepted[u] /\ wanted'[u] = wanted[u]
                    /\ u \in undisturbed' => u \in undisturbed /\ reg' = reg,
                 CommandTypes', ToolInv(t)'
          PROVE  CommandInv'
        <3>1. ASSUME NEW u \in Tools
              PROVE  ToolInv(u)'
            BY <2>3, <3>1, OthersKeep DEF CommandInv
        <3>2. QED
            BY <1>4, <2>3, <3>1 DEF CommandInv
    <2>4. ASSUME NEW t \in Tools, NEW list \in Commands!Requests, Commands!ToolStarts(t, list)
          PROVE  CommandInv'
        <3>1. list \in Lists /\ Len(list) \in 1 .. 2 /\ Len(list[1]) \in 1 .. 2
            BY RequestsApart DEF Apart
        <3>2. CommandTypes' /\ UNCHANGED reg
            BY <2>4, <3>1 DEF Commands!ToolStarts, CommandInv, CommandTypes
        <3>3. /\ outcome'[t] = "running" /\ stages'[t] = list /\ wanted'[t] = list
              /\ done'[t] = 0
            BY <2>4 DEF Commands!ToolStarts, CommandInv, CommandTypes
        <3>4. Past(t)' = 0
            BY <3>1, <3>3 DEF Past
        <3>5. ToolInv(t)'
            BY <3>1, <3>3, <3>4 DEF ToolInv, Made
        <3>6. QED
            BY <2>3, <2>4, <3>2, <3>5 DEF Commands!ToolStarts, CommandInv, CommandTypes
    <2>5. ASSUME NEW t \in Tools, NEW o \in {"ok", "failed"}, Commands!ToolEnds(t, o)
          PROVE  CommandInv'
        <3>1. CommandTypes' /\ UNCHANGED <<reg, stages, done, accepted, wanted, undisturbed>>
            BY <2>5 DEF Commands!ToolEnds, CommandInv, CommandTypes
        <3>2. outcome'[t] \in {"ok", "failed"} /\ wanted'[t] = << >>
            BY <2>5, <3>1 DEF Commands!ToolEnds, CommandInv, CommandTypes, ToolInv
        <3>3. ToolInv(t)'
            BY <3>2 DEF ToolInv
        <3>4. QED
            BY <2>3, <2>5, <3>1, <3>3 DEF Commands!ToolEnds, CommandInv, CommandTypes
    <2>6. ASSUME NEW t \in Tools, Commands!Request(t)
          PROVE  CommandInv'
        <3>1. /\ UNCHANGED <<outcome, stages, wanted>> /\ done' = [done EXCEPT ![t] = @ + 1]
              /\ undisturbed' \subseteq undisturbed
              /\ reg' = reg \/ undisturbed' \subseteq {t}
            BY <2>6 DEF Commands!Request
        <3>2. PICK yes \in BOOLEAN : Commands!Accepts(t, yes)
            BY <2>6 DEF Commands!Request
        <3>3. /\ accepted' \in [Tools -> BOOLEAN]
              /\ \A u \in Tools \ {t} : accepted'[u] = accepted[u]
            BY <3>2 DEF Commands!Accepts, CommandInv, CommandTypes
        <3>4. CommandTypes'
            <4>1. done' \in [Tools -> Nat]
                BY <3>1 DEF CommandInv, CommandTypes
            <4>2. QED
                BY <3>1, <3>3, <4>1 DEF CommandInv, CommandTypes
        <3>5. QED
            BY <2>3, <2>6, <3>1, <3>3, <3>4, RequestKeeps DEF CommandInv, CommandTypes
    <2>7. ASSUME NEW t \in Tools, Commands!ToolFails(t), UNCHANGED <<reg, undisturbed>>
          PROVE  CommandInv'
        <3>1. CommandTypes'
            BY <2>7 DEF Commands!ToolFails, CommandInv, CommandTypes, Lists
        <3>2. outcome'[t] = "failed"
            BY <2>7 DEF Commands!ToolFails, CommandInv, CommandTypes
        <3>3. ToolInv(t)'
            BY <3>2 DEF ToolInv
        <3>4. QED
            BY <2>3, <2>7, <3>1, <3>3 DEF Commands!ToolFails, CommandInv, CommandTypes
    <2>8. ASSUME NEW t \in Tools, Commands!RequestRaises(t) \/ Commands!SystemCommandUnknown(t)
          PROVE  CommandInv'
        BY <2>7, <2>8 DEF Commands!RequestRaises, Commands!SystemCommandUnknown
    <2>9. ASSUME NEW t \in Tools, Commands!StageEnds(t)
          PROVE  CommandInv'
        <3>1. ToolInv(t)' /\ stages'[t] \in Lists /\ UNCHANGED <<reg, undisturbed>>
            BY <2>9, StageKeeps DEF Commands!StageEnds
        <3>2. CASE Commands!ToolFails(t)
            BY <2>7, <3>1, <3>2
        <3>3. CASE /\ UNCHANGED <<accepted, wanted>>
                   /\ stages' = [stages EXCEPT ![t] = Tail(@)] /\ done' = [done EXCEPT ![t] = 0]
                   /\ outcome' = [outcome EXCEPT ![t] = IF Len(stages[t]) = 1 THEN "ok"
                                                        ELSE "running"]
            <4>1. stages' \in [Tools -> Lists]
                BY <3>1, <3>3 DEF CommandInv, CommandTypes
            <4>2. CommandTypes'
                BY <3>1, <3>3, <4>1 DEF CommandInv, CommandTypes
            <4>3. QED
                BY <2>3, <3>1, <3>3, <4>2 DEF CommandInv, CommandTypes
        <3>4. QED
            BY <2>9, <3>2, <3>3 DEF Commands!StageEnds
    <2>10. QED
        BY <1>4, <2>1, <2>2, <2>4, <2>5, <2>6, <2>8, <2>9
           DEF Commands!Next, Commands!ToolDoesNothing, Commands!CommandUnknown
<1>5. QED
    BY <1>2, <1>3, <1>4 DEF Next, benchVars

(* RegisterTools: of any number of tools at work together, beside restarts  *)
(* of the server, one that reports success and that nobody has written      *)
(* beside has all it wrote in the registers.                                *)
THEOREM OkWritten == Spec => []OkMeansWritten
<1>1. CommandInv => OkMeansWritten
    BY DEF CommandInv, CommandTypes, ToolInv, OkMeansWritten, Commands!OkMeansWritten
<1>2. QED
    BY BeatInit, BeatStep, CommandInit, CommandStep, <1>1, PTL DEF Spec

=============================================================================
