----------------------------- MODULE QualityCheck -----------------------------
(***************************************************************************)
(* Single pictures and their verdict: pc_jpeg_capture_server.py asks the   *)
(* camera client of the Raspberry Pi (raspi_jpeg_capture_client.py) for    *)
(* pictures and stores them; infer_client.py sends some of them to         *)
(* infer_server.py, which judges them with a YOLO model.                   *)
(*                                                                         *)
(* A packet names the request it answers, but the server does not look at  *)
(* the name.  The inference server serves one connection at a time.        *)
(***************************************************************************)
EXTENDS Naturals, Sequences

CONSTANTS
    MaxPictures,    \* bound on the pictures asked for
    Needed,         \* pictures of an inspection: 3 in the code
    Clients,        \* runs of the inference client
    Nobody

VARIABLES
    server, asked,      \* the picture server, and the request it made last
    held,               \* the packet it has read
    pictures,           \* the pictures stored, by request
    marker, torn,       \* what latest_jpeg.json named last; it is open and empty
    pi, link,           \* the camera client, and its side of the connection
    taken,              \* the picture it took, with its request
    request, packet,    \* a command and a packet on their way
    inspector, paths,   \* each inference client, and the pictures it asks about
    backlog, serving,   \* connections of the inference server
    index, hasError     \* where it is in the list, and what it found

serverVars == <<server, asked, held, pictures, marker, torn>>
piVars == <<pi, link, taken>>
wireVars == <<request, packet>>
inferVars == <<inspector, paths, backlog, serving, index, hasError>>
vars == <<serverVars, piVars, wireVars, inferVars>>

Requests == 1 .. MaxPictures
NoPacket == [for |-> 0, crop |-> "none"]

Init ==
    /\ server = "off" /\ asked = 0 /\ held = NoPacket
    /\ pictures = [r \in Requests |-> "missing"] /\ marker = 0 /\ torn = FALSE
    /\ pi = "away" /\ link = "none" /\ taken = NoPacket
    /\ request = 0 /\ packet = NoPacket
    /\ inspector = [c \in Clients |-> "off"] /\ paths = [c \in Clients |-> <<>>]
    /\ backlog = <<>> /\ serving = Nobody /\ index = 0 /\ hasError = FALSE

(***************************************************************************)
(* The picture server accepts one client, and ends with its connection.    *)
(***************************************************************************)
ServerStarts ==
    /\ server = "off"
    /\ server' = "listening"
    /\ UNCHANGED <<asked, held, pictures, marker, torn, piVars, wireVars, inferVars>>

(* Enter at the prompt, or the next of --auto-capture *)
SendCapture ==
    /\ server = "ready" /\ link = "up" /\ asked < MaxPictures
    /\ asked' = asked + 1 /\ request' = asked'
    /\ server' = "asked"
    /\ UNCHANGED <<held, pictures, marker, torn, piVars, packet, inferVars>>

(* A packet that reports an error is not stored; capturing goes on *)
ReadPacket ==
    /\ server = "asked" /\ packet # NoPacket
    /\ packet' = NoPacket
    /\ IF packet.crop = "error"
       THEN held' = NoPacket /\ server' = "ready"
       ELSE held' = packet /\ server' = "store"
    /\ UNCHANGED <<asked, pictures, marker, torn, piVars, request, inferVars>>

(* save_jpeg opens its file and writes it, then the marker likewise; broken *)
(* is the file that is still empty or unfinished.  One that is deleted      *)
(* while it is open stays away.                                             *)
OpenPicture ==
    /\ server = "store"
    /\ pictures' = [pictures EXCEPT ![asked] = "broken"]
    /\ server' = "fill"
    /\ UNCHANGED <<asked, held, marker, torn, piVars, wireVars, inferVars>>

WritePicture ==
    /\ server = "fill"
    /\ pictures' = [pictures EXCEPT ![asked] = IF @ = "missing" THEN @ ELSE held.crop]
    /\ server' = "mark"
    /\ UNCHANGED <<asked, held, marker, torn, piVars, wireVars, inferVars>>

OpenMarker ==
    /\ server = "mark"
    /\ torn' = TRUE
    /\ server' = "name"
    /\ UNCHANGED <<asked, held, pictures, marker, piVars, wireVars, inferVars>>

WriteMarker ==
    /\ server = "name"
    /\ marker' = asked /\ torn' = FALSE
    /\ server' = "ready" /\ held' = NoPacket
    /\ UNCHANGED <<asked, pictures, piVars, wireVars, inferVars>>

(* q, Ctrl+C, an exception, a broken connection: its end reaches the client later *)
ServerEnds ==
    /\ server # "off"
    /\ server' = "off" /\ held' = NoPacket
    /\ link' = IF link = "up" THEN "dead" ELSE link
    /\ request' = 0 /\ packet' = NoPacket
    /\ UNCHANGED <<asked, pictures, marker, torn, pi, taken, inferVars>>

(***************************************************************************)
(* The camera client reconnects for ever with --reconnect.                 *)
(***************************************************************************)
PiConnects ==
    /\ pi = "away" /\ server = "listening"
    /\ pi' = "waiting" /\ link' = "up"
    /\ server' = "ready"
    /\ UNCHANGED <<asked, held, pictures, marker, torn, taken, wireVars, inferVars>>

PiReads ==
    /\ pi = "waiting" /\ request # 0
    /\ taken' = [for |-> request, crop |-> "none"] /\ request' = 0
    /\ pi' = "capturing"
    /\ UNCHANGED <<serverVars, link, packet, inferVars>>

(* handle_capture: a picture of a crop, or an exception that becomes an answer *)
PiCaptures(crop) ==
    /\ pi = "capturing"
    /\ taken' = [taken EXCEPT !.crop = crop]
    /\ pi' = "sending"
    /\ UNCHANGED <<serverVars, link, wireVars, inferVars>>

PiSends ==
    /\ pi = "sending" /\ link = "up"
    /\ packet' = taken /\ taken' = NoPacket
    /\ pi' = "waiting"
    /\ UNCHANGED <<serverVars, link, request, inferVars>>

(* Variant: what could not be sent is sent over the next connection *)
PiLosesLink_kept ==
    /\ pi \in {"waiting", "sending"} /\ link = "dead"
    /\ IF pi = "sending" /\ server = "listening"
       THEN pi' = "sending" /\ link' = "up" /\ server' = "ready" /\ taken' = taken
       ELSE pi' = "away" /\ link' = "none" /\ server' = server /\ taken' = NoPacket
    /\ UNCHANGED <<asked, held, pictures, marker, torn, wireVars, inferVars>>

(* The end of the connection shows at the next read or send *)
PiLosesLink ==
    /\ pi \in {"waiting", "sending"} /\ link = "dead"
    /\ pi' = "away" /\ link' = "none" /\ taken' = NoPacket
    /\ UNCHANGED <<serverVars, wireVars, inferVars>>

(***************************************************************************)
(* Inspections.  A client asks about pictures up to the last one reported  *)
(* as stored; their number is the caller's affair.                         *)
(***************************************************************************)
ClientAsks(c) ==
    /\ inspector[c] = "off"
    /\ \E n \in {Needed, Needed - 1} : \E list \in [1 .. n -> {r \in Requests : r <= marker}] :
        paths' = [paths EXCEPT ![c] = list]
    /\ backlog' = Append(backlog, c)
    /\ inspector' = [inspector EXCEPT ![c] = "waiting"]
    /\ UNCHANGED <<serverVars, piVars, wireVars, serving, index, hasError>>

(* InferenceError: no connection, or no answer within timeout_sec *)
ClientGivesUp(c) ==
    /\ inspector[c] \in {"off", "waiting"}
    /\ inspector' = [inspector EXCEPT ![c] = "failed"]
    /\ UNCHANGED <<serverVars, piVars, wireVars, paths, backlog, serving, index, hasError>>

AcceptClient ==
    /\ serving = Nobody /\ backlog # <<>>
    /\ serving' = Head(backlog) /\ backlog' = Tail(backlog)
    /\ index' = 1 /\ hasError' = FALSE
    /\ UNCHANGED <<serverVars, piVars, wireVars, inspector, paths>>

(* The answer goes to a client that is still there *)
Answers(status) ==
    /\ serving' = Nobody
    /\ inspector' = [inspector EXCEPT ![serving] = IF @ = "waiting" THEN status ELSE @]
    /\ UNCHANGED <<serverVars, piVars, wireVars, paths, backlog, index, hasError>>

(* handle_client wants Needed paths; a missing or unreadable picture is an error *)
Refuses ==
    /\ serving # Nobody
    /\ \/ Len(paths[serving]) # Needed
       \/ index <= Needed /\ pictures[paths[serving][index]] \in {"missing", "broken"}
    /\ Answers("failed")

(* Variant: every picture overrules those before it *)
Infers_last_only ==
    /\ serving # Nobody /\ Len(paths[serving]) = Needed
    /\ index <= Needed /\ pictures[paths[serving][index]] \in {"good", "bad"}
    /\ hasError' = (pictures[paths[serving][index]] = "bad")
    /\ index' = index + 1
    /\ UNCHANGED <<serverVars, piVars, wireVars, inspector, paths, backlog, serving>>

(* The model looks at the next picture *)
Infers ==
    /\ serving # Nobody /\ Len(paths[serving]) = Needed
    /\ index <= Needed /\ pictures[paths[serving][index]] \in {"good", "bad"}
    /\ hasError' = (hasError \/ pictures[paths[serving][index]] = "bad")
    /\ index' = index + 1
    /\ UNCHANGED <<serverVars, piVars, wireVars, inspector, paths, backlog, serving>>

Judges ==
    /\ serving # Nobody /\ Len(paths[serving]) = Needed /\ index > Needed
    /\ Answers(IF hasError THEN "error" ELSE "normal")

(* Somebody clears the directory *)
Deletes(r) ==
    /\ pictures[r] # "missing"
    /\ pictures' = [pictures EXCEPT ![r] = "missing"]
    /\ UNCHANGED <<server, asked, held, marker, torn, piVars, wireVars, inferVars>>

Next ==
    \/ ServerStarts \/ SendCapture \/ ReadPacket
    \/ OpenPicture \/ WritePicture \/ OpenMarker \/ WriteMarker \/ ServerEnds
    \/ PiConnects \/ PiReads \/ PiSends \/ PiLosesLink
    \/ \E crop \in {"good", "bad", "error"} : PiCaptures(crop)
    \/ \E c \in Clients : ClientAsks(c) \/ ClientGivesUp(c)
    \/ AcceptClient \/ Refuses \/ Infers \/ Judges
    \/ \E r \in Requests : Deletes(r)

Spec == Init /\ [][Next]_vars

(***************************************************************************)
(* Properties.                                                             *)
(***************************************************************************)

(* Nothing checks that a packet answers the request it was asked for, or     *)
(* that latest_jpeg.json names a finished picture: through ends, restarts    *)
(* and late packets, the packet stored is of the request made last, and the  *)
(* picture of the marker is never an unfinished one.                         *)
PictureOfItsRequest ==
    /\ packet # NoPacket => packet.for = asked
    /\ held # NoPacket => held.for = asked
    /\ marker # 0 => pictures[marker] # "broken"

(* The verdict a client gets is of all its pictures: normal if the model     *)
(* finds no error in any of them, error if it finds one, and neither if one  *)
(* is missing; a picture deleted later does not count.                       *)
VerdictOfAllPictures ==
    \A c \in Clients :
        LET Now == {pictures[paths[c][i]] : i \in DOMAIN paths[c]}
        IN  /\ inspector[c] = "normal" => "bad" \notin Now
            /\ inspector[c] = "error" => Now \cap {"bad", "missing"} # {}
            /\ inspector[c] \in {"normal", "error"} => Len(paths[c]) = Needed

=============================================================================
