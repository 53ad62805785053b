----------------------------- MODULE VideoViewers -----------------------------
(***************************************************************************)
(* Who looks at the videos of VideoReceiver: a browser, through the HTTP   *)
(* server (VideoHttpHandler), and the window of --show-window, through a   *)
(* queue; and the end of the program by Ctrl+C.                            *)
(*                                                                         *)
(* The HTTP threads read the directory and latest.json while uploads       *)
(* change them.  The index lists every file that is no .json, so also the  *)
(* .part files of uploads under way.  Neither touches the state of the     *)
(* other: a behaviour here has a browser, or the window and the Ctrl+C.    *)
(***************************************************************************)
EXTENDS VideoReceiver, Sequences

VARIABLES
    browser,            \* whether this is a behaviour with a browser
    server,             \* up, closing, down
    get,                \* a request: none, marker, stat, read, served
    target,             \* the file it is about: [by |-> "latest" or "index", of |-> upload]
    file, announced,    \* the file it has opened, and its Content-Length
    body,               \* what it has sent
    queue,              \* of the window's thread; NoFile is the sentinel
    display, shown      \* the window's thread; the upload and the content it plays

getVars == <<get, target, file, announced, body>>
displayVars == <<queue, display, shown>>
viewerVars == <<browser, server, getVars, displayVars>>
allVars == <<vars, viewerVars>>

Nothing == [by |-> "none", of |-> NoFile]
Black == [of |-> NoFile, content |-> Blank]
Size(f) == CHOOSE k \in 0 .. Length :
    /\ k > 0 => content[f][k] # NoFile
    /\ \A i \in Chunks : content[f][i] # NoFile => i <= k

ViewersInit ==
    /\ Init
    /\ browser \in BOOLEAN /\ server = "up"
    /\ get = "none" /\ target = Nothing /\ file = NoFile /\ announced = 0 /\ body = Blank
    /\ queue = <<>> /\ shown = Black
    /\ display \in IF browser THEN {"off"} ELSE {"off", "waiting"}

-----------------------------------------------------------------------------
(* The receiver, which hands a video over before it answers and accepts    *)
(* nobody after Ctrl+C                                                     *)

SenderGoesOn(u) == SenderStep(u) /\ UNCHANGED viewerVars

ThreadGoesOn(u) ==
    /\ ThreadStep(u)
    /\ handler[u] = "off" => server = "up"
    /\ queue' = IF handler[u] = "answer" /\ display # "off" THEN Append(queue, u) ELSE queue
    /\ UNCHANGED <<browser, server, getVars, display, shown>>

ReceiverOther ==
    /\ \/ Tick
       \/ \E u \in Uploads :
            Records(u) \/ RunFails(u) \/ Connect(u) \/ FallsSilent(u) \/ DiskFails(u)
    /\ UNCHANGED viewerVars

-----------------------------------------------------------------------------
(* A request of a browser: do_GET *)

GetLatest ==
    /\ browser /\ get = "none"
    /\ get' = "marker"
    /\ UNCHANGED <<vars, browser, server, target, file, announced, body, displayVars>>

RequestEnds ==
    /\ get' = "none" /\ target' = Nothing /\ file' = NoFile /\ announced' = 0
    /\ UNCHANGED <<vars, browser, server, body, displayVars>>

(* Variant: the newest file of the directory counts as the latest *)
LatestFile_newest ==
    /\ get = "marker"
    /\ \E s \in Paths :
        /\ part[s] # NoFile
        /\ target' = [by |-> "latest", of |-> part[s]]
        /\ file' = part[s]
    /\ get' = "stat"
    /\ UNCHANGED <<vars, browser, server, announced, body, displayVars>>

(* latest_file: latest.json names a file, and the file is there *)
LatestFile ==
    /\ get = "marker" /\ marker \in Uploads /\ saved[path[marker]] # NoFile
    /\ target' = [by |-> "latest", of |-> marker]
    /\ file' = saved[path[marker]]
    /\ get' = "stat"
    /\ UNCHANGED <<vars, browser, server, announced, body, displayVars>>

(* There is none yet, or json.loads raises on what a thread is writing *)
NoLatestFile ==
    /\ get = "marker" /\ marker \notin Uploads
    /\ RequestEnds

(* A link of the index, which may be to a .part file *)
GetListed(s) ==
    /\ browser /\ get = "none"
    /\ \E f \in {part[s], saved[s]} \ {NoFile} :
        /\ target' = [by |-> "index", of |-> f]
        /\ file' = f
    /\ get' = "stat"
    /\ UNCHANGED <<vars, browser, server, announced, body, displayVars>>

(* send_video: the length is announced, and then the file is read to its end *)
SendHeaders ==
    /\ get = "stat"
    /\ announced' = Size(file)
    /\ get' = "read"
    /\ UNCHANGED <<vars, browser, server, target, file, body, displayVars>>

SendBody ==
    /\ get = "read" /\ target.by = "latest"
    /\ body' = content[file]
    /\ get' = "served"
    /\ UNCHANGED <<vars, browser, server, target, file, announced, displayVars>>

(* What a .part file holds by now may be more than was announced *)
SendListed ==
    /\ get = "read" /\ target.by = "index"
    /\ RequestEnds

(* The browser leaves, or asks for what is not there: 404 *)
GetBreaksOff ==
    /\ get \in {"marker", "stat", "read"}
    /\ RequestEnds

-----------------------------------------------------------------------------
(* The window: start_display_worker *)

(* The file is remuxed, or where that fails taken as it is, and played *)
Plays ==
    /\ display = "waiting" /\ queue # <<>> /\ Head(queue) # NoFile
    /\ queue' = Tail(queue)
    /\ shown' = [of |-> Head(queue), content |-> content[saved[path[Head(queue)]]]]
    /\ display' = "playing"
    /\ UNCHANGED <<vars, browser, server, getVars>>

(* The end of the clip, or q *)
ClipEnds ==
    /\ display = "playing"
    /\ display' = "waiting"
    /\ UNCHANGED <<vars, browser, server, getVars, queue, shown>>

(* The window cannot be made: the thread is gone, and nobody notices *)
WindowFails ==
    /\ display \in {"waiting", "playing"}
    /\ display' = "failed"
    /\ UNCHANGED <<vars, browser, server, getVars, queue, shown>>

WindowCloses ==
    /\ display = "waiting" /\ queue # <<>> /\ Head(queue) = NoFile
    /\ display' = "ended"
    /\ UNCHANGED <<vars, browser, server, getVars, queue, shown>>

-----------------------------------------------------------------------------
(* The end of run *)

(* Ctrl+C: the transfer server accepts nobody more *)
Interrupt ==
    /\ ~browser /\ server = "up"
    /\ server' = "closing"
    /\ UNCHANGED <<vars, browser, getVars, displayVars>>

(* Variant: threads that have not begun to receive are waited for, too *)
ServerCloses_all_senders ==
    /\ server = "closing"
    /\ \A u \in Uploads : handler[u] = "done"
    /\ server' = "down" /\ queue' = Append(queue, NoFile)
    /\ UNCHANGED <<vars, browser, getVars, display, shown>>

(* server_close joins the threads of the handlers, and the window's thread  *)
(* is joined for two seconds                                                *)
ServerCloses ==
    /\ server = "closing"
    /\ \A u \in Uploads : handler[u] \in {"off", "done"}
    /\ server' = "down" /\ queue' = Append(queue, NoFile)
    /\ UNCHANGED <<vars, browser, getVars, display, shown>>

ViewersNext ==
    \/ \E u \in Uploads : SenderGoesOn(u) \/ ThreadGoesOn(u)
    \/ ReceiverOther
    \/ GetLatest \/ LatestFile \/ NoLatestFile
    \/ \E s \in Paths : GetListed(s)
    \/ SendHeaders \/ SendBody \/ SendListed \/ GetBreaksOff
    \/ Plays \/ ClipEnds \/ WindowFails \/ WindowCloses
    \/ Interrupt \/ ServerCloses

ViewersSpec == ViewersInit /\ [][ViewersNext]_allVars

ViewersFairSpec ==
    /\ ViewersSpec
    /\ \A u \in Uploads : WF_allVars(SenderGoesOn(u)) /\ WF_allVars(ThreadGoesOn(u))
    /\ WF_allVars(ServerCloses)

-----------------------------------------------------------------------------
(* Properties *)

(* Whoever follows /latest is sent a whole video, as long as announced, and  *)
(* the window plays whole videos, while other uploads come in, unless two    *)
(* of one name meet in a second.                                             *)
WatchedIsWhole ==
    /\ get = "served" /\ target.by = "latest" /\ Alone(target.of) =>
        announced = Length /\ body = WholeOf(target.of)
    /\ shown # Black /\ Alone(shown.of) => shown.content = WholeOf(shown.of)

(* Every upload that is begun ends, and so does the program after Ctrl+C,    *)
(* unless a sender falls silent: that one holds up no other upload, but the  *)
(* end of the program it does.                                               *)
NobodyWaits ==
    /\ \A u \in Uploads :
        sender[u] = "sending" ~> (handler[u] = "done" \/ sender[u] = "silent" \/ server # "up")
    /\ server = "closing" ~> (server = "down" \/ \E u \in Uploads : sender[u] = "silent")

=============================================================================
