----------------------------- MODULE CaptureChain -----------------------------
(***************************************************************************)
(* How a picture is taken: the capture client inside the harvest process   *)
(* (dobot/vision_capture_client.py), the capture daemon on the PC          *)
(* (vision/camera1_pi/vision_capture_daemon.py) and the camera client on   *)
(* the Raspberry Pi (raspi_jpeg_capture_client.py, run with --reconnect).  *)
(*                                                                         *)
(* The daemon serves one request at a time over the one connection of the  *)
(* Pi it has accepted.  A connection is established by the kernel before   *)
(* the daemon accepts it, and outlives the client that opened it: both the *)
(* requests and the Pi connections that wait to be accepted may be stale.  *)
(***************************************************************************)
EXTENDS HarvestCell

CONSTANTS
    ControlBacklog,     \* requests waiting to be accepted, at most
    PiBacklog           \* Pi connections waiting to be accepted, at most

ASSUME BacklogAssumption ==
    ControlBacklog \in Nat \ {0} /\ PiBacklog \in Nat \ {0}

VARIABLES
    reply,      \* what the daemon answered to the client
    queue,      \* requests not yet accepted
    dpc,        \* what the daemon waits for or does next
    attempt,
    request,    \* the request being served
    pi_conn,    \* the Pi connection the daemon holds
    channel,    \* the message under way on it
    backlog,    \* Pi connections not yet accepted
    pi_pc       \* the camera client

daemonVars == <<reply, queue, dpc, attempt, request>>
linkVars == <<pi_conn, channel, backlog, pi_pc>>
chainVars == <<daemonVars, linkVars>>

(* A request outlives its client. *)
Wanted == "client"
Gone == "gone"
NoRequest == "none"

Message(k, p) == [kind |-> k, picture |-> p]
Silence == Message("none", NoPicture)
Command == Message("capture", NoPicture)
CameraError == Message("error", NoPicture)

(* A connection is live while the Pi holds its end, dead when the daemon   *)
(* would find out by reading, and silent when it never would: pi_conn,     *)
(* which may also be closed, and the connections of the backlog.           *)
ChainInit ==
    /\ reply = Silence /\ queue = << >>
    /\ dpc = "down" /\ attempt = 0 /\ request = NoRequest
    /\ pi_conn = "closed" /\ channel = Silence /\ backlog = << >>
    /\ pi_pc = "offline"

-----------------------------------------------------------------------------
(* The capture client: VisionCaptureClient.capture *)

Listening == dpc \notin {"down", "first"}

ClientAsks ==
    /\ Listening /\ Len(queue) < ControlBacklog
    /\ queue' = Append(queue, Wanted)
    /\ UNCHANGED <<reply, dpc, attempt, request, linkVars>>

(* The client reads the answer, or its process stops waiting for it. *)
ClientLeaves ==
    /\ reply' = Silence
    /\ queue' = [i \in DOMAIN queue |-> Gone]
    /\ request' = IF request = Wanted THEN Gone ELSE request
    /\ UNCHANGED <<dpc, attempt, linkVars>>

(* Variant: no timeout on the socket, only a daemon that ends is noticed. *)
ClientGivesUp_daemon_down ==
    /\ dpc = "down"
    /\ ClientLeaves

(* No answer within timeout_sec, or the connection breaks. *)
ClientGivesUp ==
    /\ reply = Silence
    /\ ClientLeaves

-----------------------------------------------------------------------------
(* The daemon *)

DaemonStarts ==
    /\ dpc = "down"
    /\ dpc' = "first"
    /\ UNCHANGED <<reply, queue, attempt, request, linkVars>>

(* The process ends, and the kernel ends every connection of it. *)
DaemonStops ==
    /\ dpc # "down"
    /\ dpc' = "down"
    /\ queue' = << >>
    /\ attempt' = 0
    /\ request' = NoRequest
    /\ pi_conn' = "closed"
    /\ channel' = Silence
    /\ backlog' = << >>
    /\ UNCHANGED <<reply, pi_pc>>

(* accept_pi_client, at the start and before the second attempt *)
AcceptPi ==
    /\ dpc \in {"first", "again"}
    /\ backlog # << >>
    /\ pi_conn' = Head(backlog)
    /\ backlog' = Tail(backlog)
    /\ channel' = Silence
    /\ dpc' = IF dpc = "first" THEN "control" ELSE "send"
    /\ attempt' = IF dpc = "first" THEN 0 ELSE 1
    /\ UNCHANGED <<reply, queue, request, pi_pc>>

TakeRequest ==
    /\ dpc = "control"
    /\ queue # << >>
    /\ request' = Head(queue)
    /\ queue' = Tail(queue)
    /\ attempt' = 0
    /\ dpc' = "send"
    /\ UNCHANGED <<reply, linkVars>>

(* The client was gone before it had sent its request. *)
ReadsNothing ==
    /\ dpc = "control"
    /\ queue # << >>
    /\ Head(queue) = Gone
    /\ queue' = Tail(queue)
    /\ UNCHANGED <<reply, dpc, attempt, request, linkVars>>

(* What is sent to a connection the Pi has left is lost, without an error. *)
SendCommand ==
    /\ dpc = "send"
    /\ pi_conn # "closed"
    /\ channel' = IF pi_conn = "live" THEN Command ELSE Silence
    /\ dpc' = "await"
    /\ UNCHANGED <<reply, queue, attempt, request, pi_conn, backlog, pi_pc>>

(* The answer reaches the client if it is still there. *)
Answer(m) ==
    /\ reply' = IF request = Wanted THEN m ELSE reply
    /\ dpc' = "control"
    /\ request' = NoRequest
    /\ UNCHANGED <<queue, attempt>>

(* save_capture_result, and the answer with its path *)
Deliver ==
    /\ dpc = "await"
    /\ channel.kind = "ok"
    /\ Answer(channel)
    /\ channel' = Silence
    /\ UNCHANGED <<pi_conn, backlog, pi_pc>>

(* Variant: the status of the packet is not looked at. *)
ReportError_as_ok ==
    /\ dpc = "await"
    /\ channel.kind = "error"
    /\ Answer(Message("ok", channel.picture))
    /\ channel' = Silence
    /\ UNCHANGED <<pi_conn, backlog, pi_pc>>

(* The Pi could not take a picture: the client is told, nothing is retried. *)
ReportError ==
    /\ dpc = "await"
    /\ channel.kind = "error"
    /\ Answer(CameraError)
    /\ channel' = Silence
    /\ UNCHANGED <<pi_conn, backlog, pi_pc>>

(* An exception in capture_once_with_pi: a closed or broken connection *)
LinkFailed ==
    \/ dpc = "send" /\ pi_conn \in {"dead", "closed"}
    \/ dpc = "await" /\ pi_conn = "dead" /\ channel = Silence

(* ... or a picture that cannot be saved *)
DiskFailed == dpc = "await" /\ channel.kind = "ok"

DropConnection ==
    /\ pi_conn' = "closed"
    /\ channel' = Silence
    /\ UNCHANGED <<backlog, pi_pc>>

(* Variant: the request is not tried again. *)
FirstFailure_answered ==
    /\ attempt = 0
    /\ DropConnection
    /\ Answer(CameraError)

FirstFailure ==
    /\ attempt = 0
    /\ DropConnection
    /\ dpc' = "again"
    /\ UNCHANGED <<reply, queue, attempt, request>>

SecondFailure ==
    /\ attempt = 1
    /\ DropConnection
    /\ Answer(CameraError)

LinkFails == LinkFailed /\ (FirstFailure \/ SecondFailure)
DiskFails == DiskFailed /\ (FirstFailure \/ SecondFailure)

-----------------------------------------------------------------------------
(* The camera client *)

Buried(b) == [i \in DOMAIN b |-> "dead"]

(* The Pi holds one connection at most, and it is the last one it opened. *)
Linked == pi_conn = "live" \/ "live" \in Range(backlog)

PiConnects ==
    /\ pi_pc = "offline"
    /\ dpc # "down"
    /\ Len(backlog) < PiBacklog
    /\ backlog' = Append(backlog, "live")
    /\ pi_pc' = "waiting"
    /\ UNCHANGED <<daemonVars, pi_conn, channel>>

PiReads ==
    /\ pi_pc = "waiting"
    /\ pi_conn = "live"
    /\ channel = Command
    /\ channel' = Silence
    /\ pi_pc' = "capturing"
    /\ UNCHANGED <<daemonVars, pi_conn, backlog>>

(* handle_command, with a picture of what is before the camera *)
PiAnswers(view) ==
    /\ pi_pc = "capturing"
    /\ pi_conn = "live"
    /\ channel' \in {Message("ok", view), CameraError}
    /\ pi_pc' = "waiting"
    /\ UNCHANGED <<daemonVars, pi_conn, backlog>>

(* Variant: the end of the stream is taken for an empty line. *)
PiNotices_sending_only ==
    /\ pi_pc = "capturing"
    /\ ~Linked
    /\ pi_pc' = "offline"
    /\ UNCHANGED <<daemonVars, pi_conn, channel, backlog>>

(* The daemon has closed the connection: end of stream, or a failing send. *)
PiNotices ==
    /\ pi_pc # "offline"
    /\ ~Linked
    /\ pi_pc' = "offline"
    /\ UNCHANGED <<daemonVars, pi_conn, channel, backlog>>

(* The client ends, or its connection breaks.  An answer already sent may  *)
(* still be read.                                                          *)
PiDrops ==
    /\ pi_pc # "offline"
    /\ pi_pc' = "offline"
    /\ pi_conn' = IF pi_conn = "live" THEN "dead" ELSE pi_conn
    /\ backlog' = Buried(backlog)
    /\ \/ channel' = IF pi_conn = "live" THEN Silence ELSE channel
       \/ channel.kind \in {"ok", "error"} /\ channel' = channel
    /\ UNCHANGED <<daemonVars>>

(* The Pi loses its power while it takes a picture: it has acknowledged    *)
(* the command, and no end of the connection is ever sent.                 *)
PiPowerCut ==
    /\ pi_pc = "capturing"
    /\ pi_conn = "live"
    /\ pi_pc' = "offline"
    /\ pi_conn' = "silent"
    /\ UNCHANGED <<daemonVars, channel, backlog>>

=============================================================================
