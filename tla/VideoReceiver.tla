----------------------------- MODULE VideoReceiver -----------------------------
(***************************************************************************)
(* The video receiver (vision/camera1_pi/pc_receiver_streamer.py) and its  *)
(* senders (raspi_capture_send.py).                                        *)
(*                                                                         *)
(* Every upload has a handler thread.  The threads share a directory:      *)
(* a video is received into a .part file, renamed, and named in            *)
(* latest.json.  A path is made of the file name and of the second; the    *)
(* uploads here all have one file name, since those of different names     *)
(* meet as little as those of different seconds.                           *)
(***************************************************************************)
EXTENDS Naturals

CONSTANTS
    Uploads,        \* uploads, and the files (inodes) they create
    NoFile,
    Length,         \* chunks of a video
    MaxSecond       \* bound on the clock

ASSUME ReceiverAssumption ==
    /\ Uploads \cap {NoFile, "empty", "garbled"} = {}
    /\ NoFile \notin {"empty", "garbled"}
    /\ Length \in Nat \ {0}
    /\ MaxSecond \in Nat

VARIABLES
    second,             \* the clock
    sender, sent,       \* the sender of each upload, and the chunks it has sent
    handler, got,       \* the thread of each upload, and the chunks it has written
    path, fd,           \* ... its path, by the second, and the file it writes
    part, saved,        \* the files under <path>.part and <path>
    content,            \* of each file, who wrote its chunks
    marker              \* the upload that latest.json names

senderVars == <<sender, sent>>
threadVars == <<handler, got, path, fd>>
fileVars == <<part, saved, content, marker>>
vars == <<second, senderVars, threadVars, fileVars>>

Paths == 0 .. MaxSecond
Chunks == 1 .. Length
Files == Uploads \cup {NoFile}
Blank == [i \in Chunks |-> NoFile]
WholeOf(u) == [i \in Chunks |-> u]

(* Variant: one temporary file for all *)
PartOf_fixed(s) == 0

(* temp_path of a saved_path *)
PartOf(s) == s

TypeOK ==
    /\ second \in Paths
    /\ sender \in [Uploads -> {"off", "recorded", "failed",
                              "sending", "waiting", "gone", "silent", "acked", "refused"}]
    /\ sent \in [Uploads -> 0 .. Length]
    /\ handler \in [Uploads -> {"off", "receive", "mark", "write", "answer", "done"}]
    /\ got \in [Uploads -> 0 .. Length]
    /\ path \in [Uploads -> Paths]
    /\ fd \in [Uploads -> Files]
    /\ part \in [Paths -> Files]
    /\ saved \in [Paths -> Files]
    /\ content \in [Uploads -> [Chunks -> Files]]
    /\ marker \in Files \cup {"empty", "garbled"}

Init ==
    /\ second = 0
    /\ sender = [u \in Uploads |-> "off"] /\ sent = [u \in Uploads |-> 0]
    /\ handler = [u \in Uploads |-> "off"] /\ got = [u \in Uploads |-> 0]
    /\ path = [u \in Uploads |-> 0] /\ fd = [u \in Uploads |-> NoFile]
    /\ part = [s \in Paths |-> NoFile] /\ saved = [s \in Paths |-> NoFile]
    /\ content = [u \in Uploads |-> Blank]
    /\ marker = NoFile

Tick ==
    /\ second < MaxSecond
    /\ second' = second + 1
    /\ UNCHANGED <<senderVars, threadVars, fileVars>>

-----------------------------------------------------------------------------
(* The sender: main, which records first and sends a file that is finished *)

Records(u) ==
    /\ sender[u] = "off"
    /\ sender' = [sender EXCEPT ![u] = "recorded"]
    /\ UNCHANGED <<second, sent, threadVars, fileVars>>

(* No camera, a recording that fails, hangs or is empty, or nobody that    *)
(* takes the connection: the run ends.                                     *)
RunFails(u) ==
    /\ sender[u] \in {"off", "recorded"}
    /\ sender' = [sender EXCEPT ![u] = "failed"]
    /\ UNCHANGED <<second, sent, threadVars, fileVars>>

Connect(u) ==
    /\ sender[u] = "recorded"
    /\ sender' = [sender EXCEPT ![u] = "sending"]
    /\ UNCHANGED <<second, sent, threadVars, fileVars>>

SendChunk(u) ==
    /\ sender[u] = "sending"
    /\ sent' = [sent EXCEPT ![u] = @ + 1]
    /\ sender' = [sender EXCEPT ![u] = IF sent[u] + 1 = Length THEN "waiting" ELSE @]
    /\ UNCHANGED <<second, threadVars, fileVars>>

(* A timeout, or the end of the process: the connection is closed. *)
GivesUp(u) ==
    /\ sender[u] \in {"sending", "waiting"}
    /\ sender' = [sender EXCEPT ![u] = "gone"]
    /\ UNCHANGED <<second, sent, threadVars, fileVars>>

(* A power cut: the connection stays open. *)
FallsSilent(u) ==
    /\ sender[u] = "sending"
    /\ sender' = [sender EXCEPT ![u] = "silent"]
    /\ UNCHANGED <<second, sent, threadVars, fileVars>>

-----------------------------------------------------------------------------
(* The thread: VideoReceiveHandler.handle *)

Goto(u, h) == handler' = [handler EXCEPT ![u] = h]

Replies(u, r) ==
    /\ Goto(u, "done")
    /\ sender' = [sender EXCEPT ![u] = IF @ \in {"sending", "waiting"} THEN r ELSE @]

(* Header and metadata are read, and the .part file is opened: made, or    *)
(* emptied if there is one.                                                *)
Begin(u) ==
    /\ handler[u] = "off"
    /\ sender[u] \notin {"off", "recorded", "failed"}
    /\ path' = [path EXCEPT ![u] = second]
    /\ LET f == IF part[PartOf(second)] = NoFile THEN u ELSE part[PartOf(second)] IN
        /\ part' = [part EXCEPT ![PartOf(second)] = f]
        /\ fd' = [fd EXCEPT ![u] = f]
        /\ content' = [content EXCEPT ![f] = Blank]
    /\ Goto(u, "receive")
    /\ UNCHANGED <<second, senderVars, got, saved, marker>>

ReceiveChunk(u) ==
    /\ handler[u] = "receive"
    /\ got[u] < sent[u]
    /\ got' = [got EXCEPT ![u] = @ + 1]
    /\ content' = [content EXCEPT ![fd[u]] = [@ EXCEPT ![got[u] + 1] = u]]
    /\ UNCHANGED <<second, senderVars, handler, path, fd, part, saved, marker>>

(* Variant: the end of the connection counts as the end of the video. *)
Complete_when_closed(u) == got[u] = Length \/ (sender[u] = "gone" /\ got[u] = sent[u])

Complete(u) == got[u] = Length

(* The connection ends within the video. *)
Truncated(u) ==
    /\ handler[u] = "receive"
    /\ sender[u] = "gone" /\ got[u] = sent[u] /\ got[u] < Length
    /\ Replies(u, "refused")
    /\ UNCHANGED <<second, sent, got, path, fd, fileVars>>

(* temp_path.replace(saved_path) *)
Replace(u) ==
    /\ handler[u] = "receive"
    /\ Complete(u)
    /\ part[PartOf(path[u])] # NoFile
    /\ saved' = [saved EXCEPT ![path[u]] = part[PartOf(path[u])]]
    /\ part' = [part EXCEPT ![PartOf(path[u])] = NoFile]
    /\ Goto(u, "mark")
    /\ UNCHANGED <<second, senderVars, got, path, fd, content, marker>>

(* ... which an upload of the same path has done already *)
ReplaceFails(u) ==
    /\ handler[u] = "receive"
    /\ Complete(u)
    /\ part[PartOf(path[u])] = NoFile
    /\ Replies(u, "refused")
    /\ UNCHANGED <<second, sent, got, path, fd, fileVars>>

(* write_latest_marker: latest.json is emptied, then written. *)
OpenMarker(u) ==
    /\ handler[u] = "mark"
    /\ marker' = "empty"
    /\ Goto(u, "write")
    /\ UNCHANGED <<second, senderVars, got, path, fd, part, saved, content>>

(* Where another thread has written in between, the text replaces as much  *)
(* of the other's as it is long.                                           *)
WriteMarker(u) ==
    /\ handler[u] = "write"
    /\ marker' \in IF marker = "empty" THEN {u} ELSE {u, "garbled"}
    /\ Goto(u, "answer")
    /\ UNCHANGED <<second, senderVars, got, path, fd, part, saved, content>>

Answer(u) ==
    /\ handler[u] = "answer"
    /\ Replies(u, "acked")
    /\ UNCHANGED <<second, sent, got, path, fd, fileVars>>

(* The disk is full, or anything else raises. *)
DiskFails(u) ==
    /\ handler[u] \in {"receive", "mark", "write"}
    /\ Replies(u, "refused")
    /\ UNCHANGED <<second, sent, got, path, fd, fileVars>>

-----------------------------------------------------------------------------

SenderStep(u) == SendChunk(u) \/ GivesUp(u)
ThreadStep(u) ==
    \/ Begin(u) \/ ReceiveChunk(u) \/ Truncated(u) \/ Replace(u) \/ ReplaceFails(u)
    \/ OpenMarker(u) \/ WriteMarker(u) \/ Answer(u)

Next ==
    \/ Tick
    \/ \E u \in Uploads :
        \/ Records(u) \/ RunFails(u) \/ Connect(u)
        \/ SenderStep(u) \/ FallsSilent(u)
        \/ ThreadStep(u) \/ DiskFails(u)

Spec == Init /\ [][Next]_vars

-----------------------------------------------------------------------------
(* Properties *)

Begun(u) == handler[u] # "off"
Alone(u) == \A v \in Uploads \ {u} : ~(Begun(v) /\ path[v] = path[u])

Stored(u) ==
    /\ saved[path[u]] # NoFile
    /\ content[saved[path[u]]] = WholeOf(u)

(* A sender that was told OK finds its video, whole and with nothing of    *)
(* another in it, under the path it was told, then and later, unless       *)
(* another upload of the same name came in the same second.                *)
AckedIsStored == \A u \in Uploads : sender[u] = "acked" /\ Alone(u) => Stored(u)

(* So does whoever follows latest.json, also of an upload whose sender has *)
(* been told nothing yet.                                                  *)
LatestIsWhole == marker \in Uploads /\ Alone(marker) => Stored(marker)

=============================================================================
