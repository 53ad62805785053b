-------------------------- MODULE VideoViewers_proofs --------------------------
(***************************************************************************)
(* Proofs about VideoReceiver and VideoViewers, for any number of uploads, *)
(* any length of a video, any bound on the clock and any number of         *)
(* requests and clips: what is stored is whole, a receiver with its        *)
(* viewers is a receiver still, and what they see is whole.                *)
(***************************************************************************)
EXTENDS VideoViewers, SequenceTheorems, TLAPS

-----------------------------------------------------------------------------
(* VideoReceiver *)

(* A sender that goes on has something left to send.                       *)
Sending ==
    \A u \in Uploads : sender[u] \in {"off", "recorded", "sending"} => sent[u] < Length

(* Nothing has been received before a thread begins.                       *)
Fresh == \A u \in Uploads : ~Begun(u) => got[u] = 0 /\ sender[u] # "acked" /\ marker # u

(* A file lies under the path of the upload that made it, and is written   *)
(* by uploads of that path only.                                           *)
PartsTell == \A s \in Paths : part[s] \in Uploads => Begun(part[s]) /\ path[part[s]] = s
SavedTell == \A s \in Paths : saved[s] \in Uploads => Begun(saved[s]) /\ path[saved[s]] = s
WritersTell ==
    \A u \in Uploads : Begun(u) => fd[u] \in Uploads /\ Begun(fd[u]) /\ path[fd[u]] = path[u]

(* An upload alone on its path has a .part file of its own, with the       *)
(* chunks received so far.                                                 *)
Receiving ==
    \A u \in Uploads : Alone(u) /\ handler[u] = "receive" =>
        /\ part[path[u]] = u
        /\ \A i \in 1 .. got[u] : content[u][i] = u

(* ... and after the renaming a saved file.                                *)
Kept(u) == handler[u] \in {"mark", "write", "answer"} \/ sender[u] = "acked" \/ marker = u
Keeping == \A u \in Uploads : Alone(u) /\ Kept(u) => Stored(u)

(* What is acknowledged or marked is no longer received.                   *)
Ends ==
    \A u \in Uploads :
        /\ sender[u] = "acked" => handler[u] = "done"
        /\ marker = u => handler[u] \in {"answer", "done"}

FilesTell == Fresh /\ PartsTell /\ SavedTell /\ WritersTell /\ Ends
IInv == TypeOK /\ Sending /\ FilesTell /\ Receiving /\ Keeping

-----------------------------------------------------------------------------
(* Types *)

LEMMA TypeStep ==
    ASSUME TypeOK, Sending, [Next]_vars
    PROVE  TypeOK' /\ Sending'
<1> USE ReceiverAssumption DEF TypeOK, Sending, Paths, Chunks, Files
<1>1. CASE Tick
    BY <1>1 DEF Tick, senderVars, threadVars, fileVars
<1>2. ASSUME NEW u \in Uploads, SendChunk(u)
      PROVE  TypeOK' /\ Sending'
  <2>1. sent[u] + 1 \in 0 .. Length
    BY <1>2 DEF SendChunk
  <2> QED BY <1>2, <2>1 DEF SendChunk, threadVars, fileVars
<1>3. ASSUME NEW u \in Uploads,
             Records(u) \/ RunFails(u) \/ Connect(u) \/ GivesUp(u) \/ FallsSilent(u)
      PROVE  TypeOK' /\ Sending'
    BY <1>3 DEF Records, RunFails, Connect, GivesUp, FallsSilent, threadVars, fileVars
<1>4. ASSUME NEW u \in Uploads, Begin(u)
      PROVE  TypeOK' /\ Sending'
    BY <1>4 DEF Begin, PartOf, Goto, Blank, senderVars
<1>5. ASSUME NEW u \in Uploads, ReceiveChunk(u)
      PROVE  TypeOK' /\ Sending'
  <2>1. got[u] + 1 \in 0 .. Length
    BY <1>5 DEF ReceiveChunk
  <2> QED BY <1>5, <2>1 DEF ReceiveChunk, senderVars
<1>6. ASSUME NEW u \in Uploads, Truncated(u) \/ ReplaceFails(u) \/ Answer(u) \/ DiskFails(u)
      PROVE  TypeOK' /\ Sending'
    BY <1>6 DEF Truncated, ReplaceFails, Answer, DiskFails, Replies, Goto, fileVars
<1>7. ASSUME NEW u \in Uploads, Replace(u)
      PROVE  TypeOK' /\ Sending'
    BY <1>7 DEF Replace, PartOf, Goto, senderVars
<1>8. ASSUME NEW u \in Uploads, OpenMarker(u) \/ WriteMarker(u)
      PROVE  TypeOK' /\ Sending'
    BY <1>8 DEF OpenMarker, WriteMarker, Goto, senderVars
<1>9. CASE UNCHANGED vars
    BY <1>9 DEF vars, senderVars, threadVars, fileVars
<1> QED
    BY <1>1, <1>2, <1>3, <1>4, <1>5, <1>6, <1>7, <1>8, <1>9 DEF Next, SenderStep, ThreadStep

LEMMA TypeInit == Init => TypeOK /\ Sending
BY ReceiverAssumption DEF Init, TypeOK, Sending, Paths, Chunks, Files, Blank

(* In every reachable state each variable has its type; no thread writes   *)
(* beyond the end of its video.                                            *)
THEOREM TypeCorrect == Spec => []TypeOK
<1>1. TypeOK /\ Sending /\ [Next]_vars => (TypeOK /\ Sending)'
    BY TypeStep
<1> QED BY TypeInit, <1>1, PTL DEF Spec

-----------------------------------------------------------------------------
(* Files *)

(* An upload alone on its path shares no file.                             *)
LEMMA OwnFile ==
    ASSUME TypeOK, FilesTell, NEW u \in Uploads, Begun(u), Alone(u)
    PROVE  /\ fd[u] = u
           /\ \A v \in Uploads : Begun(v) /\ fd[v] = u => v = u
           /\ part[path[u]] \in {u, NoFile}
           /\ saved[path[u]] \in {u, NoFile}
BY ReceiverAssumption DEF TypeOK, FilesTell, PartsTell, SavedTell, WritersTell, Alone, Files

(* Steps of senders and of the clock *)
Calm ==
    /\ UNCHANGED <<threadVars, fileVars>>
    /\ \A u \in Uploads : sender'[u] = "acked" <=> sender[u] = "acked"

LEMMA CalmStep ==
    ASSUME IInv, Calm
    PROVE  FilesTell' /\ Receiving' /\ Keeping'
<1> USE DEF IInv, Calm, threadVars, fileVars, Begun, Alone
<1>1. FilesTell'
    BY DEF FilesTell, Fresh, PartsTell, SavedTell, WritersTell, Ends
<1>2. Receiving'
    BY DEF Receiving
<1>3. Keeping'
    BY DEF Keeping, Kept, Stored, WholeOf
<1> QED BY <1>1, <1>2, <1>3

LEMMA BeginStep ==
    ASSUME IInv, NEW u \in Uploads, Begin(u)
    PROVE  FilesTell' /\ Receiving' /\ Keeping'
<1> DEFINE f == IF part[second] = NoFile THEN u ELSE part[second]
<1> USE ReceiverAssumption DEF IInv, TypeOK, PartOf, Goto
<1>1. /\ f \in Uploads /\ second \in Paths /\ handler[u] = "off"
      /\ handler' = [handler EXCEPT ![u] = "receive"]
      /\ path' = [path EXCEPT ![u] = second]
      /\ part' = [part EXCEPT ![second] = f]
      /\ fd' = [fd EXCEPT ![u] = f]
      /\ content' = [content EXCEPT ![f] = Blank]
      /\ UNCHANGED <<senderVars, got, saved, marker>>
    BY DEF Begin, Files
<1>2. f = u \/ (Begun(f) /\ path[f] = second)
    BY <1>1 DEF FilesTell, PartsTell
<1>3. FilesTell'
    BY <1>1, <1>2 DEF FilesTell, Fresh, PartsTell, SavedTell, WritersTell, Ends, Begun, senderVars
<1>4. ASSUME NEW w \in Uploads, w # u, Alone(w)', Begun(w)
      PROVE  Alone(w) /\ path'[w] = path[w] /\ path[w] # second /\ f # w
    BY <1>1, <1>2, <1>4 DEF Alone, Begun
<1>5. ASSUME Alone(u)'
      PROVE  f = u
    BY <1>1, <1>2, <1>5 DEF Alone, Begun
<1>6. Receiving'
  <2> SUFFICES ASSUME NEW w \in Uploads, Alone(w)', handler'[w] = "receive"
               PROVE  part'[path'[w]] = w /\ \A i \in 1 .. got'[w] : content'[w][i] = w
      BY DEF Receiving
  <2>1. CASE w = u
      BY <1>1, <1>5, <2>1 DEF FilesTell, Fresh, Begun
  <2>2. CASE w # u
      BY <1>1, <1>4, <2>2 DEF Receiving, Begun
  <2> QED BY <2>1, <2>2
<1>7. Keeping'
  <2> SUFFICES ASSUME NEW w \in Uploads, Alone(w)', Kept(w)'
               PROVE  Stored(w)'
      BY DEF Keeping
  <2>1. w # u
      BY <1>1 DEF Kept, FilesTell, Fresh, Begun, senderVars
  <2>2. Kept(w) /\ Begun(w)
      BY <1>1, <2>1 DEF Kept, FilesTell, Ends, Begun, senderVars
  <2>3. Stored(w) /\ saved[path[w]] = w
      BY <1>4, <2>1, <2>2, OwnFile DEF Keeping, Stored
  <2> QED BY <1>1, <1>4, <2>1, <2>2, <2>3 DEF Stored, WholeOf
<1> QED BY <1>3, <1>6, <1>7

LEMMA ReceiveStep ==
    ASSUME IInv, NEW u \in Uploads, ReceiveChunk(u)
    PROVE  FilesTell' /\ Receiving' /\ Keeping'
<1> USE ReceiverAssumption DEF IInv, TypeOK
<1>1. /\ handler[u] = "receive" /\ fd[u] \in Uploads /\ got[u] + 1 \in Chunks
      /\ got' = [got EXCEPT ![u] = got[u] + 1]
      /\ content' = [content EXCEPT ![fd[u]] = [content[fd[u]] EXCEPT ![got[u] + 1] = u]]
      /\ UNCHANGED <<senderVars, handler, path, fd, part, saved, marker>>
    BY DEF ReceiveChunk, FilesTell, WritersTell, Begun, Chunks
<1>2. FilesTell'
    BY <1>1 DEF FilesTell, Fresh, PartsTell, SavedTell, WritersTell, Ends, Begun, senderVars
<1>3. \A w \in Uploads :
        (Alone(w)' <=> Alone(w)) /\ (Kept(w)' <=> Kept(w)) /\ (Begun(w)' <=> Begun(w))
    BY <1>1 DEF Alone, Kept, Begun, senderVars
<1>4. Receiving'
  <2> SUFFICES ASSUME NEW w \in Uploads, Alone(w), handler[w] = "receive"
               PROVE  part[path[w]] = w /\ \A i \in 1 .. got'[w] : content'[w][i] = w
      BY <1>1, <1>3 DEF Receiving
  <2>1. /\ part[path[w]] = w
        /\ \A i \in 1 .. got[w] : content[w][i] = w
      BY DEF Receiving
  <2>2. fd[w] = w /\ \A v \in Uploads : Begun(v) /\ fd[v] = w => v = w
      BY OwnFile DEF Begun
  <2>3. CASE w = u
    <3>1. content'[w] = [content[w] EXCEPT ![got[w] + 1] = w] /\ got'[w] = got[w] + 1
        BY <1>1, <2>2, <2>3
    <3> QED BY <1>1, <2>1, <2>3, <3>1 DEF Chunks
  <2>4. CASE w # u
      BY <1>1, <2>1, <2>2, <2>4 DEF Begun
  <2> QED BY <2>3, <2>4
<1>5. Keeping'
  <2> SUFFICES ASSUME NEW w \in Uploads, Alone(w), Kept(w)
               PROVE  Stored(w)'
      BY <1>3 DEF Keeping
  <2>1. w # u /\ Begun(w)
      BY <1>1 DEF Kept, FilesTell, Ends, Begun
  <2>2. Stored(w) /\ saved[path[w]] = w /\ fd[u] # w
      BY <1>1, <2>1, OwnFile DEF Keeping, Stored, Begun
  <2> QED BY <1>1, <2>2 DEF Stored, WholeOf
<1> QED BY <1>2, <1>4, <1>5

LEMMA ReplaceStep ==
    ASSUME IInv, NEW u \in Uploads, Replace(u)
    PROVE  FilesTell' /\ Receiving' /\ Keeping'
<1> USE ReceiverAssumption DEF IInv, TypeOK
<1>1. /\ handler[u] = "receive" /\ got[u] = Length
      /\ part[path[u]] \in Uploads /\ path[u] \in Paths
      /\ saved' = [saved EXCEPT ![path[u]] = part[path[u]]]
      /\ part' = [part EXCEPT ![path[u]] = NoFile]
      /\ handler' = [handler EXCEPT ![u] = "mark"]
      /\ UNCHANGED <<senderVars, got, path, fd, content, marker>>
    BY DEF Replace, Complete, PartOf, Goto, Files
<1>2. FilesTell'
    BY <1>1 DEF FilesTell, Fresh, PartsTell, SavedTell, WritersTell, Ends, Begun, senderVars
<1>3. \A w \in Uploads : (Alone(w)' <=> Alone(w)) /\ (Begun(w)' <=> Begun(w))
    BY <1>1 DEF Alone, Begun
<1>4. \A w \in Uploads : w # u /\ Alone(w) /\ Begun(w) => path[w] # path[u]
    BY <1>1 DEF Alone, Begun
<1>5. Receiving'
    BY <1>1, <1>3, <1>4 DEF Receiving, Begun
<1>6. Keeping'
  <2> SUFFICES ASSUME NEW w \in Uploads, Alone(w), Kept(w)'
               PROVE  Stored(w)'
      BY <1>3 DEF Keeping
  <2>1. CASE w = u
    <3>1. part[path[u]] = u /\ \A i \in Chunks : content[u][i] = u
        BY <1>1, <2>1 DEF Receiving, Chunks
    <3>2. content[u] = WholeOf(u)
        BY <3>1 DEF WholeOf
    <3> QED BY <1>1, <2>1, <3>1, <3>2 DEF Stored, WholeOf
  <2>2. CASE w # u
    <3>1. Kept(w) /\ Begun(w)
        BY <1>1, <2>2 DEF Kept, FilesTell, Ends, Begun, senderVars
    <3> QED BY <1>1, <1>4, <2>2, <3>1 DEF Keeping, Stored, WholeOf
  <2> QED BY <2>1, <2>2
<1> QED BY <1>2, <1>5, <1>6

(* latest.json *)
LEMMA MarkStep ==
    ASSUME IInv, NEW u \in Uploads, OpenMarker(u) \/ WriteMarker(u)
    PROVE  FilesTell' /\ Receiving' /\ Keeping'
<1> USE ReceiverAssumption DEF IInv, TypeOK
<1>1. /\ handler[u] \in {"mark", "write"} /\ handler'[u] \in {"write", "answer"}
      /\ \A w \in Uploads \ {u} : handler'[w] = handler[w]
      /\ \A w \in Uploads : marker' = w => (w = u /\ handler'[u] = "answer") \/ marker = w
      /\ UNCHANGED <<senderVars, got, path, fd, part, saved, content>>
    BY DEF OpenMarker, WriteMarker, Goto
<1>2. FilesTell'
    BY <1>1 DEF FilesTell, Fresh, PartsTell, SavedTell, WritersTell, Ends, Begun, senderVars
<1>3. \A w \in Uploads : (Alone(w)' <=> Alone(w)) /\ (Kept(w)' => Kept(w))
    BY <1>1 DEF Alone, Begun, Kept, senderVars
<1>4. Receiving'
    BY <1>1, <1>3 DEF Receiving
<1>5. Keeping'
    BY <1>1, <1>3 DEF Keeping, Stored, WholeOf
<1> QED BY <1>2, <1>4, <1>5

(* The end of a thread *)
LEMMA EndStep ==
    ASSUME IInv, NEW u \in Uploads,
           Truncated(u) \/ ReplaceFails(u) \/ Answer(u) \/ DiskFails(u)
    PROVE  FilesTell' /\ Receiving' /\ Keeping'
<1> USE ReceiverAssumption DEF IInv, TypeOK
<1>1. /\ handler[u] # "off" /\ handler' = [handler EXCEPT ![u] = "done"]
      /\ \A w \in Uploads \ {u} : sender'[w] = sender[w]
      /\ sender'[u] = "acked" => sender[u] = "acked" \/ handler[u] = "answer"
      /\ UNCHANGED <<sent, got, path, fd, fileVars>>
    BY DEF Truncated, ReplaceFails, Answer, DiskFails, Replies, Goto
<1>2. FilesTell'
    BY <1>1 DEF FilesTell, Fresh, PartsTell, SavedTell, WritersTell, Ends, Begun, fileVars
<1>3. \A w \in Uploads : (Alone(w)' <=> Alone(w)) /\ (Kept(w)' => Kept(w))
    BY <1>1 DEF Alone, Begun, Kept, fileVars
<1>4. Receiving'
    BY <1>1, <1>3 DEF Receiving, fileVars
<1>5. Keeping'
    BY <1>1, <1>3 DEF Keeping, Stored, WholeOf, fileVars
<1> QED BY <1>2, <1>4, <1>5

LEMMA InvStep ==
    ASSUME IInv, [Next]_vars
    PROVE  IInv'
<1>1. TypeOK' /\ Sending'
    BY TypeStep DEF IInv
<1>2. FilesTell' /\ Receiving' /\ Keeping'
  <2>1. CASE Tick \/ UNCHANGED vars
    <3>1. Calm
        BY <2>1 DEF Tick, vars, Calm, senderVars
    <3> QED BY <3>1, CalmStep
  <2>2. ASSUME NEW u \in Uploads,
               Records(u) \/ RunFails(u) \/ Connect(u) \/ SenderStep(u) \/ FallsSilent(u)
        PROVE  FilesTell' /\ Receiving' /\ Keeping'
    <3>1. Calm
        BY <2>2 DEF IInv, TypeOK, Records, RunFails, Connect, SenderStep, SendChunk,
            GivesUp, FallsSilent, Calm
    <3> QED BY <3>1, CalmStep
  <2> QED
      BY <2>1, <2>2, BeginStep, ReceiveStep, ReplaceStep, MarkStep, EndStep DEF Next, ThreadStep
<1> QED BY <1>1, <1>2 DEF IInv

LEMMA Starts == Init => IInv
<1> SUFFICES ASSUME Init
             PROVE  IInv
    OBVIOUS
<1>1. TypeOK /\ Sending
    BY TypeInit
<1>2. FilesTell /\ Receiving /\ Keeping
    BY ReceiverAssumption DEF Init, FilesTell, Fresh, PartsTell, SavedTell, WritersTell,
        Ends, Receiving, Keeping, Kept, Begun, Paths
<1> QED BY <1>1, <1>2 DEF IInv

LEMMA Invariance == Spec => []IInv
<1>1. IInv /\ [Next]_vars => IInv'
    BY InvStep
<1> QED BY Starts, <1>1, PTL DEF Spec

(* Whatever other uploads do, of which the disk or the connection may fail *)
(* at any step: a sender that was told OK finds its video under the path   *)
(* it was told, for ever, if no other upload had that path.                *)
THEOREM AckedStored == Spec => []AckedIsStored
<1>1. IInv => AckedIsStored
    BY DEF IInv, Keeping, Kept, AckedIsStored
<1> QED BY <1>1, Invariance, PTL

(* So does a reader of latest.json.                                        *)
THEOREM LatestWhole == Spec => []LatestIsWhole
<1>1. IInv => LatestIsWhole
    BY DEF IInv, Keeping, Kept, LatestIsWhole
<1> QED BY <1>1, Invariance, PTL

-----------------------------------------------------------------------------
(* VideoReceiver: what viewers rely on *)

(* A thread past the renaming has a file under its path ...                *)
Renamed == \A u \in Uploads : handler[u] \in {"mark", "write", "answer"} => saved[path[u]] # NoFile

(* ... and what lies there of an upload alone on its path is finished,     *)
(* also where nobody has been told of it.                                  *)
Finished ==
    \A u \in Uploads : Begun(u) /\ Alone(u) /\ saved[path[u]] # NoFile =>
        handler[u] # "receive" /\ Stored(u)

StoreInv == IInv /\ Renamed /\ Finished

(* Uploads begin once, keep their paths, and files once saved stay there.  *)
Lasts ==
    \A u \in Uploads : Begun(u) =>
        /\ Begun(u)' /\ path'[u] = path[u] /\ (Alone(u)' => Alone(u))
        /\ saved[path[u]] # NoFile => saved'[path[u]] # NoFile

-----------------------------------------------------------------------------
(* VideoViewers *)

(* A video that a viewer has got hold of *)
Ready(u) == u \in Uploads /\ Begun(u) /\ saved[path[u]] # NoFile

QueueTells ==
    /\ queue \in Seq(Files)
    /\ \A i \in 1 .. Len(queue) : queue[i] # NoFile => Ready(queue[i])

ShownTells ==
    shown # Black =>
        Ready(shown.of) /\ (Alone(shown.of) => shown.content = WholeOf(shown.of))

GetTells ==
    target.by = "latest" =>
        /\ get \in {"stat", "read", "served"} /\ Ready(target.of)
        /\ Alone(target.of) =>
            /\ file = target.of
            /\ get # "stat" => announced = Length
            /\ get = "served" => body = WholeOf(target.of)

ViewInv == QueueTells /\ ShownTells /\ GetTells

-----------------------------------------------------------------------------
(* Steps of the receiver *)

LEMMA StoreLasts ==
    ASSUME StoreInv, [Next]_vars
    PROVE  Lasts
<1> USE ReceiverAssumption DEF StoreInv, IInv, TypeOK, Lasts, Begun, Alone
<1>1. CASE UNCHANGED vars
    BY <1>1 DEF vars, threadVars, fileVars
<1>2. CASE Tick
    BY <1>2 DEF Tick, threadVars, fileVars
<1>3. ASSUME NEW u \in Uploads,
             Records(u) \/ RunFails(u) \/ Connect(u) \/ SenderStep(u) \/ FallsSilent(u)
      PROVE  Lasts
    BY <1>3 DEF Records, RunFails, Connect, SenderStep, SendChunk, GivesUp, FallsSilent, threadVars, fileVars
<1>4. ASSUME NEW u \in Uploads, Begin(u)
      PROVE  Lasts
    BY <1>4 DEF Begin, Goto
<1>5. ASSUME NEW u \in Uploads, ReceiveChunk(u) \/ OpenMarker(u) \/ WriteMarker(u)
      PROVE  Lasts
    BY <1>5 DEF ReceiveChunk, OpenMarker, WriteMarker, Goto
<1>6. ASSUME NEW u \in Uploads, Replace(u)
      PROVE  Lasts
    BY <1>6 DEF Replace, Goto, PartOf
<1>7. ASSUME NEW u \in Uploads, Truncated(u) \/ ReplaceFails(u) \/ Answer(u) \/ DiskFails(u)
      PROVE  Lasts
    BY <1>7 DEF Truncated, ReplaceFails, Answer, DiskFails, Replies, Goto, fileVars
<1> QED
    BY <1>1, <1>2, <1>3, <1>4, <1>5, <1>6, <1>7 DEF Next, ThreadStep

LEMMA StoreStep ==
    ASSUME StoreInv, [Next]_vars
    PROVE  StoreInv'
<1> USE ReceiverAssumption DEF StoreInv, IInv, TypeOK
<1>1. IInv'
    BY InvStep
<1>2. Lasts
    BY StoreLasts
(* Only the threads change what the rest of the invariant is about *)
<1>3. ASSUME UNCHANGED <<handler, path, saved, content>>
      PROVE  Renamed' /\ Finished'
    BY <1>3 DEF Renamed, Finished, Begun, Alone, Stored, WholeOf
<1>4. CASE Tick \/ UNCHANGED vars
    <2>1. UNCHANGED <<handler, path, saved, content>>
        BY <1>4 DEF Tick, vars, threadVars, fileVars
    <2>2. QED
        BY <1>1, <1>3, <2>1
<1>5. ASSUME NEW u \in Uploads,
             Records(u) \/ RunFails(u) \/ Connect(u) \/ SenderStep(u) \/ FallsSilent(u)
      PROVE  Renamed' /\ Finished'
    BY <1>3, <1>5 DEF Records, RunFails, Connect, SenderStep, SendChunk, GivesUp, FallsSilent, threadVars, fileVars
<1>6. ASSUME NEW u \in Uploads, Begin(u)
      PROVE  Renamed' /\ Finished'
    <2> DEFINE f == IF part[second] = NoFile THEN u ELSE part[second]
    <2>1. /\ f \in Uploads /\ second \in Paths /\ handler[u] = "off"
          /\ handler' = [handler EXCEPT ![u] = "receive"]
          /\ path' = [path EXCEPT ![u] = second]
          /\ content' = [content EXCEPT ![f] = Blank]
          /\ saved' = saved
        BY <1>6 DEF Begin, Files, PartOf, Goto
    <2>2. f = u \/ (Begun(f) /\ path[f] = second)
        BY <2>1 DEF FilesTell, PartsTell
    <2> HIDE DEF f
    <2>3. Renamed'
        BY <2>1 DEF Renamed
    <2>4. Finished'
        <3> SUFFICES ASSUME NEW w \in Uploads, Begun(w)', Alone(w)', saved'[path'[w]] # NoFile
                     PROVE  handler'[w] # "receive" /\ Stored(w)'
            BY DEF Finished
        <3>1. w # u
            <4>1. saved[second] \in Uploads => Begun(saved[second]) /\ path[saved[second]] = second
                BY <2>1 DEF FilesTell, SavedTell
            <4>2. QED
                BY <2>1, <4>1 DEF Files, Begun, Alone
        <3>2. /\ Begun(w) /\ Alone(w) /\ path'[w] = path[w] /\ path[w] # second /\ f # w
              /\ handler'[w] = handler[w]
            BY <1>2, <2>1, <2>2, <3>1 DEF Lasts, Begun, Alone
        <3>3. handler[w] # "receive" /\ Stored(w) /\ saved[path[w]] = w
            BY <2>1, <3>2, OwnFile DEF Finished, Stored
        <3>4. QED
            BY <2>1, <3>2, <3>3 DEF Stored, WholeOf
    <2>5. QED
        BY <2>3, <2>4
<1>7. ASSUME NEW u \in Uploads, ReceiveChunk(u)
      PROVE  Renamed' /\ Finished'
    <2>1. /\ handler[u] = "receive" /\ fd[u] \in Uploads
          /\ \A w \in Uploads : w # fd[u] => content'[w] = content[w]
          /\ UNCHANGED <<handler, path, saved>>
        BY <1>7 DEF ReceiveChunk, FilesTell, WritersTell, Begun
    <2>2. Renamed'
        BY <2>1 DEF Renamed
    <2>3. Finished'
        <3> SUFFICES ASSUME NEW w \in Uploads, Begun(w), Alone(w), saved[path[w]] # NoFile
                     PROVE  handler[w] # "receive" /\ Stored(w)'
            BY <2>1 DEF Finished, Begun, Alone
        <3>1. handler[w] # "receive" /\ Stored(w) /\ saved[path[w]] = w
            BY OwnFile DEF Finished, Stored
        <3>2. fd[u] # w
            BY <2>1, <3>1, OwnFile DEF Begun
        <3>3. QED
            BY <2>1, <3>1, <3>2 DEF Stored, WholeOf
    <2>4. QED
        BY <2>2, <2>3
<1>8. ASSUME NEW u \in Uploads, Replace(u)
      PROVE  Renamed' /\ Finished'
    <2>1. /\ handler[u] = "receive" /\ got[u] = Length
          /\ part[path[u]] \in Uploads /\ path[u] \in Paths
          /\ saved' = [saved EXCEPT ![path[u]] = part[path[u]]]
          /\ handler' = [handler EXCEPT ![u] = "mark"]
          /\ UNCHANGED <<path, content>>
        BY <1>8 DEF Replace, Complete, PartOf, Goto, Files
    <2>2. Renamed'
        BY <2>1 DEF Renamed
    <2>3. Finished'
        <3> SUFFICES ASSUME NEW w \in Uploads, Begun(w)', Alone(w)', saved'[path'[w]] # NoFile
                     PROVE  handler'[w] # "receive" /\ Stored(w)'
            BY DEF Finished
        <3>1. Begun(w) /\ Alone(w)
            BY <2>1 DEF Begun, Alone
        <3>2. CASE w = u
            <4>1. part[path[u]] = u /\ \A i \in Chunks : content[u][i] = u
                BY <2>1, <3>1, <3>2 DEF Receiving, Chunks
            <4>2. content[u] = WholeOf(u)
                BY <4>1 DEF WholeOf
            <4>3. QED
                BY <2>1, <3>2, <4>1, <4>2 DEF Stored, WholeOf
        <3>3. CASE w # u
            <4>1. path[w] # path[u]
                BY <2>1, <3>1, <3>3 DEF Alone, Begun
            <4>2. QED
                BY <2>1, <3>1, <3>3, <4>1 DEF Finished, Stored, WholeOf
        <3>4. QED
            BY <3>2, <3>3
    <2>4. QED
        BY <2>2, <2>3
<1>9. ASSUME NEW u \in Uploads,
             \/ OpenMarker(u) \/ WriteMarker(u)
             \/ Truncated(u) \/ ReplaceFails(u) \/ Answer(u) \/ DiskFails(u)
      PROVE  Renamed' /\ Finished'
    <2>1. /\ handler[u] # "off" /\ UNCHANGED <<path, saved, content>>
          /\ \E h \in {"write", "answer", "done"} :
                /\ handler' = [handler EXCEPT ![u] = h]
                /\ h # "done" => handler[u] \in {"mark", "write"}
        BY <1>9 DEF OpenMarker, WriteMarker, Truncated, ReplaceFails, Answer, DiskFails, Replies,
                    Goto, fileVars
    <2>2. \A w \in Uploads :
            /\ handler'[w] = handler[w] \/ handler'[w] \in {"write", "answer", "done"}
            /\ handler'[w] \in {"mark", "write", "answer"} =>
                    handler[w] \in {"mark", "write", "answer"}
            /\ handler'[w] # "off" <=> handler[w] # "off"
        BY <2>1
    <2>3. Renamed'
        BY <2>1, <2>2 DEF Renamed
    <2>4. \A w \in Uploads : (Begun(w)' <=> Begun(w)) /\ (Alone(w)' <=> Alone(w))
                             /\ (Stored(w)' <=> Stored(w))
        BY <2>1, <2>2 DEF Begun, Alone, Stored, WholeOf
    <2>5. Finished'
        BY <2>1, <2>2, <2>4 DEF Finished
    <2>6. QED
        BY <2>3, <2>5
<1> QED
    BY <1>1, <1>4, <1>5, <1>6, <1>7, <1>8, <1>9 DEF Next, ThreadStep

-----------------------------------------------------------------------------
(* Steps of the viewers *)

ViewerSteps ==
    \/ GetLatest \/ LatestFile \/ NoLatestFile
    \/ \E s \in Paths : GetListed(s)
    \/ SendHeaders \/ SendBody \/ SendListed \/ GetBreaksOff
    \/ Plays \/ ClipEnds \/ WindowFails \/ WindowCloses
    \/ Interrupt \/ ServerCloses

LEMMA ViewersAreApart == ViewerSteps => UNCHANGED vars
BY DEF ViewerSteps, GetLatest, LatestFile, NoLatestFile, GetListed, SendHeaders, SendBody,
       SendListed, GetBreaksOff, RequestEnds, Plays, ClipEnds, WindowFails, WindowCloses,
       Interrupt, ServerCloses

LEMMA ReceiverOrViewers == ASSUME [ViewersNext]_allVars PROVE [Next]_vars
<1>1. CASE \E u \in Uploads : SenderGoesOn(u) \/ ThreadGoesOn(u)
    BY <1>1 DEF SenderGoesOn, ThreadGoesOn, Next
<1>2. CASE ReceiverOther
    BY <1>2 DEF ReceiverOther, Next
<1>3. CASE ViewerSteps
    BY <1>3, ViewersAreApart
<1>4. CASE UNCHANGED allVars
    BY <1>4 DEF allVars
<1> QED
    BY <1>1, <1>2, <1>3, <1>4 DEF ViewersNext, ViewerSteps

(* The length announced of a whole video is its length *)
LEMMA SizeOfWhole ==
    ASSUME NEW u \in Uploads, NEW f, content[f] = WholeOf(u)
    PROVE  Size(f) = Length
<1> DEFINE Ends_(k) == /\ k > 0 => content[f][k] # NoFile
                       /\ \A i \in Chunks : content[f][i] # NoFile => i <= k
<1>1. \A i \in Chunks : content[f][i] # NoFile
    BY ReceiverAssumption DEF WholeOf
<1>2. Length \in Chunks /\ Length \in 0 .. Length
    BY ReceiverAssumption DEF Chunks
<1>3. \A k \in 0 .. Length : Ends_(k) <=> k = Length
    BY ReceiverAssumption, <1>1, <1>2 DEF Chunks
<1> HIDE DEF Ends_
<1>4. (CHOOSE k \in 0 .. Length : Ends_(k)) = Length
    BY <1>2, <1>3
<1> QED
    BY <1>4 DEF Size, Ends_

(* What a viewer has got hold of stays *)
LEMMA ReadyLasts ==
    ASSUME Lasts
    PROVE  \A u : Ready(u) => Ready(u)' /\ (Alone(u)' => Alone(u))
BY DEF Lasts, Ready

LEMMA ViewersWait ==
    ASSUME ViewInv, Lasts, UNCHANGED viewerVars
    PROVE  ViewInv'
<1> USE ReadyLasts DEF ViewInv, viewerVars, getVars, displayVars
<1>1. QueueTells'
    BY DEF QueueTells
<1>2. ShownTells'
    BY DEF ShownTells, Black, Blank, WholeOf
<1>3. GetTells'
    BY DEF GetTells, WholeOf
<1> QED BY <1>1, <1>2, <1>3

LEMMA ViewStep ==
    ASSUME StoreInv, ViewInv, [ViewersNext]_allVars
    PROVE  ViewInv'
<1> USE DEF ViewInv
<1>1. [Next]_vars /\ Lasts
    BY ReceiverOrViewers, StoreLasts
<1>2. \A u \in Uploads : Ready(u) /\ Alone(u) =>
          saved[path[u]] = u /\ content[saved[path[u]]] = WholeOf(u)
    BY OwnFile DEF StoreInv, IInv, Finished, Ready, Stored
<1>3. CASE UNCHANGED viewerVars
    BY <1>1, <1>3, ViewersWait
<1>4. ASSUME NEW u \in Uploads, ThreadGoesOn(u)
      PROVE  ViewInv'
    <2>1. CASE queue' = queue
        BY <1>3, <1>4, <2>1 DEF ThreadGoesOn, viewerVars, displayVars
    <2>2. CASE handler[u] = "answer" /\ queue' = Append(queue, u)
        <3>1. Ready(u)
            BY <2>2 DEF StoreInv, Renamed, Ready, Begun
        <3>2. Ready(u)'
            BY <1>1, <3>1, ReadyLasts
        <3>3. QueueTells'
            <4>1. u \in Files /\ queue \in Seq(Files)
                BY DEF QueueTells, Files
            <4>2. /\ queue' \in Seq(Files) /\ Len(queue') = Len(queue) + 1 /\ Len(queue) \in Nat
                  /\ \A i \in 1 .. Len(queue) : queue'[i] = queue[i]
                  /\ queue'[Len(queue) + 1] = u
                BY <2>2, <4>1
            <4>3. ASSUME NEW i \in 1 .. Len(queue'), queue'[i] # NoFile
                  PROVE  Ready(queue[i])'
                <5>1. CASE i \in 1 .. Len(queue)
                    <6>1. Ready(queue[i]) /\ queue'[i] = queue[i]
                        BY <4>2, <4>3, <5>1 DEF QueueTells
                    <6>2. QED
                        BY <1>1, <6>1, ReadyLasts DEF Ready, Begun
                <5>2. CASE i = Len(queue) + 1
                    BY <3>2, <4>2, <5>2 DEF Ready, Begun
                <5>3. QED
                    BY <4>2, <5>1, <5>2
            <4>4. QED
                BY <4>2, <4>3 DEF QueueTells
        <3>4. ShownTells' /\ GetTells'
            BY <1>1, <1>4, ReadyLasts
               DEF ThreadGoesOn, getVars, ShownTells, GetTells, Black, Blank, WholeOf
        <3>5. QED
            BY <3>3, <3>4
    <2>3. QED
        BY <1>4, <2>1, <2>2 DEF ThreadGoesOn
<1>5. ASSUME UNCHANGED vars
      PROVE  /\ \A u : (Ready(u)' <=> Ready(u)) /\ (Alone(u)' <=> Alone(u))
             /\ UNCHANGED displayVars => QueueTells' /\ ShownTells'
             /\ UNCHANGED getVars => GetTells'
    <2>1. \A u : (Ready(u)' <=> Ready(u)) /\ (Alone(u)' <=> Alone(u))
        BY <1>5 DEF vars, threadVars, fileVars, Ready, Alone, Begun
    <2>2. UNCHANGED displayVars => QueueTells' /\ ShownTells'
        BY <2>1 DEF displayVars, QueueTells, ShownTells, Black, Blank, WholeOf
    <2>3. UNCHANGED getVars => GetTells'
        BY <2>1 DEF getVars, GetTells, WholeOf
    <2>4. QED
        BY <2>1, <2>2, <2>3
<1>6. CASE GetLatest \/ NoLatestFile \/ SendListed \/ GetBreaksOff \/ \E s \in Paths : GetListed(s)
    <2>1. UNCHANGED <<vars, displayVars>>
        BY <1>6 DEF GetLatest, NoLatestFile, SendListed, GetBreaksOff, RequestEnds, GetListed
    <2>2. target'.by # "latest"
        BY <1>6 DEF GetLatest, NoLatestFile, SendListed, GetBreaksOff, RequestEnds, GetListed,
                    GetTells, Nothing
    <2>3. QED
        BY <1>5, <2>1, <2>2 DEF GetTells
<1>7. CASE LatestFile
    <2>1. /\ marker \in Uploads /\ saved[path[marker]] # NoFile
          /\ target' = [by |-> "latest", of |-> marker] /\ file' = saved[path[marker]]
          /\ get' = "stat" /\ UNCHANGED <<vars, displayVars>>
        BY <1>7 DEF LatestFile
    <2>2. Ready(marker)
        BY <2>1 DEF StoreInv, IInv, FilesTell, Ends, Ready, Begun
    <2>3. GetTells'
        BY <1>2, <1>5, <2>1, <2>2 DEF GetTells
    <2>4. QED
        BY <1>5, <2>1, <2>3
<1>8. CASE SendHeaders
    <2>1. /\ get = "stat" /\ get' = "read" /\ announced' = Size(file)
          /\ UNCHANGED <<vars, displayVars, target, file>>
        BY <1>8 DEF SendHeaders
    <2>2. target.by = "latest" /\ Alone(target.of) => announced' = Length
        BY <1>2, <2>1, SizeOfWhole DEF GetTells, Ready
    <2>3. GetTells'
        BY <1>5, <2>1, <2>2 DEF GetTells
    <2>4. QED
        BY <1>5, <2>1, <2>3
<1>9. CASE SendBody
    <2>1. /\ get = "read" /\ get' = "served" /\ body' = content[file]
          /\ UNCHANGED <<vars, displayVars, target, file, announced>>
        BY <1>9 DEF SendBody
    <2>2. target.by = "latest" /\ Alone(target.of) => body' = WholeOf(target.of)
        BY <1>2, <2>1 DEF GetTells, Ready
    <2>3. GetTells'
        BY <1>5, <2>1, <2>2 DEF GetTells, WholeOf
    <2>4. QED
        BY <1>5, <2>1, <2>3
<1>10. CASE Plays
    <2>1. /\ queue # << >> /\ Head(queue) # NoFile /\ queue' = Tail(queue)
          /\ shown' = [of |-> Head(queue), content |-> content[saved[path[Head(queue)]]]]
          /\ UNCHANGED <<vars, getVars>>
        BY <1>10 DEF Plays
    <2>2. /\ queue \in Seq(Files) /\ Len(queue) \in Nat \ {0} /\ Head(queue) = queue[1]
          /\ Tail(queue) \in Seq(Files) /\ Len(Tail(queue)) = Len(queue) - 1
          /\ \A i \in 1 .. Len(queue) - 1 : Tail(queue)[i] = queue[i + 1]
        BY <2>1, EmptySeq, HeadTailProperties DEF QueueTells
    <2>3. Ready(Head(queue))
        BY <2>1, <2>2 DEF QueueTells
    <2>4. QueueTells'
        BY <1>5, <2>1, <2>2 DEF QueueTells
    <2>5. ShownTells'
        BY <1>2, <1>5, <2>1, <2>3 DEF ShownTells, Ready, WholeOf
    <2>6. QED
        BY <1>5, <2>1, <2>4, <2>5
<1>11. CASE ClipEnds \/ WindowFails \/ WindowCloses \/ Interrupt
    <2>1. UNCHANGED <<vars, getVars, queue, shown>>
        BY <1>11 DEF ClipEnds, WindowFails, WindowCloses, Interrupt, displayVars
    <2>2. QueueTells' /\ ShownTells'
        BY <1>5, <2>1 DEF QueueTells, ShownTells, Black, Blank, WholeOf
    <2>3. QED
        BY <1>5, <2>1, <2>2
<1>12. CASE ServerCloses
    <2>1. queue' = Append(queue, NoFile) /\ UNCHANGED <<vars, getVars, shown>>
        BY <1>12 DEF ServerCloses
    <2>2. NoFile \in Files /\ queue \in Seq(Files)
        BY DEF QueueTells, Files
    <2>3. /\ queue' \in Seq(Files) /\ Len(queue') = Len(queue) + 1 /\ Len(queue) \in Nat
          /\ \A i \in 1 .. Len(queue) : queue'[i] = queue[i]
          /\ queue'[Len(queue) + 1] = NoFile
        BY <2>1, <2>2
    <2>4. QueueTells'
        BY <1>5, <2>1, <2>3 DEF QueueTells
    <2>5. ShownTells'
        BY <1>5, <2>1 DEF ShownTells, Black, Blank, WholeOf
    <2>6. QED
        BY <1>5, <2>1, <2>4, <2>5
<1> QED
    BY <1>3, <1>4, <1>6, <1>7, <1>8, <1>9, <1>10, <1>11, <1>12
       DEF ViewersNext, SenderGoesOn, ReceiverOther, allVars

-----------------------------------------------------------------------------
(* Theorems *)

LEMMA ViewersStart == ViewersInit => StoreInv /\ ViewInv
<1> SUFFICES ASSUME ViewersInit
             PROVE  StoreInv /\ ViewInv
    OBVIOUS
<1> USE DEF ViewersInit, Init
<1>1. IInv
    BY Starts
<1>2. Renamed /\ Finished
    BY DEF Renamed, Finished, Begun
<1>3. QueueTells
    BY DEF QueueTells
<1>4. ShownTells /\ GetTells
    BY DEF ShownTells, GetTells, Nothing
<1> QED BY <1>1, <1>2, <1>3, <1>4 DEF StoreInv, ViewInv

(* With its viewers the receiver is the receiver: they only look on.       *)
THEOREM ViewersLookOn == ViewersSpec => Spec
<1>1. ViewersInit => Init
    BY DEF ViewersInit
<1>2. [ViewersNext]_allVars => [Next]_vars
    BY ReceiverOrViewers
<1> QED BY <1>1, <1>2, PTL DEF ViewersSpec, Spec

(* Whoever follows /latest is sent a whole video, as long as announced, and *)
(* the window plays whole videos, whatever other uploads come in, fail or   *)
(* end, unless two of one name meet in a second.                            *)
THEOREM WatchedWhole == ViewersSpec => []WatchedIsWhole
<1>1. ViewInv => WatchedIsWhole
    BY DEF ViewInv, ShownTells, GetTells, WatchedIsWhole
<1>2. StoreInv /\ ViewInv /\ [ViewersNext]_allVars => (StoreInv /\ ViewInv)'
    BY ReceiverOrViewers, StoreStep, ViewStep
<1> QED BY ViewersStart, <1>1, <1>2, PTL DEF ViewersSpec

=============================================================================
