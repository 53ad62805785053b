---------------------------- MODULE Dashboard_proofs ---------------------------
(***************************************************************************)
(* The list of the backend's WebSockets, for every set of pages and        *)
(* sockets.                                                                *)
(***************************************************************************)
EXTENDS Dashboard, SequenceTheorems, TLAPS

-----------------------------------------------------------------------------
(* Sequences without repetitions *)

LEMMA AppendNew ==
    ASSUME NEW S, NEW q \in Seq(S), IsInjective(q), NEW e \in S, e \notin Range(q)
    PROVE  /\ Append(q, e) \in Seq(S)
           /\ IsInjective(Append(q, e))
           /\ Range(Append(q, e)) = Range(q) \cup {e}
<1> DEFINE a == Append(q, e)
<1>1. /\ a \in Seq(S) /\ DOMAIN a = 1 .. Len(q) + 1 /\ DOMAIN q = 1 .. Len(q)
      /\ Len(q) \in Nat
      /\ \A i \in 1 .. Len(q) : a[i] = q[i]
      /\ a[Len(q) + 1] = e
    OBVIOUS
<1> HIDE DEF a
<1>2. \A i \in 1 .. Len(q) : q[i] # e
    BY <1>1 DEF Range
<1>3. IsInjective(a)
    BY <1>1, <1>2 DEF IsInjective
<1>4. Range(a) \subseteq Range(q) \cup {e}
    BY <1>1 DEF Range
<1>5. Range(q) \subseteq Range(a) /\ e \in Range(a)
    BY <1>1 DEF Range
<1>6. QED
    BY <1>1, <1>3, <1>4, <1>5 DEF a

(* list.remove takes the first occurrence, here the only one. *)
LEMMA RemoveListed ==
    ASSUME NEW S, NEW q \in Seq(S), IsInjective(q), NEW e \in Range(q)
    PROVE  /\ RemoveFirst(q, e) \in Seq(S)
           /\ IsInjective(RemoveFirst(q, e))
           /\ Range(RemoveFirst(q, e)) = Range(q) \ {e}
<1> DEFINE n == Len(q)
<1>1. PICK k \in 1 .. n : q[k] = e
    BY DEF Range
<1>2. \A i \in 1 .. n : q[i] = e => i = k
    BY <1>1 DEF IsInjective
<1>3. {i \in 1 .. n : q[i] = e} = {k}
    BY <1>1, <1>2
<1>4. Min({k}) = k
    <2>1. k \in {k} /\ \A y \in {k} : k <= y
        BY <1>1
    <2>2. Min({k}) \in {k}
        BY <2>1 DEF Min
    <2>3. QED
        BY <2>2
<1>5. SelectInSeq(q, LAMBDA v : v = e) = k
    BY <1>3, <1>4 DEF SelectInSeq
<1>6. RemoveFirst(q, e) = RemoveAt(q, k)
    BY <1>1, <1>5 DEF RemoveFirst
<1> DEFINE a == RemoveAt(q, k)
<1>7. /\ a \in Seq(S) /\ n \in Nat \ {0} /\ DOMAIN q = 1 .. n
      /\ DOMAIN a = 1 .. n - 1
      /\ \A i \in 1 .. n - 1 : a[i] = IF i < k THEN q[i] ELSE q[i + 1]
    <2> DEFINE b == SubSeq(q, 1, k - 1)
               c == SubSeq(q, k + 1, n)
    <2>1. n \in Nat \ {0} /\ DOMAIN q = 1 .. n
        BY <1>1
    <2>2. b \in Seq(S) /\ Len(b) = k - 1 /\ \A i \in 1 .. k - 1 : b[i] = q[i]
        BY <1>1, <2>1
    <2>3. c \in Seq(S) /\ Len(c) = n - k /\ \A i \in 1 .. n - k : c[i] = q[k + i]
        <3> HIDE DEF n
        <3>1. k + 1 \in Int /\ n \in Int /\ \A i \in k + 1 .. n : q[i] \in S
            BY <1>1, <2>1
        <3>2. /\ c \in Seq(S)
              /\ Len(c) = IF k + 1 <= n THEN n - (k + 1) + 1 ELSE 0
              /\ \A i \in 1 .. n - (k + 1) + 1 : c[i] = q[(k + 1) + i - 1]
            BY <3>1, SubSeqProperties
        <3> HIDE DEF c
        <3>3. \A i \in Int : (k + 1) + i - 1 = k + i /\ n - (k + 1) + 1 = n - k
            BY <1>1, <2>1
        <3>4. QED
            BY <1>1, <2>1, <3>2, <3>3
    <2>4. a = b \o c
        BY DEF RemoveAt
    <2> HIDE DEF a, b, c, n
    <2>4a. /\ a \in Seq(S) /\ Len(a) = Len(b) + Len(c)
           /\ \A i \in 1 .. Len(b) + Len(c) : a[i] = IF i <= Len(b) THEN b[i] ELSE c[i - Len(b)]
        BY <2>2, <2>3, <2>4, ConcatProperties
    <2>5. a \in Seq(S) /\ Len(a) = n - 1 /\ DOMAIN a = 1 .. n - 1
        BY <1>1, <2>1, <2>2, <2>3, <2>4a
    <2>6. ASSUME NEW i \in 1 .. n - 1
          PROVE  a[i] = IF i < k THEN q[i] ELSE q[i + 1]
        <3>1. CASE i < k
            BY <1>1, <2>1, <2>2, <2>3, <2>4a, <3>1
        <3>2. CASE i >= k
            <4>1. a[i] = c[i - (k - 1)] /\ i - (k - 1) \in 1 .. n - k
                BY <1>1, <2>1, <2>2, <2>3, <2>4a, <3>2
            <4>2. c[i - (k - 1)] = q[k + (i - (k - 1))]
                BY <2>3, <4>1
            <4>3. k + (i - (k - 1)) = i + 1
                BY <1>1, <2>1
            <4>4. QED
                BY <1>1, <2>1, <3>2, <4>1, <4>2, <4>3
        <3>3. QED
            BY <1>1, <2>1, <3>1, <3>2
    <2>7. QED
        BY <2>1, <2>5, <2>6
<1> HIDE DEF a, n
<1>8. IsInjective(a)
    <2> DEFINE from(i) == IF i < k THEN i ELSE i + 1
    <2>1. \A i \in 1 .. n - 1 : from(i) \in 1 .. n /\ a[i] = q[from(i)]
        BY <1>1, <1>7
    <2>2. \A i, j \in 1 .. n - 1 : from(i) = from(j) => i = j
        BY <1>1, <1>7
    <2> HIDE DEF from
    <2>3. QED
        BY <1>7, <2>1, <2>2 DEF IsInjective
<1>9. ASSUME NEW x \in Range(a)
      PROVE  x \in Range(q) \ {e}
    <2>1. PICK i \in 1 .. n - 1 : x = a[i]
        BY <1>7 DEF Range
    <2>2. PICK j \in 1 .. n : j # k /\ x = q[j]
        BY <1>1, <1>7, <2>1
    <2>3. QED
        BY <1>2, <1>7, <2>2 DEF Range
<1>10. ASSUME NEW x \in Range(q) \ {e}
       PROVE  x \in Range(a)
    <2>1. PICK j \in 1 .. n : x = q[j] /\ j # k
        BY <1>1, <1>7 DEF Range
    <2>2. CASE j < k
        <3>1. j \in 1 .. n - 1 /\ a[j] = x
            BY <1>1, <1>7, <2>1, <2>2
        <3>2. QED
            BY <1>7, <3>1 DEF Range
    <2>3. CASE j > k
        <3>1. j - 1 \in 1 .. n - 1 /\ a[j - 1] = x
            BY <1>1, <1>7, <2>1, <2>3
        <3>2. QED
            BY <1>7, <3>1 DEF Range
    <2>4. QED
        BY <1>1, <2>1, <2>2, <2>3
<1>11. QED
    BY <1>6, <1>7, <1>8, <1>9, <1>10 DEF a

-----------------------------------------------------------------------------
(* The list *)

(* ... which are those whose handler has not returned, or not as it should *)
Listing == {s \in Sockets : pc[s] # "off"}

ListInv ==
    /\ active \in Seq(Sockets)
    /\ pc = [t \in Tasks |-> pc[t]]
    /\ IsInjective(active) /\ Range(active) = Listing

LEMMA ListInit == Init => ListInv
<1> SUFFICES ASSUME Init PROVE ListInv
    OBVIOUS
<1>1. active = << >> /\ \A s \in Sockets : pc[s] = "off"
    BY DashboardAssumption DEF Init, Tasks
<1>2. pc = [t \in Tasks |-> pc[t]]
    BY DEF Init
<1>3. active \in Seq(Sockets) /\ IsInjective(active) /\ Range(active) = {}
    BY <1>1 DEF IsInjective, Range
<1>4. QED
    BY <1>1, <1>2, <1>3 DEF ListInv, Listing

(* The step of a task that is at work and stays so *)
Works(t) ==
    /\ t \in Tasks /\ (t = Poller \/ pc[t] # "off")
    /\ active' = active
    /\ \E c : c # "off" /\ pc' = [pc EXCEPT ![t] = c]

LEMMA WorkKeepsList ==
    ASSUME ListInv, NEW t, Works(t)
    PROVE  ListInv'
<1>1. PICK c : c # "off" /\ pc' = [pc EXCEPT ![t] = c]
    BY DEF Works
<1>2. pc' = [u \in Tasks |-> pc'[u]]
    BY <1>1 DEF ListInv
<1>3. \A s \in Sockets : pc'[s] # "off" <=> pc[s] # "off"
    BY <1>1, DashboardAssumption DEF Works, ListInv, Tasks
<1>4. QED
    BY <1>2, <1>3 DEF ListInv, Listing, Works

LEMMA ReturnsWork ==
    ASSUME NEW t \in Tasks, NEW r, Returns(t, r)
    PROVE  Works(t)
BY DashboardAssumption DEF Returns, PollerReturns, HandlerReturns, Works, Goto, Writes, broadcastVars

LEMMA ListStep ==
    ASSUME ListInv, [Next]_vars
    PROVE  ListInv'
<1>1. ASSUME UNCHANGED <<active, pc>>
      PROVE  ListInv'
    BY <1>1 DEF ListInv, Listing
<1>2. ASSUME NEW t \in Tasks,
             CallStep(t) \/ Rejected(t) \/ AnswerLost(t)
      PROVE  ListInv'
    <2>1. CASE ConnectSucceeds(t)
        BY <1>1, <2>1 DEF ConnectSucceeds, broadcastVars
    <2>2. CASE ConnectFails(t) \/ Succeeds(t) \/ Raises(t) \/ Rejected(t) \/ AnswerLost(t)
        <3>1. \E r : Returns(t, r)
            BY <2>2 DEF ConnectFails, Succeeds, Raises, Rejected, AnswerLost
        <3>2. QED
            BY <3>1, ReturnsWork, WorkKeepsList
    <2>3. QED
        BY <1>2, <2>1, <2>2 DEF CallStep
<1>3. ASSUME NEW t \in Tasks, SendStep(t)
      PROVE  ListInv'
    <2>1. CASE SendNext(t)
        BY <1>1, <2>1 DEF SendNext, taskVars
    <2>2. CASE SendDone(t)
        <3>1. Works(t)
            BY <2>2, DashboardAssumption DEF SendDone, Works, Goto
        <3>2. QED
            BY <3>1, WorkKeepsList
    <2>3. QED
        BY <1>3, <2>1, <2>2 DEF SendStep
<1>4. CASE Wake
    <2>1. Works(Poller)
        BY <1>4 DEF Wake, Works, Goto, Tasks, broadcastVars
    <2>2. QED
        BY <2>1, WorkKeepsList
<1>5. ASSUME NEW s \in Sockets, Disconnect(s)
      PROVE  ListInv'
    <2>1. /\ pc[s] = "receive" /\ active' = RemoveFirst(active, s)
          /\ pc' = [pc EXCEPT ![s] = "off"]
        BY <1>5 DEF Disconnect, Goto
    <2>2. s \in Range(active)
        BY <2>1 DEF ListInv, Listing
    <2>3. /\ active' \in Seq(Sockets) /\ IsInjective(active')
          /\ Range(active') = Range(active) \ {s}
        BY <2>1, <2>2, RemoveListed DEF ListInv, Listing
    <2>4. pc' = [u \in Tasks |-> pc'[u]] /\ \A u \in Sockets : pc'[u] = IF u = s THEN "off" ELSE pc[u]
        BY <2>1 DEF ListInv, Tasks
    <2>5. QED
        BY <2>3, <2>4 DEF ListInv, Listing
<1>6. ASSUME NEW p \in Pages, NEW s \in Sockets, Open(p, s)
      PROVE  ListInv'
    <2>1. /\ pc[s] = "off" /\ active' = Append(active, s)
          /\ pc' = [pc EXCEPT ![s] = "receive"]
        BY <1>6 DEF Open, Goto
    <2>2. s \notin Range(active)
        BY <2>1 DEF ListInv, Listing
    <2>3. /\ active' \in Seq(Sockets) /\ IsInjective(active')
          /\ Range(active') = Range(active) \cup {s}
        BY <2>1, <2>2, AppendNew DEF ListInv, Listing
    <2>4. pc' = [u \in Tasks |-> pc'[u]] /\ \A u \in Sockets : pc'[u] = IF u = s THEN "receive" ELSE pc[u]
        BY <2>1 DEF ListInv, Tasks
    <2>5. QED
        BY <2>3, <2>4 DEF ListInv, Listing
<1>7. ASSUME NEW s \in Sockets, NEW a \in Writes, Press(s, a)
      PROVE  ListInv'
    <2>1. Works(s)
        BY <1>7, DashboardAssumption DEF Press, Works, Goto, Tasks, Writes, broadcastVars
    <2>2. QED
        BY <2>1, WorkKeepsList
<1>8. CASE BackendRestarts
    <2>1. active' = << >> /\ pc' = [t \in Tasks |-> IF t = Poller THEN "read_status" ELSE "off"]
        BY <1>8 DEF BackendRestarts, Starts
    <2>2. pc' = [t \in Tasks |-> pc'[t]] /\ \A s \in Sockets : pc'[s] = "off"
        BY <2>1, DashboardAssumption DEF Tasks
    <2>3. active' \in Seq(Sockets) /\ IsInjective(active') /\ Range(active') = {}
        BY <2>1 DEF IsInjective, Range
    <2>4. QED
        BY <2>2, <2>3 DEF ListInv, Listing
<1>9. CASE ServerStops \/ LinkBreaks \/ ConveyorReports \/ ServerStarts \/ LinkReturns
    BY <1>1, <1>9 DEF ServerStops, LinkBreaks, ConveyorReports, ServerStarts, LinkReturns,
                      taskVars, broadcastVars
<1>10. ASSUME NEW p \in Pages, Close(p) \/ ToggleEStop(p)
       PROVE  ListInv'
    BY <1>1, <1>10 DEF Close, ToggleEStop, taskVars, broadcastVars
<1>11. ASSUME NEW s \in Sockets, HandlerRaises(s)
       PROVE  ListInv'
    <2>1. Works(s)
        BY <1>11, DashboardAssumption DEF HandlerRaises, Works, Goto, Tasks, broadcastVars
    <2>2. QED
        BY <2>1, WorkKeepsList
<1>12. CASE PollerStep
    BY <1>2, <1>3, <1>4, <1>12 DEF PollerStep, Tasks
<1>13. ASSUME NEW s \in Sockets, HandlerStep(s)
       PROVE  ListInv'
    BY <1>2, <1>3, <1>5, <1>13 DEF HandlerStep, Tasks
<1>14. CASE UNCHANGED vars
    BY <1>1, <1>14 DEF vars, taskVars, broadcastVars
<1>15. QED
    BY <1>2, <1>6, <1>7, <1>8, <1>9, <1>10, <1>11, <1>12, <1>13, <1>14
       DEF Next, Disturbance, Presses, PageOpens

(* Dashboard: however many pages come and go, and whatever the poller and  *)
(* the handlers await meanwhile, the list of the backend is the sockets it *)
(* serves and those a handler that raised has left there, each once.       *)
THEOREM Listed == Spec => []ListedWhileServed
<1>1. ListInv => ListedWhileServed
    BY DEF ListInv, Listing, ListedWhileServed, Served, Raised
<1>2. QED
    BY ListInit, ListStep, <1>1, PTL DEF Spec

=============================================================================
