--------------------------- MODULE SendQueueProofs ---------------------------
(***************************************************************************)
(* Proofs about SendQueue, for all values of its constants: the list       *)
(* operators, the type invariant, the agreement of the list with its       *)
(* index, what has happened to the packets so far, that the whole          *)
(* implements Outbox; then, counting packets, the wake-up of the tasks and *)
(* their throttle.                                                         *)
(***************************************************************************)
EXTENDS SendQueue, TLAPS, WellFoundedInduction

(***************************************************************************)
(* Facts about the list operators.                                         *)
(***************************************************************************)
\* Least returns the least element of a non-empty set of naturals.
LEMMA LeastIsMember ==
    ASSUME NEW S \in SUBSET Nat, S # {}
    PROVE  Least(S) \in S /\ \A j \in S : Least(S) <= j
<1>1. IsWellFoundedOn(OpToRel(<, Nat), Nat)
  BY NatLessThanWellFounded, Zenon
<1>2. PICK i \in S : \A j \in S : ~(<<j, i>> \in OpToRel(<, Nat))
  BY <1>1, WFMin, Zenon
<1>3. ASSUME NEW j \in S, j < i PROVE FALSE
  <2>1. <<j, i>> \in OpToRel(<, Nat)
    BY <1>3 DEF OpToRel
  <2>. QED
    BY <1>2, <2>1, Zenon
<1>4. \A j \in S : i <= j
  BY <1>3
<1>. QED
  BY <1>4, Zenon DEF Least

\* li->next is 0 or a later item of the list.
LEMMA FollowingIsLater ==
    ASSUME NEW l, NEW n \in Nat, IsList(l, n), NEW i \in Nat
    PROVE  \/ Following(l, i) = 0
           \/ Following(l, i) \in DOMAIN l /\ Following(l, i) > i
<1>. DEFINE after == {j \in DOMAIN l : j > i}
<1>1. after \in SUBSET Nat
  BY DEF IsList
<1>2. CASE after = {}
  BY <1>2 DEF Following
<1>3. CASE after # {}
  <2>1. Least(after) \in after
    BY <1>1, <1>3, LeastIsMember
  <2>2. Following(l, i) = Least(after)
    BY <1>3 DEF Following
  <2>. QED
    BY <2>1, <2>2
<1>. QED
  BY <1>2, <1>3

\* The head of a list is 0 or one of its items.
LEMMA FirstIsItem ==
    ASSUME NEW l, NEW n \in Nat, IsList(l, n)
    PROVE  First(l) = 0 \/ First(l) \in DOMAIN l
<1>1. DOMAIN l \in SUBSET Nat
  BY DEF IsList
<1>. QED
  BY <1>1, LeastIsMember, Zenon DEF First

(***************************************************************************)
(* Type correctness.                                                       *)
(***************************************************************************)
\* Submitting n packets extends list and index by well-typed entries.
LEMMA SubmittedTypes ==
    ASSUME lastId \in Nat, pidx \in Nat,
           NEW n \in Nat, NEW t \in Nat,
           NEW q, IsList(q, lastId), NEW x, IsIndex(x, lastId)
    PROVE  /\ IsList(Submitted(q, n, t), lastId + n)
           /\ IsIndex(Indexed(x, n, t), lastId + n)
           /\ DOMAIN Submitted(q, n, t) = DOMAIN q \cup (lastId + 1 .. lastId + n)
<1>. DEFINE Q == Submitted(q, n, t)
            X == Indexed(x, n, t)
<1>1. DOMAIN Q = DOMAIN q \cup (lastId + 1 .. lastId + n)
  BY DEF Submitted
<1>2. ASSUME NEW i \in DOMAIN Q PROVE Q[i] \in Items
  <2>1. CASE i \in DOMAIN q
    BY <2>1, <1>1 DEF Submitted, IsList
  <2>2. CASE i \notin DOMAIN q
    <3>1. i \in lastId + 1 .. lastId + n
      BY <2>2, <1>1
    <3>2. Q[i] = [key |-> <<pidx + (i - lastId - 1), t>>, attempt |-> 0]
      BY <2>2, <1>1 DEF Submitted
    <3>3. pidx + (i - lastId - 1) \in Nat
      BY <3>1
    <3>. QED
      BY <3>2, <3>3 DEF Items, Keys
  <2>. QED
    BY <2>1, <2>2
<1>3. IsList(Q, lastId + n)
  <2>1. DOMAIN Q \subseteq 1 .. lastId + n
    BY <1>1 DEF IsList
  <2>2. Q = [i \in DOMAIN Q |-> Q[i]]
    BY DEF Submitted
  <2>. QED
    BY <2>1, <2>2, <1>2 DEF IsList
<1>4. IsIndex(X, lastId + n)
  <2>1. NewKeys(n, t) \subseteq Keys
    BY DEF NewKeys, Keys
  <2>2. DOMAIN X = DOMAIN x \cup NewKeys(n, t)
    BY DEF Indexed
  <2>3. ASSUME NEW k \in DOMAIN X PROVE X[k] \in 1 .. lastId + n
    <3>1. CASE k \in NewKeys(n, t)
      <4>1. PICK p \in pidx .. pidx + n - 1 : k = <<p, t>>
        BY <3>1 DEF NewKeys
      <4>2. X[k] = lastId + 1 + (p - pidx)
        BY <3>1, <4>1, <2>2 DEF Indexed
      <4>. QED
        BY <4>2
    <3>2. CASE k \notin NewKeys(n, t)
      <4>1. X[k] = x[k] /\ k \in DOMAIN x
        BY <3>2, <2>2 DEF Indexed
      <4>. QED
        BY <4>1 DEF IsIndex
    <3>. QED
      BY <3>1, <3>2
  <2>4. X = [k \in DOMAIN X |-> X[k]]
    BY DEF Indexed
  <2>. QED
    BY <2>1, <2>2, <2>3, <2>4 DEF IsIndex
<1>. QED
  BY <1>1, <1>3, <1>4

\* The next part of a waiting task is not empty, and fits.
LEMMA ChunkTypes ==
    ASSUME NEW ts, NEW n \in Nat, AreTasks(ts, n), NEW t \in DOMAIN ts
    PROVE  /\ Chunk(ts, t) \in Nat \ {0} /\ Chunk(ts, t) <= PartPackets
           /\ t \in Nat
           /\ ~LastPart(ts, t) => ts[t].off + PartPackets < FilePackets[ts[t].file]
<1>1. ts[t].file \in Files /\ ts[t].off \in Nat /\ ts[t].off < FilePackets[ts[t].file]
  BY DEF AreTasks
<1>2. FilePackets[ts[t].file] \in Nat
  BY <1>1, FileAssumption
<1>3. t \in Nat
  BY DEF AreTasks
<1>. QED
  BY <1>1, <1>2, <1>3, ConfigAssumption DEF Chunk, Left, LastPart

\* Removing keys keeps the types.
LEMMA WithoutTypes ==
    ASSUME NEW n \in Nat, NEW S
    PROVE  /\ \A l : IsList(l, n) => IsList(Without(l, S), n)
           /\ \A x : IsIndex(x, n) => IsIndex(Without(x, S), n)
           /\ \A ts : AreTasks(ts, n) => AreTasks(Without(ts, S), n)
<1>1. ASSUME NEW l, IsList(l, n) PROVE IsList(Without(l, S), n)
  BY <1>1 DEF IsList, Without
<1>2. ASSUME NEW x, IsIndex(x, n) PROVE IsIndex(Without(x, S), n)
  BY <1>2 DEF IsIndex, Without
<1>3. ASSUME NEW ts, AreTasks(ts, n) PROVE AreTasks(Without(ts, S), n)
  BY <1>3 DEF AreTasks, Without
<1>. QED
  BY <1>1, <1>2, <1>3

\* task.update keeps the types, whatever list, index and tasks it is called with.
LEMMA TaskUpdateTypes ==
    ASSUME lastId \in Nat, pidx \in Nat, past \subseteq Events,
           NEW n \in Nat, NEW q, IsList(q, lastId), NEW x, IsIndex(x, lastId),
           NEW ts, AreTasks(ts, n), NEW fs \in SUBSET Files,
           NEW drop, NEW ok \in BOOLEAN,
           TaskUpdate(q, x, ts, fs, drop, ok)
    PROVE  /\ lastId' \in Nat /\ lastId <= lastId' /\ pidx' \in Nat
           /\ IsList(nbl', lastId') /\ IsIndex(index', lastId')
           /\ AreTasks(tasks', n) /\ files' \subseteq Files
           /\ past' \subseteq Events /\ past \subseteq past'
           /\ DOMAIN q \subseteq DOMAIN nbl'
           /\ ~ok => "readfail" \in past'
<1>1. CASE ~UpdateReady(q, ts)
  <2>1. /\ ok /\ nbl' = q /\ index' = Without(x, drop) /\ tasks' = ts /\ files' = fs
        /\ lastId' = lastId /\ pidx' = pidx /\ past' = past
    BY <1>1 DEF TaskUpdate, Unindexed
  <2>. QED
    BY <2>1, WithoutTypes
<1>2. CASE UpdateReady(q, ts)
  <2>. DEFINE t == Least(DOMAIN ts)
              c == Chunk(ts, t)
  <2>1. t \in DOMAIN ts
    BY <1>2, LeastIsMember DEF UpdateReady, AreTasks
  <2>2. c \in Nat \ {0} /\ t \in Nat
        /\ (~LastPart(ts, t) => ts[t].off + PartPackets < FilePackets[ts[t].file])
    BY <2>1, ChunkTypes
  <2>3. CASE ~ok
    <3>1. ResumeFails(t, q, x, ts, fs)
      BY <1>2, <2>3, Zenon DEF TaskUpdate
    <3>. QED
      BY <3>1, <2>3 DEF ResumeFails, Events
  <2>4. CASE ok
    <3>1. Resume(t, q, x, ts, fs, drop)
      BY <1>2, <2>4 DEF TaskUpdate
    <3>2. /\ nbl' = Submitted(q, c, t) /\ lastId' = lastId + c /\ pidx' = pidx + c
          /\ index' = Without(Indexed(x, c, t), drop)
          /\ past' = past \cup Clash(x, NewKeys(c, t))
      BY <3>1, Zenon DEF Resume, Unindexed
    <3>3. IsList(nbl', lastId') /\ IsIndex(index', lastId') /\ DOMAIN q \subseteq DOMAIN nbl'
      <4>1. /\ IsList(Submitted(q, c, t), lastId + c)
            /\ IsIndex(Indexed(x, c, t), lastId + c)
            /\ DOMAIN Submitted(q, c, t) = DOMAIN q \cup (lastId + 1 .. lastId + c)
        BY <2>2, SubmittedTypes, Zenon
      <4>. QED
        BY <3>2, <4>1, <2>2, WithoutTypes
    <3>4. AreTasks(tasks', n) /\ files' \subseteq Files
      <4>1. CASE LastPart(ts, t)
        BY <4>1, <3>1, WithoutTypes DEF Resume
      <4>2. CASE ~LastPart(ts, t)
        <5>1. tasks' = [ts EXCEPT ![t].off = @ + PartPackets] /\ files' = fs
          BY <4>2, <3>1 DEF Resume
        <5>2. ts[t].off + PartPackets < FilePackets[ts[t].file]
          BY <4>2, <2>2
        <5>. QED
          BY <5>1, <5>2, <2>1, ConfigAssumption DEF AreTasks
      <4>. QED
        BY <4>1, <4>2
    <3>5. past' \subseteq Events
      BY <3>2 DEF Clash, Events
    <3>. QED
      BY <3>2, <3>3, <3>4, <3>5, <2>2, <2>4
  <2>. QED
    BY <2>3, <2>4
<1>. QED
  BY <1>1, <1>2

\* net.ack keeps the types; the item it may remove is the indexed one.
LEMMA AckTypes ==
    ASSUME TypeOK, NEW q, IsList(q, lastId), NEW k, NEW saved, NEW ok \in BOOLEAN,
           Ack(q, k, saved, ok)
    PROVE  /\ lastId' \in Nat /\ lastId <= lastId' /\ pidx' \in Nat
           /\ IsList(nbl', lastId') /\ IsIndex(index', lastId')
           /\ AreTasks(tasks', tidx) /\ files' \subseteq Files
           /\ past' \subseteq Events /\ past \subseteq past'
           /\ wrecked' \in BOOLEAN
           /\ (~wrecked' /\ saved \in DOMAIN q) => saved \in DOMAIN nbl'
           /\ ~ok => "readfail" \in past'
           /\ \A i \in DOMAIN q \ DOMAIN nbl' : k \in DOMAIN index /\ i = index[k]
<1>1. CASE k \notin DOMAIN index
  BY <1>1 DEF Ack, TypeOK, taskVars
<1>2. CASE k \in DOMAIN index /\ index[k] \notin DOMAIN q
  BY <1>2 DEF Ack, TypeOK, taskVars
<1>3. CASE k \in DOMAIN index /\ index[k] \in DOMAIN q
  <2>. DEFINE r == Without(q, {index[k]})
  <2>1. TaskUpdate(r, index, tasks, files, {k}, ok) /\ wrecked' = (index[k] = saved)
    BY <1>3 DEF Ack
  <2>2. IsList(r, lastId)
    BY WithoutTypes DEF TypeOK
  <2>3. /\ lastId' \in Nat /\ lastId <= lastId' /\ pidx' \in Nat
        /\ IsList(nbl', lastId') /\ IsIndex(index', lastId')
        /\ AreTasks(tasks', tidx) /\ files' \subseteq Files
        /\ past' \subseteq Events /\ past \subseteq past'
        /\ DOMAIN r \subseteq DOMAIN nbl'
        /\ ~ok => "readfail" \in past'
    <3>1. /\ lastId \in Nat /\ pidx \in Nat /\ tidx \in Nat /\ past \subseteq Events
          /\ IsIndex(index, lastId) /\ AreTasks(tasks, tidx) /\ files \in SUBSET Files
      BY DEF TypeOK
    <3>. HIDE DEF r
    <3>. QED
      BY <3>1, <2>1, <2>2, TaskUpdateTypes, SMTT(40)
  <2>4. DOMAIN r = DOMAIN q \ {index[k]}
    BY DEF Without
  <2>. QED
    BY <1>3, <2>1, <2>3, <2>4, Zenon
<1>. QED
  BY <1>1, <1>2, <1>3, Zenon

\* net.ack for key k has freed item i of list q.
AckFreed(q, k, i) ==
    /\ TypeOK /\ IsList(q, lastId)
    /\ \E saved : \E ok \in BOOLEAN : Ack(q, k, saved, ok)
    /\ i \in DOMAIN q /\ i \notin DOMAIN nbl'

\* net.ack takes nothing out of the list but the item of its key.
LEMMA AckFrees ==
    ASSUME NEW q, NEW k, NEW i, AckFreed(q, k, i)
    PROVE  k \in DOMAIN index /\ i = index[k]
<1>1. PICK saved : \E ok \in BOOLEAN : Ack(q, k, saved, ok)
  BY Zenon DEF AckFreed
<1>2. PICK ok \in BOOLEAN : Ack(q, k, saved, ok)
  BY <1>1, Zenon
<1>3. TypeOK /\ IsList(q, lastId) /\ i \in DOMAIN q /\ i \notin DOMAIN nbl'
  BY Zenon DEF AckFreed
<1>. QED
  BY <1>2, <1>3, AckTypes

\* The item that list.map or list.clean visits next is still in the list.
CursorOK ==
    /\ pass = "nbl" /\ cursor # 0 /\ ~wrecked => cursor \in DOMAIN nbl
    /\ pass \in {"instant", "purge"} /\ cursor # 0 /\ ~wrecked => cursor \in DOMAIN instant

TypeInv == TypeOK /\ CursorOK

\* The type invariant holds at the start.
LEMMA InitTypeInv == Init => TypeInv
<1>. SUFFICES ASSUME Init PROVE TypeInv
  OBVIOUS
<1>1. IsList(Empty, 0) /\ IsIndex(Empty, 0) /\ AreTasks(Empty, 0)
  BY DEF IsList, IsIndex, AreTasks, Empty
<1>2. /\ IsList(nbl, lastId) /\ IsList(instant, lastId) /\ IsIndex(index, lastId)
      /\ AreTasks(tasks, tidx)
  BY <1>1, Zenon DEF Init
<1>3. /\ timer \in BOOLEAN /\ write \in BOOLEAN /\ writeInst \in BOOLEAN
      /\ reading \in BOOLEAN /\ sentOld \in BOOLEAN /\ rcvdOld \in BOOLEAN
      /\ stale \in BOOLEAN /\ wrecked \in BOOLEAN
  BY Zenon DEF Init
<1>4. /\ lastId = 0 /\ pidx = 0 /\ tidx = 0 /\ files = ShareFiles
      /\ pass = "idle" /\ cursor = 0 /\ sent = 0 /\ rcvd = 0 /\ onwire = {} /\ past = {}
      /\ used = [direct |-> 0, instant |-> 0, relay |-> 0]
  BY Zenon DEF Init
<1>. QED
  BY <1>2, <1>3, <1>4 DEF TypeInv, TypeOK, CursorOK, Files

\* What TypeInv needs of the list that is walked.
LEMMA BumpedTypes ==
    ASSUME cursor \in Nat, NEW l, NEW n \in Nat, IsList(l, n)
    PROVE  IsList(Bumped(l), n) /\ DOMAIN Bumped(l) = DOMAIN l
<1>. DEFINE b == Bumped(l)
<1>1. DOMAIN b = DOMAIN l
  BY DEF Bumped
<1>2. ASSUME NEW i \in DOMAIN l PROVE b[i] \in Items
  <2>1. l[i] \in Items
    BY DEF IsList
  <2>2. CASE i # cursor
    BY <2>1, <2>2 DEF Bumped
  <2>3. CASE i = cursor
    <3>1. b[i].key = l[i].key /\ b[i].attempt \in Nat
          /\ b[i] = [l[i] EXCEPT !.attempt = IF @ > SendRetry THEN @ ELSE @ + 1]
      BY <2>1, <2>3, ConfigAssumption DEF Bumped, Items
    <3>. QED
      BY <2>1, <3>1 DEF Items
  <2>. QED
    BY <2>2, <2>3
<1>3. b = [i \in DOMAIN l |-> b[i]]
  BY DEF Bumped
<1>. QED
  BY <1>1, <1>2, <1>3 DEF IsList

\* A list or index stays well typed as ids are allocated.
LEMMA TypesGrow ==
    ASSUME NEW m \in Nat, NEW n \in Nat, m <= n
    PROVE  /\ \A l : IsList(l, m) => IsList(l, n)
           /\ \A x : IsIndex(x, m) => IsIndex(x, n)
           /\ \A ts : AreTasks(ts, m) => AreTasks(ts, n)
<1>1. ASSUME NEW l, IsList(l, m) PROVE IsList(l, n)
  BY <1>1 DEF IsList
<1>2. ASSUME NEW x, IsIndex(x, m) PROVE IsIndex(x, n)
  <2>1. \A k \in DOMAIN x : x[k] \in 1 .. n
    BY <1>2 DEF IsIndex
  <2>. QED
    BY <1>2, <2>1 DEF IsIndex
<1>3. ASSUME NEW ts, AreTasks(ts, m) PROVE AreTasks(ts, n)
  BY <1>3 DEF AreTasks
<1>. QED
  BY <1>1, <1>2, <1>3

\* task.update as the clean-up of a one-shot packet calls it.
LEMMA UpdateTypes ==
    ASSUME TypeOK, NEW ok \in BOOLEAN, TaskUpdate(nbl, index, tasks, files, {}, ok)
    PROVE  /\ lastId' \in Nat /\ lastId <= lastId' /\ pidx' \in Nat
           /\ IsList(nbl', lastId') /\ IsIndex(index', lastId')
           /\ AreTasks(tasks', tidx) /\ files' \subseteq Files
           /\ past' \subseteq Events /\ past \subseteq past'
           /\ DOMAIN nbl \subseteq DOMAIN nbl'
           /\ ~ok => "readfail" \in past'
<1>. DEFINE none == {}
<1>1. /\ lastId \in Nat /\ pidx \in Nat /\ tidx \in Nat /\ past \subseteq Events
      /\ IsList(nbl, lastId) /\ IsIndex(index, lastId)
      /\ AreTasks(tasks, tidx) /\ files \in SUBSET Files
      /\ TaskUpdate(nbl, index, tasks, files, none, ok)
  BY DEF TypeOK
<1>. HIDE DEF none
<1>. QED
  BY <1>1, TaskUpdateTypes, Zenon

\* net.receive and the accounting of a packet sent keep the counters' types.
LEMMA ReceiveTypes ==
    ASSUME TypeOK, Receive
    PROVE  /\ reading' \in BOOLEAN /\ rcvdOld' \in BOOLEAN /\ stale' \in BOOLEAN
           /\ rcvd' \in Nat /\ sent' = sent /\ sentOld' = sentOld
<1>. DEFINE base == IF rcvdOld THEN 0 ELSE rcvd
            over == Over(base, DownloadLimit)
            full == base >= DownloadLimit
<1>1. reading' \in BOOLEAN /\ rcvdOld' \in BOOLEAN /\ stale' \in BOOLEAN
  <2>1. reading' = ~over /\ rcvdOld' = FALSE /\ stale' = full
    BY DEF Receive
  <2>2. (~over) \in BOOLEAN /\ full \in BOOLEAN
    OBVIOUS
  <2>. HIDE DEF over, full
  <2>. QED
    BY <2>1, <2>2, Zenon
<1>2. rcvd' \in Nat
  BY DEF Receive, TypeOK
<1>3. sent' = sent /\ sentOld' = sentOld
  BY DEF Receive
<1>. QED
  BY <1>1, <1>2, <1>3

\* traffic.update keeps the counter of sent packets a natural number.
LEMMA CountSendTypes ==
    ASSUME TypeOK, CountSend
    PROVE  sent' \in Nat /\ sentOld' \in BOOLEAN
<1>1. sent' \in Nat
  BY DEF CountSend, TypeOK
<1>2. sentOld' \in BOOLEAN
  BY Zenon DEF CountSend
<1>. QED
  BY <1>1, <1>2

\* The task that task.add creates is one of the tasks.
LEMMA TaskAdded ==
    ASSUME tidx \in Nat, AreTasks(tasks, tidx), NEW f \in Files, NEW h \in Hosts
    PROVE  /\ AreTasks([t \in DOMAIN tasks \cup {tidx + 1} |->
                           IF t \in DOMAIN tasks THEN tasks[t]
                           ELSE [file |-> f, host |-> h, off |-> 0]], tidx + 1)
           /\ tidx + 1 \in Nat
<1>. DEFINE created == [file |-> f, host |-> h, off |-> 0]
            ts == [t \in DOMAIN tasks \cup {tidx + 1} |->
                      IF t \in DOMAIN tasks THEN tasks[t] ELSE created]
<1>1. FilePackets[f] \in Nat \ {0}
  BY FileAssumption
<1>2. created \in [file: Files, host: Hosts, off: Nat] /\ created.off < FilePackets[created.file]
  BY <1>1
<1>. HIDE DEF created
<1>3. DOMAIN ts = DOMAIN tasks \cup {tidx + 1}
  BY Zenon
<1>4. DOMAIN ts \subseteq 1 .. tidx + 1 /\ tidx + 1 \in Nat
  BY <1>3 DEF AreTasks
<1>5. ASSUME NEW t \in DOMAIN ts
      PROVE  /\ ts[t] \in [file: Files, host: Hosts, off: Nat]
             /\ ts[t].off < FilePackets[ts[t].file]
  <2>1. CASE t \in DOMAIN tasks
    BY <1>3, <2>1, Zenon DEF AreTasks
  <2>2. CASE t \notin DOMAIN tasks
    BY <1>2, <1>3, <2>2, Zenon
  <2>. QED
    BY <2>1, <2>2, Zenon
<1>6. ts \in [DOMAIN ts -> [file: Files, host: Hosts, off: Nat]]
  BY <1>3, <1>5, Zenon
<1>7. AreTasks(ts, tidx + 1)
  BY <1>4, <1>5, <1>6, Zenon DEF AreTasks
<1>. QED
  BY <1>4, <1>7 DEF created

\* A one-shot packet is added to the list as an item.
LEMMA OneShotType ==
    ASSUME lastId \in Nat, pidx \in Nat, IsList(instant, lastId)
    PROVE  IsList(OneShot(lastId + 1), lastId + 1)
<1>1. [key |-> <<pidx, 0>>, attempt |-> 0] \in Items
  BY DEF Items, Keys
<1>. QED
  BY <1>1 DEF IsList, OneShot

\* Every action keeps TypeInv.
LEMMA NextTypeInv == TypeInv /\ [Next]_vars => TypeInv'
<1>. SUFFICES ASSUME TypeInv, [Next]_vars PROVE TypeInv'
  OBVIOUS
<1>. USE DEF queueVars, taskVars, passVars, watchVars, trafficVars
<1>t. /\ lastId \in Nat /\ pidx \in Nat /\ tidx \in Nat /\ cursor \in Nat
      /\ IsList(nbl, lastId) /\ IsList(instant, lastId) /\ IsIndex(index, lastId)
      /\ AreTasks(tasks, tidx) /\ files \in SUBSET Files /\ past \subseteq Events
  BY DEF TypeInv, TypeOK
<1>1. CASE SendDirect
  <2>1. /\ IsList(Submitted(nbl, 1, 0), lastId + 1) /\ IsIndex(Indexed(index, 1, 0), lastId + 1)
        /\ DOMAIN Submitted(nbl, 1, 0) = DOMAIN nbl \cup (lastId + 1 .. lastId + 1)
    BY <1>t, SubmittedTypes, SMTT(40)
  <2>2. IsList(instant, lastId + 1)
    BY <1>t, TypesGrow
  <2>3. used' \in [direct: Nat, instant: Nat, relay: Nat] /\ past' \subseteq Events
    BY <1>1 DEF SendDirect, TypeInv, TypeOK, Clash, Events
  <2>4. TypeOK'
    BY <1>1, <2>1, <2>2, <2>3 DEF SendDirect, TypeInv, TypeOK
  <2>5. CursorOK'
    BY <1>1, <2>1 DEF SendDirect, TypeInv, CursorOK
  <2>. QED
    BY <2>4, <2>5 DEF TypeInv
<1>2. ASSUME NEW f \in Files, NEW h \in Hosts, TaskAdd(f, h) PROVE TypeInv'
  <2>. DEFINE present == files \cup ({f} \cap TcpFiles)
              created == [file |-> f, host |-> h, off |-> 0]
              ts == [t \in DOMAIN tasks \cup {tidx + 1} |->
                        IF t \in DOMAIN tasks THEN tasks[t] ELSE created]
  <2>1. present \in SUBSET Files
    BY <1>t
  <2>2. CASE \E t \in DOMAIN tasks : tasks[t].file = f /\ tasks[t].host = h
    <3>1. /\ files' = present /\ tidx' = tidx /\ tasks' = tasks
          /\ UNCHANGED <<queueVars, past, passVars, watchVars, trafficVars,
                         instant, wrecked, onwire, used>>
      BY <1>2, <2>2, Zenon DEF TaskAdd
    <3>. HIDE DEF present
    <3>. QED
      BY <3>1, <2>1, ZenonT(60) DEF TypeInv, TypeOK, CursorOK
  <2>3. CASE ~\E t \in DOMAIN tasks : tasks[t].file = f /\ tasks[t].host = h
    <3>1. PICK ok \in BOOLEAN : TaskUpdate(nbl, index, ts, present, {}, ok)
      BY <1>2, <2>3, Zenon DEF TaskAdd
    <3>2. /\ tidx' = tidx + 1
          /\ UNCHANGED <<passVars, watchVars, trafficVars, instant, wrecked, onwire, used>>
      BY <1>2, <2>3 DEF TaskAdd
    <3>3. AreTasks(ts, tidx + 1)
      BY <1>t, TaskAdded, Zenon
    <3>. HIDE DEF present, ts
    <3>4. /\ lastId' \in Nat /\ lastId <= lastId' /\ pidx' \in Nat
          /\ IsList(nbl', lastId') /\ IsIndex(index', lastId')
          /\ AreTasks(tasks', tidx + 1) /\ files' \subseteq Files
          /\ past' \subseteq Events
          /\ DOMAIN nbl \subseteq DOMAIN nbl'
      <4>. DEFINE n == tidx + 1
                  none == {}
      <4>1. n \in Nat /\ AreTasks(ts, n) /\ TaskUpdate(nbl, index, ts, present, none, ok)
        BY <1>t, <3>1, <3>3
      <4>. HIDE DEF n, none
      <4>2. /\ lastId' \in Nat /\ lastId <= lastId' /\ pidx' \in Nat
            /\ IsList(nbl', lastId') /\ IsIndex(index', lastId')
            /\ AreTasks(tasks', n) /\ files' \subseteq Files
            /\ past' \subseteq Events
            /\ DOMAIN nbl \subseteq DOMAIN nbl'
        BY <1>t, <2>1, <4>1, TaskUpdateTypes, SMTT(40)
      <4>. QED
        BY <4>2 DEF n
    <3>5. IsList(instant', lastId')
      BY <3>2, <3>4, <1>t, TypesGrow
    <3>. QED
      BY <3>2, <3>4, <3>5 DEF TypeInv, TypeOK, CursorOK
  <2>. QED
    BY <2>2, <2>3
<1>3. ASSUME NEW t \in 1 .. MaxTasks, TaskCancel(t) PROVE TypeInv'
  <2>1. AreTasks(Without(tasks, {t}), tidx)
    BY <1>t, WithoutTypes
  <2>. QED
    BY <1>3, <2>1 DEF TaskCancel, TypeInv, TypeOK, CursorOK
<1>4. ASSUME NEW k \in onwire, ReadAck(k) PROVE TypeInv'
  <2>1. PICK ok \in BOOLEAN : Ack(nbl, k, 0, ok)
    BY <1>4 DEF ReadAck
  <2>2. /\ lastId' \in Nat /\ lastId <= lastId' /\ pidx' \in Nat
        /\ IsList(nbl', lastId') /\ IsIndex(index', lastId')
        /\ AreTasks(tasks', tidx) /\ files' \subseteq Files
        /\ past' \subseteq Events /\ wrecked' \in BOOLEAN
    BY <1>t, <2>1, AckTypes DEF TypeInv
  <2>3. IsList(instant', lastId')
    BY <1>4, <2>2, <1>t, TypesGrow DEF ReadAck
  <2>4. /\ reading' \in BOOLEAN /\ rcvdOld' \in BOOLEAN /\ stale' \in BOOLEAN
        /\ rcvd' \in Nat /\ sent' = sent /\ sentOld' = sentOld
    BY <1>4, ReceiveTypes DEF ReadAck, TypeInv
  <2>5. pass = "idle" /\ UNCHANGED <<passVars, watchVars, instant, tidx, onwire, used>>
    BY <1>4 DEF ReadAck, Idle
  <2>. QED
    BY <2>2, <2>3, <2>4, <2>5 DEF TypeInv, TypeOK, CursorOK
<1>5. ASSUME Idle, Receive, lastId' = lastId + 1 \/ lastId' = lastId + 2,
             instant' = OneShot(lastId + 1), pidx' = pidx + 1, writeInst' = TRUE
      PROVE  /\ lastId' \in Nat /\ pidx' \in Nat /\ lastId <= lastId'
             /\ IsList(instant', lastId') /\ writeInst' \in BOOLEAN
             /\ reading' \in BOOLEAN /\ rcvdOld' \in BOOLEAN /\ stale' \in BOOLEAN
             /\ rcvd' \in Nat /\ sent' = sent /\ sentOld' = sentOld
  <2>1. lastId' \in Nat /\ pidx' \in Nat /\ lastId <= lastId' /\ writeInst' \in BOOLEAN
    BY <1>5, <1>t
  <2>2. IsList(OneShot(lastId + 1), lastId + 1)
    BY <1>t, OneShotType
  <2>3. IsList(instant', lastId')
    BY <2>1, <2>2, <1>5, <1>t, TypesGrow
  <2>4. /\ reading' \in BOOLEAN /\ rcvdOld' \in BOOLEAN /\ stale' \in BOOLEAN
        /\ rcvd' \in Nat /\ sent' = sent /\ sentOld' = sentOld
    BY <1>5, ReceiveTypes DEF TypeInv
  <2>. QED
    BY <2>1, <2>3, <2>4
<1>6. CASE ReadData
  <2>1. /\ lastId' \in Nat /\ pidx' \in Nat /\ lastId <= lastId'
        /\ IsList(instant', lastId') /\ writeInst' \in BOOLEAN
        /\ reading' \in BOOLEAN /\ rcvdOld' \in BOOLEAN /\ stale' \in BOOLEAN
        /\ rcvd' \in Nat /\ sent' = sent /\ sentOld' = sentOld
    BY <1>5, <1>6 DEF ReadData
  <2>2. /\ pass = "idle" /\ used' \in [direct: Nat, instant: Nat, relay: Nat]
        /\ UNCHANGED <<nbl, index, taskVars, passVars, timer, write, tidx, wrecked,
                       onwire, past>>
    BY <1>6 DEF ReadData, Idle, TypeInv, TypeOK
  <2>3. IsList(nbl', lastId') /\ IsIndex(index', lastId')
    BY <2>1, <2>2, <1>t, TypesGrow, Zenon
  <2>. QED
    BY <2>1, <2>2, <2>3 DEF TypeInv, TypeOK, CursorOK
<1>7. ASSUME NEW k \in ForeignKeys, ReadProxy(k) PROVE TypeInv'
  <2>1. /\ lastId' \in Nat /\ pidx' \in Nat /\ lastId <= lastId'
        /\ IsList(instant', lastId') /\ writeInst' \in BOOLEAN
        /\ reading' \in BOOLEAN /\ rcvdOld' \in BOOLEAN /\ stale' \in BOOLEAN
        /\ rcvd' \in Nat /\ sent' = sent /\ sentOld' = sentOld
    BY <1>5, <1>7 DEF ReadProxy
  <2>2. /\ pass = "idle" /\ used' \in [direct: Nat, instant: Nat, relay: Nat]
        /\ past' \subseteq Events
        /\ UNCHANGED <<taskVars, passVars, timer, write, tidx, wrecked, onwire>>
    BY <1>7 DEF ReadProxy, Idle, TypeInv, TypeOK, Clash, Events
  <2>3. IsList(nbl', lastId')
    <3>1. [key |-> k, attempt |-> 0] \in Items
      BY FileAssumption DEF Items, Keys
    <3>2. lastId' = lastId + 2
          /\ nbl' = [i \in DOMAIN nbl \cup {lastId + 2} |->
                        IF i \in DOMAIN nbl THEN nbl[i] ELSE [key |-> k, attempt |-> 0]]
      BY <1>7 DEF ReadProxy
    <3>. QED
      BY <1>t, <3>1, <3>2 DEF IsList
  <2>4. IsIndex(index', lastId')
    <3>1. k \in Keys
      BY FileAssumption DEF Keys
    <3>2. lastId' = lastId + 2
          /\ index' = [j \in DOMAIN index \cup {k} |-> IF j = k THEN lastId + 2 ELSE index[j]]
      BY <1>7 DEF ReadProxy
    <3>3. \A j \in DOMAIN index : index[j] \in 1 .. lastId'
      BY <3>2, <1>t DEF IsIndex
    <3>. QED
      BY <1>t, <3>1, <3>2, <3>3 DEF IsIndex
  <2>. QED
    BY <2>1, <2>2, <2>3, <2>4 DEF TypeInv, TypeOK, CursorOK
<1>20. CASE SendOneShot
  <2>1. /\ lastId' = lastId + 1 /\ pidx' = pidx + 1 /\ writeInst' = TRUE
        /\ instant' = OneShot(lastId + 1)
    BY <1>20 DEF SendOneShot
  <2>2. lastId' \in Nat /\ pidx' \in Nat /\ lastId <= lastId' /\ IsList(instant', lastId')
    BY <2>1, <1>t, OneShotType
  <2>3. /\ pass = "idle" /\ used' \in [direct: Nat, instant: Nat, relay: Nat]
        /\ UNCHANGED <<nbl, index, taskVars, passVars, timer, write, trafficVars, tidx, wrecked,
                       onwire, past>>
    BY <1>20 DEF SendOneShot, Idle, TypeInv, TypeOK
  <2>4. IsList(nbl', lastId') /\ IsIndex(index', lastId')
    BY <2>2, <2>3, <1>t, TypesGrow, Zenon
  <2>. QED
    BY <2>1, <2>2, <2>3, <2>4 DEF TypeInv, TypeOK, CursorOK
<1>21. ASSUME NEW k \in ForeignKeys, NEW acked \in BOOLEAN, ReadProxyOneShot(k, acked)
       PROVE  TypeInv'
  <2>1. PICK l : l = IF acked THEN OneShot(lastId + 1) ELSE instant
    OBVIOUS
  <2>2. PICK id : id = IF acked THEN lastId + 2 ELSE lastId + 1
    OBVIOUS
  <2>3. /\ lastId' = id /\ writeInst' = TRUE /\ Receive
        /\ pidx' = IF acked THEN pidx + 1 ELSE pidx
        /\ instant' = [i \in DOMAIN l \cup {id} |->
                         IF i = id THEN [key |-> k, attempt |-> 0] ELSE l[i]]
    BY <1>21, <2>1, <2>2, Zenon DEF ReadProxyOneShot
  <2>4. id \in Nat /\ id - 1 \in Nat /\ lastId <= id /\ pidx' \in Nat
    BY <2>2, <2>3, <1>t
  <2>5. IsList(l, id - 1)
    BY <2>1, <2>2, <1>t, OneShotType
  <2>6. IsList(instant', lastId')
    <3>1. [key |-> k, attempt |-> 0] \in Items
      BY FileAssumption DEF Items, Keys
    <3>. QED
      BY <2>3, <2>4, <2>5, <3>1 DEF IsList
  <2>7. /\ pass = "idle" /\ used' \in [direct: Nat, instant: Nat, relay: Nat]
        /\ UNCHANGED <<nbl, index, taskVars, passVars, timer, write, tidx, wrecked, onwire, past>>
    BY <1>21 DEF ReadProxyOneShot, Idle, TypeInv, TypeOK
  <2>8. IsList(nbl', lastId') /\ IsIndex(index', lastId')
    BY <2>3, <2>4, <2>7, <1>t, TypesGrow, Zenon
  <2>9. /\ reading' \in BOOLEAN /\ rcvdOld' \in BOOLEAN /\ stale' \in BOOLEAN
        /\ rcvd' \in Nat /\ sent' = sent /\ sentOld' = sentOld
    BY <2>3, ReceiveTypes DEF TypeInv
  <2>. QED
    BY <2>3, <2>4, <2>6, <2>7, <2>8, <2>9 DEF TypeInv, TypeOK, CursorOK
<1>8. CASE SendWindowEnds \/ ReceiveWindowEnds
  <2>1. sentOld' \in BOOLEAN /\ rcvdOld' \in BOOLEAN
    BY <1>8, Zenon DEF SendWindowEnds, ReceiveWindowEnds, TypeInv, TypeOK
  <2>2. UNCHANGED <<queueVars, taskVars, passVars, watchVars, reading, sent, rcvd, stale,
                    instant, tidx, wrecked, onwire, past, used>>
    BY <1>8, Zenon DEF SendWindowEnds, ReceiveWindowEnds
  <2>. QED
    BY <2>1, <2>2 DEF TypeInv, TypeOK, CursorOK
<1>9. CASE Retry
  <2>. DEFINE below == rcvdOld \/ rcvd < DownloadLimit
              none == DOMAIN nbl = {}
              some == write \/ DOMAIN nbl # {}
  <2>1. below \in BOOLEAN /\ none \in BOOLEAN /\ some \in BOOLEAN
    OBVIOUS
  <2>2. /\ reading' = below /\ timer' = none /\ write' = some /\ rcvdOld' = FALSE
        /\ rcvd' = IF rcvdOld THEN 0 ELSE rcvd
        /\ UNCHANGED <<queueVars, taskVars, passVars, writeInst, sent, sentOld, stale,
                       instant, tidx, wrecked, onwire, past, used>>
    BY <1>9 DEF Retry
  <2>. HIDE DEF below, none, some
  <2>3. /\ reading' \in BOOLEAN /\ timer' \in BOOLEAN /\ write' \in BOOLEAN
        /\ rcvdOld' \in BOOLEAN
    BY <2>1, <2>2, Zenon
  <2>4. rcvd' \in Nat
    BY <2>2 DEF TypeInv, TypeOK
  <2>5. UNCHANGED <<queueVars, taskVars, passVars, writeInst, sent, sentOld, stale,
                    instant, tidx, wrecked, onwire, past, used>>
    BY <2>2, Zenon
  <2>. QED
    BY <2>3, <2>4, <2>5 DEF TypeInv, TypeOK, CursorOK
<1>10. CASE WriteStart \/ InstantStart \/ InstantSent
  <2>1. First(nbl) = 0 \/ First(nbl) \in DOMAIN nbl
    BY <1>t, FirstIsItem
  <2>2. First(instant) = 0 \/ First(instant) \in DOMAIN instant
    BY <1>t, FirstIsItem
  <2>3. First(nbl) \in 0 .. lastId /\ First(instant) \in 0 .. lastId
    BY <1>t, <2>1, <2>2 DEF IsList
  <2>. QED
    BY <1>10, <2>1, <2>2, <2>3, Zenon DEF WriteStart, InstantStart, InstantSent, TypeInv, TypeOK, CursorOK
<1>11. CASE WriteDone \/ PurgeDone \/ Halted
  <2>1. IsList(Empty, lastId)
    BY DEF IsList, Empty
  <2>2. CASE WriteDone
    BY <2>2, Zenon DEF WriteDone, TypeInv, TypeOK, CursorOK
  <2>3. CASE PurgeDone
    BY <2>1, <2>3, Zenon DEF PurgeDone, TypeInv, TypeOK, CursorOK
  <2>4. CASE Halted
    BY <2>4, Zenon DEF Halted, vars, TypeInv, TypeOK, CursorOK
  <2>. QED
    BY <1>11, <2>2, <2>3, <2>4, Zenon
<1>f. /\ IsList(Bumped(nbl), lastId) /\ DOMAIN Bumped(nbl) = DOMAIN nbl
      /\ IsList(Bumped(instant), lastId) /\ DOMAIN Bumped(instant) = DOMAIN instant
      /\ Following(nbl, cursor) \in Nat /\ Following(instant, cursor) \in Nat
      /\ Following(nbl, cursor) # 0
            => Following(nbl, cursor) \in DOMAIN nbl /\ Following(nbl, cursor) > cursor
      /\ Following(instant, cursor) # 0
            => Following(instant, cursor) \in DOMAIN instant /\ Following(instant, cursor) > cursor
      /\ Following(nbl, cursor) <= lastId /\ Following(instant, cursor) <= lastId
  <2>1. \/ Following(nbl, cursor) = 0
        \/ Following(nbl, cursor) \in DOMAIN nbl /\ Following(nbl, cursor) > cursor
    BY <1>t, FollowingIsLater
  <2>2. \/ Following(instant, cursor) = 0
        \/ Following(instant, cursor) \in DOMAIN instant /\ Following(instant, cursor) > cursor
    BY <1>t, FollowingIsLater
  <2>3. DOMAIN nbl \subseteq 1 .. lastId /\ DOMAIN instant \subseteq 1 .. lastId
    BY <1>t DEF IsList
  <2>4. /\ IsList(Bumped(nbl), lastId) /\ DOMAIN Bumped(nbl) = DOMAIN nbl
        /\ IsList(Bumped(instant), lastId) /\ DOMAIN Bumped(instant) = DOMAIN instant
    BY <1>t, BumpedTypes, Zenon
  <2>. QED
    BY <2>1, <2>2, <2>3, <2>4, <1>t
<1>12. CASE DispatchExpire
  <2>1. PICK ok \in BOOLEAN :
           /\ Ack(Bumped(nbl), nbl[cursor].key, Following(nbl, cursor), ok)
           /\ cursor' = IF ok THEN Following(nbl, cursor) ELSE 0
    BY <1>12 DEF DispatchExpire
  <2>2. /\ lastId' \in Nat /\ lastId <= lastId' /\ pidx' \in Nat
        /\ IsList(nbl', lastId') /\ IsIndex(index', lastId')
        /\ AreTasks(tasks', tidx) /\ files' \subseteq Files
        /\ past' \subseteq Events /\ wrecked' \in BOOLEAN
        /\ (~wrecked' /\ Following(nbl, cursor) \in DOMAIN Bumped(nbl))
               => Following(nbl, cursor) \in DOMAIN nbl'
    <3>1. PICK q : q = Bumped(nbl)
      OBVIOUS
    <3>2. PICK k : k = nbl[cursor].key
      OBVIOUS
    <3>3. PICK saved : saved = Following(nbl, cursor)
      OBVIOUS
    <3>4. TypeOK /\ IsList(q, lastId) /\ Ack(q, k, saved, ok)
      BY <1>f, <2>1, <3>1, <3>2, <3>3, Zenon DEF TypeInv
    <3>. QED
      BY <3>1, <3>3, <3>4, AckTypes, Zenon
  <2>3. /\ pass = "nbl"
        /\ UNCHANGED <<pass, watchVars, trafficVars, instant, tidx, onwire, used>>
    BY <1>12 DEF DispatchExpire, At
  <2>4. IsList(instant', lastId')
    BY <2>2, <2>3, <1>t, TypesGrow, Zenon
  <2>5. cursor' \in 0 .. lastId' /\ (cursor' # 0 /\ ~wrecked' => cursor' \in DOMAIN nbl')
    BY <2>1, <2>2, <1>f, <1>t
  <2>. QED
    BY <2>2, <2>3, <2>4, <2>5, Zenon DEF TypeInv, TypeOK, CursorOK
<1>13. CASE DispatchSkip \/ DispatchCut
  <2>1. pass = "nbl" /\ nbl' = Bumped(nbl) /\ cursor' \in {0, Following(nbl, cursor)}
        /\ past' \subseteq Events
        /\ UNCHANGED <<index, lastId, pidx, taskVars, pass, watchVars, trafficVars,
                       instant, tidx, wrecked, onwire, used>>
    BY <1>13, <1>t, Zenon DEF DispatchSkip, DispatchCut, At, Events
  <2>. QED
    BY <1>f, <2>1 DEF TypeInv, TypeOK, CursorOK
<1>14. CASE DispatchSend
  <2>1. pass = "nbl" /\ nbl' = Bumped(nbl) /\ cursor' = Following(nbl, cursor)
        /\ UNCHANGED <<index, lastId, pidx, taskVars, pass, watchVars, reading, rcvd, rcvdOld,
                       stale, instant, tidx, wrecked, past, used>>
    BY <1>14 DEF DispatchSend, At
  <2>2. sent' \in Nat /\ sentOld' \in BOOLEAN
    <3>1. CountSend
      BY <1>14, Zenon DEF DispatchSend
    <3>. QED
      BY <3>1, CountSendTypes DEF TypeInv
  <2>3. onwire' \subseteq Keys
    <3>1. cursor \in DOMAIN nbl
      BY <1>14 DEF DispatchSend, At, TypeInv, CursorOK
    <3>2. nbl[cursor].key \in Keys
      BY <3>1, <1>t, Zenon DEF IsList, Items
    <3>. QED
      BY <3>2, <1>14, Zenon DEF DispatchSend, TypeInv, TypeOK
  <2>. QED
    BY <1>f, <2>1, <2>2, <2>3 DEF TypeInv, TypeOK, CursorOK
<1>15. CASE InstantPass
  <2>1. /\ pass = "instant" /\ instant' = Bumped(instant)
        /\ UNCHANGED <<pass, watchVars, trafficVars, tidx, onwire, used>>
    BY <1>15 DEF InstantPass, At
  <2>2. /\ lastId' \in Nat /\ lastId <= lastId' /\ pidx' \in Nat
        /\ IsList(nbl', lastId') /\ IsIndex(index', lastId')
        /\ AreTasks(tasks', tidx) /\ files' \subseteq Files
        /\ past' \subseteq Events /\ wrecked' \in BOOLEAN
        /\ cursor' \in {0, Following(instant, cursor)}
    <3>1. CASE Expired(instant[cursor])
      <4>1. PICK ok \in BOOLEAN :
               /\ Ack(nbl, instant[cursor].key, 0, ok)
               /\ cursor' = IF ok THEN Following(instant, cursor) ELSE 0
        BY <1>15, <3>1, Zenon DEF InstantPass
      <4>. QED
        BY <1>t, <4>1, AckTypes, Zenon DEF TypeInv
    <3>2. CASE ~Expired(instant[cursor])
      BY <1>15, <3>2 DEF InstantPass, TypeInv, TypeOK
    <3>. QED
      BY <3>1, <3>2, Zenon
  <2>3. IsList(instant', lastId') /\ DOMAIN instant' = DOMAIN instant
    BY <2>1, <2>2, <1>f, <1>t, TypesGrow, Zenon
  <2>4. cursor' \in 0 .. lastId' /\ (cursor' # 0 => cursor' \in DOMAIN instant')
    BY <2>2, <2>3, <1>f, <1>t
  <2>. QED
    BY <2>1, <2>2, <2>3, <2>4, Zenon DEF TypeInv, TypeOK, CursorOK
<1>16. CASE InstantCut
  BY <1>16, <1>f DEF InstantCut, At, TypeInv, TypeOK, CursorOK
<1>17. CASE InstantSend
  <2>1. PICK ok \in BOOLEAN :
           /\ TaskUpdate(nbl, index, tasks, files, {}, ok)
           /\ cursor' = IF ok THEN Following(instant, cursor) ELSE 0
    BY <1>17, Zenon DEF InstantSend
  <2>2. /\ lastId' \in Nat /\ lastId <= lastId' /\ pidx' \in Nat
        /\ IsList(nbl', lastId') /\ IsIndex(index', lastId')
        /\ AreTasks(tasks', tidx) /\ files' \subseteq Files
        /\ past' \subseteq Events
    BY <2>1, UpdateTypes, Zenon DEF TypeInv
  <2>3. /\ pass = "instant" /\ instant' = Without(instant, {cursor})
        /\ UNCHANGED <<pass, watchVars, reading, rcvd, rcvdOld, stale, tidx, wrecked,
                       onwire, used>>
    BY <1>17 DEF InstantSend, At
  <2>4. sent' \in Nat /\ sentOld' \in BOOLEAN
    <3>1. CountSend
      BY <1>17, Zenon DEF InstantSend
    <3>. QED
      BY <3>1, CountSendTypes DEF TypeInv
  <2>5. IsList(instant', lastId') /\ DOMAIN instant' = DOMAIN instant \ {cursor}
    <3>1. IsList(Without(instant, {cursor}), lastId)
      BY <1>t, WithoutTypes, Zenon
    <3>. QED
      BY <2>2, <2>3, <3>1, <1>t, TypesGrow, Zenon DEF Without
  <2>6. cursor' \in 0 .. lastId' /\ (cursor' # 0 => cursor' \in DOMAIN instant')
    BY <2>1, <2>2, <2>5, <1>f, <1>t
  <2>. QED
    BY <2>2, <2>3, <2>4, <2>5, <2>6, Zenon DEF TypeInv, TypeOK, CursorOK
<1>18. CASE Purge
  <2>. DEFINE dangling(ok) == ~ok /\ cursor # First(instant)
  <2>1. PICK ok \in BOOLEAN :
           /\ TaskUpdate(nbl, index, tasks, files, {}, ok)
           /\ cursor' = IF ok THEN Following(instant, cursor) ELSE 0
           /\ pass' = IF ok THEN pass ELSE "idle"
           /\ wrecked' = dangling(ok)
    BY <1>18, Zenon DEF Purge
  <2>2. /\ lastId' \in Nat /\ lastId <= lastId' /\ pidx' \in Nat
        /\ IsList(nbl', lastId') /\ IsIndex(index', lastId')
        /\ AreTasks(tasks', tidx) /\ files' \subseteq Files
        /\ past' \subseteq Events
    BY <2>1, UpdateTypes, Zenon DEF TypeInv
  <2>3. /\ pass = "purge"
        /\ UNCHANGED <<watchVars, trafficVars, instant, tidx, onwire, used>>
    BY <1>18 DEF Purge, At
  <2>4. wrecked' \in BOOLEAN
    <3>1. dangling(ok) \in BOOLEAN
      BY Zenon
    <3>. HIDE DEF dangling
    <3>. QED
      BY <3>1, <2>1
  <2>5. IsList(instant', lastId')
    BY <2>2, <2>3, <1>t, TypesGrow, Zenon
  <2>6. cursor' \in 0 .. lastId' /\ (cursor' # 0 => cursor' \in DOMAIN instant')
        /\ pass' \in {"idle", "purge"}
    BY <2>1, <2>2, <2>3, <1>f, <1>t
  <2>. QED
    BY <2>2, <2>3, <2>4, <2>5, <2>6, Zenon DEF TypeInv, TypeOK, CursorOK
<1>19. CASE UNCHANGED vars
  BY <1>19 DEF vars, TypeInv, TypeOK, CursorOK
<1>. QED
  BY <1>1, <1>2, <1>3, <1>4, <1>6, <1>7, <1>8, <1>9, <1>10, <1>11, <1>12, <1>13, <1>14,
     <1>15, <1>16, <1>17, <1>18, <1>19, <1>20, <1>21, Zenon DEF Next, WriteCb, InstantCb

\* The variables of a peer's send side keep their types (TypeOK), for every
\* configuration.
THEOREM TypeCorrect == Spec => []TypeOK
<1>1. Spec => []TypeInv
  BY InitTypeInv, NextTypeInv, PTL DEF Spec
<1>2. TypeInv => TypeOK
  BY DEF TypeInv
<1>. QED
  BY <1>1, <1>2, PTL

(***************************************************************************)
(* The list and its index.                                                 *)
(***************************************************************************)
\* An index entry whose item is in the list is the entry of that item's key.
Pointed(l, x) == \A k \in DOMAIN x : x[k] \in DOMAIN l => l[x[k]].key = k

\* List S and index I extend q and x by items "new" with keys N, which point to
\* each other.
Linked(S, I, q, x, N, new) ==
    /\ DOMAIN S = DOMAIN q \cup new /\ DOMAIN I = DOMAIN x \cup N
    /\ DOMAIN q \cap new = {}
    /\ \A i \in DOMAIN q : S[i] = q[i]
    /\ \A i \in new : S[i].key \in N /\ I[S[i].key] = i
    /\ \A k \in N : I[k] \in new /\ S[I[k]].key = k
    /\ \A k \in DOMAIN x \ N : I[k] = x[k]

\* The packets of one submission are linked with their index entries.
LEMMA SubmittedEntries ==
    ASSUME lastId \in Nat, pidx \in Nat, NEW n \in Nat, NEW t \in Nat,
           NEW q, IsList(q, lastId), NEW x, IsIndex(x, lastId)
    PROVE  Linked(Submitted(q, n, t), Indexed(x, n, t), q, x, NewKeys(n, t),
                  lastId + 1 .. lastId + n)
<1>. DEFINE S == Submitted(q, n, t)
            I == Indexed(x, n, t)
            new == lastId + 1 .. lastId + n
<1>1. DOMAIN S = DOMAIN q \cup new /\ DOMAIN I = DOMAIN x \cup NewKeys(n, t)
  BY Zenon DEF Submitted, Indexed
<1>2. DOMAIN q \cap new = {}
  BY DEF IsList
<1>3. \A i \in DOMAIN q : S[i] = q[i]
  BY Zenon DEF Submitted
<1>4. \A i \in new : S[i] = [key |-> <<pidx + (i - lastId - 1), t>>, attempt |-> 0]
  BY <1>2, Zenon DEF Submitted
<1>5. \A p \in pidx .. pidx + n - 1 :
         <<p, t>> \in NewKeys(n, t) /\ I[<<p, t>>] = lastId + 1 + (p - pidx)
  BY DEF NewKeys, Indexed
<1>6. ASSUME NEW i \in new PROVE S[i].key \in NewKeys(n, t) /\ I[S[i].key] = i
  <2>. DEFINE p == pidx + (i - lastId - 1)
  <2>0. S[i] = [key |-> <<p, t>>, attempt |-> 0]
    BY <1>4, Zenon
  <2>1. S[i].key = <<p, t>>
    <3>. HIDE DEF S, p
    <3>. QED
      BY <2>0
  <2>2. p \in pidx .. pidx + n - 1 /\ lastId + 1 + (p - pidx) = i
    OBVIOUS
  <2>. HIDE DEF S, I, p
  <2>. QED
    BY <2>1, <2>2, <1>5, Zenon
<1>7. ASSUME NEW k \in NewKeys(n, t) PROVE I[k] \in new /\ S[I[k]].key = k
  <2>1. PICK p \in pidx .. pidx + n - 1 : k = <<p, t>>
    BY DEF NewKeys
  <2>. DEFINE i == lastId + 1 + (p - pidx)
  <2>2. i \in new /\ pidx + (i - lastId - 1) = p
    OBVIOUS
  <2>. HIDE DEF S, I
  <2>3. I[k] = i
    BY <2>1, <1>5, Zenon
  <2>. HIDE DEF i, new
  <2>4. S[i] = [key |-> <<p, t>>, attempt |-> 0]
    <3>1. S[i] = [key |-> <<pidx + (i - lastId - 1), t>>, attempt |-> 0]
      BY <2>2, <1>4, Zenon
    <3>. QED
      BY <2>2, <3>1, Zenon
  <2>5. S[i].key = <<p, t>>
    BY <2>4
  <2>. QED
    BY <2>1, <2>2, <2>3, <2>5, Zenon
<1>8. \A k \in DOMAIN x \ NewKeys(n, t) : I[k] = x[k]
  BY Zenon DEF Indexed
<1>. HIDE DEF S, I, new
<1>9. Linked(S, I, q, x, NewKeys(n, t), new)
  BY <1>1, <1>2, <1>3, <1>6, <1>7, <1>8, Zenon DEF Linked
<1>. QED
  BY <1>9, Zenon DEF S, I, new

\* List q and index x agree, but for the entries of drop, which are about to go, when
\* task.update is called for the tasks ts.
InStep(q, x, ts, drop) ==
    /\ lastId \in Nat /\ pidx \in Nat /\ IsList(q, lastId) /\ IsIndex(x, lastId)
    /\ \E n \in Nat : AreTasks(ts, n)
    /\ drop \subseteq DOMAIN x
    /\ "duplicate" \notin past =>
          \A i \in DOMAIN q : q[i].key \in DOMAIN x \ drop /\ x[q[i].key] = i
    /\ "readfail" \notin past => \A k \in DOMAIN x \ drop : x[k] \in DOMAIN q
    /\ Pointed(q, x)

\* task.update keeps list and index in agreement; drop holds the key whose item
\* was taken out of q and whose entry column_del removes at the end.
LEMMA TaskUpdateAgrees ==
    ASSUME NEW q, NEW x, NEW ts, NEW fs, NEW drop, NEW ok \in BOOLEAN,
           InStep(q, x, ts, drop), TaskUpdate(q, x, ts, fs, drop, ok)
    PROVE  IndexAgrees' /\ Pointed(nbl', index')
<1>a. /\ lastId \in Nat /\ pidx \in Nat /\ IsList(q, lastId) /\ IsIndex(x, lastId)
      /\ drop \subseteq DOMAIN x /\ Pointed(q, x)
  BY Zenon DEF InStep
<1>b. PICK n \in Nat : AreTasks(ts, n)
  BY Zenon DEF InStep
<1>c. "duplicate" \notin past =>
          \A i \in DOMAIN q : q[i].key \in DOMAIN x \ drop /\ x[q[i].key] = i
  BY Zenon DEF InStep
<1>d. "readfail" \notin past => \A k \in DOMAIN x \ drop : x[k] \in DOMAIN q
  BY Zenon DEF InStep
<1>1. CASE ~UpdateReady(q, ts)
  <2>1. nbl' = q /\ index' = Without(x, drop) /\ past' = past
    BY <1>1, Zenon DEF TaskUpdate, Unindexed
  <2>. QED
    BY <1>a, <1>c, <1>d, <2>1, Zenon DEF IndexAgrees, Pointed, Without
<1>2. CASE UpdateReady(q, ts) /\ ~ok
  <2>1. nbl' = q /\ index' = x /\ past' = past \cup {"readfail"}
    BY <1>2, Zenon DEF TaskUpdate, ResumeFails
  <2>. QED
    BY <1>a, <1>c, <2>1, Zenon DEF IndexAgrees, Pointed
<1>3. CASE UpdateReady(q, ts) /\ ok
  <2>. DEFINE t == Least(DOMAIN ts)
              c == Chunk(ts, t)
              S == Submitted(q, c, t)
              I == Indexed(x, c, t)
              N == NewKeys(c, t)
              new == lastId + 1 .. lastId + c
  <2>1. t \in DOMAIN ts
    BY <1>b, <1>3, LeastIsMember DEF UpdateReady, AreTasks
  <2>2. c \in Nat /\ t \in Nat
    BY <1>b, <2>1, ChunkTypes
  <2>3. /\ nbl' = S /\ index' = Without(I, drop)
        /\ past' = past \cup Clash(x, N)
    BY <1>3, Zenon DEF TaskUpdate, Resume, Unindexed
  <2>4. Linked(S, I, q, x, N, new)
    <3>. HIDE DEF t, c
    <3>. QED
      BY <1>a, <2>2, SubmittedEntries
  <2>5. \A k \in DOMAIN x : x[k] \in 1 .. lastId
    BY <1>a, Zenon DEF IsIndex
  <2>6. \A k \in DOMAIN x : x[k] \notin new
    BY <1>a, <2>5
  <2>7. "duplicate" \notin past' => "duplicate" \notin past /\ N \cap DOMAIN x = {}
    BY <2>3, Zenon DEF Clash
  <2>8. "readfail" \notin past' => "readfail" \notin past
    BY <2>3
  <2>9. DOMAIN index' = (DOMAIN x \cup N) \ drop /\ \A k \in DOMAIN index' : index'[k] = I[k]
    BY <2>3, <2>4, Zenon DEF Without, Linked
  <2>. HIDE DEF S, I, N, new
  <2>. USE DEF Linked
  <2>10. ASSUME "duplicate" \notin past', NEW i \in DOMAIN nbl'
         PROVE  nbl'[i].key \in DOMAIN index' /\ index'[nbl'[i].key] = i
    <3>1. CASE i \in DOMAIN q
      <4>1. PICK k : k = q[i].key
        BY Zenon
      <4>2. nbl'[i] = q[i]
        BY <2>3, <2>4, <3>1, Zenon
      <4>3. k \in DOMAIN x \ drop /\ x[k] = i
        BY <1>c, <2>7, <2>10, <3>1, <4>1, Zenon
      <4>4. k \notin N
        BY <2>7, <2>10, <4>3, Zenon
      <4>5. k \in DOMAIN index' /\ index'[k] = x[k]
        BY <2>4, <2>9, <4>3, <4>4, Zenon
      <4>. QED
        BY <4>1, <4>2, <4>3, <4>5, Zenon
    <3>2. CASE i \in new
      BY <1>a, <2>3, <2>4, <2>7, <2>9, <2>10, <3>2, Zenon
    <3>. QED
      BY <2>3, <2>4, <2>10, <3>1, <3>2, Zenon
  <2>11. ASSUME NEW k \in DOMAIN index', index'[k] \in DOMAIN nbl' PROVE nbl'[index'[k]].key = k
    <3>1. CASE k \in N
      BY <2>3, <2>4, <2>9, <3>1, Zenon
    <3>2. CASE k \notin N
      <4>1. k \in DOMAIN x /\ index'[k] = x[k]
        BY <2>4, <2>9, <3>2, Zenon
      <4>2. x[k] \in DOMAIN q
        BY <2>3, <2>4, <2>6, <2>11, <4>1, Zenon
      <4>3. PICK j \in DOMAIN q : j = x[k]
        BY <4>2, Zenon
      <4>4. nbl'[j] = q[j]
        BY <2>3, <2>4, Zenon
      <4>5. q[j].key = k
        BY <1>a, <4>1, <4>3, Zenon DEF Pointed
      <4>. QED
        BY <4>1, <4>3, <4>4, <4>5, Zenon
    <3>. QED
      BY <3>1, <3>2, Zenon
  <2>12. ASSUME "readfail" \notin past', NEW k \in DOMAIN index' PROVE index'[k] \in DOMAIN nbl'
    <3>1. CASE k \in N
      BY <2>3, <2>4, <2>9, <3>1, Zenon
    <3>2. CASE k \notin N
      BY <1>d, <2>3, <2>4, <2>8, <2>9, <2>12, <3>2, Zenon
    <3>. QED
      BY <3>1, <3>2, Zenon
  <2>. QED
    BY <2>10, <2>11, <2>12, Zenon DEF IndexAgrees, Pointed
<1>. QED
  BY <1>1, <1>2, <1>3, Zenon

\* List q has the items of nbl with their keys.
SameKeys(q) ==
    /\ IsList(q, lastId) /\ DOMAIN q = DOMAIN nbl
    /\ \A i \in DOMAIN q : q[i].key = nbl[i].key

\* net.ack keeps the list and its index in agreement.
LEMMA AckAgrees ==
    ASSUME TypeOK, IndexAgrees, Pointed(nbl, index),
           NEW q, SameKeys(q),
           NEW k, NEW saved, NEW ok \in BOOLEAN, Ack(q, k, saved, ok)
    PROVE  /\ IndexAgrees' /\ Pointed(nbl', index')
           /\ wrecked' => \/ wrecked
                          \/ "readfail" \in past'
                          \/ k \in DOMAIN index /\ index[k] = saved
<1>a. /\ "duplicate" \notin past =>
            \A i \in DOMAIN q : q[i].key \in DOMAIN index /\ index[q[i].key] = i
      /\ "readfail" \notin past => \A j \in DOMAIN index : index[j] \in DOMAIN q
      /\ Pointed(q, index)
  BY DEF IndexAgrees, Pointed, SameKeys
<1>1. CASE k \notin DOMAIN index \/ index[k] \notin DOMAIN q
  <2>1. /\ nbl' = q /\ index' = index /\ past' = past
        /\ k \notin DOMAIN index => wrecked' = wrecked
    BY <1>1, Zenon DEF Ack
  <2>2. IndexAgrees' /\ Pointed(nbl', index')
    BY <1>a, <2>1, Zenon DEF IndexAgrees, Pointed
  <2>3. wrecked' => wrecked \/ "readfail" \in past'
    BY <1>1, <1>a, <2>1, Zenon
  <2>. QED
    BY <2>2, <2>3, Zenon
<1>2. CASE k \in DOMAIN index /\ index[k] \in DOMAIN q
  <2>. DEFINE r == Without(q, {index[k]})
              d == {k}
  <2>1. TaskUpdate(r, index, tasks, files, d, ok) /\ wrecked' = (index[k] = saved)
    BY <1>2, Zenon DEF Ack
  <2>2. DOMAIN r = DOMAIN q \ {index[k]} /\ \A i \in DOMAIN r : r[i] = q[i]
    BY Zenon DEF Without
  <2>3. IsList(r, lastId)
    BY WithoutTypes, Zenon DEF TypeOK, SameKeys
  <2>4. d \in SUBSET DOMAIN index
    BY <1>2, Zenon
  <2>5. "duplicate" \notin past =>
           \A i \in DOMAIN r : r[i].key \in DOMAIN index \ d /\ index[r[i].key] = i
    BY <1>a, <2>2, Zenon
  <2>6. "readfail" \notin past => \A j \in DOMAIN index \ d : index[j] \in DOMAIN r
    BY <1>a, <1>2, <2>2 DEF Pointed
  <2>7. Pointed(r, index)
    BY <1>a, <2>2, Zenon DEF Pointed
  <2>8. /\ lastId \in Nat /\ pidx \in Nat /\ tidx \in Nat
        /\ IsIndex(index, lastId) /\ AreTasks(tasks, tidx)
    BY DEF TypeOK
  <2>. HIDE DEF r, d
  <2>9. IndexAgrees' /\ Pointed(nbl', index')
    <3>1. TaskUpdate(r, index, tasks, files, d, ok)
      BY <2>1, Zenon
    <3>2. InStep(r, index, tasks, d)
      BY <2>3, <2>4, <2>5, <2>6, <2>7, <2>8, Zenon DEF InStep
    <3>. QED
      BY <3>1, <3>2, TaskUpdateAgrees, Zenon
  <2>. QED
    BY <1>2, <2>1, <2>9, Zenon
<1>. QED
  BY <1>1, <1>2, Zenon

IndexInv == IndexAgrees /\ Pointed(nbl, index) /\ NoUseAfterFree

\* Every action keeps the list and the index in agreement.
LEMMA NextIndexInv == TypeInv /\ IndexInv /\ [Next]_vars => IndexInv'
<1>. SUFFICES ASSUME TypeInv, IndexInv, [Next]_vars PROVE IndexInv'
  OBVIOUS
<1>. USE DEF queueVars, taskVars, passVars, watchVars, trafficVars
<1>t. /\ TypeOK /\ lastId \in Nat /\ pidx \in Nat /\ tidx \in Nat /\ cursor \in Nat
      /\ AreTasks(tasks, tidx) /\ IsList(nbl, lastId) /\ IsIndex(index, lastId)
      /\ IndexAgrees /\ Pointed(nbl, index)
      /\ DOMAIN nbl \subseteq 1 .. lastId /\ \A k \in DOMAIN index : index[k] \in 1 .. lastId
  <2>1. /\ TypeOK /\ lastId \in Nat /\ pidx \in Nat /\ tidx \in Nat /\ cursor \in 0 .. lastId
        /\ AreTasks(tasks, tidx) /\ IsList(nbl, lastId) /\ IsIndex(index, lastId)
        /\ IndexAgrees /\ Pointed(nbl, index)
    BY Zenon DEF TypeInv, TypeOK, IndexInv
  <2>2. DOMAIN nbl \subseteq 1 .. lastId
    BY <2>1, Zenon DEF IsList
  <2>3. \A k \in DOMAIN index : index[k] \in 1 .. lastId
    BY <2>1, Zenon DEF IsIndex
  <2>4. cursor \in Nat
    BY <2>1
  <2>. QED
    BY <2>1, <2>2, <2>3, <2>4, Zenon
<1>b. /\ IsList(Bumped(nbl), lastId) /\ DOMAIN Bumped(nbl) = DOMAIN nbl
      /\ \A i \in DOMAIN nbl : Bumped(nbl)[i].key = nbl[i].key
  <2>1. IsList(Bumped(nbl), lastId) /\ DOMAIN Bumped(nbl) = DOMAIN nbl
    BY <1>t, BumpedTypes, Zenon
  <2>2. \A i \in DOMAIN nbl : nbl[i] \in Items
    BY <1>t, Zenon DEF IsList
  <2>. QED
    BY <2>1, <2>2, Zenon DEF Bumped, Items
<1>q. SameKeys(nbl)
  BY <1>t DEF SameKeys
\* task.update called with the list as it is
<1>u. ASSUME NEW n \in Nat, NEW ts, AreTasks(ts, n), NEW fs, NEW ok \in BOOLEAN,
             TaskUpdate(nbl, index, ts, fs, {}, ok)
      PROVE  IndexAgrees' /\ Pointed(nbl', index')
  <2>. DEFINE none == {}
  <2>1. none \in SUBSET DOMAIN index /\ TaskUpdate(nbl, index, ts, fs, none, ok)
    BY <1>u, Zenon
  <2>2. "duplicate" \notin past =>
           \A i \in DOMAIN nbl : nbl[i].key \in DOMAIN index \ none /\ index[nbl[i].key] = i
    BY <1>t, Zenon DEF IndexAgrees
  <2>3. "readfail" \notin past => \A k \in DOMAIN index \ none : index[k] \in DOMAIN nbl
    BY <1>t, Zenon DEF IndexAgrees
  <2>. HIDE DEF none
  <2>4. InStep(nbl, index, ts, none)
    BY <1>t, <1>u, <2>1, <2>2, <2>3, Zenon DEF InStep
  <2>. QED
    BY <2>1, <2>4, TaskUpdateAgrees, Zenon
<1>1. CASE SendDirect
  <2>. DEFINE S == Submitted(nbl, 1, 0)
              I == Indexed(index, 1, 0)
              N == NewKeys(1, 0)
              new == lastId + 1 .. lastId + 1
  <2>1. Linked(S, I, nbl, index, N, new)
    <3>. DEFINE one == 1
                zero == 0
    <3>1. one \in Nat /\ zero \in Nat
      BY Zenon
    <3>. HIDE DEF one, zero
    <3>2. Linked(Submitted(nbl, one, zero), Indexed(index, one, zero), nbl, index,
                 NewKeys(one, zero), lastId + 1 .. lastId + one)
      BY <3>1, <1>t, SubmittedEntries
    <3>. QED
      BY <3>2 DEF one, zero
  <2>2. nbl' = S /\ index' = I /\ past' = past \cup Clash(index, N) /\ wrecked' = wrecked
    BY <1>1, Zenon DEF SendDirect
  <2>3. \A k \in DOMAIN index : index[k] \notin new
    BY <1>t
  <2>. HIDE DEF S, I, N, new
  <2>4. "duplicate" \notin past' =>
           \A i \in DOMAIN nbl' : nbl'[i].key \in DOMAIN index' /\ index'[nbl'[i].key] = i
    <3>. SUFFICES ASSUME "duplicate" \notin past', NEW i \in DOMAIN nbl'
                  PROVE  nbl'[i].key \in DOMAIN index' /\ index'[nbl'[i].key] = i
      OBVIOUS
    <3>1. "duplicate" \notin past /\ N \cap DOMAIN index = {}
      BY <2>2, Zenon DEF Clash
    <3>2. CASE i \in new
      BY <2>1, <2>2, <3>2, Zenon DEF Linked
    <3>3. CASE i \in DOMAIN nbl
      <4>1. PICK k : k = nbl[i].key
        BY Zenon
      <4>2. k \in DOMAIN index /\ index[k] = i
        BY <1>t, <3>1, <3>3, <4>1, Zenon DEF IndexAgrees
      <4>3. nbl'[i] = nbl[i] /\ k \in DOMAIN index' /\ index'[k] = index[k]
        BY <2>1, <2>2, <3>1, <3>3, <4>2, Zenon DEF Linked
      <4>. QED
        BY <4>1, <4>2, <4>3, Zenon
    <3>. QED
      BY <2>1, <2>2, <3>2, <3>3, Zenon DEF Linked
  <2>5. "readfail" \notin past' => \A k \in DOMAIN index' : index'[k] \in DOMAIN nbl'
    BY <2>1, <2>2, <1>t, Zenon DEF Linked, IndexAgrees
  <2>6. ASSUME NEW k \in DOMAIN index', index'[k] \in DOMAIN nbl'
        PROVE  nbl'[index'[k]].key = k
    <3>1. CASE k \in N
      BY <2>1, <2>2, <3>1, Zenon DEF Linked
    <3>2. CASE k \notin N
      <4>1. k \in DOMAIN index /\ index'[k] = index[k]
        BY <2>1, <2>2, <2>6, <3>2, Zenon DEF Linked
      <4>2. index[k] \in DOMAIN nbl
        BY <2>1, <2>2, <2>3, <2>6, <4>1, Zenon DEF Linked
      <4>3. nbl'[index[k]] = nbl[index[k]]
        BY <2>1, <2>2, <4>2, Zenon DEF Linked
      <4>. QED
        BY <1>t, <4>1, <4>2, <4>3, Zenon DEF Pointed
    <3>. QED
      BY <3>1, <3>2, Zenon
  <2>. QED
    BY <2>2, <2>4, <2>5, <2>6, Zenon DEF IndexInv, IndexAgrees, Pointed, NoUseAfterFree
<1>2. ASSUME NEW f \in Files, NEW h \in Hosts, TaskAdd(f, h) PROVE IndexInv'
  <2>. DEFINE present == files \cup ({f} \cap TcpFiles)
              created == [file |-> f, host |-> h, off |-> 0]
              ts == [t \in DOMAIN tasks \cup {tidx + 1} |->
                        IF t \in DOMAIN tasks THEN tasks[t] ELSE created]
              n == tidx + 1
  <2>1. ~wrecked /\ wrecked' = wrecked
    BY <1>2, Zenon DEF TaskAdd, Idle
  <2>2. CASE \E t \in DOMAIN tasks : tasks[t].file = f /\ tasks[t].host = h
    BY <1>2, <2>2, Zenon DEF TaskAdd, IndexInv, IndexAgrees, Pointed, NoUseAfterFree
  <2>3. CASE ~\E t \in DOMAIN tasks : tasks[t].file = f /\ tasks[t].host = h
    <3>1. PICK ok \in BOOLEAN : TaskUpdate(nbl, index, ts, present, {}, ok)
      BY <1>2, <2>3, Zenon DEF TaskAdd
    <3>2. AreTasks(ts, n) /\ n \in Nat
      BY <1>t, TaskAdded, Zenon
    <3>. HIDE DEF present, ts, n
    <3>3. IndexAgrees' /\ Pointed(nbl', index')
      BY <1>u, <3>1, <3>2, Zenon
    <3>. QED
      BY <2>1, <3>3 DEF IndexInv, NoUseAfterFree
  <2>. QED
    BY <2>2, <2>3, Zenon
<1>3. CASE \/ \E t \in 1 .. MaxTasks : TaskCancel(t)
           \/ (\E k \in ForeignKeys, acked \in BOOLEAN : ReadProxyOneShot(k, acked))
           \/ ReadData \/ SendOneShot \/ SendWindowEnds \/ ReceiveWindowEnds \/ Retry \/ WriteStart
           \/ WriteDone \/ InstantStart \/ InstantCut \/ InstantSent \/ PurgeDone
           \/ Halted \/ UNCHANGED vars
  <2>1. UNCHANGED <<nbl, index, past, wrecked>>
    BY <1>3, Zenon DEF TaskCancel, ReadData, SendOneShot, ReadProxyOneShot, SendWindowEnds,
       ReceiveWindowEnds, Retry, WriteStart, WriteDone, InstantStart, InstantCut, InstantSent, PurgeDone, Halted, vars
  <2>. QED
    BY <2>1 DEF IndexInv, IndexAgrees, Pointed, NoUseAfterFree
<1>4. ASSUME NEW k \in onwire, ReadAck(k) PROVE IndexInv'
  <2>1. PICK ok \in BOOLEAN : Ack(nbl, k, 0, ok)
    BY <1>4 DEF ReadAck
  <2>2. /\ IndexAgrees' /\ Pointed(nbl', index')
        /\ wrecked' => \/ wrecked \/ "readfail" \in past'
                       \/ k \in DOMAIN index /\ index[k] = 0
    BY <1>t, <1>q, <2>1, AckAgrees, Zenon
  <2>3. ~wrecked
    BY <1>4, Zenon DEF ReadAck, Idle
  <2>4. k \in DOMAIN index => index[k] # 0
    BY <1>t
  <2>. QED
    BY <2>2, <2>3, <2>4, Zenon DEF IndexInv, NoUseAfterFree
<1>5. ASSUME NEW k \in ForeignKeys, ReadProxy(k) PROVE IndexInv'
  <2>1. /\ nbl' = [i \in DOMAIN nbl \cup {lastId + 2} |->
                      IF i \in DOMAIN nbl THEN nbl[i] ELSE [key |-> k, attempt |-> 0]]
        /\ index' = [j \in DOMAIN index \cup {k} |-> IF j = k THEN lastId + 2 ELSE index[j]]
        /\ past' = past \cup Clash(index, {k}) /\ ~wrecked'
    BY <1>5 DEF ReadProxy, Idle
  <2>2. lastId + 2 \notin DOMAIN nbl /\ \A j \in DOMAIN index : index[j] # lastId + 2
    BY <1>t
  <2>3. /\ DOMAIN nbl' = DOMAIN nbl \cup {lastId + 2} /\ DOMAIN index' = DOMAIN index \cup {k}
        /\ \A i \in DOMAIN nbl : nbl'[i] = nbl[i]
        /\ nbl'[lastId + 2].key = k /\ index'[k] = lastId + 2
        /\ \A j \in DOMAIN index \ {k} : index'[j] = index[j]
    BY <2>1, <2>2, Zenon
  <2>. DEFINE new == lastId + 2
  <2>. HIDE DEF new
  <2>4. /\ DOMAIN nbl' = DOMAIN nbl \cup {new} /\ DOMAIN index' = DOMAIN index \cup {k}
        /\ \A i \in DOMAIN nbl : nbl'[i] = nbl[i]
        /\ nbl'[new].key = k /\ index'[k] = new
        /\ \A j \in DOMAIN index \ {k} : index'[j] = index[j]
        /\ new \notin DOMAIN nbl /\ \A j \in DOMAIN index : index[j] # new
    BY <2>2, <2>3, Zenon DEF new
  <2>5. "duplicate" \notin past' => "duplicate" \notin past /\ k \notin DOMAIN index
    BY <2>1, Zenon DEF Clash
  <2>6. "duplicate" \notin past' =>
           \A i \in DOMAIN nbl' : nbl'[i].key \in DOMAIN index' /\ index'[nbl'[i].key] = i
    <3>. SUFFICES ASSUME "duplicate" \notin past', NEW i \in DOMAIN nbl'
                  PROVE  nbl'[i].key \in DOMAIN index' /\ index'[nbl'[i].key] = i
      BY Zenon
    <3>1. CASE i = new
      BY <2>4, <3>1, Zenon
    <3>2. CASE i \in DOMAIN nbl
      <4>1. PICK j : j = nbl[i].key
        BY Zenon
      <4>2. j \in DOMAIN index /\ index[j] = i
        BY <1>t, <2>5, <3>2, <4>1, Zenon DEF IndexAgrees
      <4>3. nbl'[i] = nbl[i] /\ j \in DOMAIN index' /\ index'[j] = index[j]
        BY <2>4, <2>5, <3>2, <4>2, Zenon
      <4>. QED
        BY <4>1, <4>2, <4>3, Zenon
    <3>. QED
      BY <2>4, <3>1, <3>2, Zenon
  <2>7. "readfail" \notin past' => \A j \in DOMAIN index' : index'[j] \in DOMAIN nbl'
    BY <2>1, <2>4, <1>t, Zenon DEF IndexAgrees
  <2>8. Pointed(nbl', index')
    BY <2>4, <1>t, Zenon DEF Pointed
  <2>. QED
    BY <2>1, <2>6, <2>7, <2>8, Zenon DEF IndexInv, IndexAgrees, Pointed, NoUseAfterFree
<1>6. CASE DispatchExpire
  <2>. DEFINE k == nbl[cursor].key
              next == Following(nbl, cursor)
  <2>1. PICK ok \in BOOLEAN : Ack(Bumped(nbl), k, next, ok)
    BY <1>6, Zenon DEF DispatchExpire
  <2>2. cursor \in DOMAIN nbl /\ ~wrecked
    BY <1>6, Zenon DEF DispatchExpire, At, TypeInv, CursorOK
  <2>3. next = 0 \/ next > cursor
    BY <1>t, FollowingIsLater
  <2>. HIDE DEF next
  <2>4. /\ IndexAgrees' /\ Pointed(nbl', index')
        /\ wrecked' => \/ wrecked \/ "readfail" \in past'
                       \/ k \in DOMAIN index /\ index[k] = next
    <3>1. SameKeys(Bumped(nbl))
      BY <1>b, Zenon DEF SameKeys
    <3>. QED
      BY <1>t, <2>1, <3>1, AckAgrees, Zenon
  <2>5. past \subseteq past'
    BY <1>t, <1>b, <2>1, AckTypes, Zenon
  <2>6. "duplicate" \notin past => index[k] = cursor
    BY <1>t, <2>2 DEF IndexAgrees
  <2>7. wrecked' => "readfail" \in past' \/ "duplicate" \in past'
    <3>1. next # cursor
      BY <1>t, <2>2, <2>3
    <3>. HIDE DEF k
    <3>. QED
      BY <2>2, <2>4, <2>5, <2>6, <3>1, Zenon
  <2>. QED
    BY <2>4, <2>7, Zenon DEF IndexInv, NoUseAfterFree
<1>7. CASE DispatchSkip \/ DispatchCut \/ DispatchSend
  <2>1. /\ nbl' = Bumped(nbl) /\ index' = index /\ ~wrecked'
        /\ "duplicate" \notin past' => "duplicate" \notin past
        /\ "readfail" \notin past' => "readfail" \notin past
    <3>1. CASE DispatchSkip
      BY <3>1, Zenon DEF DispatchSkip, At
    <3>2. CASE DispatchCut
      BY <3>2, Zenon DEF DispatchCut, At
    <3>3. CASE DispatchSend
      BY <3>3, Zenon DEF DispatchSend, At
    <3>. QED
      BY <1>7, <3>1, <3>2, <3>3, Zenon
  <2>. QED
    BY <2>1, <1>b, <1>t, Zenon DEF IndexInv, IndexAgrees, Pointed, NoUseAfterFree
<1>8. CASE InstantPass
  <2>. DEFINE k == instant[cursor].key
  <2>0. ~wrecked
    BY <1>8, Zenon DEF InstantPass, At
  <2>1. CASE Expired(instant[cursor])
    <3>1. PICK ok \in BOOLEAN : Ack(nbl, k, 0, ok)
      BY <1>8, <2>1 DEF InstantPass
    <3>. HIDE DEF k
    <3>2. /\ IndexAgrees' /\ Pointed(nbl', index')
          /\ wrecked' => \/ wrecked \/ "readfail" \in past'
                         \/ k \in DOMAIN index /\ index[k] = 0
      BY <1>t, <1>q, <3>1, AckAgrees, Zenon
    <3>. QED
      BY <1>t, <2>0, <3>2 DEF IndexInv, NoUseAfterFree
  <2>2. CASE ~Expired(instant[cursor])
    BY <1>8, <2>2, Zenon DEF InstantPass, IndexInv, IndexAgrees, Pointed, NoUseAfterFree
  <2>. QED
    BY <2>1, <2>2, Zenon
<1>9. CASE InstantSend \/ Purge
  <2>1. PICK ok \in BOOLEAN :
           /\ TaskUpdate(nbl, index, tasks, files, {}, ok)
           /\ wrecked' => ~ok
    <3>1. CASE InstantSend
      <4>1. PICK ok \in BOOLEAN : TaskUpdate(nbl, index, tasks, files, {}, ok)
        BY <3>1, Zenon DEF InstantSend
      <4>2. ~wrecked'
        BY <3>1 DEF InstantSend, At
      <4>. QED
        BY <4>1, <4>2, Zenon
    <3>2. CASE Purge
      <4>1. PICK ok \in BOOLEAN :
               /\ TaskUpdate(nbl, index, tasks, files, {}, ok)
               /\ wrecked' = (~ok /\ cursor # First(instant))
        BY <3>2, Zenon DEF Purge
      <4>. QED
        BY <4>1, Zenon
    <3>. QED
      BY <1>9, <3>1, <3>2, Zenon
  <2>2. ~ok => "readfail" \in past'
    BY <1>t, <2>1, UpdateTypes, Zenon
  <2>3. IndexAgrees' /\ Pointed(nbl', index')
    BY <1>u, <1>t, <2>1, Zenon
  <2>. QED
    BY <2>1, <2>2, <2>3, Zenon DEF IndexInv, NoUseAfterFree
<1>. QED
  BY <1>1, <1>2, <1>3, <1>4, <1>5, <1>6, <1>7, <1>8, <1>9, Zenon DEF Next, WriteCb, InstantCb

\* The list and its index agree at the start.
LEMMA InitIndexInv == Init => IndexInv
  BY DEF Init, IndexInv, IndexAgrees, Pointed, NoUseAfterFree, Empty

\* net.ack reaches every queued packet and only queued packets, as long as no
\* two packets had the same key and no task failed to read (IndexAgrees).
THEOREM IndexCorrect == Spec => []IndexAgrees
<1>1. Spec => []IndexInv
  BY InitTypeInv, NextTypeInv, InitIndexInv, NextIndexInv, PTL DEF Spec
<1>2. IndexInv => IndexAgrees
  BY Zenon DEF IndexInv
<1>. QED
  BY <1>1, <1>2, PTL

\* Under the same conditions the walks over the lists, which delete and append
\* while they run, never touch a freed item (NoUseAfterFree).
THEOREM MemorySafe == Spec => []NoUseAfterFree
<1>1. Spec => []IndexInv
  BY InitTypeInv, NextTypeInv, InitIndexInv, NextIndexInv, PTL DEF Spec
<1>2. IndexInv => NoUseAfterFree
  BY DEF IndexInv
<1>. QED
  BY <1>1, <1>2, PTL

-----------------------------------------------------------------------------
(***************************************************************************)
(* Bandwidth accounting.                                                   *)
(***************************************************************************)
\* The window has room for one more packet.
ReadInv == rcvd < DownloadLimit /\ ReadsAreFresh

\* The bytes counted never reach the download limit, so net.receive always reads
\* (ReadsAreFresh).
THEOREM FreshReads == Spec => []ReadsAreFresh
<1>. USE DEF queueVars, taskVars, passVars, watchVars, trafficVars
<1>1. Init => ReadInv
  BY ConfigAssumption DEF Init, ReadInv, ReadsAreFresh
<1>2. TypeInv /\ ReadInv /\ [Next]_vars => ReadInv'
  <2>. SUFFICES ASSUME TypeInv, ReadInv, [Next]_vars PROVE ReadInv'
    OBVIOUS
  <2>t. rcvd \in Nat /\ rcvd < DownloadLimit /\ ~stale /\ DownloadLimit \in Nat \ {0}
    BY ConfigAssumption DEF TypeInv, TypeOK, ReadInv, ReadsAreFresh
  <2>r. ASSUME Receive PROVE ReadInv'
    <3>1. rcvd' < DownloadLimit
      BY <2>r, <2>t DEF Receive, Over
    <3>2. ~stale'
      <4>. DEFINE base == IF rcvdOld THEN 0 ELSE rcvd
                  full == base >= DownloadLimit
      <4>1. stale' = full
        BY <2>r DEF Receive
      <4>2. ~full
        BY <2>t
      <4>. HIDE DEF full
      <4>. QED
        BY <4>1, <4>2
    <3>. QED
      BY <3>1, <3>2 DEF ReadInv, ReadsAreFresh
  <2>1. CASE \/ \E k \in onwire : ReadAck(k)
             \/ ReadData
             \/ \E k \in ForeignKeys : ReadProxy(k)
             \/ \E k \in ForeignKeys, acked \in BOOLEAN : ReadProxyOneShot(k, acked)
    BY <2>1, <2>r, Zenon DEF ReadAck, ReadData, ReadProxy, ReadProxyOneShot
  <2>2. CASE Retry
    BY <2>2, <2>t DEF Retry, ReadInv, ReadsAreFresh
  <2>3. CASE \/ SendDirect \/ (\E f \in Files, h \in Hosts : TaskAdd(f, h))
             \/ (\E t \in 1 .. MaxTasks : TaskCancel(t))
             \/ SendOneShot \/ SendWindowEnds \/ ReceiveWindowEnds \/ Halted \/ UNCHANGED vars
    <3>1. UNCHANGED <<rcvd, stale>>
      BY <2>3, Zenon DEF SendOneShot, SendDirect, TaskAdd, TaskCancel, SendWindowEnds, ReceiveWindowEnds,
         Halted, vars
    <3>. QED
      BY <3>1 DEF ReadInv, ReadsAreFresh
  <2>4. CASE WriteCb
    BY <2>4 DEF WriteCb, WriteStart, DispatchExpire, DispatchSkip, DispatchCut, DispatchSend,
       WriteDone, ReadInv, ReadsAreFresh
  <2>5. CASE InstantCb
    <3>1. UNCHANGED <<rcvd, stale>>
      BY <2>5, Zenon DEF InstantCb, InstantStart, InstantPass, InstantCut, InstantSend,
         InstantSent, Purge, PurgeDone
    <3>. QED
      BY <3>1 DEF ReadInv, ReadsAreFresh
  <2>. QED
    BY <2>1, <2>2, <2>3, <2>4, <2>5, Zenon DEF Next
<1>3. ReadInv => ReadsAreFresh
  BY Zenon DEF ReadInv
<1>. QED
  BY <1>1, <1>2, <1>3, InitTypeInv, NextTypeInv, PTL DEF Spec

(***************************************************************************)
(* Without relayed packets, keys are unique and packets leave for cause.   *)
(***************************************************************************)
\* Keys in use were made from an earlier pidx, and a one-shot packet shares none.
OwnInv ==
    /\ "duplicate" \notin past
    /\ \A k \in DOMAIN index : k[1] < pidx
    /\ \A i \in DOMAIN instant : instant[i].key[1] < pidx /\ instant[i].key \notin DOMAIN index

\* task.update makes new keys only.
LEMMA TaskUpdateOwn ==
    ASSUME pidx \in Nat, NEW n \in Nat, NEW q, NEW x, IsIndex(x, lastId),
           NEW ts, AreTasks(ts, n), NEW fs, NEW drop, NEW ok \in BOOLEAN,
           "duplicate" \notin past, \A k \in DOMAIN x : k[1] < pidx,
           TaskUpdate(q, x, ts, fs, drop, ok)
    PROVE  /\ "duplicate" \notin past' /\ pidx' \in Nat /\ pidx <= pidx'
           /\ \A k \in DOMAIN index' : k[1] < pidx' /\ (k \in DOMAIN x \/ k[1] >= pidx)
<1>1. CASE ~UpdateReady(q, ts) \/ ~ok
  <2>1. past' \subseteq past \cup {"readfail"} /\ pidx' = pidx /\ DOMAIN index' \subseteq DOMAIN x
    BY <1>1, Zenon DEF TaskUpdate, ResumeFails, Unindexed, Without
  <2>2. \A k \in DOMAIN index' : k \in DOMAIN x /\ k[1] < pidx
    BY <2>1, Zenon
  <2>3. "duplicate" \notin past'
    BY <2>1, Zenon
  <2>4. pidx' \in Nat /\ pidx <= pidx'
    BY <2>1
  <2>5. pidx' = pidx
    BY <2>1, Zenon
  <2>. QED
    BY <2>2, <2>3, <2>4, <2>5, Zenon
<1>2. CASE UpdateReady(q, ts) /\ ok
  <2>. DEFINE t == Least(DOMAIN ts)
              c == Chunk(ts, t)
  <2>1. t \in DOMAIN ts
    BY <1>2, LeastIsMember, SMTT(30) DEF UpdateReady, AreTasks
  <2>2. c \in Nat
    BY <2>1, ChunkTypes, Zenon
  <2>3. /\ pidx' = pidx + c /\ past' = past \cup Clash(x, NewKeys(c, t))
        /\ index' = Without(Indexed(x, c, t), drop)
    BY <1>2, Zenon DEF TaskUpdate, Resume, Unindexed
  <2>. HIDE DEF t, c
  <2>4. \A k \in NewKeys(c, t) : k[1] \in pidx .. pidx + c - 1
    BY DEF NewKeys
  <2>a. /\ \A j \in pidx .. pidx + c - 1 : j \in Nat /\ ~(j < pidx) /\ j >= pidx /\ j < pidx + c
        /\ \A j \in Nat : j < pidx => j < pidx + c
        /\ pidx + c \in Nat /\ pidx <= pidx + c
    BY <2>2
  <2>5. NewKeys(c, t) \cap DOMAIN x = {}
    BY <2>4, <2>a, Zenon
  <2>6. DOMAIN index' \subseteq DOMAIN x \cup NewKeys(c, t)
    BY <2>3 DEF Without, Indexed
  <2>7. \A k \in DOMAIN x : k[1] \in Nat
    BY Zenon DEF IsIndex, Keys
  <2>8. ASSUME NEW k \in DOMAIN index' PROVE k[1] < pidx' /\ (k \in DOMAIN x \/ k[1] >= pidx)
    <3>1. CASE k \in NewKeys(c, t)
      BY <3>1, <2>3, <2>4, <2>a, Zenon
    <3>2. CASE k \in DOMAIN x
      BY <3>2, <2>3, <2>7, <2>a, Zenon
    <3>. QED
      BY <2>6, <3>1, <3>2, Zenon
  <2>9. "duplicate" \notin past'
    BY <2>3, <2>5, Zenon DEF Clash
  <2>10. pidx' \in Nat /\ pidx <= pidx'
    BY <2>3, <2>a, Zenon
  <2>. QED
    BY <2>8, <2>9, <2>10, Zenon
<1>. QED
  BY <1>1, <1>2, Zenon

\* net.ack adds nothing but the keys of such an update.
LEMMA AckOwn ==
    ASSUME TypeOK, OwnInv, NEW q, NEW k, NEW saved, NEW ok \in BOOLEAN, Ack(q, k, saved, ok)
    PROVE  /\ "duplicate" \notin past' /\ pidx' \in Nat /\ pidx <= pidx'
           /\ \A j \in DOMAIN index' : j[1] < pidx' /\ (j \in DOMAIN index \/ j[1] >= pidx)
<1>1. CASE k \notin DOMAIN index \/ index[k] \notin DOMAIN q
  BY <1>1, SMTT(30) DEF Ack, OwnInv, TypeOK
<1>2. CASE k \in DOMAIN index /\ index[k] \in DOMAIN q
  <2>. DEFINE r == Without(q, {index[k]})
              d == {k}
  <2>1. TaskUpdate(r, index, tasks, files, d, ok)
    BY <1>2, Zenon DEF Ack
  <2>2. /\ pidx \in Nat /\ tidx \in Nat /\ IsIndex(index, lastId) /\ AreTasks(tasks, tidx)
        /\ "duplicate" \notin past /\ \A j \in DOMAIN index : j[1] < pidx
    BY DEF TypeOK, OwnInv
  <2>. HIDE DEF r, d
  <2>. QED
    BY <2>1, <2>2, TaskUpdateOwn, Zenon
<1>. QED
  BY <1>1, <1>2, Zenon

\* Every step keeps the keys unique.
LEMMA NextOwnInv ==
    ASSUME ForeignKeys = {}
    PROVE  TypeInv /\ OwnInv /\ [Next]_vars => OwnInv'
<1>. SUFFICES ASSUME TypeInv, OwnInv, [Next]_vars PROVE OwnInv'
  BY Zenon
<1>. USE DEF queueVars, taskVars, passVars, watchVars, trafficVars
<1>t. /\ TypeOK /\ lastId \in Nat /\ pidx \in Nat /\ tidx \in Nat /\ cursor \in Nat
      /\ IsIndex(index, lastId) /\ AreTasks(tasks, tidx) /\ IsList(instant, lastId)
      /\ "duplicate" \notin past
      /\ \A j \in DOMAIN index : j[1] < pidx
  BY DEF TypeInv, TypeOK, OwnInv
<1>k. /\ \A j \in DOMAIN index : j[1] \in Nat
      /\ \A i \in DOMAIN instant : instant[i].key[1] \in Nat
  BY <1>t, Zenon DEF IsIndex, IsList, Items, Keys
\* the common end of all steps that grow the index by later keys
<1>e. ASSUME "duplicate" \notin past', pidx' \in Nat, pidx <= pidx',
             \A j \in DOMAIN index' : j[1] < pidx' /\ (j \in DOMAIN index \/ j[1] >= pidx),
             DOMAIN instant' \subseteq DOMAIN instant,
             \A i \in DOMAIN instant' : instant'[i].key = instant[i].key
      PROVE  OwnInv'
  <2>1. ASSUME NEW i \in DOMAIN instant'
        PROVE  instant'[i].key[1] < pidx' /\ instant'[i].key \notin DOMAIN index'
    <3>1. /\ i \in DOMAIN instant /\ instant'[i].key = instant[i].key
          /\ instant[i].key[1] < pidx /\ instant[i].key \notin DOMAIN index
          /\ instant[i].key[1] \in Nat
      BY <1>e, <1>k, Zenon DEF OwnInv
    <3>. QED
      BY <3>1, <1>e, <1>t, SMTT(30)
  <2>. QED
    BY <1>e, <2>1, Zenon DEF OwnInv
<1>1. CASE SendDirect
  <2>1. /\ pidx' = pidx + 1 /\ index' = Indexed(index, 1, 0) /\ instant' = instant
        /\ past' = past \cup Clash(index, NewKeys(1, 0))
    BY <1>1, Zenon DEF SendDirect
  <2>2. NewKeys(1, 0) = {<<pidx, 0>>}
    BY <1>t DEF NewKeys
  <2>3. <<pidx, 0>> \notin DOMAIN index
    BY <1>t
  <2>4. "duplicate" \notin past'
    BY <1>t, <2>1, <2>2, <2>3, Zenon DEF Clash
  <2>5. DOMAIN index' = DOMAIN index \cup {<<pidx, 0>>}
    BY <2>1, <2>2, Zenon DEF Indexed
  <2>6. \A j \in DOMAIN index' : j[1] < pidx' /\ (j \in DOMAIN index \/ j[1] >= pidx)
    BY <1>t, <1>k, <2>1, <2>5
  <2>. QED
    BY <1>e, <1>t, <2>1, <2>4, <2>6
<1>2. ASSUME NEW f \in Files, NEW h \in Hosts, TaskAdd(f, h) PROVE OwnInv'
  <2>. DEFINE present == files \cup ({f} \cap TcpFiles)
              created == [file |-> f, host |-> h, off |-> 0]
              ts == [t \in DOMAIN tasks \cup {tidx + 1} |->
                        IF t \in DOMAIN tasks THEN tasks[t] ELSE created]
              n == tidx + 1
              none == {}
  <2>1. CASE \E t \in DOMAIN tasks : tasks[t].file = f /\ tasks[t].host = h
    BY <1>2, <2>1, Zenon DEF TaskAdd, OwnInv
  <2>2. CASE ~\E t \in DOMAIN tasks : tasks[t].file = f /\ tasks[t].host = h
    <3>1. PICK ok \in BOOLEAN : TaskUpdate(nbl, index, ts, present, none, ok)
      BY <1>2, <2>2, Zenon DEF TaskAdd
    <3>2. AreTasks(ts, n) /\ n \in Nat
      BY <1>t, TaskAdded, Zenon
    <3>3. instant' = instant
      BY <1>2, Zenon DEF TaskAdd
    <3>. HIDE DEF present, ts, n, none
    <3>4. /\ "duplicate" \notin past' /\ pidx' \in Nat /\ pidx <= pidx'
          /\ \A j \in DOMAIN index' : j[1] < pidx' /\ (j \in DOMAIN index \/ j[1] >= pidx)
      BY <3>1, <3>2, <1>t, TaskUpdateOwn, Zenon
    <3>. QED
      BY <1>e, <3>3, <3>4
  <2>. QED
    BY <2>1, <2>2, Zenon
<1>3. CASE \/ \E t \in 1 .. MaxTasks : TaskCancel(t)
           \/ SendWindowEnds \/ ReceiveWindowEnds \/ Retry \/ WriteStart \/ WriteDone
           \/ DispatchSkip \/ DispatchSend \/ InstantStart \/ InstantSent
           \/ Halted \/ UNCHANGED vars
  <2>1. UNCHANGED <<index, pidx, instant, past>>
    BY <1>3, Zenon DEF TaskCancel, SendWindowEnds, ReceiveWindowEnds, Retry, WriteStart, WriteDone,
       DispatchSkip, DispatchSend, InstantStart, InstantSent, Halted, vars
  <2>. QED
    BY <2>1 DEF OwnInv
<1>4. CASE DispatchCut
  BY <1>4, Zenon DEF DispatchCut, OwnInv
<1>5. CASE PurgeDone
  BY <1>5 DEF PurgeDone, OwnInv, Empty
<1>6. ASSUME NEW k \in onwire, ReadAck(k) PROVE OwnInv'
  <2>1. PICK ok \in BOOLEAN : Ack(nbl, k, 0, ok)
    BY <1>6, Zenon DEF ReadAck
  <2>2. instant' = instant
    BY <1>6 DEF ReadAck
  <2>. QED
    BY <1>t, <1>e, <2>1, <2>2, AckOwn, Zenon
<1>7. CASE ReadData \/ SendOneShot
  <2>1. instant' = OneShot(lastId + 1) /\ pidx' = pidx + 1 /\ index' = index /\ past' = past
    BY <1>7, Zenon DEF ReadData, SendOneShot
  <2>2. \A i \in DOMAIN instant' :
           \/ i \in DOMAIN instant /\ instant'[i] = instant[i]
           \/ instant'[i].key = <<pidx, 0>>
    BY <2>1, Zenon DEF OneShot
  <2>3. <<pidx, 0>> \notin DOMAIN index
    BY <1>t
  <2>4. ASSUME NEW i \in DOMAIN instant'
        PROVE  instant'[i].key[1] < pidx' /\ instant'[i].key \notin DOMAIN index'
    <3>1. CASE i \in DOMAIN instant /\ instant'[i] = instant[i]
      BY <3>1, <1>t, <1>k, <2>1 DEF OwnInv
    <3>2. CASE instant'[i].key = <<pidx, 0>>
      BY <3>2, <1>t, <2>1, <2>3
    <3>. QED
      BY <2>2, <3>1, <3>2, Zenon
  <2>5. \A j \in DOMAIN index' : j[1] < pidx'
    BY <1>t, <1>k, <2>1
  <2>. QED
    BY <1>t, <2>1, <2>4, <2>5, Zenon DEF OwnInv
<1>8. CASE DispatchExpire
  <2>1. PICK ok \in BOOLEAN : Ack(Bumped(nbl), nbl[cursor].key, Following(nbl, cursor), ok)
    BY <1>8 DEF DispatchExpire
  <2>2. instant' = instant
    BY <1>8, Zenon DEF DispatchExpire
  <2>3. /\ "duplicate" \notin past' /\ pidx' \in Nat /\ pidx <= pidx'
        /\ \A j \in DOMAIN index' : j[1] < pidx' /\ (j \in DOMAIN index \/ j[1] >= pidx)
    BY <1>t, <2>1, AckOwn, Zenon
  <2>. QED
    BY <1>e, <2>2, <2>3, Zenon
<1>b. DOMAIN Bumped(instant) = DOMAIN instant
      /\ \A i \in DOMAIN instant : Bumped(instant)[i].key = instant[i].key
  <2>1. \A i \in DOMAIN instant : instant[i] \in Items
    BY <1>t DEF IsList
  <2>. QED
    BY <2>1 DEF Bumped, Items
<1>9. CASE InstantPass
  <2>1. instant' = Bumped(instant)
    BY <1>9 DEF InstantPass
  <2>2. CASE Expired(instant[cursor])
    <3>1. PICK ok \in BOOLEAN : Ack(nbl, instant[cursor].key, 0, ok)
      BY <1>9, <2>2, Zenon DEF InstantPass
    <3>2. /\ "duplicate" \notin past' /\ pidx' \in Nat /\ pidx <= pidx'
          /\ \A j \in DOMAIN index' : j[1] < pidx' /\ (j \in DOMAIN index \/ j[1] >= pidx)
      BY <1>t, <3>1, AckOwn, Zenon
    <3>. QED
      BY <1>b, <1>e, <2>1, <3>2, Zenon
  <2>3. CASE ~Expired(instant[cursor])
    <3>1. UNCHANGED <<index, pidx, past>>
      BY <1>9, <2>3, Zenon DEF InstantPass
    <3>. QED
      BY <1>b, <1>e, <1>t, <2>1, <3>1
  <2>. QED
    BY <2>2, <2>3, Zenon
<1>10. CASE InstantCut
  <2>1. instant' = Bumped(instant) /\ UNCHANGED <<index, pidx, past>>
    BY <1>10 DEF InstantCut
  <2>. QED
    BY <1>b, <1>e, <1>t, <2>1
<1>11. CASE InstantSend \/ Purge
  <2>. DEFINE none == {}
  <2>1. PICK ok \in BOOLEAN : TaskUpdate(nbl, index, tasks, files, none, ok)
    BY <1>11 DEF InstantSend, Purge
  <2>2. DOMAIN instant' \subseteq DOMAIN instant
        /\ \A i \in DOMAIN instant' : instant'[i].key = instant[i].key
    BY <1>11, Zenon DEF InstantSend, Purge, Without
  <2>. HIDE DEF none
  <2>3. /\ "duplicate" \notin past' /\ pidx' \in Nat /\ pidx <= pidx'
        /\ \A j \in DOMAIN index' : j[1] < pidx' /\ (j \in DOMAIN index \/ j[1] >= pidx)
    BY <1>t, <2>1, TaskUpdateOwn, Zenon
  <2>. QED
    BY <1>e, <2>2, <2>3, Zenon
<1>. QED
  BY <1>1, <1>2, <1>3, <1>4, <1>5, <1>6, <1>7, <1>8, <1>9, <1>10, <1>11, Zenon
  DEF Next, WriteCb, InstantCb

\* At the start no key is in use.
LEMMA InitOwnInv == Init => OwnInv
  BY DEF Init, OwnInv, Empty

\* A peer that relays nothing never gives two packets the same key: no index
\* entry is ever overwritten.
THEOREM KeysAreUnique ==
    ASSUME ForeignKeys = {}
    PROVE  Spec => []("duplicate" \notin past)
<1>1. TypeInv /\ OwnInv /\ [Next]_vars => OwnInv'
  BY NextOwnInv, Zenon
<1>2. OwnInv => "duplicate" \notin past
  BY DEF OwnInv
<1>. QED
  BY <1>1, <1>2, InitTypeInv, NextTypeInv, InitOwnInv, PTL DEF Spec

\* A packet of a peer that relays nothing leaves the list because it was on the
\* wire, where it may have been acknowledged, or after SendRetry attempts
\* (LeavesForCause).
THEOREM PacketsLeaveForCause ==
    ASSUME ForeignKeys = {}
    PROVE  Spec => LeavesForCause
<1>. USE DEF queueVars, taskVars, passVars, watchVars, trafficVars
<1>. DEFINE Cause == \A i \in DOMAIN nbl \ DOMAIN nbl' :
                        \/ nbl[i].key \in onwire
                        \/ nbl[i].attempt >= SendRetry
                        \/ "duplicate" \in past
<1>1. TypeInv /\ IndexInv /\ OwnInv /\ [Next]_vars => Cause
  <2>. SUFFICES ASSUME TypeInv, IndexInv, OwnInv, [Next]_vars,
                       NEW i \in DOMAIN nbl, i \notin DOMAIN nbl'
                PROVE  nbl[i].key \in onwire \/ nbl[i].attempt >= SendRetry
    BY Zenon
  <2>t. /\ TypeOK /\ lastId \in Nat /\ pidx \in Nat /\ tidx \in Nat /\ cursor \in Nat
        /\ AreTasks(tasks, tidx) /\ IsList(nbl, lastId) /\ IsIndex(index, lastId)
        /\ Pointed(nbl, index) /\ IndexAgrees /\ "duplicate" \notin past
    BY SMTT(30) DEF TypeInv, TypeOK, IndexInv, OwnInv
  <2>b. IsList(Bumped(nbl), lastId) /\ DOMAIN Bumped(nbl) = DOMAIN nbl
    BY <2>t, BumpedTypes, Zenon
  <2>1. ASSUME NEW k \in onwire, ReadAck(k) PROVE nbl[i].key \in onwire
    <3>1. PICK ok \in BOOLEAN : Ack(nbl, k, 0, ok)
      BY <2>1 DEF ReadAck
    <3>2. k \in DOMAIN index /\ i = index[k]
      <4>1. AckFreed(nbl, k, i)
        BY <2>t, <3>1, Zenon DEF AckFreed
      <4>. QED
        BY <4>1, AckFrees, Zenon
    <3>. QED
      BY <2>t, <3>2, Zenon DEF Pointed
  <2>2. CASE DispatchExpire
    <3>. DEFINE k == nbl[cursor].key
    <3>1. PICK ok \in BOOLEAN : Ack(Bumped(nbl), k, Following(nbl, cursor), ok)
      BY <2>2, Zenon DEF DispatchExpire
    <3>2. k \in DOMAIN index /\ i = index[k]
      <4>. HIDE DEF k
      <4>1. AckFreed(Bumped(nbl), k, i)
        BY <2>t, <2>b, <3>1, Zenon DEF AckFreed
      <4>. QED
        BY <4>1, AckFrees, Zenon
    <3>3. cursor \in DOMAIN nbl
      BY <2>2, Zenon DEF DispatchExpire, At, TypeInv, CursorOK
    <3>4. i = cursor
      BY <2>t, <3>2, <3>3, Zenon DEF IndexAgrees
    <3>5. nbl[cursor].attempt \in Nat /\ nbl[cursor].attempt + 1 > SendRetry
      BY <2>2, <2>t, <3>3, Zenon DEF DispatchExpire, Expired, IsList, Items
    <3>. QED
      BY <3>4, <3>5, ConfigAssumption
  <2>3. CASE InstantPass
    <3>. DEFINE k == instant[cursor].key
    <3>1. k \notin DOMAIN index
      BY <2>3, Zenon DEF InstantPass, At, TypeInv, CursorOK, OwnInv
    <3>2. CASE Expired(instant[cursor])
      <4>1. PICK ok \in BOOLEAN : Ack(nbl, k, 0, ok)
        BY <2>3, <3>2, Zenon DEF InstantPass
      <4>2. nbl' = nbl
        BY <3>1, <4>1, Zenon DEF Ack
      <4>. QED
        BY <4>2
    <3>3. CASE ~Expired(instant[cursor])
      BY <2>3, <3>3, Zenon DEF InstantPass
    <3>. QED
      BY <3>2, <3>3, Zenon
  <2>4. ASSUME NEW f \in Files, NEW h \in Hosts, TaskAdd(f, h) PROVE FALSE
    <3>. DEFINE present == files \cup ({f} \cap TcpFiles)
                created == [file |-> f, host |-> h, off |-> 0]
                ts == [t \in DOMAIN tasks \cup {tidx + 1} |->
                          IF t \in DOMAIN tasks THEN tasks[t] ELSE created]
    <3>1. CASE \E t \in DOMAIN tasks : tasks[t].file = f /\ tasks[t].host = h
      BY <2>4, <3>1, Zenon DEF TaskAdd
    <3>2. CASE ~\E t \in DOMAIN tasks : tasks[t].file = f /\ tasks[t].host = h
      <4>1. PICK ok \in BOOLEAN : TaskUpdate(nbl, index, ts, present, {}, ok)
        BY <2>4, <3>2, Zenon DEF TaskAdd
      <4>. HIDE DEF ts, present
      <4>2. DOMAIN nbl \subseteq DOMAIN nbl'
        BY <4>1 DEF TaskUpdate, Resume, ResumeFails, Submitted
      <4>. QED
        BY <4>2, Zenon
    <3>. QED
      BY <3>1, <3>2, Zenon
  <2>5. CASE InstantSend \/ Purge
    <3>1. PICK ok \in BOOLEAN : TaskUpdate(nbl, index, tasks, files, {}, ok)
      BY <2>5, Zenon DEF InstantSend, Purge
    <3>2. DOMAIN nbl \subseteq DOMAIN nbl'
      BY <2>t, <3>1, UpdateTypes
    <3>. QED
      BY <3>2, Zenon
  <2>6. CASE SendDirect
    BY <2>6, Zenon DEF SendDirect, Submitted
  <2>7. CASE DispatchSkip \/ DispatchCut \/ DispatchSend
    BY <2>7, <2>b, Zenon DEF DispatchSkip, DispatchCut, DispatchSend
  <2>8. CASE \/ \E t \in 1 .. MaxTasks : TaskCancel(t)
             \/ (\E k \in ForeignKeys, acked \in BOOLEAN : ReadProxyOneShot(k, acked))
             \/ ReadData \/ SendOneShot \/ SendWindowEnds \/ ReceiveWindowEnds \/ Retry \/ WriteStart
             \/ WriteDone \/ InstantStart \/ InstantCut \/ InstantSent \/ PurgeDone
             \/ Halted \/ UNCHANGED vars
    <3>1. nbl' = nbl
      BY <2>8, Zenon DEF TaskCancel, ReadData, SendOneShot, ReadProxyOneShot, SendWindowEnds,
         ReceiveWindowEnds, Retry, WriteStart, WriteDone, InstantStart, InstantCut, InstantSent, PurgeDone, Halted, vars
    <3>. QED
      BY <3>1
  <2>. QED
    BY <2>1, <2>2, <2>3, <2>4, <2>5, <2>6, <2>7, <2>8, Zenon DEF Next, WriteCb, InstantCb
<1>2. TypeInv /\ OwnInv /\ [Next]_vars => OwnInv'
  BY NextOwnInv
<1>. QED
  BY <1>1, <1>2, InitTypeInv, NextTypeInv, InitOwnInv, InitIndexInv, NextIndexInv, PTL
  DEF Spec, LeavesForCause

(***************************************************************************)
(* Without relayed packets, the whole behaves as an Outbox.                *)
(***************************************************************************)
\* Q maps the keys of the packets of list l to their attempts.
Shown(Q, l) ==
    /\ Q = [k \in DOMAIN Q |-> Q[k]]
    /\ DOMAIN Q = {l[i].key : i \in DOMAIN l}
    /\ \A i \in DOMAIN l : Q[l[i].key] = l[i].attempt

\* Q with n new packets of task t, which have not been tried.
Extended(Q, n, t) == [k \in DOMAIN Q \cup NewKeys(n, t) |-> IF k \in DOMAIN Q THEN Q[k] ELSE 0]

\* A list shows one queue only.
LEMMA ShownOnce ==
    ASSUME NEW A, NEW B, NEW l, Shown(A, l), Shown(B, l)
    PROVE  A = B
<1>1. DOMAIN A = DOMAIN B
  BY Zenon DEF Shown
<1>2. ASSUME NEW k \in DOMAIN A PROVE A[k] = B[k]
  <2>1. PICK i \in DOMAIN l : k = l[i].key
    BY DEF Shown
  <2> QED BY <2>1, Zenon DEF Shown
<1>3. A = [k \in DOMAIN A |-> A[k]] /\ B = [k \in DOMAIN B |-> B[k]]
  BY DEF Shown
<1> QED BY <1>1, <1>2, <1>3, Zenon

\* When the index leads from the key of each item to that item, it shows the list.
LEMMA IndexShows ==
    ASSUME NEW l, NEW x, \A i \in DOMAIN l : x[l[i].key] = i
    PROVE  Shown([k \in {l[i].key : i \in DOMAIN l} |-> l[x[k]].attempt], l)
<1> DEFINE keys == {l[i].key : i \in DOMAIN l}
           Q == [k \in keys |-> l[x[k]].attempt]
<1>1. DOMAIN Q = keys /\ Q = [k \in DOMAIN Q |-> Q[k]]
  BY Zenon
<1>2. ASSUME NEW i \in DOMAIN l PROVE Q[l[i].key] = l[i].attempt
  <2>1. PICK k \in keys : k = l[i].key
    BY Zenon
  <2>2. Q[k] = l[x[k]].attempt
    OBVIOUS
  <2> QED BY <2>1, <2>2, Zenon
<1> HIDE DEF Q
<1>3. Shown(Q, l)
  BY <1>1, <1>2, Zenon DEF Shown
<1> QED BY <1>3, Zenon DEF Q

\* del_item takes the key of the item out of the queue.
LEMMA RemovedShows ==
    ASSUME NEW l, NEW x, \A i \in DOMAIN l : x[l[i].key] = i,
           NEW Q, Shown(Q, l), NEW j \in DOMAIN l
    PROVE  Shown([k \in DOMAIN Q \ {l[j].key} |-> Q[k]], Without(l, {j}))
<1> DEFINE R == [k \in DOMAIN Q \ {l[j].key} |-> Q[k]]
           m == Without(l, {j})
<1>1. DOMAIN m = DOMAIN l \ {j} /\ \A i \in DOMAIN m : m[i] = l[i]
  BY Zenon DEF Without
<1>2. DOMAIN R = DOMAIN Q \ {l[j].key} /\ R = [k \in DOMAIN R |-> R[k]]
  BY Zenon
<1>3. \A k \in DOMAIN R : R[k] = Q[k]
  BY Zenon
<1>4. \A i \in DOMAIN l : l[i].key = l[j].key => i = j
  <2>1. x[l[j].key] = j
    BY Zenon
  <2> QED BY <2>1, Zenon
<1> HIDE DEF R, m
<1>5. DOMAIN R = {m[i].key : i \in DOMAIN m}
  BY <1>1, <1>2, <1>4 DEF Shown
<1>6. \A i \in DOMAIN m : R[m[i].key] = m[i].attempt
  BY <1>1, <1>3, <1>5 DEF Shown
<1>7. Shown(R, m)
  BY <1>2, <1>5, <1>6, Zenon DEF Shown
<1> QED BY <1>7, Zenon DEF R, m

\* data.send adds the keys of the new packets.
LEMMA SubmittedShows ==
    ASSUME lastId \in Nat, pidx \in Nat, NEW n \in Nat, NEW t \in Nat,
           NEW q, IsList(q, lastId), \A i \in DOMAIN q : q[i].key[1] < pidx,
           NEW Q, Shown(Q, q)
    PROVE  Shown(Extended(Q, n, t), Submitted(q, n, t))
<1> DEFINE E == Extended(Q, n, t)
           S == Submitted(q, n, t)
           N == NewKeys(n, t)
           new == lastId + 1 .. lastId + n
           none == [k \in {} |-> 0]
           I == Indexed(none, n, t)
<1>1. Linked(S, I, q, none, N, new)
  <2>1. IsIndex(none, lastId)
    BY Zenon DEF IsIndex
  <2> HIDE DEF none
  <2> QED BY <2>1, SubmittedEntries
<1>2. \A i \in new : S[i].attempt = 0
  <2>1. DOMAIN q \cap new = {}
    BY DEF IsList
  <2> QED BY <2>1 DEF Submitted
<1>3. /\ DOMAIN E = DOMAIN Q \cup N /\ E = [k \in DOMAIN E |-> E[k]]
      /\ \A k \in DOMAIN Q : E[k] = Q[k]
      /\ \A k \in N \ DOMAIN Q : E[k] = 0
  BY Zenon DEF Extended
<1>4. N \cap DOMAIN Q = {}
  <2>1. \A k \in N : k[1] >= pidx
    BY DEF NewKeys
  <2>2. \A k \in DOMAIN Q : \E i \in DOMAIN q : k = q[i].key
    BY DEF Shown
  <2>3. \A i \in DOMAIN q : q[i].key[1] \in Nat
    BY Zenon DEF IsList, Items, Keys
  <2> HIDE DEF N
  <2> QED BY <2>1, <2>2, <2>3
<1> HIDE DEF E, S, N, new, none, I
<1>5. /\ DOMAIN S = DOMAIN q \cup new
      /\ \A i \in DOMAIN q : S[i] = q[i]
      /\ \A i \in new : S[i].key \in N
      /\ \A k \in N : \E i \in new : S[i].key = k
  BY <1>1, Zenon DEF Linked
<1>6. DOMAIN E = {S[i].key : i \in DOMAIN S}
  <2>1. DOMAIN E \subseteq {S[i].key : i \in DOMAIN S}
    BY <1>3, <1>5, ZenonT(60) DEF Shown
  <2>2. {S[i].key : i \in DOMAIN S} \subseteq DOMAIN E
    BY <1>3, <1>5, ZenonT(60) DEF Shown
  <2> QED BY <2>1, <2>2, Zenon
<1>7. \A i \in DOMAIN S : E[S[i].key] = S[i].attempt
  <2>1. ASSUME NEW i \in DOMAIN q PROVE E[S[i].key] = S[i].attempt
    BY <1>3, <1>5, ZenonT(60) DEF Shown
  <2>2. ASSUME NEW i \in new PROVE E[S[i].key] = S[i].attempt
    BY <1>2, <1>3, <1>4, <1>5, Zenon
  <2> QED BY <1>5, <2>1, <2>2, Zenon
<1>8. Shown(E, S)
  BY <1>3, <1>6, <1>7, Zenon DEF Shown
<1> QED BY <1>8, Zenon DEF E, S

\* One part joins the queue Q, or none.
Posts(Q) ==
    \E c \in 0 .. PartPackets, t \in 0 .. MaxTasks :
        Shown(Extended(Q, c, t), nbl') /\ pidx' = pidx + c

\* List q shows Q, and its packets have numbers that were given, when task.update is
\* called for the tasks ts.
Showing(Q, q, ts) ==
    /\ lastId \in Nat /\ pidx \in Nat /\ IsList(q, lastId)
    /\ \A i \in DOMAIN q : q[i].key[1] < pidx
    /\ \E n \in Nat : n <= MaxTasks /\ AreTasks(ts, n)
    /\ Shown(Q, q)

\* task.update posts one part of the head task, or nothing.
LEMMA UpdatePosts ==
    ASSUME NEW q, NEW x, NEW ts, NEW fs, NEW drop, NEW ok \in BOOLEAN, NEW Q,
           Showing(Q, q, ts), TaskUpdate(q, x, ts, fs, drop, ok)
    PROVE  Posts(Q)
<1>a. /\ lastId \in Nat /\ pidx \in Nat /\ IsList(q, lastId) /\ Shown(Q, q)
      /\ \A i \in DOMAIN q : q[i].key[1] < pidx
  BY Zenon DEF Showing
<1>b. PICK n \in Nat : n <= MaxTasks /\ AreTasks(ts, n)
  BY DEF Showing
<1>0. MaxTasks \in Nat /\ PartPackets \in Nat
  BY FileAssumption, ConfigAssumption, Zenon
<1>1. CASE ~UpdateReady(q, ts) \/ ~ok
  <2>1. nbl' = q /\ pidx' = pidx
    BY <1>1, Zenon DEF TaskUpdate, ResumeFails
  <2>2. Extended(Q, 0, 0) = Q
    <3>1. NewKeys(0, 0) = {}
      BY <1>a DEF NewKeys
    <3>2. Extended(Q, 0, 0) = [k \in DOMAIN Q |-> Q[k]]
      BY <3>1, Zenon DEF Extended
    <3> QED BY <1>a, <3>2, Zenon DEF Shown
  <2>3. 0 \in 0 .. PartPackets /\ 0 \in 0 .. MaxTasks /\ pidx' = pidx + 0
    BY <1>0, <1>a, <2>1
  <2>4. Shown(Extended(Q, 0, 0), nbl')
    BY <1>a, <2>1, <2>2, Zenon
  <2> QED BY <2>3, <2>4, Zenon DEF Posts
<1>2. CASE UpdateReady(q, ts) /\ ok
  <2> DEFINE t == Least(DOMAIN ts)
             c == Chunk(ts, t)
  <2>1. t \in DOMAIN ts
    BY <1>b, <1>2, LeastIsMember DEF UpdateReady, AreTasks
  <2>2. c \in Nat /\ c <= PartPackets /\ t \in Nat
    BY <1>b, <2>1, ChunkTypes, Zenon
  <2>3. t <= MaxTasks
    BY <1>0, <1>b, <2>1 DEF AreTasks
  <2>4. nbl' = Submitted(q, c, t) /\ pidx' = pidx + c
    BY <1>2, Zenon DEF TaskUpdate, Resume
  <2> HIDE DEF t, c
  <2>5. Shown(Extended(Q, c, t), nbl')
    BY <1>a, <2>2, <2>4, SubmittedShows, Zenon
  <2>6. c \in 0 .. PartPackets /\ t \in 0 .. MaxTasks
    BY <1>0, <2>2, <2>3
  <2> QED BY <2>4, <2>5, <2>6, Zenon DEF Posts
<1> QED BY <1>1, <1>2

\* The packets of the list are reached through the index and have an earlier pidx.
Reached(l) == \A i \in DOMAIN l : index[l[i].key] = i /\ l[i].key[1] < pidx

\* What of the invariants the Outbox is shown from.
LEMMA ReachedByIndex ==
    ASSUME IndexInv, OwnInv
    PROVE  Reached(nbl) /\ \A i \in DOMAIN nbl : nbl[i].key \in DOMAIN index
  BY Zenon DEF IndexInv, IndexAgrees, OwnInv, Reached

\* The Outbox is what the list shows.
LEMMA OutboxShown == IndexInv /\ OwnInv => Shown(OutboxQueue, nbl)
<1> SUFFICES ASSUME IndexInv, OwnInv PROVE Shown(OutboxQueue, nbl)
  OBVIOUS
<1>1. \A i \in DOMAIN nbl : index[nbl[i].key] = i
  BY ReachedByIndex, Zenon DEF Reached
<1>2. Shown([k \in {nbl[i].key : i \in DOMAIN nbl} |-> nbl[index[k]].attempt], nbl)
  BY <1>1, IndexShows, Zenon
<1> QED BY <1>2 DEF OutboxQueue

\* Key k leaves the queue and the room is filled with one part, or none.
Departs(Q, k) == k \in DOMAIN Q /\ Posts([j \in DOMAIN Q \ {k} |-> Q[j]])

\* net.ack out of the list as a pass has left it: nothing changes, or the packet leaves
\* and a part is posted.
LEMMA AckLeaves ==
    ASSUME TypeOK, tidx <= MaxTasks, NEW q, IsList(q, lastId), Reached(q),
           NEW k, NEW saved, NEW ok \in BOOLEAN, NEW Q, Shown(Q, q), Ack(q, k, saved, ok),
           k \in DOMAIN index => (index[k] \in DOMAIN q => q[index[k]].key = k)
    PROVE  (nbl' = q /\ index' = index /\ pidx' = pidx) \/ Departs(Q, k)
<1>1. CASE k \notin DOMAIN index \/ index[k] \notin DOMAIN q
  BY <1>1, Zenon DEF Ack
<1>2. CASE k \in DOMAIN index /\ index[k] \in DOMAIN q
  <2> DEFINE r == Without(q, {index[k]})
             d == {k}
             R == [j \in DOMAIN Q \ {k} |-> Q[j]]
  <2>1. TaskUpdate(r, index, tasks, files, d, ok)
    BY <1>2, Zenon DEF Ack
  <2>2. PICK i \in DOMAIN q : i = index[k]
    BY <1>2, Zenon
  <2>3. q[i].key = k
    BY <1>2, <2>2, Zenon
  <2>4. k \in DOMAIN Q
    BY <2>2, <2>3, Zenon DEF Shown
  <2>5. \A m \in DOMAIN q : index[q[m].key] = m
    BY Zenon DEF Reached
  <2>6. Shown([j \in DOMAIN Q \ {q[i].key} |-> Q[j]], Without(q, {i}))
    BY <2>5, RemovedShows, Zenon
  <2>7. Shown(R, r)
    BY <2>2, <2>3, <2>6, Zenon
  <2>8. /\ pidx \in Nat /\ tidx \in Nat /\ lastId \in Nat /\ AreTasks(tasks, tidx)
        /\ IsList(r, lastId)
    BY WithoutTypes, Zenon DEF TypeOK
  <2>9. \A m \in DOMAIN r : r[m].key[1] < pidx
    BY Zenon DEF Reached, Without
  <2> HIDE DEF r, d, R
  <2>10. Showing(R, r, tasks)
    BY <2>7, <2>8, <2>9, Zenon DEF Showing
  <2>11. Posts(R)
    BY <2>1, <2>10, UpdatePosts, Zenon
  <2> QED BY <2>4, <2>11, Zenon DEF R, Departs
<1> QED BY <1>1, <1>2, Zenon

\* A part posted to the list is a Post of the Outbox, or nothing.
LEMMA PostStep ==
    ASSUME NEW c \in 0 .. PartPackets, NEW t \in 0 .. MaxTasks, pidx \in Nat,
           Shown(OutboxQueue, nbl), Shown(OutboxQueue', nbl'),
           Shown(Extended(OutboxQueue, c, t), nbl'), pidx' = pidx + c, onwire' = onwire
    PROVE  [O!Next]_(O!vars)
<1>1. OutboxQueue' = Extended(OutboxQueue, c, t)
  <2>1. PICK B : B = OutboxQueue'
    OBVIOUS
  <2>2. PICK m : m = nbl'
    OBVIOUS
  <2> QED BY <2>1, <2>2, ShownOnce, Zenon
<1>0. PartPackets \in Nat
  BY ConfigAssumption, Zenon
<1>2. CASE c = 0
  <2>1. NewKeys(c, t) = {}
    BY <1>2 DEF NewKeys
  <2>2. Extended(OutboxQueue, c, t) = [k \in DOMAIN OutboxQueue |-> OutboxQueue[k]]
    BY <2>1, Zenon DEF Extended
  <2>3. OutboxQueue' = OutboxQueue
    BY <1>1, <2>2, Zenon DEF Shown
  <2>4. pidx' = pidx
    BY <1>2
  <2> QED BY <2>3, <2>4, Zenon DEF O!vars
<1>3. CASE c # 0
  <2>1. c \in 1 .. PartPackets
    BY <1>0, <1>3
  <2>2. Extended(OutboxQueue, c, t) = O!Posted(OutboxQueue, c, t)
    BY Zenon DEF Extended, NewKeys, O!Posted, O!Fresh
  <2>3. O!Post
    BY <1>1, <2>1, <2>2, Zenon DEF O!Post
  <2> QED BY <2>3, Zenon DEF O!Next
<1> QED BY <1>2, <1>3, Zenon

\* An acknowledgement or the last attempt is a Leave of the Outbox.
LEMMA LeaveStep ==
    ASSUME NEW k \in DOMAIN OutboxQueue, k \in onwire \/ OutboxQueue[k] >= SendRetry,
           NEW c \in 0 .. PartPackets, NEW t \in 0 .. MaxTasks,
           Shown(OutboxQueue', nbl'),
           Shown(Extended([j \in DOMAIN OutboxQueue \ {k} |-> OutboxQueue[j]], c, t), nbl'),
           pidx' = pidx + c, onwire' = onwire
    PROVE  O!Next
<1> DEFINE R == [j \in DOMAIN OutboxQueue \ {k} |-> OutboxQueue[j]]
<1>1. OutboxQueue' = Extended(R, c, t)
  <2>1. PICK B : B = OutboxQueue'
    OBVIOUS
  <2>2. PICK m : m = nbl'
    BY Zenon
  <2> HIDE DEF R
  <2>3. Shown(Extended(R, c, t), m)
    BY <2>2, Zenon DEF R
  <2> QED BY <2>1, <2>2, <2>3, ShownOnce, Zenon
<1>2. Extended(R, c, t) = O!Posted(R, c, t)
  BY Zenon DEF Extended, NewKeys, O!Posted, O!Fresh
<1>3. O!Leave
  BY <1>1, <1>2, Zenon DEF O!Leave
<1> QED BY <1>3, Zenon DEF O!Next

\* An attempt of net.dispatch is a Try of the Outbox.
LEMMA TryStep ==
    ASSUME TypeOK, cursor \in DOMAIN nbl, ~Expired(nbl[cursor]), nbl' = Bumped(nbl),
           Reached(nbl), Shown(OutboxQueue, nbl), Shown(OutboxQueue', nbl'),
           onwire' \in {onwire, onwire \cup {nbl[cursor].key}}, pidx' = pidx
    PROVE  O!Next
<1> DEFINE k == nbl[cursor].key
           Q == OutboxQueue
           B == OutboxQueue'
<1>0. nbl[cursor] \in Items /\ SendRetry \in Nat
  BY ConfigAssumption, Zenon DEF TypeOK, IsList
<1>1. nbl[cursor].attempt \in Nat /\ nbl[cursor].attempt < SendRetry
  BY <1>0 DEF Expired, Items
<1>2. k \in DOMAIN Q /\ Q[k] = nbl[cursor].attempt
  BY Zenon DEF Shown
<1>3. /\ DOMAIN nbl' = DOMAIN nbl
      /\ \A i \in DOMAIN nbl : i # cursor => nbl'[i] = nbl[i]
      /\ nbl'[cursor].key = k /\ nbl'[cursor].attempt = Q[k] + 1
  <2>1. DOMAIN nbl' = DOMAIN nbl /\ \A i \in DOMAIN nbl : i # cursor => nbl'[i] = nbl[i]
    BY Zenon DEF Bumped
  <2>2. ~(nbl[cursor].attempt > SendRetry)
    <3>1. \A a, b \in Nat : a < b => ~(a > b)
      OBVIOUS
    <3> QED BY <1>0, <1>1, <3>1, Zenon
  <2>3. nbl'[cursor] = [nbl[cursor] EXCEPT !.attempt = nbl[cursor].attempt + 1]
    <3>1. nbl'[cursor] = [nbl[cursor] EXCEPT !.attempt = IF @ > SendRetry THEN @ ELSE @ + 1]
      BY Zenon DEF Bumped
    <3> QED BY <2>2, <3>1, Zenon
  <2>4. nbl'[cursor].key = k /\ nbl'[cursor].attempt = nbl[cursor].attempt + 1
    BY <1>0, <2>3, Zenon DEF Items
  <2> QED BY <1>2, <2>1, <2>4, Zenon
<1>4. \A i \in DOMAIN nbl : nbl[i].key = k => i = cursor
  BY DEF Reached
<1> DEFINE E == [Q EXCEPT ![k] = Q[k] + 1]
<1>5. /\ DOMAIN E = DOMAIN Q /\ E = [j \in DOMAIN E |-> E[j]]
      /\ E[k] = Q[k] + 1 /\ \A j \in DOMAIN Q : j # k => E[j] = Q[j]
  <2> HIDE DEF Q, k
  <2> QED BY <1>2, Zenon
<1> HIDE DEF E, Q, k
<1>6. \A i \in DOMAIN nbl : nbl'[i].key = nbl[i].key
  BY <1>3, Zenon DEF k
<1>7. Shown(E, nbl')
  <2>1. DOMAIN E = {nbl'[i].key : i \in DOMAIN nbl'}
    <3>1. DOMAIN Q = {nbl[i].key : i \in DOMAIN nbl}
      BY Zenon DEF Shown, Q
    <3> QED BY <1>3, <1>5, <1>6, <3>1
  <2>2. ASSUME NEW i \in DOMAIN nbl PROVE E[nbl'[i].key] = nbl'[i].attempt
    <3>1. CASE i = cursor
      BY <3>1, <1>3, <1>5, Zenon
    <3>2. CASE i # cursor
      <4>1. nbl[i].key # k /\ nbl[i].key \in DOMAIN Q /\ Q[nbl[i].key] = nbl[i].attempt
        BY <3>2, <1>4, Zenon DEF Shown, Q
      <4> QED BY <3>2, <4>1, <1>3, <1>5, Zenon
    <3> QED BY <3>1, <3>2, Zenon
  <2> QED BY <1>3, <1>5, <2>1, <2>2, Zenon DEF Shown
<1>8. OutboxQueue' = E
  <2>1. PICK Z : Z = OutboxQueue'
    OBVIOUS
  <2>2. PICK m : m = nbl'
    BY Zenon
  <2> QED BY <2>1, <2>2, <1>7, ShownOnce, Zenon
<1>9. Q[k] < SendRetry
  BY <1>1, <1>2, Zenon
<1>10. onwire' \in {onwire, onwire \cup {k}}
  BY DEF k
<1>11. OutboxQueue' = [OutboxQueue EXCEPT ![k] = OutboxQueue[k] + 1]
  BY <1>8 DEF E, Q
<1>12. O!Try
  BY <1>2, <1>9, <1>10, <1>11, Zenon DEF O!Try, Q
<1> QED BY <1>12, Zenon DEF O!Next

\* Task indices stay within the bound on calls of task.add.
LEMMA TasksBounded == TypeInv /\ tidx <= MaxTasks /\ [Next]_vars => (tidx <= MaxTasks)'
<1> SUFFICES ASSUME TypeInv, tidx <= MaxTasks, [Next]_vars PROVE tidx' <= MaxTasks
  BY Zenon
<1>0. tidx \in Nat /\ MaxTasks \in Nat
  BY FileAssumption, Zenon DEF TypeInv, TypeOK
<1>1. ASSUME NEW f \in Files, NEW h \in Hosts, TaskAdd(f, h) PROVE tidx' <= MaxTasks
  <2>1. tidx' = tidx \/ (tidx < MaxTasks /\ tidx' = tidx + 1)
    BY <1>1, Zenon DEF TaskAdd
  <2> QED BY <1>0, <2>1
<1>2. CASE ~\E f \in Files, h \in Hosts : TaskAdd(f, h)
  <2>1. tidx' = tidx
    BY <1>2, Zenon DEF Next, WriteCb, InstantCb, SendDirect, TaskCancel, ReadAck, ReadData,
       SendOneShot, ReadProxy, ReadProxyOneShot, SendWindowEnds, ReceiveWindowEnds, Retry,
       WriteStart, DispatchExpire,
       DispatchSkip, DispatchCut, DispatchSend, WriteDone, InstantStart, InstantPass, InstantCut,
       InstantSend, InstantSent, Purge, PurgeDone, Halted, vars
  <2> QED BY <2>1, Zenon
<1> QED BY <1>1, <1>2

\* Every step is a step of the Outbox or leaves it unchanged.
LEMMA OutboxStep ==
    ASSUME ForeignKeys = {}
    PROVE  /\ TypeInv /\ IndexInv /\ OwnInv /\ tidx <= MaxTasks /\ [Next]_vars
           /\ IndexInv' /\ OwnInv'
           => [O!Next]_(O!vars)
<1> SUFFICES ASSUME TypeInv, IndexInv, OwnInv, tidx <= MaxTasks, [Next]_vars, IndexInv', OwnInv'
             PROVE  [O!Next]_(O!vars)
  BY Zenon
<1> USE DEF queueVars, taskVars, passVars, watchVars, trafficVars
<1>t. /\ TypeOK /\ lastId \in Nat /\ pidx \in Nat /\ tidx \in Nat /\ cursor \in Nat
      /\ AreTasks(tasks, tidx) /\ IsList(nbl, lastId) /\ Pointed(nbl, index)
  BY DEF TypeInv, TypeOK, IndexInv
<1>s. Shown(OutboxQueue, nbl) /\ Reached(nbl) /\ \A i \in DOMAIN nbl : nbl[i].key \in DOMAIN index
  BY OutboxShown, ReachedByIndex, Zenon
<1>n. Shown(OutboxQueue', nbl')
  <2>1. (IndexInv /\ OwnInv => Shown(OutboxQueue, nbl))'
    BY OutboxShown, PTL
  <2> QED BY <2>1 DEF Shown
<1>k. \A i \in DOMAIN nbl : nbl[i].key[1] < pidx
  BY <1>s, Zenon DEF Reached
<1>m. MaxTasks \in Nat /\ PartPackets \in Nat \ {0}
  BY FileAssumption, ConfigAssumption, Zenon
<1>1. CASE SendDirect
  <2>1. nbl' = Submitted(nbl, 1, 0) /\ pidx' = pidx + 1 /\ onwire' = onwire
    BY <1>1, Zenon DEF SendDirect
  <2>2. Shown(Extended(OutboxQueue, 1, 0), nbl')
    BY <1>t, <1>s, <1>k, <2>1, SubmittedShows, Zenon
  <2>3. 1 \in 0 .. PartPackets /\ 0 \in 0 .. MaxTasks
    BY <1>m
  <2> QED BY <1>t, <1>s, <1>n, <2>1, <2>2, <2>3, PostStep, Zenon
<1>2. ASSUME NEW f \in Files, NEW h \in Hosts, TaskAdd(f, h) PROVE [O!Next]_(O!vars)
  <2> DEFINE present == files \cup ({f} \cap TcpFiles)
             created == [file |-> f, host |-> h, off |-> 0]
             ts == [t \in DOMAIN tasks \cup {tidx + 1} |->
                       IF t \in DOMAIN tasks THEN tasks[t] ELSE created]
             n == tidx + 1
             none == {}
  <2>0. onwire' = onwire
    BY <1>2, Zenon DEF TaskAdd
  <2>1. CASE \E t \in DOMAIN tasks : tasks[t].file = f /\ tasks[t].host = h
    <3>1. UNCHANGED <<nbl, index, pidx>>
      BY <1>2, <2>1, Zenon DEF TaskAdd
    <3> QED BY <2>0, <3>1, Zenon DEF O!vars, OutboxQueue
  <2>2. CASE ~\E t \in DOMAIN tasks : tasks[t].file = f /\ tasks[t].host = h
    <3>1. tidx < MaxTasks /\ \E ok \in BOOLEAN : TaskUpdate(nbl, index, ts, present, none, ok)
      BY <1>2, <2>2, Zenon DEF TaskAdd
    <3>2. PICK ok \in BOOLEAN : TaskUpdate(nbl, index, ts, present, none, ok)
      BY <3>1, Zenon
    <3>3. AreTasks(ts, n) /\ n \in Nat /\ n <= MaxTasks
      <4>1. AreTasks(ts, n) /\ n \in Nat
        BY <1>t, TaskAdded, Zenon
      <4>2. n <= MaxTasks
        <5>1. tidx \in Nat /\ MaxTasks \in Nat /\ tidx < MaxTasks
          BY <1>t, <1>m, <3>1, Zenon
        <5> QED BY <5>1
      <4> QED BY <4>1, <4>2, Zenon
    <3> HIDE DEF present, ts, n, none
    <3>p. Showing(OutboxQueue, nbl, ts)
      BY <1>t, <1>s, <1>k, <3>3, Zenon DEF Showing
    <3>4. Posts(OutboxQueue)
      BY <3>2, <3>p, UpdatePosts, Zenon
    <3>5. PICK c \in 0 .. PartPackets, t \in 0 .. MaxTasks :
             Shown(Extended(OutboxQueue, c, t), nbl') /\ pidx' = pidx + c
      BY <3>4, Zenon DEF Posts
    <3> QED BY <1>t, <1>s, <1>n, <2>0, <3>5, PostStep, Zenon
  <2> QED BY <2>1, <2>2, Zenon
<1>3. ASSUME NEW k \in onwire, ReadAck(k) PROVE [O!Next]_(O!vars)
  <2>1. PICK ok \in BOOLEAN : Ack(nbl, k, 0, ok)
    BY <1>3, Zenon DEF ReadAck
  <2>2. onwire' = onwire
    BY <1>3, Zenon DEF ReadAck
  <2>3. k \in DOMAIN index => (index[k] \in DOMAIN nbl => nbl[index[k]].key = k)
    BY <1>t, Zenon DEF Pointed
  <2>4. (nbl' = nbl /\ index' = index /\ pidx' = pidx) \/ Departs(OutboxQueue, k)
    BY <1>t, <1>s, <2>1, <2>3, AckLeaves, Zenon
  <2>5. CASE nbl' = nbl /\ index' = index /\ pidx' = pidx
    BY <2>2, <2>5, Zenon DEF O!vars, OutboxQueue
  <2>6. CASE ~(nbl' = nbl /\ index' = index /\ pidx' = pidx)
    <3>1. PICK c \in 0 .. PartPackets, t \in 0 .. MaxTasks :
             /\ Shown(Extended([j \in DOMAIN OutboxQueue \ {k} |-> OutboxQueue[j]], c, t), nbl')
             /\ pidx' = pidx + c
      BY <2>4, <2>6, Zenon DEF Departs, Posts
    <3>2. k \in DOMAIN OutboxQueue
      BY <2>4, <2>6, Zenon DEF Departs
    <3>3. O!Next
      BY <1>n, <2>2, <3>1, <3>2, LeaveStep, Zenon
    <3> QED BY <3>3, Zenon
  <2> QED BY <2>5, <2>6, Zenon
<1>4. CASE DispatchExpire
  <2> DEFINE k == nbl[cursor].key
             r == Without(nbl, {cursor})
             d == {k}
             R == [j \in DOMAIN OutboxQueue \ {k} |-> OutboxQueue[j]]
  <2>1. PICK ok \in BOOLEAN : Ack(Bumped(nbl), k, Following(nbl, cursor), ok)
    BY <1>4 DEF DispatchExpire
  <2>2. onwire' = onwire
    BY <1>4, Zenon DEF DispatchExpire
  <2>3. cursor \in DOMAIN nbl
    BY <1>4, Zenon DEF DispatchExpire, At, TypeInv, CursorOK
  <2>4. k \in DOMAIN index /\ index[k] = cursor
    BY <1>s, <2>3, Zenon DEF Reached
  <2>5. DOMAIN Bumped(nbl) = DOMAIN nbl /\ \A i \in DOMAIN nbl : i # cursor => Bumped(nbl)[i] = nbl[i]
    BY Zenon DEF Bumped
  <2>6. Without(Bumped(nbl), {cursor}) = r
    BY <2>5 DEF Without
  <2>7. TaskUpdate(Without(Bumped(nbl), {index[k]}), index, tasks, files, d, ok)
    BY <2>1, <2>3, <2>4, <2>5, Zenon DEF Ack
  <2>8. TaskUpdate(r, index, tasks, files, d, ok)
    BY <2>4, <2>6, <2>7, Zenon
  <2>9. \A i \in DOMAIN nbl : index[nbl[i].key] = i
    BY <1>s, Zenon DEF Reached
  <2>10. Shown(R, r)
    BY <1>s, <2>3, <2>9, RemovedShows, Zenon
  <2>11. IsList(r, lastId)
    BY <1>t, WithoutTypes, Zenon
  <2>12. \A i \in DOMAIN r : r[i].key[1] < pidx
    BY <1>k, Zenon DEF Without
  <2>13. OutboxQueue[k] >= SendRetry /\ k \in DOMAIN OutboxQueue
    <3>1. nbl[cursor].attempt \in Nat /\ nbl[cursor].attempt + 1 > SendRetry
      BY <1>4, <1>t, <2>3, Zenon DEF DispatchExpire, Expired, IsList, Items
    <3>2. OutboxQueue[k] = nbl[cursor].attempt /\ k \in DOMAIN OutboxQueue
      BY <1>s, <2>3, Zenon DEF Shown
    <3> QED BY <3>1, <3>2, ConfigAssumption
  <2> HIDE DEF r, d, R, k
  <2>s. Showing(R, r, tasks)
    BY <1>t, <2>10, <2>11, <2>12, Zenon DEF Showing
  <2>p. Posts(R)
    BY <2>8, <2>s, UpdatePosts, Zenon
  <2>14. PICK c \in 0 .. PartPackets, t \in 0 .. MaxTasks :
             Shown(Extended(R, c, t), nbl') /\ pidx' = pidx + c
    BY <2>p, Zenon DEF Posts
  <2>15. Shown(Extended([j \in DOMAIN OutboxQueue \ {k} |-> OutboxQueue[j]], c, t), nbl')
    BY <2>14, Zenon DEF R
  <2>16. O!Next
    BY <1>n, <2>2, <2>13, <2>14, <2>15, LeaveStep, Zenon
  <2> QED BY <2>16, Zenon
<1>5. CASE DispatchSkip \/ DispatchCut \/ DispatchSend
  <2>1. cursor \in DOMAIN nbl
    BY <1>5, Zenon DEF DispatchSkip, DispatchCut, DispatchSend, At, TypeInv, CursorOK
  <2>2. ~Expired(nbl[cursor])
    BY <1>5, Zenon DEF DispatchSkip, DispatchCut, DispatchSend, Skipped, Eligible
  <2>3. nbl' = Bumped(nbl) /\ pidx' = pidx
    BY <1>5, Zenon DEF DispatchSkip, DispatchCut, DispatchSend
  <2>4. onwire' \in {onwire, onwire \cup {nbl[cursor].key}}
    BY <1>5, Zenon DEF DispatchSkip, DispatchCut, DispatchSend
  <2>5. O!Next
    BY <1>t, <1>s, <1>n, <2>1, <2>2, <2>3, <2>4, TryStep, Zenon
  <2> QED BY <2>5, Zenon
<1>6. CASE InstantSend \/ Purge
  <2> DEFINE none == {}
  <2>1. PICK ok \in BOOLEAN : TaskUpdate(nbl, index, tasks, files, none, ok)
    BY <1>6, Zenon DEF InstantSend, Purge
  <2>2. onwire' = onwire
    BY <1>6, Zenon DEF InstantSend, Purge
  <2> HIDE DEF none
  <2>s. Showing(OutboxQueue, nbl, tasks)
    BY <1>t, <1>s, <1>k, Zenon DEF Showing
  <2>3. Posts(OutboxQueue)
    BY <2>1, <2>s, UpdatePosts, Zenon
  <2>4. PICK c \in 0 .. PartPackets, t \in 0 .. MaxTasks :
             Shown(Extended(OutboxQueue, c, t), nbl') /\ pidx' = pidx + c
    BY <2>3 DEF Posts
  <2> QED BY <1>t, <1>s, <1>n, <2>2, <2>4, PostStep, Zenon
<1>7. CASE ReadData \/ SendOneShot
  <2>1. UNCHANGED <<nbl, index, onwire>> /\ pidx' = pidx + 1
    BY <1>7, Zenon DEF ReadData, SendOneShot
  <2>2. OutboxQueue' = OutboxQueue
    BY <2>1, Zenon DEF OutboxQueue
  <2> QED BY <2>1, <2>2, Zenon DEF O!Next, O!OneShot
<1>8. CASE InstantPass
  <2> DEFINE k == instant[cursor].key
  <2>1. k \notin DOMAIN index
    BY <1>8, Zenon DEF InstantPass, At, TypeInv, CursorOK, OwnInv
  <2>2. UNCHANGED <<nbl, index, pidx>>
    <3>1. CASE Expired(instant[cursor])
      <4>1. PICK ok \in BOOLEAN : Ack(nbl, k, 0, ok)
        BY <1>8, <3>1, Zenon DEF InstantPass
      <4> QED BY <2>1, <4>1, Zenon DEF Ack
    <3>2. CASE ~Expired(instant[cursor])
      BY <1>8, <3>2, Zenon DEF InstantPass
    <3> QED BY <3>1, <3>2, Zenon
  <2>3. onwire' = onwire
    BY <1>8, Zenon DEF InstantPass
  <2> QED BY <2>2, <2>3, Zenon DEF O!vars, OutboxQueue
<1>9. CASE \/ \E t \in 1 .. MaxTasks : TaskCancel(t)
           \/ SendWindowEnds \/ ReceiveWindowEnds \/ Retry \/ WriteStart
           \/ WriteDone \/ InstantStart \/ InstantCut \/ InstantSent \/ PurgeDone
           \/ Halted \/ UNCHANGED vars
  <2>1. nbl' = nbl /\ index' = index /\ pidx' = pidx /\ onwire' = onwire
    BY <1>9, Zenon DEF TaskCancel, SendWindowEnds, ReceiveWindowEnds, Retry, WriteStart, WriteDone, InstantStart, InstantCut, InstantSent, PurgeDone, Halted, vars
  <2> QED BY <2>1, Zenon DEF O!vars, OutboxQueue
<1> QED
  BY <1>1, <1>2, <1>3, <1>4, <1>5, <1>6, <1>7, <1>8, <1>9, Zenon DEF Next, WriteCb, InstantCb

\* The lists, the index, the tasks, the throttle and the watchers of a peer that relays
\* nothing implement the Outbox: packets are numbered without gaps or repeats, tried, and
\* leave only acknowledged or after SendRetry attempts (ImplementsOutbox).
THEOREM BehavesAsOutbox ==
    ASSUME ForeignKeys = {}
    PROVE  Spec => ImplementsOutbox
<1> DEFINE Within == tidx <= MaxTasks
<1>1. Init => O!Init
  BY DEF Init, O!Init, OutboxQueue, Empty
<1>2. Init => Within
  <2>1. Init => tidx = 0
    BY Zenon DEF Init
  <2>2. MaxTasks \in Nat
    BY FileAssumption, Zenon
  <2> QED BY <2>1, <2>2
<1>3. TypeInv /\ OwnInv /\ [Next]_vars => OwnInv'
  BY NextOwnInv
<1>4. TypeInv /\ Within /\ [Next]_vars => Within'
  BY TasksBounded, Zenon
<1>5. TypeInv /\ IndexInv /\ OwnInv /\ Within /\ [Next]_vars /\ IndexInv' /\ OwnInv'
      => [O!Next]_(O!vars)
  BY OutboxStep
<1> HIDE DEF Within
<1> QED
  BY <1>1, <1>2, <1>3, <1>4, <1>5, InitTypeInv, NextTypeInv, InitIndexInv, NextIndexInv,
     InitOwnInv, PTL DEF Spec, ImplementsOutbox, O!Spec

\* What follows counts packets: the cardinality facts of the library, from here on.
INSTANCE FiniteSetTheorems

(***************************************************************************)
(* No lost wake-up.                                                        *)
(***************************************************************************)
\* After task.update, a task only waits behind a packet.
LEMMA TaskUpdateFeeds ==
    ASSUME lastId \in Nat, NEW n \in Nat, NEW q, NEW x,
           NEW ts, AreTasks(ts, n), NEW fs, NEW drop, NEW ok \in BOOLEAN,
           TaskUpdate(q, x, ts, fs, drop, ok)
    PROVE  "readfail" \notin past' /\ DOMAIN tasks' # {} => DOMAIN nbl' # {}
<1>1. CASE ~UpdateReady(q, ts)
  <2>1. nbl' = q /\ tasks' = ts
    BY <1>1, Zenon DEF TaskUpdate
  <2>2. DOMAIN q = {} => Size(q) = 0
    BY FS_EmptySet, Zenon DEF Size
  <2>. QED
    BY <1>1, <2>1, <2>2, ConfigAssumption DEF UpdateReady
<1>2. CASE UpdateReady(q, ts)
  <2>. DEFINE t == Least(DOMAIN ts)
              c == Chunk(ts, t)
  <2>1. t \in DOMAIN ts
    BY <1>2, LeastIsMember DEF UpdateReady, AreTasks
  <2>2. c \in Nat \ {0}
    BY <2>1, ChunkTypes, Zenon
  <2>3. CASE ok
    <3>1. nbl' = Submitted(q, c, t)
      BY <1>2, <2>3, Zenon DEF TaskUpdate, Resume
    <3>. HIDE DEF c, t
    <3>2. lastId + 1 \in lastId + 1 .. lastId + c
      BY <2>2 DEF TypeOK
    <3>3. lastId + 1 \in DOMAIN Submitted(q, c, t)
      BY <3>2, Zenon DEF Submitted
    <3>. QED
      BY <3>1, <3>3, Zenon
  <2>4. CASE ~ok
    BY <1>2, <2>4, Zenon DEF TaskUpdate, ResumeFails
  <2>. QED
    BY <2>3, <2>4, Zenon
<1>. QED
  BY <1>1, <1>2, Zenon

\* net.ack feeds the next task when it empties the list.
LEMMA AckFeeds ==
    ASSUME TypeOK, TasksAreFed, NEW q, DOMAIN q = DOMAIN nbl,
           NEW k, NEW saved, NEW ok \in BOOLEAN, Ack(q, k, saved, ok)
    PROVE  TasksAreFed'
<1>1. CASE k \notin DOMAIN index \/ index[k] \notin DOMAIN q
  BY <1>1, Zenon DEF Ack, TasksAreFed, taskVars
<1>2. CASE k \in DOMAIN index /\ index[k] \in DOMAIN q
  <2>. DEFINE r == Without(q, {index[k]})
              d == {k}
  <2>1. TaskUpdate(r, index, tasks, files, d, ok)
    BY <1>2, Zenon DEF Ack
  <2>2. lastId \in Nat /\ tidx \in Nat /\ AreTasks(tasks, tidx)
    BY DEF TypeOK
  <2>. HIDE DEF r, d
  <2>. QED
    BY <2>1, <2>2, TaskUpdateFeeds, Zenon DEF TasksAreFed
<1>. QED
  BY <1>1, <1>2, Zenon

\* No step leaves a waiting task without a packet to wake it.
LEMMA NextFeeds == TypeInv /\ TasksAreFed /\ [Next]_vars => TasksAreFed'
<1>. SUFFICES ASSUME TypeInv, TasksAreFed, [Next]_vars PROVE TasksAreFed'
  BY Zenon
<1>. USE DEF queueVars, taskVars, passVars, watchVars, trafficVars
<1>t. /\ TypeOK /\ lastId \in Nat /\ tidx \in Nat /\ cursor \in Nat /\ AreTasks(tasks, tidx)
      /\ IsList(nbl, lastId)
  BY DEF TypeInv, TypeOK
<1>1. CASE SendDirect
  <2>1. lastId + 1 \in DOMAIN nbl'
    BY <1>1, <1>t DEF SendDirect, Submitted
  <2>. QED
    BY <2>1, Zenon DEF TasksAreFed
<1>2. ASSUME NEW f \in Files, NEW h \in Hosts, TaskAdd(f, h) PROVE TasksAreFed'
  <2>. DEFINE present == files \cup ({f} \cap TcpFiles)
              created == [file |-> f, host |-> h, off |-> 0]
              ts == [t \in DOMAIN tasks \cup {tidx + 1} |->
                        IF t \in DOMAIN tasks THEN tasks[t] ELSE created]
              n == tidx + 1
              none == {}
  <2>1. CASE \E t \in DOMAIN tasks : tasks[t].file = f /\ tasks[t].host = h
    BY <1>2, <2>1, Zenon DEF TaskAdd, TasksAreFed
  <2>2. CASE ~\E t \in DOMAIN tasks : tasks[t].file = f /\ tasks[t].host = h
    <3>1. PICK ok \in BOOLEAN : TaskUpdate(nbl, index, ts, present, none, ok)
      BY <1>2, <2>2, Zenon DEF TaskAdd
    <3>2. AreTasks(ts, n) /\ n \in Nat
      BY <1>t, TaskAdded, Zenon
    <3>. HIDE DEF present, ts, n, none
    <3>. QED
      BY <3>1, <3>2, <1>t, TaskUpdateFeeds, Zenon DEF TasksAreFed
  <2>. QED
    BY <2>1, <2>2, Zenon
<1>3. ASSUME NEW t \in 1 .. MaxTasks, TaskCancel(t) PROVE TasksAreFed'
  BY <1>3, Zenon DEF TaskCancel, TasksAreFed, Without
<1>4. ASSUME NEW k \in onwire, ReadAck(k) PROVE TasksAreFed'
  BY <1>4, <1>t, AckFeeds, Zenon DEF ReadAck
<1>5. ASSUME NEW k \in ForeignKeys, ReadProxy(k) PROVE TasksAreFed'
  <2>1. lastId + 2 \in DOMAIN nbl'
    BY <1>5, Zenon DEF ReadProxy
  <2>. QED
    BY <2>1 DEF TasksAreFed
<1>6. CASE \/ (\E k \in ForeignKeys, acked \in BOOLEAN : ReadProxyOneShot(k, acked))
           \/ ReadData \/ SendOneShot \/ SendWindowEnds \/ ReceiveWindowEnds \/ Retry \/ WriteStart
           \/ WriteDone \/ InstantStart \/ InstantCut \/ InstantSent \/ PurgeDone
           \/ Halted \/ UNCHANGED vars
  BY <1>6, Zenon DEF ReadData, SendOneShot, ReadProxyOneShot, SendWindowEnds,
     ReceiveWindowEnds, Retry, WriteStart, WriteDone,
     InstantStart, InstantCut, InstantSent, PurgeDone, Halted, vars, TasksAreFed
<1>7. DOMAIN Bumped(nbl) = DOMAIN nbl
  BY <1>t, BumpedTypes, Zenon
<1>8. CASE DispatchExpire
  BY <1>8, <1>t, <1>7, AckFeeds, Zenon DEF DispatchExpire
<1>9. CASE DispatchSkip \/ DispatchCut \/ DispatchSend
  BY <1>9, <1>7, Zenon DEF DispatchSkip, DispatchCut, DispatchSend, TasksAreFed
<1>10. CASE InstantPass
  <2>1. CASE Expired(instant[cursor])
    BY <1>10, <1>t, <2>1, AckFeeds, Zenon DEF InstantPass
  <2>2. CASE ~Expired(instant[cursor])
    BY <1>10, <2>2, Zenon DEF InstantPass, TasksAreFed
  <2>. QED
    BY <2>1, <2>2, Zenon
<1>11. CASE InstantSend \/ Purge
  <2>. DEFINE none == {}
  <2>1. PICK ok \in BOOLEAN : TaskUpdate(nbl, index, tasks, files, none, ok)
    BY <1>11, Zenon DEF InstantSend, Purge
  <2>. HIDE DEF none
  <2>. QED
    BY <2>1, <1>t, TaskUpdateFeeds, Zenon DEF TasksAreFed
<1>. QED
  BY <1>1, <1>2, <1>3, <1>4, <1>5, <1>6, <1>8, <1>9, <1>10, <1>11, Zenon DEF Next, WriteCb, InstantCb

\* As long as every read of a task's file succeeds, a waiting task has a packet
\* in front of it whose removal will call task.update (TasksAreFed).
THEOREM NoLostWakeUp == Spec => []TasksAreFed
<1>1. Init => TasksAreFed
  BY Zenon DEF Init, TasksAreFed, Empty
<1>. QED
  BY <1>1, InitTypeInv, NextTypeInv, NextFeeds, PTL DEF Spec

(***************************************************************************)
(* The throttle.                                                           *)
(***************************************************************************)
\* The packets of tasks in a list.
FileItems(l) == {i \in DOMAIN l : l[i].key[2] # 0 /\ l[i].key \notin ForeignKeys}

Throttled(l) == Cardinality(FileItems(l)) <= MaxSendQueue + PartPackets

\* A list without new file packets is as good as the one before.
LEMMA FewerFileItems ==
    ASSUME NEW n \in Nat, NEW l, IsList(l, n), Throttled(l),
           NEW m, FileItems(m) \subseteq FileItems(l)
    PROVE  Throttled(m)
<1>1. IsFiniteSet(FileItems(l))
  <2>1. IsFiniteSet(1 .. n)
    BY FS_Interval
  <2>2. FileItems(l) \in SUBSET (1 .. n)
    BY DEF FileItems, IsList
  <2> QED BY <2>1, <2>2, FS_Subset, Zenon
<1>2. FileItems(m) \in SUBSET FileItems(l)
  BY Zenon
<1>3. Cardinality(FileItems(m)) <= Cardinality(FileItems(l)) /\ IsFiniteSet(FileItems(m))
  BY <1>1, <1>2, FS_Subset, Zenon
<1>4. Cardinality(FileItems(m)) \in Nat /\ Cardinality(FileItems(l)) \in Nat
  BY <1>1, <1>3, FS_CardinalityType, Zenon
<1> QED BY <1>3, <1>4, ConfigAssumption DEF Throttled

\* task.update adds a part only to a list that is short enough.
LEMMA TaskUpdateThrottled ==
    ASSUME lastId \in Nat, pidx \in Nat, NEW n \in Nat, NEW q, IsList(q, lastId), Throttled(q),
           NEW x, NEW ts, AreTasks(ts, n), NEW fs, NEW drop, NEW ok \in BOOLEAN,
           TaskUpdate(q, x, ts, fs, drop, ok)
    PROVE  Throttled(nbl')
<1>1. CASE ~UpdateReady(q, ts) \/ ~ok
  <2>1. nbl' = q
    BY <1>1, Zenon DEF TaskUpdate, ResumeFails
  <2> QED BY <2>1, Zenon
<1>2. CASE UpdateReady(q, ts) /\ ok
  <2> DEFINE t == Least(DOMAIN ts)
             c == Chunk(ts, t)
             new == lastId + 1 .. lastId + c
  <2>1. t \in DOMAIN ts
    BY <1>2, LeastIsMember DEF UpdateReady, AreTasks
  <2>2. c \in Nat /\ c <= PartPackets
    BY <2>1, ChunkTypes, Zenon
  <2>3. nbl' = Submitted(q, c, t)
    BY <1>2, Zenon DEF TaskUpdate, Resume
  <2> HIDE DEF t, c
  <2>4. DOMAIN nbl' = DOMAIN q \cup new
    BY <2>3, Zenon DEF Submitted
  <2>5. IsFiniteSet(DOMAIN q) /\ Cardinality(DOMAIN q) \in Nat
    <3>1. IsFiniteSet(1 .. lastId)
      BY FS_Interval
    <3>2. DOMAIN q \in SUBSET (1 .. lastId)
      BY DEF IsList
    <3>3. IsFiniteSet(DOMAIN q)
      BY <3>1, <3>2, FS_Subset, Zenon
    <3> QED BY <3>3, FS_CardinalityType, Zenon
  <2>6. IsFiniteSet(new) /\ Cardinality(new) = c
    BY <2>2, FS_Interval
  <2> HIDE DEF new
  <2>7. IsFiniteSet(DOMAIN nbl') /\ Cardinality(DOMAIN nbl') <= Cardinality(DOMAIN q) + c
    <3>1. DOMAIN q \cap new \in SUBSET new
      OBVIOUS
    <3>2. IsFiniteSet(DOMAIN q \cap new)
      BY <2>6, <3>1, FS_Subset, Zenon
    <3>3. Cardinality(DOMAIN q \cap new) \in Nat
      BY <3>2, FS_CardinalityType, Zenon
    <3>4. /\ IsFiniteSet(DOMAIN q \cup new)
          /\ Cardinality(DOMAIN q \cup new)
                = Cardinality(DOMAIN q) + Cardinality(new) - Cardinality(DOMAIN q \cap new)
      BY <2>5, <2>6, FS_Union, Zenon
    <3>5. \A a, b, d \in Nat : a + b - d <= a + b
      OBVIOUS
    <3> QED BY <2>2, <2>4, <2>5, <2>6, <3>3, <3>4, <3>5, Zenon
  <2>8. Cardinality(DOMAIN q) <= MaxSendQueue
    BY <1>2 DEF UpdateReady, Size
  <2>9. FileItems(nbl') \in SUBSET DOMAIN nbl'
    BY Zenon DEF FileItems
  <2>10. Cardinality(FileItems(nbl')) <= Cardinality(DOMAIN nbl') /\ IsFiniteSet(FileItems(nbl'))
    BY <2>7, <2>9, FS_Subset, Zenon
  <2>11. Cardinality(FileItems(nbl')) \in Nat /\ Cardinality(DOMAIN nbl') \in Nat
    BY <2>7, <2>10, FS_CardinalityType, Zenon
  <2> QED BY <2>2, <2>5, <2>7, <2>8, <2>10, <2>11, ConfigAssumption, SMTT(30) DEF Throttled
<1> QED BY <1>1, <1>2, Zenon

\* net.ack of a packet, in a list with the keys of nbl.
LEMMA AckThrottled ==
    ASSUME TypeOK, NEW q, IsList(q, lastId), Throttled(q),
           NEW k, NEW saved, NEW ok \in BOOLEAN, Ack(q, k, saved, ok)
    PROVE  Throttled(nbl')
<1>1. CASE k \notin DOMAIN index \/ index[k] \notin DOMAIN q
  <2>1. nbl' = q
    BY <1>1, Zenon DEF Ack
  <2> QED BY <2>1, Zenon
<1>2. CASE k \in DOMAIN index /\ index[k] \in DOMAIN q
  <2> DEFINE r == Without(q, {index[k]})
             d == {k}
  <2>1. TaskUpdate(r, index, tasks, files, d, ok)
    BY <1>2, Zenon DEF Ack
  <2>2. lastId \in Nat /\ pidx \in Nat /\ tidx \in Nat /\ AreTasks(tasks, tidx)
    BY DEF TypeOK
  <2>3. IsList(r, lastId)
    BY <2>2, WithoutTypes, Zenon
  <2>4. FileItems(r) \subseteq FileItems(q)
    BY Zenon DEF FileItems, Without
  <2> HIDE DEF r, d
  <2>5. Throttled(r)
    BY <2>2, <2>4, FewerFileItems, Zenon
  <2> QED BY <2>1, <2>2, <2>3, <2>5, TaskUpdateThrottled, Zenon
<1> QED BY <1>1, <1>2, Zenon

\* Every step keeps the throttle.
LEMMA NextThrottled == TypeInv /\ Throttled(nbl) /\ [Next]_vars => Throttled(nbl')
<1> SUFFICES ASSUME TypeInv, Throttled(nbl), [Next]_vars PROVE Throttled(nbl')
  BY Zenon
<1> USE DEF queueVars, taskVars, passVars, watchVars, trafficVars
<1>t. /\ TypeOK /\ lastId \in Nat /\ pidx \in Nat /\ tidx \in Nat /\ cursor \in Nat
      /\ AreTasks(tasks, tidx) /\ IsList(nbl, lastId)
  BY DEF TypeInv, TypeOK
<1>b. IsList(Bumped(nbl), lastId) /\ Throttled(Bumped(nbl))
  <2>1. IsList(Bumped(nbl), lastId) /\ DOMAIN Bumped(nbl) = DOMAIN nbl
    BY <1>t, BumpedTypes, Zenon
  <2>2. \A i \in DOMAIN nbl : Bumped(nbl)[i].key = nbl[i].key
    <3>1. \A i \in DOMAIN nbl : nbl[i] \in Items
      BY <1>t, Zenon DEF IsList
    <3> QED BY <3>1, Zenon DEF Bumped, Items
  <2>3. FileItems(Bumped(nbl)) \subseteq FileItems(nbl)
    BY <2>1, <2>2, Zenon DEF FileItems
  <2> QED BY <1>t, <2>1, <2>3, FewerFileItems, Zenon
<1>1. CASE SendDirect
  <2>1. nbl' = Submitted(nbl, 1, 0)
    BY <1>1, Zenon DEF SendDirect
  <2>2. /\ DOMAIN nbl' = DOMAIN nbl \cup (lastId + 1 .. lastId + 1)
        /\ \A i \in DOMAIN nbl : nbl'[i] = nbl[i]
        /\ \A i \in DOMAIN nbl' \ DOMAIN nbl : nbl'[i].key[2] = 0
    BY <2>1, Zenon DEF Submitted
  <2>3. FileItems(nbl') \subseteq FileItems(nbl)
    BY <2>2, Zenon DEF FileItems
  <2> QED BY <1>t, <2>3, FewerFileItems, Zenon
<1>2. ASSUME NEW f \in Files, NEW h \in Hosts, TaskAdd(f, h) PROVE Throttled(nbl')
  <2> DEFINE present == files \cup ({f} \cap TcpFiles)
             created == [file |-> f, host |-> h, off |-> 0]
             ts == [t \in DOMAIN tasks \cup {tidx + 1} |->
                       IF t \in DOMAIN tasks THEN tasks[t] ELSE created]
             n == tidx + 1
             none == {}
  <2>1. CASE \E t \in DOMAIN tasks : tasks[t].file = f /\ tasks[t].host = h
    <3>1. nbl' = nbl
      BY <1>2, <2>1, Zenon DEF TaskAdd
    <3> QED BY <3>1, Zenon
  <2>2. CASE ~\E t \in DOMAIN tasks : tasks[t].file = f /\ tasks[t].host = h
    <3>1. PICK ok \in BOOLEAN : TaskUpdate(nbl, index, ts, present, none, ok)
      BY <1>2, <2>2, Zenon DEF TaskAdd
    <3>2. AreTasks(ts, n) /\ n \in Nat
      BY <1>t, TaskAdded, Zenon
    <3> HIDE DEF present, ts, n, none
    <3> QED BY <3>1, <3>2, <1>t, TaskUpdateThrottled, Zenon
  <2> QED BY <2>1, <2>2, Zenon
<1>3. ASSUME NEW k \in onwire, ReadAck(k) PROVE Throttled(nbl')
  <2>1. PICK ok \in BOOLEAN : Ack(nbl, k, 0, ok)
    BY <1>3, Zenon DEF ReadAck
  <2> QED BY <1>t, <2>1, AckThrottled, Zenon
<1>4. ASSUME NEW k \in ForeignKeys, ReadProxy(k) PROVE Throttled(nbl')
  <2>1. nbl' = [i \in DOMAIN nbl \cup {lastId + 2} |->
                   IF i \in DOMAIN nbl THEN nbl[i] ELSE [key |-> k, attempt |-> 0]]
    BY <1>4, Zenon DEF ReadProxy
  <2>2. /\ DOMAIN nbl' = DOMAIN nbl \cup {lastId + 2}
        /\ \A i \in DOMAIN nbl : nbl'[i] = nbl[i]
        /\ \A i \in DOMAIN nbl' \ DOMAIN nbl : nbl'[i].key = k
    BY <2>1, Zenon
  <2>3. FileItems(nbl') \subseteq FileItems(nbl)
    BY <2>2, Zenon DEF FileItems
  <2> QED BY <1>t, <2>3, FewerFileItems, Zenon
<1>5. CASE \/ \E t \in 1 .. MaxTasks : TaskCancel(t)
           \/ (\E k \in ForeignKeys, acked \in BOOLEAN : ReadProxyOneShot(k, acked))
           \/ ReadData \/ SendOneShot \/ SendWindowEnds \/ ReceiveWindowEnds \/ Retry \/ WriteStart
           \/ WriteDone \/ InstantStart \/ InstantCut \/ InstantSent \/ PurgeDone
           \/ Halted \/ UNCHANGED vars
  <2>1. nbl' = nbl
    BY <1>5, Zenon DEF TaskCancel, ReadData, SendOneShot, ReadProxyOneShot, SendWindowEnds,
       ReceiveWindowEnds, Retry, WriteStart, WriteDone, InstantStart, InstantCut, InstantSent, PurgeDone, Halted, vars
  <2> QED BY <2>1, Zenon
<1>6. CASE DispatchExpire
  <2>1. PICK ok \in BOOLEAN : Ack(Bumped(nbl), nbl[cursor].key, Following(nbl, cursor), ok)
    BY <1>6, Zenon DEF DispatchExpire
  <2> QED BY <1>t, <1>b, <2>1, AckThrottled, Zenon
<1>7. CASE DispatchSkip \/ DispatchCut \/ DispatchSend
  <2>1. nbl' = Bumped(nbl)
    BY <1>7, Zenon DEF DispatchSkip, DispatchCut, DispatchSend
  <2> QED BY <1>b, <2>1, Zenon
<1>8. CASE InstantPass
  <2>1. CASE Expired(instant[cursor])
    <3>1. PICK ok \in BOOLEAN : Ack(nbl, instant[cursor].key, 0, ok)
      BY <1>8, <2>1, Zenon DEF InstantPass
    <3> QED BY <1>t, <3>1, AckThrottled, Zenon
  <2>2. CASE ~Expired(instant[cursor])
    <3>1. nbl' = nbl
      BY <1>8, <2>2, Zenon DEF InstantPass
    <3> QED BY <3>1
  <2> QED BY <2>1, <2>2, Zenon
<1>9. CASE InstantSend \/ Purge
  <2> DEFINE none == {}
  <2>1. PICK ok \in BOOLEAN : TaskUpdate(nbl, index, tasks, files, none, ok)
    BY <1>9 DEF InstantSend, Purge
  <2> HIDE DEF none
  <2> QED BY <2>1, <1>t, TaskUpdateThrottled, Zenon
<1> QED
  BY <1>1, <1>2, <1>3, <1>4, <1>5, <1>6, <1>7, <1>8, <1>9, Zenon DEF Next, WriteCb, InstantCb

\* However much is acknowledged, expires or is submitted beside them, the packets of file
\* tasks in the list never exceed cfg.net.max.send_queue by more than one part, which is
\* what task.update's test of the list size is for (BacklogBounded).
THEOREM BacklogStaysBounded == Spec => []BacklogBounded
<1>1. Init => Throttled(nbl)
  <2>1. ASSUME Init PROVE FileItems(nbl) = {}
    BY <2>1, Zenon DEF Init, Empty, FileItems
  <2> QED BY <2>1, FS_EmptySet, ConfigAssumption DEF Throttled
<1>2. Throttled(nbl) => BacklogBounded
  BY Zenon DEF Throttled, FileItems, BacklogBounded
<1>3. TypeInv /\ Throttled(nbl) /\ [Next]_vars => Throttled(nbl)'
  BY NextThrottled DEF Throttled, FileItems
<1> QED BY <1>1, <1>2, <1>3, InitTypeInv, NextTypeInv, PTL DEF Spec

==============================================================================
