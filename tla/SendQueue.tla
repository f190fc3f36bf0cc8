------------------------------ MODULE SendQueue ------------------------------
(***************************************************************************)
(* The outgoing side of one peer or tracker: the retransmission list       *)
(* (p->send.nbl) with its hash index on (pidx, tidx), the list of one-shot *)
(* packets (p->send.instant), the file tasks that feed it, the bandwidth   *)
(* accounting and the libev watchers that drive it.  net.c, data.c,        *)
(* task.c, traffic.c, peer.c and the list and hash table of tcp/src.       *)
(*                                                                         *)
(* The process is one libev loop, so callbacks never interleave.  A pass   *)
(* of list.map or list.clean is still taken one item at a time, because    *)
(* freeing an item calls task.update, which appends to the list that is    *)
(* being walked; while a pass is running no other callback is enabled.     *)
(*                                                                         *)
(* Items are appended at the tail only, so a list is a function from the   *)
(* ids of its items, allocated in increasing order, to the items.  Bytes   *)
(* are counted in packets.                                                 *)
(***************************************************************************)
EXTENDS Integers, FiniteSets

CONSTANTS
    SendRetry,      \* cfg.net.max.send_retry
    SendFactor,     \* cfg.net.sendfactor
    MaxSendQueue,   \* cfg.net.max.send_queue
    PartPackets,    \* packets in cfg.net.max.task_buffer bytes
    UploadLimit,    \* cfg.net.max.upload, in packets per window
    DownloadLimit,  \* cfg.net.max.download, in packets per window
    Hosts,          \* peers a file can be sent to
    ShareFiles,     \* chunks in the download directory (TASK_FILE_KEEP)
    TcpFiles,       \* tunnelled data in the tcp directory (TASK_FILE_DELETE)
    FilePackets,    \* size of each file, in packets
    ForeignKeys,    \* (pidx, tidx) of packets of other peers, to be relayed
    MaxTasks,       \* bound: calls of task.add that create a task
    MaxDirect,      \* bound: packets submitted outside of tasks
    MaxInstant,     \* bound: one-shot packets submitted
    MaxRelay        \* bound: packets relayed

Files == ShareFiles \cup TcpFiles

ASSUME ConfigAssumption ==
    /\ SendRetry \in Nat /\ SendRetry >= 2
    /\ SendFactor \in Nat /\ SendFactor >= 2
    /\ MaxSendQueue \in Nat
    /\ PartPackets \in Nat \ {0}
    /\ UploadLimit \in Nat \ {0}
    /\ DownloadLimit \in Nat \ {0}

ASSUME FileAssumption ==
    /\ FilePackets \in [Files -> Nat \ {0}]
    /\ ForeignKeys \subseteq Nat \X Nat
    /\ {MaxTasks, MaxDirect, MaxInstant, MaxRelay} \subseteq Nat

VARIABLES
    nbl,        \* id -> [key, attempt]: the retransmission list
    index,      \* key -> id: its "pidx_tidx" hash table
    instant,    \* id -> [key, attempt]: the one-shot list
    lastId,     \* ids allocated so far
    pidx,       \* send_buffer.pidx, the next packet index
    tasks,      \* idx -> [file, host, off]: tasks.list; its head has the least idx
    tidx,       \* tasks.idx, the last task index
    files,      \* the files present on disk
    pass,       \* the list walk in progress
    cursor,     \* its next item, saved by list.map; 0 at the end
    timer,      \* ev.send is active
    write,      \* ev.write is active
    writeInst,  \* ev.write_instant is active
    reading,    \* ev.read.started
    sent,       \* traffic.send.bytes
    sentOld,    \* a second has passed since traffic.send.start
    rcvd,       \* traffic.recv.bytes
    rcvdOld,    \* a second has passed since traffic.recv.start
    stale,      \* the last read_cb was given the old packet again
    wrecked,    \* a freed or unlinked list item has been used
    onwire,     \* history: keys given to sendto
    past,       \* history: which rare events have happened
    used        \* history: calls counted against the bounds

queueVars   == <<nbl, index, lastId, pidx>>
taskVars    == <<tasks, files>>
passVars    == <<pass, cursor>>
watchVars   == <<timer, write, writeInst>>
trafficVars == <<reading, sent, sentOld, rcvd, rcvdOld, stale>>
vars == <<queueVars, taskVars, passVars, watchVars, trafficVars,
          instant, tidx, wrecked, onwire, past, used>>

Keys   == Nat \X Nat
Items  == [key: Keys, attempt: Nat]
Events == {"duplicate", "readfail", "cut"}

(***************************************************************************)
(* list.c                                                                  *)
(***************************************************************************)
Empty == [i \in {} |-> 0]

Least(S) == CHOOSE i \in S : \A j \in S : i <= j

First(l) == IF DOMAIN l = {} THEN 0 ELSE Least(DOMAIN l)

\* li->next
Following(l, i) ==
    LET after == {j \in DOMAIN l : j > i}
    IN  IF after = {} THEN 0 ELSE Least(after)

Without(f, S) == [x \in DOMAIN f \ S |-> f[x]]

Size(l) == Cardinality(DOMAIN l)

\* ht_rem of the keys of items that were deleted.
UnindexedNever(x, S) == x        \* variant: the entries stay
Unindexed(x, S) == Without(x, S)

\* sendtable: the attempts that really transmit, 0 and the powers of SendFactor.
SendTable(i) == i = 0 \/ \E e \in 1 .. i : SendFactor ^ e = i

(***************************************************************************)
(* data.send of a payload of n packets for task t: the packets get         *)
(* consecutive pidx, go to the tail of the list and into the index, where  *)
(* a key that is already there is overwritten.                             *)
(***************************************************************************)
NewKeysNoTask(n, t) == {<<p, 0>> : p \in pidx .. pidx + n - 1}  \* variant: by pidx alone
NewKeys(n, t) == {<<p, t>> : p \in pidx .. pidx + n - 1}

Submitted(q, n, t) ==
    [i \in DOMAIN q \cup (lastId + 1 .. lastId + n) |->
        IF i \in DOMAIN q THEN q[i]
        ELSE [key |-> <<pidx + (i - lastId - 1), t>>, attempt |-> 0]]

Indexed(x, n, t) ==
    [k \in DOMAIN x \cup NewKeys(n, t) |->
        IF k \in NewKeys(n, t) THEN lastId + 1 + (k[1] - pidx) ELSE x[k]]

Clash(x, keys) == IF keys \cap DOMAIN x = {} THEN {} ELSE {"duplicate"}

(***************************************************************************)
(* task.update, called with list q, index x, tasks ts and files fs: when   *)
(* the list is short enough, the head task reads its next part and submits *)
(* it.  Reading fails when the file is gone; then nothing is sent and the  *)
(* error travels up through nb_clean and del_item, so that the ht_rem of   *)
(* the caller (keys "drop") is not reached.                                *)
(***************************************************************************)
Left(ts, t) == FilePackets[ts[t].file] - ts[t].off

Chunk(ts, t) == IF Left(ts, t) > PartPackets THEN PartPackets ELSE Left(ts, t)

\* The part that is sent now is the last one.
LastPart(ts, t) == Left(ts, t) <= PartPackets

Resume(t, q, x, ts, fs, drop) ==
    /\ ts[t].file \in fs
    /\ nbl'    = Submitted(q, Chunk(ts, t), t)
    /\ index'  = Unindexed(Indexed(x, Chunk(ts, t), t), drop)
    /\ lastId' = lastId + Chunk(ts, t)
    /\ pidx'   = pidx + Chunk(ts, t)
    /\ IF LastPart(ts, t)
       THEN /\ tasks' = Without(ts, {t})
            /\ files' = fs \ ({ts[t].file} \cap TcpFiles)
       ELSE /\ tasks' = [ts EXCEPT ![t].off = @ + PartPackets]
            /\ files' = fs
    /\ past' = past \cup Clash(x, NewKeys(Chunk(ts, t), t))

ResumeFails(t, q, x, ts, fs) ==
    /\ ts[t].file \notin fs
    /\ nbl' = q /\ index' = x /\ tasks' = ts /\ files' = fs
    /\ past' = past \cup {"readfail"}
    /\ UNCHANGED <<lastId, pidx>>

UpdateReadyAlways(q, ts) == DOMAIN ts # {}                                 \* variant
UpdateReadyFull(q, ts) == Size(q) = MaxSendQueue /\ DOMAIN ts # {}         \* variant
UpdateReady(q, ts) == Size(q) <= MaxSendQueue /\ DOMAIN ts # {}

\* ok: the call returned 0.
TaskUpdate(q, x, ts, fs, drop, ok) ==
    IF UpdateReady(q, ts)
    THEN LET head == Least(DOMAIN ts)
         IN  IF ok THEN Resume(head, q, x, ts, fs, drop)
                   ELSE ResumeFails(head, q, x, ts, fs)
    ELSE /\ ok
         /\ nbl' = q /\ index' = Unindexed(x, drop) /\ tasks' = ts /\ files' = fs
         /\ UNCHANGED <<lastId, pidx, past>>

(***************************************************************************)
(* net.ack: list.column.del by key, out of list q.  An index entry whose   *)
(* item is no longer linked makes del_item unlink it a second time, and    *)
(* freeing the item that list.map has saved as its next one makes the map  *)
(* read freed memory.                                                      *)
(***************************************************************************)
Ack(q, k, saved, ok) ==
    IF k \notin DOMAIN index
    THEN /\ ok /\ nbl' = q
         /\ UNCHANGED <<index, lastId, pidx, taskVars, past, wrecked>>
    ELSE IF index[k] \notin DOMAIN q
    THEN /\ ok /\ nbl' = q /\ wrecked' = TRUE
         /\ UNCHANGED <<index, lastId, pidx, taskVars, past>>
    ELSE /\ TaskUpdate(Without(q, {index[k]}), index, tasks, files, {k}, ok)
         /\ wrecked' = (index[k] = saved)

-----------------------------------------------------------------------------
Init ==
    /\ nbl = Empty /\ index = Empty /\ instant = Empty
    /\ lastId = 0 /\ pidx = 0
    /\ tasks = Empty /\ tidx = 0 /\ files = ShareFiles
    /\ pass = "idle" /\ cursor = 0
    /\ timer = TRUE /\ write = FALSE /\ writeInst = FALSE
    /\ reading = TRUE /\ stale = FALSE
    /\ sent = 0 /\ sentOld = TRUE /\ rcvd = 0 /\ rcvdOld = TRUE
    /\ wrecked = FALSE
    /\ onwire = {} /\ past = {}
    /\ used = [direct |-> 0, instant |-> 0, relay |-> 0]

\* The loop is free to run a callback.
Idle == pass = "idle" /\ ~wrecked

(***************************************************************************)
(* traffic.update for one packet.  Over the limit the packet is not        *)
(* counted.                                                                *)
(***************************************************************************)
OverBefore(count, limit) == count >= limit      \* variant: without this packet
Over(count, limit) == count + 1 >= limit

SendAllowed == sentOld \/ ~Over(sent, UploadLimit)

CountSend == sent' = (IF sentOld THEN 1 ELSE sent + 1) /\ sentOld' = FALSE

\* net.receive: a probe of 0 bytes opens a new window; when the probe itself
\* is over the limit nothing is read and the handler sees the old packet.
Receive ==
    LET base == IF rcvdOld THEN 0 ELSE rcvd
        over == Over(base, DownloadLimit)
    IN  /\ reading
        /\ rcvdOld' = FALSE
        /\ rcvd' = IF over THEN base ELSE base + 1
        /\ reading' = ~over
        /\ stale' = (base >= DownloadLimit)
        /\ UNCHANGED <<sent, sentOld>>

\* Time: a second has passed since the window was opened.
SendWindowEnds ==
    /\ Idle /\ ~sentOld
    /\ sentOld' = TRUE
    /\ UNCHANGED <<queueVars, taskVars, passVars, watchVars, reading, sent, rcvd, rcvdOld, stale,
                   instant, tidx, wrecked, onwire, past, used>>

ReceiveWindowEnds ==
    /\ Idle /\ ~rcvdOld
    /\ rcvdOld' = TRUE
    /\ UNCHANGED <<queueVars, taskVars, passVars, watchVars, reading, sent, sentOld, rcvd, stale,
                   instant, tidx, wrecked, onwire, past, used>>

(***************************************************************************)
(* Calls of the rest of the program.                                       *)
(***************************************************************************)
\* payload.send of a message of one packet, outside of a task.
SendDirect ==
    /\ Idle /\ used.direct < MaxDirect
    /\ nbl' = Submitted(nbl, 1, 0)
    /\ index' = Indexed(index, 1, 0)
    /\ lastId' = lastId + 1 /\ pidx' = pidx + 1
    /\ past' = past \cup Clash(index, NewKeys(1, 0))
    /\ used' = [used EXCEPT !.direct = @ + 1]
    /\ UNCHANGED <<taskVars, passVars, watchVars, trafficVars, instant, tidx, wrecked, onwire>>

\* task.add; tunnelled data is first written to its file.  A task for the
\* same file and host makes it return at once.
TaskAdd(f, h) ==
    LET present == files \cup ({f} \cap TcpFiles)
        created == [file |-> f, host |-> h, off |-> 0]
        ts      == [t \in DOMAIN tasks \cup {tidx + 1} |->
                        IF t \in DOMAIN tasks THEN tasks[t] ELSE created]
    IN  /\ Idle
        /\ IF \E t \in DOMAIN tasks : tasks[t].file = f /\ tasks[t].host = h
           THEN /\ files' = present
                /\ UNCHANGED <<tidx, tasks, queueVars, past>>
           ELSE /\ tidx < MaxTasks
                /\ tidx' = tidx + 1
                /\ \E ok \in BOOLEAN : TaskUpdate(nbl, index, ts, present, {}, ok)
        /\ UNCHANGED <<passVars, watchVars, trafficVars, instant, wrecked, onwire, used>>

\* task.cancel; task.clean removes the file of tunnelled data.
TaskCancel(t) ==
    /\ Idle /\ t \in DOMAIN tasks
    /\ tasks' = Without(tasks, {t})
    /\ files' = files \ ({tasks[t].file} \cap TcpFiles)
    /\ UNCHANGED <<queueVars, passVars, watchVars, trafficVars, instant, tidx, wrecked, onwire,
                   past, used>>
(***************************************************************************)
(* read_cb, by what has arrived.                                           *)
(***************************************************************************)
\* The ACK of a packet that was on the wire, possibly not for the first time.
ReadAck(k) ==
    /\ Idle /\ k \in onwire
    /\ Receive
    /\ \E ok \in BOOLEAN : Ack(nbl, k, 0, ok)
    /\ UNCHANGED <<passVars, watchVars, instant, tidx, onwire, used>>

\* ack_reply, PING or PONG: a one-shot packet with the next pidx.
OneShot(id) ==
    [i \in DOMAIN instant \cup {id} |->
        IF i = id THEN [key |-> <<pidx, 0>>, attempt |-> 0] ELSE instant[i]]

\* A packet for this peer: it is acknowledged.
ReadData ==
    /\ Idle /\ used.instant < MaxInstant
    /\ Receive
    /\ instant' = OneShot(lastId + 1)
    /\ lastId' = lastId + 1 /\ pidx' = pidx + 1
    /\ writeInst' = TRUE
    /\ used' = [used EXCEPT !.instant = @ + 1]
    /\ UNCHANGED <<nbl, index, taskVars, passVars, timer, write, tidx, wrecked, onwire,
                   past>>

\* PING, which the timer peer_check sends, or the PONG to one.
SendOneShot ==
    /\ Idle /\ used.instant < MaxInstant
    /\ instant' = OneShot(lastId + 1)
    /\ lastId' = lastId + 1 /\ pidx' = pidx + 1
    /\ writeInst' = TRUE
    /\ used' = [used EXCEPT !.instant = @ + 1]
    /\ UNCHANGED <<nbl, index, taskVars, passVars, timer, write, trafficVars, tidx, wrecked,
                   onwire, past>>

\* A packet for another peer: it is acknowledged and submitted as it is, under
\* the pidx and tidx its author gave it.
ReadProxy(k) ==
    /\ Idle /\ used.relay < MaxRelay
    /\ Receive
    /\ instant' = OneShot(lastId + 1)
    /\ nbl' = [i \in DOMAIN nbl \cup {lastId + 2} |->
                  IF i \in DOMAIN nbl THEN nbl[i] ELSE [key |-> k, attempt |-> 0]]
    /\ index' = [j \in DOMAIN index \cup {k} |-> IF j = k THEN lastId + 2 ELSE index[j]]
    /\ lastId' = lastId + 2 /\ pidx' = pidx + 1
    /\ writeInst' = TRUE
    /\ past' = past \cup Clash(index, {k})
    /\ used' = [used EXCEPT !.relay = @ + 1]
    /\ UNCHANGED <<taskVars, passVars, timer, write, tidx, wrecked, onwire>>

\* An ACK, PING or PONG for another peer: data_submit makes it a one-shot packet
\* of this one.  An ACK is not acknowledged.
ReadProxyOneShot(k, acked) ==
    LET l  == IF acked THEN OneShot(lastId + 1) ELSE instant
        id == IF acked THEN lastId + 2 ELSE lastId + 1
    IN  /\ Idle /\ used.relay < MaxRelay
        /\ Receive
        /\ instant' = [i \in DOMAIN l \cup {id} |->
                          IF i = id THEN [key |-> k, attempt |-> 0] ELSE l[i]]
        /\ lastId' = id /\ pidx' = IF acked THEN pidx + 1 ELSE pidx
        /\ writeInst' = TRUE
        /\ used' = [used EXCEPT !.relay = @ + 1]
        /\ UNCHANGED <<nbl, index, taskVars, passVars, timer, write, tidx, wrecked, onwire,
                       past>>

(***************************************************************************)
(* net.retry, the timer.                                                   *)
(***************************************************************************)
Retry ==
    /\ Idle /\ timer
    /\ rcvdOld' = FALSE
    /\ rcvd' = IF rcvdOld THEN 0 ELSE rcvd
    /\ reading' = (rcvdOld \/ rcvd < DownloadLimit)
    /\ timer' = (DOMAIN nbl = {})
    /\ write' = (write \/ DOMAIN nbl # {})
    /\ UNCHANGED <<queueVars, taskVars, passVars, writeInst, sent, sentOld, stale,
                   instant, tidx, wrecked, onwire, past, used>>

(***************************************************************************)
(* write_cb: net.dispatch of nbl, one item per step.                       *)
(***************************************************************************)
WriteStart ==
    /\ Idle /\ write
    /\ pass' = "nbl" /\ cursor' = First(nbl)
    /\ UNCHANGED <<queueVars, taskVars, watchVars, trafficVars,
                   instant, tidx, wrecked, onwire, past, used>>

At(p) == pass = p /\ cursor # 0 /\ ~wrecked

\* attempts(): the counter moves whether or not the packet is sent.  Beyond
\* SendRetry + 1 its value no longer matters (an item no ACK can reach is passed
\* over for ever) and the model stops counting.
Bumped(l) == [l EXCEPT ![cursor].attempt = IF @ > SendRetry THEN @ ELSE @ + 1]

ExpiredEarly(nb) == nb.attempt + 1 >= SendRetry     \* variant: one attempt less
ExpiredNever(nb) == FALSE                           \* variant: no limit
Expired(nb)  == nb.attempt + 1 > SendRetry
Skipped(nb)  == ~Expired(nb) /\ ~SendTable(nb.attempt % SendRetry)
Eligible(nb) == ~Expired(nb) /\ SendTable(nb.attempt % SendRetry)

DispatchExpire ==
    /\ At("nbl") /\ Expired(nbl[cursor])
    /\ \E ok \in BOOLEAN :
          /\ Ack(Bumped(nbl), nbl[cursor].key, Following(nbl, cursor), ok)
          /\ cursor' = IF ok THEN Following(nbl, cursor) ELSE 0
    /\ UNCHANGED <<pass, watchVars, trafficVars, instant, tidx, onwire, used>>

DispatchSkip ==
    /\ At("nbl") /\ Skipped(nbl[cursor])
    /\ nbl' = Bumped(nbl)
    /\ cursor' = Following(nbl, cursor)
    /\ UNCHANGED <<index, lastId, pidx, taskVars, pass, watchVars, trafficVars,
                   instant, tidx, wrecked, onwire, past, used>>

\* Over the upload limit: the map stops, the attempt is used up.
DispatchCut ==
    /\ At("nbl") /\ Eligible(nbl[cursor]) /\ ~SendAllowed
    /\ nbl' = Bumped(nbl)
    /\ cursor' = 0
    /\ past' = past \cup {"cut"}
    /\ UNCHANGED <<index, lastId, pidx, taskVars, pass, watchVars, trafficVars,
                   instant, tidx, wrecked, onwire, used>>

DispatchSend ==
    /\ At("nbl") /\ Eligible(nbl[cursor]) /\ SendAllowed
    /\ CountSend
    /\ nbl' = Bumped(nbl)
    /\ onwire' = onwire \cup {nbl[cursor].key}
    /\ cursor' = Following(nbl, cursor)
    /\ UNCHANGED <<index, lastId, pidx, taskVars, pass, watchVars, reading, rcvd, rcvdOld, stale,
                   instant, tidx, wrecked, past, used>>

WriteDone ==
    /\ pass = "nbl" /\ cursor = 0 /\ ~wrecked
    /\ pass' = "idle"
    /\ write' = FALSE /\ timer' = TRUE
    /\ UNCHANGED <<queueVars, taskVars, cursor, writeInst, trafficVars,
                   instant, tidx, wrecked, onwire, past, used>>
(***************************************************************************)
(* write_instant_cb: net.dispatch of the one-shot list, where each packet  *)
(* sent is deleted, then list.clean of what is left.                       *)
(***************************************************************************)
InstantStart ==
    /\ Idle /\ writeInst
    /\ pass' = "instant" /\ cursor' = First(instant)
    /\ UNCHANGED <<queueVars, taskVars, watchVars, trafficVars,
                   instant, tidx, wrecked, onwire, past, used>>

\* Left over by a failed clean-up: attempts() gives up, or the table skips it.
InstantPass ==
    /\ At("instant") /\ ~Eligible(instant[cursor])
    /\ instant' = Bumped(instant)
    /\ IF Expired(instant[cursor])
       THEN \E ok \in BOOLEAN :
              /\ Ack(nbl, instant[cursor].key, 0, ok)
              /\ cursor' = IF ok THEN Following(instant, cursor) ELSE 0
       ELSE /\ cursor' = Following(instant, cursor)
            /\ UNCHANGED <<queueVars, taskVars, past, wrecked>>
    /\ UNCHANGED <<pass, watchVars, trafficVars, tidx, onwire, used>>

InstantCut ==
    /\ At("instant") /\ Eligible(instant[cursor]) /\ ~SendAllowed
    /\ instant' = Bumped(instant)
    /\ cursor' = 0
    /\ UNCHANGED <<queueVars, taskVars, pass, watchVars, trafficVars,
                   tidx, wrecked, onwire, past, used>>

InstantSend ==
    /\ At("instant") /\ Eligible(instant[cursor]) /\ SendAllowed
    /\ CountSend
    /\ instant' = Without(instant, {cursor})
    /\ \E ok \in BOOLEAN :
          /\ TaskUpdate(nbl, index, tasks, files, {}, ok)
          /\ cursor' = IF ok THEN Following(instant, cursor) ELSE 0
    /\ UNCHANGED <<pass, watchVars, reading, rcvd, rcvdOld, stale, tidx, wrecked, onwire, used>>

InstantSent ==
    /\ pass = "instant" /\ cursor = 0 /\ ~wrecked
    /\ pass' = "purge" /\ cursor' = First(instant)
    /\ writeInst' = FALSE
    /\ UNCHANGED <<queueVars, taskVars, timer, write, trafficVars,
                   instant, tidx, wrecked, onwire, past, used>>

\* clean_items: the head is only reset at the end, so an error on any item but
\* the first leaves it pointing at a freed one.
Purge ==
    /\ At("purge")
    /\ \E ok \in BOOLEAN :
          /\ TaskUpdate(nbl, index, tasks, files, {}, ok)
          /\ cursor'  = IF ok THEN Following(instant, cursor) ELSE 0
          /\ pass'    = IF ok THEN pass ELSE "idle"
          /\ wrecked' = (~ok /\ cursor # First(instant))
    /\ UNCHANGED <<watchVars, trafficVars, instant, tidx, onwire, used>>

PurgeDone ==
    /\ pass = "purge" /\ cursor = 0 /\ ~wrecked
    /\ pass' = "idle" /\ instant' = Empty
    /\ UNCHANGED <<queueVars, taskVars, cursor, watchVars, trafficVars,
                   tidx, wrecked, onwire, past, used>>

\* After a use of freed memory nothing is known: the model stops.
Halted == wrecked /\ UNCHANGED vars

-----------------------------------------------------------------------------
WriteCb   == \/ WriteStart \/ DispatchExpire \/ DispatchSkip \/ DispatchCut
             \/ DispatchSend \/ WriteDone
InstantCb == \/ InstantStart \/ InstantPass \/ InstantCut \/ InstantSend
             \/ InstantSent \/ Purge \/ PurgeDone

Next ==
    \/ SendDirect
    \/ \E f \in Files, h \in Hosts : TaskAdd(f, h)
    \/ \E t \in 1 .. MaxTasks : TaskCancel(t)
    \/ \E k \in onwire : ReadAck(k)
    \/ ReadData \/ SendOneShot
    \/ \E k \in ForeignKeys : ReadProxy(k)
    \/ \E k \in ForeignKeys, acked \in BOOLEAN : ReadProxyOneShot(k, acked)
    \/ SendWindowEnds \/ ReceiveWindowEnds
    \/ Retry \/ WriteCb \/ InstantCb
    \/ Halted

Spec == Init /\ [][Next]_vars

\* libev runs the timer and every ready watcher in each turn of the loop.
Fairness == WF_vars(Retry) /\ WF_vars(WriteCb) /\ WF_vars(InstantCb)

FairSpec == Spec /\ Fairness
-----------------------------------------------------------------------------
IsList(l, n) == DOMAIN l \subseteq 1 .. n /\ l \in [DOMAIN l -> Items]

IsIndex(x, n) == DOMAIN x \subseteq Keys /\ x \in [DOMAIN x -> 1 .. n]

AreTasks(ts, n) ==
    /\ DOMAIN ts \subseteq 1 .. n
    /\ ts \in [DOMAIN ts -> [file: Files, host: Hosts, off: Nat]]
    /\ \A t \in DOMAIN ts : ts[t].off < FilePackets[ts[t].file]

\* Types of the state of the send queue, its tasks, traffic counters and watchers;
\* a task in the list (task.c) always has a part left to send.
TypeOK ==
    /\ lastId \in Nat /\ pidx \in Nat /\ tidx \in Nat
    /\ IsList(nbl, lastId) /\ IsList(instant, lastId) /\ IsIndex(index, lastId)
    /\ AreTasks(tasks, tidx) /\ files \subseteq Files
    /\ pass \in {"idle", "nbl", "instant", "purge"}
    /\ cursor \in 0 .. lastId
    /\ timer \in BOOLEAN /\ write \in BOOLEAN /\ writeInst \in BOOLEAN
    /\ reading \in BOOLEAN /\ sentOld \in BOOLEAN /\ rcvdOld \in BOOLEAN
    /\ stale \in BOOLEAN /\ wrecked \in BOOLEAN
    /\ sent \in Nat /\ rcvd \in Nat
    /\ onwire \subseteq Keys /\ past \subseteq Events
    /\ used \in [direct: Nat, instant: Nat, relay: Nat]

\* net.ack finds every queued packet: the index and the list agree in both
\* directions.  A packet can only become unreachable through a second packet
\* with its (pidx, tidx), and an index entry can only outlive its item through
\* a task that could not read its file while the item was being freed.
IndexAgrees ==
    /\ "duplicate" \notin past =>
          \A i \in DOMAIN nbl : nbl[i].key \in DOMAIN index /\ index[nbl[i].key] = i
    /\ "readfail" \notin past =>
          \A k \in DOMAIN index : index[k] \in DOMAIN nbl /\ nbl[index[k]].key = k

\* The re-entrant calls (nb_clean -> task.update -> data.submit while the list is
\* walked or an item is deleted) never touch a freed item, unless one of the
\* two events has happened.
NoUseAfterFree == wrecked => past \cap {"duplicate", "readfail"} # {}

\* No lost wake-up: task.update is only called by task.add and when a packet is
\* freed, so a waiting task needs a packet in the list to wake it.
TasksAreFed ==
    "readfail" \notin past /\ DOMAIN tasks # {} => DOMAIN nbl # {}

\* The throttle of task.update bounds the file packets in the list, whatever is
\* acknowledged, expires or is submitted beside them.
BacklogBounded ==
    Cardinality({i \in DOMAIN nbl : nbl[i].key[2] # 0 /\ nbl[i].key \notin ForeignKeys})
        <= MaxSendQueue + PartPackets

\* The bandwidth probe of net.receive never refuses to read, so read_cb never
\* handles the previous datagram a second time.
ReadsAreFresh == ~stale

\* A packet leaves the list when it may have been acknowledged or after all its
\* attempts, and for no other reason.
LeavesForCause ==
    [][\A i \in DOMAIN nbl \ DOMAIN nbl' :
          \/ nbl[i].key \in onwire
          \/ nbl[i].attempt >= SendRetry
          \/ "duplicate" \in past]_vars

\* The list, the index, the tasks and the throttle together behave as the Outbox.
OutboxQueue == [k \in {nbl[i].key : i \in DOMAIN nbl} |-> nbl[index[k]].attempt]

O == INSTANCE Outbox WITH queue <- OutboxQueue, next <- pidx,
                          Burst <- PartPackets, Owners <- 0 .. MaxTasks

\* Without relayed packets, every step of net.c, task.c and data.c is a step of
\* the Outbox or leaves it unchanged.
ImplementsOutbox == O!Spec

Damaged == past \cap {"duplicate", "readfail"} # {}

MaxIds == MaxDirect + MaxInstant + 2 * MaxRelay
             + MaxTasks * CHOOSE n \in {FilePackets[f] : f \in Files} :
                             \A f \in Files : FilePackets[f] <= n

\* Every queued packet is eventually acknowledged or given up, at any bandwidth.
Drains == \A i \in 1 .. MaxIds : i \in DOMAIN nbl ~> (i \notin DOMAIN nbl \/ Damaged)

\* Every task is eventually sent to its last part, unless reading fails.
TasksFinish == \A t \in 1 .. MaxTasks : t \in DOMAIN tasks ~> (t \notin DOMAIN tasks \/ Damaged)
==============================================================================
