------------------------------ MODULE FileParts ------------------------------
(***************************************************************************)
(* Files on their way from one peer's disk to another's.  The sender cuts  *)
(* a file into parts, one message each; the receiver keeps every part as a *)
(* file of its own, whose name carries the sender and the sender's         *)
(* numbers, and joins the parts when it counts as many as the message      *)
(* says.  Part files outlive a crash of the receiver, the numbers do not   *)
(* outlive a restart of the sender.                                        *)
(*                                                                         *)
(* Messages are handled after any time, in any order, any number of times, *)
(* or never (see Transport): net only grows.                               *)
(***************************************************************************)
EXTENDS Naturals, Sequences, FiniteSets

CONSTANTS
    Senders,    \* addresses host:port
    Files,      \* files that are sent
    Length,     \* Length[f]: bytes of f
    TaskBuffer, \* net.max.task_buffer: bytes of one part
    MaxTasks,   \* bound: tasks of one run of each sender
    MaxRuns,    \* bound: runs of each sender
    MaxCrashes  \* bound: crashes of the receiver

ASSUME PartsAssumption ==
    /\ TaskBuffer \in Nat \ {0}
    /\ Length \in [Files -> Nat \ {0}]
    /\ MaxTasks \in [Senders -> Nat] /\ MaxRuns \in [Senders -> Nat]
    /\ MaxCrashes \in Nat

VARIABLES
    out,      \* out[s]: run of sender s, and its counters tasks.idx and gidx
    net,      \* messages sent so far
    parts,    \* part files: their names and contents
    step,     \* what the handler of the receiver is doing
    joined,   \* files put together in the download directory, with their sender
    arrived,  \* messages the handler has finished with before any crash
    crashes,  \* crashes of the receiver
    torn      \* a crash interrupted the writing of a part

vars == <<out, net, parts, step, joined, arrived, crashes, torn>>

Content(f) == [k \in 1..Length[f] |-> <<f, k>>]

\* Variant: one part more when the size is a multiple of the buffer.
FilePartsOneMore(size) == (size \div TaskBuffer) + 1

\* os.fileparts: how many parts of at most TaskBuffer bytes.
FileParts(size) == (size \div TaskBuffer) + (IF size % TaskBuffer # 0 THEN 1 ELSE 0)

\* os.filepart: the bytes from an offset, at most TaskBuffer of them.
FilePart(f, offset) ==
    SubSeq(Content(f), offset + 1,
           IF TaskBuffer > Length[f] - offset THEN Length[f] ELSE offset + TaskBuffer)

\* The messages of task t of sender s: one part each, in increasing gidx.  Other
\* messages of the sender may take numbers in between; only the order counts,
\* because os.filejoin sorts by it.
Messages(s, t, g, f) ==
    {[src |-> s, tidx |-> t, gidx |-> g + i, parts |-> FileParts(Length[f]),
      data |-> FilePart(f, i * TaskBuffer), file |-> f, run |-> out[s].run] :
        i \in 0..(FileParts(Length[f]) - 1)}

Idle == [at |-> "idle"]

Init ==
    /\ out = [s \in Senders |-> [run |-> 1, tidx |-> 0, gidx |-> 0]]
    /\ net = {} /\ parts = {} /\ step = Idle
    /\ joined = {} /\ arrived = {} /\ crashes = 0 /\ torn = FALSE

\* A task is added and its parts are sent (when, and which of them, is for the
\* network to choose).
Send(s, f) ==
    /\ out[s].tidx < MaxTasks[s]
    /\ LET t == out[s].tidx + 1
       IN  /\ net' = net \cup Messages(s, t, out[s].gidx, f)
           /\ out' = [out EXCEPT ![s] = [run |-> @.run, tidx |-> t,
                                         gidx |-> @.gidx + FileParts(Length[f])]]
    /\ UNCHANGED <<parts, step, joined, arrived, crashes, torn>>

\* A sender is started again: its port is kept in a file, its counters are not.
SenderRestarts(s) ==
    /\ out[s].run < MaxRuns[s]
    /\ out' = [out EXCEPT ![s] = [run |-> @.run + 1, tidx |-> 0, gidx |-> 0]]
    /\ UNCHANGED <<net, parts, step, joined, arrived, crashes, torn>>

Handled(m) == arrived' = IF crashes = 0 THEN arrived \cup {m} ELSE {}

NameOf(m) == [src |-> m.src, tidx |-> m.tidx, gidx |-> m.gidx]

\* os.partexists: a part file whose name begins with sender, task and group.
PartExists(m) == \E p \in parts : p.name = NameOf(m)

\* file_read of a part that is there already: nothing happens.
ReadAgain(m) ==
    /\ step = Idle
    /\ PartExists(m)
    /\ Handled(m)
    /\ UNCHANGED <<out, net, parts, step, joined, crashes, torn>>

\* file_read of a new part: its file is created, still empty.
ReadPart(m) ==
    /\ step = Idle
    /\ ~PartExists(m)
    /\ parts' = parts \cup {[name |-> NameOf(m), data |-> <<>>]}
    /\ step' = [at |-> "writing", msg |-> m]
    /\ UNCHANGED <<out, net, joined, arrived, crashes, torn>>

\* Variant: the parts of every task of the sender are joined.
SiblingsAnyTask(P, m) == {p \in P : p.name.src = m.src}

\* os.filejoin: the parts of the same sender and task.
Siblings(P, m) == {p \in P : p.name.src = m.src /\ p.name.tidx = m.tidx}

\* How many come before p: names have fixed widths, so their order is that of gidx.
Rank(P, p) == Cardinality({q \in P : q.name.gidx < p.name.gidx})

\* list.toarray_sort
Sorted(P) == [i \in 1..Cardinality(P) |-> CHOOSE p \in P : Rank(P, p) = i - 1]

\* The part is on disk, and the parts are counted.
WritePart ==
    /\ step.at = "writing"
    /\ LET m == step.msg
           written == [name |-> NameOf(m), data |-> m.data]
           now == {p \in parts : p.name # NameOf(m)} \cup {written}
           all == Siblings(now, m)
       IN  /\ parts' = now
           /\ IF Cardinality(all) = m.parts
              THEN /\ step' = [at |-> "joining", msg |-> m, todo |-> Sorted(all), temp |-> <<>>]
                   /\ UNCHANGED arrived
              ELSE /\ step' = Idle
                   /\ Handled(m)
    /\ UNCHANGED <<out, net, joined, crashes, torn>>

\* finalize: the next part is appended to the file under way and removed.
JoinPart ==
    /\ step.at = "joining" /\ step.todo # <<>> /\ Head(step.todo).data # <<>>
    /\ parts' = parts \ {Head(step.todo)}
    /\ step' = [at |-> "joining", msg |-> step.msg, todo |-> Tail(step.todo),
                temp |-> step.temp \o Head(step.todo).data]
    /\ UNCHANGED <<out, net, joined, arrived, crashes, torn>>

\* finalize: an empty part stops it, the parts before are gone.
JoinFails ==
    /\ step.at = "joining" /\ step.todo # <<>> /\ Head(step.todo).data = <<>>
    /\ step' = Idle
    /\ Handled(step.msg)
    /\ UNCHANGED <<out, net, parts, joined, crashes, torn>>

\* The whole file gets its hash for a name.  Then file_read looks for the sender
\* in the list of peers and tells the application, or fails: see Jobs and Chains
\* for what becomes of the file in each case.
JoinDone ==
    /\ step.at = "joining" /\ step.todo = <<>>
    /\ joined' = joined \cup
                 {[src |-> step.msg.src, tidx |-> step.msg.tidx, data |-> step.temp]}
    /\ step' = Idle
    /\ Handled(step.msg)
    /\ UNCHANGED <<out, net, parts, crashes, torn>>

\* The receiver dies and is started again: part files stay as they are; one that
\* was being written is empty, cut short or whole.
Crash ==
    /\ crashes < MaxCrashes
    /\ crashes' = crashes + 1
    /\ step' = Idle
    /\ arrived' = {}
    /\ IF step.at = "writing"
       THEN /\ \E k \in 0..Len(step.msg.data) :
                 parts' = {p \in parts : p.name # NameOf(step.msg)} \cup
                          {[name |-> NameOf(step.msg), data |-> SubSeq(step.msg.data, 1, k)]}
            /\ torn' = TRUE
       ELSE UNCHANGED <<parts, torn>>
    /\ UNCHANGED <<out, net, joined>>

Next ==
    \/ \E s \in Senders, f \in Files : Send(s, f)
    \/ \E s \in Senders : SenderRestarts(s)
    \/ \E m \in net : ReadAgain(m) \/ ReadPart(m)
    \/ WritePart \/ JoinPart \/ JoinFails \/ JoinDone \/ Crash

Spec == Init /\ [][Next]_vars

------------------------------------------------------------------------------
\* A task number that two runs of a sender have used.
Reused(s, t) == \E m, n \in net : {m.src, n.src} = {s} /\ {m.tidx, n.tidx} = {t} /\ m.run # n.run

\* What finalize puts together is, byte for byte, the file of the task whose
\* numbers the parts carry: parts of two files, two tasks or two senders are
\* never mixed and none is missing or misplaced, whatever arrives when and
\* wherever the receiver crashes, unless a crash cut a part short or a
\* restarted sender has used that task number again.
JoinedIntact ==
    \A j \in joined :
        ~torn /\ ~Reused(j.src, j.tidx) =>
            \E m \in net : /\ m.src = j.src /\ m.tidx = j.tidx
                           /\ j.data = Content(m.file)

\* A task all of whose messages have been handled has become a file: no complete
\* set of parts waits in the directory for a message that will not come.  A crash
\* of the receiver or a task number used twice may leave one.
ArrivedIsJoined ==
    \A m \in net :
        LET task == {n \in net : n.src = m.src /\ n.tidx = m.tidx}
        IN  task \subseteq arrived /\ crashes = 0 /\ ~Reused(m.src, m.tidx) =>
                \E j \in joined : j.src = m.src /\ j.tidx = m.tidx
==============================================================================
