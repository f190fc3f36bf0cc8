------------------------------ MODULE TcpStream ------------------------------
(***************************************************************************)
(* TCP connections carried over the file transport.  A peer with a tunnel  *)
(* accepts local clients; what it reads from one becomes a file task for   *)
(* the other peer, which passes it to a connection of its own (the         *)
(* endpoint) to the service.  Answers go the same way back.  The number of *)
(* the task, tidx, gives the order of the parts.                           *)
(*                                                                         *)
(* Files reach the other peer after any time, any number of times, in any  *)
(* order, or never: net only grows.                                        *)
(***************************************************************************)
EXTENDS Naturals, Sequences, FiniteSets

CONSTANTS
    Fds,        \* descriptors of the clients at the tunnel, the cidx of a connection
    Chunks,     \* contents of one read
    QueueSize,  \* QUEUE_SIZE of list.c
    MaxTidx,    \* bound: tasks per peer
    MaxReads,   \* bound: reads per connection
    MaxConns    \* bound: connections opened

Ends == {"tunnel", "endpoint"}

ASSUME StreamAssumption ==
    /\ QueueSize \in Nat \ {0}
    /\ MaxTidx \in [Ends -> Nat]
    /\ MaxReads \in Nat /\ MaxConns \in Nat

VARIABLES
    conn,   \* conn[e][f]: the open connection with cidx f at end e, or Closed
    tidx,   \* tasks.idx of each peer
    tasks,  \* tasks.list of each peer, parts still to be submitted
    net,    \* parts submitted so far
    log     \* what happened to each connection, in the order they were opened

vars == <<conn, tidx, tasks, net, log>>

Other(e) == IF e = "tunnel" THEN "endpoint" ELSE "tunnel"

\* A part: the header fields that matter and the content; from is the connection
\* it was read from (not in the header).
Part == [src: Ends, fd: Fds, tidx: Nat \ {0}, chunk: Chunks, from: Nat]

Closed == [id |-> 0]

\* struct gc_gen_client_s, base.tcp: last is its tidx, queue its packets, newest
\* first, and done the numbers in the queue that are marked dispatched.
Opened(n) == [id |-> n, last |-> 0, queue |-> <<>>, done |-> {}]

Entry == [read |-> <<>>, out |-> <<>>, arrived |-> {}, first |-> 0,
          merged |-> FALSE, lost |-> FALSE]

Numbers(q) == {q[i].tidx : i \in DOMAIN q}

Init ==
    /\ conn = [e \in Ends |-> [f \in Fds |-> Closed]]
    /\ tidx = [e \in Ends |-> 0]
    /\ tasks = [e \in Ends |-> <<>>]
    /\ net = {}
    /\ log = <<>>

(***************************************************************************)
(* Reading from a connection.                                              *)
(***************************************************************************)
\* task.update: if the send queue has room, the head task is submitted whole (a
\* read fits in one part).
Feed(e, ts, room) ==
    IF room /\ ts # <<>>
    THEN tasks' = [tasks EXCEPT ![e] = Tail(ts)] /\ net' = net \cup {Head(ts)}
    ELSE tasks' = [tasks EXCEPT ![e] = ts] /\ UNCHANGED net

\* tunnel_data and response: the chunk is saved under its hash, and task.add does
\* nothing when a task for that file still waits.
Read(e, f, chunk, room) ==
    /\ conn[e][f] # Closed
    /\ Len(log[conn[e][f].id].read) < MaxReads
    /\ LET i == conn[e][f].id
           n == tidx[e] + 1
           p == [src |-> e, fd |-> f, tidx |-> n, chunk |-> chunk, from |-> i]
           waits == \E k \in DOMAIN tasks[e] : tasks[e][k].chunk = chunk
       IN IF waits
          THEN /\ log' = [log EXCEPT ![i].read = Append(@, chunk), ![i].merged = TRUE]
               /\ UNCHANGED <<tidx, tasks, net>>
          ELSE /\ n <= MaxTidx[e]
               /\ tidx' = [tidx EXCEPT ![e] = n]
               /\ Feed(e, Append(tasks[e], p), room)
               /\ log' = [log EXCEPT ![i].read = Append(@, chunk),
                                     ![i].first = IF @ = 0 THEN n ELSE @]
    /\ UNCHANGED conn

\* The departure of a packet calls task.update.
Resume(e) ==
    /\ tasks[e] # <<>>
    /\ Feed(e, tasks[e], TRUE)
    /\ UNCHANGED <<conn, tidx, log>>

\* task.add for a shared file or a block file uses a number too.
OtherTask(e) ==
    /\ tidx[e] < MaxTidx[e]
    /\ tidx' = [tidx EXCEPT ![e] = @ + 1]
    /\ UNCHANGED <<conn, tasks, net, log>>

(***************************************************************************)
(* Passing parts on.                                                       *)
(***************************************************************************)
\* The item that queue_add deletes from a full queue: the last one of the list.
Oldest(c) == c.queue[Len(c.queue)]

\* queue_add: a full queue drops its oldest part, dispatched or not.
Queued(c, p) ==
    LET full == Len(c.queue) >= QueueSize
        kept == IF full THEN SubSeq(c.queue, 1, Len(c.queue) - 1) ELSE c.queue
    IN [c EXCEPT !.queue = <<p>> \o kept,
                 !.done = IF full THEN @ \ {Oldest(c).tidx} ELSE @]

\* A mutation of Reach: tcpdispatch does not call itself.
ReachOne(S, l) == IF (l + 1) \in S THEN l + 1 ELSE l

\* The last number that tcpdispatch reaches from l when the parts S wait.
Reach(S, l) ==
    CHOOSE n \in S \cup {l} : n >= l /\ (l + 1) .. n \subseteq S /\ (n + 1) \notin S

\* A mutation of Start: every new part is passed on as it comes.
StartAny(c) == Head(c.queue).tidx - 1

\* tcpdispatch: the first part of a connection is passed on whatever its number,
\* and then each part that follows the last one passed on.
Start(c) == IF c.last = 0 THEN Head(c.queue).tidx - 1 ELSE c.last

Dispatched(c) ==
    LET to == Reach(Numbers(c.queue) \ c.done, Start(c))
    IN [c EXCEPT !.last = to, !.done = @ \cup ((Start(c) + 1) .. to)]

PartOf(q, n) == q[CHOOSE i \in DOMAIN q : q[i].tidx = n]

\* A mutation of Passed: the part is sent after the recursion.
PassedAfter(c) ==
    [k \in 1 .. Dispatched(c).last - Start(c) |-> PartOf(c.queue, Dispatched(c).last + 1 - k)]

\* What tcpdispatch gives to gc_gen_ev_send, in order.
Passed(c) ==
    [k \in 1 .. Dispatched(c).last - Start(c) |-> PartOf(c.queue, Start(c) + k)]

\* The log entry l of connection c after tcpsend of part p.
After(l, c, p) ==
    [l EXCEPT !.out = @ \o Passed(Queued(c, p)),
              !.arrived = @ \cup {p.tidx},
              !.lost = @ \/ (Len(c.queue) >= QueueSize /\ Oldest(c).tidx > c.last)]

\* tcpsend: the part joins the queue of connection c, then the queue is dispatched.
Send(e, f, c, entries, p) ==
    /\ conn' = [conn EXCEPT ![e][f] = Dispatched(Queued(c, p))]
    /\ log' = [entries EXCEPT ![c.id] = After(@, c, p)]

\* endpoint.request and tunnel.response on a part whose connection is open: tcpsent
\* finds a part that is still in the queue.
Arrive(p) ==
    LET e == Other(p.src)
        c == conn[e][p.fd]
    IN /\ c # Closed
       /\ p.tidx \notin Numbers(c.queue)
       /\ Send(e, p.fd, c, log, p)
       /\ UNCHANGED <<tidx, tasks, net>>

\* endpoint.request opens a connection to the service for the first part it gets.
Request(p) ==
    /\ p.src = "tunnel"
    /\ conn["endpoint"][p.fd] = Closed
    /\ Len(log) < MaxConns
    /\ Send("endpoint", p.fd, Opened(Len(log) + 1), Append(log, Entry), p)
    /\ UNCHANGED <<tidx, tasks, net>>

(***************************************************************************)
(* Opening and closing.                                                    *)
(***************************************************************************)
\* server_async_client: a new client gets a free descriptor.
Accept(f) ==
    /\ conn["tunnel"][f] = Closed
    /\ Len(log) < MaxConns
    /\ conn' = [conn EXCEPT !["tunnel"][f] = Opened(Len(log) + 1)]
    /\ log' = Append(log, Entry)
    /\ UNCHANGED <<tidx, tasks, net>>

\* client_error and response_error: the connection and its queue go; nobody tells
\* the other end.
Shutdown(e, f) ==
    /\ conn[e][f] # Closed
    /\ conn' = [conn EXCEPT ![e][f] = Closed]
    /\ UNCHANGED <<tidx, tasks, net, log>>

Next ==
    \/ \E e \in Ends, f \in Fds, chunk \in Chunks, room \in BOOLEAN : Read(e, f, chunk, room)
    \/ \E e \in Ends : Resume(e) \/ OtherTask(e)
    \/ \E p \in net : Arrive(p) \/ Request(p)
    \/ \E f \in Fds : Accept(f)
    \/ \E e \in Ends, f \in Fds : Shutdown(e, f)

Spec == Init /\ [][Next]_vars

(***************************************************************************)
(* Properties.                                                             *)
(***************************************************************************)
Entries == [read: Seq(Chunks), out: Seq(Part), arrived: SUBSET Nat, first: Nat,
            merged: BOOLEAN, lost: BOOLEAN]

Conns == [id: Nat \ {0}, last: Nat, queue: Seq(Part), done: SUBSET Nat]

\* A queue holds at most QUEUE_SIZE parts, with distinct numbers, and marks only
\* parts that it holds, none beyond the last one passed on.
IsQueue(c) ==
    /\ Len(c.queue) <= QueueSize
    /\ \A i, j \in DOMAIN c.queue : c.queue[i].tidx = c.queue[j].tidx => i = j
    /\ c.done \subseteq Numbers(c.queue) /\ \A n \in c.done : n <= c.last

\* Types, and the shape of the queue that tcpsent, queue_add and tcpdispatch keep.
TypeOK ==
    /\ conn \in [Ends -> [Fds -> Conns \cup {Closed}]]
    /\ \A e \in Ends, f \in Fds :
           conn[e][f] # Closed => conn[e][f].id \in DOMAIN log /\ IsQueue(conn[e][f])
    /\ tidx \in [Ends -> Nat]
    /\ tasks \in [Ends -> Seq(Part)]
    /\ net \subseteq Part
    /\ log \in Seq(Entries)

\* What tcpdispatch passes to one connection has consecutive numbers: nothing is
\* skipped, repeated or passed on early, whatever arrives and whatever the bounded
\* queue drops.
InOrder ==
    \A i \in DOMAIN log : \A k \in 1 .. Len(log[i].out) - 1 :
        log[i].out[k + 1].tidx = log[i].out[k].tidx + 1

\* The recursion of tcpdispatch leaves nothing behind: the part that follows the
\* last one passed on has not arrived, unless the queue was full and queue_add
\* dropped a part that was still waited for.
NothingLeftBehind ==
    \A e \in Ends, f \in Fds :
        LET c == conn[e][f] IN
            c # Closed /\ ~log[c.id].lost => (c.last + 1) \notin log[c.id].arrived

\* The parts in out have the content read, from the first one on.
StartsWith(read, out) == \A k \in DOMAIN out : k \in DOMAIN read /\ out[k].chunk = read[k]

\* The content passed on is a prefix of the content read, if it started with the
\* first part of one connection, all of it came from there (the descriptor was not
\* given to another client), and task.add took no chunk for one that still waited.
StreamIsPrefix ==
    \A i \in DOMAIN log :
        LET out == log[i].out
            from == out[1].from
        IN out # <<>> =>
            \/ out[1].tidx # log[from].first
            \/ log[from].merged
            \/ \E k \in DOMAIN out : out[k].from # from
            \/ StartsWith(log[from].read, out)

==============================================================================
