------------------------------- MODULE Outbox --------------------------------
(***************************************************************************)
(* What the send side of a peer promises to the layers above (data.send,   *)
(* net.dispatch, net.ack): packets are numbered without gaps or repeats,   *)
(* each one is tried again and again, and it leaves only when it has been  *)
(* on the wire, where an ACK can come from, or after SendRetry attempts.   *)
(* No list, index, task, bandwidth or watcher appears here.                *)
(***************************************************************************)
EXTENDS Integers

CONSTANTS
    SendRetry,  \* attempts before a packet is given up
    Burst,      \* most packets one submission may have
    Owners      \* task indices, 0 for packets of no task

VARIABLES
    queue,      \* (pidx, tidx) -> attempts made
    next,       \* the next pidx
    onwire      \* keys ever transmitted

vars == <<queue, next, onwire>>

Init == queue = [k \in {} |-> 0] /\ next = 0 /\ onwire = {}

Fresh(n, t) == {<<p, t>> : p \in next .. next + n - 1}

\* n new packets of task t join those that remain.
Posted(q, n, t) == [k \in DOMAIN q \cup Fresh(n, t) |-> IF k \in DOMAIN q THEN q[k] ELSE 0]

Post ==
    \E n \in 1 .. Burst, t \in Owners :
        /\ queue' = Posted(queue, n, t)
        /\ next' = next + n
        /\ UNCHANGED onwire

\* An ACK, PING or PONG takes a number but is never queued.
OneShot == next' = next + 1 /\ UNCHANGED <<queue, onwire>>

\* An attempt transmits, or is used up by the send table or the upload limit.
Try ==
    \E k \in DOMAIN queue :
        /\ queue[k] < SendRetry
        /\ queue' = [queue EXCEPT ![k] = @ + 1]
        /\ onwire' \in {onwire, onwire \cup {k}}
        /\ UNCHANGED next

\* A packet leaves; the room it makes may be filled at once.
Leave ==
    \E k \in DOMAIN queue, n \in 0 .. Burst, t \in Owners :
        /\ k \in onwire \/ queue[k] >= SendRetry
        /\ queue' = Posted([j \in DOMAIN queue \ {k} |-> queue[j]], n, t)
        /\ next' = next + n
        /\ UNCHANGED onwire

Next == Post \/ OneShot \/ Try \/ Leave

Spec == Init /\ [][Next]_vars
==============================================================================
