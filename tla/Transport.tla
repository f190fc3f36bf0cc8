------------------------------ MODULE Transport ------------------------------
(***************************************************************************)
(* Messages between peers: src/packet.c cuts a message into packets, each  *)
(* packet waits in the sender's queue until it is acknowledged or given up *)
(* (module Outbox, reduced to what the receiver can notice), the network   *)
(* loses, delays, repeats and reorders, and payload.c puts the message     *)
(* together in the receiver's cache, acknowledges every packet it accepts  *)
(* or has seen, and calls the handler of the command.                      *)
(*                                                                         *)
(* One receiver and several senders.  The cache is keyed by the sender's   *)
(* own message counter gidx and by the destination, which is the receiver  *)
(* itself: the sender is not part of the key, and every counter starts at  *)
(* 0 when its process starts.  `mixed' records where this brought packets  *)
(* of two messages together.                                               *)
(***************************************************************************)
EXTENDS Integers, FiniteSets

CONSTANTS
    Senders,
    Sizes,          \* packets a message may have
    Tries,          \* transmissions before a packet is given up
    MaxMessages,    \* bound: messages of one run of a sender
    MaxRestarts,    \* bound: restarts of each sender
    MaxCrashes      \* bound: restarts of the receiver

ASSUME TransportAssumption ==
    /\ Sizes \subseteq Nat \ {0}
    /\ {Tries, MaxMessages, MaxRestarts, MaxCrashes} \subseteq Nat
    /\ Tries > 0

VARIABLES
    gidx, pidx,     \* send_buffer.gidx and .pidx of each sender
    run,            \* how often each sender has been restarted
    pending,        \* packets in send.nbl, with the attempts made
    net,            \* packets ever on the wire; any may arrive, any number of times
    acks,           \* ACKs ever on the wire: <<sender, pidx>>
    acked,          \* packets that left the queue by an ACK
    expired,        \* packets that left the queue unacknowledged
    cache,          \* recv_buffer.cache: gidx -> entry
    seen,           \* packets received since the receiver started
    handled,        \* what the handlers were given since then: sets of packets
    mixed,          \* gidx whose entry met packets of two messages since then
    crashes         \* how often the receiver has been restarted

sendvars == <<gidx, pidx, run>>
recvvars == <<cache, seen, handled, mixed, crashes>>
transportVars == <<sendvars, pending, net, acks, acked, expired, recvvars>>

-----------------------------------------------------------------------------
(* Messages and packets.                                                   *)

Packet == [src : Senders, run : Nat, gidx : Nat, pidx : Nat, off : Nat, chunks : Nat]

Message(p) == <<p.src, p.run, p.gidx>>

\* chunk: n packets with consecutive pidx and offsets, all saying n.
Chunks(s, n) ==
    {[src |-> s, run |-> run[s], gidx |-> gidx[s], pidx |-> pidx[s] + i,
      off |-> i, chunks |-> n] : i \in 0 .. n - 1}

\* The message a packet is part of, from the packet alone.
Group(p) == {[p EXCEPT !.pidx = p.pidx - p.off + i, !.off = i] : i \in 0 .. p.chunks - 1}

-----------------------------------------------------------------------------
(* Senders.                                                                *)

TransportInit ==
    /\ gidx = [s \in Senders |-> 0]
    /\ pidx = [s \in Senders |-> 0]
    /\ run = [s \in Senders |-> 0]
    /\ pending = [p \in {} |-> 0]
    /\ net = {} /\ acks = {} /\ acked = {} /\ expired = {}
    /\ cache = [g \in {} |-> {}]
    /\ seen = {} /\ handled = {} /\ mixed = {} /\ crashes = 0

Queued(K) == [p \in K |-> IF p \in DOMAIN pending THEN pending[p] ELSE 0]

\* data.send of a message for the receiver.
Send(s) ==
    /\ gidx[s] < MaxMessages
    /\ \E n \in Sizes :
        /\ pending' = Queued(DOMAIN pending \cup Chunks(s, n))
        /\ pidx' = [pidx EXCEPT ![s] = @ + n]
    /\ gidx' = [gidx EXCEPT ![s] = @ + 1]
    /\ UNCHANGED <<run, net, acks, acked, expired, recvvars>>

\* data.send of a message for someone else.
SendElsewhere(s) ==
    /\ gidx[s] < MaxMessages
    /\ gidx' = [gidx EXCEPT ![s] = @ + 1]
    /\ \E n \in Sizes : pidx' = [pidx EXCEPT ![s] = @ + n]
    /\ UNCHANGED <<run, pending, net, acks, acked, expired, recvvars>>

\* net.dispatch transmits.
Transmit(p) ==
    /\ pending[p] < Tries
    /\ pending' = [pending EXCEPT ![p] = @ + 1]
    /\ net' = net \cup {p}
    /\ UNCHANGED <<sendvars, acks, acked, expired, recvvars>>

\* Variant: off by one, the last attempt is never over.
GiveUpLate(p) ==
    /\ pending[p] > Tries
    /\ pending' = Queued(DOMAIN pending \ {p})
    /\ expired' = expired \cup {p}
    /\ UNCHANGED <<sendvars, net, acks, acked, recvvars>>

\* net.dispatch gives up.
GiveUp(p) ==
    /\ pending[p] >= Tries
    /\ pending' = Queued(DOMAIN pending \ {p})
    /\ expired' = expired \cup {p}
    /\ UNCHANGED <<sendvars, net, acks, acked, recvvars>>

\* Variant: an ACK is taken for the whole message.
ReadAckGroup(a) ==
    LET p == UNION {Group(q) \cap DOMAIN pending :
                    q \in {r \in DOMAIN pending : r.src = a[1] /\ r.pidx = a[2]}}
    IN  /\ p # {}
        /\ pending' = Queued(DOMAIN pending \ p)
        /\ acked' = acked \cup p
        /\ UNCHANGED <<sendvars, net, acks, expired, recvvars>>

\* net.ack: whatever the sender has queued under the number leaves.
ReadAck(a) ==
    LET p == {q \in DOMAIN pending : q.src = a[1] /\ q.pidx = a[2]}
    IN  /\ p # {}
        /\ pending' = Queued(DOMAIN pending \ p)
        /\ acked' = acked \cup p
        /\ UNCHANGED <<sendvars, net, acks, expired, recvvars>>

\* The process of a sender ends and starts again: queue and counters are lost.
Restart(s) ==
    /\ run[s] < MaxRestarts
    /\ run' = [run EXCEPT ![s] = @ + 1]
    /\ gidx' = [gidx EXCEPT ![s] = 0]
    /\ pidx' = [pidx EXCEPT ![s] = 0]
    /\ pending' = Queued({p \in DOMAIN pending : p.src # s})
    /\ UNCHANGED <<net, acks, acked, expired, recvvars>>

-----------------------------------------------------------------------------
(* The receiver.                                                           *)

\* packet_recv: the cache entry of a packet, or a new one with its chunk count.
Entry(p) ==
    IF p.gidx \in DOMAIN cache THEN cache[p.gidx] ELSE [total |-> p.chunks, got |-> {}]

\* packet_recv_cache: has this number been recorded in the entry?
Known(e, p) == \E q \in e.got : q.pidx = p.pidx

\* Variant: one packet short of the message.
CompleteEarly(e, got) == Cardinality(got) >= e.total - 1

\* Variant: the packet that completes the message is not counted.
CompleteLate(e, got) == Cardinality(got) = e.total + 1

\* packet_recv_cache: the recorded numbers make up the whole message.
Complete(e, got) == Cardinality(got) = e.total

\* Another message has been recorded in the entry of this packet.
Mixes(e, p) == \E q \in e.got : Message(q) # Message(p)

Cached(g, e) == [h \in DOMAIN cache \cup {g} |-> IF h = g THEN e ELSE cache[h]]

Uncached(g) == [h \in DOMAIN cache \ {g} |-> cache[h]]

\* payload.recv: record, acknowledge, and call the handler of a complete message;
\* its entry goes only if the handler succeeds.
Receive(p) ==
    LET e == Entry(p)
        got == IF Known(e, p) THEN e.got ELSE e.got \cup {p}
        kept == Cached(p.gidx, [e EXCEPT !.got = got])
    IN  /\ acks' = acks \cup {<<p.src, p.pidx>>}
        /\ seen' = seen \cup {p}
        /\ mixed' = IF Mixes(e, p) THEN mixed \cup {p.gidx} ELSE mixed
        /\ IF ~ Known(e, p) /\ Complete(e, got)
           THEN /\ handled' = handled \cup {got}
                /\ cache' \in {kept, Uncached(p.gidx)}
           ELSE cache' = kept /\ UNCHANGED handled
        /\ UNCHANGED <<sendvars, pending, net, acked, expired, crashes>>

\* The process of the receiver ends and starts again with an empty cache.
Crash ==
    /\ crashes < MaxCrashes
    /\ crashes' = crashes + 1
    /\ cache' = [g \in {} |-> {}]
    /\ seen' = {} /\ handled' = {} /\ mixed' = {}
    /\ UNCHANGED <<sendvars, pending, net, acks, acked, expired>>

TransportNext ==
    \/ \E s \in Senders : Send(s) \/ SendElsewhere(s) \/ Restart(s)
    \/ \E p \in DOMAIN pending : Transmit(p) \/ GiveUp(p)
    \/ \E a \in acks : ReadAck(a)
    \/ \E p \in net : Receive(p)
    \/ Crash

TransportSpec == TransportInit /\ [][TransportNext]_transportVars

\* The retry timer keeps trying (SendQueue!Drains); nothing is asked of the network.
TransportFairSpec == TransportSpec /\ WF_transportVars(\E p \in DOMAIN pending : Transmit(p) \/ GiveUp(p))

-----------------------------------------------------------------------------
(* Properties.                                                             *)

\* Packets, queue, cache and histories have their types: no packet is tried more
\* often than allowed, and an entry records a number once.
TypeOK ==
    /\ gidx \in [Senders -> 0 .. MaxMessages]
    /\ pidx \in [Senders -> Nat]
    /\ run \in [Senders -> 0 .. MaxRestarts]
    /\ DOMAIN pending \cup net \cup acked \cup expired \subseteq Packet
    /\ pending \in [DOMAIN pending -> 0 .. Tries]
    /\ acks \subseteq Senders \X Nat
    /\ \A g \in DOMAIN cache :
        /\ cache[g].total \in Nat
        /\ cache[g].got \in SUBSET seen
        /\ \A p, q \in cache[g].got : p.pidx = q.pidx => p = q
    /\ seen \subseteq net
    /\ handled \subseteq SUBSET seen
    /\ mixed \subseteq Nat
    /\ crashes \in 0 .. MaxCrashes

\* A handler that payload.recv calls is given all packets of one message and
\* nothing else, whatever was repeated or reordered, unless the entry met two messages.
HandledIntact ==
    \A h \in handled : \A p \in h : p.gidx \in mixed \/ h = Group(p)

\* Once every packet of a message has arrived at one run of the receiver, its
\* handler has been called: no order of arrival leaves it in the cache, unless the
\* entry met two messages.
CompleteIsHandled ==
    \A p \in seen : Group(p) \subseteq seen => p.gidx \in mixed \/ Group(p) \in handled

\* A sender that has seen all packets of a message acknowledged may believe it was
\* handled, if neither side was restarted.
AckedIsHandled ==
    \A p \in acked :
        /\ p.run = 0
        /\ crashes = 0
        /\ Group(p) \subseteq acked
        => p.gidx \in mixed \/ Group(p) \in handled

\* A queued message is handled in the end or one of its packets is given up.
Outcome ==
    \A s \in Senders, g \in 0 .. MaxMessages - 1 :
        (\E p \in DOMAIN pending : Message(p) = <<s, 0, g>>)
            ~> \/ \E h \in handled : \E p \in h : Message(p) = <<s, 0, g>>
               \/ \E p \in expired : Message(p) = <<s, 0, g>>
               \/ run[s] # 0 \/ crashes # 0 \/ g \in mixed
==============================================================================
