------------------------------- MODULE Sockets -------------------------------
(***************************************************************************)
(* The TCP sockets of one peer: tunnel.c and endpoint.c over               *)
(* async_server.c, async_client.c and ringbuffer.c.  TcpStream says which  *)
(* parts go to which connection; here a part is a number of bytes that is  *)
(* given to a socket.                                                      *)
(*                                                                         *)
(* libev polls, collects what is ready and then calls one handler after    *)
(* another.  A handler may free clients, or a whole tunnel, for which      *)
(* other events of the same round were collected; ev_io_stop takes these   *)
(* back.                                                                   *)
(*                                                                         *)
(* A client is freed when its socket fails or ends and when its tunnel is  *)
(* closed.  Descriptors and ports that were closed are used again.         *)
(***************************************************************************)
EXTENDS Naturals, Sequences, FiniteSets

CONSTANTS
    Keys,        \* other peers, by the hash of their public key
    Addresses,   \* where they may be
    Ports,       \* ports of services, tcp.dst
    Allowed,     \* cfg.tcp.ports: the services this peer lets others use
    LocalPorts,  \* ports the kernel gives to a listening socket, tcp.src
    Fds,         \* descriptors
    Connections, \* [from, cidx, src, dst]: clients of tunnels that other peers opened
                 \* to this one
    Lengths,     \* bytes of a part
    MaxMoves,    \* bound: changes of the list of peers
    MaxTunnels,  \* bound: tunnels opened
    MaxClients,  \* bound: clients accepted and endpoints connected
    MaxBytes     \* bound: bytes given to a client

ASSUME SocketsAssumption ==
    /\ Allowed \subseteq Ports
    /\ Connections \subseteq [from: Addresses, cidx: Nat, src: Nat, dst: Ports]
    /\ Lengths \subseteq Nat \ {0}

VARIABLES
    where,       \* p->peers: the address of each peer in it
    moves,
    tunnels,     \* all tunnels so far: a tunnel_s with its server, or Gone
    clients,     \* all clients so far: a gc_gen_client_s, or Gone
    endpoints,   \* p->tcp.endpoints: the connection each client in it stands for
    events,      \* collected in this round and not handled yet
    given,       \* history: bytes given to each client
    written      \* history: the bytes each client has written, by position

vars == <<where, moves, tunnels, clients, endpoints, events, given, written>>

Gone == [open |-> FALSE]

Tunnels == {t \in DOMAIN tunnels : tunnels[t].open}

Clients == {c \in DOMAIN clients : clients[c].open}

FreeFds == Fds \ {clients[c].fd : c \in Clients}

Init ==
    /\ where = [k \in {} |-> 0] /\ moves = 0
    /\ tunnels = <<>> /\ clients = <<>> /\ endpoints = <<>>
    /\ events = {}
    /\ given = <<>> /\ written = <<>>

\* world.peer.add, del and a peer that announces itself from somewhere else.
PeersChange(k, a) ==
    /\ moves < MaxMoves
    /\ moves' = moves + 1
    /\ where' \in {[j \in DOMAIN where \ {k} |-> where[j]],
                   [j \in DOMAIN where \cup {k} |-> IF j = k THEN a ELSE where[j]]}
    /\ UNCHANGED <<tunnels, clients, endpoints, events, given, written>>

(***************************************************************************)
(* The ring buffer.  A slot is [from, len, sent]; from is the position of  *)
(* its first byte among the bytes given to the client, counted from 0.     *)
(***************************************************************************)
\* gc_gen_ev_send: gc_ringbuffer_send_append, and the write watcher is started.
Appended(c, from, n) ==
    [c EXCEPT !.send = Append(@, [from |-> from, len |-> n, sent |-> 0]),
              !.write = TRUE]

\* Variant: what was sent of a slot is forgotten.
SkippedOver(c, n) ==
    LET sent == n
    IN  IF sent = Head(c.send).len THEN [c EXCEPT !.send = Tail(@)]
        ELSE [c EXCEPT !.send[1].sent = sent]

\* gc_ringbuffer_send_skip: a slot that was sent to its end is freed.
Skipped(c, n) ==
    LET sent == Head(c.send).sent + n
    IN  IF sent = Head(c.send).len THEN [c EXCEPT !.send = Tail(@)]
        ELSE [c EXCEPT !.send[1].sent = sent]

\* async_write, after a send of n bytes: an empty buffer needs no watcher.
Sent(c, n) ==
    LET s == Skipped(c, n) IN [s EXCEPT !.write = s.send # <<>>]

\* What a send of n bytes takes: gc_ringbuffer_send_next.
NextByte(c) == Head(c.send).from + Head(c.send).sent

Positions(first, n) == [i \in 1 .. n |-> first + i]

(***************************************************************************)
(* Freeing.                                                                *)
(***************************************************************************)
\* Variant: the write watcher is not stopped.
StoppedReads(E, C, T) ==
    {e \in E : ~(e.kind = "read" /\ e.of \in C) /\ ~(e.kind = "accept" /\ e.of \in T)}

\* ev_io_stop of both watchers of the clients C and of the listeners of T: what
\* was collected for them is not delivered.
Stopped(E, C, T) ==
    {e \in E : ~(e.kind \in {"read", "write"} /\ e.of \in C) /\ ~(e.kind = "accept" /\ e.of \in T)}

\* Variant: async_client_shutdown leaves the table of its server alone.
UnlistedNever(t, C) == t

\* async_client_shutdown: ht_rem of the clients C from the table of tunnel t.
Unlisted(t, C) ==
    [t EXCEPT !.clients = [f \in {g \in DOMAIN @ : @[g] \notin C} |-> @[f]]]

\* list.del of endpoints, in response_error of endpoint.c.
Delisted(C) == [c \in DOMAIN endpoints \ C |-> endpoints[c]]

\* The clients C and the tunnels T are freed (T's clients are among C).
Free(C, T) ==
    /\ clients' = [c \in DOMAIN clients |-> IF c \in C THEN Gone ELSE clients[c]]
    /\ tunnels' = [t \in DOMAIN tunnels |->
                      IF t \in T \/ ~tunnels[t].open THEN Gone ELSE Unlisted(tunnels[t], C)]
    /\ endpoints' = Delisted(C)

(***************************************************************************)
(* Tunnels: commands of the application.                                   *)
(***************************************************************************)
\* find of tunnel.c
Leads(t, a, d) == tunnels[t].to = a /\ tunnels[t].dst = d

\* async_server: a listener on a port that the kernel chooses, without clients.
Server(src, to, dst) ==
    [open |-> TRUE, src |-> src, to |-> to, dst |-> dst, clients |-> [f \in {} |-> 0]]

\* tunnel_open: the peer is listed and no tunnel leads there yet.
TunnelOpen(k, d, src) ==
    /\ k \in DOMAIN where
    /\ ~\E t \in Tunnels : Leads(t, where[k], d)
    /\ Len(tunnels) < MaxTunnels
    /\ src \notin {tunnels[t].src : t \in Tunnels}
    /\ tunnels' = Append(tunnels, Server(src, where[k], d))
    /\ UNCHANGED <<where, moves, clients, endpoints, events, given, written>>

\* ht_map of async_server_shutdown: the clients in the table of t.
ClientsOf(t) == {tunnels[t].clients[f] : f \in DOMAIN tunnels[t].clients}

\* async_server_shutdown: the listener of t and all its clients.  ht_map reads the
\* next item before client_rem frees this one, and ht_rem takes out that one alone,
\* so the walk meets every client; nothing else runs during it.
ServerShutdown(t) ==
    /\ Free(ClientsOf(t), {t})
    /\ events' = Stopped(events, ClientsOf(t), {t})

\* tunnel_close: the tunnel to where the peer is now.
TunnelClose(k, d) ==
    /\ k \in DOMAIN where
    /\ \E t \in Tunnels : Leads(t, where[k], d) /\ ServerShutdown(t)
    /\ UNCHANGED <<where, moves, given, written>>

(***************************************************************************)
(* The event loop.                                                         *)
(***************************************************************************)
Event(kind, of) == [kind |-> kind, of |-> of]

\* The watchers that are started: listeners, reads, and writes where asked for.
Watched ==
    {Event("accept", t) : t \in Tunnels} \cup {Event("read", c) : c \in Clients}
        \cup {Event("write", c) : c \in {d \in Clients : clients[d].write}}

\* epoll_wait: some of the watched descriptors are ready.
Poll ==
    /\ events = {}
    /\ events' \in SUBSET Watched \ {{}}
    /\ UNCHANGED <<where, moves, tunnels, clients, endpoints, given, written>>

\* A client as server_async_client and async_client make it: only reads are watched.
Client(fd) == [open |-> TRUE, fd |-> fd, write |-> FALSE, send |-> <<>>]

\* server_async_client and connector_addclient: a new client of tunnel t.
Accept(t, fd) ==
    /\ Event("accept", t) \in events
    /\ fd \in FreeFds
    /\ Len(clients) < MaxClients
    /\ events' = events \ {Event("accept", t)}
    /\ clients' = Append(clients, Client(fd))
    /\ tunnels' = [tunnels EXCEPT ![t].clients =
                      [f \in DOMAIN @ \cup {fd} |-> IF f = fd THEN Len(clients) + 1 ELSE @[f]]]
    /\ given' = Append(given, 0) /\ written' = Append(written, <<>>)
    /\ UNCHANGED <<where, moves, endpoints>>

\* accept fails: the client went away again, or there are no descriptors left.
AcceptNone(t) ==
    /\ Event("accept", t) \in events
    /\ events' = events \ {Event("accept", t)}
    /\ UNCHANGED <<where, moves, tunnels, clients, endpoints, given, written>>

\* A recv gets bytes, which go through the buffer to the callback and become a task
\* (TcpStream.Read), or EAGAIN.
Read(c) ==
    /\ Event("read", c) \in events
    /\ events' = events \ {Event("read", c)}
    /\ UNCHANGED <<where, moves, tunnels, clients, endpoints, given, written>>

\* A recv finds the end or an error, or a send an error, and the client is freed:
\* client_error for a client of a tunnel, response_error for an endpoint.
Fails(c, kind) ==
    /\ Event(kind, c) \in events
    /\ kind = "write" => clients[c].send # <<>>
    /\ Free({c}, {})
    /\ events' = Stopped(events \ {Event(kind, c)}, {c}, {})
    /\ UNCHANGED <<where, moves, given, written>>

\* A send takes n bytes of the first slot.
Write(c, n) ==
    /\ Event("write", c) \in events
    /\ clients[c].open /\ clients[c].send # <<>>
    /\ n \in 1 .. Head(clients[c].send).len - Head(clients[c].send).sent
    /\ events' = events \ {Event("write", c)}
    /\ clients' = [clients EXCEPT ![c] = Sent(@, n)]
    /\ written' = [written EXCEPT ![c] = @ \o Positions(NextByte(clients[c]), n)]
    /\ UNCHANGED <<where, moves, tunnels, endpoints, given>>

Handled(c) ==
    \/ Read(c)
    \/ \E kind \in {"read", "write"} : Fails(c, kind)
    \/ \E n \in 1 .. MaxBytes : Write(c, n)

\* async_read and async_write of async_server.c and of async_client.c.
ClientHandler(c) == c \notin DOMAIN endpoints /\ Handled(c)

EndpointHandler(c) == c \in DOMAIN endpoints /\ Handled(c)

(***************************************************************************)
(* Parts that arrive over UDP (TcpStream.Arrive and Request).              *)
(***************************************************************************)
Give(c, n) ==
    /\ given[c] + n <= MaxBytes
    /\ clients' = [clients EXCEPT ![c] = Appended(@, given[c], n)]
    /\ given' = [given EXCEPT ![c] = @ + n]

\* tunnel.response: the client with descriptor fd of the tunnel on port src.
Response(src, fd, n) ==
    /\ \E t \in Tunnels :
           /\ tunnels[t].src = src
           /\ fd \in DOMAIN tunnels[t].clients
           /\ Give(tunnels[t].clients[fd], n)
    /\ UNCHANGED <<where, moves, tunnels, endpoints, events, written>>

\* endpoint.request: the endpoint for this connection of the other peer, if any.
RequestKnown(key, n) ==
    /\ key.dst \in Allowed
    /\ \E c \in DOMAIN endpoints :
           /\ endpoints[c] = key
           /\ Give(c, n)
    /\ UNCHANGED <<where, moves, tunnels, endpoints, events, written>>

\* endpoint.request: async_client connects a new one; the part waits for it.  The
\* connect of a non-blocking TCP socket is in progress or has failed when it
\* returns, and a failure comes as an event; the branch for one that is complete
\* at once, and a process without free descriptors, are left out.
RequestNew(key, fd, n) ==
    /\ key.dst \in Allowed
    /\ ~\E c \in DOMAIN endpoints : endpoints[c] = key
    /\ fd \in FreeFds
    /\ Len(clients) < MaxClients
    /\ clients' = Append(clients,
          Appended(Client(fd), 0, n))
    /\ endpoints' = [c \in DOMAIN endpoints \cup {Len(clients) + 1} |->
                        IF c \in DOMAIN endpoints THEN endpoints[c] ELSE key]
    /\ given' = Append(given, n) /\ written' = Append(written, <<>>)
    /\ UNCHANGED <<where, moves, tunnels, events>>

Next ==
    \/ \E k \in Keys, a \in Addresses : PeersChange(k, a)
    \/ \E k \in Keys, d \in Ports : \/ \E src \in LocalPorts : TunnelOpen(k, d, src)
                                    \/ TunnelClose(k, d)
    \/ Poll
    \/ \E t \in DOMAIN tunnels : AcceptNone(t) \/ \E fd \in Fds : Accept(t, fd)
    \/ \E c \in DOMAIN clients : ClientHandler(c) \/ EndpointHandler(c)
    \/ \E n \in Lengths : \/ \E src \in LocalPorts, fd \in Fds : Response(src, fd, n)
                          \/ \E key \in Connections : \/ RequestKnown(key, n)
                                                      \/ \E fd \in Fds : RequestNew(key, fd, n)

Spec == Init /\ [][Next]_vars

(***************************************************************************)
(* Properties.                                                             *)
(***************************************************************************)
\* No handler is called for a client or a server that another handler of the same
\* round, a command or a closed tunnel has freed: async_client_shutdown and
\* async_server_shutdown stop every watcher they have.
NoLateEvents == events \subseteq Watched

\* The tables of the open tunnels and the list of endpoints have every client that
\* is not freed, once, under its descriptor, and no client that is: the pointers
\* that tunnel.response and endpoint.request follow are good.
ClientsAreListed ==
    /\ DOMAIN endpoints \subseteq Clients
    /\ \A t \in Tunnels : \A f \in DOMAIN tunnels[t].clients :
           LET c == tunnels[t].clients[f]
           IN  c \in Clients \ DOMAIN endpoints /\ clients[c].fd = f
    /\ \A c \in Clients \ DOMAIN endpoints :
           Cardinality({t \in Tunnels : c \in ClientsOf(t)}) = 1
    /\ \A c, d \in Clients : clients[c].fd = clients[d].fd => c = d

\* What was given to a client and is not written yet is in its buffer, in order and
\* without gaps, whatever was taken by each send; and as long as there is some the
\* write watcher is started, so that it does not stay there.
OnItsWay ==
    \A c \in Clients :
        LET send == clients[c].send
            from(i) == IF i > Len(send) THEN given[c] ELSE send[i].from
        IN  /\ written[c] = Positions(0, Len(written[c]))
            /\ Len(written[c]) = from(1) + (IF send = <<>> THEN 0 ELSE send[1].sent)
            /\ \A i \in DOMAIN send : /\ from(i + 1) = send[i].from + send[i].len
                                      /\ send[i].sent < send[i].len
            /\ clients[c].write <=> send # <<>>

==============================================================================
