---------------------------- MODULE NetworkProofs ----------------------------
(***************************************************************************)
(* Proofs about the network, for all values of the constants: Sockets, how *)
(* tunnels and endpoints share their clients; Transport, what becomes of   *)
(* the packets of a message.                                               *)
(***************************************************************************)
EXTENDS Transport, Sockets, TLAPS

(***************************************************************************)
(* Facts about sequences.                                                  *)
(***************************************************************************)
\* The length and the places of a sequence.
LEMMA LenProperties ==
    ASSUME NEW S, NEW s \in Seq(S)
    PROVE  Len(s) \in Nat /\ s \in [1 .. Len(s) -> S] /\ DOMAIN s = 1 .. Len(s)
  OBVIOUS

\* A function on 1 .. n is a sequence.
LEMMA SeqDef ==
    ASSUME NEW S, NEW n \in Nat, NEW s \in [1 .. n -> S]
    PROVE  s \in Seq(S)
  OBVIOUS

\* The empty sequence is the only one of length 0.
LEMMA EmptySeq ==
    ASSUME NEW S
    PROVE  /\ << >> \in Seq(S) /\ Len(<< >>) = 0
           /\ \A s \in Seq(S) : s # << >> => Len(s) \in Nat \ {0}
  OBVIOUS

\* Sequences that agree place by place are equal.
LEMMA SeqEqual ==
    ASSUME NEW S, NEW s \in Seq(S), NEW t \in Seq(S), Len(s) = Len(t),
           \A i \in 1 .. Len(s) : s[i] = t[i]
    PROVE  s = t
  OBVIOUS

\* Concatenation, place by place.
LEMMA ConcatProperties ==
    ASSUME NEW S, NEW s \in Seq(S), NEW t \in Seq(S)
    PROVE  /\ s \o t \in Seq(S) /\ Len(s \o t) = Len(s) + Len(t)
           /\ \A i \in 1 .. Len(s) + Len(t) :
                 (s \o t)[i] = IF i <= Len(s) THEN s[i] ELSE t[i - Len(s)]
  OBVIOUS

\* The first element and the others.
LEMMA HeadTailProperties ==
    ASSUME NEW S, NEW s \in Seq(S), s # << >>
    PROVE  /\ Head(s) \in S /\ Tail(s) \in Seq(S) /\ Len(Tail(s)) = Len(s) - 1
           /\ \A i \in 1 .. Len(Tail(s)) : Tail(s)[i] = s[i + 1]
  OBVIOUS

\* One element more.
LEMMA AppendProperties ==
    ASSUME NEW S, NEW s \in Seq(S), NEW e \in S
    PROVE  /\ Append(s, e) \in Seq(S) /\ Append(s, e) # << >>
           /\ Len(Append(s, e)) = Len(s) + 1
           /\ \A i \in 1 .. Len(s) : Append(s, e)[i] = s[i]
           /\ Append(s, e)[Len(s) + 1] = e
  OBVIOUS


(***************************************************************************)
(* Records that are freed in place.                                        *)
(***************************************************************************)
Slots == [from: Nat, len: Nat \ {0}, sent: Nat]

ClientRecs == [open: {TRUE}, fd: Fds, write: BOOLEAN, send: Seq(Slots)]

Tables == UNION {[D -> Nat] : D \in SUBSET Fds}

TunnelRecs == [open: {TRUE}, src: LocalPorts, to: Addresses, dst: Ports, clients: Tables]

\* Records of R, some of them freed.
Records(R) == Seq({Gone} \cup R)

Live(R, s) == {k \in DOMAIN s : s[k] \in R}

\* A record that is not freed has its shape.
LEMMA OpenRecords ==
    /\ \A r \in {Gone} \cup ClientRecs : r.open <=> r \in ClientRecs
    /\ \A r \in {Gone} \cup TunnelRecs : r.open <=> r \in TunnelRecs
    /\ Gone \notin ClientRecs /\ Gone \notin TunnelRecs
<1>1. Gone.open = FALSE
  BY Zenon DEF Gone
<1>2. \A r \in ClientRecs : r.open = TRUE
  BY Zenon DEF ClientRecs
<1>3. \A r \in TunnelRecs : r.open = TRUE
  BY Zenon DEF TunnelRecs
<1>4. Gone \notin ClientRecs /\ Gone \notin TunnelRecs
  BY <1>1, <1>2, <1>3, Zenon
<1> QED BY <1>1, <1>2, <1>3, <1>4, Zenon

\* The sequence a has s and one more record r, at k.
OneMore(R, s, r, a, k) ==
    /\ a \in Records(R) /\ DOMAIN a = DOMAIN s \cup {k} /\ k \notin DOMAIN s
    /\ a[k] = r /\ \A j \in DOMAIN s : a[j] = s[j]
    /\ Live(R, a) = Live(R, s) \cup {k}

\* A new record at the end.
LEMMA LiveAppend ==
    ASSUME NEW R, NEW s \in Records(R), NEW r \in R
    PROVE  OneMore(R, s, r, Append(s, r), Len(s) + 1)
<1> DEFINE a == Append(s, r)
           k == Len(s) + 1
<1>1. /\ a \in Records(R) /\ Len(s) \in Nat
      /\ DOMAIN s = 1 .. Len(s) /\ DOMAIN a = 1 .. Len(s) + 1
      /\ a[k] = r
      /\ \A j \in 1 .. Len(s) : a[j] = s[j]
  BY AppendProperties, LenProperties DEF Records
<1> HIDE DEF a
<1>2. DOMAIN a = DOMAIN s \cup {k} /\ k \notin DOMAIN s
  BY <1>1
<1>3. Live(R, a) = Live(R, s) \cup {k}
  BY <1>1, <1>2 DEF Live
<1> QED BY <1>1, <1>2, <1>3 DEF OneMore, a

\* A sequence with the same places.
LEMMA SamePlaces ==
    ASSUME NEW S, NEW s \in Seq(S), NEW T, NEW f \in [DOMAIN s -> T]
    PROVE  f \in Seq(T) /\ Len(f) = Len(s) /\ DOMAIN f = DOMAIN s
<1>1. Len(s) \in Nat /\ DOMAIN s = 1 .. Len(s)
  BY LenProperties, Zenon
<1>2. f \in [1 .. Len(s) -> T] /\ DOMAIN f = 1 .. Len(s)
  BY <1>1, Zenon
<1>3. f \in Seq(T)
  BY <1>1, <1>2, SeqDef, Zenon
<1>4. Len(f) = Len(s)
  BY <1>1, <1>2, <1>3
<1> QED BY <1>1, <1>2, <1>3, <1>4

\* The sequence a has the records of s, but r at k.
OneChanged(R, s, k, r, a) ==
    /\ a \in Records(R) /\ DOMAIN a = DOMAIN s
    /\ a[k] = r /\ \A j \in DOMAIN s \ {k} : a[j] = s[j]
    /\ Live(R, a) = Live(R, s)

\* A record that changes.
LEMMA LivePut ==
    ASSUME NEW R, NEW s \in Records(R), NEW r \in R, NEW k \in Live(R, s)
    PROVE  OneChanged(R, s, k, r, [s EXCEPT ![k] = r])
<1> DEFINE a == [s EXCEPT ![k] = r]
<1>1. k \in DOMAIN s /\ s[k] \in R /\ \A j \in DOMAIN s : s[j] \in {Gone} \cup R
  <2>1. s \in [1 .. Len(s) -> {Gone} \cup R]
    BY LenProperties DEF Records
  <2> QED BY <2>1, LenProperties DEF Live
<1>2. a = [j \in DOMAIN s |-> IF j = k THEN r ELSE s[j]]
  BY Zenon
<1>3. a \in [DOMAIN s -> {Gone} \cup R] /\ a[k] = r /\ \A j \in DOMAIN s \ {k} : a[j] = s[j]
  BY <1>1, <1>2, Zenon
<1> HIDE DEF a
<1>4. a \in Records(R) /\ Len(a) = Len(s) /\ DOMAIN a = DOMAIN s
  BY <1>3, SamePlaces, Zenon DEF Records
<1>5. Live(R, a) = Live(R, s)
  BY <1>1, <1>3, <1>4 DEF Live
<1> QED BY <1>3, <1>4, <1>5 DEF a, OneChanged

(***************************************************************************)
(* The invariant.                                                          *)
(***************************************************************************)
\* The records, and one history per client.
TypeInv ==
    /\ clients \in Records(ClientRecs)
    /\ tunnels \in Records(TunnelRecs)
    /\ given \in Seq(Nat) /\ DOMAIN given = DOMAIN clients
    /\ written \in Seq(Seq(Nat)) /\ DOMAIN written = DOMAIN clients
    /\ where \in [DOMAIN where -> Addresses]

\* ClientsAreListed without cardinality: a client that is no endpoint is in the
\* table of a tunnel, and in no other.
TableInv ==
    /\ DOMAIN endpoints \subseteq Clients
    /\ \A t \in Tunnels : \A f \in DOMAIN tunnels[t].clients :
           /\ tunnels[t].clients[f] \in Clients \ DOMAIN endpoints
           /\ clients[tunnels[t].clients[f]].fd = f
    /\ \A c \in Clients \ DOMAIN endpoints : \E t \in Tunnels : c \in ClientsOf(t)
    /\ \A t, u \in Tunnels : \A c \in ClientsOf(t) \cap ClientsOf(u) : t = u
    /\ \A c, d \in Clients : clients[c].fd = clients[d].fd => c = d

\* OnItsWay for one buffer, of which only the first slot is sent in part.
Flow(send, g, w) ==
    LET from(i) == IF i > Len(send) THEN g ELSE send[i].from
    IN  /\ w = Positions(0, Len(w))
        /\ Len(w) = from(1) + (IF send = <<>> THEN 0 ELSE send[1].sent)
        /\ \A i \in DOMAIN send : /\ from(i + 1) = send[i].from + send[i].len
                                  /\ send[i].sent < send[i].len
                                  /\ i > 1 => send[i].sent = 0

FlowInv ==
    \A c \in Clients : /\ Flow(clients[c].send, given[c], written[c])
                       /\ clients[c].write <=> clients[c].send # <<>>

SocketsInv == TypeInv /\ NoLateEvents /\ TableInv /\ FlowInv

\* The clients and tunnels that are not freed.
LEMMA OpenAre ==
    ASSUME TypeInv
    PROVE  Clients = Live(ClientRecs, clients) /\ Tunnels = Live(TunnelRecs, tunnels)
<1>1. \A c \in DOMAIN clients : clients[c] \in {Gone} \cup ClientRecs
  BY LenProperties DEF TypeInv, Records
<1>2. \A t \in DOMAIN tunnels : tunnels[t] \in {Gone} \cup TunnelRecs
  BY LenProperties DEF TypeInv, Records
<1> QED BY <1>1, <1>2, OpenRecords, Zenon DEF Clients, Tunnels, Live

\* The same after a step.
LEMMA OpenAreNext ==
    ASSUME TypeInv'
    PROVE  Clients' = Live(ClientRecs, clients') /\ Tunnels' = Live(TunnelRecs, tunnels')
<1>1. \A c \in DOMAIN clients' : clients'[c] \in {Gone} \cup ClientRecs
  BY LenProperties DEF TypeInv, Records
<1>2. \A t \in DOMAIN tunnels' : tunnels'[t] \in {Gone} \cup TunnelRecs
  BY LenProperties DEF TypeInv, Records
<1> QED BY <1>1, <1>2, OpenRecords, Zenon DEF Clients, Tunnels, Live

\* The fields of a client and of a tunnel that are not freed.
LEMMA OpenFields ==
    ASSUME TypeInv
    PROVE  /\ \A c \in Clients : /\ c \in DOMAIN clients /\ clients[c] \in ClientRecs
                                 /\ clients[c].fd \in Fds /\ clients[c].send \in Seq(Slots)
                                 /\ given[c] \in Nat /\ written[c] \in Seq(Nat)
           /\ \A t \in Tunnels : /\ t \in DOMAIN tunnels /\ tunnels[t] \in TunnelRecs
                                 /\ tunnels[t].clients \in Tables
<1>1. \A c \in Clients : c \in DOMAIN clients /\ clients[c] \in ClientRecs
  BY OpenAre DEF Live
<1>2. \A t \in Tunnels : t \in DOMAIN tunnels /\ tunnels[t] \in TunnelRecs
  BY OpenAre DEF Live
<1>3. \A r \in ClientRecs : r.fd \in Fds /\ r.send \in Seq(Slots)
  BY DEF ClientRecs
<1>4. \A r \in TunnelRecs : r.clients \in Tables
  BY DEF TunnelRecs
<1>5. \A c \in DOMAIN clients : given[c] \in Nat /\ written[c] \in Seq(Nat)
  BY LenProperties DEF TypeInv
<1> QED BY <1>1, <1>2, <1>3, <1>4, <1>5, Zenon

(***************************************************************************)
(* What the operators on records return.                                   *)
(***************************************************************************)
LEMMA ClientFields ==
    ASSUME NEW fd \in Fds, NEW w \in BOOLEAN, NEW b \in Seq(Slots)
    PROVE  LET r == [open |-> TRUE, fd |-> fd, write |-> w, send |-> b]
           IN  r \in ClientRecs /\ r.fd = fd /\ r.write = w /\ r.send = b
<1> DEFINE r == [open |-> TRUE, fd |-> fd, write |-> w, send |-> b]
<1>1. r \in ClientRecs
  BY Zenon DEF ClientRecs
<1>2. r.fd = fd /\ r.write = w /\ r.send = b
  BY Zenon
<1> QED BY <1>1, <1>2

\* A client with another buffer.
Rebuffered(r, b, w) == [r EXCEPT !.send = b, !.write = w]

\* What such a client is.
LEMMA ClientUpdated ==
    ASSUME NEW r \in ClientRecs, NEW w \in BOOLEAN, NEW b \in Seq(Slots)
    PROVE  /\ Rebuffered(r, b, w) \in ClientRecs
           /\ Rebuffered(r, b, w).fd = r.fd
           /\ Rebuffered(r, b, w).write = w
           /\ Rebuffered(r, b, w).send = b
<1> DEFINE a == Rebuffered(r, b, w)
<1>1. DOMAIN r = {"open", "fd", "write", "send"} /\ r.open = TRUE /\ r.fd \in Fds
  BY Zenon DEF ClientRecs
<1>2. DOMAIN a = {"open", "fd", "write", "send"}
  BY <1>1, Zenon DEF Rebuffered
<1>3. a.open = r.open 
  BY <1>1, Zenon DEF Rebuffered
<1>4. a.fd = r.fd
  BY <1>1, Zenon DEF Rebuffered
<1>5. a.write = w
  BY <1>1, Zenon DEF Rebuffered
<1>6. a.send = b
  BY <1>1, Zenon DEF Rebuffered
<1>7. a = [open |-> a.open, fd |-> a.fd, write |-> a.write, send |-> a.send]
  <2>1. \A x : /\ x = [r EXCEPT !.send = b, !.write = w]
               /\ DOMAIN x = {"open", "fd", "write", "send"}
               => x = [open |-> x.open, fd |-> x.fd, write |-> x.write, send |-> x.send]
    <3> TAKE x
    <3>1. HAVE /\ x = [r EXCEPT !.send = b, !.write = w]
               /\ DOMAIN x = {"open", "fd", "write", "send"}
    <3> QED BY <3>1, Zenon
  <2> QED BY <1>2, <2>1, Zenon DEF Rebuffered
<1>8. a \in ClientRecs
  <2>1. a.open \in {TRUE} /\ a.fd \in Fds /\ a.write \in BOOLEAN /\ a.send \in Seq(Slots)
    BY <1>1, <1>3, <1>4, <1>5, <1>6, Zenon
  <2> QED BY <1>7, <2>1, Zenon DEF ClientRecs
<1> QED BY <1>4, <1>5, <1>6, <1>8

\* A client before anything is given to it.
LEMMA ClientFacts ==
    ASSUME NEW fd \in Fds
    PROVE  /\ Client(fd) \in ClientRecs /\ Client(fd).fd = fd
           /\ Client(fd).send = <<>> /\ Client(fd).write = FALSE
<1>1. <<>> \in Seq(Slots)
  BY EmptySeq
<1> QED BY <1>1, ClientFields, Zenon DEF Client

\* A client that is given n bytes.
LEMMA AppendedFacts ==
    ASSUME NEW r \in ClientRecs, NEW g \in Nat, NEW n \in Nat \ {0}
    PROVE  /\ Appended(r, g, n) \in ClientRecs
           /\ Appended(r, g, n).fd = r.fd /\ Appended(r, g, n).write = TRUE
           /\ Appended(r, g, n).send = Append(r.send, [from |-> g, len |-> n, sent |-> 0])
<1> DEFINE slot == [from |-> g, len |-> n, sent |-> 0]
<1>1. slot \in Slots
  BY DEF Slots
<1>2. r.send \in Seq(Slots)
  BY Zenon DEF ClientRecs
<1> HIDE DEF slot
<1>3. Append(r.send, slot) \in Seq(Slots)
  BY <1>1, <1>2, AppendProperties, Zenon
<1>4. Appended(r, g, n) = [r EXCEPT !.send = Append(r.send, slot), !.write = TRUE]
  BY Zenon DEF Appended, slot
<1> DEFINE b == Append(r.send, slot)
           a == Appended(r, g, n)
           w == TRUE
<1> HIDE DEF a, b, w
<1>5. b \in Seq(Slots) /\ w \in BOOLEAN /\ a = Rebuffered(r, b, w)
  BY <1>3, <1>4, Zenon DEF a, b, w, Rebuffered
<1>6. a \in ClientRecs /\ a.fd = r.fd /\ a.write = w /\ a.send = b
  BY <1>5, ClientUpdated, Zenon
<1> QED BY <1>6, Zenon DEF a, b, w, slot

\* gc_ringbuffer_send_skip on the buffer alone.
Taken(b, n) ==
    IF Head(b).sent + n = Head(b).len THEN Tail(b)
    ELSE [b EXCEPT ![1].sent = Head(b).sent + n]

\* A send changes the buffer and stops the watcher when nothing is left.
LEMMA SentIs ==
    ASSUME NEW r \in ClientRecs, NEW n
    PROVE  Sent(r, n) = Rebuffered(r, Taken(r.send, n), Taken(r.send, n) # <<>>)
<1> DEFINE b == Taken(r.send, n)
           s == Skipped(r, n)
<1>1. DOMAIN r = {"open", "fd", "write", "send"}
  BY Zenon DEF ClientRecs
<1>2. s = [r EXCEPT !.send = b]
  <2>1. CASE Head(r.send).sent + n = Head(r.send).len
    BY <2>1, Zenon DEF Skipped, Taken
  <2>2. CASE Head(r.send).sent + n # Head(r.send).len
    BY <2>2, Zenon DEF Skipped, Taken
  <2> QED BY <2>1, <2>2, Zenon
<1> HIDE DEF s, b
<1>3. s.send = b
  BY <1>1, <1>2, Zenon
<1>4. Sent(r, n) = [s EXCEPT !.write = b # <<>>]
  BY <1>3, Zenon DEF Sent, s
<1> QED BY <1>2, <1>4, Zenon DEF Rebuffered, b

\* The slots after a send of n bytes of the first one.
LEMMA TakenFacts ==
    ASSUME NEW b \in Seq(Slots), b # <<>>,
           NEW n \in 1 .. Head(b).len - Head(b).sent
    PROVE  /\ Taken(b, n) \in Seq(Slots)
           /\ \/ /\ b[1].sent + n = b[1].len /\ Len(Taken(b, n)) = Len(b) - 1
                 /\ \A i \in 1 .. Len(b) - 1 : Taken(b, n)[i] = b[i + 1]
              \/ /\ b[1].sent + n < b[1].len /\ Len(Taken(b, n)) = Len(b)
                 /\ Taken(b, n)[1].from = b[1].from /\ Taken(b, n)[1].len = b[1].len
                 /\ Taken(b, n)[1].sent = b[1].sent + n
                 /\ \A i \in 2 .. Len(b) : Taken(b, n)[i] = b[i]
<1>1. /\ Head(b) = b[1] /\ Head(b) \in Slots /\ Len(b) \in Nat \ {0} /\ DOMAIN b = 1 .. Len(b)
      /\ \A i \in 1 .. Len(b) : b[i] \in Slots
  BY HeadTailProperties, LenProperties, EmptySeq
<1>2. /\ b[1].from \in Nat /\ b[1].len \in Nat \ {0} /\ b[1].sent \in Nat
  BY <1>1 DEF Slots
<1>3. n \in Nat /\ b[1].sent + n <= b[1].len
  BY <1>1, <1>2
<1>4. CASE b[1].sent + n = b[1].len
  <2>1. Taken(b, n) = Tail(b)
    BY <1>1, <1>4, Zenon DEF Taken
  <2>2. Tail(b) \in Seq(Slots) /\ Len(Tail(b)) = Len(b) - 1
        /\ \A i \in 1 .. Len(b) - 1 : Tail(b)[i] = b[i + 1]
    BY HeadTailProperties, Zenon
  <2> QED BY <1>4, <2>1, <2>2, Zenon
<1>5. CASE b[1].sent + n # b[1].len
  <2> DEFINE v == b[1].sent + n
             x == [b[1] EXCEPT !.sent = v]
             a == [b EXCEPT ![1] = x]
  <2>1. Taken(b, n) = a
    BY <1>1, <1>5, Zenon DEF Taken
  <2>2. v \in Nat /\ v < b[1].len
    BY <1>2, <1>3, <1>5
  <2> HIDE DEF v
  <2>3. x \in Slots /\ x.from = b[1].from /\ x.len = b[1].len /\ x.sent = v
    BY <1>1, <1>2, <2>2, Zenon DEF Slots
  <2> HIDE DEF x
  <2>4. a \in [DOMAIN b -> Slots] /\ a[1] = x /\ \A i \in 2 .. Len(b) : a[i] = b[i]
    BY <1>1, <2>3
  <2> HIDE DEF a
  <2>5. a \in Seq(Slots) /\ Len(a) = Len(b)
    BY <2>4, SamePlaces, Zenon
  <2> QED BY <2>1, <2>2, <2>3, <2>4, <2>5, Zenon DEF v
<1> QED BY <1>4, <1>5, Zenon

\* The slots of a buffer are records of numbers.
LEMMA SlotFacts ==
    ASSUME NEW b \in Seq(Slots)
    PROVE  /\ Len(b) \in Nat /\ DOMAIN b = 1 .. Len(b)
           /\ b = <<>> <=> Len(b) = 0
           /\ \A i \in 1 .. Len(b) : /\ b[i].from \in Nat /\ b[i].sent \in Nat
                                     /\ b[i].len \in Nat \ {0}
<1>1. Len(b) \in Nat /\ DOMAIN b = 1 .. Len(b) /\ \A i \in 1 .. Len(b) : b[i] \in Slots
  BY LenProperties
<1>2. b = <<>> <=> Len(b) = 0
  BY EmptySeq
<1> QED BY <1>1, <1>2 DEF Slots

\* A client to which nothing was given yet.
LEMMA FlowEmpty == Flow(<<>>, 0, <<>>)
<1>1. <<>> = Positions(0, 0)
  BY DEF Positions
<1> QED BY <1>1, EmptySeq DEF Flow

\* What is appended starts where the last slot ends.
LEMMA FlowAppended ==
    ASSUME NEW b \in Seq(Slots), NEW g \in Nat, NEW w, NEW n \in Nat \ {0}, Flow(b, g, w)
    PROVE  Flow(Append(b, [from |-> g, len |-> n, sent |-> 0]), g + n, w)
<1> DEFINE slot == [from |-> g, len |-> n, sent |-> 0]
           a == Append(b, slot)
<1>1. slot \in Slots /\ slot.from = g /\ slot.len = n /\ slot.sent = 0
  BY DEF Slots
<1> HIDE DEF slot
<1>2. /\ Len(b) \in Nat /\ a \in Seq(Slots) /\ Len(a) = Len(b) + 1
      /\ DOMAIN a = 1 .. Len(b) + 1 /\ DOMAIN b = 1 .. Len(b)
      /\ a[Len(b) + 1] = slot /\ \A i \in 1 .. Len(b) : a[i] = b[i]
      /\ a # <<>>
  BY <1>1, AppendProperties, LenProperties, EmptySeq
<1> HIDE DEF a
<1>3. w = Positions(0, Len(w))
  BY DEF Flow
<1>4. Len(w) = a[1].from + a[1].sent
  <2>1. CASE Len(b) = 0
    BY <1>1, <1>2, <2>1, SlotFacts DEF Flow
  <2>2. CASE Len(b) > 0
    BY <1>2, <2>2, SlotFacts DEF Flow
  <2> QED BY <1>2, <2>1, <2>2
<1>5. ASSUME NEW i \in 1 .. Len(b) + 1
      PROVE  /\ (IF i + 1 > Len(a) THEN g + n ELSE a[i + 1].from) = a[i].from + a[i].len
             /\ a[i].sent < a[i].len /\ (i > 1 => a[i].sent = 0)
  <2>1. CASE i = Len(b) + 1
    <3>1. a[i] = slot /\ i + 1 > Len(a)
      BY <1>2, <2>1
    <3> QED BY <1>1, <3>1
  <2>2. ASSUME i \in 1 .. Len(b)
        PROVE  /\ (IF i + 1 > Len(b) THEN g ELSE b[i + 1].from) = b[i].from + b[i].len
               /\ b[i].sent < b[i].len /\ (i > 1 => b[i].sent = 0)
               /\ a[i] = b[i]
    <3>1. \A k \in DOMAIN b : /\ (IF k + 1 > Len(b) THEN g ELSE b[k + 1].from) = b[k].from + b[k].len
                              /\ b[k].sent < b[k].len /\ (k > 1 => b[k].sent = 0)
      BY Zenon DEF Flow
    <3> QED BY <1>2, <2>2, <3>1, Zenon
  <2>3. CASE i \in 1 .. Len(b) /\ i = Len(b)
    <3>1. a[i + 1] = slot /\ i + 1 > Len(b) /\ ~(i + 1 > Len(a)) /\ i \in Nat
      BY <1>2, <2>3
    <3>2. g = b[i].from + b[i].len /\ b[i].sent < b[i].len /\ (i > 1 => b[i].sent = 0) /\ a[i] = b[i]
      BY <2>2, <2>3, <3>1, Zenon
    <3> QED BY <1>1, <3>1, <3>2
  <2>4. CASE i \in 1 .. Len(b) /\ i < Len(b)
    <3>1. i + 1 \in 1 .. Len(b) /\ ~(i + 1 > Len(b)) /\ ~(i + 1 > Len(a))
      BY <1>2, <2>4
    <3>2. a[i + 1] = b[i + 1]
      BY <1>2, <3>1
    <3>3. /\ b[i + 1].from = b[i].from + b[i].len /\ a[i] = b[i]
          /\ b[i].sent < b[i].len /\ (i > 1 => b[i].sent = 0)
      BY <2>2, <2>4, <3>1
    <3> QED BY <3>1, <3>2, <3>3
  <2>5. i = Len(b) + 1 \/ (i \in 1 .. Len(b) /\ i = Len(b)) \/ (i \in 1 .. Len(b) /\ i < Len(b))
    <3> DEFINE k == Len(b)
    <3>1. k \in Nat /\ i \in 1 .. k + 1
      BY <1>2
    <3> HIDE DEF k
    <3>2. i = k + 1 \/ (i \in 1 .. k /\ i = k) \/ (i \in 1 .. k /\ i < k)
      BY <3>1
    <3> QED BY <3>2 DEF k
  <2> QED BY <2>1, <2>3, <2>4, <2>5, Zenon
<1>6. Flow(a, g + n, w)
  BY <1>2, <1>3, <1>4, <1>5 DEF Flow
<1> QED BY <1>6 DEF a, slot

\* The next bytes by position follow the ones before.
LEMMA PositionsGrow ==
    ASSUME NEW k \in Nat, NEW n \in Nat
    PROVE  /\ Positions(0, k) \o Positions(k, n) = Positions(0, k + n)
           /\ Len(Positions(0, k)) = k
<1> DEFINE p == Positions(0, k)
           q == Positions(k, n)
<1>1. p \in Seq(Nat) /\ Len(p) = k /\ \A i \in 1 .. k : p[i] = i
  BY DEF Positions
<1>2. q \in Seq(Nat) /\ Len(q) = n /\ \A i \in 1 .. n : q[i] = k + i
  BY DEF Positions
<1> HIDE DEF p, q
<1>3. /\ p \o q \in Seq(Nat) /\ Len(p \o q) = k + n
      /\ \A i \in 1 .. k + n : (p \o q)[i] = IF i <= k THEN p[i] ELSE q[i - k]
  BY <1>1, <1>2, ConcatProperties, Zenon
<1>4. \A i \in 1 .. k + n : (p \o q)[i] = i
  BY <1>1, <1>2, <1>3
<1> DEFINE z == Positions(0, k + n)
<1>5. z \in Seq(Nat) /\ Len(z) = k + n /\ \A i \in 1 .. k + n : z[i] = i
  BY DEF Positions
<1> HIDE DEF z
<1>6. p \o q = z
  BY <1>3, <1>4, <1>5, SeqEqual, Zenon
<1> QED BY <1>1, <1>6 DEF p, q, z

\* A send writes the next bytes.
LEMMA FlowSent ==
    ASSUME NEW b \in Seq(Slots), b # <<>>, NEW g \in Nat, NEW w \in Seq(Nat),
           NEW n \in 1 .. Head(b).len - Head(b).sent, Flow(b, g, w)
    PROVE  Flow(Taken(b, n), g, w \o Positions(Head(b).from + Head(b).sent, n))
<1> DEFINE a == Taken(b, n)
           v == w \o Positions(Head(b).from + Head(b).sent, n)
           at(s, i) == IF i > Len(s) THEN g ELSE s[i].from
<1>1. /\ Len(b) \in Nat \ {0} /\ DOMAIN b = 1 .. Len(b) /\ Head(b) = b[1]
      /\ \A i \in 1 .. Len(b) : /\ b[i].from \in Nat /\ b[i].sent \in Nat
                                /\ b[i].len \in Nat \ {0}
  BY SlotFacts, HeadTailProperties
<1>2. /\ w = Positions(0, Len(w)) /\ Len(w) = b[1].from + b[1].sent
      /\ \A i \in 1 .. Len(b) : /\ at(b, i + 1) = b[i].from + b[i].len
                                /\ b[i].sent < b[i].len /\ (i > 1 => b[i].sent = 0)
  <2>1. w = Positions(0, Len(w)) /\ Len(w) = at(b, 1) + b[1].sent
    BY Zenon DEF Flow
  <2>2. \A i \in DOMAIN b : /\ at(b, i + 1) = b[i].from + b[i].len
                            /\ b[i].sent < b[i].len /\ (i > 1 => b[i].sent = 0)
    BY Zenon DEF Flow
  <2>3. at(b, 1) = b[1].from
    BY <1>1
  <2> HIDE DEF at
  <2> QED BY <1>1, <2>1, <2>2, <2>3, Zenon
<1>3. n \in Nat \ {0} /\ Len(w) \in Nat
  BY <1>1, LenProperties
<1>4. v = Positions(0, Len(w) + n) /\ Len(v) = Len(w) + n
  <2>1. v = Positions(0, Len(w)) \o Positions(Len(w), n)
    BY <1>1, <1>2, Zenon
  <2>2. v = Positions(0, Len(w) + n)
    BY <1>3, <2>1, PositionsGrow, Zenon
  <2>3. Len(Positions(0, Len(w) + n)) = Len(w) + n
    <3>1. Len(w) + n \in Nat /\ 0 \in Nat
      BY <1>3
    <3> QED BY <3>1, PositionsGrow
  <2> QED BY <2>2, <2>3, Zenon
<1>5. /\ a \in Seq(Slots) /\ DOMAIN a = 1 .. Len(a) /\ (a = <<>> <=> Len(a) = 0)
  BY TakenFacts, SlotFacts, Zenon
<1> HIDE DEF v, a
<1> SUFFICES /\ Len(w) + n = at(a, 1) + (IF a = <<>> THEN 0 ELSE a[1].sent)
             /\ \A i \in 1 .. Len(a) : /\ at(a, i + 1) = a[i].from + a[i].len
                                       /\ a[i].sent < a[i].len
                                       /\ i > 1 => a[i].sent = 0
  <2>1. Flow(a, g, v)
    BY <1>4, <1>5, Zenon DEF Flow
  <2> QED BY <2>1 DEF a, v
<1>6. CASE /\ b[1].sent + n = b[1].len /\ Len(a) = Len(b) - 1
           /\ \A i \in 1 .. Len(b) - 1 : a[i] = b[i + 1]
  <2>1. Len(w) + n = at(b, 2)
    <3>1. 1 \in 1 .. Len(b) /\ 1 + 1 = 2
      BY <1>1
    <3> HIDE DEF at
    <3>2. at(b, 2) = b[1].from + b[1].len
      BY <1>2, <3>1
    <3>3. b[1].from \in Nat /\ b[1].sent \in Nat /\ b[1].len \in Nat
      BY <1>1, <3>1
    <3> QED BY <1>2, <1>3, <1>6, <3>2, <3>3
  <2>2. ASSUME NEW i \in 1 .. Len(b)
        PROVE  at(a, i) = at(b, i + 1)
    <3>1. CASE i = Len(b)
      <4>1. i > Len(a) /\ i + 1 > Len(b)
        BY <1>1, <1>6, <3>1
      <4> QED BY <4>1, Zenon
    <3>2. CASE i # Len(b)
      <4>1. i \in 1 .. Len(b) - 1 /\ ~(i > Len(a)) /\ ~(i + 1 > Len(b))
        <5>1. Len(b) \in Nat /\ Len(a) = Len(b) - 1
          BY <1>1, <1>6, Zenon
        <5> QED BY <3>2, <5>1
      <4>2. a[i] = b[i + 1]
        BY <1>6, <4>1, Zenon
      <4> QED BY <4>1, <4>2, Zenon
    <3> QED BY <3>1, <3>2, Zenon
  <2>3. a # <<>> => a[1].sent = 0
    <3> HAVE a # <<>>
    <3>1. 1 \in 1 .. Len(b) - 1 /\ 2 \in 1 .. Len(b) /\ 1 + 1 = 2
      BY <1>1, <1>5, <1>6
    <3>2. a[1] = b[2]
      BY <1>6, <3>1
    <3> QED BY <1>2, <3>1, <3>2
  <2>4. Len(w) + n = at(a, 1) + (IF a = <<>> THEN 0 ELSE a[1].sent)
    <3>1. at(a, 1) = at(b, 2) /\ at(b, 2) \in Nat
      BY <1>1, <2>2
    <3> HIDE DEF at
    <3> QED BY <2>1, <2>3, <3>1
  <2>5. ASSUME NEW i \in 1 .. Len(a)
        PROVE  /\ at(a, i + 1) = a[i].from + a[i].len
               /\ a[i].sent < a[i].len /\ (i > 1 => a[i].sent = 0)
    <3>1. i \in 1 .. Len(b) - 1 /\ i + 1 \in 1 .. Len(b) /\ i + 1 > 1
      BY <1>1, <1>6
    <3>0. a[i] = b[i + 1]
      BY <1>6, <3>1, Zenon
    <3>2. at(a, i + 1) = at(b, i + 1 + 1)
      BY <2>2, <3>1, Zenon
    <3> HIDE DEF at
    <3>3. /\ at(b, i + 1 + 1) = b[i + 1].from + b[i + 1].len
          /\ b[i + 1].sent < b[i + 1].len /\ b[i + 1].sent = 0
      BY <1>2, <3>1, Zenon
    <3> QED BY <3>0, <3>2, <3>3, Zenon
  <2> QED BY <2>4, <2>5, Zenon
<1>7. CASE /\ b[1].sent + n < b[1].len /\ Len(a) = Len(b)
           /\ a[1].from = b[1].from /\ a[1].len = b[1].len /\ a[1].sent = b[1].sent + n
           /\ \A i \in 2 .. Len(b) : a[i] = b[i]
  <2>1. ASSUME NEW i \in 1 .. Len(b) + 1
        PROVE  at(a, i) = at(b, i)
    <3>1. CASE i = 1
      BY <1>1, <1>7, <3>1
    <3>2. CASE i \in 2 .. Len(b)
      <4>1. a[i] = b[i]
        BY <1>7, <3>2, Zenon
      <4> QED BY <1>7, <4>1, Zenon
    <3>3. CASE i = Len(b) + 1
      BY <1>1, <1>7, <3>3
    <3> QED BY <1>1, <3>1, <3>2, <3>3
  <2>2. at(a, 1) = b[1].from /\ a # <<>>
    BY <1>1, <1>5, <1>7
  <2>3. ASSUME NEW i \in 1 .. Len(a)
        PROVE  /\ at(a, i + 1) = a[i].from + a[i].len
               /\ a[i].sent < a[i].len /\ (i > 1 => a[i].sent = 0)
    <3>1. at(a, i + 1) = at(b, i + 1) /\ i \in 1 .. Len(b)
      BY <1>1, <1>7, <2>1
    <3> HIDE DEF at
    <3>2. CASE i = 1
      BY <1>1, <1>2, <1>7, <3>1, <3>2
    <3>3. CASE i \in 2 .. Len(b)
      BY <1>1, <1>2, <1>7, <3>1, <3>3, Zenon
    <3> QED BY <1>1, <3>1, <3>2, <3>3
  <2>4. Len(w) + n = at(a, 1) + (IF a = <<>> THEN 0 ELSE a[1].sent)
    <3>1. b[1].from \in Nat /\ b[1].sent \in Nat
      BY <1>1
    <3> HIDE DEF at
    <3> QED BY <1>2, <1>3, <1>7, <2>2, <3>1
  <2> QED BY <2>3, <2>4, Zenon
<1> QED BY <1>6, <1>7, TakenFacts DEF a

(***************************************************************************)
(* Tunnels.                                                                *)
(***************************************************************************)
Relisted(t, tbl) == [t EXCEPT !.clients = tbl]

\* A tunnel with another table.
LEMMA RelistedFacts ==
    ASSUME NEW r \in TunnelRecs, NEW tbl \in Tables
    PROVE  Relisted(r, tbl) \in TunnelRecs /\ Relisted(r, tbl).clients = tbl
<1> DEFINE fields == {"open", "src", "to", "dst", "clients"}
<1>1. /\ DOMAIN r = fields /\ r.open \in {TRUE} /\ r.src \in LocalPorts /\ r.to \in Addresses
      /\ r.dst \in Ports
  BY Zenon DEF TunnelRecs
<1>2. ASSUME NEW x, x = [r EXCEPT !.clients = tbl]
      PROVE  x \in TunnelRecs /\ x.clients = tbl
  <2>1. DOMAIN x = fields /\ x.open = r.open /\ x.src = r.src
    BY <1>1, <1>2, Zenon
  <2>2. x.to = r.to /\ x.dst = r.dst /\ x.clients = tbl
    BY <1>1, <1>2, Zenon
  <2>3. x = [open |-> x.open, src |-> x.src, to |-> x.to, dst |-> x.dst, clients |-> x.clients]
    BY <1>2, <2>1, Zenon
  <2>4. /\ x.open \in {TRUE} /\ x.src \in LocalPorts /\ x.to \in Addresses /\ x.dst \in Ports
        /\ x.clients \in Tables
    BY <1>1, <2>1, <2>2, Zenon
  <2> QED BY <2>2, <2>3, <2>4, Zenon DEF TunnelRecs
<1> QED BY <1>2, Zenon DEF Relisted

\* What is left of the table of a tunnel when the clients C are freed.
LEMMA UnlistedFacts ==
    ASSUME NEW r \in TunnelRecs, NEW C
    PROVE  /\ Unlisted(r, C) \in TunnelRecs
           /\ DOMAIN Unlisted(r, C).clients = {f \in DOMAIN r.clients : r.clients[f] \notin C}
           /\ \A f \in DOMAIN Unlisted(r, C).clients : Unlisted(r, C).clients[f] = r.clients[f]
<1> DEFINE D == {f \in DOMAIN r.clients : r.clients[f] \notin C}
           tbl == [f \in D |-> r.clients[f]]
<1>1. r.clients \in Tables /\ DOMAIN r = {"open", "src", "to", "dst", "clients"}
  BY Zenon DEF TunnelRecs
<1>2. PICK E \in SUBSET Fds : r.clients \in [E -> Nat]
  BY <1>1, Zenon DEF Tables
<1>3. tbl \in [D -> Nat] /\ D \in SUBSET Fds
  BY <1>2, Zenon
<1>4. tbl \in Tables
  BY <1>3, Zenon DEF Tables
<1>5. Unlisted(r, C) = Relisted(r, tbl)
  BY <1>1, Zenon DEF Unlisted, Relisted
<1>6. DOMAIN tbl = D /\ \A f \in D : tbl[f] = r.clients[f]
  BY Zenon
<1> HIDE DEF tbl
<1>7. Unlisted(r, C) \in TunnelRecs /\ Unlisted(r, C).clients = tbl
  BY <1>4, <1>5, RelistedFacts, Zenon
<1> QED BY <1>6, <1>7, Zenon

(***************************************************************************)
(* Freeing clients and tunnels.                                            *)
(***************************************************************************)
\* What Free leaves.
LEMMA FreeFacts ==
    ASSUME TypeInv, NEW C, NEW T, Free(C, T), given' = given, written' = written, where' = where
    PROVE  /\ TypeInv'
           /\ Clients' = Clients \ C
           /\ \A c \in Clients' : clients'[c] = clients[c]
           /\ Tunnels' = Tunnels \ T
           /\ \A t \in Tunnels' : tunnels'[t] = Unlisted(tunnels[t], C)
           /\ DOMAIN endpoints' = DOMAIN endpoints \ C
<1>1. /\ \A c \in DOMAIN clients : clients[c] \in {Gone} \cup ClientRecs
      /\ \A t \in DOMAIN tunnels : tunnels[t] \in {Gone} \cup TunnelRecs
  BY LenProperties DEF TypeInv, Records
<1>2. Gone \notin ClientRecs /\ Gone \notin TunnelRecs
  BY OpenRecords, Zenon
<1>3. /\ Clients = {c \in DOMAIN clients : clients[c] \in ClientRecs}
      /\ Tunnels = {t \in DOMAIN tunnels : tunnels[t] \in TunnelRecs}
  BY OpenAre, Zenon DEF Live
<1>4. \A t \in DOMAIN tunnels : tunnels[t].open <=> tunnels[t] \in TunnelRecs
  BY <1>1, OpenRecords, Zenon
<1>5. clients' \in [DOMAIN clients -> {Gone} \cup ClientRecs]
  BY <1>1, Zenon DEF Free
<1>6. clients' \in Records(ClientRecs) /\ DOMAIN clients' = DOMAIN clients
  BY <1>5, SamePlaces, Zenon DEF TypeInv, Records
<1>7. tunnels' \in [DOMAIN tunnels -> {Gone} \cup TunnelRecs]
  BY <1>1, <1>4, UnlistedFacts, Zenon DEF Free
<1>8. tunnels' \in Records(TunnelRecs) /\ DOMAIN tunnels' = DOMAIN tunnels
  BY <1>7, SamePlaces, Zenon DEF TypeInv, Records
<1>9. TypeInv'
  BY <1>6, <1>8, Zenon DEF TypeInv
<1>10. /\ Clients' = {c \in DOMAIN clients : clients'[c] \in ClientRecs}
       /\ Tunnels' = {t \in DOMAIN tunnels : tunnels'[t] \in TunnelRecs}
  BY <1>6, <1>8, <1>9, OpenAreNext, Zenon DEF Live
<1>11. \A c \in DOMAIN clients : clients'[c] = IF c \in C THEN Gone ELSE clients[c]
  BY Zenon DEF Free
<1>12. \A t \in DOMAIN tunnels : tunnels'[t] = IF t \in T \/ tunnels[t] \notin TunnelRecs
                                                THEN Gone ELSE Unlisted(tunnels[t], C)
  BY <1>4, Zenon DEF Free
<1>13. Clients' = Clients \ C /\ \A c \in Clients' : clients'[c] = clients[c]
  BY <1>2, <1>3, <1>10, <1>11, Zenon
<1>14. Tunnels' = Tunnels \ T
  <2>1. \A t \in DOMAIN tunnels : tunnels[t] \in TunnelRecs => Unlisted(tunnels[t], C) \in TunnelRecs
    BY UnlistedFacts, Zenon
  <2>2. \A t \in DOMAIN tunnels : tunnels'[t] \in TunnelRecs <=> tunnels[t] \in TunnelRecs /\ t \notin T
    BY <1>2, <1>12, <2>1, Zenon
  <2> QED BY <1>3, <1>10, <2>2, Zenon
<1>15. \A t \in Tunnels' : tunnels'[t] = Unlisted(tunnels[t], C)
  BY <1>2, <1>3, <1>10, <1>12, <1>14, Zenon
<1>16. DOMAIN endpoints' = DOMAIN endpoints \ C
  BY Zenon DEF Free, Delisted
<1> QED BY <1>9, <1>13, <1>14, <1>15, <1>16, Zenon

\* The events that a handler may be called for.
Writers == {d \in Clients : clients[d].write}

\* The fields of an event.
LEMMA EventFacts ==
    \A k, x : Event(k, x).kind = k /\ Event(k, x).of = x
BY Zenon DEF Event

\* What was watched is watched still, but for the listeners of T, the reads of C and
\* the writes of W, of which no event is left.
LEMMA StillWatched ==
    ASSUME NEW C, NEW T, NEW W, NoLateEvents, events' \subseteq events,
           \A e \in events' : /\ ~(e.kind = "accept" /\ e.of \in T)
                              /\ ~(e.kind = "read" /\ e.of \in C)
                              /\ ~(e.kind = "write" /\ e.of \in W),
           Tunnels \ T \subseteq Tunnels', Clients \ C \subseteq Clients',
           Writers \ W \subseteq Writers'
    PROVE  NoLateEvents'
<1> SUFFICES ASSUME NEW e \in events' PROVE e \in Watched'
  BY Zenon DEF NoLateEvents
<1>1. e \in events /\ e \in Watched
  BY Zenon DEF NoLateEvents
<1>2. /\ ~(e.kind = "accept" /\ e.of \in T) /\ ~(e.kind = "read" /\ e.of \in C)
      /\ ~(e.kind = "write" /\ e.of \in W)
  BY Zenon
<1>3. Watched = {Event("accept", t) : t \in Tunnels} \cup {Event("read", c) : c \in Clients}
                   \cup {Event("write", c) : c \in Writers}
  BY Zenon DEF Watched, Writers
<1>4. Watched' = {Event("accept", t) : t \in Tunnels'} \cup {Event("read", c) : c \in Clients'}
                   \cup {Event("write", c) : c \in Writers'}
  BY Zenon DEF Watched, Writers
<1>5. CASE e \in {Event("accept", t) : t \in Tunnels}
  <2>1. PICK t \in Tunnels : e = Event("accept", t)
    BY <1>5, Zenon
  <2>2. t \notin T
    BY <1>2, <2>1, EventFacts, Zenon
  <2> QED BY <1>4, <2>1, <2>2, Zenon
<1>6. CASE e \in {Event("read", c) : c \in Clients}
  <2>1. PICK c \in Clients : e = Event("read", c)
    BY <1>6, Zenon
  <2>2. c \notin C
    BY <1>2, <2>1, EventFacts, Zenon
  <2> QED BY <1>4, <2>1, <2>2, Zenon
<1>7. CASE e \in {Event("write", c) : c \in Writers}
  <2>1. PICK c \in Writers : e = Event("write", c)
    BY <1>7, Zenon
  <2>2. c \notin W
    BY <1>2, <2>1, EventFacts, Zenon
  <2> QED BY <1>4, <2>1, <2>2, Zenon
<1> QED BY <1>1, <1>3, <1>5, <1>6, <1>7, Zenon

\* Freeing clients, or a tunnel with all its clients, keeps the invariant.
LEMMA FreeStep ==
    ASSUME SocketsInv, NEW C, NEW T, Free(C, T), given' = given, written' = written,
           where' = where, events' \subseteq Stopped(events, C, T),
           \A t \in Tunnels \cap T : ClientsOf(t) \subseteq C
    PROVE  SocketsInv'
<1>1. TypeInv /\ NoLateEvents /\ TableInv /\ FlowInv
  BY Zenon DEF SocketsInv
<1>2. /\ TypeInv' /\ Clients' = Clients \ C /\ Tunnels' = Tunnels \ T
      /\ \A c \in Clients' : clients'[c] = clients[c]
      /\ \A t \in Tunnels' : tunnels'[t] = Unlisted(tunnels[t], C)
      /\ DOMAIN endpoints' = DOMAIN endpoints \ C
  BY <1>1, FreeFacts, Zenon
<1>3. NoLateEvents'
  <2>1. Writers \ C \subseteq Writers'
    BY <1>2, Zenon DEF Writers
  <2>2. /\ events' \subseteq events
        /\ \A e \in events' : /\ ~(e.kind = "accept" /\ e.of \in T)
                              /\ ~(e.kind = "read" /\ e.of \in C)
                              /\ ~(e.kind = "write" /\ e.of \in C)
    BY Zenon DEF Stopped
  <2>3. Tunnels \ T \subseteq Tunnels' /\ Clients \ C \subseteq Clients'
    BY <1>2, Zenon
  <2> QED BY <1>1, <2>1, <2>2, <2>3, StillWatched, Zenon
<1>4. ASSUME NEW t \in Tunnels'
      PROVE  /\ t \in Tunnels
             /\ \A f \in DOMAIN tunnels'[t].clients :
                    /\ f \in DOMAIN tunnels[t].clients
                    /\ tunnels'[t].clients[f] = tunnels[t].clients[f]
                    /\ tunnels'[t].clients[f] \notin C
             /\ \A f \in DOMAIN tunnels[t].clients :
                    tunnels[t].clients[f] \notin C => f \in DOMAIN tunnels'[t].clients
  <2>1. t \in Tunnels /\ tunnels[t] \in TunnelRecs
    BY <1>1, <1>2, OpenFields, Zenon
  <2>2. tunnels'[t] = Unlisted(tunnels[t], C)
    BY <1>2, Zenon
  <2>3. /\ DOMAIN tunnels'[t].clients
              = {f \in DOMAIN tunnels[t].clients : tunnels[t].clients[f] \notin C}
        /\ \A f \in DOMAIN tunnels'[t].clients : tunnels'[t].clients[f] = tunnels[t].clients[f]
    <3> DEFINE x == Unlisted(tunnels[t], C)
    <3>1. /\ DOMAIN x.clients = {f \in DOMAIN tunnels[t].clients : tunnels[t].clients[f] \notin C}
          /\ \A f \in DOMAIN x.clients : x.clients[f] = tunnels[t].clients[f]
      BY <2>1, UnlistedFacts, Zenon
    <3> HIDE DEF x
    <3> QED BY <2>2, <3>1 DEF x
  <2> QED BY <2>1, <2>3, Zenon
<1>5. \A t \in Tunnels' : \A c \in ClientsOf(t)' : c \in ClientsOf(t)
  BY <1>4, Zenon DEF ClientsOf
<1>6. \A t \in Tunnels' : \A c \in ClientsOf(t) : c \notin C => c \in ClientsOf(t)'
  <2> TAKE t \in Tunnels'
  <2> TAKE c \in ClientsOf(t)
  <2>1. PICK f \in DOMAIN tunnels[t].clients : c = tunnels[t].clients[f]
    BY Zenon DEF ClientsOf
  <2>2. HAVE c \notin C
  <2>3. f \in DOMAIN tunnels'[t].clients /\ tunnels'[t].clients[f] = c
    BY <1>4, <2>1, <2>2, Zenon
  <2> QED BY <2>3, Zenon DEF ClientsOf
<1>7. TableInv'
  <2>1. DOMAIN endpoints' \subseteq Clients'
    BY <1>1, <1>2, Zenon DEF TableInv
  <2>2. ASSUME NEW t \in Tunnels', NEW f \in DOMAIN tunnels'[t].clients
        PROVE  /\ tunnels'[t].clients[f] \in Clients' \ DOMAIN endpoints'
               /\ clients'[tunnels'[t].clients[f]].fd = f
    <3>1. /\ tunnels[t].clients[f] \in Clients \ DOMAIN endpoints
          /\ clients[tunnels[t].clients[f]].fd = f
      BY <1>1, <1>4, Zenon DEF TableInv
    <3>2. PICK c : c = tunnels[t].clients[f]
      BY Zenon
    <3>3. tunnels'[t].clients[f] = c /\ c \notin C
      BY <1>4, <3>2, Zenon
    <3>4. c \in Clients' \ DOMAIN endpoints' /\ clients'[c] = clients[c]
      BY <1>2, <3>1, <3>2, <3>3, Zenon
    <3> QED BY <3>1, <3>2, <3>3, <3>4, Zenon
  <2>3. ASSUME NEW c \in Clients' \ DOMAIN endpoints'
        PROVE  \E t \in Tunnels' : c \in ClientsOf(t)'
    <3>1. c \in Clients \ DOMAIN endpoints /\ c \notin C
      BY <1>2, Zenon
    <3>2. PICK t \in Tunnels : c \in ClientsOf(t)
      BY <1>1, <3>1, Zenon DEF TableInv
    <3> QED BY <1>2, <1>6, <3>1, <3>2, Zenon
  <2>4. \A t, u \in Tunnels' : \A c \in ClientsOf(t)' \cap ClientsOf(u)' : t = u
    BY <1>1, <1>4, <1>5, Zenon DEF TableInv
  <2>5. \A c, d \in Clients' : clients'[c].fd = clients'[d].fd => c = d
    <3> TAKE c, d \in Clients'
    <3>1. c \in Clients /\ d \in Clients /\ clients'[c] = clients[c] /\ clients'[d] = clients[d]
      BY <1>2, Zenon
    <3> QED BY <1>1, <3>1 DEF TableInv
  <2> QED BY <2>1, <2>2, <2>3, <2>4, <2>5, Zenon DEF TableInv
<1>8. FlowInv'
  BY <1>1, <1>2, Zenon DEF FlowInv
<1> QED BY <1>2, <1>3, <1>7, <1>8, Zenon DEF SocketsInv

(***************************************************************************)
(* Steps of one client, and new clients and tunnels.                       *)
(***************************************************************************)
\* With the same tables a client's buffer may change.
LEMMA SameTables ==
    ASSUME TableInv, Clients' = Clients, Tunnels' = Tunnels, endpoints' = endpoints,
           tunnels' = tunnels, \A c \in Clients : clients'[c].fd = clients[c].fd
    PROVE  TableInv'
<1>1. \A t : ClientsOf(t)' = ClientsOf(t)
  BY Zenon DEF ClientsOf
<1>2. \A c, d \in Clients' : clients'[c].fd = clients'[d].fd => c = d
  BY DEF TableInv
<1>3. ASSUME NEW t \in Tunnels', NEW f \in DOMAIN tunnels'[t].clients
      PROVE  /\ tunnels'[t].clients[f] \in Clients' \ DOMAIN endpoints'
             /\ clients'[tunnels'[t].clients[f]].fd = f
  <2>1. PICK c : c = tunnels[t].clients[f]
    BY Zenon
  <2>2. c \in Clients \ DOMAIN endpoints /\ clients[c].fd = f
    BY <2>1 DEF TableInv
  <2> QED BY <2>1, <2>2
<1> QED BY <1>1, <1>2, <1>3, Zenon DEF TableInv

\* A client is given bytes, or writes some.
LEMMA BufferStep ==
    ASSUME SocketsInv, NEW c \in Clients, NEW r \in ClientRecs, NEW g \in Nat, NEW w \in Seq(Nat),
           r.fd = clients[c].fd, Flow(r.send, g, w), r.write <=> r.send # <<>>,
           clients' = [clients EXCEPT ![c] = r],
           given' = [given EXCEPT ![c] = g], written' = [written EXCEPT ![c] = w],
           tunnels' = tunnels, endpoints' = endpoints, where' = where, events' \subseteq events,
           r.write \/ Event("write", c) \notin events'
    PROVE  SocketsInv'
<1>1. TypeInv /\ NoLateEvents /\ TableInv /\ FlowInv
  BY Zenon DEF SocketsInv
<1>2. c \in Live(ClientRecs, clients) /\ c \in DOMAIN clients
  BY <1>1, OpenAre, OpenFields, Zenon
<1>3. /\ clients' \in Records(ClientRecs) /\ DOMAIN clients' = DOMAIN clients
      /\ clients'[c] = r /\ \A d \in DOMAIN clients \ {c} : clients'[d] = clients[d]
      /\ Live(ClientRecs, clients') = Live(ClientRecs, clients)
  <2>1. OneChanged(ClientRecs, clients, c, r, clients')
    BY <1>1, <1>2, LivePut, Zenon DEF TypeInv
  <2> QED BY <2>1, Zenon DEF OneChanged
<1>4. /\ given' \in Seq(Nat) /\ DOMAIN given' = DOMAIN clients
      /\ given'[c] = g /\ \A d \in DOMAIN clients \ {c} : given'[d] = given[d]
  BY <1>1, <1>2, LenProperties DEF TypeInv
<1>5. /\ written' \in Seq(Seq(Nat)) /\ DOMAIN written' = DOMAIN clients
      /\ written'[c] = w /\ \A d \in DOMAIN clients \ {c} : written'[d] = written[d]
  BY <1>1, <1>2, LenProperties DEF TypeInv
<1>6. TypeInv'
  BY <1>1, <1>3, <1>4, <1>5, Zenon DEF TypeInv
<1>7. Clients' = Clients /\ Tunnels' = Tunnels /\ \A d \in Clients : d \in DOMAIN clients
  BY <1>1, <1>3, <1>6, OpenAre, OpenAreNext, OpenFields, Zenon
<1>8. \A d \in Clients : clients'[d].fd = clients[d].fd
  BY <1>3, <1>7, Zenon
<1>9. TableInv'
  BY <1>1, <1>7, <1>8, SameTables, Zenon
<1>10. FlowInv'
  <2> SUFFICES ASSUME NEW d \in Clients
               PROVE  /\ Flow(clients'[d].send, given'[d], written'[d])
                      /\ clients'[d].write <=> clients'[d].send # <<>>
    BY <1>7, Zenon DEF FlowInv
  <2>1. CASE d = c
    <3>1. clients'[d] = r /\ given'[d] = g /\ written'[d] = w
      BY <1>3, <1>4, <1>5, <2>1, Zenon
    <3> QED BY <3>1, Zenon
  <2>2. CASE d # c
    <3>1. clients'[d] = clients[d] /\ given'[d] = given[d] /\ written'[d] = written[d]
      BY <1>3, <1>4, <1>5, <1>7, <2>2, Zenon
    <3>2. /\ Flow(clients[d].send, given[d], written[d])
          /\ clients[d].write <=> clients[d].send # <<>>
      BY <1>1, Zenon DEF FlowInv
    <3> QED BY <3>1, <3>2, Zenon
  <2> QED BY <2>1, <2>2, Zenon
<1>11. NoLateEvents'
  <2> DEFINE none == {}
             one == {c}
  <2>1. /\ Tunnels \ none \subseteq Tunnels' /\ Clients \ none \subseteq Clients'
        /\ \A e \in events' : /\ ~(e.kind = "accept" /\ e.of \in none)
                              /\ ~(e.kind = "read" /\ e.of \in none)
                              /\ ~(e.kind = "write" /\ e.of \in none)
    BY <1>7, Zenon
  <2>2. CASE r.write
    <3>1. Writers \ none \subseteq Writers'
      BY <1>3, <1>7, <2>2, Zenon DEF Writers
    <3> HIDE DEF none
    <3> QED BY <1>1, <2>1, <3>1, StillWatched, Zenon
  <2>3. CASE Event("write", c) \notin events'
    <3>1. Writers \ one \subseteq Writers'
      BY <1>3, <1>7, Zenon DEF Writers
    <3>2. \A e \in events' : ~(e.kind = "write" /\ e.of \in one)
      <4> SUFFICES ASSUME NEW e \in events', e.kind = "write", e.of = c
                   PROVE  FALSE
        BY Zenon
      <4>1. e \in Watched
        BY <1>1, Zenon DEF NoLateEvents
      <4>2. PICK k, x : e = Event(k, x)
        BY <4>1, Zenon DEF Watched
      <4>3. k = "write" /\ x = c
        BY <4>2, EventFacts
      <4>4. e = Event("write", c)
        BY <4>2, <4>3, Zenon
      <4> QED BY <2>3, <4>4, Zenon
    <3> HIDE DEF none, one
    <3> QED BY <1>1, <2>1, <3>1, <3>2, StillWatched, Zenon
  <2> QED BY <2>2, <2>3, Zenon
<1> QED BY <1>6, <1>9, <1>10, <1>11, Zenon DEF SocketsInv

\* A new client is the last one.
Last == Len(clients) + 1

Added(r, g) ==
    /\ clients' = Append(clients, r) /\ given' = Append(given, g)
    /\ written' = Append(written, <<>>)
    /\ tunnels' \in Records(TunnelRecs) /\ where' = where

\* Its effect on the clients and on their histories.
LEMMA NewClient ==
    ASSUME SocketsInv, NEW r \in ClientRecs, NEW g \in Nat, NEW c, c = Last, Added(r, g),
           Flow(r.send, g, <<>>), r.write <=> r.send # <<>>
    PROVE  /\ TypeInv' /\ FlowInv'
           /\ Clients' = Clients \cup {c} /\ c \notin Clients /\ c \in Nat
           /\ clients'[c] = r /\ \A d \in Clients : clients'[d] = clients[d]
           /\ Writers \subseteq Writers'
<1>1. TypeInv /\ FlowInv
  BY Zenon DEF SocketsInv
<1>0. /\ clients' = Append(clients, r) /\ given' = Append(given, g)
      /\ written' = Append(written, <<>>) /\ c = Len(clients) + 1
      /\ tunnels' \in Records(TunnelRecs) /\ where' = where
  BY Zenon DEF Added, Last
<1>2. /\ clients' \in Records(ClientRecs)
      /\ DOMAIN clients' = DOMAIN clients \cup {c} /\ c \notin DOMAIN clients
      /\ clients'[c] = r /\ \A d \in DOMAIN clients : clients'[d] = clients[d]
      /\ Live(ClientRecs, clients') = Live(ClientRecs, clients) \cup {c}
  <2>1. clients \in Records(ClientRecs)
    BY <1>1, Zenon DEF TypeInv
  <2>2. clients' = Append(clients, r)
    BY <1>0, Zenon
  <2>3. c = Len(clients) + 1
    BY <1>0, Zenon
  <2>4. OneMore(ClientRecs, clients, r, clients', c)
    BY <2>1, <2>2, <2>3, LiveAppend, Zenon
  <2> QED BY <2>4, Zenon DEF OneMore
<1>3. /\ DOMAIN clients = 1 .. Len(clients) /\ DOMAIN given = 1 .. Len(given)
      /\ DOMAIN written = 1 .. Len(written)
      /\ Len(clients) \in Nat /\ Len(given) \in Nat /\ Len(written) \in Nat
  BY <1>1, LenProperties DEF TypeInv
<1>4. Len(given) = Len(clients) /\ Len(written) = Len(clients) /\ c \in Nat
  BY <1>0, <1>1, <1>3 DEF TypeInv
<1>5. /\ given' \in Seq(Nat) /\ DOMAIN given' = DOMAIN clients' /\ given'[c] = g
      /\ \A d \in DOMAIN clients : given'[d] = given[d]
  BY <1>0, <1>1, <1>2, <1>3, <1>4, AppendProperties, LenProperties DEF TypeInv
<1>6. /\ written' \in Seq(Seq(Nat)) /\ DOMAIN written' = DOMAIN clients' /\ written'[c] = <<>>
      /\ \A d \in DOMAIN clients : written'[d] = written[d]
  <2>1. <<>> \in Seq(Nat) /\ written \in Seq(Seq(Nat))
    BY <1>1, EmptySeq DEF TypeInv
  <2> QED BY <1>0, <1>2, <1>3, <1>4, <2>1, AppendProperties, LenProperties
<1>7. TypeInv'
  BY <1>0, <1>1, <1>2, <1>5, <1>6, Zenon DEF TypeInv
<1>8. Clients' = Clients \cup {c} /\ c \notin Clients /\ \A d \in Clients : d \in DOMAIN clients
  BY <1>1, <1>2, <1>7, OpenAre, OpenAreNext, OpenFields, Zenon
<1>9. FlowInv'
  <2> SUFFICES ASSUME NEW d \in Clients'
               PROVE  /\ Flow(clients'[d].send, given'[d], written'[d])
                      /\ clients'[d].write <=> clients'[d].send # <<>>
    BY Zenon DEF FlowInv
  <2>1. CASE d = c
    BY <1>2, <1>5, <1>6, <2>1, Zenon
  <2>2. CASE d # c
    <3>1. d \in Clients /\ d \in DOMAIN clients
      BY <1>8, <2>2, Zenon
    <3> QED BY <1>1, <1>2, <1>5, <1>6, <3>1, Zenon DEF FlowInv
  <2> QED BY <2>1, <2>2, Zenon
<1>10. Writers \subseteq Writers'
  BY <1>2, <1>8, Zenon DEF Writers
<1> QED BY <1>2, <1>4, <1>7, <1>8, <1>9, <1>10, Zenon

\* Nothing that was watched stops being watched.
LEMMA MoreWatched ==
    ASSUME NoLateEvents, events' \subseteq events, Tunnels \subseteq Tunnels',
           Clients \subseteq Clients', Writers \subseteq Writers'
    PROVE  NoLateEvents'
<1> DEFINE none == {}
<1>1. /\ Tunnels \ none \subseteq Tunnels' /\ Clients \ none \subseteq Clients'
      /\ Writers \ none \subseteq Writers'
      /\ \A e \in events' : /\ ~(e.kind = "accept" /\ e.of \in none)
                            /\ ~(e.kind = "read" /\ e.of \in none)
                            /\ ~(e.kind = "write" /\ e.of \in none)
  BY Zenon
<1> HIDE DEF none
<1> QED BY <1>1, StillWatched, Zenon

\* endpoint.request for a new connection: the client is listed as an endpoint.
LEMMA EndpointStep ==
    ASSUME SocketsInv, NEW key, NEW fd \in Fds, NEW n \in Lengths, RequestNew(key, fd, n)
    PROVE  SocketsInv'
<1> DEFINE c == Len(clients) + 1
           r == Appended(Client(fd), 0, n)
<1>1. TypeInv /\ NoLateEvents /\ TableInv /\ n \in Nat \ {0}
  BY SocketsAssumption, Zenon DEF SocketsInv
<1>2. r \in ClientRecs /\ r.fd = fd /\ r.write = TRUE
      /\ r.send = Append(<<>>, [from |-> 0, len |-> n, sent |-> 0])
  <2>1. Client(fd) \in ClientRecs /\ Client(fd).fd = fd /\ Client(fd).send = <<>> /\ 0 \in Nat
    BY ClientFacts, Zenon
  <2> DEFINE new == Client(fd)
             zero == 0
  <2> HIDE DEF new, zero
  <2>2. new \in ClientRecs /\ zero \in Nat
    BY <2>1, Zenon DEF new, zero
  <2>3. /\ Appended(new, zero, n) \in ClientRecs
        /\ Appended(new, zero, n).fd = new.fd /\ Appended(new, zero, n).write = TRUE
        /\ Appended(new, zero, n).send = Append(new.send, [from |-> zero, len |-> n, sent |-> 0])
    BY <1>1, <2>2, AppendedFacts, Zenon
  <2> QED BY <2>1, <2>3, Zenon DEF new, zero
<1>3. Flow(r.send, n, <<>>) /\ r.send # <<>>
  <2>1. <<>> \in Seq(Slots) /\ 0 \in Nat /\ 0 + n = n
    BY <1>1, EmptySeq
  <2>2. Flow(r.send, 0 + n, <<>>)
    BY <1>1, <1>2, <2>1, FlowEmpty, FlowAppended, Zenon
  <2>3. r.send # <<>>
    <3> DEFINE slot == [from |-> 0, len |-> n, sent |-> 0]
    <3>1. slot \in Slots
      BY <1>1 DEF Slots
    <3> HIDE DEF slot
    <3>2. Append(<<>>, slot) # <<>>
      BY <2>1, <3>1, AppendProperties, EmptySeq
    <3> QED BY <1>2, <3>2, Zenon DEF slot
  <2> QED BY <2>1, <2>2, <2>3
<1>4. /\ clients' = Append(clients, r) /\ given' = Append(given, n)
      /\ written' = Append(written, <<>>) /\ where' = where /\ tunnels' = tunnels
      /\ events' = events /\ fd \in FreeFds
      /\ DOMAIN endpoints' = DOMAIN endpoints \cup {c}
  BY Zenon DEF RequestNew
<1>5. Added(r, n) /\ n \in Nat /\ (r.write <=> r.send # <<>>)
  BY <1>1, <1>2, <1>3, <1>4, Zenon DEF TypeInv, Added
<1> HIDE DEF c, r
<1>6. /\ TypeInv' /\ FlowInv'
      /\ Clients' = Clients \cup {c} /\ c \notin Clients
      /\ clients'[c] = r /\ \A d \in Clients : clients'[d] = clients[d]
      /\ Writers \subseteq Writers'
  <2>1. c = Last
    BY Zenon DEF c, Last
  <2> QED BY <1>2, <1>3, <1>5, <2>1, NewClient, Zenon
<1>7. Tunnels' = Tunnels /\ \A t : ClientsOf(t)' = ClientsOf(t)
  BY <1>4, Zenon DEF Tunnels, ClientsOf
<1>8. NoLateEvents'
  BY <1>1, <1>4, <1>6, <1>7, MoreWatched, Zenon
<1>9. TableInv'
  <2>1. DOMAIN endpoints' \subseteq Clients'
    BY <1>1, <1>4, <1>6, Zenon DEF TableInv
  <2>2. ASSUME NEW t \in Tunnels', NEW f \in DOMAIN tunnels'[t].clients
        PROVE  /\ tunnels'[t].clients[f] \in Clients' \ DOMAIN endpoints'
               /\ clients'[tunnels'[t].clients[f]].fd = f
    <3>1. PICK d : d = tunnels[t].clients[f]
      BY Zenon
    <3>2. d \in Clients \ DOMAIN endpoints /\ clients[d].fd = f
      BY <1>1, <1>4, <1>7, <3>1, Zenon DEF TableInv
    <3>3. d \in Clients' \ DOMAIN endpoints' /\ clients'[d] = clients[d]
      BY <1>4, <1>6, <3>2, Zenon
    <3> QED BY <1>4, <3>1, <3>2, <3>3, Zenon
  <2>3. \A d \in Clients' \ DOMAIN endpoints' : \E t \in Tunnels' : d \in ClientsOf(t)'
    BY <1>1, <1>4, <1>6, <1>7, Zenon DEF TableInv
  <2>4. \A t, u \in Tunnels' : \A d \in ClientsOf(t)' \cap ClientsOf(u)' : t = u
    BY <1>1, <1>7, Zenon DEF TableInv
  <2>5. \A d, e \in Clients' : clients'[d].fd = clients'[e].fd => d = e
    <3>1. \A d \in Clients : clients'[d].fd = clients[d].fd /\ clients[d].fd # fd
      BY <1>4, <1>6, Zenon DEF FreeFds
    <3>2. clients'[c].fd = fd
      BY <1>2, <1>6, Zenon
    <3> QED BY <1>1, <1>6, <3>1, <3>2 DEF TableInv
  <2> QED BY <2>1, <2>2, <2>3, <2>4, <2>5, Zenon DEF TableInv
<1> QED BY <1>6, <1>8, <1>9, Zenon DEF SocketsInv

\* server_async_client: the client is listed in the table of its tunnel.
LEMMA AcceptStep ==
    ASSUME SocketsInv, NEW t, NEW fd \in Fds, Accept(t, fd)
    PROVE  SocketsInv'
<1> DEFINE c == Len(clients) + 1
           r == Client(fd)
           old == tunnels[t].clients
           tbl == [f \in DOMAIN old \cup {fd} |-> IF f = fd THEN c ELSE old[f]]
           x == Relisted(tunnels[t], tbl)
<1>1. TypeInv /\ NoLateEvents /\ TableInv
  BY Zenon DEF SocketsInv
<1>2. t \in Tunnels /\ t \in DOMAIN tunnels /\ tunnels[t] \in TunnelRecs /\ old \in Tables
  <2>1. Event("accept", t) \in Watched
    BY <1>1, Zenon DEF Accept, NoLateEvents
  <2>2. \A u : Event("accept", t) # Event("read", u) /\ Event("accept", t) # Event("write", u)
    BY EventFacts
  <2>3. \A u : Event("accept", t) = Event("accept", u) => t = u
    BY EventFacts
  <2>4. t \in Tunnels
    BY <2>1, <2>2, <2>3, Zenon DEF Watched
  <2> QED BY <1>1, <2>4, OpenFields, Zenon
<1>3. /\ clients' = Append(clients, r) /\ given' = Append(given, 0)
      /\ written' = Append(written, <<>>) /\ where' = where /\ endpoints' = endpoints
      /\ events' \subseteq events /\ fd \in FreeFds
  BY Zenon DEF Accept
<1>4. tunnels' = [tunnels EXCEPT ![t] = x]
  BY <1>2, Zenon DEF Accept, Relisted
<1>5. /\ r \in ClientRecs /\ r.fd = fd /\ r.send = <<>> /\ 0 \in Nat
      /\ Flow(r.send, 0, <<>>) /\ (r.write <=> r.send # <<>>)
  BY ClientFacts, FlowEmpty, Zenon
<1>6. DOMAIN tbl = DOMAIN old \cup {fd} /\ tbl[fd] = c /\ \A f \in DOMAIN old \ {fd} : tbl[f] = old[f]
  BY Zenon
<1>7. tbl \in Tables /\ c \in Nat
  <2>1. c \in Nat
    BY <1>1, LenProperties DEF TypeInv, Records
  <2>2. PICK D \in SUBSET Fds : old \in [D -> Nat]
    BY <1>2, Zenon DEF Tables
  <2> HIDE DEF c, old
  <2>3. D \cup {fd} \in SUBSET Fds /\ tbl \in [D \cup {fd} -> Nat]
    BY <2>1, <2>2, Zenon
  <2> HIDE DEF tbl
  <2> QED BY <2>1, <2>3, Zenon DEF Tables
<1> HIDE DEF c, r, tbl
<1>8. x \in TunnelRecs /\ x.clients = tbl
  BY <1>2, <1>7, RelistedFacts, Zenon
<1> HIDE DEF x, old
<1>9. /\ tunnels' \in Records(TunnelRecs) /\ tunnels'[t] = x
      /\ \A u \in DOMAIN tunnels \ {t} : tunnels'[u] = tunnels[u]
      /\ Live(TunnelRecs, tunnels') = Live(TunnelRecs, tunnels)
  <2>1. tunnels \in Records(TunnelRecs) /\ t \in Live(TunnelRecs, tunnels)
    BY <1>1, <1>2, Zenon DEF TypeInv, Live
  <2>2. OneChanged(TunnelRecs, tunnels, t, x, tunnels')
    BY <1>4, <1>8, <2>1, LivePut, Zenon
  <2> QED BY <2>2, Zenon DEF OneChanged
<1>10. /\ TypeInv' /\ FlowInv'
       /\ Clients' = Clients \cup {c} /\ c \notin Clients
       /\ clients'[c] = r /\ \A d \in Clients : clients'[d] = clients[d]
       /\ Writers \subseteq Writers'
  <2> DEFINE zero == 0
  <2>1. c = Last /\ Added(r, zero) /\ zero \in Nat /\ Flow(r.send, zero, <<>>)
    BY <1>3, <1>5, <1>9, Zenon DEF c, Last, Added
  <2> HIDE DEF zero
  <2> QED BY <1>5, <2>1, NewClient, Zenon
<1>11. Tunnels' = Tunnels
  BY <1>1, <1>9, <1>10, OpenAre, OpenAreNext, Zenon
<1>12. NoLateEvents'
  BY <1>1, <1>3, <1>10, <1>11, MoreWatched, Zenon
<1>13. /\ tunnels'[t].clients = tbl
       /\ \A u \in Tunnels \ {t} : tunnels'[u] = tunnels[u]
  BY <1>1, <1>8, <1>9, OpenFields, Zenon
<1>14. \A d \in Clients : clients'[d].fd = clients[d].fd /\ clients[d].fd # fd
  BY <1>3, <1>10, Zenon DEF FreeFds
<1>15. fd \notin DOMAIN old
  <2> SUFFICES ASSUME fd \in DOMAIN old PROVE FALSE
    OBVIOUS
  <2>1. old[fd] \in Clients /\ clients[old[fd]].fd = fd
    BY <1>1, <1>2, Zenon DEF TableInv, old
  <2> QED BY <1>14, <2>1, Zenon
<1>16. \A u \in Tunnels \ {t} : ClientsOf(u)' = ClientsOf(u)
  BY <1>13, Zenon DEF ClientsOf
<1>17. ClientsOf(t)' = ClientsOf(t) \cup {c}
  <2>1. ClientsOf(t)' = {tbl[f] : f \in DOMAIN tbl}
    BY <1>13, Zenon DEF ClientsOf
  <2>2. ClientsOf(t) = {old[f] : f \in DOMAIN old}
    BY Zenon DEF ClientsOf, old
  <2> QED BY <1>6, <1>15, <2>1, <2>2
<1>18. TableInv'
  <2>1. DOMAIN endpoints' \subseteq Clients' /\ c \notin DOMAIN endpoints
    BY <1>1, <1>3, <1>10, Zenon DEF TableInv
  <2>2. ASSUME NEW u \in Tunnels', NEW f \in DOMAIN tunnels'[u].clients
        PROVE  /\ tunnels'[u].clients[f] \in Clients' \ DOMAIN endpoints'
               /\ clients'[tunnels'[u].clients[f]].fd = f
    <3>1. CASE u = t /\ f = fd
      <4>1. tunnels'[u].clients[f] = c /\ clients'[c].fd = fd
        BY <1>5, <1>6, <1>10, <1>13, <3>1, Zenon
      <4> QED BY <1>3, <1>10, <2>1, <3>1, <4>1, Zenon
    <3>2. CASE ~(u = t /\ f = fd)
      <4>1. f \in DOMAIN tunnels[u].clients /\ tunnels'[u].clients[f] = tunnels[u].clients[f]
        <5>1. CASE u = t
          <6>1. f \in DOMAIN old /\ tbl[f] = old[f]
            BY <1>6, <1>13, <3>2, <5>1, Zenon
          <6> QED BY <1>13, <5>1, <6>1 DEF old
        <5>2. CASE u # t
          BY <1>11, <1>13, <5>2, Zenon
        <5> QED BY <5>1, <5>2
      <4>2. PICK d : d = tunnels[u].clients[f]
        BY Zenon
      <4>3. d \in Clients \ DOMAIN endpoints /\ clients[d].fd = f
        BY <1>1, <1>11, <4>1, <4>2, Zenon DEF TableInv
      <4> QED BY <1>3, <1>10, <1>14, <4>1, <4>2, <4>3, Zenon
    <3> QED BY <3>1, <3>2, Zenon
  <2>3. ASSUME NEW d \in Clients' \ DOMAIN endpoints'
        PROVE  \E u \in Tunnels' : d \in ClientsOf(u)'
    <3>1. CASE d = c
      BY <1>2, <1>11, <1>17, <3>1, Zenon
    <3>2. CASE d # c
      <4>1. PICK u \in Tunnels : d \in ClientsOf(u)
        BY <1>1, <1>3, <1>10, <3>2, Zenon DEF TableInv
      <4> QED BY <1>11, <1>16, <1>17, <4>1, Zenon
    <3> QED BY <3>1, <3>2, Zenon
  <2>4. \A u, v \in Tunnels' : \A d \in ClientsOf(u)' \cap ClientsOf(v)' : u = v
    <3>1. \A u \in Tunnels : c \notin ClientsOf(u)
      <4> SUFFICES ASSUME NEW u \in Tunnels, c \in ClientsOf(u) PROVE FALSE
        BY Zenon
      <4>1. PICK f \in DOMAIN tunnels[u].clients : c = tunnels[u].clients[f]
        BY Zenon DEF ClientsOf
      <4>2. c \in Clients
        BY <1>1, <4>1 DEF TableInv
      <4> QED BY <1>10, <4>2, Zenon
    <3>2. \A u \in Tunnels : \A d \in ClientsOf(u)' : d \in ClientsOf(u) \/ (u = t /\ d = c)
      BY <1>16, <1>17, Zenon
    <3> TAKE u, v \in Tunnels'
    <3> TAKE d \in ClientsOf(u)' \cap ClientsOf(v)'
    <3>3. \/ d \in ClientsOf(u) /\ d \in ClientsOf(v)
          \/ u = t /\ v = t
      BY <1>11, <3>1, <3>2, Zenon
    <3> QED BY <1>1, <1>11, <3>3, Zenon DEF TableInv
  <2>5. \A d, e \in Clients' : clients'[d].fd = clients'[e].fd => d = e
    <3>1. clients'[c].fd = fd
      BY <1>5, <1>10, Zenon
    <3> QED BY <1>1, <1>10, <1>14, <3>1 DEF TableInv
  <2> QED BY <2>1, <2>2, <2>3, <2>4, <2>5, Zenon DEF TableInv
<1> QED BY <1>10, <1>12, <1>18, Zenon DEF SocketsInv

\* tunnel_open: the new tunnel has no clients.
LEMMA TunnelStep ==
    ASSUME SocketsInv, NEW k \in Keys, NEW d \in Ports, NEW src \in LocalPorts,
           TunnelOpen(k, d, src)
    PROVE  SocketsInv'
<1> DEFINE x == Server(src, where[k], d)
<1>0. PICK u : u = Len(tunnels) + 1
  BY Zenon
<1>1. TypeInv /\ NoLateEvents /\ TableInv /\ FlowInv
  BY Zenon DEF SocketsInv
<1>2. /\ tunnels' = Append(tunnels, x) /\ clients' = clients /\ endpoints' = endpoints
      /\ given' = given /\ written' = written /\ where' = where /\ events' = events
      /\ k \in DOMAIN where
  BY Zenon DEF TunnelOpen
<1>3. x \in TunnelRecs /\ x.clients = [f \in {} |-> 0]
  <2> DEFINE none == [f \in {} |-> 0]
  <2>1. none \in Tables
    BY Zenon DEF Tables
  <2>2. where[k] \in Addresses
    BY <1>1, <1>2, Zenon DEF TypeInv
  <2> HIDE DEF none
  <2>3. x = [open |-> TRUE, src |-> src, to |-> where[k], dst |-> d, clients |-> none]
    BY Zenon DEF Server, none
  <2>6. ASSUME NEW a \in Addresses, NEW y, y = [open |-> TRUE, src |-> src, to |-> a, dst |-> d, clients |-> none]
        PROVE  y \in TunnelRecs /\ y.clients = none
    <3>1. y.clients = none
      BY <2>6, Zenon
    <3>2. y \in TunnelRecs
      BY <2>1, <2>6, Zenon DEF TunnelRecs
    <3> QED BY <3>1, <3>2
  <2> HIDE DEF x
  <2>4. x \in TunnelRecs
    BY <2>2, <2>3, <2>6, Zenon
  <2>5. x.clients = none
    BY <2>2, <2>3, <2>6, Zenon
  <2> QED BY <2>4, <2>5, Zenon DEF none
<1> HIDE DEF x
<1>4. OneMore(TunnelRecs, tunnels, x, tunnels', u)
  BY <1>0, <1>1, <1>2, <1>3, LiveAppend, Zenon DEF TypeInv
<1>5. /\ tunnels' \in Records(TunnelRecs) /\ u \notin DOMAIN tunnels
      /\ tunnels'[u] = x /\ \A t \in DOMAIN tunnels : tunnels'[t] = tunnels[t]
      /\ Live(TunnelRecs, tunnels') = Live(TunnelRecs, tunnels) \cup {u}
  BY <1>4, Zenon DEF OneMore
<1>6. TypeInv'
  BY <1>1, <1>2, <1>5, Zenon DEF TypeInv
<1>7. /\ Clients' = Clients /\ Writers' = Writers
      /\ Tunnels' = Tunnels \cup {u} /\ \A t \in Tunnels : t \in DOMAIN tunnels
  BY <1>1, <1>2, <1>5, <1>6, OpenAre, OpenAreNext, OpenFields, Zenon DEF Writers
<1>8. NoLateEvents'
  BY <1>1, <1>2, <1>7, MoreWatched, Zenon
<1>9. FlowInv'
  BY <1>1, <1>2, <1>7, Zenon DEF FlowInv
<1>10. DOMAIN tunnels'[u].clients = {} /\ ClientsOf(u)' = {}
  <2>1. tunnels'[u].clients = [f \in {} |-> 0]
    BY <1>3, <1>5, Zenon
  <2>2. DOMAIN tunnels'[u].clients = {}
    BY <2>1, Zenon
  <2> QED BY <2>2, Zenon DEF ClientsOf
<1>11. \A t \in Tunnels : tunnels'[t] = tunnels[t] /\ ClientsOf(t)' = ClientsOf(t)
  BY <1>5, <1>7, Zenon DEF ClientsOf
<1>12. TableInv'
  <2>1. \A t \in Tunnels' : \A f \in DOMAIN tunnels'[t].clients :
            /\ tunnels'[t].clients[f] \in Clients' \ DOMAIN endpoints'
            /\ clients'[tunnels'[t].clients[f]].fd = f
    <3> TAKE t \in Tunnels'
    <3> TAKE f \in DOMAIN tunnels'[t].clients
    <3>1. t \in Tunnels /\ tunnels'[t] = tunnels[t]
      BY <1>7, <1>10, <1>11, Zenon
    <3>2. PICK c : c = tunnels[t].clients[f]
      BY Zenon
    <3>3. c \in Clients \ DOMAIN endpoints /\ clients[c].fd = f
      BY <1>1, <3>1, <3>2, Zenon DEF TableInv
    <3> QED BY <1>2, <1>7, <3>1, <3>2, <3>3, Zenon
  <2>2. \A c \in Clients' \ DOMAIN endpoints' : \E t \in Tunnels' : c \in ClientsOf(t)'
    <3> TAKE c \in Clients' \ DOMAIN endpoints'
    <3>1. PICK t \in Tunnels : c \in ClientsOf(t)
      BY <1>1, <1>2, <1>7, Zenon DEF TableInv
    <3> QED BY <1>7, <1>11, <3>1
  <2>3. \A t, v \in Tunnels' : \A c \in ClientsOf(t)' \cap ClientsOf(v)' : t = v
    <3> TAKE t, v \in Tunnels'
    <3> TAKE c \in ClientsOf(t)' \cap ClientsOf(v)'
    <3>1. t \in Tunnels /\ v \in Tunnels
      BY <1>7, <1>10, Zenon
    <3>2. c \in ClientsOf(t) /\ c \in ClientsOf(v)
      BY <1>11, <3>1, Zenon
    <3> QED BY <1>1, <3>1, <3>2, Zenon DEF TableInv
  <2> QED BY <1>1, <1>2, <1>7, <2>1, <2>2, <2>3, Zenon DEF TableInv
<1> QED BY <1>6, <1>8, <1>9, <1>12, Zenon DEF SocketsInv

\* gc_gen_ev_send.
LEMMA GiveStep ==
    ASSUME SocketsInv, NEW c \in Clients, NEW n \in Lengths, Give(c, n),
           tunnels' = tunnels, endpoints' = endpoints, where' = where, events' = events,
           written' = written
    PROVE  SocketsInv'
<1> DEFINE r == Appended(clients[c], given[c], n)
           g == given[c] + n
           w == written[c]
<1>1. TypeInv /\ FlowInv /\ n \in Nat \ {0}
  BY SocketsAssumption, Zenon DEF SocketsInv
<1>2. /\ c \in DOMAIN clients /\ clients[c] \in ClientRecs /\ clients[c].send \in Seq(Slots)
      /\ given[c] \in Nat /\ written[c] \in Seq(Nat)
  BY <1>1, OpenFields, Zenon
<1>3. /\ r \in ClientRecs /\ r.fd = clients[c].fd /\ r.write = TRUE
      /\ r.send = Append(clients[c].send, [from |-> given[c], len |-> n, sent |-> 0])
  BY <1>1, <1>2, AppendedFacts, Zenon
<1>4. g \in Nat /\ w \in Seq(Nat)
  BY <1>1, <1>2
<1>5. Flow(r.send, g, w)
  BY <1>1, <1>2, <1>3, FlowAppended, Zenon DEF FlowInv
<1>6. r.send # <<>>
  <2> DEFINE slot == [from |-> given[c], len |-> n, sent |-> 0]
  <2>1. slot \in Slots
    BY <1>1, <1>2 DEF Slots
  <2> HIDE DEF slot
  <2>2. Append(clients[c].send, slot) # <<>>
    BY <1>2, <2>1, AppendProperties, EmptySeq
  <2> QED BY <1>3, <2>2, Zenon DEF slot
<1>7. clients' = [clients EXCEPT ![c] = r] /\ given' = [given EXCEPT ![c] = g]
  BY <1>1, <1>2, Zenon DEF Give, TypeInv
<1>8. written' = [written EXCEPT ![c] = w]
  BY <1>1, <1>2, LenProperties DEF TypeInv
<1> HIDE DEF r, g, w
<1>9. (r.write <=> r.send # <<>>) /\ (r.write \/ Event("write", c) \notin events')
  BY <1>3, <1>6, Zenon
<1>10. events' \subseteq events
  BY Zenon
<1> QED BY <1>3, <1>4, <1>5, <1>7, <1>8, <1>9, <1>10, BufferStep, Zenon

\* async_write.
LEMMA WriteStep ==
    ASSUME SocketsInv, NEW c \in Clients, NEW n, Write(c, n)
    PROVE  SocketsInv'
<1> DEFINE b == clients[c].send
           r == Sent(clients[c], n)
           g == given[c]
           w == written[c] \o Positions(NextByte(clients[c]), n)
<1>1. TypeInv /\ FlowInv
  BY Zenon DEF SocketsInv
<1>2. /\ c \in DOMAIN clients /\ clients[c] \in ClientRecs /\ b \in Seq(Slots)
      /\ given[c] \in Nat /\ written[c] \in Seq(Nat)
  BY <1>1, OpenFields, Zenon
<1>3. /\ b # <<>> /\ n \in 1 .. Head(b).len - Head(b).sent
      /\ events' = events \ {Event("write", c)}
      /\ clients' = [clients EXCEPT ![c] = r]
      /\ tunnels' = tunnels /\ endpoints' = endpoints /\ where' = where /\ given' = given
  BY Zenon DEF Write
<1>4. written' = [written EXCEPT ![c] = w]
  BY Zenon DEF Write
<1>5. Taken(b, n) \in Seq(Slots)
  BY <1>2, <1>3, TakenFacts
<1>6. r \in ClientRecs /\ r.fd = clients[c].fd /\ r.send = Taken(b, n) /\ (r.write <=> r.send # <<>>)
  <2> DEFINE some == Taken(b, n) # <<>>
  <2>1. some \in BOOLEAN
    BY Zenon
  <2>2. r = Rebuffered(clients[c], Taken(b, n), some)
    BY <1>2, SentIs, Zenon
  <2> HIDE DEF some, b
  <2>3. /\ Rebuffered(clients[c], Taken(b, n), some) \in ClientRecs
        /\ Rebuffered(clients[c], Taken(b, n), some).fd = clients[c].fd
        /\ Rebuffered(clients[c], Taken(b, n), some).write = some
        /\ Rebuffered(clients[c], Taken(b, n), some).send = Taken(b, n)
    BY <1>2, <1>5, <2>1, ClientUpdated, Zenon
  <2> HIDE DEF r
  <2>4. r \in ClientRecs /\ r.fd = clients[c].fd /\ r.write = some /\ r.send = Taken(b, n)
    BY <2>2, <2>3, Zenon
  <2> QED BY <2>4, Zenon DEF some
<1>7. Flow(b, g, written[c])
  BY <1>1, Zenon DEF FlowInv
<1>8. Flow(Taken(b, n), g, w)
  BY <1>2, <1>3, <1>7, FlowSent, Zenon DEF NextByte
<1>9. w \in Seq(Nat)
  <2> DEFINE p == Positions(NextByte(clients[c]), n)
  <2>1. n \in Nat /\ NextByte(clients[c]) \in Nat
    <3>1. Head(b) \in Slots
      BY <1>2, <1>3, HeadTailProperties
    <3>2. PICK e \in Slots : e = Head(b)
      BY <3>1, Zenon
    <3>3. e.from \in Nat /\ e.sent \in Nat /\ e.len \in Nat
      BY <3>2 DEF Slots
    <3>4. e.from + e.sent \in Nat /\ NextByte(clients[c]) = e.from + e.sent
      BY <3>2, <3>3 DEF NextByte
    <3>5. n \in Nat
      <4>1. n \in 1 .. e.len - e.sent
        BY <1>3, <3>2, Zenon
      <4> QED BY <3>3, <4>1
    <3> QED BY <3>4, <3>5, Zenon
  <2>2. p \in Seq(Nat)
    <3>1. PICK s : s = NextByte(clients[c])
      OBVIOUS
    <3>2. s \in Nat /\ p = Positions(s, n)
      BY <2>1, <3>1, Zenon
    <3> HIDE DEF p
    <3> QED BY <2>1, <3>2 DEF Positions
  <2> HIDE DEF p
  <2>3. written[c] \o p \in Seq(Nat)
    BY <1>2, <2>2, ConcatProperties, Zenon
  <2> QED BY <2>3 DEF p
<1>10. given' = [given EXCEPT ![c] = g]
  BY <1>1, <1>2, <1>3, LenProperties, Zenon DEF TypeInv
<1>11. events' \subseteq events /\ Event("write", c) \notin events' /\ g \in Nat
  BY <1>2, <1>3, Zenon
<1>12. Flow(r.send, g, w)
  BY <1>6, <1>8, Zenon
<1>13. /\ clients' = [clients EXCEPT ![c] = r] /\ tunnels' = tunnels /\ endpoints' = endpoints
       /\ where' = where
  BY <1>3, Zenon
<1> HIDE DEF r, g, w
<1> QED BY <1>4, <1>6, <1>9, <1>10, <1>11, <1>12, <1>13, BufferStep, Zenon

\* A step that leaves clients, tunnels and endpoints alone.
LEMMA StillStep ==
    ASSUME SocketsInv, clients' = clients, tunnels' = tunnels, endpoints' = endpoints,
           given' = given, written' = written, events' \subseteq Watched,
           where' \in [DOMAIN where' -> Addresses]
    PROVE  SocketsInv'
<1>1. Clients' = Clients /\ Tunnels' = Tunnels /\ \A t : ClientsOf(t)' = ClientsOf(t)
  BY Zenon DEF Clients, Tunnels, ClientsOf
<1>2. Watched' = Watched
  BY <1>1, Zenon DEF Watched
<1>3. NoLateEvents'
  BY <1>2, Zenon DEF NoLateEvents
<1>4. TypeInv' /\ FlowInv'
  BY <1>1, Zenon DEF SocketsInv, TypeInv, FlowInv
<1>5. TableInv'
  BY <1>1, SameTables, Zenon DEF SocketsInv
<1> QED BY <1>3, <1>4, <1>5, Zenon DEF SocketsInv

\* An event that was collected is one of a client that is not freed.
LEMMA EventClient ==
    ASSUME SocketsInv, NEW k \in {"read", "write"}, NEW c, Event(k, c) \in events
    PROVE  c \in Clients
<1>1. Event(k, c) \in Watched
  BY Zenon DEF SocketsInv, NoLateEvents
<1>2. \A u : Event(k, c) # Event("accept", u)
  BY EventFacts
<1>3. \A u : Event(k, c) = Event("read", u) \/ Event(k, c) = Event("write", u) => c = u
  BY EventFacts
<1> QED BY <1>1, <1>2, <1>3, Zenon DEF Watched

\* async_read and async_write, of a server's client or of an endpoint.
LEMMA HandledStep ==
    ASSUME SocketsInv, NEW c, Handled(c)
    PROVE  SocketsInv'
<1>1. CASE Read(c)
  <2>1. /\ clients' = clients /\ tunnels' = tunnels /\ endpoints' = endpoints /\ where' = where
        /\ given' = given /\ written' = written /\ events' \subseteq events
    BY <1>1, Zenon DEF Read
  <2>2. events' \subseteq Watched /\ where' \in [DOMAIN where' -> Addresses]
    BY <2>1, Zenon DEF SocketsInv, NoLateEvents, TypeInv
  <2> QED BY <2>1, <2>2, StillStep, Zenon
<1>2. ASSUME NEW kind \in {"read", "write"}, Fails(c, kind)
      PROVE  SocketsInv'
  <2> DEFINE one == {c}
             none == {}
  <2>1. /\ Free(one, none) /\ where' = where /\ given' = given /\ written' = written
        /\ events' \subseteq Stopped(events, one, none)
    BY <1>2, Zenon DEF Fails, Stopped
  <2>2. \A t \in Tunnels \cap none : ClientsOf(t) \subseteq one
    BY Zenon
  <2> HIDE DEF one, none
  <2> QED BY <2>1, <2>2, FreeStep, Zenon
<1>3. ASSUME NEW n \in 1 .. MaxBytes, Write(c, n)
      PROVE  SocketsInv'
  <2>1. c \in Clients
    BY <1>3, EventClient, Zenon DEF Write
  <2> QED BY <1>3, <2>1, WriteStep, Zenon
<1> QED BY <1>1, <1>2, <1>3, Zenon DEF Handled

\* A list of peers with one entry changed.
LEMMA WhereStep ==
    ASSUME TypeInv, NEW k, NEW a \in Addresses, PeersChange(k, a)
    PROVE  where' \in [DOMAIN where' -> Addresses]
<1>1. where \in [DOMAIN where -> Addresses]
  BY Zenon DEF TypeInv
<1>2. CASE where' = [j \in DOMAIN where \ {k} |-> where[j]]
  BY <1>1, <1>2
<1>3. CASE where' = [j \in DOMAIN where \cup {k} |-> IF j = k THEN a ELSE where[j]]
  BY <1>1, <1>3
<1> QED BY <1>2, <1>3, Zenon DEF PeersChange

\* Every step keeps the invariant.
LEMMA SocketsStep ==
    ASSUME SocketsInv, [Next]_vars
    PROVE  SocketsInv'
<1>0. /\ TypeInv /\ NoLateEvents /\ TableInv /\ events \subseteq Watched
      /\ where \in [DOMAIN where -> Addresses]
  BY Zenon DEF SocketsInv, TypeInv, NoLateEvents
<1>1. ASSUME NEW k \in Keys, NEW a \in Addresses, PeersChange(k, a)
      PROVE  SocketsInv'
  <2>1. where' \in [DOMAIN where' -> Addresses]
    BY <1>0, <1>1, WhereStep, Zenon
  <2>2. /\ clients' = clients /\ tunnels' = tunnels /\ endpoints' = endpoints
        /\ given' = given /\ written' = written /\ events' \subseteq Watched
    BY <1>0, <1>1, Zenon DEF PeersChange
  <2> QED BY <2>1, <2>2, StillStep, Zenon
<1>2. ASSUME NEW k \in Keys, NEW d \in Ports, NEW src \in LocalPorts, TunnelOpen(k, d, src)
      PROVE  SocketsInv'
  BY <1>2, TunnelStep, Zenon
<1>3. ASSUME NEW k \in Keys, NEW d \in Ports, TunnelClose(k, d)
      PROVE  SocketsInv'
  <2>1. PICK t \in Tunnels : ServerShutdown(t)
    BY <1>3, Zenon DEF TunnelClose
  <2>2. PICK C, T : C = ClientsOf(t) /\ T = {t}
    BY Zenon
  <2>3. /\ Free(C, T) /\ where' = where /\ given' = given /\ written' = written
        /\ events' \subseteq Stopped(events, C, T)
    BY <1>3, <2>1, <2>2, Zenon DEF TunnelClose, ServerShutdown
  <2>4. \A u \in Tunnels \cap T : ClientsOf(u) \subseteq C
    BY <2>2, Zenon
  <2> QED BY <2>3, <2>4, FreeStep, Zenon
<1>4. CASE Poll \/ UNCHANGED vars \/ \E t : AcceptNone(t)
  <2>1. /\ clients' = clients /\ tunnels' = tunnels /\ endpoints' = endpoints /\ where' = where
        /\ given' = given /\ written' = written
    BY <1>4, Zenon DEF Poll, vars, AcceptNone
  <2>2. events' \subseteq Watched
    BY <1>0, <1>4, Zenon DEF Poll, vars, AcceptNone
  <2>3. where' \in [DOMAIN where' -> Addresses]
    BY <1>0, <2>1, Zenon
  <2> QED BY <2>1, <2>2, <2>3, StillStep, Zenon
<1>5. ASSUME NEW t, NEW fd \in Fds, Accept(t, fd)
      PROVE  SocketsInv'
  BY <1>5, AcceptStep, Zenon
<1>6. ASSUME NEW c, ClientHandler(c) \/ EndpointHandler(c)
      PROVE  SocketsInv'
  BY <1>6, HandledStep, Zenon DEF ClientHandler, EndpointHandler
<1>7. ASSUME NEW n \in Lengths, NEW src \in LocalPorts, NEW fd \in Fds, Response(src, fd, n)
      PROVE  SocketsInv'
  <2>1. PICK t \in Tunnels : fd \in DOMAIN tunnels[t].clients /\ Give(tunnels[t].clients[fd], n)
    BY <1>7, Zenon DEF Response
  <2>2. PICK c : c = tunnels[t].clients[fd]
    BY Zenon
  <2>3. c \in Clients /\ Give(c, n)
    BY <1>0, <2>1, <2>2, Zenon DEF TableInv
  <2>4. /\ tunnels' = tunnels /\ endpoints' = endpoints /\ where' = where /\ events' = events
        /\ written' = written
    BY <1>7, Zenon DEF Response
  <2> QED BY <2>3, <2>4, GiveStep, Zenon
<1>8. ASSUME NEW n \in Lengths, NEW key, RequestKnown(key, n)
      PROVE  SocketsInv'
  <2>1. PICK c \in DOMAIN endpoints : Give(c, n)
    BY <1>8, Zenon DEF RequestKnown
  <2>2. c \in Clients
    BY <1>0, <2>1, Zenon DEF TableInv
  <2>3. /\ tunnels' = tunnels /\ endpoints' = endpoints /\ where' = where /\ events' = events
        /\ written' = written
    BY <1>8, Zenon DEF RequestKnown
  <2> QED BY <2>1, <2>2, <2>3, GiveStep, Zenon
<1>9. ASSUME NEW n \in Lengths, NEW key, NEW fd \in Fds, RequestNew(key, fd, n)
      PROVE  SocketsInv'
  BY <1>9, EndpointStep, Zenon
<1> QED BY <1>1, <1>2, <1>3, <1>4, <1>5, <1>6, <1>7, <1>8, <1>9, Zenon DEF Next

(***************************************************************************)
(* The theorems.                                                           *)
(***************************************************************************)
\* The invariant holds of every behaviour of the peer's sockets.
THEOREM SocketsInvariant == Spec => []SocketsInv
<1>1. Init => SocketsInv
  <2> HAVE Init
  <2>1. /\ clients = <<>> /\ tunnels = <<>> /\ given = <<>> /\ written = <<>> /\ events = {}
        /\ endpoints = <<>> /\ where = [k \in {} |-> 0]
    BY Zenon DEF Init
  <2>2. TypeInv
    BY <2>1, EmptySeq, Zenon DEF TypeInv, Records
  <2>3. Clients = {} /\ Tunnels = {} /\ DOMAIN endpoints = {}
    BY <2>1 DEF Clients, Tunnels
  <2>4. NoLateEvents /\ TableInv /\ FlowInv
    BY <2>1, <2>3, Zenon DEF NoLateEvents, TableInv, FlowInv
  <2> QED BY <2>2, <2>4, Zenon DEF SocketsInv
<1>2. SocketsInv /\ [Next]_vars => SocketsInv'
  BY SocketsStep
<1> QED BY <1>1, <1>2, PTL DEF Spec

\* No handler is called for a client or a server that was freed: async_client_shutdown and
\* async_server_shutdown take back all events collected for what they free.
THEOREM EventsAreTimely == Spec => []NoLateEvents
<1>1. SocketsInv => NoLateEvents
  BY Zenon DEF SocketsInv
<1> QED BY <1>1, SocketsInvariant, PTL

\* The cardinality facts of the library, from here on.
INSTANCE FiniteSetTheorems

\* The tables of the tunnels and the list of endpoints have every client that is not
\* freed once, and no other: what tunnel.response and endpoint.request find is good.
THEOREM TablesAreTrue == Spec => []ClientsAreListed
<1>1. SocketsInv => ClientsAreListed
  <2> HAVE SocketsInv
  <2>1. TableInv
    BY Zenon DEF SocketsInv
  <2>2. ASSUME NEW c \in Clients \ DOMAIN endpoints
        PROVE  Cardinality({t \in Tunnels : c \in ClientsOf(t)}) = 1
    <3>1. PICK t \in Tunnels : c \in ClientsOf(t)
      BY <2>1, Zenon DEF TableInv
    <3>2. ASSUME NEW u \in Tunnels, c \in ClientsOf(u)
          PROVE  u = t
      <4>1. c \in ClientsOf(u) \cap ClientsOf(t)
        BY <3>1, <3>2, Zenon
      <4> QED BY <2>1, <3>1, <4>1, Zenon DEF TableInv
    <3>3. {u \in Tunnels : c \in ClientsOf(u)} = {t}
      BY <3>1, <3>2, Zenon
    <3> QED BY <3>3, FS_Singleton
  <2> QED BY <2>1, <2>2, Zenon DEF TableInv, ClientsAreListed
<1> QED BY <1>1, SocketsInvariant, PTL

\* What was given to a client is written in order and without gaps, whatever each send
\* takes, and while some is left in the ring buffer the write watcher is started.
THEOREM BytesAreOnTheirWay == Spec => []OnItsWay
<1>1. SocketsInv => OnItsWay
  <2> SUFFICES ASSUME FlowInv PROVE OnItsWay
    BY Zenon DEF SocketsInv
  <2> QED BY Zenon DEF FlowInv, Flow, OnItsWay
<1> QED BY <1>1, SocketsInvariant, PTL

(***************************************************************************)
(* Transport.                                                              *)
(***************************************************************************)
(***************************************************************************)
(* Messages and their packets.                                             *)
(***************************************************************************)
\* The packets of one message agree on all but number and offset, and these
\* advance together.
LEMMA GroupMember ==
    ASSUME NEW p \in Packet, NEW q \in Packet
    PROVE  q \in Group(p) <=> /\ Message(q) = Message(p) /\ q.chunks = p.chunks
                              /\ q.pidx - q.off = p.pidx - p.off /\ q.off < p.chunks
<1>1. ASSUME NEW i \in 0 .. p.chunks - 1, q = [p EXCEPT !.pidx = p.pidx - p.off + i, !.off = i]
      PROVE  /\ Message(q) = Message(p) /\ q.chunks = p.chunks
             /\ q.pidx - q.off = p.pidx - p.off /\ q.off < p.chunks
  BY <1>1 DEF Packet, Message
<1>2. ASSUME Message(q) = Message(p), q.chunks = p.chunks,
             q.pidx - q.off = p.pidx - p.off, q.off < p.chunks
      PROVE  /\ q = [p EXCEPT !.pidx = p.pidx - p.off + q.off, !.off = q.off]
             /\ q.off \in 0 .. p.chunks - 1
  <2>1. q.pidx = p.pidx - p.off + q.off /\ q.off \in 0 .. p.chunks - 1
    BY <1>2 DEF Packet
  <2>. QED
    BY <1>2, <2>1, Zenon DEF Packet, Message
<1>. QED
  BY <1>1, <1>2, Zenon DEF Group

\* Every packet of a message names the same message.
LEMMA SameGroup ==
    ASSUME NEW p \in Packet, NEW q \in Packet, q \in Group(p), p.off < p.chunks
    PROVE  Group(q) = Group(p)
<1>. DEFINE base == p.pidx - p.off
<1>1. q.pidx - q.off = base /\ q.chunks = p.chunks /\ Message(q) = Message(p)
  BY GroupMember
<1>2. \A i : [q EXCEPT !.pidx = base + i, !.off = i] = [p EXCEPT !.pidx = base + i, !.off = i]
  BY <1>1, Zenon DEF Packet, Message
<1>. QED
  BY <1>1, <1>2, Zenon DEF Group

\* A message has as many packets as its header says.
LEMMA GroupSize ==
    ASSUME NEW p \in Packet
    PROVE  IsFiniteSet(Group(p)) /\ Cardinality(Group(p)) = p.chunks
<1>. DEFINE I == 0 .. p.chunks - 1
            part == [i \in I |-> [p EXCEPT !.pidx = p.pidx - p.off + i, !.off = i]]
<1>1. p.chunks \in Nat
  BY DEF Packet
<1>2. IsFiniteSet(I) /\ Cardinality(I) = p.chunks
  BY <1>1, FS_Interval, SMTT(40)
<1>3. part \in [I -> Group(p)] /\ \A g \in Group(p) : \E i \in I : part[i] = g
  BY Zenon DEF Group
<1>4. \A i \in I : part[i].off = i
  BY DEF Packet
<1>5. part \in Bijection(I, Group(p))
  <2>. HIDE DEF part, I
  <2>. QED
    BY <1>3, <1>4 DEF Bijection, Injection, Surjection, IsInjective
<1>6. ExistsBijection(I, Group(p))
  BY <1>5, Zenon DEF ExistsBijection
<1>. QED
  <2>. HIDE DEF I
  <2>. QED
    BY <1>2, <1>6, FS_Bijection, Zenon

(***************************************************************************)
(* What the senders keep: numbers are never given twice in one run.        *)
(***************************************************************************)
Out == DOMAIN pending \cup net \cup acked \cup expired

\* A packet is of its sender's past: of an earlier run, or numbered below the counters.
Past(p, r, g, n) ==
    /\ p.run <= r[p.src]
    /\ p.run = r[p.src] => p.gidx < g[p.src] /\ p.pidx < n[p.src]

\* Two packets of one message, and two packets with one number.
Coherent(p, q) ==
    /\ Message(p) = Message(q) => q \in Group(p)
    /\ p.src = q.src /\ p.run = q.run /\ p.pidx = q.pidx => p = q

SendInv ==
    /\ gidx \in [Senders -> 0 .. MaxMessages]
    /\ pidx \in [Senders -> Nat]
    /\ run \in [Senders -> 0 .. MaxRestarts]
    /\ Out \subseteq Packet
    /\ pending \in [DOMAIN pending -> 0 .. Tries]
    /\ \A p \in Out : p.off < p.chunks /\ p.off <= p.pidx /\ Past(p, run, gidx, pidx)
    /\ \A p \in DOMAIN pending : p.run = run[p.src]
    /\ \A p, q \in Out : Coherent(p, q)

\* TransportInit establishes it.
LEMMA InitSendInv == TransportInit => SendInv
  BY TransportAssumption DEF TransportInit, SendInv, Out

\* packet.chunk makes well-formed packets from the sender's counters.
LEMMA ChunksTypes ==
    ASSUME SendInv, NEW s \in Senders, NEW n \in Nat \ {0}
    PROVE  \A p \in Chunks(s, n) :
               /\ p \in Packet /\ p.src = s /\ p.run = run[s] /\ p.gidx = gidx[s]
               /\ p.chunks = n /\ p.off \in 0 .. n - 1 /\ p.pidx = pidx[s] + p.off
  BY DEF SendInv, Chunks, Packet

\* data.send keeps the invariant: the new packets cohere with each other and,
\* having fresh numbers, with all others.
LEMMA SendKeeps ==
    ASSUME SendInv, NEW s \in Senders, NEW n \in Nat \ {0}, gidx[s] < MaxMessages,
           pending' = Queued(DOMAIN pending \cup Chunks(s, n)),
           pidx' = [pidx EXCEPT ![s] = @ + n],
           gidx' = [gidx EXCEPT ![s] = @ + 1],
           UNCHANGED <<run, net, acked, expired>>
    PROVE  SendInv'
<1>. DEFINE C == Chunks(s, n)
<1>c. \A p \in C :
        /\ p \in Packet /\ p.src = s /\ p.run = run[s] /\ p.gidx = gidx[s]
        /\ p.chunks = n /\ p.off \in 0 .. n - 1 /\ p.pidx = pidx[s] + p.off
  BY ChunksTypes
<1>. HIDE DEF C
<1>1. DOMAIN pending' = DOMAIN pending \cup C /\ Out' = Out \cup C
  BY DEF Queued, Out, C
<1>2. pending' \in [DOMAIN pending' -> 0 .. Tries]
  <2>1. \A p \in DOMAIN pending' : pending'[p] \in 0 .. Tries
    BY <1>1, TransportAssumption DEF Queued, SendInv, C
  <2>2. pending' = [p \in DOMAIN pending' |-> pending'[p]]
    BY DEF Queued
  <2>. QED
    BY <2>1, <2>2, SMTT(40)
<1>3. /\ gidx' \in [Senders -> 0 .. MaxMessages] /\ pidx' \in [Senders -> Nat]
      /\ run' \in [Senders -> 0 .. MaxRestarts]
  BY TransportAssumption DEF SendInv
<1>4. ASSUME NEW p \in Out
      PROVE  p \in Packet /\ p.off < p.chunks /\ p.off <= p.pidx /\ Past(p, run', gidx', pidx')
  BY <1>4 DEF SendInv, Past, Packet
<1>5. ASSUME NEW p \in C
      PROVE  p \in Packet /\ p.off < p.chunks /\ p.off <= p.pidx /\ Past(p, run', gidx', pidx')
  BY <1>c DEF SendInv, Past, Packet
<1>6. \A p \in DOMAIN pending' : p.run = run'[p.src]
  BY <1>1, <1>c, Zenon DEF SendInv
<1>7. ASSUME NEW p \in C, NEW q \in C PROVE Coherent(p, q)
  <2>1. p.pidx - p.off = q.pidx - q.off
    BY <1>c DEF SendInv
  <2>2. Message(p) = Message(q) /\ q.off < p.chunks
    BY <1>c DEF Message
  <2>3. q \in Group(p)
    BY <2>1, <2>2, <1>c, GroupMember, Zenon
  <2>4. p.pidx = q.pidx => p.off = q.off
    BY <1>c DEF SendInv
  <2>5. p.pidx = q.pidx => p = q
    BY <2>4, <1>c DEF Packet
  <2>. QED
    BY <2>3, <2>5, Zenon DEF Coherent
<1>8. ASSUME NEW p \in C, NEW q \in Out PROVE Coherent(p, q) /\ Coherent(q, p)
  <2>1. p.src = q.src /\ p.run = q.run => p.gidx # q.gidx /\ p.pidx # q.pidx
    BY <1>c, <1>8 DEF SendInv, Past, Packet
  <2>. QED
    BY <2>1 DEF Coherent, Message
<1>9. \A p, q \in Out' : Coherent(p, q)
  BY <1>1, <1>7, <1>8, Zenon DEF SendInv
<1>. QED
  BY <1>1, <1>2, <1>3, <1>4, <1>5, <1>6, <1>9, Zenon DEF SendInv

\* Fewer packets in the queue, none new anywhere, keep the invariant.
LEMMA FewerKeep ==
    ASSUME SendInv, NEW K \in SUBSET DOMAIN pending, pending' = Queued(K),
           Out' \subseteq Out, UNCHANGED sendvars
    PROVE  SendInv'
<1>1. DOMAIN pending' = K
  BY DEF Queued
<1>2. pending' \in [DOMAIN pending' -> 0 .. Tries]
  <2>1. \A p \in K : pending'[p] = pending[p]
    BY DEF Queued
  <2>2. pending' = [p \in K |-> pending'[p]]
    BY DEF Queued
  <2>. QED
    BY <1>1, <2>1, <2>2, Zenon DEF SendInv
<1>3. /\ \A p \in Out' : p.off < p.chunks /\ p.off <= p.pidx /\ Past(p, run', gidx', pidx')
      /\ \A p, q \in Out' : Coherent(p, q)
  BY DEF SendInv, sendvars
<1>. QED
  BY <1>1, <1>2, <1>3, Zenon DEF SendInv, sendvars

\* Every step keeps what the senders keep.
LEMMA NextSendInv == SendInv /\ [TransportNext]_transportVars => SendInv'
<1>. SUFFICES ASSUME SendInv, [TransportNext]_transportVars PROVE SendInv'
  OBVIOUS
<1>1. ASSUME NEW s \in Senders, Send(s) PROVE SendInv'
  <2>1. PICK n \in Sizes : /\ pending' = Queued(DOMAIN pending \cup Chunks(s, n))
                           /\ pidx' = [pidx EXCEPT ![s] = @ + n]
    BY <1>1, Zenon DEF Send
  <2>2. n \in Nat \ {0}
    BY TransportAssumption
  <2>. QED
    BY <1>1, <2>1, <2>2, SendKeeps, Zenon DEF Send
<1>2. ASSUME NEW s \in Senders, SendElsewhere(s) PROVE SendInv'
  <2>1. PICK n \in Sizes : pidx' = [pidx EXCEPT ![s] = @ + n]
    BY <1>2, Zenon DEF SendElsewhere
  <2>2. n \in Nat
    BY TransportAssumption, Zenon
  <2>3. /\ gidx' \in [Senders -> 0 .. MaxMessages] /\ pidx' \in [Senders -> Nat]
        /\ UNCHANGED <<run, pending>> /\ Out' = Out
    BY <1>2, <2>1, <2>2, TransportAssumption DEF SendInv, SendElsewhere, Out
  <2>4. \A p \in Out : Past(p, run', gidx', pidx')
    BY <1>2, <2>1, <2>2 DEF SendInv, SendElsewhere, Past, Packet
  <2>. QED
    BY <2>3, <2>4, Zenon DEF SendInv
<1>3. ASSUME NEW s \in Senders, Restart(s) PROVE SendInv'
  <2>. DEFINE K == {p \in DOMAIN pending : p.src # s}
  <2>1. DOMAIN pending' = K /\ pending' = [p \in K |-> pending[p]]
    BY <1>3, Zenon DEF Restart, Queued
  <2>2. pending' \in [DOMAIN pending' -> 0 .. Tries]
    BY <2>1 DEF SendInv
  <2>3. Out' \subseteq Out
    BY <1>3, <2>1, Zenon DEF Out, Restart
  <2>4. /\ gidx' \in [Senders -> 0 .. MaxMessages] /\ pidx' \in [Senders -> Nat]
        /\ run' \in [Senders -> 0 .. MaxRestarts]
    BY <1>3, TransportAssumption DEF SendInv, Restart
  <2>5. \A p \in Out : Past(p, run', gidx', pidx')
    BY <1>3, TransportAssumption DEF SendInv, Restart, Past, Packet
  <2>6. \A p \in DOMAIN pending' : p.run = run'[p.src]
    <3>1. \A p \in K : p \in Packet /\ p.run = run[p.src]
      BY DEF SendInv, Out
    <3>2. \A p \in K : run'[p.src] = run[p.src]
      BY <1>3, <3>1, Zenon DEF Restart, SendInv, Packet
    <3>. QED
      BY <2>1, <3>1, <3>2, Zenon
  <2>7. /\ Out' \subseteq Packet
        /\ \A p \in Out' : p.off < p.chunks /\ p.off <= p.pidx
        /\ \A p, q \in Out' : Coherent(p, q)
    BY <2>3, Zenon DEF SendInv
  <2>. QED
    BY <2>2, <2>3, <2>4, <2>5, <2>6, <2>7, Zenon DEF SendInv
<1>4. ASSUME NEW p \in DOMAIN pending, Transmit(p) PROVE SendInv'
  <2>1. DOMAIN pending' = DOMAIN pending /\ pending' \in [DOMAIN pending -> 0 .. Tries]
    BY <1>4, TransportAssumption DEF SendInv, Transmit
  <2>2. Out' = Out
    BY <1>4, <2>1, Zenon DEF Transmit, Out
  <2>. QED
    BY <1>4, <2>1, <2>2, Zenon DEF SendInv, Transmit, sendvars
<1>5. ASSUME NEW p \in DOMAIN pending, GiveUp(p) PROVE SendInv'
  <2>. DEFINE K == DOMAIN pending \ {p}
  <2>1. pending' = Queued(K) /\ Out' \subseteq Out /\ UNCHANGED sendvars
    BY <1>5 DEF GiveUp, Out, Queued
  <2>. HIDE DEF K
  <2>2. K \in SUBSET DOMAIN pending
    BY DEF K
  <2>. QED
    BY <2>1, <2>2, FewerKeep, Zenon
<1>6. ASSUME NEW a \in acks, ReadAck(a) PROVE SendInv'
  <2>. DEFINE G == {q \in DOMAIN pending : q.src = a[1] /\ q.pidx = a[2]}
              K == DOMAIN pending \ G
  <2>1. pending' = Queued(K) /\ Out' \subseteq Out /\ UNCHANGED sendvars
    BY <1>6, Zenon DEF ReadAck, Out, Queued
  <2>. HIDE DEF K
  <2>2. K \in SUBSET DOMAIN pending
    BY DEF K
  <2>. QED
    BY <2>1, <2>2, FewerKeep, Zenon
<1>7. ASSUME UNCHANGED <<sendvars, pending, net, acked, expired>> PROVE SendInv'
  BY <1>7, Zenon DEF SendInv, Out, sendvars
<1>8. ASSUME NEW p \in net, Receive(p) PROVE UNCHANGED <<sendvars, pending, net, acked, expired>>
  BY <1>8, Zenon DEF Receive
<1>9. Crash => UNCHANGED <<sendvars, pending, net, acked, expired>>
  BY DEF Crash
<1>10. UNCHANGED transportVars => UNCHANGED <<sendvars, pending, net, acked, expired>>
  BY DEF transportVars
<1>. QED
  BY <1>1, <1>2, <1>3, <1>4, <1>5, <1>6, <1>7, <1>8, <1>9, <1>10, Zenon DEF TransportNext

(***************************************************************************)
(* What the receiver keeps.                                                *)
(***************************************************************************)
\* An entry records distinct numbers of its gidx; where no two messages met, they are
\* of one message, whose chunk count it waits for.
GoodEntry(g, e, S, M) ==
    /\ e \in [total : Nat, got : SUBSET S]
    /\ IsFiniteSet(e.got)
    /\ \A p, q \in e.got : p.pidx = q.pidx => p = q
    /\ \A p \in e.got : p.gidx = g
    /\ g \notin M => \A p \in e.got : e.total = p.chunks /\ \A q \in e.got : Message(q) = Message(p)

\* The packet is in an entry that is not complete.
Waiting(p, c) ==
    /\ p.gidx \in DOMAIN c
    /\ p \in c[p.gidx].got
    /\ Cardinality(c[p.gidx].got) < c[p.gidx].total

RecvInv ==
    /\ seen \subseteq net
    /\ acks \subseteq Senders \X Nat
    /\ handled \subseteq SUBSET seen
    /\ mixed \subseteq Nat
    /\ crashes \in 0 .. MaxCrashes
    /\ \A g \in DOMAIN cache : cache[g].got # {} /\ GoodEntry(g, cache[g], seen, mixed)
    /\ \A p \in seen : p.gidx \in mixed \/ Group(p) \in handled \/ Waiting(p, cache)
    /\ HandledIntact

\* TransportInit establishes it.
LEMMA InitRecvInv == TransportInit => RecvInv
  BY TransportAssumption DEF TransportInit, RecvInv, HandledIntact

\* The entry after a packet has been recorded.
Recorded(p) ==
    [Entry(p) EXCEPT !.got = IF Known(Entry(p), p) THEN @ ELSE @ \cup {p}]

\* Recording a packet keeps the entry good.
LEMMA RecordedIsGood ==
    ASSUME SendInv, RecvInv, NEW p \in net
    PROVE  LET M == IF Mixes(Entry(p), p) THEN mixed \cup {p.gidx} ELSE mixed
               f == Recorded(p)
           IN  /\ GoodEntry(p.gidx, f, seen \cup {p}, M)
               /\ f.got # {}
               /\ f.total = Entry(p).total
               /\ f.got = IF Known(Entry(p), p) THEN Entry(p).got ELSE Entry(p).got \cup {p}
               /\ p.gidx \notin M => /\ p \in f.got
                                     /\ f.got \subseteq Group(p) /\ f.total = p.chunks
<1>. DEFINE e == Entry(p)
            M == IF Mixes(e, p) THEN mixed \cup {p.gidx} ELSE mixed
            got == IF Known(e, p) THEN e.got ELSE e.got \cup {p}
            f == Recorded(p)
<1>1. p \in Packet /\ p.chunks \in Nat /\ \A q \in seen : q \in Packet /\ Coherent(p, q) /\ Coherent(q, p)
  BY DEF SendInv, RecvInv, Out, Packet
<1>2. /\ GoodEntry(p.gidx, e, seen, mixed)
      /\ e.got = {} => e.total = p.chunks
  <2>1. CASE p.gidx \in DOMAIN cache
    BY <2>1, Zenon DEF Entry, RecvInv
  <2>2. CASE p.gidx \notin DOMAIN cache
    <3>1. e = [total |-> p.chunks, got |-> {}]
      BY <2>2, Zenon DEF Entry
    <3>. QED
      BY <3>1, <1>1, FS_EmptySet DEF GoodEntry
  <2>. QED
    BY <2>1, <2>2, Zenon
<1>. HIDE DEF e
<1>3. f = [total |-> e.total, got |-> got]
  BY <1>2 DEF Recorded, GoodEntry, e
<1>4. got \subseteq seen \cup {p} /\ e.total \in Nat
  BY <1>2, Zenon DEF GoodEntry
<1>5. IsFiniteSet(got)
  BY <1>2, FS_AddElement, Zenon DEF GoodEntry
<1>6. /\ \A q, r \in got : q.pidx = r.pidx => q = r
      /\ \A q \in got : q.gidx = p.gidx
  BY <1>2, Zenon DEF GoodEntry, Known
<1>7. ASSUME p.gidx \notin M
      PROVE  /\ \A q \in got : Message(q) = Message(p) /\ q \in Group(p) /\ q.chunks = p.chunks
             /\ e.total = p.chunks
             /\ p \in got
  <2>1. p.gidx \notin mixed /\ \A q \in e.got : Message(q) = Message(p)
    BY <1>7, Zenon DEF Mixes
  <2>2. \A q \in e.got : q \in seen
    BY <1>2, Zenon DEF GoodEntry
  <2>3. \A q \in e.got : q \in Group(p)
    BY <2>1, <2>2, <1>1, Zenon DEF Coherent
  <2>4. \A q \in e.got : q.chunks = p.chunks
    BY <2>2, <2>3, <1>1, GroupMember, Zenon
  <2>5. e.total = p.chunks
    BY <2>1, <2>4, <1>2, Zenon DEF GoodEntry
  <2>6. p \in Group(p)
    BY <1>1, GroupMember, Zenon DEF SendInv, Out
  <2>7. Known(e, p) => p \in e.got
    <3>. SUFFICES ASSUME NEW q \in e.got, q.pidx = p.pidx PROVE p = q
      BY DEF Known
    <3>1. q.src = p.src /\ q.run = p.run
      BY <2>1 DEF Message
    <3>. QED
      BY <3>1, <2>2, <1>1, Zenon DEF Coherent
  <2>. QED
    BY <2>1, <2>3, <2>4, <2>5, <2>6, <2>7, Zenon
<1>8. got # {}
  BY DEF Known
<1>. HIDE DEF got, M
<1>9. GoodEntry(p.gidx, f, seen \cup {p}, M)
  <2>1. f.got = got /\ f.total = e.total /\ f \in [total : Nat, got : SUBSET (seen \cup {p})]
    BY <1>3, <1>4
  <2>. QED
    BY <2>1, <1>5, <1>6, <1>7, Zenon DEF GoodEntry
<1>10. f.got = got /\ f.total = e.total
  BY <1>3
<1>11. p.gidx \notin M => p \in f.got /\ f.got \subseteq Group(p) /\ f.total = p.chunks
  BY <1>7, <1>10, Zenon
<1>. QED
  BY <1>8, <1>9, <1>10, <1>11, Zenon DEF M, got, e

\* An entry stays good as more packets arrive.
LEMMA GoodEntryGrows ==
    ASSUME NEW h, NEW e, NEW S, NEW T, NEW M, NEW N,
           GoodEntry(h, e, S, M), S \subseteq T, M \subseteq N
    PROVE  GoodEntry(h, e, T, N)
<1>1. e \in [total : Nat, got : SUBSET T]
  BY Zenon DEF GoodEntry
<1>. QED
  BY <1>1 DEF GoodEntry

\* payload.recv keeps the invariant: a packet completes its message, waits for the
\* rest, or was there before.
LEMMA ReceiveKeeps ==
    ASSUME SendInv, RecvInv, NEW p \in net, Receive(p)
    PROVE  RecvInv'
<1>. DEFINE e == Entry(p)
            f == Recorded(p)
            g == p.gidx
            done == ~ Known(e, p) /\ Complete(e, f.got)
<1>1. /\ GoodEntry(g, f, seen', mixed') /\ f.got # {} /\ f.total = e.total
      /\ f.got = IF Known(e, p) THEN e.got ELSE e.got \cup {p}
      /\ g \notin mixed' => p \in f.got /\ f.got \subseteq Group(p) /\ f.total = p.chunks
  BY RecordedIsGood, Zenon DEF Receive
<1>2. /\ seen' = seen \cup {p} /\ mixed \subseteq mixed' /\ mixed' \subseteq mixed \cup {g}
      /\ UNCHANGED <<net, crashes>>
      /\ acks' = acks \cup {<<p.src, p.pidx>>}
  BY DEF Receive
<1>3. \/ done /\ handled' = handled \cup {f.got} /\ cache' \in {Cached(g, f), Uncached(g)}
      \/ ~ done /\ handled' = handled /\ cache' = Cached(g, f)
  <2>1. f = [e EXCEPT !.got = IF Known(e, p) THEN e.got ELSE e.got \cup {p}]
    BY DEF Recorded
  <2>. QED
    BY <2>1, <1>1, Zenon DEF Receive
<1>4. p \in Packet /\ g \in Nat /\ p.src \in Senders /\ p.pidx \in Nat
  BY DEF SendInv, Out, Packet
<1>5. g \in DOMAIN cache => e = cache[g]
  BY Zenon DEF Entry
<1>f. /\ g \in DOMAIN cache' => cache'[g] = f
      /\ \A h \in DOMAIN cache' \ {g} : h \in DOMAIN cache /\ cache'[h] = cache[h]
      /\ \A h \in DOMAIN cache \ {g} : h \in DOMAIN cache'
      /\ ~ done => g \in DOMAIN cache'
  BY <1>3, Zenon DEF Cached, Uncached
<1>. HIDE DEF f, e, g
<1>6. ASSUME g \notin mixed'
      PROVE  /\ done => f.got = Group(p)
             /\ ~ Known(e, p) /\ ~ done => Cardinality(f.got) < f.total
  <2>1. IsFiniteSet(Group(p)) /\ Cardinality(Group(p)) = p.chunks
    BY <1>4, GroupSize, Zenon
  <2>2. f.got \in SUBSET Group(p) /\ f.total = p.chunks
    BY <1>1, <1>6, Zenon
  <2>3. /\ Cardinality(f.got) <= p.chunks
        /\ Cardinality(f.got) = p.chunks => f.got = Group(p)
    BY <2>1, <2>2, FS_Subset, Zenon
  <2>4. Cardinality(f.got) \in Nat /\ p.chunks \in Nat
    BY <1>1, <1>4, FS_CardinalityType, Zenon DEF GoodEntry, Packet
  <2>. QED
    BY <2>2, <2>3, <2>4, <1>1 DEF Complete
<1>7. \A h \in DOMAIN cache' : cache'[h].got # {} /\ GoodEntry(h, cache'[h], seen', mixed')
  <2>. SUFFICES ASSUME NEW h \in DOMAIN cache'
                PROVE  cache'[h].got # {} /\ GoodEntry(h, cache'[h], seen', mixed')
    BY Zenon
  <2>1. CASE h = g
    BY <2>1, <1>1, <1>f, Zenon
  <2>2. CASE h # g
    <3>1. h \in DOMAIN cache /\ cache'[h] = cache[h]
      BY <2>2, <1>f, Zenon
    <3>2. cache[h].got # {} /\ GoodEntry(h, cache[h], seen, mixed)
      BY <3>1, Zenon DEF RecvInv
    <3>. QED
      BY <3>1, <3>2, <1>2, GoodEntryGrows, Zenon
  <2>. QED
    BY <2>1, <2>2, Zenon
<1>8. ASSUME NEW q \in seen', q.gidx \notin mixed'
      PROVE  Group(q) \in handled' \/ Waiting(q, cache')
  <2>1. CASE q.gidx # g
    <3>1. q \in seen /\ q.gidx \notin mixed
      BY <2>1, <1>2, <1>8, Zenon DEF g
    <3>2. Group(q) \in handled \/ Waiting(q, cache)
      BY <3>1, Zenon DEF RecvInv
    <3>3. CASE Group(q) \in handled
      BY <3>3, <1>3, Zenon
    <3>4. CASE Waiting(q, cache)
      BY <3>4, <2>1, <1>f, Zenon DEF Waiting
    <3>. QED
      BY <3>2, <3>3, <3>4, Zenon
  <2>2. CASE q.gidx = g
    <3>1. q \in seen => Group(q) \in handled \/ (Waiting(q, cache) /\ q \in e.got
                                                /\ Cardinality(e.got) < e.total)
      <4>1. q \in seen => Group(q) \in handled \/ Waiting(q, cache)
        BY <1>2, <1>8, Zenon DEF RecvInv
      <4>. QED
        BY <4>1, <1>5, <2>2, Zenon DEF Waiting
    <3>2. Group(q) \in handled \/ q \in f.got
      BY <3>1, <1>1, <1>2, <1>8, <2>2, Zenon
    <3>3. CASE q \in f.got
      <4>1. q \in Group(p) /\ q \in Packet /\ p.off < p.chunks
        BY <3>3, <1>1, <1>2, <1>8, <2>2, Zenon DEF SendInv, RecvInv, Out
      <4>2. Group(q) = Group(p)
        BY <4>1, <1>4, SameGroup, Zenon
      <4>3. CASE done
        BY <4>2, <4>3, <1>3, <1>6, <1>8, <2>2, Zenon
      <4>4. CASE ~ done /\ ~ Known(e, p)
        BY <4>4, <3>3, <1>6, <1>f, <1>8, <2>2, Zenon DEF Waiting
      <4>5. CASE ~ done /\ Known(e, p)
        <5>1. q \in e.got /\ f.got = e.got /\ f.total = e.total
          BY <4>5, <3>3, <1>1, Zenon
        <5>2. e.got \subseteq seen
          <6>1. g \in DOMAIN cache
            BY <5>1, Zenon DEF Entry, e, g
          <6>. QED
            BY <6>1, <1>5, Zenon DEF RecvInv, GoodEntry
        <5>3. Group(q) \in handled \/ Cardinality(f.got) < f.total
          BY <5>1, <5>2, <3>1, Zenon
        <5>. QED
          BY <5>3, <4>5, <3>3, <1>3, <1>f, <2>2, Zenon DEF Waiting
      <4>. QED
        BY <4>3, <4>4, <4>5, Zenon
    <3>. QED
      BY <3>2, <3>3, <1>3, Zenon
  <2>. QED
    BY <2>1, <2>2, Zenon
<1>9. HandledIntact'
  <2>. SUFFICES ASSUME NEW h \in handled', NEW q \in h, q.gidx \notin mixed'
                PROVE  h = Group(q)
    BY DEF HandledIntact
  <2>1. CASE h \in handled
    BY <2>1, <1>2, Zenon DEF RecvInv, HandledIntact
  <2>2. CASE done /\ h = f.got
    <3>1. q.gidx = g
      BY <2>2, <1>1, Zenon DEF GoodEntry
    <3>2. h = Group(p)
      BY <3>1, <2>2, <1>6, Zenon
    <3>3. q \in Packet /\ p.off < p.chunks
      BY <2>2, <1>1, <1>2, <1>4, Zenon DEF SendInv, RecvInv, GoodEntry, Out
    <3>. QED
      BY <3>2, <3>3, <1>4, SameGroup, Zenon
  <2>. QED
    BY <2>1, <2>2, <1>3, Zenon
<1>10. /\ seen' \subseteq net' /\ acks' \subseteq Senders \X Nat /\ handled' \subseteq SUBSET seen'
       /\ mixed' \subseteq Nat /\ crashes' \in 0 .. MaxCrashes
  <2>1. f.got \subseteq seen'
    BY <1>1, Zenon DEF GoodEntry
  <2>2. seen' \subseteq net' /\ mixed' \subseteq Nat /\ crashes' \in 0 .. MaxCrashes
    BY <1>2, <1>4 DEF RecvInv
  <2>3. acks' \subseteq Senders \X Nat
    BY <1>2, <1>4, SMTT(30) DEF RecvInv
  <2>4. handled' \subseteq SUBSET seen'
    BY <2>1, <1>2, <1>3 DEF RecvInv
  <2>. QED
    BY <2>2, <2>3, <2>4, Zenon
<1>. QED
  BY <1>7, <1>8, <1>9, <1>10, Zenon DEF RecvInv

\* Every step keeps what the receiver keeps.
LEMMA NextRecvInv == SendInv /\ RecvInv /\ [TransportNext]_transportVars => RecvInv'
<1>. SUFFICES ASSUME SendInv, RecvInv, [TransportNext]_transportVars PROVE RecvInv'
  OBVIOUS
<1>1. ASSUME NEW p \in net, Receive(p) PROVE RecvInv'
  BY <1>1, ReceiveKeeps, Zenon
<1>2. ASSUME Crash PROVE RecvInv'
  <2>1. /\ seen' = {} /\ handled' = {} /\ mixed' = {} /\ DOMAIN cache' = {}
        /\ net' = net /\ acks' = acks
    BY <1>2 DEF Crash
  <2>2. crashes' \in 0 .. MaxCrashes
    BY <1>2, TransportAssumption DEF Crash, RecvInv
  <2>3. acks' \subseteq Senders \X Nat
    BY <2>1, Zenon DEF RecvInv
  <2>. QED
    BY <2>1, <2>2, <2>3, Zenon DEF RecvInv, HandledIntact
<1>3. ASSUME net \subseteq net', UNCHANGED <<acks, recvvars>> PROVE RecvInv'
  BY <1>3, Zenon DEF RecvInv, recvvars, HandledIntact
<1>4. ASSUME NEW s \in Senders, Send(s) \/ SendElsewhere(s) \/ Restart(s)
      PROVE  net \subseteq net' /\ UNCHANGED <<acks, recvvars>>
  BY <1>4, Zenon DEF Send, SendElsewhere, Restart
<1>5. ASSUME NEW p \in DOMAIN pending, Transmit(p) \/ GiveUp(p)
      PROVE  net \subseteq net' /\ UNCHANGED <<acks, recvvars>>
  <2>1. UNCHANGED <<acks, recvvars>>
    BY <1>5, Zenon DEF Transmit, GiveUp
  <2>2. net \subseteq net'
    BY <1>5 DEF Transmit, GiveUp
  <2>. QED
    BY <2>1, <2>2, Zenon
<1>6. ASSUME NEW a \in acks, ReadAck(a)
      PROVE  net \subseteq net' /\ UNCHANGED <<acks, recvvars>>
  BY <1>6, Zenon DEF ReadAck
<1>7. UNCHANGED transportVars => net \subseteq net' /\ UNCHANGED <<acks, recvvars>>
  BY DEF transportVars
<1>. QED
  BY <1>1, <1>2, <1>3, <1>4, <1>5, <1>6, <1>7, Zenon DEF TransportNext

(***************************************************************************)
(* The theorems.                                                           *)
(***************************************************************************)
\* Both invariants hold throughout.
LEMMA Invariants == TransportSpec => [](SendInv /\ RecvInv)
<1>1. TransportInit => SendInv /\ RecvInv
  BY InitSendInv, InitRecvInv, Zenon
<1>2. SendInv /\ RecvInv /\ [TransportNext]_transportVars => (SendInv /\ RecvInv)'
  BY NextSendInv, NextRecvInv, Zenon
<1>. QED
  BY <1>1, <1>2, PTL DEF TransportSpec

\* Queue, cache and histories keep their types.
THEOREM TransportTypeCorrect == TransportSpec => []TypeOK
<1>1. SendInv /\ RecvInv => TypeOK
  <2>. SUFFICES ASSUME SendInv, RecvInv PROVE TypeOK
    BY Zenon
  <2>1. ASSUME NEW g \in DOMAIN cache
        PROVE  /\ cache[g].total \in Nat
               /\ cache[g].got \in SUBSET seen
               /\ \A p, q \in cache[g].got : p.pidx = q.pidx => p = q
    BY DEF RecvInv, GoodEntry
  <2>. QED
    BY <2>1, Zenon DEF TypeOK, SendInv, RecvInv, Out
<1>. QED
  BY <1>1, Invariants, PTL

\* Handlers are given exactly the packets of one message.
THEOREM MessagesAreIntact == TransportSpec => []HandledIntact
<1>1. RecvInv => HandledIntact
  BY Zenon DEF RecvInv
<1>. QED
  BY <1>1, Invariants, PTL

\* A message all of whose packets have arrived has been handled.
LEMMA AllArrived == SendInv /\ RecvInv => CompleteIsHandled
<1>. SUFFICES ASSUME SendInv, RecvInv, NEW p \in seen, Group(p) \subseteq seen,
                     p.gidx \notin mixed, Group(p) \notin handled
              PROVE  FALSE
  BY Zenon DEF CompleteIsHandled
<1>. DEFINE e == cache[p.gidx]
<1>1. p \in Packet /\ p.off < p.chunks /\ seen \subseteq Packet
  BY Zenon DEF SendInv, RecvInv, Out
<1>2. p \in Group(p)
  BY <1>1, GroupMember, Zenon
<1>3. Waiting(p, cache)
  BY Zenon DEF RecvInv
<1>4. GoodEntry(p.gidx, e, seen, mixed)
  BY <1>3, Zenon DEF RecvInv, Waiting
<1>5. ASSUME NEW q \in Group(p) PROVE q \in e.got
  <2>1. q \in Packet /\ q \in seen
    BY <1>1, Zenon
  <2>2. q.gidx = p.gidx /\ Group(q) = Group(p)
    BY <2>1, <1>1, GroupMember, SameGroup, Zenon DEF Message
  <2>3. q.gidx \in mixed \/ Group(q) \in handled \/ Waiting(q, cache)
    BY <2>1, Zenon DEF RecvInv
  <2>. QED
    BY <2>2, <2>3, Zenon DEF Waiting
<1>6. IsFiniteSet(e.got) /\ e.total = p.chunks
  BY <1>3, <1>4, Zenon DEF GoodEntry, Waiting
<1>7. Cardinality(Group(p)) = p.chunks
  BY <1>1, GroupSize, Zenon
<1>8. Cardinality(Group(p)) <= Cardinality(e.got)
  <2>1. Group(p) \in SUBSET e.got
    BY <1>5, Zenon
  <2>. QED
    BY <2>1, <1>6, FS_Subset, Zenon
<1>9. Cardinality(e.got) < e.total
  BY <1>3, Zenon DEF Waiting
<1>10. Cardinality(e.got) \in Nat /\ p.chunks \in Nat
  BY <1>1, <1>6, FS_CardinalityType, Zenon DEF Packet
<1>. QED
  BY <1>6, <1>7, <1>8, <1>9, <1>10

\* No order of arrivals, repetitions or handler failures strands a complete message.
THEOREM ArrivedIsHandled == TransportSpec => []CompleteIsHandled
  BY AllArrived, Invariants, PTL

\* Without a restart, an ACK tells of an arrival.
AckInv ==
    crashes = 0 =>
        /\ \A a \in acks : \E q \in seen : q.src = a[1] /\ q.pidx = a[2]
        /\ \A p \in acked : p.run = 0 => p \in seen

\* Every step keeps it: the number an ACK carries belongs to the packet that arrived.
LEMMA NextAckInv == SendInv /\ RecvInv /\ AckInv /\ [TransportNext]_transportVars => AckInv'
<1>. SUFFICES ASSUME SendInv, RecvInv, AckInv, [TransportNext]_transportVars PROVE AckInv'
  BY Zenon
<1>1. ASSUME NEW p \in net, Receive(p) PROVE AckInv'
  <2>1. /\ acks' = acks \cup {<<p.src, p.pidx>>} /\ seen' = seen \cup {p}
        /\ UNCHANGED <<acked, crashes>>
    BY <1>1, Zenon DEF Receive
  <2>. QED
    BY <2>1 DEF AckInv
<1>2. ASSUME Crash PROVE AckInv'
  <2>1. crashes' # 0
    BY <1>2 DEF Crash, RecvInv
  <2>. QED
    BY <2>1, Zenon DEF AckInv
<1>3. ASSUME NEW a \in acks, ReadAck(a) PROVE AckInv'
  <2>1. /\ acked' = acked \cup {r \in DOMAIN pending : r.src = a[1] /\ r.pidx = a[2]}
        /\ UNCHANGED <<acks, seen, crashes>>
    BY <1>3, Zenon DEF ReadAck, recvvars
  <2>2. ASSUME crashes = 0, NEW p \in DOMAIN pending, p.src = a[1], p.pidx = a[2], p.run = 0
        PROVE  p \in seen
    <3>1. PICK q \in seen : q.src = a[1] /\ q.pidx = a[2]
      BY <2>2, Zenon DEF AckInv
    <3>2. p \in Out /\ q \in Out /\ q \in Packet /\ p \in Packet
      BY Zenon DEF Out, SendInv, RecvInv
    <3>3. q.run <= run[q.src] /\ run[p.src] = 0 /\ q.run \in Nat
      BY <2>2, <3>2, Zenon DEF SendInv, Past, Packet
    <3>4. q.run = p.run
      BY <2>2, <3>1, <3>3
    <3>. QED
      BY <2>2, <3>1, <3>2, <3>4, Zenon DEF SendInv, Coherent
  <2>. QED
    BY <2>1, <2>2, Zenon DEF AckInv
<1>4. ASSUME UNCHANGED <<acks, acked, seen, crashes>> PROVE AckInv'
  BY <1>4, Zenon DEF AckInv
<1>5. ASSUME NEW s \in Senders, Send(s) \/ SendElsewhere(s) \/ Restart(s)
      PROVE  UNCHANGED <<acks, acked, seen, crashes>>
  BY <1>5, Zenon DEF Send, SendElsewhere, Restart, recvvars
<1>6. ASSUME NEW p \in DOMAIN pending, Transmit(p) \/ GiveUp(p)
      PROVE  UNCHANGED <<acks, acked, seen, crashes>>
  BY <1>6, Zenon DEF Transmit, GiveUp, recvvars
<1>7. UNCHANGED transportVars => UNCHANGED <<acks, acked, seen, crashes>>
  BY DEF transportVars, recvvars
<1>. QED
  BY <1>1, <1>2, <1>3, <1>4, <1>5, <1>6, <1>7, Zenon DEF TransportNext

\* A message whose packets were all acknowledged has been handled.
THEOREM AcknowledgedIsHandled == TransportSpec => []AckedIsHandled
<1>1. TransportInit => AckInv
  BY DEF TransportInit, AckInv
<1>2. TransportSpec => []AckInv
  BY <1>1, NextAckInv, Invariants, PTL DEF TransportSpec
<1>3. AckInv /\ SendInv /\ CompleteIsHandled => AckedIsHandled
  <2>. SUFFICES ASSUME AckInv, SendInv, CompleteIsHandled, NEW p \in acked, p.run = 0,
                       crashes = 0, Group(p) \subseteq acked
                PROVE  p.gidx \in mixed \/ Group(p) \in handled
    BY Zenon DEF AckedIsHandled
  <2>1. p \in Packet /\ \A q \in Group(p) : q \in Packet
    BY DEF SendInv, Out
  <2>2. \A q \in Group(p) : q.run = 0
    BY <2>1, GroupMember, Zenon DEF Message
  <2>3. p \in seen /\ Group(p) \subseteq seen
    BY <2>2 DEF AckInv
  <2>. QED
    BY <2>3, Zenon DEF CompleteIsHandled
<1>. QED
  BY <1>2, <1>3, Invariants, ArrivedIsHandled, PTL

==============================================================================
