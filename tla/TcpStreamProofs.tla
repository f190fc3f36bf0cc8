--------------------------- MODULE TcpStreamProofs ---------------------------
(***************************************************************************)
(* Proofs about TcpStream, for all values of its constants.                *)
(***************************************************************************)
EXTENDS TcpStream, TLAPS, WellFoundedInduction

(***************************************************************************)
(* Dispatching a queue.                                                    *)
(***************************************************************************)
\* A non-empty set of naturals has a least element.
LEMMA LeastExists ==
    ASSUME NEW S \in SUBSET Nat, S # {}
    PROVE  \E n \in S : \A j \in S : n <= j
<1>1. IsWellFoundedOn(OpToRel(<, Nat), Nat)
  BY NatLessThanWellFounded, Zenon
<1>2. PICK n \in S : \A j \in S : ~(<<j, n>> \in OpToRel(<, Nat))
  BY <1>1, WFMin, Zenon
<1>3. ASSUME NEW j \in S, j < n PROVE FALSE
  <2>1. <<j, n>> \in OpToRel(<, Nat)
    BY <1>3 DEF OpToRel
  <2>. QED
    BY <1>2, <2>1, Zenon
<1>. QED
  BY <1>3

\* tcpdispatch stops at the first number that does not wait, if the numbers that
\* wait are bounded.
LEMMA ReachStops ==
    ASSUME NEW S \in SUBSET Nat, NEW l \in Nat, NEW m \in Nat, \A n \in S : n <= m
    PROVE  /\ Reach(S, l) \in S \cup {l} /\ Reach(S, l) \in Nat /\ Reach(S, l) >= l
           /\ (l + 1) .. Reach(S, l) \subseteq S
           /\ (Reach(S, l) + 1) \notin S
<1>. DEFINE K == {n \in Nat : n >= l /\ (n + 1) \notin S}
<1>1. l + m \in K
  <2>1. (l + m + 1) \notin S
    OBVIOUS
  <2>. QED
    BY <2>1
<1>2. PICK n \in K : \A j \in K : n <= j
  <2>1. K \in SUBSET Nat /\ K # {}
    BY <1>1
  <2>. HIDE DEF K
  <2>. QED
    BY <2>1, LeastExists
<1>3. ASSUME NEW j \in (l + 1) .. n PROVE j \in S
  <2>1. j - 1 \in Nat /\ j - 1 >= l /\ ~(n <= j - 1) /\ (j - 1) + 1 = j
    BY <1>2
  <2>2. j - 1 \notin K
    BY <1>2, <2>1
  <2>. QED
    BY <2>1, <2>2
<1>4. n \in S \cup {l}
  <2>1. CASE n = l
    BY <2>1
  <2>2. CASE n # l
    <3>1. n \in (l + 1) .. n
      BY <2>2, <1>2
    <3>. QED
      BY <3>1, <1>3
  <2>. QED
    BY <2>1, <2>2
<1>5. \E k \in S \cup {l} : k >= l /\ (l + 1) .. k \subseteq S /\ (k + 1) \notin S
  BY <1>2, <1>3, <1>4
<1>. QED
  BY <1>5, Zenon DEF Reach

\* queue_add: the new part is in the queue, and all others but perhaps the oldest.
LEMMA QueuedHolds ==
    ASSUME NEW c \in Conns, IsQueue(c), NEW p \in Part, p.tidx \notin Numbers(c.queue),
           QueueSize \in Nat \ {0}
    PROVE  /\ Queued(c, p) \in Conns /\ IsQueue(Queued(c, p))
           /\ Queued(c, p).id = c.id /\ Queued(c, p).last = c.last
           /\ Queued(c, p).queue # <<>> /\ Head(Queued(c, p).queue) = p
           /\ p.tidx \in Numbers(Queued(c, p).queue)
           /\ Numbers(Queued(c, p).queue) \subseteq Numbers(c.queue) \cup {p.tidx}
           /\ \A n \in Numbers(c.queue) :
                  \/ n \in Numbers(Queued(c, p).queue)
                  \/ Len(c.queue) >= QueueSize /\ n = Oldest(c).tidx
           /\ \A i \in DOMAIN Queued(c, p).queue :
                  Queued(c, p).queue[i] = p \/ \E j \in DOMAIN c.queue : Queued(c, p).queue[i] = c.queue[j]
<1>. DEFINE full == Len(c.queue) >= QueueSize
            kept == IF full THEN SubSeq(c.queue, 1, Len(c.queue) - 1) ELSE c.queue
            q == <<p>> \o kept
            done == IF full THEN c.done \ {Oldest(c).tidx} ELSE c.done
<1>1. Queued(c, p) = [c EXCEPT !.queue = q, !.done = done]
  BY DEF Queued
<1>2. c.queue \in Seq(Part) /\ Len(c.queue) \in Nat /\ c.done \in SUBSET Nat
  BY DEF Conns
<1>3. /\ kept \in Seq(Part) /\ Len(kept) < QueueSize /\ Len(kept) <= Len(c.queue)
      /\ \A i \in 1 .. Len(kept) : kept[i] = c.queue[i]
      /\ Len(kept) # Len(c.queue) => full /\ Len(kept) = Len(c.queue) - 1
  BY <1>2 DEF IsQueue
<1>. HIDE DEF kept
<1>4. /\ q \in Seq(Part) /\ Len(q) = Len(kept) + 1 /\ q[1] = p
      /\ \A i \in 1 .. Len(kept) : q[i + 1] = c.queue[i]
      /\ DOMAIN q = 1 .. Len(kept) + 1
  BY <1>3
<1>. HIDE DEF q
<1>5. /\ q # <<>> /\ Head(q) = p /\ p.tidx \in Numbers(q)
      /\ Numbers(q) \subseteq Numbers(c.queue) \cup {p.tidx}
      /\ \A i \in DOMAIN q : q[i] = p \/ \E j \in DOMAIN c.queue : q[i] = c.queue[j]
  <2>1. \A i \in DOMAIN q : i = 1 \/ (i - 1 \in 1 .. Len(kept) /\ i - 1 \in DOMAIN c.queue /\ q[i] = c.queue[i - 1])
    BY <1>2, <1>3, <1>4
  <2>2. 1 \in DOMAIN q
    BY <1>4, <1>3
  <2>3. q # <<>> /\ Head(q) = p
    BY <1>4, <1>3
  <2>. QED
    BY <2>1, <2>2, <2>3, <1>4 DEF Numbers
<1>6. ASSUME NEW n \in Numbers(c.queue)
      PROVE  n \in Numbers(q) \/ (full /\ n = Oldest(c).tidx)
  <2>1. PICK i \in DOMAIN c.queue : n = c.queue[i].tidx
    BY DEF Numbers
  <2>2. CASE i \in 1 .. Len(kept)
    <3>1. i + 1 \in DOMAIN q /\ q[i + 1].tidx = n
      BY <2>1, <2>2, <1>3, <1>4
    <3>. QED
      BY <3>1 DEF Numbers
  <2>3. CASE i \notin 1 .. Len(kept)
    BY <2>1, <2>3, <1>2, <1>3 DEF Oldest
  <2>. QED
    BY <2>2, <2>3
<1>7. ASSUME NEW i \in DOMAIN q, NEW j \in DOMAIN q, q[i].tidx = q[j].tidx PROVE i = j
  <2>1. \A k \in 1 .. Len(kept) : k \in DOMAIN c.queue /\ q[k + 1].tidx \in Numbers(c.queue)
    BY <1>2, <1>3, <1>4 DEF Numbers
  <2>2. CASE i = 1 \/ j = 1
    <3>1. \A k \in DOMAIN q : k # 1 => q[k].tidx # p.tidx
      <4>1. ASSUME NEW k \in DOMAIN q, k # 1 PROVE q[k].tidx # p.tidx
        <5>1. k - 1 \in 1 .. Len(kept) /\ (k - 1) + 1 = k
          BY <4>1, <1>3, <1>4
        <5>. QED
          BY <5>1, <2>1
      <4>. QED
        BY <4>1
    <3>. QED
      BY <3>1, <2>2, <1>7, <1>4
  <2>3. CASE i # 1 /\ j # 1
    <3>1. /\ i - 1 \in 1 .. Len(kept) /\ j - 1 \in 1 .. Len(kept)
          /\ (i - 1) + 1 = i /\ (j - 1) + 1 = j
      BY <2>3, <1>3, <1>4
    <3>2. c.queue[i - 1].tidx = c.queue[j - 1].tidx /\ i - 1 \in DOMAIN c.queue /\ j - 1 \in DOMAIN c.queue
      BY <3>1, <1>4, <1>7, <2>1
    <3>3. i - 1 = j - 1
      BY <3>2 DEF IsQueue
    <3>. QED
      BY <3>1, <3>3
  <2>. QED
    BY <2>2, <2>3
<1>8. done \subseteq Numbers(q) /\ (\A n \in done : n <= c.last) /\ done \in SUBSET Nat
  BY <1>2, <1>6 DEF IsQueue
<1>. HIDE DEF done
<1>9. /\ Queued(c, p).queue = q /\ Queued(c, p).done = done /\ Queued(c, p).id = c.id
      /\ Queued(c, p).last = c.last /\ Queued(c, p) \in Conns
  BY <1>1, <1>4, <1>8, Zenon DEF Conns
<1>10. Len(q) <= QueueSize
  BY <1>3, <1>4
<1>11. IsQueue(Queued(c, p))
  BY <1>7, <1>8, <1>9, <1>10, Zenon DEF IsQueue
<1>. QED
  BY <1>5, <1>6, <1>9, <1>11

(***************************************************************************)
(* One connection and its log entry.                                       *)
(***************************************************************************)
Consecutive(out) == \A k \in 1 .. Len(out) - 1 : out[k + 1].tidx = out[k].tidx + 1

\* The entry ends with the last part passed on, what has arrived since waits in the
\* queue or was dropped, and the next part does not wait.
Linked(c, l) ==
    /\ c.last = 0 => c.queue = <<>> /\ l.out = <<>> /\ l.arrived = {}
    /\ c.last # 0 => l.out # <<>> /\ l.out[Len(l.out)].tidx = c.last
    /\ \A n \in l.arrived : n > c.last => n \in Numbers(c.queue) \/ l.lost
    /\ (c.last + 1) \notin Numbers(c.queue)

\* Consecutive sequences that follow each other are consecutive.
LEMMA ConsecutiveConcat ==
    ASSUME NEW s \in Seq(Part), NEW t \in Seq(Part), Consecutive(s), NEW b \in Nat,
           s = <<>> \/ s[Len(s)].tidx = b, t # <<>> \/ s # <<>>,
           \A k \in 1 .. Len(t) : t[k].tidx = b + k
    PROVE  /\ s \o t \in Seq(Part) /\ s \o t # <<>> /\ Consecutive(s \o t)
           /\ (s \o t)[Len(s \o t)].tidx = b + Len(t)
<1>. DEFINE u == s \o t
<1>1. /\ Len(s) \in Nat /\ Len(t) \in Nat /\ u \in Seq(Part) /\ Len(u) = Len(s) + Len(t)
      /\ \A k \in 1 .. Len(s) : u[k] = s[k]
      /\ \A k \in 1 .. Len(t) : u[Len(s) + k] = t[k]
      /\ Len(u) > 0
  OBVIOUS
<1>. HIDE DEF u
<1>2. ASSUME NEW k \in 1 .. Len(u) - 1 PROVE u[k + 1].tidx = u[k].tidx + 1
  <2>1. CASE k + 1 <= Len(s)
    <3>1. k \in 1 .. Len(s) - 1 /\ k \in 1 .. Len(s) /\ k + 1 \in 1 .. Len(s)
      BY <2>1, <1>1
    <3>. QED
      BY <3>1, <1>1, Zenon DEF Consecutive
  <2>2. CASE k = Len(s)
    <3>1. k \in 1 .. Len(s) /\ s # <<>> /\ 1 \in 1 .. Len(t) /\ u[k + 1] = t[1] /\ u[k] = s[k]
      BY <2>2, <1>1
    <3>. QED
      BY <3>1, <2>2
  <2>3. CASE k > Len(s)
    <3>. DEFINE j == k - Len(s)
    <3>1. j \in 1 .. Len(t) /\ j + 1 \in 1 .. Len(t) /\ k = Len(s) + j /\ k + 1 = Len(s) + (j + 1)
      BY <2>3, <1>1
    <3>. HIDE DEF j
    <3>2. u[k] = t[j] /\ u[k + 1] = t[j + 1]
      BY <3>1, <1>1
    <3>3. t[j].tidx = b + j /\ t[j + 1].tidx = b + (j + 1) /\ j \in Nat
      BY <3>1
    <3>. QED
      BY <3>2, <3>3
  <2>. QED
    BY <2>1, <2>2, <2>3, <1>1
<1>3. u[Len(u)].tidx = b + Len(t)
  <2>1. CASE t = <<>>
    BY <2>1, <1>1
  <2>2. CASE t # <<>>
    <3>1. Len(t) \in 1 .. Len(t)
      BY <2>2, <1>1
    <3>. QED
      BY <3>1, <1>1, Zenon
  <2>. QED
    BY <2>1, <2>2
<1>. QED
  BY <1>1, <1>2, <1>3, SMTT(40) DEF u, Consecutive

\* tcpsend keeps a connection and its entry linked, and what is passed on consecutive.
LEMMA SendKeeps ==
    ASSUME NEW c \in Conns, IsQueue(c), NEW p \in Part, p.tidx \notin Numbers(c.queue),
           QueueSize \in Nat \ {0}, NEW l \in Entries, Linked(c, l), Consecutive(l.out),
           NEW m \in Nat, p.tidx <= m, \A n \in Numbers(c.queue) : n <= m
    PROVE  /\ Dispatched(Queued(c, p)) \in Conns /\ IsQueue(Dispatched(Queued(c, p)))
           /\ Dispatched(Queued(c, p)).id = c.id
           /\ Dispatched(Queued(c, p)).queue = Queued(c, p).queue
           /\ After(l, c, p) \in Entries /\ Consecutive(After(l, c, p).out)
           /\ Linked(Dispatched(Queued(c, p)), After(l, c, p))
           /\ After(l, c, p).out = l.out \o Passed(Queued(c, p)) /\ Passed(Queued(c, p)) \in Seq(Part)
           /\ \A k \in 1 .. Len(Passed(Queued(c, p))) :
                 \E i \in DOMAIN Queued(c, p).queue : Passed(Queued(c, p))[k] = Queued(c, p).queue[i]
<1>. DEFINE g == Queued(c, p)
            S == Numbers(g.queue) \ g.done
            b == Start(g)
            r == Reach(S, b)
            d == Dispatched(g)
            passed == Passed(g)
<1>1. /\ g \in Conns /\ IsQueue(g) /\ g.id = c.id /\ g.last = c.last
      /\ g.queue # <<>> /\ Head(g.queue) = p /\ p.tidx \in Numbers(g.queue)
      /\ Numbers(g.queue) \subseteq Numbers(c.queue) \cup {p.tidx}
      /\ \A n \in Numbers(c.queue) :
            n \in Numbers(g.queue) \/ (Len(c.queue) >= QueueSize /\ n = Oldest(c).tidx)
  BY QueuedHolds, SMTT(40)
<1>2. d = [g EXCEPT !.last = r, !.done = @ \cup ((b + 1) .. r)]
  BY DEF Dispatched
<1>3. passed = [k \in 1 .. d.last - b |-> PartOf(g.queue, b + k)]
  BY DEF Passed
<1>4. /\ After(l, c, p).out = l.out \o passed
      /\ After(l, c, p).arrived = l.arrived \cup {p.tidx}
      /\ After(l, c, p).lost = (l.lost \/ (Len(c.queue) >= QueueSize /\ Oldest(c).tidx > c.last))
      /\ After(l, c, p).read = l.read /\ After(l, c, p).first = l.first /\ After(l, c, p).merged = l.merged
      /\ DOMAIN After(l, c, p) = DOMAIN l
      /\ After(l, c, p) = [l EXCEPT !.out = After(l, c, p).out, !.arrived = After(l, c, p).arrived,
                                    !.lost = After(l, c, p).lost]
  BY DEF After, Entries
<1>5. /\ p.tidx \in Nat \ {0} /\ g.queue \in Seq(Part) /\ g.done \in SUBSET Nat /\ g.last \in Nat
      /\ l.out \in Seq(Part) /\ l.arrived \in SUBSET Nat /\ l.lost \in BOOLEAN
  BY <1>1, SMTT(40) DEF Conns, Part, Entries
<1>6. Numbers(g.queue) \in SUBSET Nat
  <2>. HIDE DEF g
  <2>1. ASSUME NEW i \in DOMAIN g.queue PROVE g.queue[i].tidx \in Nat
    <3>1. g.queue[i] \in Part
      BY <1>5
    <3>. QED
      BY <3>1 DEF Part
  <2>. QED
    BY <2>1 DEF Numbers
<1>7. /\ b \in Nat /\ b >= c.last
      /\ c.last = 0 => b + 1 = p.tidx
      /\ c.last # 0 => b = c.last
  BY <1>1, <1>5, SMTT(40) DEF Start
<1>. HIDE DEF g, b
<1>8. /\ r \in Nat /\ r >= b /\ (b + 1) .. r \subseteq S /\ (r + 1) \notin S
  <2>1. S \in SUBSET Nat /\ \A n \in S : n <= m
    BY <1>1, <1>6
  <2>. HIDE DEF S
  <2>. QED
    BY <2>1, <1>7, ReachStops, Zenon
<1>9. r # 0
  <2>1. CASE c.last # 0
    BY <2>1, <1>5, <1>1, <1>7, <1>8
  <2>2. CASE c.last = 0
    <3>1. p.tidx \in S
      BY <2>2, <1>1, <1>5 DEF IsQueue
    <3>2. b + 1 \in S
      BY <3>1, <2>2, <1>7
    <3>. HIDE DEF S
    <3>. QED
      BY <3>2, <1>7, <1>8
  <2>. QED
    BY <2>1, <2>2
<1>10. (r + 1) \notin Numbers(g.queue)
  <2>1. CASE (r + 1) \in g.done
    <3>1. r + 1 <= g.last
      BY <2>1, <1>1 DEF IsQueue
    <3>. HIDE DEF S, r
    <3>. QED
      BY <3>1, <1>1, <1>5, <1>7, <1>8
  <2>2. CASE (r + 1) \notin g.done
    <3>. HIDE DEF r
    <3>. QED
      BY <2>2, <1>8
  <2>. QED
    BY <2>1, <2>2
<1>11. (b + 1) .. r \subseteq Numbers(g.queue)
  BY <1>8, SMTT(40)
<1>. HIDE DEF S, r
<1>12. /\ d \in Conns /\ d.id = c.id /\ d.queue = g.queue /\ d.last = r
       /\ d.done = g.done \cup ((b + 1) .. r)
  <2>1. (b + 1) .. r \in SUBSET Nat
    BY <1>7, <1>8
  <2>. QED
    BY <1>1, <1>2, <1>5, <1>8, <2>1, Zenon DEF Conns
<1>13. IsQueue(d)
  <2>1. d.done \subseteq Numbers(d.queue)
    BY <1>1, <1>11, <1>12 DEF IsQueue
  <2>2. \A n \in d.done : n <= d.last
    BY <1>1, <1>5, <1>7, <1>8, <1>12 DEF IsQueue
  <2>. QED
    BY <2>1, <2>2, <1>1, <1>12 DEF IsQueue
<1>14. /\ passed \in Seq(Part) /\ Len(passed) = r - b
       /\ \A k \in 1 .. Len(passed) :
             passed[k].tidx = b + k /\ \E i \in DOMAIN g.queue : passed[k] = g.queue[i]
  <2>1. ASSUME NEW k \in 1 .. r - b
        PROVE  /\ PartOf(g.queue, b + k) \in Part /\ PartOf(g.queue, b + k).tidx = b + k
               /\ \E i \in DOMAIN g.queue : PartOf(g.queue, b + k) = g.queue[i]
    <3>1. b + k \in Numbers(g.queue)
      BY <1>7, <1>8, <1>11
    <3>2. \E i \in DOMAIN g.queue : g.queue[i].tidx = b + k
      BY <3>1 DEF Numbers
    <3>3. PICK j \in DOMAIN g.queue : PartOf(g.queue, b + k) = g.queue[j] /\ g.queue[j].tidx = b + k
      BY <3>2, Zenon DEF PartOf
    <3>. QED
      BY <3>3, <1>5
  <2>2. r - b \in Nat
    BY <1>7, <1>8
  <2>3. passed = [k \in 1 .. r - b |-> PartOf(g.queue, b + k)]
    BY <1>3, <1>12
  <2>. HIDE DEF passed
  <2>. QED
    BY <2>1, <2>2, <2>3
<1>. HIDE DEF d, passed
<1>15. /\ l.out \o passed \in Seq(Part) /\ l.out \o passed # <<>> /\ Consecutive(l.out \o passed)
       /\ (l.out \o passed)[Len(l.out \o passed)].tidx = r
  <2>1. l.out = <<>> \/ l.out[Len(l.out)].tidx = b
    BY <1>7 DEF Linked
  <2>2. passed # <<>> \/ l.out # <<>>
    <3>1. CASE c.last # 0
      BY <3>1 DEF Linked
    <3>2. CASE c.last = 0
      <4>1. p.tidx \in Numbers(g.queue) /\ b + 1 \in Numbers(g.queue)
        BY <3>2, <1>1, <1>7
      <4>2. r # b
        BY <4>1, <1>10
      <4>3. Len(passed) # 0
        BY <4>2, <1>7, <1>8, <1>14
      <4>. QED
        BY <4>3
    <3>. QED
      BY <3>1, <3>2
  <2>3. b + Len(passed) = r
    BY <1>7, <1>8, <1>14
  <2>4. passed \in Seq(Part) /\ \A k \in 1 .. Len(passed) : passed[k].tidx = b + k
    BY <1>14
  <2>5. PICK s \in Seq(Part), t \in Seq(Part), n \in Nat : s = l.out /\ t = passed /\ n = b
    BY <2>4, <1>5, <1>7 DEF Entries
  <2>6. Consecutive(s) /\ (s = <<>> \/ s[Len(s)].tidx = n) /\ (t # <<>> \/ s # <<>>)
    BY <2>1, <2>2, <2>5
  <2>7. \A k \in 1 .. Len(t) : t[k].tidx = n + k
    BY <2>4, <2>5
  <2>8. /\ s \o t \in Seq(Part) /\ s \o t # <<>> /\ Consecutive(s \o t)
        /\ (s \o t)[Len(s \o t)].tidx = n + Len(t)
    BY <2>6, <2>7, ConsecutiveConcat, Zenon
  <2>. QED
    BY <2>3, <2>5, <2>8
<1>. DEFINE a == After(l, c, p)
<1>. HIDE DEF a
<1>16. a.out = l.out \o passed /\ a.arrived = l.arrived \cup {p.tidx}
  BY <1>4 DEF a
<1>17. a \in Entries
  <2>1. a.out \in Seq(Part) /\ a.arrived \in SUBSET Nat
    BY <1>5, <1>15, <1>16
  <2>2. a.lost \in BOOLEAN
    BY <1>4, Zenon DEF a
  <2>. QED
    BY <2>1, <2>2, <1>4, Zenon DEF a, Entries
<1>18. ASSUME NEW n \in a.arrived, n > r PROVE n \in Numbers(g.queue) \/ a.lost
  <2>1. CASE n = p.tidx
    BY <2>1, <1>1
  <2>2. CASE n # p.tidx
    <3>1. n \in l.arrived /\ n \in Nat /\ n > c.last
      BY <2>2, <1>18, <1>16, <1>5, <1>7, <1>8, <1>1
    <3>2. CASE l.lost
      BY <3>2, <1>4, Zenon DEF a
    <3>3. CASE n \in Numbers(c.queue)
      <4>1. CASE n \in Numbers(g.queue)
        BY <4>1
      <4>2. CASE Len(c.queue) >= QueueSize /\ n = Oldest(c).tidx
        BY <4>2, <3>1, <1>4, Zenon DEF a
      <4>. QED
        BY <3>3, <4>1, <4>2, <1>1
    <3>. QED
      BY <3>1, <3>2, <3>3 DEF Linked
  <2>. QED
    BY <2>1, <2>2
<1>19. Linked(d, a)
  BY <1>9, <1>10, <1>12, <1>15, <1>16, <1>18 DEF Linked
<1>. QED
  BY <1>12, <1>13, <1>14, <1>15, <1>16, <1>17, <1>19 DEF d, g, a, passed

(***************************************************************************)
(* The inductive invariant.                                                *)
(***************************************************************************)
Good(c, entries, parts) ==
    /\ c \in Conns /\ c.id \in DOMAIN entries /\ IsQueue(c) /\ Linked(c, entries[c.id])
    /\ \A i \in DOMAIN c.queue : c.queue[i] \in parts

\* Every open connection is linked with an entry of its own.
ConnInv ==
    /\ conn \in [Ends -> [Fds -> Conns \cup {Closed}]]
    /\ \A e \in Ends, f \in Fds : conn[e][f] # Closed => Good(conn[e][f], log, net)
    /\ \A e1, e2 \in Ends, f1, f2 \in Fds :
           conn[e1][f1] # Closed /\ conn[e1][f1].id = conn[e2][f2].id => e1 = e2 /\ f1 = f2

Highest == tidx["tunnel"] + tidx["endpoint"]

\* No part has a number that its peer has not given yet.
PartInv ==
    /\ tidx \in [Ends -> Nat] /\ tasks \in [Ends -> Seq(Part)] /\ net \subseteq Part
    /\ \A p \in net : p.tidx <= Highest
    /\ \A e \in Ends : \A k \in DOMAIN tasks[e] : tasks[e][k].tidx <= Highest

LogInv == log \in Seq(Entries) /\ \A i \in DOMAIN log : Consecutive(log[i].out)

\* An open connection is not the closed one.
LEMMA NotClosed == \A c \in Conns : c # Closed /\ c.id # Closed.id
  BY DEF Conns, Closed

\* A log that keeps the entries of a connection's view keeps the connection good.
LEMMA GoodKeeps ==
    ASSUME NEW c, NEW l1, NEW l2, NEW n1, NEW n2, Good(c, l1, n1),
           DOMAIN l1 \subseteq DOMAIN l2, n1 \subseteq n2,
           /\ l2[c.id].out = l1[c.id].out /\ l2[c.id].arrived = l1[c.id].arrived
           /\ l2[c.id].lost = l1[c.id].lost
    PROVE  Good(c, l2, n2)
<1>1. Linked(c, l2[c.id])
  <2>1. Linked(c, l1[c.id])
    BY DEF Good
  <2>. QED
    BY <2>1, Zenon DEF Linked
<1>. QED
  BY <1>1 DEF Good

\* Changing one connection.
LEMMA OneChanges ==
    ASSUME ConnInv, NEW e \in Ends, NEW f \in Fds, NEW d, Good(d, log', net'),
           conn' = [conn EXCEPT ![e][f] = d], DOMAIN log \subseteq DOMAIN log', net \subseteq net',
           conn[e][f].id = d.id \/ d.id \notin DOMAIN log, conn[e][f] = Closed \/ conn[e][f].id = d.id,
           \A i \in DOMAIN log : i # d.id => log'[i] = log[i]
    PROVE  ConnInv'
<1>1. d \in Conns /\ d # Closed /\ d.id # Closed.id /\ d.id \in DOMAIN log'
  BY NotClosed DEF Good
<1>2. conn' \in [Ends -> [Fds -> Conns \cup {Closed}]]
  BY <1>1 DEF ConnInv
<1>3. /\ conn'[e][f] = d
      /\ \A e1 \in Ends, f1 \in Fds : e1 # e \/ f1 # f => conn'[e1][f1] = conn[e1][f1]
  BY DEF ConnInv
<1>4. ASSUME NEW e1 \in Ends, NEW f1 \in Fds, e1 # e \/ f1 # f, conn[e1][f1] # Closed
      PROVE  conn[e1][f1].id # d.id /\ conn[e1][f1].id \in DOMAIN log
  <2>1. conn[e1][f1].id \in DOMAIN log
    BY <1>4 DEF ConnInv, Good
  <2>2. CASE d.id \notin DOMAIN log
    BY <2>1, <2>2
  <2>3. CASE conn[e][f].id = d.id
    BY <2>3, <2>1, <1>4 DEF ConnInv
  <2>. QED
    BY <2>1, <2>2, <2>3, Zenon
<1>5. ASSUME NEW e1 \in Ends, NEW f1 \in Fds, conn'[e1][f1] # Closed
      PROVE  Good(conn'[e1][f1], log', net')
  <2>1. CASE e1 = e /\ f1 = f
    BY <2>1, <1>3
  <2>2. CASE e1 # e \/ f1 # f
    <3>1. conn[e1][f1] # Closed /\ conn'[e1][f1] = conn[e1][f1]
      BY <2>2, <1>3, <1>5
    <3>2. Good(conn[e1][f1], log, net)
      BY <3>1 DEF ConnInv
    <3>3. log'[conn[e1][f1].id] = log[conn[e1][f1].id]
      BY <2>2, <3>1, <1>4
    <3>4. Good(conn[e1][f1], log', net')
      BY <3>2, <3>3, GoodKeeps
    <3>. QED
      BY <3>1, <3>4
  <2>. QED
    BY <2>1, <2>2
<1>6. ASSUME NEW e1 \in Ends, NEW e2 \in Ends, NEW f1 \in Fds, NEW f2 \in Fds,
             conn'[e1][f1] # Closed, conn'[e1][f1].id = conn'[e2][f2].id
      PROVE  e1 = e2 /\ f1 = f2
  <2>0. \A e3 \in Ends, f3 \in Fds : conn[e3][f3] = Closed \/ conn[e3][f3].id # Closed.id
    BY NotClosed DEF ConnInv
  <2>1. CASE e1 = e /\ f1 = f
    <3>1. CASE e2 # e \/ f2 # f
      <4>1. conn[e2][f2].id = d.id
        BY <3>1, <2>1, <1>3, <1>6
      <4>2. conn[e2][f2] # Closed
        BY <4>1, <1>1
      <4>. QED
        BY <4>1, <4>2, <3>1, <1>4
    <3>. QED
      BY <3>1, <2>1
  <2>2. CASE e1 # e \/ f1 # f
    <3>1. conn[e1][f1] # Closed /\ conn'[e1][f1] = conn[e1][f1]
      BY <2>2, <1>3, <1>6
    <3>2. conn[e1][f1].id # d.id
      BY <3>1, <2>2, <1>4
    <3>3. e2 # e \/ f2 # f
      BY <3>1, <3>2, <1>3, <1>6
    <3>4. conn'[e2][f2] = conn[e2][f2]
      BY <3>3, <1>3
    <3>. QED
      BY <3>1, <3>4, <1>6 DEF ConnInv
  <2>. QED
    BY <2>1, <2>2
<1>. QED
  BY <1>2, <1>5, <1>6 DEF ConnInv

(***************************************************************************)
(* One lemma per action, or per kind of action.                            *)
(***************************************************************************)
\* A queue gets no part but the new one.
LEMMA QueuedFrom ==
    ASSUME NEW c \in Conns, NEW p \in Part, QueueSize \in Nat \ {0}
    PROVE  \A i \in DOMAIN Queued(c, p).queue :
               Queued(c, p).queue[i] = p \/ \E j \in DOMAIN c.queue : Queued(c, p).queue[i] = c.queue[j]
<1>. DEFINE kept == IF Len(c.queue) >= QueueSize THEN SubSeq(c.queue, 1, Len(c.queue) - 1) ELSE c.queue
<1>1. c.queue \in Seq(Part) /\ Len(c.queue) \in Nat
  BY DEF Conns
<1>2. kept \in Seq(Part) /\ Len(kept) <= Len(c.queue) /\ \A i \in DOMAIN kept : kept[i] = c.queue[i]
  BY <1>1
<1>3. Queued(c, p).queue = <<p>> \o kept
  BY DEF Queued, Conns
<1>. HIDE DEF kept
<1>4. ASSUME NEW i \in DOMAIN (<<p>> \o kept)
      PROVE  (<<p>> \o kept)[i] = p \/ \E j \in DOMAIN c.queue : (<<p>> \o kept)[i] = c.queue[j]
  <2>1. i \in 1 .. Len(kept) + 1 /\ (i = 1 \/ (<<p>> \o kept)[i] = kept[i - 1])
    BY <1>2
  <2>2. CASE i = 1
    BY <2>2, <1>2
  <2>3. CASE i # 1
    <3>1. i - 1 \in DOMAIN kept /\ i - 1 \in DOMAIN c.queue
      BY <2>1, <2>3, <1>1, <1>2
    <3>. QED
      BY <3>1, <2>1, <2>3, <1>2
  <2>. QED
    BY <2>2, <2>3
<1>. QED
  BY <1>3, <1>4, Zenon

\* tcpsend on a connection that is good and linked in entries.
LEMMA SendGood ==
    ASSUME PartInv, NEW c, NEW entries \in Seq(Entries), Good(c, entries, net),
           NEW p \in net, p.tidx \notin Numbers(c.queue), QueueSize \in Nat \ {0},
           \A i \in DOMAIN entries : Consecutive(entries[i].out),
           log' = [entries EXCEPT ![c.id] = After(@, c, p)], net' = net
    PROVE  /\ Good(Dispatched(Queued(c, p)), log', net') /\ Dispatched(Queued(c, p)).id = c.id
           /\ LogInv' /\ DOMAIN log' = DOMAIN entries
           /\ \A i \in DOMAIN entries : i # c.id => log'[i] = entries[i]
<1>. DEFINE d == Dispatched(Queued(c, p))
            l == entries[c.id]
            a == After(l, c, p)
<1>1. c \in Conns /\ c.id \in DOMAIN entries /\ IsQueue(c) /\ Linked(c, l)
  BY DEF Good
<1>2. p \in Part /\ l \in Entries /\ Consecutive(l.out)
  <2>1. p \in Part
    BY DEF PartInv
  <2>2. PICK j \in DOMAIN entries : j = c.id
    BY <1>1
  <2>3. entries[j] \in Entries
    OBVIOUS
  <2>. QED
    BY <2>1, <2>2, <2>3
<1>3. Highest \in Nat
  BY DEF PartInv, Highest, Ends
<1>4. p.tidx <= Highest /\ \A n \in Numbers(c.queue) : n <= Highest
  BY DEF PartInv, Good, Numbers
<1>5. /\ d \in Conns /\ IsQueue(d) /\ d.id = c.id /\ d.queue = Queued(c, p).queue
      /\ a \in Entries /\ Consecutive(a.out) /\ Linked(d, a)
  BY <1>1, <1>2, <1>3, <1>4, SendKeeps, Zenon
<1>6. \A i \in DOMAIN d.queue : d.queue[i] \in net
  <2>1. \A i \in DOMAIN d.queue : d.queue[i] = p \/ \E j \in DOMAIN c.queue : d.queue[i] = c.queue[j]
    BY <1>1, <1>2, <1>5, QueuedFrom
  <2>. QED
    BY <2>1 DEF Good
<1>. HIDE DEF d, a
<1>7. log' = [entries EXCEPT ![c.id] = a]
  BY DEF a
<1>8. /\ log' \in Seq(Entries) /\ DOMAIN log' = DOMAIN entries /\ log'[c.id] = a
      /\ \A i \in DOMAIN entries : i # c.id => log'[i] = entries[i]
  BY <1>1, <1>5, <1>7
<1>9. \A i \in DOMAIN log' : Consecutive(log'[i].out)
  BY <1>5, <1>8
<1>10. Good(d, log', net')
  BY <1>1, <1>5, <1>6, <1>8 DEF Good
<1>. QED
  BY <1>5, <1>8, <1>9, <1>10 DEF d, LogInv

\* A part for an open connection (endpoint.request, tunnel.response).
LEMMA ArriveKeeps ==
    ASSUME ConnInv, PartInv, LogInv, NEW p \in net, Arrive(p), QueueSize \in Nat \ {0}
    PROVE  ConnInv' /\ LogInv'
<1>. DEFINE e == Other(p.src)
            c == conn[e][p.fd]
<1>1. e \in Ends /\ p.fd \in Fds
  BY DEF PartInv, Part, Other, Ends
<1>2. c # Closed /\ p.tidx \notin Numbers(c.queue) /\ net' = net
  BY DEF Arrive
<1>3. conn' = [conn EXCEPT ![e][p.fd] = Dispatched(Queued(c, p))]
  BY DEF Arrive, Send
<1>4. log' = [log EXCEPT ![c.id] = After(@, c, p)]
  BY DEF Arrive, Send
<1>5. Good(c, log, net)
  BY <1>1, <1>2 DEF ConnInv
<1>. HIDE DEF c, e
<1>6. /\ Good(Dispatched(Queued(c, p)), log', net') /\ Dispatched(Queued(c, p)).id = c.id
      /\ LogInv' /\ DOMAIN log' = DOMAIN log /\ \A i \in DOMAIN log : i # c.id => log'[i] = log[i]
  BY <1>2, <1>4, <1>5, SendGood, Zenon DEF LogInv
<1>7. ConnInv'
  BY <1>1, <1>2, <1>3, <1>6, OneChanges, Zenon DEF c
<1>. QED
  BY <1>6, <1>7

\* A new connection is linked with a new entry.
LEMMA NewGood ==
    ASSUME LogInv
    PROVE  /\ Append(log, Entry) \in Seq(Entries) /\ DOMAIN log \subseteq DOMAIN Append(log, Entry)
           /\ Opened(Len(log) + 1).id = Len(log) + 1 /\ (Len(log) + 1) \notin DOMAIN log
           /\ Good(Opened(Len(log) + 1), Append(log, Entry), net)
           /\ Opened(Len(log) + 1).queue = <<>>
           /\ \A i \in DOMAIN log : Append(log, Entry)[i] = log[i]
           /\ \A i \in DOMAIN Append(log, Entry) : Consecutive(Append(log, Entry)[i].out)
<1>. DEFINE n == Len(log) + 1
            o == Opened(n)
            ls == Append(log, Entry)
<1>1. n \in Nat \ {0} /\ log \in Seq(Entries)
  BY DEF LogInv
<1>2. Entry \in Entries /\ Entry.out = <<>> /\ Entry.arrived = {}
  BY DEF Entry, Entries
<1>3. o.id = n /\ o.last = 0 /\ o.queue = <<>> /\ o.done = {} /\ o \in Conns
  BY <1>1 DEF Opened, Conns
<1>4. /\ ls \in Seq(Entries) /\ DOMAIN ls = 1 .. n /\ DOMAIN log = 1 .. Len(log) /\ ls[n] = Entry
      /\ \A i \in DOMAIN log : ls[i] = log[i]
  BY <1>1, <1>2
<1>5. Consecutive(Entry.out)
  BY <1>2 DEF Consecutive
<1>. HIDE DEF o, ls
<1>6. \A i \in DOMAIN ls : Consecutive(ls[i].out)
  BY <1>1, <1>4, <1>5 DEF LogInv
<1>7. Numbers(<<>>) = {}
  BY DEF Numbers
<1>8. IsQueue(o)
  BY <1>3, <1>7, StreamAssumption DEF IsQueue
<1>9. Linked(o, Entry)
  BY <1>2, <1>3, <1>7 DEF Linked
<1>10. Good(o, ls, net)
  BY <1>1, <1>3, <1>4, <1>8, <1>9 DEF Good
<1>. QED
  BY <1>1, <1>3, <1>4, <1>6, <1>10 DEF o, ls

\* The first part for a connection that endpoint.request opens.
LEMMA RequestKeeps ==
    ASSUME ConnInv, PartInv, LogInv, NEW p \in net, Request(p), QueueSize \in Nat \ {0}
    PROVE  ConnInv' /\ LogInv'
<1>. DEFINE c == Opened(Len(log) + 1)
            ls == Append(log, Entry)
            d == Dispatched(Queued(c, p))
<1>1. "endpoint" \in Ends /\ p.fd \in Fds /\ conn["endpoint"][p.fd] = Closed /\ net' = net
  BY DEF Request, PartInv, Part, Ends
<1>2. conn' = [conn EXCEPT !["endpoint"][p.fd] = d]
  BY DEF Request, Send
<1>3. log' = [ls EXCEPT ![c.id] = After(@, c, p)]
  BY DEF Request, Send
<1>4. /\ ls \in Seq(Entries) /\ DOMAIN log \subseteq DOMAIN ls /\ c.id \notin DOMAIN log
      /\ Good(c, ls, net) /\ c.queue = <<>> /\ \A i \in DOMAIN log : ls[i] = log[i]
      /\ \A i \in DOMAIN ls : Consecutive(ls[i].out)
  BY NewGood
<1>. HIDE DEF c, ls, d
<1>5. p.tidx \notin Numbers(c.queue)
  BY <1>4 DEF Numbers
<1>6. /\ Good(d, log', net') /\ d.id = c.id /\ LogInv' /\ DOMAIN log' = DOMAIN ls
      /\ \A i \in DOMAIN ls : i # c.id => log'[i] = ls[i]
  BY <1>1, <1>3, <1>4, <1>5, SendGood, Zenon DEF d
<1>7. ConnInv'
  <2>1. DOMAIN log \subseteq DOMAIN log' /\ d.id \notin DOMAIN log /\ net \subseteq net'
    BY <1>1, <1>4, <1>6
  <2>2. \A i \in DOMAIN log : i # d.id => log'[i] = log[i]
    BY <1>4, <1>6
  <2>. QED
    BY <1>1, <1>2, <1>6, <2>1, <2>2, OneChanges, Zenon
<1>. QED
  BY <1>6, <1>7

\* A new client at the tunnel (server_async_client).
LEMMA AcceptKeeps ==
    ASSUME ConnInv, LogInv, NEW f \in Fds, Accept(f)
    PROVE  ConnInv' /\ LogInv'
<1>. DEFINE c == Opened(Len(log) + 1)
<1>1. /\ "tunnel" \in Ends /\ conn["tunnel"][f] = Closed /\ net' = net
      /\ conn' = [conn EXCEPT !["tunnel"][f] = c] /\ log' = Append(log, Entry)
  BY DEF Accept, Ends
<1>2. /\ log' \in Seq(Entries) /\ DOMAIN log \subseteq DOMAIN log' /\ c.id \notin DOMAIN log
      /\ Good(c, log', net') /\ \A i \in DOMAIN log : log'[i] = log[i]
      /\ \A i \in DOMAIN log' : Consecutive(log'[i].out)
  BY <1>1, NewGood
<1>. HIDE DEF c
<1>3. ConnInv'
  BY <1>1, <1>2, OneChanges, Zenon
<1>. QED
  BY <1>2, <1>3 DEF LogInv

\* A connection that goes with its queue (client_error, response_error).
LEMMA ShutdownKeeps ==
    ASSUME ConnInv, NEW e \in Ends, NEW f \in Fds, Shutdown(e, f)
    PROVE  ConnInv'
<1>1. conn' = [conn EXCEPT ![e][f] = Closed] /\ log' = log /\ net' = net
  BY DEF Shutdown
<1>2. /\ conn' \in [Ends -> [Fds -> Conns \cup {Closed}]] /\ conn'[e][f] = Closed
      /\ \A e1 \in Ends, f1 \in Fds : conn'[e1][f1] # Closed => conn'[e1][f1] = conn[e1][f1]
  BY <1>1 DEF ConnInv
<1>3. \A e1 \in Ends, f1 \in Fds : conn'[e1][f1] # Closed => Good(conn'[e1][f1], log', net')
  BY <1>1, <1>2 DEF ConnInv
<1>4. ASSUME NEW e1 \in Ends, NEW e2 \in Ends, NEW f1 \in Fds, NEW f2 \in Fds,
             conn'[e1][f1] # Closed, conn'[e1][f1].id = conn'[e2][f2].id
      PROVE  e1 = e2 /\ f1 = f2
  <2>1. conn'[e1][f1].id # Closed.id
    BY <1>2, <1>4, NotClosed DEF ConnInv
  <2>2. conn'[e2][f2] # Closed
    BY <2>1, <1>4
  <2>. QED
    BY <2>2, <1>2, <1>4 DEF ConnInv
<1>. QED
  BY <1>2, <1>3, <1>4 DEF ConnInv

\* Steps that leave the connections and what was passed to them alone.
LEMMA SameConns ==
    ASSUME ConnInv, conn' = conn, DOMAIN log' = DOMAIN log, net \subseteq net',
           \A i \in DOMAIN log : /\ log'[i].out = log[i].out /\ log'[i].arrived = log[i].arrived
                                 /\ log'[i].lost = log[i].lost
    PROVE  ConnInv'
<1>1. ASSUME NEW e \in Ends, NEW f \in Fds, conn[e][f] # Closed
      PROVE  Good(conn[e][f], log', net')
  <2>1. Good(conn[e][f], log, net) /\ conn[e][f].id \in DOMAIN log
    BY <1>1 DEF ConnInv, Good
  <2>. QED
    BY <2>1, GoodKeeps, Zenon
<1>. QED
  BY <1>1 DEF ConnInv

\* task.update submits the head of the list at most.
LEMMA FeedKeeps ==
    ASSUME PartInv, NEW e \in Ends, NEW ts \in Seq(Part), NEW room \in BOOLEAN, Feed(e, ts, room),
           tidx' \in [Ends -> Nat], Highest' >= Highest, Highest' \in Nat, Highest \in Nat,
           \A k \in DOMAIN ts : ts[k].tidx <= Highest'
    PROVE  PartInv' /\ net \subseteq net'
<1>0. \A q \in Part : q.tidx \in Nat
  BY DEF Part
<1>1. ASSUME NEW e1 \in Ends, NEW k \in DOMAIN tasks[e1] PROVE tasks[e1][k].tidx <= Highest'
  <2>1. tasks[e1][k] \in Part /\ tasks[e1][k].tidx <= Highest
    BY DEF PartInv
  <2>. HIDE DEF Highest
  <2>. QED
    BY <2>1, <1>0
<1>2. \A q \in net : q.tidx <= Highest'
  <2>1. \A q \in net : q.tidx \in Nat /\ q.tidx <= Highest
    BY <1>0 DEF PartInv
  <2>. QED
    BY <2>1
<1>3. tasks \in [Ends -> Seq(Part)] /\ net \subseteq Part
  BY DEF PartInv
<1>4. CASE room /\ ts # <<>>
  <2>1. tasks' = [tasks EXCEPT ![e] = Tail(ts)] /\ net' = net \cup {Head(ts)}
    BY <1>4 DEF Feed
  <2>2. /\ Tail(ts) \in Seq(Part) /\ Head(ts) \in Part /\ Head(ts).tidx <= Highest'
        /\ \A k \in DOMAIN Tail(ts) : Tail(ts)[k].tidx <= Highest'
    BY <1>4
  <2>3. \A e1 \in Ends : \A k \in DOMAIN tasks'[e1] : tasks'[e1][k].tidx <= Highest'
    BY <2>1, <2>2, <1>1, <1>3
  <2>. QED
    BY <2>1, <2>2, <2>3, <1>2, <1>3 DEF PartInv
<1>5. CASE ~(room /\ ts # <<>>)
  <2>1. tasks' = [tasks EXCEPT ![e] = ts] /\ net' = net
    BY <1>5 DEF Feed
  <2>2. \A e1 \in Ends : \A k \in DOMAIN tasks'[e1] : tasks'[e1][k].tidx <= Highest'
    BY <2>1, <1>1, <1>3
  <2>. QED
    BY <2>1, <2>2, <1>2, <1>3 DEF PartInv
<1>. QED
  BY <1>4, <1>5

\* Reading changes nothing of an entry that concerns what was passed on.
MergedRead(l, chunk) == [l EXCEPT !.read = Append(@, chunk), !.merged = TRUE]

NumberedRead(l, chunk, n) ==
    [l EXCEPT !.read = Append(@, chunk), !.first = IF @ = 0 THEN n ELSE @]

SamePassed(a, l) == a \in Entries /\ a.out = l.out /\ a.arrived = l.arrived /\ a.lost = l.lost

\* A read changes in the entry only what was read, first and merged.
LEMMA ReadEntry ==
    ASSUME NEW l \in Entries, NEW chunk \in Chunks, NEW n \in Nat
    PROVE  SamePassed(MergedRead(l, chunk), l) /\ SamePassed(NumberedRead(l, chunk, n), l)
<1>. DEFINE r == Append(l.read, chunk)
            m == IF l.first = 0 THEN n ELSE l.first
<1>1. r \in Seq(Chunks) /\ m \in Nat /\ TRUE \in BOOLEAN
  BY DEF Entries
<1>2. /\ MergedRead(l, chunk) = [l EXCEPT !.read = r, !.merged = TRUE]
      /\ NumberedRead(l, chunk, n) = [l EXCEPT !.read = r, !.first = m]
  BY DEF MergedRead, NumberedRead
<1>. HIDE DEF r, m
<1>3. SamePassed([l EXCEPT !.read = r, !.merged = TRUE], l)
  BY <1>1, Zenon DEF Entries, SamePassed
<1>4. SamePassed([l EXCEPT !.read = r, !.first = m], l)
  BY <1>1, Zenon DEF Entries, SamePassed
<1>. QED
  BY <1>2, <1>3, <1>4

\* The tasks of every peer have numbers that were given.
LEMMA TasksNumbered ==
    ASSUME PartInv
    PROVE  \A e \in Ends : \A k \in DOMAIN tasks[e] :
               tasks[e][k].tidx \in Nat /\ tasks[e][k].tidx <= Highest
<1>. SUFFICES ASSUME NEW e \in Ends, NEW k \in DOMAIN tasks[e]
              PROVE  tasks[e][k].tidx \in Nat /\ tasks[e][k].tidx <= Highest
  OBVIOUS
<1>1. tasks[e] \in Seq(Part)
  BY DEF PartInv
<1>2. tasks[e][k] \in Part
  BY <1>1
<1>. QED
  BY <1>2 DEF PartInv, Part

\* A log in which one entry changes in what was read only.
LEMMA ReadLog ==
    ASSUME ConnInv, LogInv, conn' = conn, net \subseteq net', NEW i \in DOMAIN log, NEW a,
           SamePassed(a, log[i]), log' = [log EXCEPT ![i] = a]
    PROVE  ConnInv' /\ LogInv'
<1>1. log \in Seq(Entries) /\ a \in Entries
  BY DEF LogInv, SamePassed
<1>2. log' \in Seq(Entries) /\ DOMAIN log' = DOMAIN log
  BY <1>1
<1>3. \A j \in DOMAIN log : /\ log'[j].out = log[j].out /\ log'[j].arrived = log[j].arrived
                            /\ log'[j].lost = log[j].lost
  BY <1>1, Zenon DEF SamePassed, LogInv
<1>4. LogInv'
  BY <1>2, <1>3 DEF LogInv
<1>5. ConnInv'
  BY <1>2, <1>3, SameConns, Zenon
<1>. QED
  BY <1>4, <1>5

\* The numbers given stay below a counter that grows.
LEMMA HighestGrows ==
    ASSUME tidx \in [Ends -> Nat], NEW e \in Ends, tidx' = [tidx EXCEPT ![e] = tidx[e] + 1]
    PROVE  /\ tidx' \in [Ends -> Nat] /\ Highest \in Nat /\ Highest' \in Nat
           /\ Highest' = Highest + 1 /\ tidx[e] + 1 <= Highest'
<1>1. CASE e = "tunnel"
  BY <1>1 DEF Highest, Ends
<1>2. CASE e = "endpoint"
  BY <1>2 DEF Highest, Ends
<1>. QED
  BY <1>1, <1>2 DEF Ends

\* A new task with the next number.
LEMMA NewTask ==
    ASSUME PartInv, NEW e \in Ends, NEW p \in Part, p.tidx = tidx[e] + 1, NEW room \in BOOLEAN,
           tidx' = [tidx EXCEPT ![e] = tidx[e] + 1], Feed(e, Append(tasks[e], p), room)
    PROVE  PartInv' /\ net \subseteq net'
<1>1. tidx \in [Ends -> Nat] /\ tasks[e] \in Seq(Part)
  BY DEF PartInv
<1>2. /\ tidx' \in [Ends -> Nat] /\ Highest \in Nat /\ Highest' \in Nat
      /\ Highest' = Highest + 1 /\ tidx[e] + 1 <= Highest'
  BY <1>1, HighestGrows, Zenon
<1>3. \A k \in DOMAIN tasks[e] : tasks[e][k].tidx \in Nat /\ tasks[e][k].tidx <= Highest
  BY TasksNumbered
<1>4. Append(tasks[e], p) \in Seq(Part)
  BY <1>1
<1>5. \A k \in DOMAIN Append(tasks[e], p) : Append(tasks[e], p)[k].tidx <= Highest'
  BY <1>1, <1>2, <1>3
<1>6. Highest' >= Highest
  BY <1>2
<1>. QED
  BY <1>2, <1>4, <1>5, <1>6, FeedKeeps, Zenon

\* The two ways through Read.
ReadPart(e, f, chunk) ==
    [src |-> e, fd |-> f, tidx |-> tidx[e] + 1, chunk |-> chunk, from |-> conn[e][f].id]

MergedStep(e, f, chunk) ==
    /\ log' = [log EXCEPT ![conn[e][f].id] = MergedRead(log[conn[e][f].id], chunk)]
    /\ tidx' = tidx /\ tasks' = tasks /\ net' = net

NumberedStep(e, f, chunk, room) ==
    /\ tidx' = [tidx EXCEPT ![e] = tidx[e] + 1]
    /\ Feed(e, Append(tasks[e], ReadPart(e, f, chunk)), room)
    /\ log' = [log EXCEPT ![conn[e][f].id] = NumberedRead(log[conn[e][f].id], chunk, tidx[e] + 1)]

\* A read makes a new task or is taken for one that waits (task.add).
LEMMA ReadCases ==
    ASSUME NEW e, NEW f, NEW chunk, NEW room, Read(e, f, chunk, room), conn[e][f].id \in DOMAIN log
    PROVE  MergedStep(e, f, chunk) \/ NumberedStep(e, f, chunk, room)
  BY Zenon DEF Read, MergedStep, NumberedStep, ReadPart, MergedRead, NumberedRead

\* A read from a connection (tunnel_data, response).
LEMMA ReadKeeps ==
    ASSUME ConnInv, PartInv, LogInv, NEW e \in Ends, NEW f \in Fds, NEW chunk \in Chunks,
           NEW room \in BOOLEAN, Read(e, f, chunk, room)
    PROVE  ConnInv' /\ PartInv' /\ LogInv'
<1>. DEFINE i == conn[e][f].id
            n == tidx[e] + 1
            p == ReadPart(e, f, chunk)
<1>1. conn[e][f] # Closed /\ conn' = conn
  BY Zenon DEF Read
<1>2. i \in DOMAIN log /\ i \in Nat /\ log[i] \in Entries
  BY <1>1 DEF ConnInv, Good, LogInv, Conns
<1>3. n \in Nat /\ p \in Part /\ p.tidx = tidx[e] + 1
  BY <1>2 DEF PartInv, Part, ReadPart
<1>4. MergedStep(e, f, chunk) \/ NumberedStep(e, f, chunk, room)
  BY <1>2, ReadCases, Zenon
<1>5. SamePassed(MergedRead(log[i], chunk), log[i]) /\ SamePassed(NumberedRead(log[i], chunk, n), log[i])
  BY <1>2, <1>3, ReadEntry, Zenon
<1>6. CASE MergedStep(e, f, chunk)
  <2>1. /\ log' = [log EXCEPT ![i] = MergedRead(log[i], chunk)]
        /\ tidx' = tidx /\ tasks' = tasks /\ net' = net
    BY <1>6, Zenon DEF MergedStep
  <2>. HIDE DEF i
  <2>2. PartInv'
    BY <2>1 DEF PartInv, Highest
  <2>3. net \subseteq net'
    BY <2>1
  <2>. QED
    BY <2>1, <2>2, <2>3, <1>1, <1>2, <1>5, ReadLog, Zenon
<1>7. CASE NumberedStep(e, f, chunk, room)
  <2>1. /\ tidx' = [tidx EXCEPT ![e] = tidx[e] + 1]
        /\ Feed(e, Append(tasks[e], p), room)
        /\ log' = [log EXCEPT ![i] = NumberedRead(log[i], chunk, n)]
    BY <1>7, Zenon DEF NumberedStep
  <2>. HIDE DEF i, n, p
  <2>2. PartInv' /\ net \subseteq net'
    BY <2>1, <1>3, NewTask, Zenon
  <2>. QED
    BY <2>1, <2>2, <1>1, <1>2, <1>5, ReadLog, Zenon
<1>. QED
  BY <1>4, <1>6, <1>7, Zenon

(***************************************************************************)
(* The theorems.                                                           *)
(***************************************************************************)
StreamInv == ConnInv /\ PartInv /\ LogInv

\* The invariant holds at the start.
LEMMA StreamInit == Init => StreamInv
<1>. SUFFICES ASSUME Init PROVE StreamInv
  OBVIOUS
<1>1. conn \in [Ends -> [Fds -> Conns \cup {Closed}]] /\ \A e \in Ends, f \in Fds : conn[e][f] = Closed
  BY DEF Init
<1>2. ConnInv
  BY <1>1, Zenon DEF ConnInv
<1>3. PartInv
  BY DEF Init, PartInv, Ends
<1>4. LogInv
  BY DEF Init, LogInv
<1>. QED
  BY <1>2, <1>3, <1>4 DEF StreamInv

\* Every step keeps the invariant.
LEMMA StreamStep == StreamInv /\ [Next]_vars => StreamInv'
<1>. SUFFICES ASSUME ConnInv, PartInv, LogInv, [Next]_vars PROVE ConnInv' /\ PartInv' /\ LogInv'
  BY DEF StreamInv
<1>0. QueueSize \in Nat \ {0}
  BY StreamAssumption
<1>1. ASSUME NEW e \in Ends, NEW f \in Fds, NEW chunk \in Chunks, NEW room \in BOOLEAN,
             Read(e, f, chunk, room)
      PROVE  ConnInv' /\ PartInv' /\ LogInv'
  BY <1>1, ReadKeeps
<1>2. ASSUME NEW e \in Ends, Resume(e) PROVE ConnInv' /\ PartInv' /\ LogInv'
  <2>1. Feed(e, tasks[e], TRUE) /\ conn' = conn /\ tidx' = tidx /\ log' = log
    BY <1>2, Zenon DEF Resume
  <2>2. /\ tidx' \in [Ends -> Nat] /\ Highest' = Highest /\ Highest \in Nat
        /\ tasks[e] \in Seq(Part) /\ \A k \in DOMAIN tasks[e] : tasks[e][k].tidx <= Highest
    BY <2>1 DEF PartInv, Highest, Ends
  <2>3. Highest' >= Highest
    BY <2>2
  <2>4. PartInv' /\ net \subseteq net'
    BY <2>1, <2>2, <2>3, FeedKeeps, Zenon
  <2>5. ConnInv'
    BY <2>1, <2>4, SameConns
  <2>. QED
    BY <2>1, <2>4, <2>5 DEF LogInv
<1>3. ASSUME NEW e \in Ends, OtherTask(e) PROVE ConnInv' /\ PartInv' /\ LogInv'
  <2>1. tidx' = [tidx EXCEPT ![e] = @ + 1] /\ conn' = conn /\ tasks' = tasks /\ net' = net /\ log' = log
    BY <1>3 DEF OtherTask
  <2>2. tidx' \in [Ends -> Nat] /\ Highest' = Highest + 1 /\ Highest \in Nat
    BY <2>1, HighestGrows, Zenon DEF PartInv
  <2>3. \A q \in net : q.tidx <= Highest'
    <3>1. \A q \in net : q.tidx \in Nat /\ q.tidx <= Highest
      BY DEF PartInv, Part
    <3>. QED
      BY <2>2, <3>1
  <2>4. \A e1 \in Ends : \A k \in DOMAIN tasks[e1] : tasks[e1][k].tidx <= Highest'
    <3>1. \A e1 \in Ends : \A k \in DOMAIN tasks[e1] : tasks[e1][k].tidx \in Nat /\ tasks[e1][k].tidx <= Highest
      BY TasksNumbered
    <3>. QED
      BY <2>2, <3>1
  <2>5. PartInv'
    BY <2>1, <2>2, <2>3, <2>4 DEF PartInv
  <2>6. ConnInv'
    BY <2>1, SameConns
  <2>. QED
    BY <2>1, <2>5, <2>6 DEF LogInv
<1>4. ASSUME NEW p \in net, Arrive(p) \/ Request(p) PROVE ConnInv' /\ PartInv' /\ LogInv'
  <2>1. ConnInv' /\ LogInv'
    BY <1>0, <1>4, ArriveKeeps, RequestKeeps, Zenon
  <2>2. tidx' = tidx /\ tasks' = tasks /\ net' = net
    BY <1>4 DEF Arrive, Request
  <2>. QED
    BY <2>1, <2>2 DEF PartInv, Highest
<1>5. ASSUME NEW f \in Fds, Accept(f) PROVE ConnInv' /\ PartInv' /\ LogInv'
  <2>1. tidx' = tidx /\ tasks' = tasks /\ net' = net
    BY <1>5 DEF Accept
  <2>. QED
    BY <1>5, <2>1, AcceptKeeps DEF PartInv, Highest
<1>6. ASSUME NEW e \in Ends, NEW f \in Fds, Shutdown(e, f) PROVE ConnInv' /\ PartInv' /\ LogInv'
  <2>1. tidx' = tidx /\ tasks' = tasks /\ net' = net /\ log' = log
    BY <1>6 DEF Shutdown
  <2>. QED
    BY <1>6, <2>1, ShutdownKeeps DEF PartInv, LogInv, Highest
<1>7. CASE UNCHANGED vars
  <2>1. conn' = conn /\ tidx' = tidx /\ tasks' = tasks /\ net' = net /\ log' = log
    BY <1>7 DEF vars
  <2>. QED
    BY <2>1, SameConns DEF PartInv, LogInv, Highest
<1>. QED
  BY <1>1, <1>2, <1>3, <1>4, <1>5, <1>6, <1>7 DEF Next

\* The invariant holds in every behaviour.
LEMMA StreamAlways == Spec => []StreamInv
  BY StreamInit, StreamStep, PTL DEF Spec

\* The queue of a connection keeps its shape: at most QUEUE_SIZE parts with distinct
\* numbers, none marked that is not there (tcpsent, queue_add, tcpdispatch).
THEOREM StreamTypeCorrect == Spec => []TypeOK
<1>1. StreamInv => TypeOK
  BY DEF StreamInv, ConnInv, PartInv, LogInv, Good, TypeOK
<1>. QED
  BY <1>1, StreamAlways, PTL

\* tcpdispatch passes the parts of a stream on in order and without a gap, for every
\* queue size, number of connections, loss and reordering.
THEOREM StreamsInOrder == Spec => []InOrder
<1>1. StreamInv => InOrder
  BY DEF StreamInv, LogInv, Consecutive, InOrder
<1>. QED
  BY <1>1, StreamAlways, PTL

\* After tcpdispatch no part waits that could be passed on, unless queue_add dropped
\* a part that was still waited for.
THEOREM NothingWaits == Spec => []NothingLeftBehind
<1>1. StreamInv => NothingLeftBehind
  <2>. SUFFICES ASSUME StreamInv, NEW e \in Ends, NEW f \in Fds, conn[e][f] # Closed,
                       ~log[conn[e][f].id].lost
                PROVE  (conn[e][f].last + 1) \notin log[conn[e][f].id].arrived
    BY Zenon DEF NothingLeftBehind
  <2>1. Linked(conn[e][f], log[conn[e][f].id]) /\ conn[e][f].last \in Nat
    BY DEF StreamInv, ConnInv, Good, Conns
  <2>2. PICK c, a : c = conn[e][f] /\ a = log[c.id]
    OBVIOUS
  <2>3. PICK n : n = c.last + 1 /\ n > c.last
    <3>1. PICK m \in Nat : m = c.last
      BY <2>1, <2>2
    <3>2. m + 1 > m
      OBVIOUS
    <3>. QED
      BY <3>1, <3>2
  <2>4. n \notin Numbers(c.queue) /\ (n \in a.arrived => n \in Numbers(c.queue) \/ a.lost)
    BY <2>1, <2>2, <2>3 DEF Linked
  <2>. QED
    BY <2>2, <2>3, <2>4, Zenon
<1>. QED
  BY <1>1, StreamAlways, PTL

(***************************************************************************)
(* Where the content comes from.                                           *)
(***************************************************************************)
\* The parts made so far, and those of connection i.
Made == {p \in Part : p \in net \/ \E e \in Ends : \E k \in DOMAIN tasks[e] : p = tasks[e][k]}

MadeFrom(i) == {p \in Made : p.from = i}

\* g gives the reads of an entry their numbers, in increasing order.
Numbering(g, l, parts) ==
    /\ g \in [DOMAIN l.read -> Nat \ {0}]
    /\ \A a, b \in DOMAIN g : a < b => g[a] < g[b]
    /\ \A p \in parts : \E k \in DOMAIN g : g[k] = p.tidx /\ l.read[k] = p.chunk
    /\ 1 \in DOMAIN g => l.first = g[1]
    /\ DOMAIN g = {} => l.first = 0

\* The numbers given to connection i, if it is still open, are not above those that
\* its peer has given.
Given(g, i) ==
    \A e \in Ends, f \in Fds :
        conn[e][f] # Closed /\ conn[e][f].id = i => \A k \in DOMAIN g : g[k] <= tidx[e]

\* All parts were read from a connection, only submitted parts are passed on, and the
\* reads of a connection none of whose chunks was taken for another are numbered.
OriginInv ==
    /\ \A p \in Made : p.from \in DOMAIN log
    /\ \A i \in DOMAIN log : \A k \in DOMAIN log[i].out : log[i].out[k] \in net
    /\ \A i \in DOMAIN log :
          ~log[i].merged => \E g : Numbering(g, log[i], MadeFrom(i)) /\ Given(g, i)

\* What tcpdispatch passes on was submitted, and tcpsend changes nothing else that the
\* numbering depends on.
LEMMA SendFrom ==
    ASSUME PartInv, NEW c, NEW entries \in Seq(Entries), Good(c, entries, net),
           NEW p \in net, p.tidx \notin Numbers(c.queue), QueueSize \in Nat \ {0},
           \A i \in DOMAIN entries : Consecutive(entries[i].out),
           \A i \in DOMAIN entries : \A k \in DOMAIN entries[i].out : entries[i].out[k] \in net,
           log' = [entries EXCEPT ![c.id] = After(@, c, p)]
    PROVE  /\ DOMAIN log' = DOMAIN entries
           /\ \A i \in DOMAIN entries :
                 /\ log'[i].read = entries[i].read /\ log'[i].first = entries[i].first
                 /\ log'[i].merged = entries[i].merged
                 /\ \A k \in DOMAIN log'[i].out : log'[i].out[k] \in net
<1>. DEFINE g == Queued(c, p)
            l == entries[c.id]
            a == After(l, c, p)
            passed == Passed(g)
<1>1. c \in Conns /\ c.id \in DOMAIN entries /\ IsQueue(c) /\ Linked(c, l)
  BY DEF Good
<1>2. p \in Part /\ l \in Entries /\ Consecutive(l.out)
  <2>1. p \in Part
    BY DEF PartInv
  <2>2. PICK j \in DOMAIN entries : j = c.id
    BY <1>1
  <2>3. entries[j] \in Entries
    OBVIOUS
  <2>. QED
    BY <2>1, <2>2, <2>3, Zenon
<1>3. Highest \in Nat
  BY DEF PartInv, Highest, Ends
<1>4. p.tidx <= Highest /\ \A n \in Numbers(c.queue) : n <= Highest
  BY Zenon DEF PartInv, Good, Numbers
<1>5. /\ a.out = l.out \o passed /\ passed \in Seq(Part)
      /\ \A k \in 1 .. Len(passed) : \E i \in DOMAIN g.queue : passed[k] = g.queue[i]
  BY <1>1, <1>2, <1>3, <1>4, SendKeeps, Zenon
<1>6. \A i \in DOMAIN g.queue : g.queue[i] \in net
  <2>1. \A i \in DOMAIN g.queue : g.queue[i] = p \/ \E j \in DOMAIN c.queue : g.queue[i] = c.queue[j]
    BY <1>1, <1>2, QueuedFrom
  <2>. QED
    BY <2>1 DEF Good
<1>7. a.read = l.read /\ a.first = l.first /\ a.merged = l.merged
  BY <1>2 DEF After, Entries
<1>8. log' = [entries EXCEPT ![c.id] = a]
  BY Zenon
<1>. HIDE DEF g, a, passed
<1>9. \A k \in DOMAIN a.out : a.out[k] \in net
  <2>1. l.out \in Seq(Part) /\ \A k \in DOMAIN l.out : l.out[k] \in net
    BY <1>1, <1>2, Zenon DEF Entries
  <2>2. \A k \in 1 .. Len(passed) : passed[k] \in net
    BY <1>5, <1>6
  <2>3. PICK s : s = l.out
    OBVIOUS
  <2>4. ASSUME NEW k \in DOMAIN (s \o passed) PROVE (s \o passed)[k] \in net
    <3>1. CASE k \in 1 .. Len(s)
      BY <3>1, <2>1, <2>3, <1>5
    <3>2. CASE k \notin 1 .. Len(s)
      <4>0. s \in Seq(Part) /\ Len(s) \in Nat /\ Len(passed) \in Nat
        BY <2>1, <2>3, <1>5
      <4>1. k - Len(s) \in 1 .. Len(passed) /\ (s \o passed)[k] = passed[k - Len(s)]
        <5>1. DOMAIN (s \o passed) = 1 .. Len(s) + Len(passed)
          BY <4>0, <1>5
        <5>2. k - Len(s) \in 1 .. Len(passed) /\ k \in 1 .. Len(s) + Len(passed)
          BY <3>2, <4>0, <5>1
        <5>. QED
          BY <3>2, <4>0, <1>5, <5>2
      <4>. QED
        BY <4>1, <2>2, Zenon
    <3>. QED
      BY <3>1, <3>2, Zenon
  <2>. QED
    BY <1>5, <2>3, <2>4
<1>10. DOMAIN log' = DOMAIN entries /\ log'[c.id] = a /\ \A i \in DOMAIN entries : i # c.id => log'[i] = entries[i]
  BY <1>1, <1>8, Zenon
<1>. QED
  BY <1>1, <1>7, <1>9, <1>10, Zenon

\* Steps that read nothing.
LEMMA OriginKeeps ==
    ASSUME OriginInv, tidx \in [Ends -> Nat], tidx' \in [Ends -> Nat],
           Made' \subseteq Made, DOMAIN log \subseteq DOMAIN log',
           \A i \in DOMAIN log' : \A k \in DOMAIN log'[i].out : log'[i].out[k] \in net',
           \A i \in DOMAIN log : /\ log'[i].read = log[i].read /\ log'[i].first = log[i].first
                                 /\ log'[i].merged = log[i].merged,
           \A i \in DOMAIN log' \ DOMAIN log : log'[i].read = <<>> /\ log'[i].first = 0,
           \A e \in Ends, f \in Fds : conn'[e][f] # Closed =>
               \/ conn'[e][f].id \notin DOMAIN log
               \/ conn[e][f] # Closed /\ conn[e][f].id = conn'[e][f].id,
           \A e \in Ends : tidx[e] <= tidx'[e]
    PROVE  OriginInv'
<1>1. \A p \in Made' : p.from \in DOMAIN log'
  BY Zenon DEF OriginInv
<1>2. ASSUME NEW i \in DOMAIN log', ~log'[i].merged
      PROVE  \E g : Numbering(g, log'[i], MadeFrom(i)') /\ Given(g, i)'
  <2>0. MadeFrom(i)' \subseteq MadeFrom(i)
    BY DEF MadeFrom
  <2>1. CASE i \in DOMAIN log
    <3>1. ~log[i].merged
      BY <1>2, <2>1, Zenon
    <3>2. PICK g : Numbering(g, log[i], MadeFrom(i)) /\ Given(g, i)
      BY <2>1, <3>1, Zenon DEF OriginInv
    <3>3. log'[i].read = log[i].read /\ log'[i].first = log[i].first
      BY <2>1, Zenon
    <3>4. Numbering(g, log'[i], MadeFrom(i)')
      <4>1. \A p \in MadeFrom(i)' : \E k \in DOMAIN g : g[k] = p.tidx /\ log'[i].read[k] = p.chunk
        BY <2>0, <3>2, <3>3, Zenon DEF Numbering
      <4>. QED
        BY <3>2, <3>3, <4>1, Zenon DEF Numbering
    <3>5. ASSUME NEW e \in Ends, NEW f \in Fds, conn'[e][f] # Closed, conn'[e][f].id = i,
                 NEW k \in DOMAIN g
          PROVE  g[k] <= tidx'[e]
      <4>1. conn[e][f] # Closed /\ conn[e][f].id = i
        BY <2>1, <3>5, Zenon
      <4>2. g[k] <= tidx[e] /\ g[k] \in Nat
        BY <3>2, <4>1, Zenon DEF Given, Numbering
      <4>3. tidx[e] \in Nat /\ tidx'[e] \in Nat /\ tidx[e] <= tidx'[e]
        OBVIOUS
      <4>. QED
        BY <4>2, <4>3
    <3>6. Given(g, i)'
      BY <3>5, Zenon DEF Given
    <3>. QED
      BY <3>4, <3>6
  <2>2. CASE i \notin DOMAIN log
    <3>1. log'[i].read = <<>> /\ log'[i].first = 0
      BY <2>2, Zenon
    <3>2. MadeFrom(i)' = {}
      BY <2>0, <2>2, Zenon DEF MadeFrom, OriginInv
    <3>. DEFINE g == [k \in {} |-> 1]
    <3>3. g \in [DOMAIN <<>> -> Nat \ {0}] /\ DOMAIN g = {}
      OBVIOUS
    <3>. HIDE DEF g
    <3>4. Numbering(g, log'[i], MadeFrom(i)')
      BY <3>1, <3>2, <3>3, Zenon DEF Numbering
    <3>5. Given(g, i)'
      BY <3>3 DEF Given
    <3>. QED
      BY <3>4, <3>5, Zenon
  <2>. QED
    BY <2>1, <2>2, Zenon
<1>. QED
  BY <1>1, <1>2, Zenon DEF OriginInv


\* task.update makes no part: it moves one.
LEMMA FeedMade ==
    ASSUME PartInv, NEW e \in Ends, NEW ts \in Seq(Part), NEW room \in BOOLEAN, Feed(e, ts, room)
    PROVE  \A p \in Made' : p \in Made \/ \E k \in DOMAIN ts : p = ts[k]
<1>0. tasks \in [Ends -> Seq(Part)]
  BY Zenon DEF PartInv
<1>1. CASE room /\ ts # <<>>
  <2>1. tasks' = [tasks EXCEPT ![e] = Tail(ts)] /\ net' = net \cup {Head(ts)}
    BY <1>1 DEF Feed
  <2>2. 1 \in DOMAIN ts /\ Head(ts) = ts[1]
    BY <1>1
  <2>3. \A k \in DOMAIN Tail(ts) : k + 1 \in DOMAIN ts /\ Tail(ts)[k] = ts[k + 1]
    BY <1>1
  <2>4. \A e1 \in Ends : e1 # e => tasks'[e1] = tasks[e1]
    BY <1>0, <2>1
  <2>5. tasks'[e] = Tail(ts)
    BY <1>0, <2>1
  <2>. QED
    <3>. SUFFICES ASSUME NEW p \in Made' PROVE p \in Made \/ \E k \in DOMAIN ts : p = ts[k]
      BY Zenon
    <3>1. CASE p \in net'
      BY <2>1, <2>2, <3>1 DEF Made
    <3>2. ASSUME NEW e1 \in Ends, NEW k \in DOMAIN tasks'[e1], p = tasks'[e1][k]
          PROVE  p \in Made \/ \E j \in DOMAIN ts : p = ts[j]
      <4>1. CASE e1 = e
        BY <2>3, <2>5, <3>2, <4>1, Zenon
      <4>2. CASE e1 # e
        BY <2>4, <3>2, <4>2 DEF Made
      <4>. QED
        BY <4>1, <4>2
    <3>. QED
      BY <3>1, <3>2 DEF Made
<1>2. CASE ~(room /\ ts # <<>>)
  <2>1. tasks' = [tasks EXCEPT ![e] = ts] /\ net' = net
    BY <1>2 DEF Feed
  <2>2. tasks'[e] = ts /\ \A e1 \in Ends : e1 # e => tasks'[e1] = tasks[e1]
    BY <1>0, <2>1
  <2>. QED
    BY <2>1, <2>2 DEF Made
<1>. QED
  BY <1>1, <1>2

\* The number of a new part is above those of the connection it was read from.
LEMMA NumberingGrows ==
    ASSUME NEW l \in Entries, NEW parts, NEW g, Numbering(g, l, parts), NEW chunk \in Chunks,
           NEW n \in Nat \ {0}, \A k \in DOMAIN g : g[k] < n,
           NEW p, p.tidx = n, p.chunk = chunk, NEW more, \A q \in more : q \in parts \/ q = p
    PROVE  \E h : /\ Numbering(h, NumberedRead(l, chunk, n), more)
                  /\ \A k \in DOMAIN h : h[k] <= n
<1>. DEFINE r == Append(l.read, chunk)
            m == Len(l.read)
            first == IF l.first = 0 THEN n ELSE l.first
            h == [k \in 1 .. m + 1 |-> IF k = m + 1 THEN n ELSE g[k]]
            a == NumberedRead(l, chunk, n)
<1>1. l.read \in Seq(Chunks) /\ m \in Nat /\ DOMAIN l.read = 1 .. m /\ l.first \in Nat
  BY DEF Entries
<1>2. a.read = r /\ a.first = first
  BY DEF NumberedRead, Entries
<1>3. /\ DOMAIN g = 1 .. m /\ g \in [1 .. m -> Nat \ {0}]
      /\ \A x, y \in 1 .. m : x < y => g[x] < g[y]
      /\ 1 \in 1 .. m => l.first = g[1]
      /\ 1 .. m = {} => l.first = 0
      /\ \A q \in parts : \E k \in 1 .. m : g[k] = q.tidx /\ l.read[k] = q.chunk
      /\ \A k \in 1 .. m : g[k] < n
  BY <1>1, Zenon DEF Numbering
<1>4. /\ DOMAIN r = 1 .. m + 1 /\ r[m + 1] = chunk /\ \A k \in 1 .. m : r[k] = l.read[k]
  BY <1>1
<1>5. /\ DOMAIN h = 1 .. m + 1 /\ h[m + 1] = n /\ \A k \in 1 .. m : h[k] = g[k]
      /\ h \in [1 .. m + 1 -> Nat \ {0}]
  BY <1>1, <1>3
<1>6. 1 \in 1 .. m + 1 /\ 1 .. m + 1 # {} /\ m + 1 \in 1 .. m + 1
  BY <1>1
<1>7. first = h[1]
  <2>1. CASE m = 0
    BY <2>1, <1>3, <1>5
  <2>2. CASE m # 0
    <3>1. 1 \in 1 .. m
      BY <2>2, <1>1
    <3>2. l.first = g[1] /\ g[1] # 0 /\ h[1] = g[1]
      BY <3>1, <1>3, <1>5
    <3>. QED
      BY <3>2
  <2>. QED
    BY <2>1, <2>2, Zenon
<1>. HIDE DEF m, r, first, h, a
<1>8. \A x, y \in 1 .. m + 1 : x < y => h[x] < h[y]
  <2>. SUFFICES ASSUME NEW x \in 1 .. m + 1, NEW y \in 1 .. m + 1, x < y PROVE h[x] < h[y]
    OBVIOUS
  <2>1. x \in 1 .. m
    BY <1>1
  <2>2. CASE y = m + 1
    BY <2>1, <2>2, <1>3, <1>5, Zenon
  <2>3. CASE y # m + 1
    <3>1. y \in 1 .. m
      BY <2>3, <1>1
    <3>. QED
      BY <2>1, <3>1, <1>3, <1>5, Zenon
  <2>. QED
    BY <2>2, <2>3
<1>9. \A q \in more : \E k \in 1 .. m + 1 : h[k] = q.tidx /\ r[k] = q.chunk
  <2>. SUFFICES ASSUME NEW q \in more PROVE \E k \in 1 .. m + 1 : h[k] = q.tidx /\ r[k] = q.chunk
    BY Zenon
  <2>1. CASE q = p
    BY <2>1, <1>4, <1>5, <1>6, Zenon
  <2>2. CASE q \in parts
    <3>1. PICK k \in 1 .. m : g[k] = q.tidx /\ l.read[k] = q.chunk
      BY <2>2, <1>3, Zenon
    <3>2. k \in 1 .. m + 1
      BY <1>1
    <3>. QED
      BY <3>1, <3>2, <1>4, <1>5, Zenon
  <2>. QED
    BY <2>1, <2>2, Zenon
<1>10. \A k \in 1 .. m + 1 : h[k] <= n
  <2>. SUFFICES ASSUME NEW k \in 1 .. m + 1 PROVE h[k] <= n
    OBVIOUS
  <2>1. CASE k = m + 1
    BY <2>1, <1>5
  <2>2. CASE k # m + 1
    <3>1. k \in 1 .. m
      BY <2>2, <1>1
    <3>2. g[k] \in Nat /\ g[k] < n /\ h[k] = g[k]
      BY <3>1, <1>3, <1>5, Zenon
    <3>. QED
      BY <3>2
  <2>. QED
    BY <2>1, <2>2
<1>11. Numbering(h, a, more)
  BY <1>2, <1>4, <1>5, <1>6, <1>7, <1>8, <1>9 DEF Numbering
<1>. QED
  BY <1>5, <1>10, <1>11, Zenon DEF a

\* A read keeps the numbering, unless its chunk is taken for one that waits.
LEMMA ReadOrigin ==
    ASSUME ConnInv, PartInv, LogInv, OriginInv, NEW e \in Ends, NEW f \in Fds,
           NEW chunk \in Chunks, NEW room \in BOOLEAN, Read(e, f, chunk, room), PartInv'
    PROVE  OriginInv'
<1>. DEFINE i == conn[e][f].id
            n == tidx[e] + 1
            p == ReadPart(e, f, chunk)
<1>1. conn[e][f] # Closed /\ conn' = conn
  BY Zenon DEF Read
<1>2. i \in DOMAIN log /\ i \in Nat /\ log[i] \in Entries /\ log \in Seq(Entries)
  <2>1. log \in Seq(Entries)
    BY Zenon DEF LogInv
  <2>2. i \in DOMAIN log
    BY <1>1, Zenon DEF ConnInv, Good
  <2>. HIDE DEF i
  <2>. QED
    BY <2>1, <2>2
<1>3. /\ n \in Nat \ {0} /\ p \in Part /\ p.tidx = n /\ p.chunk = chunk /\ p.from = i
      /\ tidx \in [Ends -> Nat] /\ tasks[e] \in Seq(Part)
  <2>1. tidx \in [Ends -> Nat] /\ tasks[e] \in Seq(Part)
    BY DEF PartInv
  <2>2. n \in Nat \ {0}
    BY <2>1
  <2>3. p = [src |-> e, fd |-> f, tidx |-> n, chunk |-> chunk, from |-> i]
    BY DEF ReadPart
  <2>. HIDE DEF i, n, p
  <2>. QED
    BY <1>2, <2>1, <2>2, <2>3, Zenon DEF Part
<1>4. MergedStep(e, f, chunk) \/ NumberedStep(e, f, chunk, room)
  BY <1>2, ReadCases, Zenon
<1>5. CASE MergedStep(e, f, chunk)
  <2>. DEFINE a == MergedRead(log[i], chunk)
  <2>1. log' = [log EXCEPT ![i] = a] /\ tidx' = tidx /\ tasks' = tasks /\ net' = net
    BY <1>5, Zenon DEF MergedStep
  <2>2. a.merged /\ a.out = log[i].out
    BY <1>2, Zenon DEF MergedRead, Entries
  <2>. HIDE DEF a, i
  <2>3. DOMAIN log' = DOMAIN log /\ log'[i] = a /\ \A j \in DOMAIN log : j # i => log'[j] = log[j]
    BY <1>2, <2>1
  <2>4. Made' = Made
    BY <2>1, Zenon DEF Made
  <2>5. \A p1 \in Made' : p1.from \in DOMAIN log'
    BY <2>3, <2>4, Zenon DEF OriginInv
  <2>6. \A j \in DOMAIN log' : \A k \in DOMAIN log'[j].out : log'[j].out[k] \in net'
    BY <2>1, <2>2, <2>3, <1>2, Zenon DEF OriginInv
  <2>7. ASSUME NEW j \in DOMAIN log', ~log'[j].merged
        PROVE  \E g : Numbering(g, log'[j], MadeFrom(j)') /\ Given(g, j)'
    <3>1. j # i
      BY <2>2, <2>3, <2>7, Zenon
    <3>2. log'[j] = log[j] /\ j \in DOMAIN log
      BY <2>3, <3>1
    <3>3. PICK g : Numbering(g, log[j], MadeFrom(j)) /\ Given(g, j)
      BY <2>7, <3>2, Zenon DEF OriginInv
    <3>4. MadeFrom(j)' = MadeFrom(j)
      BY <2>4, Zenon DEF MadeFrom
    <3>5. Given(g, j)'
      BY <1>1, <2>1, <3>3, Zenon DEF Given
    <3>. QED
      BY <3>2, <3>3, <3>4, <3>5
  <2>. QED
    BY <2>5, <2>6, <2>7 DEF OriginInv
<1>6. CASE NumberedStep(e, f, chunk, room)
  <2>. DEFINE a == NumberedRead(log[i], chunk, n)
              ts == Append(tasks[e], p)
  <2>1. log' = [log EXCEPT ![i] = a] /\ tidx' = [tidx EXCEPT ![e] = n] /\ Feed(e, ts, room)
    BY <1>6, Zenon DEF NumberedStep
  <2>2. SamePassed(a, log[i])
    BY <1>2, <1>3, ReadEntry, Zenon
  <2>3. a.out = log[i].out
    BY <2>2 DEF SamePassed
  <2>4. a.merged = log[i].merged
    BY <1>2, Zenon DEF NumberedRead, Entries
  <2>5. ts \in Seq(Part) /\ \A k \in DOMAIN ts : ts[k] = p \/ \E j \in DOMAIN tasks[e] : ts[k] = tasks[e][j]
    <3>. HIDE DEF p
    <3>. QED
      BY <1>3
  <2>6. \A q \in Made' : q \in Made \/ q = p
    <3>. HIDE DEF ts, p
    <3>1. \A q \in Made' : q \in Made \/ \E k \in DOMAIN ts : q = ts[k]
      BY <2>1, <2>5, FeedMade, Zenon
    <3>2. \A k \in DOMAIN ts : ts[k] = p \/ ts[k] \in Made
      BY <2>5 DEF Made
    <3>. QED
      BY <3>1, <3>2, Zenon
  <2>7. net \subseteq net'
    <3>. HIDE DEF ts
    <3>. QED
      BY <2>1 DEF Feed
  <2>8. \A e1 \in Ends : tidx'[e1] \in Nat /\ tidx[e1] \in Nat /\ tidx[e1] <= tidx'[e1]
    <3>1. tidx[e] \in Nat /\ n = tidx[e] + 1
      BY <1>3
    <3>. HIDE DEF n, p, i, a, ts
    <3>2. tidx' = [tidx EXCEPT ![e] = n] /\ tidx \in [Ends -> Nat]
      BY <1>3, <2>1, Zenon
    <3>. QED
      BY <3>1, <3>2
  <2>9. tidx'[e] = n
    BY <1>3, <2>1
  <2>. HIDE DEF a, ts, i, p
  <2>10. DOMAIN log' = DOMAIN log /\ log'[i] = a /\ \A j \in DOMAIN log : j # i => log'[j] = log[j]
    BY <1>2, <2>1, Zenon
  <2>11. \A q \in Made' : q.from \in DOMAIN log'
    BY <1>2, <1>3, <2>6, <2>10, Zenon DEF OriginInv
  <2>12. \A j \in DOMAIN log' : \A k \in DOMAIN log'[j].out : log'[j].out[k] \in net'
    BY <2>3, <2>7, <2>10, <1>2, Zenon DEF OriginInv
  <2>13. ASSUME NEW j \in DOMAIN log', ~log'[j].merged
         PROVE  \E g : Numbering(g, log'[j], MadeFrom(j)') /\ Given(g, j)'
    <3>1. CASE j # i
      <4>1. log'[j] = log[j] /\ j \in DOMAIN log
        BY <2>10, <3>1, Zenon
      <4>2. PICK g : Numbering(g, log[j], MadeFrom(j)) /\ Given(g, j)
        BY <2>13, <4>1, Zenon DEF OriginInv
      <4>3. MadeFrom(j)' \subseteq MadeFrom(j)
        BY <1>3, <2>6, <3>1, Zenon DEF MadeFrom
      <4>4. Numbering(g, log'[j], MadeFrom(j)')
        BY <4>1, <4>2, <4>3, Zenon DEF Numbering
      <4>5. ASSUME NEW e1 \in Ends, NEW f1 \in Fds, conn'[e1][f1] # Closed, conn'[e1][f1].id = j,
                   NEW k \in DOMAIN g
            PROVE  g[k] <= tidx'[e1]
        <5>1. g[k] \in Nat /\ g[k] <= tidx[e1]
          BY <1>1, <4>2, <4>5, Zenon DEF Given, Numbering
        <5>. QED
          BY <5>1, <2>8
      <4>6. Given(g, j)'
        BY <4>5, Zenon DEF Given
      <4>. QED
        BY <4>4, <4>6
    <3>2. CASE j = i
      <4>1. ~log[i].merged
        BY <2>4, <2>10, <2>13, <3>2, Zenon
      <4>2. PICK g : Numbering(g, log[i], MadeFrom(j)) /\ Given(g, j)
        BY <1>2, <3>2, <4>1, Zenon DEF OriginInv
      <4>3. \A k \in DOMAIN g : g[k] < n
        <5>1. \A k \in DOMAIN g : g[k] \in Nat /\ g[k] <= tidx[e]
          BY <1>1, <3>2, <4>2, Zenon DEF Given, Numbering, i
        <5>2. tidx[e] \in Nat
          BY <1>3, Zenon
        <5>. QED
          BY <5>1, <5>2
      <4>4. \A q \in MadeFrom(j)' : q \in MadeFrom(j) \/ q = p
        BY <2>6, Zenon DEF MadeFrom
      <4>. HIDE DEF n
      <4>5. PICK h : Numbering(h, a, MadeFrom(j)') /\ \A k \in DOMAIN h : h[k] <= n
        BY <1>2, <1>3, <4>2, <4>3, <4>4, NumberingGrows, Zenon DEF a
      <4>6. Given(h, j)'
        <5>1. \A e1 \in Ends, f1 \in Fds : conn[e1][f1] # Closed /\ conn[e1][f1].id = j => e1 = e
          BY <1>1, <3>2 DEF ConnInv, i
        <5>. QED
          BY <1>1, <2>9, <4>5, <5>1, Zenon DEF Given
      <4>. QED
        BY <2>10, <3>2, <4>5, <4>6
    <3>. QED
      BY <3>1, <3>2
  <2>. QED
    BY <2>11, <2>12, <2>13 DEF OriginInv
<1>. QED
  BY <1>4, <1>5, <1>6, Zenon

\* At the start nothing has been made.
LEMMA OriginInit == Init => OriginInv
<1>. SUFFICES ASSUME Init PROVE OriginInv
  OBVIOUS
<1>1. DOMAIN log = {}
  BY DEF Init
<1>2. Made = {}
  BY DEF Init, Made
<1>. QED
  BY <1>1, <1>2 DEF OriginInv

\* A part that is passed on, through an open connection or a new one.
LEMMA SendOrigin ==
    ASSUME ConnInv, PartInv, LogInv, OriginInv, NEW p \in net, Arrive(p) \/ Request(p), PartInv'
    PROVE  OriginInv'
<1>0. QueueSize \in Nat \ {0}
  BY StreamAssumption, Zenon
<1>1. tidx' = tidx /\ tasks' = tasks /\ net' = net
  BY DEF Arrive, Request
<1>2. Made' = Made
  BY <1>1, Zenon DEF Made
<1>3. tidx \in [Ends -> Nat] /\ \A e \in Ends : tidx[e] <= tidx'[e]
  BY <1>1 DEF PartInv
<1>4. p.fd \in Fds /\ Other(p.src) \in Ends /\ "endpoint" \in Ends
  BY Zenon DEF PartInv, Part, Other, Ends
<1>5. \A i \in DOMAIN log : Consecutive(log[i].out) /\ \A k \in DOMAIN log[i].out : log[i].out[k] \in net
  BY DEF LogInv, OriginInv
<1>6. CASE Arrive(p)
  <2>. DEFINE e == Other(p.src)
              c == conn[e][p.fd]
              d == Dispatched(Queued(c, p))
  <2>1. c # Closed /\ p.tidx \notin Numbers(c.queue)
    BY <1>6, Zenon DEF Arrive
  <2>2. conn' = [conn EXCEPT ![e][p.fd] = d] /\ log' = [log EXCEPT ![c.id] = After(@, c, p)]
    BY <1>6, Zenon DEF Arrive, Send
  <2>3. Good(c, log, net) /\ log \in Seq(Entries)
    BY <1>4, <2>1, Zenon DEF ConnInv, LogInv
  <2>. HIDE DEF d
  <2>4. /\ conn'[e][p.fd] = d
        /\ \A e1 \in Ends, f1 \in Fds : e1 # e \/ f1 # p.fd => conn'[e1][f1] = conn[e1][f1]
    BY <1>4, <2>2 DEF ConnInv
  <2>. HIDE DEF c, e
  <2>5. d.id = c.id
    BY <1>0, <1>1, <1>5, <2>1, <2>2, <2>3, SendGood, Zenon DEF d
  <2>6. /\ DOMAIN log' = DOMAIN log
        /\ \A i \in DOMAIN log :
              /\ log'[i].read = log[i].read /\ log'[i].first = log[i].first
              /\ log'[i].merged = log[i].merged
              /\ \A k \in DOMAIN log'[i].out : log'[i].out[k] \in net
    BY <1>0, <1>5, <2>1, <2>2, <2>3, SendFrom, Zenon
  <2>7. \A e1 \in Ends, f1 \in Fds : conn'[e1][f1] # Closed =>
            conn[e1][f1] # Closed /\ conn[e1][f1].id = conn'[e1][f1].id
    BY <2>1, <2>4, <2>5, Zenon DEF c
  <2>8. DOMAIN log' \ DOMAIN log = {} /\ DOMAIN log \subseteq DOMAIN log' /\ Made' \subseteq Made
    BY <1>2, <2>6, Zenon
  <2>9. \A i \in DOMAIN log' : \A k \in DOMAIN log'[i].out : log'[i].out[k] \in net'
    BY <1>1, <2>6
  <2>. QED
    BY <1>1, <1>3, <2>6, <2>7, <2>8, <2>9, OriginKeeps, Zenon
<1>7. CASE Request(p)
  <2>. DEFINE c == Opened(Len(log) + 1)
              ls == Append(log, Entry)
              d == Dispatched(Queued(c, p))
  <2>1. conn' = [conn EXCEPT !["endpoint"][p.fd] = d] /\ log' = [ls EXCEPT ![c.id] = After(@, c, p)]
    BY <1>7, Zenon DEF Request, Send
  <2>2. /\ ls \in Seq(Entries) /\ DOMAIN log \subseteq DOMAIN ls /\ c.id \notin DOMAIN log
        /\ Good(c, ls, net) /\ c.queue = <<>> /\ \A i \in DOMAIN log : ls[i] = log[i]
        /\ \A i \in DOMAIN ls : Consecutive(ls[i].out)
    BY NewGood
  <2>3. \A i \in DOMAIN ls \ DOMAIN log : ls[i] = Entry
    BY DEF LogInv
  <2>4. Entry.read = <<>> /\ Entry.first = 0 /\ Entry.out = <<>>
    BY DEF Entry
  <2>. HIDE DEF c, ls, d
  <2>5. /\ conn'["endpoint"][p.fd] = d
        /\ \A e1 \in Ends, f1 \in Fds :
              e1 # "endpoint" \/ f1 # p.fd => conn'[e1][f1] = conn[e1][f1]
    BY <1>4, <2>1, Zenon DEF ConnInv
  <2>6. p.tidx \notin Numbers(c.queue)
    BY <2>2 DEF Numbers
  <2>7. \A i \in DOMAIN ls : \A k \in DOMAIN ls[i].out : ls[i].out[k] \in net
    <3>1. ASSUME NEW i \in DOMAIN ls, i \notin DOMAIN log PROVE DOMAIN ls[i].out = {}
      BY <2>3, <2>4, <3>1
    <3>. QED
      BY <1>5, <2>2, <3>1
  <2>8. d.id = c.id
    BY <1>0, <1>1, <2>1, <2>2, <2>6, SendGood, Zenon DEF d
  <2>9. /\ DOMAIN log' = DOMAIN ls
        /\ \A i \in DOMAIN ls :
              /\ log'[i].read = ls[i].read /\ log'[i].first = ls[i].first
              /\ log'[i].merged = ls[i].merged
              /\ \A k \in DOMAIN log'[i].out : log'[i].out[k] \in net
    BY <1>0, <2>1, <2>2, <2>6, <2>7, SendFrom, Zenon
  <2>10. \A i \in DOMAIN log : /\ log'[i].read = log[i].read /\ log'[i].first = log[i].first
                               /\ log'[i].merged = log[i].merged
    BY <2>2, <2>9, Zenon
  <2>11. \A i \in DOMAIN log' \ DOMAIN log : log'[i].read = <<>> /\ log'[i].first = 0
    BY <2>3, <2>4, <2>9, Zenon
  <2>12. \A e1 \in Ends, f1 \in Fds : conn'[e1][f1] # Closed =>
            \/ conn'[e1][f1].id \notin DOMAIN log
            \/ conn[e1][f1] # Closed /\ conn[e1][f1].id = conn'[e1][f1].id
    BY <2>2, <2>5, <2>8, Zenon
  <2>13. DOMAIN log \subseteq DOMAIN log' /\ Made' \subseteq Made
    BY <1>2, <2>2, <2>9, Zenon
  <2>14. \A i \in DOMAIN log' : \A k \in DOMAIN log'[i].out : log'[i].out[k] \in net'
    BY <1>1, <2>9, Zenon
  <2>. QED
    BY <1>1, <1>3, <2>10, <2>11, <2>12, <2>13, <2>14, OriginKeeps, Zenon
<1>. QED
  BY <1>6, <1>7

\* Every step keeps track of where the content comes from.
LEMMA OriginStep == StreamInv /\ OriginInv /\ [Next]_vars /\ StreamInv' => OriginInv'
<1>. SUFFICES ASSUME ConnInv, PartInv, LogInv, OriginInv, [Next]_vars, PartInv' PROVE OriginInv'
  BY Zenon DEF StreamInv
<1>0. /\ tidx \in [Ends -> Nat] /\ tidx' \in [Ends -> Nat]
      /\ \A i \in DOMAIN log : \A k \in DOMAIN log[i].out : log[i].out[k] \in net
  BY DEF PartInv, OriginInv
<1>1. ASSUME NEW e \in Ends, NEW f \in Fds, NEW chunk \in Chunks, NEW room \in BOOLEAN,
             Read(e, f, chunk, room)
      PROVE  OriginInv'
  BY <1>1, ReadOrigin
<1>2. ASSUME NEW p \in net, Arrive(p) \/ Request(p) PROVE OriginInv'
  BY <1>2, SendOrigin
<1>3. ASSUME NEW f \in Fds, Accept(f) PROVE OriginInv'
  <2>1. /\ tidx' = tidx /\ tasks' = tasks /\ net' = net
        /\ log' = Append(log, Entry) /\ conn' = [conn EXCEPT !["tunnel"][f] = Opened(Len(log) + 1)]
    BY <1>3 DEF Accept
  <2>2. Made' = Made
    BY <2>1 DEF Made
  <2>3. /\ DOMAIN log \subseteq DOMAIN log' /\ \A i \in DOMAIN log : log'[i] = log[i]
        /\ \A i \in DOMAIN log' \ DOMAIN log : log'[i] = Entry
    BY <2>1 DEF LogInv
  <2>4. Entry.read = <<>> /\ Entry.first = 0 /\ Entry.out = <<>>
    BY DEF Entry
  <2>5. Opened(Len(log) + 1).id \notin DOMAIN log
    BY NewGood, Zenon
  <2>6. \A e1 \in Ends, f1 \in Fds : conn'[e1][f1] # Closed =>
            \/ conn'[e1][f1].id \notin DOMAIN log
            \/ conn[e1][f1] # Closed /\ conn[e1][f1].id = conn'[e1][f1].id
    <3>1. PICK o : o = Opened(Len(log) + 1)
      OBVIOUS
    <3>2. \A e1 \in Ends, f1 \in Fds : conn'[e1][f1] = o \/ conn'[e1][f1] = conn[e1][f1]
      BY <2>1, <3>1, Zenon DEF ConnInv
    <3>. QED
      BY <2>5, <3>1, <3>2
  <2>7. \A i \in DOMAIN log' : \A k \in DOMAIN log'[i].out : log'[i].out[k] \in net'
    <3>1. ASSUME NEW i \in DOMAIN log', i \notin DOMAIN log PROVE DOMAIN log'[i].out = {}
      BY <2>3, <2>4, <3>1
    <3>. QED
      BY <1>0, <2>1, <2>3, <3>1, Zenon
  <2>8. \A i \in DOMAIN log' \ DOMAIN log : log'[i].read = <<>> /\ log'[i].first = 0
    BY <2>3, <2>4, Zenon
  <2>9. \A e \in Ends : tidx[e] <= tidx'[e]
    BY <1>0, <2>1
  <2>10. \A i \in DOMAIN log : /\ log'[i].read = log[i].read /\ log'[i].first = log[i].first
                               /\ log'[i].merged = log[i].merged
    BY <2>3, Zenon
  <2>11. Made' \subseteq Made
    BY <2>2
  <2>. QED
    BY <1>0, <2>3, <2>6, <2>7, <2>8, <2>9, <2>10, <2>11, OriginKeeps, Zenon
<1>4. ASSUME log' = log, net \subseteq net', Made' \subseteq Made,
             \A e \in Ends, f \in Fds : conn'[e][f] # Closed => conn'[e][f] = conn[e][f],
             \A e \in Ends : tidx[e] <= tidx'[e]
      PROVE  OriginInv'
  <2>1. /\ DOMAIN log \subseteq DOMAIN log' /\ DOMAIN log' \ DOMAIN log = {}
        /\ \A i \in DOMAIN log' : \A k \in DOMAIN log'[i].out : log'[i].out[k] \in net'
        /\ \A e \in Ends, f \in Fds : conn'[e][f] # Closed =>
               conn[e][f] # Closed /\ conn[e][f].id = conn'[e][f].id
    BY <1>0, <1>4
  <2>2. \A i \in DOMAIN log : /\ log'[i].read = log[i].read /\ log'[i].first = log[i].first
                              /\ log'[i].merged = log[i].merged
    BY <1>4, Zenon
  <2>. QED
    BY <1>0, <1>4, <2>1, <2>2, OriginKeeps, Zenon
<1>5. ASSUME NEW e \in Ends, Resume(e) PROVE OriginInv'
  <2>1. Feed(e, tasks[e], TRUE) /\ conn' = conn /\ tidx' = tidx /\ log' = log /\ tasks[e] \in Seq(Part)
    BY <1>5, Zenon DEF Resume, PartInv
  <2>2. \A p \in Made' : p \in Made \/ \E k \in DOMAIN tasks[e] : p = tasks[e][k]
    BY <2>1, FeedMade, Zenon
  <2>3. \A k \in DOMAIN tasks[e] : tasks[e][k] \in Made
    BY <2>1 DEF Made
  <2>4. net \subseteq net'
    BY <2>1 DEF Feed
  <2>5. Made' \subseteq Made
    BY <2>2, <2>3, Zenon
  <2>. QED
    BY <1>0, <1>4, <2>1, <2>4, <2>5
<1>6. ASSUME NEW e \in Ends, OtherTask(e) PROVE OriginInv'
  <2>1. tidx' = [tidx EXCEPT ![e] = @ + 1] /\ conn' = conn /\ tasks' = tasks /\ net' = net /\ log' = log
    BY <1>6 DEF OtherTask
  <2>2. Made' = Made
    BY <2>1 DEF Made
  <2>3. \A e1 \in Ends : tidx[e1] <= tidx'[e1]
    BY <1>0, <2>1
  <2>. QED
    BY <1>4, <2>1, <2>2, <2>3, Zenon
<1>7. ASSUME NEW e \in Ends, NEW f \in Fds, Shutdown(e, f) PROVE OriginInv'
  <2>1. /\ conn' = [conn EXCEPT ![e][f] = Closed]
        /\ tidx' = tidx /\ tasks' = tasks /\ net' = net /\ log' = log
    BY <1>7 DEF Shutdown
  <2>2. \A e1 \in Ends, f1 \in Fds : conn'[e1][f1] # Closed => conn'[e1][f1] = conn[e1][f1]
    BY <2>1, Zenon DEF ConnInv
  <2>3. Made' = Made /\ \A e1 \in Ends : tidx[e1] <= tidx'[e1]
    BY <1>0, <2>1 DEF Made
  <2>. QED
    BY <1>4, <2>1, <2>2, <2>3, Zenon
<1>8. CASE UNCHANGED vars
  <2>1. conn' = conn /\ tidx' = tidx /\ tasks' = tasks /\ net' = net /\ log' = log
    BY <1>8, Zenon DEF vars
  <2>2. Made' = Made /\ \A e1 \in Ends : tidx[e1] <= tidx'[e1]
    BY <1>0, <2>1 DEF Made
  <2>. QED
    BY <1>4, <2>1, <2>2
<1>. QED
  BY <1>1, <1>2, <1>3, <1>5, <1>6, <1>7, <1>8, Zenon DEF Next

\* Parts of one connection with consecutive numbers from its first one are its first reads.
LEMMA FirstReads ==
    ASSUME NEW out \in Seq(Part), out # <<>>, Consecutive(out), NEW l \in Entries, NEW parts, NEW g,
           Numbering(g, l, parts), \A k \in DOMAIN out : out[k] \in parts, out[1].tidx = l.first
    PROVE  StartsWith(l.read, out)
<1>. DEFINE n == Len(out)
            m == Len(l.read)
            B == {k \in 1 .. n : ~(k <= m /\ g[k] = out[k].tidx)}
<1>1. /\ n \in Nat /\ n >= 1 /\ DOMAIN out = 1 .. n
      /\ l.read \in Seq(Chunks) /\ m \in Nat /\ DOMAIN l.read = 1 .. m
  BY DEF Entries
<1>2. \A k \in 1 .. n : out[k].tidx \in Nat /\ out[k].chunk \in Chunks
  <2>1. \A k \in 1 .. n : out[k] \in Part
    BY <1>1
  <2>. QED
    BY <2>1 DEF Part
<1>3. /\ g \in [1 .. m -> Nat \ {0}] /\ DOMAIN g = 1 .. m
      /\ \A a, b \in 1 .. m : a < b => g[a] < g[b]
      /\ \A k \in 1 .. n : \E j \in 1 .. m : g[j] = out[k].tidx /\ l.read[j] = out[k].chunk
      /\ 1 \in 1 .. m => l.first = g[1]
  BY <1>1, Zenon DEF Numbering
<1>4. 1 \in 1 .. m /\ g[1] = out[1].tidx
  <2>1. 1 \in 1 .. n
    BY <1>1
  <2>2. PICK j \in 1 .. m : g[j] = out[1].tidx
    BY <2>1, <1>3
  <2>3. 1 \in 1 .. m
    BY <2>2, <1>1
  <2>. QED
    BY <2>3, <1>3
<1>5. B = {}
  <2>. SUFFICES ASSUME B # {} PROVE FALSE
    OBVIOUS
  <2>1. PICK k \in B : \A j \in B : k <= j
    <3>1. B \in SUBSET Nat
      BY <1>1
    <3>. HIDE DEF B
    <3>. QED
      BY <3>1, LeastExists, Zenon
  <2>2. k \in 1 .. n /\ ~(k <= m /\ g[k] = out[k].tidx)
    OBVIOUS
  <2>3. k # 1
    BY <2>2, <1>4, <1>1
  <2>. DEFINE h == k - 1
  <2>4. h \in 1 .. n /\ h < k /\ h \in 1 .. n - 1 /\ k = h + 1
    BY <2>2, <2>3, <1>1
  <2>5. h \notin B
    BY <2>1, <2>4, <1>1, SMTT(30)
  <2>6. h <= m /\ g[h] = out[h].tidx
    BY <2>4, <2>5
  <2>7. out[k].tidx = out[h].tidx + 1
    BY <2>4, Zenon DEF Consecutive
  <2>8. PICK j \in 1 .. m : g[j] = out[k].tidx
    BY <2>2, <1>3
  <2>. HIDE DEF h, n, m, B
  <2>9. h \in 1 .. m /\ g[h] \in Nat /\ g[j] = g[h] + 1 /\ h \in Nat
    <3>1. h \in Nat /\ h \in 1 .. m
      BY <1>1, <2>4, <2>6
    <3>2. g[h] \in Nat
      BY <1>3, <3>1, Zenon
    <3>. QED
      BY <2>6, <2>7, <2>8, <3>1, <3>2, Zenon
  <2>10. h < j
    <3>1. ~(j < h) /\ j # h
      BY <1>3, <2>9
    <3>. QED
      BY <3>1, <2>9, <1>1
  <2>11. k \in 1 .. m /\ k <= j /\ g[h] < g[k] /\ g[k] \in Nat
    <3>1. k \in 1 .. m /\ k <= j /\ h < k
      BY <1>1, <2>4, <2>9, <2>10
    <3>. QED
      BY <3>1, <1>3, <2>9, Zenon
  <2>12. ~(k < j)
    <3>. SUFFICES ASSUME k < j PROVE FALSE
      OBVIOUS
    <3>1. g[k] < g[j]
      BY <1>3, <2>11
    <3>. QED
      BY <3>1, <2>9, <2>11
  <2>13. k = j
    BY <1>1, <2>11, <2>12
  <2>. QED
    BY <1>1, <2>2, <2>8, <2>11, <2>13
<1>6. \A k \in 1 .. n : k \in 1 .. m /\ g[k] = out[k].tidx
  BY <1>1, <1>5
<1>. HIDE DEF B, n, m
<1>7. ASSUME NEW k \in 1 .. n PROVE l.read[k] = out[k].chunk
  <2>1. PICK j \in 1 .. m : g[j] = out[k].tidx /\ l.read[j] = out[k].chunk
    BY <1>3, Zenon
  <2>2. k \in 1 .. m /\ g[j] = g[k] /\ g[k] \in Nat
    BY <1>3, <1>6, <2>1
  <2>3. ~(j < k) /\ ~(k < j)
    <3>1. ~(g[k] < g[k]) /\ ~(g[j] < g[k]) /\ ~(g[k] < g[j])
      BY <2>2
    <3>. QED
      BY <1>3, <2>2, <3>1, Zenon
  <2>4. j = k
    BY <1>1, <2>2, <2>3
  <2>. QED
    BY <2>1, <2>4
<1>. QED
  BY <1>1, <1>6, <1>7, Zenon DEF StartsWith, n, m

\* What was passed to connection i is out, and all of it was read from j.
PassedFrom(out, i, j) ==
    i \in DOMAIN log /\ out = log[i].out /\ out # <<>> /\ \A k \in DOMAIN out : out[k].from = j

\* Then it consists of parts that were made of j, in order.
LEMMA PassedFromOne ==
    ASSUME StreamInv, OriginInv, NEW out, NEW i, NEW j, PassedFrom(out, i, j)
    PROVE  /\ out \in Seq(Part) /\ Consecutive(out) /\ \A k \in DOMAIN out : out[k] \in MadeFrom(j)
           /\ j \in DOMAIN log /\ log[j] \in Entries
<1>. USE DEF PassedFrom
<1>0. log \in Seq(Entries)
  BY DEF StreamInv, LogInv
<1>1. Consecutive(out)
  BY DEF StreamInv, LogInv
<1>2. out \in Seq(Part)
  <2>1. log[i] \in Entries
    BY <1>0
  <2>. QED
    BY <2>1 DEF Entries
<1>3. ASSUME NEW k \in DOMAIN out PROVE out[k] \in Made
  <2>1. out[k] \in net
    BY DEF OriginInv
  <2>2. out[k] \in Part
    BY <1>2
  <2>. QED
    BY <2>1, <2>2, Zenon DEF Made
<1>4. 1 \in DOMAIN out
  BY <1>2
<1>5. j \in DOMAIN log
  BY <1>3, <1>4, Zenon DEF OriginInv
<1>6. log[j] \in Entries
  BY <1>0, <1>5
<1>. QED
  BY <1>1, <1>2, <1>3, <1>5, <1>6, Zenon DEF MadeFrom

\* What the service or the client gets through the tunnel is what was sent into it, from
\* the first byte on, for every number of connections, order of arrival and queue size,
\* unless the descriptor changed hands, task.add took a chunk for one that still waited,
\* or the first part to come was not the first one (StreamIsPrefix).
THEOREM ContentIsPrefix == Spec => []StreamIsPrefix
<1>1. ASSUME StreamInv, OriginInv, NEW out, NEW i, NEW j, PassedFrom(out, i, j),
             out[1].tidx = log[j].first, ~log[j].merged
      PROVE  StartsWith(log[j].read, out)
  <2>1. /\ out \in Seq(Part) /\ Consecutive(out) /\ \A k \in DOMAIN out : out[k] \in MadeFrom(j)
        /\ j \in DOMAIN log /\ log[j] \in Entries
    BY <1>1, PassedFromOne, Zenon
  <2>2. PICK g : Numbering(g, log[j], MadeFrom(j))
    BY <1>1, <2>1, Zenon DEF OriginInv
  <2>3. PICK l, parts : l \in Entries /\ l = log[j] /\ parts = MadeFrom(j)
    BY <2>1
  <2>4. /\ Numbering(g, l, parts) /\ \A k \in DOMAIN out : out[k] \in parts
        /\ out[1].tidx = l.first /\ out # <<>>
    BY <1>1, <2>1, <2>2, <2>3, Zenon DEF PassedFrom
  <2>5. StartsWith(l.read, out)
    BY <2>1, <2>3, <2>4, FirstReads
  <2>. QED
    BY <2>3, <2>5
<1>2. StreamInv /\ OriginInv => StreamIsPrefix
  <2>. SUFFICES ASSUME StreamInv, OriginInv, NEW i \in DOMAIN log, log[i].out # <<>>,
                       log[i].out[1].tidx = log[log[i].out[1].from].first,
                       ~log[log[i].out[1].from].merged,
                       \A k \in DOMAIN log[i].out : log[i].out[k].from = log[i].out[1].from
                PROVE  StartsWith(log[log[i].out[1].from].read, log[i].out)
    BY Zenon DEF StreamIsPrefix
  <2>1. PassedFrom(log[i].out, i, log[i].out[1].from)
    BY Zenon DEF PassedFrom
  <2>. QED
    BY <1>1, <2>1, Zenon
<1>. QED
  BY <1>2, OriginInit, OriginStep, StreamInit, StreamStep, PTL DEF Spec

==============================================================================
