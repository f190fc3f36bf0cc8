--------------------------- MODULE FilePartsProofs ---------------------------
(***************************************************************************)
(* Proofs about FileParts, for all values of its constants.                *)
(***************************************************************************)
EXTENDS FileParts, TLAPS, FiniteSetTheorems

(***************************************************************************)
(* A file and its parts.                                                   *)
(***************************************************************************)
\* Multiples of the buffer are ordered as their factors.
LEMMA Multiples ==
    /\ \A i \in Nat : i * TaskBuffer \in Nat /\ (i + 1) * TaskBuffer = i * TaskBuffer + TaskBuffer
    /\ \A i, j \in Nat : i <= j => i * TaskBuffer <= j * TaskBuffer
  BY PartsAssumption

\* os.fileparts: the parts but the last are whole, and the last is not empty.
LEMMA PartCount ==
    ASSUME NEW size \in Nat \ {0}
    PROVE  /\ FileParts(size) \in Nat \ {0}
           /\ size <= FileParts(size) * TaskBuffer
           /\ \A i \in 0 .. FileParts(size) - 1 : i * TaskBuffer < size
<1>. DEFINE q == size \div TaskBuffer
            r == size % TaskBuffer
<1>1. q \in Nat /\ r \in Nat /\ r < TaskBuffer /\ size = q * TaskBuffer + r
  BY PartsAssumption
<1>. HIDE DEF q, r
<1>2. FileParts(size) = q + (IF r # 0 THEN 1 ELSE 0)
  BY DEF FileParts, q, r
<1>3. q * TaskBuffer \in Nat /\ (q + 1) * TaskBuffer = q * TaskBuffer + TaskBuffer
  BY <1>1, Multiples
<1>4. CASE r = 0
  <2>1. FileParts(size) = q /\ size = q * TaskBuffer
    BY <1>1, <1>2, <1>3, <1>4
  <2>2. q # 0
    <3>1. 0 * TaskBuffer = 0
      BY PartsAssumption
    <3>. QED
      BY <2>1, <3>1
  <2>3. ASSUME NEW i \in 0 .. q - 1
        PROVE  i * TaskBuffer < size
    <3>1. i + 1 <= q /\ i \in Nat /\ i + 1 \in Nat
      BY <1>1
    <3>2. (i + 1) * TaskBuffer <= q * TaskBuffer
      BY <3>1, <1>1, Multiples, Zenon
    <3>3. i * TaskBuffer \in Nat /\ (i + 1) * TaskBuffer = i * TaskBuffer + TaskBuffer
      BY <3>1, Multiples, Zenon
    <3>. QED
      BY <3>2, <3>3, <2>1, PartsAssumption
  <2>. QED
    BY <2>1, <2>2, <2>3, <1>1
<1>5. CASE r # 0
  <2>1. FileParts(size) = q + 1
    BY <1>1, <1>2, <1>5
  <2>2. size <= (q + 1) * TaskBuffer /\ q * TaskBuffer < size
    BY <1>1, <1>3, <1>5, PartsAssumption
  <2>3. ASSUME NEW i \in 0 .. q
        PROVE  i * TaskBuffer < size
    <3>1. i \in Nat /\ i <= q
      BY <1>1
    <3>. DEFINE x == i * TaskBuffer
                y == q * TaskBuffer
    <3>2. x <= y /\ x \in Nat /\ y \in Nat /\ y < size
      BY <3>1, <1>1, <2>2, Multiples, Zenon
    <3>. HIDE DEF x, y
    <3>3. x < size
      BY <3>2
    <3>. QED
      BY <3>3 DEF x
  <2>. QED
    BY <2>1, <2>2, <2>3, <1>1
<1>. QED
  BY <1>4, <1>5

\* The bytes of the first k parts of f.
Prefix(f, k) == SubSeq(Content(f), 1, IF k * TaskBuffer > Length[f] THEN Length[f] ELSE k * TaskBuffer)

\* A file is a sequence of as many bytes as its length says.
LEMMA ContentLength ==
    ASSUME NEW f \in Files
    PROVE  /\ Length[f] \in Nat \ {0}
           /\ Content(f) \in Seq({f} \X Nat) /\ Len(Content(f)) = Length[f]
<1>1. Length[f] \in Nat \ {0}
  BY PartsAssumption
<1>2. Content(f) \in [1 .. Length[f] -> {f} \X Nat]
  BY <1>1 DEF Content
<1>. QED
  BY <1>1, <1>2 DEF Content

\* Of a sequence, the bytes up to a and those from there to b are the bytes up to b.
LEMMA Adjacent ==
    ASSUME NEW S, NEW c \in Seq(S), NEW a \in 0 .. Len(c), NEW b \in a .. Len(c)
    PROVE  SubSeq(c, 1, a) \o SubSeq(c, a + 1, b) = SubSeq(c, 1, b)
<1>1. SubSeq(c, 1, a) \in Seq(S) /\ Len(SubSeq(c, 1, a)) = a
  OBVIOUS
<1>2. SubSeq(c, a + 1, b) \in Seq(S) /\ Len(SubSeq(c, a + 1, b)) = b - a
  OBVIOUS
<1>3. SubSeq(c, 1, b) \in Seq(S) /\ Len(SubSeq(c, 1, b)) = b
  OBVIOUS
<1>4. \A i \in 1 .. b : (SubSeq(c, 1, a) \o SubSeq(c, a + 1, b))[i] = SubSeq(c, 1, b)[i]
  BY <1>1, <1>2, <1>3
<1>. QED
  BY <1>1, <1>2, <1>3, <1>4

\* os.filepart: no part is empty, each continues those before it, and all of
\* them are the file.
LEMMA PartByPart ==
    ASSUME NEW f \in Files
    PROVE  /\ Prefix(f, 0) = <<>> /\ Prefix(f, FileParts(Length[f])) = Content(f)
           /\ \A k \in 0 .. FileParts(Length[f]) - 1 :
                 /\ FilePart(f, k * TaskBuffer) # <<>>
                 /\ Prefix(f, k) \o FilePart(f, k * TaskBuffer) = Prefix(f, k + 1)
<1>. DEFINE n == FileParts(Length[f])
            c == Content(f)
<1>0. Length[f] \in Nat \ {0} /\ c \in Seq({f} \X Nat) /\ Len(c) = Length[f]
  BY ContentLength
<1>1. n \in Nat \ {0} /\ Length[f] <= n * TaskBuffer /\ \A i \in 0 .. n - 1 : i * TaskBuffer < Length[f]
  BY <1>0, PartCount
<1>. HIDE DEF n, c
<1>2. Prefix(f, 0) = <<>>
  <2>1. 0 * TaskBuffer = 0
    BY PartsAssumption
  <2>2. Prefix(f, 0) = SubSeq(c, 1, 0)
    BY <2>1, <1>0 DEF Prefix, c
  <2>. QED
    BY <2>2, <1>0
<1>3. Prefix(f, n) = c
  <2>1. n * TaskBuffer \in Nat
    BY <1>1, Multiples
  <2>2. Prefix(f, n) = SubSeq(c, 1, Length[f])
    BY <2>1, <1>0, <1>1 DEF Prefix, c
  <2>. QED
    BY <2>2, <1>0
<1>4. ASSUME NEW k \in 0 .. n - 1
      PROVE  /\ FilePart(f, k * TaskBuffer) # <<>>
             /\ Prefix(f, k) \o FilePart(f, k * TaskBuffer) = Prefix(f, k + 1)
  <2>. DEFINE a == k * TaskBuffer
              b == IF TaskBuffer > Length[f] - a THEN Length[f] ELSE a + TaskBuffer
              d == (k + 1) * TaskBuffer
  <2>0. k \in Nat
    BY <1>1
  <2>1. a \in Nat /\ a < Length[f] /\ d = a + TaskBuffer
    BY <2>0, <1>1, Multiples, Zenon
  <2>. HIDE DEF a, d
  <2>2. b \in Nat /\ a < b /\ b <= Length[f]
    BY <2>1, <1>0, PartsAssumption
  <2>3. FilePart(f, a) = SubSeq(c, a + 1, b)
    BY Zenon DEF FilePart, c
  <2>4. Prefix(f, k) = SubSeq(c, 1, a)
    BY <2>1, <1>0 DEF Prefix, a, c
  <2>5. b = (IF d > Length[f] THEN Length[f] ELSE d)
    BY <2>1, <1>0, PartsAssumption
  <2>6. Prefix(f, k + 1) = SubSeq(c, 1, b)
    BY <2>5, Zenon DEF Prefix, c, d
  <2>. HIDE DEF b
  <2>7. SubSeq(c, 1, a) \o SubSeq(c, a + 1, b) = SubSeq(c, 1, b)
    BY <2>1, <2>2, <1>0, Adjacent, SMTT(30)
  <2>8. SubSeq(c, a + 1, b) # <<>>
    <3>1. Len(SubSeq(c, a + 1, b)) = b - a
      BY <2>1, <2>2, <1>0
    <3>2. b - a # 0 /\ Len(<<>>) = 0
      BY <2>1, <2>2
    <3>. QED
      BY <3>1, <3>2, Zenon
  <2>9. FilePart(f, a) # <<>> /\ Prefix(f, k) \o FilePart(f, a) = Prefix(f, k + 1)
    BY <2>3, <2>4, <2>6, <2>7, <2>8, Zenon
  <2>. QED
    BY <2>9 DEF a
<1>. QED
  BY <1>2, <1>3, <1>4 DEF n, c

(***************************************************************************)
(* The order of the part files.                                            *)
(***************************************************************************)
\* Finitely many parts, told apart by gidx.
Ordered(P) ==
    /\ IsFiniteSet(P)
    /\ \A p \in P : p.name.gidx \in Nat
    /\ \A p, q \in P : p.name.gidx = q.name.gidx => p = q

Before(P, p) == {q \in P : q.name.gidx < p.name.gidx}

\* Of two parts the one with the lower gidx has fewer before it.
LEMMA RankGrows ==
    ASSUME NEW P, Ordered(P), NEW p \in P, NEW q \in P, p.name.gidx < q.name.gidx
    PROVE  /\ Rank(P, p) \in Nat /\ Rank(P, q) \in Nat
           /\ Rank(P, p) < Rank(P, q) /\ Rank(P, q) < Cardinality(P)
<1>. DEFINE A == Before(P, p)
            B == Before(P, q)
<1>0. p.name.gidx \in Nat /\ q.name.gidx \in Nat /\ \A r \in P : r.name.gidx \in Nat
  BY DEF Ordered
<1>1. A \in SUBSET B /\ B \in SUBSET P
  BY <1>0 DEF Before
<1>2. p \in B /\ p \notin A /\ q \in P /\ q \notin B
  BY <1>0 DEF Before
<1>3. IsFiniteSet(B) /\ Cardinality(B) <= Cardinality(P) /\ (Cardinality(P) = Cardinality(B) => P = B)
  BY <1>1, FS_Subset DEF Ordered
<1>4. IsFiniteSet(A) /\ Cardinality(A) <= Cardinality(B) /\ (Cardinality(B) = Cardinality(A) => B = A)
  BY <1>1, <1>3, FS_Subset
<1>5. Cardinality(A) \in Nat /\ Cardinality(B) \in Nat /\ Cardinality(P) \in Nat
  BY <1>3, <1>4, FS_CardinalityType DEF Ordered
<1>6. Cardinality(A) # Cardinality(B) /\ Cardinality(B) # Cardinality(P)
  BY <1>2, <1>3, <1>4
<1>7. Rank(P, p) = Cardinality(A) /\ Rank(P, q) = Cardinality(B)
  BY DEF Rank, Before
<1>. HIDE DEF A, B
<1>. QED
  BY <1>3, <1>4, <1>5, <1>6, <1>7

\* A part has fewer before it than there are, and each number of parts before
\* it belongs to one part.
LEMMA RankIsIndex ==
    ASSUME NEW P, Ordered(P)
    PROVE  /\ Cardinality(P) \in Nat
           /\ \A p \in P : Rank(P, p) \in 0 .. Cardinality(P) - 1
           /\ \A p, q \in P : Rank(P, p) = Rank(P, q) => p = q
<1>1. Cardinality(P) \in Nat
  BY FS_CardinalityType DEF Ordered
<1>2. ASSUME NEW p \in P
      PROVE  Rank(P, p) \in 0 .. Cardinality(P) - 1
  <2>. DEFINE A == Before(P, p)
  <2>1. A \in SUBSET P /\ p \notin A
    BY DEF Before, Ordered
  <2>2. IsFiniteSet(A) /\ Cardinality(A) <= Cardinality(P) /\ (Cardinality(P) = Cardinality(A) => P = A)
    BY <2>1, FS_Subset DEF Ordered
  <2>3. Cardinality(A) \in Nat
    BY <2>2, FS_CardinalityType
  <2>4. Rank(P, p) = Cardinality(A)
    BY DEF Rank, Before
  <2>5. Cardinality(P) # Cardinality(A)
    BY <2>1, <2>2
  <2>. HIDE DEF A
  <2>. QED
    BY <2>2, <2>3, <2>4, <2>5, <1>1
<1>3. ASSUME NEW p \in P, NEW q \in P, Rank(P, p) = Rank(P, q)
      PROVE  p = q
  <2>1. p.name.gidx \in Nat /\ q.name.gidx \in Nat
    BY DEF Ordered
  <2>2. ~(p.name.gidx < q.name.gidx)
    BY <1>3, RankGrows
  <2>3. ~(q.name.gidx < p.name.gidx)
    BY <1>3, RankGrows
  <2>4. p.name.gidx = q.name.gidx
    BY <2>1, <2>2, <2>3
  <2>. QED
    BY <2>4 DEF Ordered
<1>. QED
  BY <1>1, <1>2, <1>3

\* list.toarray_sort: every place of the array holds a part, the one with as
\* many before it as its index says.
LEMMA SortedParts ==
    ASSUME NEW P, Ordered(P), NEW i \in 1 .. Cardinality(P)
    PROVE  Sorted(P)[i] \in P /\ Rank(P, Sorted(P)[i]) = i - 1
<1>. DEFINE n == Cardinality(P)
            I == 0 .. n - 1
            rank == [p \in P |-> Rank(P, p)]
<1>1. n \in Nat /\ (\A p \in P : Rank(P, p) \in I) /\ \A p, q \in P : Rank(P, p) = Rank(P, q) => p = q
  BY RankIsIndex
<1>. HIDE DEF n
<1>2. IsFiniteSet(I) /\ Cardinality(I) = n
  BY <1>1, FS_Interval
<1>3. rank \in Injection(P, I)
  BY <1>1 DEF Injection, IsInjective
<1>. HIDE DEF I, rank
<1>4. rank \in Surjection(P, I)
  BY <1>2, <1>3, FS_Injection DEF n
<1>5. i - 1 \in I
  BY <1>1 DEF I, n
<1>6. \E p \in P : rank[p] = i - 1
  BY <1>4, <1>5 DEF Surjection
<1>7. \E p \in P : Rank(P, p) = i - 1
  BY <1>6 DEF rank
<1>8. Sorted(P)[i] = CHOOSE p \in P : Rank(P, p) = i - 1
  BY DEF Sorted
<1>. QED
  BY <1>7, <1>8

\* When as many parts as there are numbers from g on carry these numbers, the
\* array holds them number by number.
LEMMA SortedRun ==
    ASSUME NEW P, Ordered(P), NEW g \in Nat, \A p \in P : p.name.gidx \in g .. g + Cardinality(P) - 1,
           NEW i \in 1 .. Cardinality(P)
    PROVE  Sorted(P)[i] \in P /\ Sorted(P)[i].name.gidx = g + i - 1
<1>. DEFINE n == Cardinality(P)
            idx == [p \in P |-> p.name.gidx]
            all == g .. g + n - 1
            low == g .. g + i - 2
            few == {q \in P : q.name.gidx < g + i - 1}
            few1 == [p \in few |-> p.name.gidx]
<1>1. n \in Nat /\ \A p, q \in P : Rank(P, p) = Rank(P, q) => p = q
  BY RankIsIndex
<1>. HIDE DEF n
<1>2. IsFiniteSet(all) /\ Cardinality(all) = n /\ IsFiniteSet(low) /\ Cardinality(low) = i - 1
  <2>1. i \in 1 .. n
    BY DEF n
  <2>2. g \in Int /\ g + n - 1 \in Int /\ g + i - 2 \in Int
    BY <2>1, <1>1
  <2>3. IsFiniteSet(all) /\ Cardinality(all) = IF g > g + n - 1 THEN 0 ELSE (g + n - 1) - g + 1
    BY <2>2, FS_Interval, Zenon
  <2>4. IsFiniteSet(low) /\ Cardinality(low) = IF g > g + i - 2 THEN 0 ELSE (g + i - 2) - g + 1
    BY <2>2, FS_Interval, Zenon
  <2>. QED
    BY <2>1, <2>3, <2>4, <1>1
<1>3. idx \in Injection(P, all)
  BY DEF Injection, IsInjective, Ordered, n
<1>4. idx \in Surjection(P, all)
  <2>. HIDE DEF idx, all
  <2>. QED
    BY <1>2, <1>3, FS_Injection DEF n
<1>5. \A k \in all : \E p \in P : p.name.gidx = k
  <2>1. \A k \in all : \E p \in P : idx[p] = k
    <3>. HIDE DEF idx, all
    <3>. QED
      BY <1>4 DEF Surjection
  <2>. QED
    BY <2>1
<1>6. g + i - 1 \in all /\ low \subseteq all
  BY <1>1 DEF n
<1>7. PICK p \in P : p.name.gidx = g + i - 1
  BY <1>5, <1>6
<1>8. few1 \in Bijection(few, low)
  <2>1. few1 \in [few -> low]
    BY DEF n
  <2>2. \A q, r \in few : few1[q] = few1[r] => q = r
    BY DEF Ordered
  <2>3. \A k \in low : \E q \in few : few1[q] = k
    BY <1>5, <1>6
  <2>. HIDE DEF few, low, few1
  <2>. QED
    BY <2>1, <2>2, <2>3 DEF Bijection, Injection, Surjection, IsInjective
<1>9. Cardinality(few) = i - 1
  <2>1. few \in SUBSET P
    OBVIOUS
  <2>2. IsFiniteSet(few)
    BY <2>1, FS_Subset DEF Ordered
  <2>3. Cardinality(low) = Cardinality(few)
    <3>. HIDE DEF few, low, few1
    <3>. QED
      BY <2>2, <1>8, FS_Bijection DEF ExistsBijection
  <2>. QED
    BY <2>3, <1>2
<1>10. Rank(P, p) = i - 1
  BY <1>7, <1>9 DEF Rank
<1>. QED
  BY <1>1, <1>7, <1>10, SortedParts

(***************************************************************************)
(* The inductive invariant.                                                *)
(***************************************************************************)
\* Part i of file f, as task t of run r of sender s sends it, with the numbers
\* from g on.
Piece(s, t, g, f, r, i) ==
    [src |-> s, tidx |-> t, gidx |-> g + i, parts |-> FileParts(Length[f]),
     data |-> FilePart(f, i * TaskBuffer), file |-> f, run |-> r]

Pieces(m, g) ==
    {Piece(m.src, m.tidx, g, m.file, m.run, i) : i \in 0 .. FileParts(Length[m.file]) - 1}

SameTask(m, n) == n.src = m.src /\ n.tidx = m.tidx

\* The messages of one run with the task number of m are the parts of one file.
OneFile(m) == \E g \in Nat : {n \in net : SameTask(m, n) /\ n.run = m.run} = Pieces(m, g)

\* Numbers are taken from counters that only grow during a run.
SentInv ==
    /\ out \in [Senders -> [run : Nat, tidx : Nat, gidx : Nat]]
    /\ \A m \in net : /\ m.src \in Senders /\ m.file \in Files /\ m.run \in Nat /\ m.tidx \in Nat
                      /\ m.run <= out[m.src].run
                      /\ m.run = out[m.src].run => m.tidx <= out[m.src].tidx
                      /\ OneFile(m)

Bytes == Seq(Files \X Nat)

Part == [name : [src : Senders, tidx : Nat, gidx : Nat], data : Bytes]

StepType ==
    \/ step = Idle
    \/ step \in [at : {"writing"}, msg : net]
    \/ step \in [at : {"joining"}, msg : net, todo : Seq(Part), temp : Bytes]

Writing(name) == step.at = "writing" /\ NameOf(step.msg) = name

\* Part files, each with a name of its own.
Directory(P) ==
    /\ IsFiniteSet(P) /\ P \subseteq Part
    /\ \A p, q \in P : p.name = q.name => p = q

\* A part file holds the part of a message that was sent under its name.
DirInv ==
    /\ Directory(parts)
    /\ \A p \in parts : \E m \in net : p.name = NameOf(m) /\ (torn \/ Writing(p.name) \/ p.data = m.data)

\* The parts of the file of m after the first k.
Follows(todo, m, k) ==
    /\ Len(todo) = m.parts - k
    /\ \A i \in 1 .. Len(todo) : todo[i].data = FilePart(m.file, (k + i - 1) * TaskBuffer)

\* The parts still to be joined are those that follow what is joined.
JoinInv ==
    step.at = "joining" =>
        /\ \A i \in 1 .. Len(step.todo) : step.todo[i].name.src = step.msg.src /\ step.todo[i].name.tidx = step.msg.tidx
        /\ ~torn /\ ~Reused(step.msg.src, step.msg.tidx) =>
              \E k \in 0 .. step.msg.parts :
                 Follows(step.todo, step.msg, k) /\ step.temp = Prefix(step.msg.file, k)

Whole(m) == \E j \in joined : j.src = m.src /\ j.tidx = m.tidx

Joining(m) == step.at = "joining" /\ SameTask(m, step.msg)

\* What was handled is in the directory, being joined or joined; a task that is
\* neither of the last two lacks a part.
Lacks(m) == \E n \in net : SameTask(m, n) /\ (~PartExists(n) \/ Writing(NameOf(n)))

Settled(m) == Reused(m.src, m.tidx) \/ Whole(m)

HandledKept == \A m \in arrived : m \in net /\ (Settled(m) \/ Joining(m) \/ PartExists(m))

NoneWaits == \A m \in net : Settled(m) \/ Joining(m) \/ Lacks(m)

BeingHandled == step = Idle \/ Settled(step.msg) \/ step.msg \notin arrived

KeptInv == crashes = 0 => ~torn /\ HandledKept /\ NoneWaits /\ BeingHandled

PartsInv == SentInv /\ StepType /\ DirInv /\ JoinInv /\ JoinedIntact /\ crashes \in Nat /\ KeptInv


(***************************************************************************)
(* Messages.                                                               *)
(***************************************************************************)
\* A message carries a part of its file, and no empty one.
LEMMA IsPiece ==
    ASSUME SentInv, NEW m \in net
    PROVE  \E g \in Nat : \E i \in 0 .. FileParts(Length[m.file]) - 1 :
              m = Piece(m.src, m.tidx, g, m.file, m.run, i)
<1>1. PICK g \in Nat : {n \in net : SameTask(m, n) /\ n.run = m.run} = Pieces(m, g)
  BY Zenon DEF SentInv, OneFile
<1>2. m \in Pieces(m, g)
  BY <1>1, Zenon DEF SameTask
<1>. QED
  BY <1>2, Zenon DEF Pieces

\* The fields of a part.
LEMMA PieceFields ==
    ASSUME NEW s, NEW t, NEW g, NEW f, NEW r, NEW i, NEW m, m = Piece(s, t, g, f, r, i)
    PROVE  /\ m.src = s /\ m.tidx = t /\ m.gidx = g + i /\ m.parts = FileParts(Length[f])
           /\ m.data = FilePart(f, i * TaskBuffer) /\ m.file = f /\ m.run = r
  BY Zenon DEF Piece

\* A part is some of the bytes of its file.
LEMMA PartIsBytes ==
    ASSUME NEW f \in Files, NEW i \in 0 .. FileParts(Length[f]) - 1
    PROVE  FilePart(f, i * TaskBuffer) \in Bytes
<1>. DEFINE a == i * TaskBuffer
            b == IF TaskBuffer > Length[f] - a THEN Length[f] ELSE a + TaskBuffer
<1>1. Length[f] \in Nat \ {0} /\ Content(f) \in Seq({f} \X Nat) /\ Len(Content(f)) = Length[f]
  BY ContentLength
<1>2. FileParts(Length[f]) \in Nat /\ a < Length[f]
  BY <1>1, PartCount
<1>3. a \in Nat
  BY <1>2, Multiples
<1>. HIDE DEF a
<1>4. Content(f) \in Bytes
  BY <1>1 DEF Bytes
<1>5. FilePart(f, a) = SubSeq(Content(f), a + 1, b)
  BY Zenon DEF FilePart
<1>6. b \in 0 .. Len(Content(f))
  BY <1>1, <1>2, <1>3, PartsAssumption
<1>. HIDE DEF b
<1>7. SubSeq(Content(f), a + 1, b) \in Bytes
  BY <1>3, <1>4, <1>6 DEF Bytes
<1>. QED
  BY <1>5, <1>7, Zenon DEF a

\* What a message is made of.
LEMMA MessageType ==
    ASSUME SentInv, NEW m \in net
    PROVE  /\ m.parts = FileParts(Length[m.file]) /\ m.parts \in Nat \ {0}
           /\ m.data \in Bytes /\ m.data # <<>>
           /\ m.gidx \in Nat /\ NameOf(m) \in [src : Senders, tidx : Nat, gidx : Nat]
<1>1. m.src \in Senders /\ m.file \in Files /\ m.tidx \in Nat
  BY DEF SentInv
<1>2. PICK g \in Nat, i \in 0 .. FileParts(Length[m.file]) - 1 :
         m = Piece(m.src, m.tidx, g, m.file, m.run, i)
  BY IsPiece, Zenon
<1>3. m.gidx = g + i /\ m.parts = FileParts(Length[m.file]) /\ m.data = FilePart(m.file, i * TaskBuffer)
  BY <1>2, PieceFields
<1>4. FileParts(Length[m.file]) \in Nat \ {0}
  BY <1>1, ContentLength, PartCount, Zenon
<1>5. m.gidx \in Nat
  BY <1>3, <1>4
<1>6. m.data \in Bytes /\ m.data # <<>>
  BY <1>1, <1>3, PartIsBytes, PartByPart
<1>. QED
  BY <1>1, <1>3, <1>4, <1>5, <1>6 DEF NameOf

\* A task number that one run has used names one file: its parts have the
\* numbers from some g on, and each number is that of one message.
OneRun(m, g) ==
    /\ \A n \in net : SameTask(m, n) => /\ n.file = m.file /\ n.parts = m.parts
                                        /\ n.gidx \in g .. g + m.parts - 1
                                        /\ n.data = FilePart(m.file, (n.gidx - g) * TaskBuffer)
    /\ \A i \in 0 .. m.parts - 1 : \E n \in net : SameTask(m, n) /\ n.gidx = g + i
    /\ \A n, o \in net : SameTask(m, n) /\ SameTask(m, o) /\ n.gidx = o.gidx => n = o

\* The messages of a task that no second run has used are the parts of one file.
LEMMA TaskIsFile ==
    ASSUME SentInv, NEW m \in net, ~Reused(m.src, m.tidx)
    PROVE  \E g \in Nat : OneRun(m, g)
<1>1. PICK g \in Nat : {n \in net : SameTask(m, n) /\ n.run = m.run} = Pieces(m, g)
  BY Zenon DEF SentInv, OneFile
<1>2. \A n \in net : SameTask(m, n) => n.run = m.run
  <2>. SUFFICES ASSUME NEW n \in net, SameTask(m, n), n.run # m.run
                PROVE  FALSE
    OBVIOUS
  <2>1. {m.src, n.src} = {m.src} /\ {m.tidx, n.tidx} = {m.tidx}
    BY DEF SameTask
  <2>. QED
    BY <2>1, Zenon DEF Reused
<1>3. \A n \in net : SameTask(m, n) => n \in Pieces(m, g)
  BY <1>1, <1>2, Zenon
<1>4. \A n \in Pieces(m, g) : n \in net /\ SameTask(m, n)
  BY <1>1, Zenon
<1>5. m.parts = FileParts(Length[m.file]) /\ m.parts \in Nat \ {0}
  BY MessageType
<1>6. ASSUME NEW n \in net, SameTask(m, n)
      PROVE  \E i \in 0 .. m.parts - 1 : /\ n = Piece(m.src, m.tidx, g, m.file, m.run, i)
                                         /\ n.gidx = g + i /\ n.file = m.file /\ n.parts = m.parts
                                         /\ n.data = FilePart(m.file, i * TaskBuffer)
  <2>1. PICK i \in 0 .. m.parts - 1 : n = Piece(m.src, m.tidx, g, m.file, m.run, i)
    BY <1>3, <1>5, <1>6, Zenon DEF Pieces
  <2>. QED
    BY <2>1, <1>5, PieceFields
<1>7. ASSUME NEW n \in net, SameTask(m, n)
      PROVE  /\ n.file = m.file /\ n.parts = m.parts
             /\ n.gidx \in g .. g + m.parts - 1
             /\ n.data = FilePart(m.file, (n.gidx - g) * TaskBuffer)
             /\ n = Piece(m.src, m.tidx, g, m.file, m.run, n.gidx - g)
  <2>1. PICK i \in 0 .. m.parts - 1 : /\ n = Piece(m.src, m.tidx, g, m.file, m.run, i)
                                      /\ n.gidx = g + i /\ n.file = m.file /\ n.parts = m.parts
                                      /\ n.data = FilePart(m.file, i * TaskBuffer)
    BY <1>6, <1>7, Zenon
  <2>2. i = n.gidx - g /\ n.gidx \in g .. g + m.parts - 1
    BY <2>1, <1>5
  <2>. QED
    BY <2>1, <2>2, Zenon
<1>8. ASSUME NEW i \in 0 .. m.parts - 1
      PROVE  \E n \in net : SameTask(m, n) /\ n.gidx = g + i
  <2>1. Piece(m.src, m.tidx, g, m.file, m.run, i) \in Pieces(m, g)
    BY <1>5, Zenon DEF Pieces
  <2>. QED
    BY <2>1, <1>4, PieceFields
<1>9. \A n, o \in net : SameTask(m, n) /\ SameTask(m, o) /\ n.gidx = o.gidx => n = o
  BY <1>7, Zenon
<1>. QED
  BY <1>7, <1>8, <1>9, Zenon DEF OneRun

\* No message of this run has this task number yet.
Fresh(m) == \A n \in net : SameTask(m, n) => n.run # m.run

\* Messages are only added, and those a task adds carry a number that its run
\* has not used: what is known of the others stays.
LEMMA SentStep ==
    ASSUME SentInv, [Next]_vars
    PROVE  SentInv' /\ net \subseteq net' /\ \A m \in net' \ net : Fresh(m)
<1>1. ASSUME NEW s \in Senders, NEW f \in Files, Send(s, f)
      PROVE  SentInv' /\ net \subseteq net' /\ \A m \in net' \ net : Fresh(m)
  <2>. DEFINE t == out[s].tidx + 1
              g == out[s].gidx
              new == Messages(s, t, g, f)
              c == FileParts(Length[f])
  <2>1. /\ net' = net \cup new
        /\ out' = [out EXCEPT ![s] = [run |-> @.run, tidx |-> t, gidx |-> @.gidx + c]]
    BY <1>1, Zenon DEF Send
  <2>2. out \in [Senders -> [run : Nat, tidx : Nat, gidx : Nat]]
    BY DEF SentInv
  <2>3. out[s].run \in Nat /\ out[s].tidx \in Nat /\ g \in Nat /\ t \in Nat /\ c \in Nat
    <3>1. Length[f] \in Nat \ {0}
      BY ContentLength, Zenon
    <3>2. c \in Nat
      BY <3>1, PartCount
    <3>. QED
      BY <3>2, <2>2
  <2>4. new = {Piece(s, t, g, f, out[s].run, i) : i \in 0 .. c - 1}
    BY Zenon DEF Messages, Piece
  <2>5. /\ out' \in [Senders -> [run : Nat, tidx : Nat, gidx : Nat]]
        /\ \A q \in Senders : out'[q].run = out[q].run /\ out[q].tidx <= out'[q].tidx
        /\ out'[s].tidx = t
    <3>. HIDE DEF c, t
    <3>1. out' = [out EXCEPT ![s] = [run |-> out[s].run, tidx |-> t, gidx |-> g + c]]
      BY <2>1, <2>2, Zenon
    <3>. HIDE DEF g
    <3>2. [run |-> out[s].run, tidx |-> t, gidx |-> g + c] \in [run : Nat, tidx : Nat, gidx : Nat]
      BY <2>3
    <3>3. out[s].tidx <= t
      BY <2>3 DEF t
    <3>. QED
      BY <3>1, <3>2, <3>3, <2>2
  <2>6. ASSUME NEW m \in new
        PROVE  m.src = s /\ m.tidx = t /\ m.file = f /\ m.run = out[s].run
    <3>1. PICK i \in 0 .. c - 1 : m = Piece(s, t, g, f, out[s].run, i)
      BY <2>4, Zenon
    <3>. QED
      BY <3>1, PieceFields
  <2>. HIDE DEF new
  <2>7. ASSUME NEW m \in net, NEW n \in new
        PROVE  ~(SameTask(n, m) /\ m.run = n.run) /\ ~(SameTask(m, n) /\ n.run = m.run)
    <3>1. m.src = s /\ m.run = out[s].run => m.tidx <= out[s].tidx /\ m.tidx \in Nat
      BY DEF SentInv
    <3>2. n.src = s /\ n.tidx = t /\ n.run = out[s].run
      BY <2>6
    <3>3. m.tidx = t => ~(m.src = s /\ m.run = out[s].run)
      BY <3>1, <2>3
    <3>. QED
      BY <3>2, <3>3, Zenon DEF SameTask
  <2>8. ASSUME NEW m \in net
        PROVE  /\ m.src \in Senders /\ m.file \in Files /\ m.run \in Nat /\ m.tidx \in Nat
               /\ m.run <= out'[m.src].run
               /\ m.run = out'[m.src].run => m.tidx <= out'[m.src].tidx
               /\ OneFile(m)'
    <3>1. /\ m.src \in Senders /\ m.file \in Files /\ m.run \in Nat /\ m.tidx \in Nat
          /\ m.run <= out[m.src].run
          /\ m.run = out[m.src].run => m.tidx <= out[m.src].tidx
          /\ OneFile(m)
      BY DEF SentInv
    <3>2. m.run <= out'[m.src].run /\ (m.run = out'[m.src].run => m.tidx <= out'[m.src].tidx)
      BY <3>1, <2>5, <2>2
    <3>3. {n \in net' : SameTask(m, n) /\ n.run = m.run} = {n \in net : SameTask(m, n) /\ n.run = m.run}
      BY <2>1, <2>7, Zenon
    <3>4. OneFile(m)'
      BY <3>1, <3>3, Zenon DEF OneFile, Pieces, SameTask, Piece, FileParts, FilePart, Content
    <3>. QED
      BY <3>1, <3>2, <3>4
  <2>9. ASSUME NEW m \in new
        PROVE  /\ m.src \in Senders /\ m.file \in Files /\ m.run \in Nat /\ m.tidx \in Nat
               /\ m.run <= out'[m.src].run
               /\ m.run = out'[m.src].run => m.tidx <= out'[m.src].tidx
               /\ OneFile(m)'
    <3>1. m.src = s /\ m.tidx = t /\ m.file = f /\ m.run = out[s].run
      BY <2>6
    <3>2. {n \in net' : SameTask(m, n) /\ n.run = m.run} = new
      BY <2>1, <2>6, <2>7, <3>1, Zenon DEF SameTask
    <3>3. new = Pieces(m, g)
      BY <2>4, <3>1, Zenon DEF Pieces
    <3>4. OneFile(m)'
      BY <3>2, <3>3, <2>3, ZenonT(60) DEF OneFile, Pieces, SameTask, Piece, FileParts, FilePart, Content
    <3>. QED
      BY <3>1, <3>4, <2>3, <2>5
  <2>10. SentInv'
    BY <2>1, <2>5, <2>8, <2>9, Zenon DEF SentInv
  <2>11. \A m \in net' \ net : Fresh(m)
    BY <2>1, <2>7, Zenon DEF Fresh
  <2>. QED
    BY <2>1, <2>10, <2>11
<1>2. ASSUME NEW s \in Senders, SenderRestarts(s)
      PROVE  SentInv' /\ net' = net
  <2>1. net' = net /\ out' = [out EXCEPT ![s] = [run |-> @.run + 1, tidx |-> 0, gidx |-> 0]]
    BY <1>2 DEF SenderRestarts
  <2>2. out \in [Senders -> [run : Nat, tidx : Nat, gidx : Nat]]
    BY DEF SentInv
  <2>3. out' \in [Senders -> [run : Nat, tidx : Nat, gidx : Nat]]
    BY <2>1, <2>2
  <2>4. \A q \in Senders : out'[q] = out[q] \/ (q = s /\ out'[q].run = out[q].run + 1)
    BY <2>1, <2>2
  <2>5. ASSUME NEW m \in net'
        PROVE  /\ m.src \in Senders /\ m.file \in Files /\ m.run \in Nat /\ m.tidx \in Nat
               /\ m.run <= out'[m.src].run
               /\ m.run = out'[m.src].run => m.tidx <= out'[m.src].tidx
               /\ OneFile(m)'
    <3>1. /\ m.src \in Senders /\ m.file \in Files /\ m.run \in Nat /\ m.tidx \in Nat
          /\ m.run <= out[m.src].run
          /\ m.run = out[m.src].run => m.tidx <= out[m.src].tidx
          /\ OneFile(m)
      BY <2>1 DEF SentInv
    <3>2. m.run <= out'[m.src].run /\ (m.run = out'[m.src].run => m.tidx <= out'[m.src].tidx)
      BY <3>1, <2>4, <2>2
    <3>3. OneFile(m)'
      BY <3>1, <2>1, Zenon DEF OneFile, Pieces, SameTask, Piece, FileParts, FilePart, Content
    <3>. QED
      BY <3>1, <3>2, <3>3
  <2>. QED
    BY <2>1, <2>3, <2>5, Zenon DEF SentInv
<1>3. ASSUME UNCHANGED <<out, net>>
      PROVE  SentInv' /\ net' = net
  <2>1. \A m : OneFile(m)' <=> OneFile(m)
    BY <1>3, Zenon DEF OneFile, Pieces, SameTask, Piece, FileParts, FilePart, Content
  <2>. QED
    BY <1>3, <2>1, Zenon DEF SentInv
<1>4. CASE UNCHANGED vars
  BY <1>3, <1>4 DEF vars
<1>5. ASSUME NEW m \in net, ReadAgain(m) \/ ReadPart(m)
      PROVE  UNCHANGED <<out, net>>
  BY <1>5, Zenon DEF ReadAgain, ReadPart
<1>6. ASSUME WritePart \/ JoinPart \/ JoinFails \/ JoinDone \/ Crash
      PROVE  UNCHANGED <<out, net>>
  BY <1>6, Zenon DEF WritePart, JoinPart, JoinFails, JoinDone, Crash
<1>. QED
  BY <1>1, <1>2, <1>3, <1>4, <1>5, <1>6, Zenon DEF Next

\* A number that two runs have used stays so.
LEMMA ReusedStays ==
    ASSUME net \subseteq net', NEW s, NEW t, Reused(s, t)
    PROVE  Reused(s, t)'
  BY Zenon DEF Reused

\* Nothing is added to a task that no second run has used.
LEMMA TaskStays ==
    ASSUME \A m \in net' \ net : Fresh(m), net \subseteq net',
           NEW m \in net, ~Reused(m.src, m.tidx)', NEW n \in net', SameTask(m, n)
    PROVE  n \in net
<1>. SUFFICES ASSUME n \notin net
              PROVE  FALSE
  OBVIOUS
<1>1. n.src = m.src /\ n.tidx = m.tidx
  BY DEF SameTask
<1>2. m.run # n.run
  BY <1>1, Zenon DEF Fresh, SameTask
<1>3. {m.src, n.src} = {m.src} /\ {m.tidx, n.tidx} = {m.tidx}
  BY <1>1
<1>. QED
  BY <1>2, <1>3, Zenon DEF Reused

(***************************************************************************)
(* The parts of one task in the directory.                                 *)
(***************************************************************************)
\* Part files of the task of m.
Filed(P, m) ==
    /\ Ordered(P)
    /\ \A p \in P : \E n \in net : SameTask(m, n) /\ p.name = NameOf(n)

\* os.filejoin: the parts it lists are those of one task, told apart by gidx.
LEMMA SiblingsFiled ==
    ASSUME NEW P, Directory(P), \A p \in P : \E n \in net : p.name = NameOf(n), NEW m
    PROVE  Filed(Siblings(P, m), m) /\ Siblings(P, m) \subseteq P
<1>. DEFINE S == Siblings(P, m)
<1>1. S \in SUBSET P /\ \A p \in S : p.name.src = m.src /\ p.name.tidx = m.tidx
  BY DEF Siblings
<1>2. IsFiniteSet(S)
  BY <1>1, FS_Subset DEF Directory
<1>3. \A p \in P : p.name \in [src : Senders, tidx : Nat, gidx : Nat]
  BY DEF Directory, Part
<1>4. \A x, y \in [src : Senders, tidx : Nat, gidx : Nat] :
         x.src = y.src /\ x.tidx = y.tidx /\ x.gidx = y.gidx => x = y
  OBVIOUS
<1>. HIDE DEF S
<1>5. \A p \in S : p.name.gidx \in Nat
  BY <1>1, <1>3
<1>6. ASSUME NEW p \in S, NEW q \in S, p.name.gidx = q.name.gidx
      PROVE  p = q
  <2>1. p \in P /\ q \in P /\ p.name.src = q.name.src /\ p.name.tidx = q.name.tidx
    BY <1>1
  <2>2. p.name = q.name
    BY <1>6, <2>1, <1>3, <1>4, Zenon
  <2>. QED
    BY <2>1, <2>2, Zenon DEF Directory
<1>7. ASSUME NEW p \in S
      PROVE  \E n \in net : SameTask(m, n) /\ p.name = NameOf(n)
  <2>1. PICK n \in net : p.name = NameOf(n)
    BY <1>1
  <2>2. NameOf(n).src = n.src /\ NameOf(n).tidx = n.tidx
    BY DEF NameOf
  <2>. QED
    BY <2>1, <2>2, <1>1, Zenon DEF SameTask
<1>. QED
  BY <1>1, <1>2, <1>5, <1>6, <1>7, Zenon DEF Filed, Ordered, S

\* The numbers of the parts of a task lie in its run of numbers.
LEMMA FiledNumbers ==
    ASSUME NEW m, NEW P, Filed(P, m), NEW g \in Nat, OneRun(m, g), NEW p \in P
    PROVE  p.name.gidx \in g .. g + m.parts - 1
<1>1. PICK n \in net : SameTask(m, n) /\ p.name = NameOf(n)
  BY DEF Filed
<1>2. NameOf(n).gidx = n.gidx
  BY DEF NameOf
<1>. QED
  BY <1>1, <1>2, Zenon DEF OneRun

\* When every message of a task has its part file, the files are as many as the
\* messages say.
LEMMA CompleteTask ==
    ASSUME SentInv, NEW m \in net, ~Reused(m.src, m.tidx), NEW P, Filed(P, m),
           \A n \in net : SameTask(m, n) => \E p \in P : p.name = NameOf(n)
    PROVE  Cardinality(P) = m.parts
<1>1. PICK g \in Nat : OneRun(m, g)
  BY TaskIsFile
<1>2. m.parts \in Nat \ {0}
  BY MessageType
<1>. DEFINE idx == [p \in P |-> p.name.gidx]
            all == g .. g + m.parts - 1
<1>3. \A p \in P : p.name.gidx \in all
  BY <1>1, FiledNumbers, Zenon
<1>4. idx \in Injection(P, all)
  BY <1>3 DEF Injection, IsInjective, Filed, Ordered
<1>5. ASSUME NEW k \in all
      PROVE  \E p \in P : idx[p] = k
  <2>1. k - g \in 0 .. m.parts - 1 /\ g + (k - g) = k
    BY <1>2
  <2>2. PICK n \in net : SameTask(m, n) /\ n.gidx = k
    BY <2>1, <1>1, Zenon DEF OneRun
  <2>3. PICK p \in P : p.name = NameOf(n)
    BY <2>2
  <2>4. NameOf(n).gidx = n.gidx
    BY DEF NameOf
  <2>. QED
    BY <2>2, <2>3, <2>4, Zenon
<1>6. idx \in Surjection(P, all)
  <2>1. idx \in [P -> all]
    BY <1>3
  <2>. HIDE DEF idx, all
  <2>. QED
    BY <2>1, <1>5 DEF Surjection
<1>7. IsFiniteSet(all) /\ Cardinality(all) = m.parts
  <2>1. g \in Int /\ g + m.parts - 1 \in Int
    BY <1>2
  <2>2. IsFiniteSet(all) /\ Cardinality(all) = IF g > g + m.parts - 1 THEN 0 ELSE (g + m.parts - 1) - g + 1
    BY <2>1, FS_Interval, Zenon
  <2>. QED
    BY <2>2, <1>2
<1>. HIDE DEF idx, all
<1>. QED
  BY <1>4, <1>6, <1>7, FS_Injection

\* Joined: the part files of a task that are as many as its messages say are,
\* in the order of their names, the parts of its file.
LEMMA SortedTask ==
    ASSUME SentInv, NEW m \in net, ~Reused(m.src, m.tidx), NEW P, Filed(P, m),
           \A p \in P : \E n \in net : SameTask(m, n) /\ p.name = NameOf(n) /\ p.data = n.data,
           Cardinality(P) = m.parts, NEW i \in 1 .. m.parts
    PROVE  Sorted(P)[i].data = FilePart(m.file, (i - 1) * TaskBuffer)
<1>1. PICK g \in Nat : OneRun(m, g)
  BY TaskIsFile
<1>2. m.parts \in Nat \ {0}
  BY MessageType
<1>3. \A p \in P : p.name.gidx \in g .. g + Cardinality(P) - 1
  BY <1>1, FiledNumbers
<1>. DEFINE p == Sorted(P)[i]
<1>4. p \in P /\ p.name.gidx = g + i - 1
  BY <1>3, SortedRun, Zenon DEF Filed
<1>. HIDE DEF p
<1>5. PICK n \in net : SameTask(m, n) /\ p.name = NameOf(n) /\ p.data = n.data
  BY <1>4
<1>6. NameOf(n).gidx = n.gidx
  BY DEF NameOf
<1>7. n.gidx - g = i - 1
  BY <1>4, <1>5, <1>6, <1>2
<1>8. n.data = FilePart(m.file, (n.gidx - g) * TaskBuffer)
  BY <1>1, <1>5, Zenon DEF OneRun
<1>. QED
  BY <1>5, <1>7, <1>8, Zenon DEF p

(***************************************************************************)
(* The directory and the handler, step by step.                            *)
(***************************************************************************)
\* What the handler works on.
LEMMA StepFields ==
    ASSUME StepType
    PROVE  /\ step = Idle <=> step.at = "idle"
           /\ step.at \in {"idle", "writing", "joining"}
           /\ step.at = "writing" => step.msg \in net
           /\ step.at = "joining" => step.msg \in net /\ step.todo \in Seq(Part) /\ step.temp \in Bytes
           /\ step # Idle => step.msg \in net
  BY DEF StepType, Idle

\* The directory after file_read has put d under the name of message m.
Put(m, d) == {p \in parts : p.name # NameOf(m)} \cup {[name |-> NameOf(m), data |-> d]}

\* It is a directory still, and only the one file is another.
LEMMA PutKeeps ==
    ASSUME SentInv, DirInv, NEW m \in net, NEW d \in Bytes
    PROVE  /\ Directory(Put(m, d)) /\ [name |-> NameOf(m), data |-> d] \in Put(m, d)
           /\ \A p \in Put(m, d) : \/ p.name = NameOf(m) /\ p.data = d
                                   \/ p \in parts /\ p.name # NameOf(m)
<1>. DEFINE old == {p \in parts : p.name # NameOf(m)}
            new == [name |-> NameOf(m), data |-> d]
<1>1. NameOf(m) \in [src : Senders, tidx : Nat, gidx : Nat]
  BY MessageType
<1>2. new \in Part /\ new.name = NameOf(m) /\ new.data = d
  BY <1>1 DEF Part
<1>3. old \in SUBSET parts /\ \A p \in old : p.name # NameOf(m)
  OBVIOUS
<1>4. Put(m, d) = old \cup {new}
  BY DEF Put
<1>. HIDE DEF old, new
<1>5. IsFiniteSet(old)
  BY <1>3, FS_Subset DEF DirInv, Directory
<1>6. IsFiniteSet(old \cup {new})
  BY <1>5, FS_AddElement
<1>7. old \cup {new} \subseteq Part
  BY <1>2, <1>3 DEF DirInv, Directory
<1>8. \A p, q \in old \cup {new} : p.name = q.name => p = q
  BY <1>2, <1>3 DEF DirInv, Directory
<1>9. Directory(Put(m, d))
  BY <1>4, <1>6, <1>7, <1>8 DEF Directory
<1>10. \A p \in Put(m, d) : \/ p.name = NameOf(m) /\ p.data = d
                            \/ p \in parts /\ p.name # NameOf(m)
  BY <1>2, <1>3, <1>4
<1>. QED
  BY <1>4, <1>9, <1>10 DEF new

\* WritePart: every file of the directory it leaves is the part of a message
\* with its name, unless one was torn before.
LEMMA PartIsWritten ==
    ASSUME SentInv, StepType, DirInv, step.at = "writing"
    PROVE  LET now == Put(step.msg, step.msg.data)
           IN  /\ Directory(now)
               /\ \A p \in now : \E n \in net : p.name = NameOf(n) /\ (torn \/ p.data = n.data)
<1>. DEFINE m == step.msg
            now == Put(m, m.data)
<1>1. m \in net
  BY StepFields
<1>2. m.data \in Bytes
  BY <1>1, MessageType
<1>. HIDE DEF m
<1>3. Directory(now) /\ \A p \in now : \/ p.name = NameOf(m) /\ p.data = m.data
                                       \/ p \in parts /\ p.name # NameOf(m)
  BY <1>1, <1>2, PutKeeps, Zenon
<1>. HIDE DEF now
<1>4. ASSUME NEW p \in now
      PROVE  \E n \in net : p.name = NameOf(n) /\ (torn \/ p.data = n.data)
  <2>1. CASE p.name = NameOf(m) /\ p.data = m.data
    BY <2>1, <1>1
  <2>2. CASE p \in parts /\ p.name # NameOf(m)
    <3>1. PICK n \in net : p.name = NameOf(n) /\ (torn \/ Writing(p.name) \/ p.data = n.data)
      BY <2>2, Zenon DEF DirInv
    <3>2. ~Writing(p.name)
      BY <2>2, Zenon DEF Writing, m
    <3>. QED
      BY <3>1, <3>2, Zenon
  <2>. QED
    BY <1>3, <2>1, <2>2
<1>. QED
  BY <1>3, <1>4 DEF now, m

\* Steps that leave the directory and the handler alone: what the senders do,
\* and a message that comes again.
Quiet == UNCHANGED <<parts, step, joined, crashes, torn>>

\* What a step may be.
LEMMA StepCases ==
    ASSUME [Next]_vars
    PROVE  \/ Quiet
           \/ net' = net /\ \/ \E m \in net : ReadPart(m)
                            \/ WritePart \/ JoinPart \/ JoinFails \/ JoinDone \/ Crash
<1>1. ASSUME NEW s \in Senders, NEW f \in Files, Send(s, f)
      PROVE  Quiet
  BY <1>1, Zenon DEF Send, Quiet
<1>2. ASSUME NEW s \in Senders, SenderRestarts(s)
      PROVE  Quiet
  BY <1>2, Zenon DEF SenderRestarts, Quiet
<1>3. ASSUME NEW m \in net, ReadAgain(m)
      PROVE  Quiet
  BY <1>3, Zenon DEF ReadAgain, Quiet
<1>4. ASSUME NEW m \in net, ReadPart(m)
      PROVE  net' = net
  BY <1>4, Zenon DEF ReadPart
<1>5. ASSUME WritePart \/ JoinPart \/ JoinFails \/ JoinDone \/ Crash
      PROVE  net' = net
  BY <1>5, Zenon DEF WritePart, JoinPart, JoinFails, JoinDone, Crash
<1>6. ASSUME UNCHANGED vars
      PROVE  Quiet
  BY <1>6, Zenon DEF vars, Quiet
<1>. QED
  BY <1>1, <1>2, <1>3, <1>4, <1>5, <1>6, Zenon DEF Next

\* What WritePart does, with the directory it leaves.
LEMMA WriteCases ==
    ASSUME WritePart
    PROVE  LET m == step.msg
               all == Siblings(parts', m)
           IN  /\ step.at = "writing" /\ parts' = Put(m, m.data)
               /\ \/ /\ Cardinality(all) = m.parts /\ arrived' = arrived
                     /\ step' = [at |-> "joining", msg |-> m, todo |-> Sorted(all), temp |-> <<>>]
                  \/ Cardinality(all) # m.parts /\ step' = Idle /\ Handled(m)
               /\ UNCHANGED <<out, net, joined, crashes, torn>>
<1>. DEFINE m == step.msg
            all == Siblings(parts', m)
<1>1. parts' = Put(m, m.data)
  BY Zenon DEF WritePart, Put
<1>2. \/ /\ Cardinality(all) = m.parts /\ arrived' = arrived
         /\ step' = [at |-> "joining", msg |-> m, todo |-> Sorted(all), temp |-> <<>>]
      \/ Cardinality(all) # m.parts /\ step' = Idle /\ Handled(m)
  BY Zenon DEF WritePart
<1>. QED
  BY <1>1, <1>2, Zenon DEF WritePart

\* What a crash does to the directory.
LEMMA CrashCases ==
    ASSUME Crash, StepType, SentInv
    PROVE  /\ step' = Idle /\ crashes' = crashes + 1 /\ UNCHANGED <<out, net, joined>>
           /\ \/ /\ torn' /\ step.at = "writing"
                 /\ \E d \in Bytes : parts' = Put(step.msg, d)
              \/ step.at # "writing" /\ UNCHANGED <<parts, torn>>
<1>1. CASE step.at = "writing"
  <2>1. PICK k \in 0 .. Len(step.msg.data) : parts' = Put(step.msg, SubSeq(step.msg.data, 1, k))
    BY <1>1, Zenon DEF Crash, Put
  <2>2. step.msg.data \in Bytes
    BY <1>1, StepFields, MessageType
  <2>3. SubSeq(step.msg.data, 1, k) \in Bytes
    BY <2>2 DEF Bytes
  <2>. QED
    BY <1>1, <2>1, <2>3, Zenon DEF Crash
<1>2. CASE step.at # "writing"
  BY <1>2, Zenon DEF Crash
<1>. QED
  BY <1>1, <1>2

\* DirInv is kept by every step.
LEMMA DirStep ==
    ASSUME SentInv, StepType, DirInv, [Next]_vars
    PROVE  DirInv'
<1>0. net \subseteq net'
  BY SentStep, Zenon
<1>1. ASSUME Quiet
      PROVE  DirInv'
  <2>1. \A x : Writing(x)' <=> Writing(x)
    BY <1>1, Zenon DEF Quiet, Writing, NameOf
  <2>2. \A m : NameOf(m)' = NameOf(m)
    BY Zenon DEF NameOf
  <2>3. parts' = parts /\ torn' = torn
    BY <1>1, Zenon DEF Quiet
  <2>4. Directory(parts)'
    BY <2>3, Zenon DEF DirInv, Directory, Part, Bytes
  <2>. QED
    BY <1>0, <2>1, <2>2, <2>3, <2>4, Zenon DEF DirInv, NameOf
<1>2. ASSUME NEW m \in net, ReadPart(m), net' = net
      PROVE  DirInv'
  <2>. DEFINE new == [name |-> NameOf(m), data |-> <<>>]
  <2>1. /\ step = Idle /\ parts' = parts \cup {new} /\ torn' = torn
        /\ step' = [at |-> "writing", msg |-> m] /\ \A p \in parts : p.name # NameOf(m)
    BY <1>2, Zenon DEF ReadPart, PartExists
  <2>2. parts' = Put(m, <<>>)
    BY <2>1, Zenon DEF Put
  <2>3. <<>> \in Bytes
    BY DEF Bytes
  <2>4. Directory(parts') /\ \A p \in parts' : p.name = NameOf(m) \/ p \in parts
    BY <2>2, <2>3, PutKeeps, Zenon
  <2>5. Writing(NameOf(m))'
    BY <2>1 DEF Writing, NameOf
  <2>6. step.at # "writing"
    BY <2>1 DEF Idle
  <2>7. ASSUME NEW p \in parts'
        PROVE  \E n \in net' : p.name = NameOf(n) /\ (torn' \/ Writing(p.name)' \/ p.data = n.data)
    BY <2>1, <2>4, <2>5, <2>6, <1>2, Zenon DEF DirInv, Writing
  <2>8. Directory(parts)'
    BY <2>4, Zenon DEF Directory, Part, Bytes
  <2>. QED
    BY <2>7, <2>8, Zenon DEF DirInv, NameOf
<1>3. ASSUME WritePart, net' = net
      PROVE  DirInv'
  <2>1. step.at = "writing" /\ parts' = Put(step.msg, step.msg.data) /\ torn' = torn
    BY <1>3, WriteCases, Zenon
  <2>2. Directory(parts') /\ \A p \in parts' : \E n \in net : p.name = NameOf(n) /\ (torn \/ p.data = n.data)
    BY <2>1, PartIsWritten
  <2>3. Directory(parts)'
    BY <2>2, Zenon DEF Directory, Part, Bytes
  <2>. QED
    BY <2>1, <2>2, <2>3, <1>3, Zenon DEF DirInv, NameOf
<1>4. ASSUME JoinPart \/ JoinFails \/ JoinDone, net' = net
      PROVE  DirInv'
  <2>1. parts' \subseteq parts /\ torn' = torn /\ step.at = "joining"
    BY <1>4, Zenon DEF JoinPart, JoinFails, JoinDone
  <2>2. IsFiniteSet(parts')
    BY <2>1, FS_Subset DEF DirInv, Directory
  <2>3. Directory(parts)'
    BY <2>1, <2>2 DEF DirInv, Directory, Part, Bytes
  <2>4. \A p \in parts : \E n \in net : p.name = NameOf(n) /\ (torn \/ p.data = n.data)
    BY <2>1, Zenon DEF DirInv, Writing
  <2>. QED
    BY <2>1, <2>3, <2>4, <1>4, Zenon DEF DirInv, NameOf
<1>5. ASSUME Crash, net' = net
      PROVE  DirInv'
  <2>1. CASE torn' /\ step.at = "writing" /\ \E d \in Bytes : parts' = Put(step.msg, d)
    <3>0. step.msg \in net
      BY <2>1, StepFields
    <3>1. Directory(parts') /\ \A p \in parts' : p.name = NameOf(step.msg) \/ p \in parts
      BY <2>1, <3>0, PutKeeps, Zenon
    <3>2. Directory(parts)'
      BY <3>1, Zenon DEF Directory, Part, Bytes
    <3>. QED
      BY <2>1, <3>0, <3>1, <3>2, <1>5, Zenon DEF DirInv, NameOf
  <2>2. CASE step.at # "writing" /\ UNCHANGED <<parts, torn>>
    <3>1. Directory(parts)'
      BY <2>2, Zenon DEF DirInv, Directory, Part, Bytes
    <3>2. \A p \in parts : \E n \in net : p.name = NameOf(n) /\ (torn \/ p.data = n.data)
      BY <2>2, Zenon DEF DirInv, Writing
    <3>. QED
      BY <2>2, <3>1, <3>2, <1>5, Zenon DEF DirInv, NameOf
  <2>. QED
    BY <2>1, <2>2, <1>5, CrashCases, Zenon
<1>. QED
  BY <1>1, <1>2, <1>3, <1>4, <1>5, StepCases, Zenon

\* What list.toarray_sort is given are part files of the task of step.msg, and so
\* is what it returns.
LEMMA SortedType ==
    ASSUME SentInv, StepType, DirInv, WritePart
    PROVE  LET all == Siblings(parts', step.msg)
           IN  /\ Filed(all, step.msg) /\ all \subseteq parts'
               /\ Sorted(all) \in Seq(all) /\ Sorted(all) \in Seq(Part)
               /\ Len(Sorted(all)) = Cardinality(all)
<1>. DEFINE m == step.msg
            all == Siblings(parts', m)
<1>1. step.at = "writing" /\ parts' = Put(m, m.data)
  BY WriteCases, Zenon
<1>2. Directory(parts') /\ \A p \in parts' : \E n \in net : p.name = NameOf(n)
  BY <1>1, PartIsWritten
<1>3. Filed(all, m) /\ all \subseteq parts'
  BY <1>2, SiblingsFiled, Zenon
<1>. HIDE DEF all, m
<1>4. Cardinality(all) \in Nat
  BY <1>3, FS_CardinalityType DEF Filed, Ordered
<1>5. \A i \in 1 .. Cardinality(all) : Sorted(all)[i] \in all
  BY <1>3, SortedParts DEF Filed
<1>6. Sorted(all) \in [1 .. Cardinality(all) -> all]
  BY <1>5 DEF Sorted
<1>7. Sorted(all) \in Seq(all) /\ Len(Sorted(all)) = Cardinality(all)
  BY <1>4, <1>6
<1>8. all \subseteq Part
  BY <1>2, <1>3 DEF Directory
<1>9. Sorted(all) \in Seq(Part)
  BY <1>7, <1>8
<1>. QED
  BY <1>3, <1>7, <1>9 DEF all, m

\* StepType is kept by every step.
LEMMA TypeStep ==
    ASSUME SentInv, StepType, DirInv, [Next]_vars
    PROVE  StepType'
<1>1. ASSUME Quiet
      PROVE  StepType'
  <2>1. net \subseteq net' /\ step' = step
    BY <1>1, SentStep, Zenon DEF Quiet
  <2>. QED
    BY <2>1 DEF StepType, Idle, Part, Bytes
<1>2. ASSUME NEW m \in net, ReadPart(m), net' = net
      PROVE  StepType'
  BY <1>2 DEF ReadPart, StepType
<1>3. ASSUME step' = Idle
      PROVE  StepType'
  BY <1>3 DEF StepType, Idle
<1>4. ASSUME WritePart, net' = net
      PROVE  StepType'
  <2>1. step.msg \in net /\ Sorted(Siblings(parts', step.msg)) \in Seq(Part)
    BY <1>4, StepFields, SortedType DEF WritePart
  <2>2. <<>> \in Bytes
    BY DEF Bytes
  <2>3. CASE step' = [at |-> "joining", msg |-> step.msg, todo |-> Sorted(Siblings(parts', step.msg)), temp |-> <<>>]
    <3>1. step' \in [at : {"joining"}, msg : net, todo : Seq(Part), temp : Bytes]
      BY <2>1, <2>2, <2>3
    <3>. QED
      BY <3>1, <1>4, Zenon DEF StepType, Part, Bytes
  <2>. QED
    BY <1>3, <1>4, <2>3, WriteCases, Zenon
<1>5. ASSUME JoinPart, net' = net
      PROVE  StepType'
  <2>1. step.at = "joining" /\ step.todo # <<>>
    BY <1>5, Zenon DEF JoinPart
  <2>2. step.msg \in net /\ step.todo \in Seq(Part) /\ step.temp \in Bytes
    BY <2>1, StepFields
  <2>3. Tail(step.todo) \in Seq(Part) /\ Head(step.todo) \in Part
    BY <2>1, <2>2
  <2>4. step.temp \o Head(step.todo).data \in Bytes
    BY <2>2, <2>3 DEF Part, Bytes
  <2>5. step' = [at |-> "joining", msg |-> step.msg, todo |-> Tail(step.todo),
                 temp |-> step.temp \o Head(step.todo).data]
    BY <1>5, Zenon DEF JoinPart
  <2>6. step' \in [at : {"joining"}, msg : net, todo : Seq(Part), temp : Bytes]
    BY <2>2, <2>3, <2>4, <2>5
  <2>. QED
    BY <2>6, <1>5, Zenon DEF StepType, Part, Bytes
<1>6. ASSUME JoinFails \/ JoinDone \/ Crash
      PROVE  step' = Idle
  BY <1>6, Zenon DEF JoinFails, JoinDone, Crash
<1>. QED
  BY <1>1, <1>2, <1>3, <1>4, <1>5, <1>6, StepCases, Zenon

\* finalize takes one part: the others follow.
LEMMA NextPart ==
    ASSUME NEW m, m.file \in Files, m.parts = FileParts(Length[m.file]), m.parts \in Nat,
           NEW todo \in Seq(Part), todo # <<>>, NEW k \in 0 .. m.parts, Follows(todo, m, k)
    PROVE  /\ k < m.parts /\ Head(todo).data = FilePart(m.file, k * TaskBuffer) /\ Head(todo).data # <<>>
           /\ Follows(Tail(todo), m, k + 1)
           /\ Prefix(m.file, k) \o Head(todo).data = Prefix(m.file, k + 1)
<1>1. Len(todo) = m.parts - k /\ \A i \in 1 .. Len(todo) : todo[i].data = FilePart(m.file, (k + i - 1) * TaskBuffer)
  BY DEF Follows
<1>2. Len(todo) \in Nat /\ Len(todo) # 0 /\ Head(todo) = todo[1]
  OBVIOUS
<1>3. k < m.parts /\ k + 1 - 1 = k /\ 1 \in 1 .. Len(todo) /\ k \in 0 .. FileParts(Length[m.file]) - 1
  BY <1>1, <1>2
<1>4. Head(todo).data = FilePart(m.file, k * TaskBuffer)
  BY <1>1, <1>2, <1>3, Zenon
<1>5. Head(todo).data # <<>> /\ Prefix(m.file, k) \o Head(todo).data = Prefix(m.file, k + 1)
  BY <1>3, <1>4, PartByPart, Zenon
<1>6. Len(Tail(todo)) = m.parts - (k + 1)
  BY <1>1, <1>2
<1>7. ASSUME NEW i \in 1 .. Len(Tail(todo))
      PROVE  Tail(todo)[i].data = FilePart(m.file, ((k + 1) + i - 1) * TaskBuffer)
  <2>1. i + 1 \in 1 .. Len(todo) /\ Tail(todo)[i] = todo[i + 1] /\ k + (i + 1) - 1 = (k + 1) + i - 1
    BY <1>2
  <2>. QED
    BY <2>1, <1>1, Zenon
<1>8. Follows(Tail(todo), m, k + 1)
  BY <1>6, <1>7 DEF Follows
<1>. QED
  BY <1>3, <1>4, <1>5, <1>8, Zenon

\* JoinInv is kept by every step.
LEMMA JoinStep ==
    ASSUME SentInv, StepType, DirInv, JoinInv, [Next]_vars
    PROVE  JoinInv'
<1>0. net \subseteq net' /\ \A s, t : ~Reused(s, t)' => ~Reused(s, t)
  BY SentStep, ReusedStays, Zenon
<1>1. ASSUME Quiet
      PROVE  JoinInv'
  <2>1. step' = step /\ torn' = torn
    BY <1>1, Zenon DEF Quiet
  <2>2. \A x, m, k : Follows(x, m, k)' = Follows(x, m, k)
    BY Zenon DEF Follows, FilePart, Content
  <2>3. \A f, k : Prefix(f, k)' = Prefix(f, k)
    BY Zenon DEF Prefix, Content
  <2>. QED
    BY <1>0, <2>1, <2>2, <2>3, Zenon DEF JoinInv
<1>2. ASSUME step'.at # "joining"
      PROVE  JoinInv'
  BY <1>2, Zenon DEF JoinInv
<1>3. ASSUME NEW m \in net, ReadPart(m)
      PROVE  step'.at # "joining"
  BY <1>3 DEF ReadPart
<1>4. ASSUME JoinFails \/ JoinDone \/ Crash \/ step' = Idle
      PROVE  step'.at # "joining"
  BY <1>4 DEF JoinFails, JoinDone, Crash, Idle
<1>5. ASSUME WritePart, net' = net
      PROVE  JoinInv'
  <2>0. PICK m : m = step.msg
    OBVIOUS
  <2>. DEFINE all == Siblings(parts', m)
  <2>1. CASE /\ Cardinality(all) = m.parts
             /\ step' = [at |-> "joining", msg |-> m, todo |-> Sorted(all), temp |-> <<>>]
    <3>1. m \in net
      BY <1>5, <2>0, StepFields DEF WritePart
    <3>2. Filed(all, m) /\ Sorted(all) \in Seq(all) /\ Len(Sorted(all)) = Cardinality(all)
      BY <1>5, <2>0, SortedType, Zenon
    <3>3. m.parts \in Nat \ {0} /\ m.file \in Files
      BY <3>1, MessageType DEF SentInv
    <3>4. \A p \in all : p \in parts' /\ p.name.src = m.src /\ p.name.tidx = m.tidx
      BY DEF Siblings
    <3>5. parts' = Put(m, m.data) /\ step.at = "writing" /\ torn' = torn
      BY <1>5, <2>0, WriteCases, Zenon
    <3>6. \A p \in parts' : \E n \in net : p.name = NameOf(n) /\ (torn \/ p.data = n.data)
      BY <3>5, <2>0, PartIsWritten, Zenon
    <3>7. \A n : NameOf(n).src = n.src /\ NameOf(n).tidx = n.tidx
      BY DEF NameOf
    <3>8. step'.msg = m /\ step'.todo = Sorted(all) /\ step'.temp = <<>>
      BY <2>1
    <3>. HIDE DEF all
    <3>9. \A i \in 1 .. Len(Sorted(all)) : Sorted(all)[i] \in all
      BY <3>2
    <3>10. ASSUME ~torn', ~Reused(m.src, m.tidx)'
           PROVE  Follows(Sorted(all), m, 0) /\ <<>> = Prefix(m.file, 0)
      <4>1. ~torn /\ ~Reused(m.src, m.tidx)
        BY <3>10, <3>5, <1>0, Zenon
      <4>2. \A p \in all : \E n \in net : SameTask(m, n) /\ p.name = NameOf(n) /\ p.data = n.data
        <5>1. SUFFICES ASSUME NEW p \in all
                       PROVE  \E n \in net : SameTask(m, n) /\ p.name = NameOf(n) /\ p.data = n.data
          OBVIOUS
        <5>2. p \in parts' /\ p.name.src = m.src /\ p.name.tidx = m.tidx
          BY <3>4
        <5>3. PICK n \in net : p.name = NameOf(n) /\ p.data = n.data
          BY <5>2, <4>1, <3>6, Zenon
        <5>. QED
          BY <5>2, <5>3, <3>7, Zenon DEF SameTask
      <4>3. \A i \in 1 .. m.parts : Sorted(all)[i].data = FilePart(m.file, (i - 1) * TaskBuffer)
        BY <4>1, <4>2, <3>1, <3>2, <2>1, SortedTask DEF all
      <4>4. \A i \in 1 .. m.parts : i - 1 = 0 + i - 1
        BY <3>3
      <4>5. Len(Sorted(all)) = m.parts /\ m.parts = m.parts - 0
        BY <3>2, <3>3, <2>1 DEF all
      <4>6. \A i \in 1 .. m.parts : Sorted(all)[i].data = FilePart(m.file, (0 + i - 1) * TaskBuffer)
        BY <4>3, <4>4, Zenon
      <4>7. Follows(Sorted(all), m, 0)
        BY <4>5, <4>6, Zenon DEF Follows
      <4>8. Prefix(m.file, 0) = <<>>
        BY <3>3, PartByPart, Zenon
      <4>. QED
        BY <4>7, <4>8
    <3>11. 0 \in 0 .. m.parts
      BY <3>3
    <3>12. \A i \in 1 .. Len(Sorted(all)) : Sorted(all)[i].name.src = m.src /\ Sorted(all)[i].name.tidx = m.tidx
      BY <3>9, <3>4, Zenon
    <3>. QED
      BY <3>8, <3>10, <3>11, <3>12, Zenon DEF JoinInv, Follows, Prefix, FilePart, Content
  <2>. QED
    BY <1>2, <1>4, <1>5, <2>0, <2>1, WriteCases, Zenon
<1>6. ASSUME JoinPart, net' = net
      PROVE  JoinInv'
  <2>0. PICK m, todo : m = step.msg /\ todo = step.todo
    OBVIOUS
  <2>1. /\ step.at = "joining" /\ todo # <<>> /\ torn' = torn
        /\ step' = [at |-> "joining", msg |-> m, todo |-> Tail(todo), temp |-> step.temp \o Head(todo).data]
    BY <1>6, <2>0, Zenon DEF JoinPart
  <2>2. m \in net /\ todo \in Seq(Part)
    BY <2>0, <2>1, StepFields
  <2>3. m.parts \in Nat /\ m.parts = FileParts(Length[m.file]) /\ m.file \in Files
    BY <2>2, MessageType DEF SentInv
  <2>4. step'.msg = m /\ step'.todo = Tail(todo) /\ step'.temp = step.temp \o Head(todo).data
    BY <2>1, Zenon
  <2>. DEFINE Mine(x) == x.name.src = m.src /\ x.name.tidx = m.tidx
  <2>5. \A i \in 1 .. Len(todo) : Mine(todo[i])
    BY <2>0, <2>1, Zenon DEF JoinInv
  <2>. HIDE DEF Mine
  <2>6. \A i \in 1 .. Len(Tail(todo)) : Mine(Tail(todo)[i])
    <3>1. \A i \in 1 .. Len(Tail(todo)) : i + 1 \in 1 .. Len(todo) /\ Tail(todo)[i] = todo[i + 1]
      BY <2>1, <2>2
    <3>. QED
      BY <3>1, <2>5, Zenon
  <2>7. ASSUME ~torn', ~Reused(m.src, m.tidx)'
        PROVE  \E k \in 0 .. m.parts : Follows(Tail(todo), m, k) /\ step.temp \o Head(todo).data = Prefix(m.file, k)
    <3>1. ~torn /\ ~Reused(m.src, m.tidx)
      BY <2>7, <2>1, <1>0, Zenon
    <3>2. PICK k \in 0 .. m.parts : Follows(todo, m, k) /\ step.temp = Prefix(m.file, k)
      BY <3>1, <2>0, <2>1, Zenon DEF JoinInv
    <3>3. /\ k < m.parts /\ Follows(Tail(todo), m, k + 1)
          /\ Prefix(m.file, k) \o Head(todo).data = Prefix(m.file, k + 1)
      BY <3>2, <2>1, <2>2, <2>3, NextPart, Zenon
    <3>4. k + 1 \in 0 .. m.parts
      BY <3>3, <2>3
    <3>. QED
      BY <3>2, <3>3, <3>4, Zenon
  <2>. QED
    BY <2>4, <2>6, <2>7, Zenon DEF JoinInv, Mine, Follows, Prefix, FilePart, Content
<1>. QED
  BY <1>1, <1>2, <1>3, <1>4, <1>5, <1>6, StepCases, Zenon

\* JoinedIntact is kept by every step.
LEMMA IntactStep ==
    ASSUME SentInv, StepType, JoinInv, JoinedIntact, [Next]_vars
    PROVE  JoinedIntact'
<1>0. net \subseteq net' /\ \A s, t : ~Reused(s, t)' => ~Reused(s, t)
  BY SentStep, ReusedStays, Zenon
<1>1. torn => torn'
  <2>1. CASE Quiet
    BY <2>1, Zenon DEF Quiet
  <2>2. ASSUME NEW m \in net, ReadPart(m)
        PROVE  torn' = torn
    BY <2>2, Zenon DEF ReadPart
  <2>3. ASSUME WritePart \/ JoinPart \/ JoinFails \/ JoinDone
        PROVE  torn' = torn
    BY <2>3, Zenon DEF WritePart, JoinPart, JoinFails, JoinDone
  <2>4. CASE Crash
    BY <2>4, CrashCases, Zenon
  <2>. QED
    BY <2>1, <2>2, <2>3, <2>4, StepCases, Zenon
<1>2. ASSUME NEW j \in joined, ~torn', ~Reused(j.src, j.tidx)'
      PROVE  \E m \in net' : m.src = j.src /\ m.tidx = j.tidx /\ j.data = Content(m.file)
  BY <1>0, <1>1, <1>2, Zenon DEF JoinedIntact
<1>3. ASSUME joined' = joined
      PROVE  JoinedIntact'
  BY <1>2, <1>3, Zenon DEF JoinedIntact, Content
<1>4. ASSUME (\E m \in net : ReadPart(m)) \/ WritePart \/ JoinPart \/ JoinFails \/ Crash \/ Quiet
      PROVE  joined' = joined
  BY <1>4, Zenon DEF ReadPart, WritePart, JoinPart, JoinFails, Crash, Quiet
<1>5. ASSUME JoinDone, net' = net
      PROVE  JoinedIntact'
  <2>0. PICK m, temp : m = step.msg /\ temp = step.temp
    OBVIOUS
  <2>. DEFINE new == [src |-> m.src, tidx |-> m.tidx, data |-> temp]
  <2>1. step.at = "joining" /\ step.todo = <<>> /\ joined' = joined \cup {new}
    BY <1>5, <2>0, Zenon DEF JoinDone
  <2>2. m \in net /\ m.parts \in Nat /\ m.parts = FileParts(Length[m.file]) /\ m.file \in Files
    BY <2>0, <2>1, StepFields, MessageType, SMTT(30) DEF SentInv
  <2>3. ASSUME ~torn', ~Reused(m.src, m.tidx)'
        PROVE  temp = Content(m.file)
    <3>1. ~torn /\ ~Reused(m.src, m.tidx)
      BY <2>3, <1>0, <1>1, Zenon
    <3>2. PICK k \in 0 .. m.parts : Follows(step.todo, m, k) /\ temp = Prefix(m.file, k)
      BY <3>1, <2>0, <2>1, Zenon DEF JoinInv
    <3>3. Len(step.todo) = 0
      BY <2>1
    <3>4. k = m.parts
      BY <3>2, <3>3, <2>2 DEF Follows
    <3>. QED
      BY <3>2, <3>4, <2>2, PartByPart, Zenon
  <2>4. new.src = m.src /\ new.tidx = m.tidx /\ new.data = temp
    OBVIOUS
  <2>. HIDE DEF new
  <2>5. ASSUME NEW j \in joined', ~torn', ~Reused(j.src, j.tidx)'
        PROVE  \E n \in net' : n.src = j.src /\ n.tidx = j.tidx /\ j.data = Content(n.file)
    <3>1. CASE j \in joined
      BY <1>2, <2>5, <3>1
    <3>2. CASE j = new
      <4>1. j.src = m.src /\ j.tidx = m.tidx /\ j.data = temp
        BY <3>2, <2>4, Zenon
      <4>2. ~Reused(m.src, m.tidx)'
        BY <4>1, <2>5, Zenon
      <4>3. j.data = Content(m.file)
        BY <4>1, <4>2, <2>3, <2>5, Zenon
      <4>. QED
        BY <4>1, <4>3, <2>2, <1>5, Zenon
    <3>. QED
      BY <3>1, <3>2, <2>1
  <2>. QED
    BY <2>5, Zenon DEF JoinedIntact, Content
<1>. QED
  BY <1>3, <1>4, <1>5, StepCases, Zenon

\* The names of a part file and of its message belong to one task.
LEMMA NameFields ==
    ASSUME NEW m, NEW n, NameOf(m) = NameOf(n)
    PROVE  SameTask(m, n) /\ m.gidx = n.gidx
<1>1. \A x : NameOf(x).src = x.src /\ NameOf(x).tidx = x.tidx /\ NameOf(x).gidx = x.gidx
  BY DEF NameOf
<1>. QED
  BY <1>1, Zenon DEF SameTask

\* The same task, seen from either message.
LEMMA SameTaskIsEquivalence ==
    /\ \A m, n : SameTask(m, n) => SameTask(n, m)
    /\ \A m, n, o : SameTask(m, n) /\ SameTask(n, o) => SameTask(m, o)
    /\ \A m, n : SameTask(m, n) /\ Settled(n) => Settled(m)
<1>1. \A m, n : SameTask(m, n) => n.src = m.src /\ n.tidx = m.tidx
  BY Zenon DEF SameTask
<1>. QED
  BY <1>1, Zenon DEF SameTask, Settled, Whole

\* What is settled stays so.
LEMMA SettledStays ==
    ASSUME net \subseteq net', joined \subseteq joined', NEW m, Settled(m)
    PROVE  Settled(m)'
  BY Zenon DEF Settled, Whole, Reused

\* Steps of the senders, and messages that come again.
LEMMA KeptQuiet ==
    ASSUME SentInv, StepType, DirInv, KeptInv, [Next]_vars, Quiet
    PROVE  KeptInv'
<1>. SUFFICES ASSUME crashes' = 0
              PROVE  ~torn' /\ HandledKept' /\ NoneWaits' /\ BeingHandled'
  BY Zenon DEF KeptInv
<1>1. parts' = parts /\ step' = step /\ joined' = joined /\ crashes = 0 /\ torn' = torn
  BY Zenon DEF Quiet
<1>2. ~torn /\ HandledKept /\ NoneWaits /\ BeingHandled
  BY <1>1, Zenon DEF KeptInv
<1>3. net \subseteq net' /\ \A m \in net' \ net : Fresh(m)
  BY SentStep, Zenon
<1>4. \A m : /\ Settled(m) => Settled(m)'
             /\ Joining(m)' <=> Joining(m)
             /\ PartExists(m)' <=> PartExists(m)
             /\ Writing(NameOf(m))' <=> Writing(NameOf(m))
  <2>1. \A m : Settled(m) => Settled(m)'
    BY <1>1, <1>3, SettledStays, Zenon
  <2>. QED
    BY <1>1, <2>1, Zenon DEF Joining, SameTask, PartExists, Writing, NameOf
<1>5. \/ arrived' = arrived
      \/ step = Idle /\ \E m \in net : PartExists(m) /\ arrived' = arrived \cup {m}
  <2>1. ASSUME NEW m \in net, ReadAgain(m)
        PROVE  step = Idle /\ PartExists(m) /\ arrived' = arrived \cup {m}
    BY <2>1, <1>1, Zenon DEF ReadAgain, Handled
  <2>2. ASSUME NEW s \in Senders, NEW f \in Files, Send(s, f)
        PROVE  arrived' = arrived
    BY <2>2, Zenon DEF Send
  <2>3. ASSUME NEW s \in Senders, SenderRestarts(s)
        PROVE  arrived' = arrived
    BY <2>3, Zenon DEF SenderRestarts
  <2>4. ASSUME NEW m \in net, ReadPart(m)
        PROVE  arrived' = arrived
    BY <2>4, Zenon DEF ReadPart
  <2>5. ~WritePart /\ ~JoinPart /\ ~JoinFails /\ ~JoinDone /\ ~Crash
    <3>1. ~WritePart
      <4>. SUFFICES ASSUME WritePart PROVE FALSE
        OBVIOUS
      <4>1. step.at = "writing" /\ (step' = Idle \/ step'.at = "joining")
        BY WriteCases
      <4>. QED
        BY <4>1, <1>1 DEF Idle
    <3>2. ~JoinPart
      <4>. SUFFICES ASSUME JoinPart PROVE FALSE
        OBVIOUS
      <4>1. step.at = "joining" /\ step.todo # <<>> /\ step'.todo = Tail(step.todo)
        BY DEF JoinPart
      <4>2. step.todo \in Seq(Part)
        BY <4>1, StepFields
      <4>3. Len(Tail(step.todo)) = Len(step.todo) - 1 /\ Len(step.todo) \in Nat
        BY <4>1, <4>2
      <4>4. Tail(step.todo) = step.todo
        BY <4>1, <1>1
      <4>5. Len(step.todo) = Len(step.todo) - 1
        BY <4>3, <4>4, Zenon
      <4>. QED
        BY <4>3, <4>5
    <3>3. ~JoinFails /\ ~JoinDone
      BY <1>1 DEF JoinFails, JoinDone, Idle
    <3>4. ~Crash
      BY <1>1 DEF Crash
    <3>. QED
      BY <3>1, <3>2, <3>3, <3>4
  <2>6. CASE UNCHANGED vars
    BY <2>6, Zenon DEF vars
  <2>. QED
    BY <2>1, <2>2, <2>3, <2>4, <2>5, <2>6, Zenon DEF Next
<1>6. HandledKept'
  BY <1>2, <1>3, <1>4, <1>5, Zenon DEF HandledKept
<1>7. BeingHandled'
  <2>1. Idle' = Idle
    BY DEF Idle
  <2>. QED
    BY <1>1, <1>2, <1>4, <1>5, <2>1, Zenon DEF BeingHandled
<1>8. ASSUME NEW m \in net'
      PROVE  Settled(m)' \/ Joining(m)' \/ Lacks(m)'
  <2>1. CASE m \in net
    BY <2>1, <1>2, <1>3, <1>4, Zenon DEF NoneWaits, Lacks, SameTask
  <2>2. CASE m \notin net
    <3>1. ASSUME NEW n \in net, SameTask(m, n)
          PROVE  Settled(m)'
      <4>1. n.run # m.run /\ n.src = m.src /\ n.tidx = m.tidx
        BY <3>1, <2>2, <1>3, Zenon DEF Fresh, SameTask
      <4>2. {m.src, n.src} = {m.src} /\ {m.tidx, n.tidx} = {m.tidx}
        BY <4>1
      <4>. QED
        BY <4>1, <4>2, <1>3, Zenon DEF Settled, Reused
    <3>2. ASSUME PartExists(m)
          PROVE  \E n \in net : SameTask(m, n)
      BY <3>2, NameFields, Zenon DEF PartExists, DirInv
    <3>3. SameTask(m, m)'
      BY Zenon DEF SameTask
    <3>4. ASSUME ~PartExists(m)
          PROVE  Lacks(m)'
      BY <3>3, <3>4, <1>4, Zenon DEF Lacks
    <3>. QED
      BY <3>1, <3>2, <3>4, Zenon
  <2>. QED
    BY <2>1, <2>2
<1>9. NoneWaits'
  BY <1>8, Zenon DEF NoneWaits
<1>. QED
  BY <1>1, <1>2, <1>6, <1>7, <1>9, Zenon

\* file_read of a new part.
LEMMA KeptRead ==
    ASSUME KeptInv, NEW m \in net, ReadPart(m), net' = net
    PROVE  KeptInv'
<1>. SUFFICES ASSUME crashes' = 0
              PROVE  ~torn' /\ HandledKept' /\ NoneWaits' /\ BeingHandled'
  BY Zenon DEF KeptInv
<1>. DEFINE new == [name |-> NameOf(m), data |-> <<>>]
<1>1. /\ step = Idle /\ ~PartExists(m) /\ parts' = parts \cup {new} /\ step' = [at |-> "writing", msg |-> m]
      /\ joined' = joined /\ arrived' = arrived /\ crashes' = crashes /\ torn' = torn
  BY Zenon DEF ReadPart
<1>2. ~torn /\ HandledKept /\ NoneWaits /\ BeingHandled
  BY <1>1, Zenon DEF KeptInv
<1>3. \A x : Settled(x) => Settled(x)'
  BY <1>1, SettledStays, Zenon
<1>4. step.at = "idle" /\ step'.at = "writing" /\ step'.msg = m /\ new.name = NameOf(m)
  BY <1>1 DEF Idle
<1>. HIDE DEF new
<1>5. \A x : ~Joining(x) /\ ~Writing(NameOf(x))
  BY <1>4 DEF Joining, Writing
<1>6. \A x : PartExists(x) => PartExists(x)'
  BY <1>1, Zenon DEF PartExists, NameOf
<1>7. \A x : ~PartExists(x) => ~PartExists(x)' \/ Writing(NameOf(x))'
  BY <1>1, <1>4, Zenon DEF PartExists, Writing, NameOf
<1>8. HandledKept'
  BY <1>1, <1>2, <1>3, <1>5, <1>6, Zenon DEF HandledKept
<1>9. NoneWaits'
  BY <1>2, <1>3, <1>5, <1>7, Zenon DEF NoneWaits, Lacks, SameTask
<1>10. BeingHandled'
  <2>1. Settled(m) \/ m \notin arrived
    BY <1>1, <1>2, <1>5, Zenon DEF HandledKept
  <2>2. Settled(m)' \/ m \notin arrived'
    BY <2>1, <1>1, <1>3, Zenon
  <2>. QED
    BY <2>2, <1>4, Zenon DEF BeingHandled
<1>. QED
  BY <1>1, <1>2, <1>8, <1>9, <1>10, Zenon

\* The part is written; if its task still lacks one, nothing is joined.
LEMMA KeptWrite ==
    ASSUME SentInv, StepType, DirInv, KeptInv, WritePart, net' = net
    PROVE  KeptInv'
<1>. SUFFICES ASSUME crashes' = 0
              PROVE  ~torn' /\ HandledKept' /\ NoneWaits' /\ BeingHandled'
  BY Zenon DEF KeptInv
<1>0. PICK m : m = step.msg
  OBVIOUS
<1>. DEFINE all == Siblings(parts', m)
<1>1. /\ step.at = "writing" /\ parts' = Put(m, m.data)
      /\ joined' = joined /\ crashes' = crashes /\ torn' = torn
      /\ \/ /\ arrived' = arrived
            /\ step' = [at |-> "joining", msg |-> m, todo |-> Sorted(all), temp |-> <<>>]
         \/ Cardinality(all) # m.parts /\ step' = Idle /\ Handled(m)
  BY <1>0, WriteCases, Zenon
<1>2. ~torn /\ HandledKept /\ NoneWaits /\ BeingHandled /\ crashes = 0
  BY <1>1, Zenon DEF KeptInv
<1>3. m \in net /\ m.data \in Bytes
  BY <1>0, <1>1, StepFields, MessageType
<1>4. Filed(all, m)
  BY <1>0, SortedType, Zenon
<1>5. \A p \in parts' : p.name = NameOf(m) \/ p \in parts
  BY <1>1, <1>3, PutKeeps, Zenon
<1>6. \A p \in parts : \E q \in parts' : q.name = p.name
  <2>1. PICK new : new = [name |-> NameOf(m), data |-> m.data]
    BY Zenon
  <2>2. new.name = NameOf(m)
    BY <2>1
  <2>. QED
    BY <1>1, <2>1, <2>2, Zenon DEF Put
<1>7. \A x : Settled(x) => Settled(x)'
  BY <1>1, SettledStays, Zenon
<1>8. \A x : PartExists(x) => PartExists(x)'
  BY <1>6, Zenon DEF PartExists, NameOf
<1>9. PartExists(m)'
  <2>1. [name |-> NameOf(m), data |-> m.data] \in parts'
    BY <1>1, <1>3, PutKeeps, Zenon
  <2>2. [name |-> NameOf(m), data |-> m.data].name = NameOf(m)
    OBVIOUS
  <2>. QED
    BY <2>1, <2>2, Zenon DEF PartExists, NameOf
<1>10. \A x : ~Joining(x)
  BY <1>1 DEF Joining
<1>11. ASSUME NEW x \in net, ~SameTask(x, m), Lacks(x)
       PROVE  Lacks(x)'
  <2>1. PICK n \in net : SameTask(x, n) /\ (~PartExists(n) \/ Writing(NameOf(n)))
    BY <1>11, Zenon DEF Lacks
  <2>2. NameOf(m) # NameOf(n)
    <3>1. SUFFICES ASSUME NameOf(n) = NameOf(m)
                   PROVE  FALSE
      BY Zenon
    <3>2. SameTask(n, m)
      BY <3>1, NameFields, Zenon
    <3>. QED
      BY <3>2, <2>1, <1>11, SameTaskIsEquivalence, Zenon
  <2>3. ~PartExists(n)
    BY <2>1, <2>2, <1>0, Zenon DEF Writing
  <2>4. ~PartExists(n)'
    BY <2>2, <2>3, <1>5, Zenon DEF PartExists, NameOf
  <2>. QED
    BY <2>1, <2>4, Zenon DEF Lacks, SameTask
<1>12. CASE arrived' = arrived /\ step' = [at |-> "joining", msg |-> m, todo |-> Sorted(all), temp |-> <<>>]
  <2>1. step'.at = "joining" /\ step'.msg = m
    BY <1>12
  <2>2. HandledKept'
    BY <1>2, <1>7, <1>8, <1>10, <1>12, Zenon DEF HandledKept
  <2>3. \A x \in net : SameTask(x, m) => Joining(x)'
    BY <2>1, Zenon DEF Joining, SameTask
  <2>4. NoneWaits'
    BY <1>2, <1>7, <1>10, <1>11, <2>3, Zenon DEF NoneWaits
  <2>5. Settled(m) \/ m \notin arrived
    <3>1. step # Idle
      BY <1>1 DEF Idle
    <3>. QED
      BY <3>1, <1>0, <1>2, Zenon DEF BeingHandled
  <2>6. BeingHandled'
    <3>1. Settled(m)' \/ m \notin arrived'
      BY <2>5, <1>7, <1>12, Zenon
    <3>. QED
      BY <3>1, <2>1, Zenon DEF BeingHandled
  <2>. QED
    BY <1>1, <1>2, <2>2, <2>4, <2>6, Zenon
<1>13. CASE Cardinality(all) # m.parts /\ step' = Idle /\ Handled(m)
  <2>1. arrived' = arrived \cup {m}
    BY <1>2, <1>13, Zenon DEF Handled
  <2>2. HandledKept'
    BY <1>2, <1>3, <1>7, <1>8, <1>9, <1>10, <2>1, Zenon DEF HandledKept
  <2>3. ASSUME ~Reused(m.src, m.tidx)
        PROVE  \E n \in net : SameTask(m, n) /\ ~PartExists(n)'
    <3>1. PICK n \in net : SameTask(m, n) /\ \A p \in all : p.name # NameOf(n)
      BY <2>3, <1>3, <1>4, <1>13, CompleteTask, Zenon
    <3>2. ASSUME NEW p \in parts', p.name = NameOf(n)
          PROVE  p \in all
      <4>1. NameOf(n).src = n.src /\ NameOf(n).tidx = n.tidx
        BY DEF NameOf
      <4>. QED
        BY <3>1, <3>2, <4>1, Zenon DEF Siblings, SameTask
    <3>. QED
      BY <3>1, <3>2, Zenon DEF PartExists, NameOf
  <2>4. ASSUME NEW x \in net, SameTask(x, m)
        PROVE  Settled(x)' \/ Lacks(x)'
    <3>1. CASE Reused(m.src, m.tidx)
      BY <3>1, <2>4, <1>7, SameTaskIsEquivalence, Zenon DEF Settled
    <3>2. CASE ~Reused(m.src, m.tidx)
      <4>1. PICK n \in net : SameTask(m, n) /\ ~PartExists(n)'
        BY <3>2, <2>3, Zenon
      <4>2. SameTask(x, n)
        BY <4>1, <2>4, SameTaskIsEquivalence, Zenon
      <4>. QED
        BY <4>1, <4>2, Zenon DEF Lacks, SameTask
    <3>. QED
      BY <3>1, <3>2
  <2>5. NoneWaits'
    BY <1>2, <1>7, <1>10, <1>11, <2>4, Zenon DEF NoneWaits
  <2>6. BeingHandled'
    BY <1>13, Zenon DEF BeingHandled, Idle
  <2>. QED
    BY <1>1, <1>2, <2>2, <2>5, <2>6, Zenon
<1>. QED
  BY <1>1, <1>12, <1>13, Zenon

\* finalize takes a part of its own task only.
LEMMA KeptJoinPart ==
    ASSUME StepType, JoinInv, KeptInv, JoinPart, net' = net
    PROVE  KeptInv'
<1>. SUFFICES ASSUME crashes' = 0
              PROVE  ~torn' /\ HandledKept' /\ NoneWaits' /\ BeingHandled'
  BY Zenon DEF KeptInv
<1>0. PICK m, todo : m = step.msg /\ todo = step.todo
  OBVIOUS
<1>1. /\ step.at = "joining" /\ todo # <<>> /\ parts' = parts \ {Head(todo)}
      /\ joined' = joined /\ crashes' = crashes /\ torn' = torn /\ arrived' = arrived
  BY <1>0, Zenon DEF JoinPart
<1>2. step'.at = "joining" /\ step'.msg = m
  BY <1>0 DEF JoinPart
<1>3. ~torn /\ HandledKept /\ NoneWaits /\ BeingHandled
  BY <1>1, Zenon DEF KeptInv
<1>4. \A x : Settled(x) => Settled(x)'
  BY <1>1, SettledStays, Zenon
<1>5. \A x : (Joining(x)' <=> Joining(x)) /\ (Joining(x) <=> SameTask(x, m)) /\ ~Writing(x)
  BY <1>0, <1>1, <1>2 DEF Joining, SameTask, Writing
<1>6. Head(todo).name.src = m.src /\ Head(todo).name.tidx = m.tidx
  <2>1. todo \in Seq(Part)
    BY <1>0, <1>1, StepFields
  <2>2. Head(todo) = todo[1] /\ 1 \in 1 .. Len(todo)
    BY <2>1, <1>1
  <2>. QED
    BY <2>2, <1>0, <1>1, Zenon DEF JoinInv
<1>7. ASSUME NEW x, PartExists(x), ~SameTask(x, m)
      PROVE  PartExists(x)'
  <2>1. PICK p \in parts : p.name = NameOf(x)
    BY <1>7, Zenon DEF PartExists
  <2>2. NameOf(x).src = x.src /\ NameOf(x).tidx = x.tidx
    BY DEF NameOf
  <2>3. p # Head(todo)
    BY <2>1, <2>2, <1>6, <1>7, Zenon DEF SameTask
  <2>4. p \in parts'
    BY <2>1, <2>3, <1>1
  <2>. QED
    BY <2>1, <2>4, Zenon DEF PartExists, NameOf
<1>8. HandledKept'
  BY <1>1, <1>3, <1>4, <1>5, <1>7, Zenon DEF HandledKept
<1>9. \A x : PartExists(x)' => PartExists(x)
  BY <1>1, Zenon DEF PartExists, NameOf
<1>10. NoneWaits'
  BY <1>3, <1>4, <1>5, <1>9, Zenon DEF NoneWaits, Lacks, SameTask
<1>11. BeingHandled'
  <2>1. step # Idle
    BY <1>1 DEF Idle
  <2>2. Settled(m) \/ m \notin arrived
    BY <2>1, <1>0, <1>3, Zenon DEF BeingHandled
  <2>3. Settled(m)' \/ m \notin arrived'
    BY <2>2, <1>1, <1>4, Zenon
  <2>. QED
    BY <2>3, <1>2, Zenon DEF BeingHandled
<1>. QED
  BY <1>1, <1>3, <1>8, <1>10, <1>11, Zenon

\* finalize ends: the file is whole, or its task number was used twice.
LEMMA KeptJoinEnds ==
    ASSUME SentInv, StepType, JoinInv, KeptInv, JoinFails \/ JoinDone, net' = net
    PROVE  KeptInv'
<1>. SUFFICES ASSUME crashes' = 0
              PROVE  ~torn' /\ HandledKept' /\ NoneWaits' /\ BeingHandled'
  BY Zenon DEF KeptInv
<1>0. PICK m : m = step.msg
  OBVIOUS
<1>1. /\ step.at = "joining" /\ parts' = parts /\ step' = Idle /\ Handled(m)
      /\ crashes' = crashes /\ torn' = torn
  BY <1>0, Zenon DEF JoinFails, JoinDone
<1>2. ~torn /\ HandledKept /\ NoneWaits /\ BeingHandled /\ crashes = 0
  BY <1>1, Zenon DEF KeptInv
<1>3. m \in net
  BY <1>0, <1>1, StepFields
<1>4. joined \subseteq joined'
  BY Zenon DEF JoinFails, JoinDone
<1>5. \A x : Settled(x) => Settled(x)'
  BY <1>4, SettledStays, Zenon
<1>6. Settled(m)'
  <2>1. CASE JoinDone
    <3>. DEFINE j == [src |-> m.src, tidx |-> m.tidx, data |-> step.temp]
    <3>1. j \in joined'
      BY <2>1, <1>0, Zenon DEF JoinDone
    <3>2. j.src = m.src /\ j.tidx = m.tidx
      OBVIOUS
    <3>. HIDE DEF j
    <3>3. \E i \in joined' : i.src = m.src /\ i.tidx = m.tidx
      BY <3>1, <3>2, Zenon
    <3>. QED
      BY <3>3, Zenon DEF Settled, Whole
  <2>2. CASE JoinFails
    <3>1. step.todo # <<>> /\ Head(step.todo).data = <<>>
      BY <2>2, Zenon DEF JoinFails
    <3>2. step.todo \in Seq(Part)
      BY <1>1, StepFields
    <3>3. m.parts \in Nat /\ m.parts = FileParts(Length[m.file]) /\ m.file \in Files
      BY <1>3, MessageType DEF SentInv
    <3>4. ASSUME NEW k \in 0 .. m.parts, Follows(step.todo, m, k)
          PROVE  FALSE
      BY <3>1, <3>2, <3>3, <3>4, NextPart, Zenon
    <3>5. Reused(m.src, m.tidx)
      BY <3>4, <1>0, <1>1, <1>2, Zenon DEF JoinInv
    <3>. QED
      BY <3>5, <1>5, Zenon DEF Settled
  <2>. QED
    BY <2>1, <2>2
<1>7. ASSUME NEW x, Joining(x)
      PROVE  Settled(x)'
  <2>1. m.src = x.src /\ m.tidx = x.tidx
    BY <1>0, <1>7, Zenon DEF Joining, SameTask
  <2>. QED
    BY <2>1, <1>6, Zenon DEF Settled, Whole
<1>8. arrived' = arrived \cup {m}
  BY <1>1, <1>2, Zenon DEF Handled
<1>9. \A x : PartExists(x)' <=> PartExists(x)
  BY <1>1, Zenon DEF PartExists, NameOf
<1>10. HandledKept'
  BY <1>2, <1>3, <1>5, <1>6, <1>7, <1>8, <1>9, Zenon DEF HandledKept
<1>11. \A x : ~Writing(x)
  BY <1>1 DEF Writing
<1>12. NoneWaits'
  BY <1>2, <1>5, <1>7, <1>9, <1>11, Zenon DEF NoneWaits, Lacks, SameTask
<1>13. BeingHandled'
  BY <1>1, Zenon DEF BeingHandled, Idle
<1>. QED
  BY <1>1, <1>2, <1>10, <1>12, <1>13, Zenon

\* KeptInv is kept by every step; a crash ends what it says.
LEMMA KeptStep ==
    ASSUME SentInv, StepType, DirInv, JoinInv, crashes \in Nat, KeptInv, [Next]_vars
    PROVE  crashes' \in Nat /\ KeptInv'
<1>1. CASE Crash
  <2>1. crashes' = crashes + 1
    BY <1>1, Zenon DEF Crash
  <2>2. crashes' \in Nat /\ crashes' # 0
    BY <2>1
  <2>. QED
    BY <2>2, Zenon DEF KeptInv
<1>2. CASE ~Crash
  <2>1. crashes' = crashes
    <3>1. ASSUME (\E m \in net : ReadPart(m)) \/ WritePart \/ JoinPart \/ JoinFails \/ JoinDone \/ Quiet
          PROVE  crashes' = crashes
      BY <3>1, Zenon DEF ReadPart, WritePart, JoinPart, JoinFails, JoinDone, Quiet
    <3>. QED
      BY <3>1, <1>2, StepCases, Zenon
  <2>2. KeptInv'
    BY <1>2, StepCases, KeptQuiet, KeptRead, KeptWrite, KeptJoinPart, KeptJoinEnds, Zenon
  <2>. QED
    BY <2>1, <2>2
<1>. QED
  BY <1>1, <1>2

(***************************************************************************)
(* The theorems.                                                           *)
(***************************************************************************)
\* The invariant holds at first.
LEMMA InitPartsInv == Init => PartsInv
<1>. SUFFICES ASSUME Init
              PROVE  PartsInv
  OBVIOUS
<1>1. SentInv
  BY DEF Init, SentInv
<1>2. StepType /\ step.at = "idle"
  BY DEF Init, StepType, Idle
<1>3. DirInv
  BY FS_EmptySet DEF Init, DirInv, Directory
<1>4. JoinInv
  BY <1>2 DEF JoinInv
<1>5. JoinedIntact /\ crashes \in Nat
  BY DEF Init, JoinedIntact
<1>6. KeptInv
  BY Zenon DEF Init, KeptInv, HandledKept, NoneWaits, BeingHandled
<1>. QED
  BY <1>1, <1>2, <1>3, <1>4, <1>5, <1>6 DEF PartsInv

\* Every step keeps the invariant.
LEMMA NextPartsInv == PartsInv /\ [Next]_vars => PartsInv'
  BY SentStep, TypeStep, DirStep, JoinStep, IntactStep, KeptStep, Zenon DEF PartsInv

\* The invariant holds throughout.
THEOREM PartsInvariant == Spec => []PartsInv
  BY InitPartsInv, NextPartsInv, PTL DEF Spec

\* finalize never makes anything but the file of the task, for any files, senders
\* and part sizes and however messages are repeated, reordered or lost, unless a
\* crash tore a part or a restarted sender used the task number again.
THEOREM JoinedFilesAreIntact == Spec => []JoinedIntact
<1>1. PartsInv => JoinedIntact
  BY Zenon DEF PartsInv
<1>. QED
  BY <1>1, PartsInvariant, PTL

\* What the invariant says of a task whose messages have all been handled.
LEMMA AllHandled == PartsInv => ArrivedIsJoined
<1>. SUFFICES ASSUME PartsInv, NEW m \in net, \A n \in net : SameTask(m, n) => n \in arrived,
                     crashes = 0, ~Reused(m.src, m.tidx), ~Whole(m)
              PROVE  FALSE
  BY Zenon DEF ArrivedIsJoined, SameTask, Whole
<1>1. SentInv /\ StepType /\ HandledKept /\ NoneWaits /\ BeingHandled
  BY Zenon DEF PartsInv, KeptInv
<1>2. ASSUME NEW n, SameTask(m, n)
      PROVE  ~Settled(n)
  BY <1>2, SameTaskIsEquivalence, Zenon DEF Settled
<1>3. ASSUME step # Idle, SameTask(m, step.msg)
      PROVE  FALSE
  <2>1. step.msg \in net
    BY <1>1, <1>3, StepFields, Zenon
  <2>. QED
    BY <2>1, <1>1, <1>2, <1>3, Zenon DEF BeingHandled
<1>4. ~Joining(m)
  <2>1. Joining(m) => step # Idle
    BY DEF Joining, Idle
  <2>. QED
    BY <2>1, <1>3, Zenon DEF Joining
<1>5. PICK n \in net : SameTask(m, n) /\ (~PartExists(n) \/ Writing(NameOf(n)))
  BY <1>1, <1>2, <1>4, SameTaskIsEquivalence, Zenon DEF NoneWaits, Lacks, Settled
<1>6. ~Writing(NameOf(n))
  <2>1. SUFFICES ASSUME Writing(NameOf(n))
                 PROVE  FALSE
    OBVIOUS
  <2>2. step # Idle
    BY <2>1 DEF Writing, Idle
  <2>3. NameOf(n) = NameOf(step.msg)
    BY <2>1, Zenon DEF Writing
  <2>4. SameTask(n, step.msg)
    BY <2>3, NameFields, Zenon
  <2>5. SameTask(m, step.msg)
    BY <2>4, <1>5, SameTaskIsEquivalence, Zenon
  <2>. QED
    BY <2>2, <2>5, <1>3, Zenon
<1>7. n \in arrived /\ ~Settled(n)
  BY <1>2, <1>5, Zenon
<1>8. ~Joining(n)
  BY <1>4, <1>5, SameTaskIsEquivalence, Zenon DEF Joining
<1>. QED
  BY <1>1, <1>5, <1>6, <1>7, <1>8, Zenon DEF HandledKept

\* A task all of whose messages have been handled has become a file, for any
\* files, senders and part sizes: counting the part files after every write
\* leaves no complete set of them behind.
THEOREM HandledTasksAreJoined == Spec => []ArrivedIsJoined
  BY AllHandled, PartsInvariant, PTL

=============================================================================
