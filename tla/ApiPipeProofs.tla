---------------------------- MODULE ApiPipeProofs ----------------------------
(***************************************************************************)
(* Proofs about ApiPipe, for all values of the constants.                  *)
(*                                                                         *)
(* Commands (CommandsInv): the bytes in the buffer and those still in the  *)
(* pipe are consecutive bytes of the application's commands; the buffer    *)
(* starts where a command starts, and everything before it was handled, or *)
(* was lost with a peer.  So no command is passed over (NothingSkipped).   *)
(*                                                                         *)
(* Answers (AnswersInv): what is in the answer pipe, then what the write   *)
(* queue still holds, are writes in the order they were queued, each       *)
(* header with its body behind it.  So the application reads answers in    *)
(* the order the commands were handled in (AnswersInOrder).                *)
(***************************************************************************)
EXTENDS ApiPipe, Integers, TLAPS, WellFoundedInduction

(***************************************************************************)
(* Facts about sequences.                                                  *)
(***************************************************************************)
\* Sequences that agree place by place are equal.
LEMMA SeqEqual ==
    ASSUME NEW S, NEW s \in Seq(S), NEW t \in Seq(S), Len(s) = Len(t),
           \A i \in 1 .. Len(s) : s[i] = t[i]
    PROVE  s = t
  OBVIOUS

\* Concatenation, place by place.
LEMMA ConcatProperties ==
    ASSUME NEW S, NEW s \in Seq(S), NEW t \in Seq(S)
    PROVE  /\ s \o t \in Seq(S) /\ Len(s \o t) = Len(s) + Len(t)
           /\ \A i \in 1 .. Len(s) + Len(t) :
                 (s \o t)[i] = IF i <= Len(s) THEN s[i] ELSE t[i - Len(s)]
  OBVIOUS

\* Concatenation is associative.
LEMMA ConcatAssociative ==
    ASSUME NEW S, NEW s \in Seq(S), NEW t \in Seq(S), NEW u \in Seq(S)
    PROVE  (s \o t) \o u = s \o (t \o u)
  OBVIOUS

\* The first element and the others.
LEMMA HeadTailProperties ==
    ASSUME NEW S, NEW s \in Seq(S), s # << >>
    PROVE  /\ Head(s) \in S /\ Tail(s) \in Seq(S) /\ Len(Tail(s)) = Len(s) - 1
           /\ \A i \in 1 .. Len(Tail(s)) : Tail(s)[i] = s[i + 1]
  OBVIOUS

\* The part from the first to the last place is the whole.
LEMMA SubSeqFull ==
    ASSUME NEW S, NEW s \in Seq(S)
    PROVE  SubSeq(s, 1, Len(s)) = s
  OBVIOUS

\* Two parts of which one begins where the other ends.
LEMMA ConcatAdjacentSubSeq ==
    ASSUME NEW S, NEW s \in Seq(S), NEW m \in 1 .. Len(s) + 1,
           NEW k \in m - 1 .. Len(s), NEW n \in k .. Len(s)
    PROVE  SubSeq(s, m, k) \o SubSeq(s, k + 1, n) = SubSeq(s, m, n)
  OBVIOUS

\* One element more.
LEMMA AppendProperties ==
    ASSUME NEW S, NEW s \in Seq(S), NEW e \in S
    PROVE  /\ Append(s, e) \in Seq(S) /\ Append(s, e) # << >>
           /\ Len(Append(s, e)) = Len(s) + 1
           /\ \A i \in 1 .. Len(s) : Append(s, e)[i] = s[i]
           /\ Append(s, e)[Len(s) + 1] = e
  OBVIOUS


\* The least position of a set.
First(S) == CHOOSE k \in S : \A l \in S : k <= l

\* The first of a non-empty set of positions.
LEMMA FirstIsMember ==
    ASSUME NEW S \in SUBSET Nat, S # {}
    PROVE  First(S) \in S /\ \A j \in S : First(S) <= j
<1>1. IsWellFoundedOn(OpToRel(<, Nat), Nat)
  BY NatLessThanWellFounded, Zenon
<1>2. PICK i \in S : \A j \in S : ~(<<j, i>> \in OpToRel(<, Nat))
  BY <1>1, WFMin, Zenon
<1>3. ASSUME NEW j \in S, j < i PROVE FALSE
  <2>1. <<j, i>> \in OpToRel(<, Nat)
    BY <1>3 DEF OpToRel
  <2>. QED
    BY <1>2, <2>1, Zenon
<1>4. \A j \in S : i <= j
  BY <1>3
<1>. QED
  BY <1>4, Zenon DEF First

-----------------------------------------------------------------------------
(* Commands *)

Total(n) == HeaderLen + Length[n]

\* The byte that an application writes behind b.
Succ(b) == IF b[2] < Total(b[1]) THEN <<b[1], b[2] + 1>> ELSE <<b[1] + 1, 1>>

Chained(s) == \A i \in 1 .. Len(s) - 1 : s[i + 1] = Succ(s[i])

\* What was written and not used begins with a command and ends with the last
\* one, w.
StreamOk(s, w) ==
    /\ s \in Seq(Nat \X Nat)
    /\ w \in Nat /\ 1 .. w \subseteq Commands
    /\ s # <<>> => /\ s[1][1] >= 1 /\ s[1][2] = 1
                   /\ s[Len(s)] = <<w, Total(w)>>
    /\ Chained(s)

\* The commands up to this one are handled or lost.
Through(s, w) == IF s = <<>> THEN w ELSE s[1][1] - 1

\* What is left in the buffer: in the loop a header at least, elsewhere less than
\* a command.  d is the length of the command at its beginning.
BufferOk(b, d, p) ==
    /\ p # "undefined"
    /\ d # 0 => b # <<>> /\ d = Length[b[1][1]]
    /\ p = "loop" => b # <<>> /\ b[Len(b)][2] >= HeaderLen
    /\ p # "loop" /\ b # <<>> => Len(b) < Total(b[1][1])
    /\ p \in {"reopen", "ended"} => b = <<>>

HandledOk(h, l, t) ==
    /\ h \in Seq(Nat)
    /\ \A i, j \in DOMAIN h : i < j => h[i] < h[j]
    /\ Range(h) \cup l = 1 .. t

CommandsInv ==
    ~torn => /\ buf \in Seq(Nat \X Nat) /\ commands \in Seq(Nat \X Nat)
             /\ StreamOk(buf \o commands, written)
             /\ BufferOk(buf, dst, pc)
             /\ HandledOk(handled, lost, Through(buf \o commands, written))

\* The byte behind a byte belongs to the same command or to the next one.
LEMMA SuccType ==
    ASSUME NEW b \in Nat \X Nat
    PROVE  /\ Succ(b) \in Nat \X Nat
           /\ Succ(b)[1] = b[1] \/ Succ(b)[1] = b[1] + 1
           /\ Succ(b)[1] \in Nat /\ b[1] \in Nat
  BY DEF Succ

\* Commands follow one another in a stream.
LEMMA ChainGrows ==
    ASSUME NEW s \in Seq(Nat \X Nat), Chained(s), NEW i \in 1 .. Len(s)
    PROVE  \A j \in 1 .. Len(s) : i <= j => s[i][1] <= s[j][1]
<1>. DEFINE Bad == {j \in 1 .. Len(s) : i <= j /\ ~(s[i][1] <= s[j][1])}
<1>. HIDE DEF Bad
<1>1. \A j \in 1 .. Len(s) : s[j] \in Nat \X Nat /\ s[j][1] \in Nat
  <2>1. \A j \in 1 .. Len(s) : s[j] \in Nat \X Nat
    OBVIOUS
  <2>. QED
    BY <2>1
<1>2. Bad = {}
  <2>. SUFFICES ASSUME Bad # {} PROVE FALSE
    OBVIOUS
  <2>1. Bad \in SUBSET Nat
    BY DEF Bad
  <2>2. PICK j \in Bad : \A l \in Bad : j <= l
    BY <2>1, FirstIsMember, Zenon
  <2>3. j \in 1 .. Len(s) /\ i <= j /\ ~(s[i][1] <= s[j][1])
    BY <2>2, Zenon DEF Bad
  <2>4. i # j
    BY <1>1, <2>3
  <2>5. j - 1 \in 1 .. Len(s) - 1 /\ j - 1 \in 1 .. Len(s) /\ i <= j - 1 /\ (j - 1) + 1 = j
    BY <2>3, <2>4
  <2>6. j - 1 \notin Bad
    <3>1. j - 1 \in Bad => j <= j - 1
      BY <2>2, Zenon
    <3>. QED
      BY <3>1, <2>3
  <2>7. s[i][1] <= s[j - 1][1]
    BY <2>5, <2>6, Zenon DEF Bad
  <2>8. s[(j - 1) + 1] = Succ(s[j - 1])
    BY <2>5, Zenon DEF Chained
  <2>9. s[j] = Succ(s[j - 1])
    BY <2>5, <2>8
  <2>10. s[j][1] = s[j - 1][1] \/ s[j][1] = s[j - 1][1] + 1
    BY <1>1, <2>5, <2>9, SuccType, Zenon
  <2>11. \A a, b, c \in Nat : ~(a <= b) /\ a <= c => ~(b = c \/ b = c + 1)
    OBVIOUS
  <2>. QED
    BY <1>1, <2>3, <2>5, <2>7, <2>10, <2>11, Zenon
<1>. QED
  BY <1>2, Zenon DEF Bad

\* The first command of a stream, byte by byte.
LEMMA ChainFront ==
    ASSUME NEW s \in Seq(Nat \X Nat), Chained(s), s # <<>>, NEW n \in Nat, s[1] = <<n, 1>>,
           Total(n) \in Nat
    PROVE  \A i \in 1 .. Len(s) : i <= Total(n) => s[i] = <<n, i>>
<1>. DEFINE Bad == {i \in 1 .. Len(s) : i <= Total(n) /\ s[i] # <<n, i>>}
<1>. HIDE DEF Bad
<1>1. Bad = {}
  <2>. SUFFICES ASSUME Bad # {} PROVE FALSE
    OBVIOUS
  <2>1. Bad \in SUBSET Nat
    BY DEF Bad
  <2>2. PICK j \in Bad : \A l \in Bad : j <= l
    BY <2>1, FirstIsMember, Zenon
  <2>3. j \in 1 .. Len(s) /\ j <= Total(n) /\ s[j] # <<n, j>>
    BY <2>2, Zenon DEF Bad
  <2>4. j # 1
    BY <2>3, Zenon
  <2>5. j - 1 \in 1 .. Len(s) - 1 /\ j - 1 \in 1 .. Len(s) /\ j - 1 < Total(n) /\ j - 1 <= Total(n) /\ (j - 1) + 1 = j
    BY <2>3, <2>4
  <2>6. j - 1 \notin Bad
    <3>1. j - 1 \in Bad => j <= j - 1
      BY <2>2, Zenon
    <3>. QED
      BY <3>1, <2>3
  <2>7. s[j - 1] = <<n, j - 1>>
    BY <2>5, <2>6, Zenon DEF Bad
  <2>8. s[(j - 1) + 1] = Succ(s[j - 1])
    BY <2>5, Zenon DEF Chained
  <2>9. Succ(<<n, j - 1>>) = <<n, (j - 1) + 1>>
    BY <2>5 DEF Succ
  <2>10. s[j] = <<n, j>>
    BY <2>5, <2>7, <2>8, <2>9, Zenon
  <2>. QED
    BY <2>3, <2>10, Zenon
<1>. QED
  BY <1>1, Zenon DEF Bad

\* A stream has every command from its first to its last.
LEMMA ChainCovers ==
    ASSUME NEW s \in Seq(Nat \X Nat), Chained(s), s # <<>>
    PROVE  CommandsIn(s) = s[1][1] .. s[Len(s)][1]
<1>1. Len(s) \in Nat \ {0} /\ DOMAIN s = 1 .. Len(s) /\ 1 \in 1 .. Len(s) /\ Len(s) \in 1 .. Len(s)
  OBVIOUS
<1>2. \A j \in 1 .. Len(s) : s[j] \in Nat \X Nat /\ s[j][1] \in Nat
  <2>1. \A j \in 1 .. Len(s) : s[j] \in Nat \X Nat
    OBVIOUS
  <2>. QED
    BY <2>1
<1>3. CommandsIn(s) = {s[i][1] : i \in 1 .. Len(s)}
  BY <1>1, Zenon DEF CommandsIn, Range
<1>4. ASSUME NEW i \in 1 .. Len(s)
      PROVE  s[i][1] \in s[1][1] .. s[Len(s)][1]
  <2>1. 1 <= i /\ i <= Len(s)
    OBVIOUS
  <2>2. s[1][1] <= s[i][1] /\ s[i][1] <= s[Len(s)][1]
    BY <1>1, <2>1, ChainGrows, Zenon
  <2>. QED
    BY <1>1, <1>2, <2>2
<1>5. ASSUME NEW q \in s[1][1] .. s[Len(s)][1]
      PROVE  \E i \in 1 .. Len(s) : s[i][1] = q
  <2>. DEFINE S == {i \in 1 .. Len(s) : q <= s[i][1]}
  <2>. HIDE DEF S
  <2>0. q \in Nat /\ s[1][1] <= q /\ q <= s[Len(s)][1]
    BY <1>1, <1>2
  <2>1. S \in SUBSET Nat /\ S # {}
    <3>1. Len(s) \in S
      BY <1>1, <2>0, Zenon DEF S
    <3>2. S \in SUBSET Nat
      BY DEF S
    <3>. QED
      BY <3>1, <3>2
  <2>2. PICK j \in S : \A l \in S : j <= l
    BY <2>1, FirstIsMember, Zenon
  <2>3. j \in 1 .. Len(s) /\ q <= s[j][1]
    BY <2>2, Zenon DEF S
  <2>4. CASE j = 1
    BY <1>2, <2>0, <2>3, <2>4
  <2>5. CASE j # 1
    <3>1. j - 1 \in 1 .. Len(s) - 1 /\ j - 1 \in 1 .. Len(s) /\ (j - 1) + 1 = j
      BY <2>3, <2>5
    <3>2. j - 1 \notin S
      <4>1. j - 1 \in S => j <= j - 1
        BY <2>2, Zenon
      <4>. QED
        BY <4>1, <2>3
    <3>3. ~(q <= s[j - 1][1])
      BY <3>1, <3>2, Zenon DEF S
    <3>4. s[(j - 1) + 1] = Succ(s[j - 1])
      BY <3>1, Zenon DEF Chained
    <3>5. s[j] = Succ(s[j - 1])
      BY <3>1, <3>4
    <3>6. s[j][1] = s[j - 1][1] \/ s[j][1] = s[j - 1][1] + 1
      BY <1>2, <3>1, <3>5, SuccType, Zenon
    <3>7. s[j][1] = q
      <4>1. \A a, b, c \in Nat : a <= b /\ ~(a <= c) /\ (b = c \/ b = c + 1) => b = a
        OBVIOUS
      <4>. QED
        BY <1>2, <2>0, <2>3, <3>1, <3>3, <3>6, <4>1, Zenon
    <3>. QED
      BY <2>3, <3>7, Zenon
  <2>. QED
    BY <2>4, <2>5
<1>. QED
  BY <1>3, <1>4, <1>5, Zenon

\* A stream without its first k bytes.
LEMMA ChainRest ==
    ASSUME NEW s \in Seq(Nat \X Nat), Chained(s), NEW k \in 0 .. Len(s),
           NEW r, r = SubSeq(s, k + 1, Len(s))
    PROVE  /\ r \in Seq(Nat \X Nat) /\ Len(r) = Len(s) - k
           /\ \A i \in 1 .. Len(r) : r[i] = s[i + k]
           /\ r # <<>> => k < Len(s) /\ r[1] = s[k + 1] /\ r[Len(r)] = s[Len(s)]
           /\ Chained(r)
<1>1. Len(s) \in Nat /\ k \in Nat /\ k <= Len(s)
  OBVIOUS
<1>2. r \in Seq(Nat \X Nat) /\ Len(r) = Len(s) - k /\ \A i \in 1 .. Len(s) - k : r[i] = s[i + k]
  BY <1>1, SMTT(30)
<1>3. ASSUME NEW i \in 1 .. Len(r) - 1
      PROVE  r[i + 1] = Succ(r[i])
  <2>1. /\ i \in 1 .. Len(s) - k /\ i + 1 \in 1 .. Len(s) - k /\ i + k \in 1 .. Len(s) - 1
        /\ (i + 1) + k = (i + k) + 1
    BY <1>1, <1>2
  <2>2. r[i] = s[i + k] /\ r[i + 1] = s[(i + 1) + k]
    BY <1>2, <2>1, Zenon
  <2>3. s[(i + k) + 1] = Succ(s[i + k])
    BY <2>1, Zenon DEF Chained
  <2>. QED
    BY <2>1, <2>2, <2>3, Zenon
<1>4. ASSUME r # <<>>
      PROVE  k < Len(s) /\ r[1] = s[k + 1] /\ r[Len(r)] = s[Len(s)]
  <2>1. Len(r) # 0
    BY <1>2, <1>4
  <2>2. k < Len(s) /\ 1 \in 1 .. Len(s) - k /\ Len(s) - k \in 1 .. Len(s) - k
        /\ 1 + k = k + 1 /\ (Len(s) - k) + k = Len(s)
    BY <1>1, <1>2, <2>1
  <2>3. r[1] = s[1 + k] /\ r[Len(s) - k] = s[(Len(s) - k) + k]
    BY <1>2, <2>2, Zenon
  <2>. QED
    BY <1>2, <2>2, <2>3, Zenon
<1>. QED
  BY <1>2, <1>3, <1>4, Zenon DEF Chained

\* The application writes the next command.
LEMMA ChainExtended ==
    ASSUME NEW s \in Seq(Nat \X Nat), Chained(s), NEW n \in Nat \ {0}, Total(n) \in Nat \ {0},
           s # <<>> => s[Len(s)] = <<n - 1, Total(n - 1)>> /\ Total(n - 1) \in Nat
    PROVE  /\ Bytes(n) \in Seq(Nat \X Nat) /\ Len(Bytes(n)) = Total(n)
           /\ s \o Bytes(n) \in Seq(Nat \X Nat)
           /\ Len(s \o Bytes(n)) = Len(s) + Total(n)
           /\ (s \o Bytes(n))[1] = IF s = <<>> THEN <<n, 1>> ELSE s[1]
           /\ (s \o Bytes(n))[Len(s) + Total(n)] = <<n, Total(n)>>
           /\ Chained(s \o Bytes(n))
<1>. DEFINE t == Total(n)
            b == Bytes(n)
            r == s \o b
            L == Len(s)
<1>1. b = [i \in 1 .. t |-> <<n, i>>]
  BY Zenon DEF Bytes, Total
<1>. HIDE DEF b, t
<1>2. t \in Nat \ {0} /\ L \in Nat
  BY DEF t
<1>3. b \in Seq(Nat \X Nat) /\ Len(b) = t /\ \A i \in 1 .. t : b[i] = <<n, i>>
  BY <1>1, <1>2
<1>4. r \in Seq(Nat \X Nat) /\ Len(r) = L + t
  BY <1>3, ConcatProperties, Zenon
<1>5. \A i \in 1 .. L : r[i] = s[i]
  BY <1>3
<1>6. \A i \in 1 .. t : r[L + i] = <<n, i>>
  <2>1. \A i \in 1 .. t : r[L + i] = b[i]
    BY <1>2, <1>3
  <2>. QED
    BY <1>3, <2>1, Zenon
<1>. HIDE DEF r
<1>7. r[1] = IF s = <<>> THEN <<n, 1>> ELSE s[1]
  <2>1. CASE s = <<>>
    <3>1. L = 0
      BY <2>1
    <3>2. 1 \in 1 .. t /\ L + 1 = 1
      BY <1>2, <3>1
    <3>. QED
      BY <1>6, <2>1, <3>2, Zenon
  <2>2. CASE s # <<>>
    <3>1. 1 \in 1 .. L
      BY <2>2
    <3>. QED
      BY <1>5, <2>2, <3>1, Zenon
  <2>. QED
    BY <2>1, <2>2, Zenon
<1>8. r[L + t] = <<n, t>>
  <2>1. t \in 1 .. t
    BY <1>2
  <2>. QED
    BY <1>6, <2>1, Zenon
<1>. HIDE DEF L
<1>9. ASSUME NEW i \in 1 .. L + t - 1
      PROVE  r[i + 1] = Succ(r[i])
  <2>1. CASE i < L
    <3>2. i \in 1 .. L - 1 /\ i \in 1 .. L /\ i + 1 \in 1 .. L
      BY <1>2, <2>1
    <3>. QED
      BY <1>5, <3>2, Zenon DEF Chained, L
  <2>2. CASE i = L
    <3>1. s # <<>> /\ 1 \in 1 .. t /\ L \in 1 .. L
      BY <1>2, <2>2 DEF L
    <3>2. r[L] = <<n - 1, Total(n - 1)>> /\ r[L + 1] = <<n, 1>>
      BY <1>5, <1>6, <3>1, Zenon DEF L
    <3>3. Succ(<<n - 1, Total(n - 1)>>) = <<(n - 1) + 1, 1>>
      BY <3>1 DEF Succ
    <3>4. (n - 1) + 1 = n
      OBVIOUS
    <3>. QED
      BY <2>2, <3>2, <3>3, <3>4, Zenon
  <2>3. CASE i > L
    <3>1. PICK j \in 1 .. t - 1 : i = L + j
      <4>1. i - L \in 1 .. t - 1 /\ i = L + (i - L)
        BY <1>2, <1>4, <2>3
      <4>. QED
        BY <4>1, Zenon
    <3>2. j \in 1 .. t /\ j + 1 \in 1 .. t /\ i + 1 = L + (j + 1)
      BY <1>2, <3>1
    <3>3. r[i] = <<n, j>> /\ r[i + 1] = <<n, j + 1>>
      BY <1>6, <3>1, <3>2, Zenon
    <3>4. Succ(<<n, j>>) = <<n, j + 1>>
      <4>1. j < Total(n) /\ j \in Nat
        BY <1>2, <3>1 DEF t
      <4>. QED
        BY <4>1 DEF Succ
    <3>. QED
      BY <3>3, <3>4, Zenon
  <2>4. i \in Nat
    BY <1>2, <1>4
  <2>. QED
    BY <1>2, <2>1, <2>2, <2>3, <2>4
<1>10. Len(r) - 1 = L + t - 1
  BY <1>2, <1>4
<1>11. Chained(r)
  BY <1>9, <1>10, Zenon DEF Chained
<1>. QED
  BY <1>3, <1>4, <1>7, <1>8, <1>11, Zenon DEF r, b, t, L

\* Three lists.
LEMMA Associative ==
    ASSUME NEW T, NEW a \in Seq(T), NEW b \in Seq(T), NEW c \in Seq(T)
    PROVE  (a \o b) \o c = a \o (b \o c)
  BY ConcatAssociative

\* Where a list is cut does not matter for the bytes that come through.
LEMMA CutAnywhere ==
    ASSUME NEW T, NEW a \in Seq(T), NEW b \in Seq(T), NEW n \in 0 .. Len(b)
    PROVE  (a \o SubSeq(b, 1, n)) \o SubSeq(b, n + 1, Len(b)) = a \o b
<1>1. SubSeq(b, 1, n) \in Seq(T) /\ SubSeq(b, n + 1, Len(b)) \in Seq(T)
  OBVIOUS
<1>2. /\ 1 \in 1 .. Len(b) + 1 /\ n \in (1 - 1) .. Len(b) /\ Len(b) \in n .. Len(b)
  OBVIOUS
<1>3. SubSeq(b, 1, n) \o SubSeq(b, n + 1, Len(b)) = SubSeq(b, 1, Len(b))
  BY <1>2, ConcatAdjacentSubSeq, Zenon
<1>4. SubSeq(b, 1, Len(b)) = b
  BY SubSeqFull, Zenon
<1>5. PICK c \in Seq(T) : c = SubSeq(b, 1, n)
  BY <1>1, Zenon
<1>6. PICK d \in Seq(T) : d = SubSeq(b, n + 1, Len(b))
  BY <1>1, Zenon
<1>7. (a \o c) \o d = a \o (c \o d)
  BY Associative, SMTT(30)
<1>. QED
  BY <1>3, <1>4, <1>5, <1>6, <1>7, Zenon

\* A list without its first k items.
Without(s, k) == SubSeq(s, k + 1, Len(s))

\* Its items are the ones behind the first k.
LEMMA WithoutFacts ==
    ASSUME NEW T, NEW a \in Seq(T), NEW k \in 0 .. Len(a)
    PROVE  /\ Without(a, k) \in Seq(T) /\ Len(Without(a, k)) = Len(a) - k
           /\ \A i \in 1 .. Len(a) - k : Without(a, k)[i] = a[k + i]
<1>. DEFINE c == SubSeq(a, k + 1, Len(a))
<1>1. Len(a) \in Nat /\ k \in Nat /\ k <= Len(a)
  OBVIOUS
<1>2. c \in Seq(T) /\ Len(c) = Len(a) - k
  BY <1>1
<1>3. ASSUME NEW i \in 1 .. Len(a) - k PROVE c[i] = a[k + i]
  BY <1>1
<1>. QED
  BY <1>2, <1>3, Zenon DEF Without

\* What follows the first k items of the first of two lists.
LEMMA RestOfBoth ==
    ASSUME NEW T, NEW a \in Seq(T), NEW b \in Seq(T), NEW k \in 0 .. Len(a)
    PROVE  SubSeq(a, k + 1, Len(a)) \o b = SubSeq(a \o b, k + 1, Len(a \o b))
<1>. DEFINE c == SubSeq(a, k + 1, Len(a))
            e == a \o b
            r == SubSeq(e, k + 1, Len(e))
<1>1. Len(a) \in Nat /\ Len(b) \in Nat /\ k \in Nat /\ k <= Len(a)
  OBVIOUS
<1>2. c \in Seq(T) /\ Len(c) = Len(a) - k /\ \A i \in 1 .. Len(a) - k : c[i] = a[k + i]
  <2>1. c \in Seq(T) /\ Len(c) = Len(a) - k
    BY <1>1
  <2>2. ASSUME NEW i \in 1 .. Len(a) - k PROVE c[i] = a[k + i]
    BY <1>1
  <2>. QED
    BY <2>1, <2>2, Zenon
<1>3. /\ e \in Seq(T) /\ Len(e) = Len(a) + Len(b)
      /\ \A i \in 1 .. Len(a) + Len(b) : e[i] = IF i <= Len(a) THEN a[i] ELSE b[i - Len(a)]
  BY ConcatProperties, Zenon
<1>. HIDE DEF c, e
<1>4. /\ c \o b \in Seq(T) /\ Len(c \o b) = Len(c) + Len(b)
      /\ \A i \in 1 .. Len(c) + Len(b) : (c \o b)[i] = IF i <= Len(c) THEN c[i] ELSE b[i - Len(c)]
  BY <1>2, ConcatProperties, Zenon
<1>5. k \in 0 .. Len(e)
  BY <1>1, <1>3
<1>6. r \in Seq(T) /\ Len(r) = Len(e) - k /\ \A i \in 1 .. Len(e) - k : r[i] = e[k + i]
  BY <1>3, <1>5, SMTT(30)
<1>. HIDE DEF r
<1>7. Len(c \o b) = Len(r)
  BY <1>1, <1>2, <1>3, <1>4, <1>6
<1>8. ASSUME NEW i \in 1 .. Len(c \o b)
      PROVE  (c \o b)[i] = r[i]
  <2>1. /\ i \in 1 .. Len(c) + Len(b) /\ i \in 1 .. Len(e) - k /\ k + i \in 1 .. Len(a) + Len(b)
        /\ i \in Nat /\ (k + i <= Len(a) <=> i <= Len(c)) /\ (k + i) - Len(a) = i - Len(c)
    BY <1>1, <1>2, <1>3, <1>4
  <2>2. r[i] = IF k + i <= Len(a) THEN a[k + i] ELSE b[(k + i) - Len(a)]
    BY <1>3, <1>6, <2>1, Zenon
  <2>3. (c \o b)[i] = IF i <= Len(c) THEN c[i] ELSE b[i - Len(c)]
    BY <1>4, <2>1, Zenon
  <2>4. CASE i <= Len(c)
    <3>1. i \in 1 .. Len(a) - k
      BY <1>1, <1>2, <2>1, <2>4
    <3>. QED
      BY <1>2, <2>1, <2>2, <2>3, <2>4, <3>1, Zenon
  <2>5. CASE ~(i <= Len(c))
    BY <2>1, <2>2, <2>3, <2>5, Zenon
  <2>. QED
    BY <2>4, <2>5
<1>9. c \o b = r
  BY <1>4, <1>6, <1>7, <1>8, SeqEqual, Zenon
<1>. QED
  BY <1>9, Zenon DEF c, e, r

\* The commands of a stream are the ones that are not handled and not lost.
LEMMA StreamFacts ==
    ASSUME NEW s, NEW w, StreamOk(s, w)
    PROVE  /\ Through(s, w) \in Nat /\ Through(s, w) <= w
           /\ CommandsIn(s) = Through(s, w) + 1 .. w
           /\ s # <<>> => /\ s[1] = <<Through(s, w) + 1, 1>> /\ Through(s, w) + 1 \in 1 .. w
                          /\ s[1][1] = Through(s, w) + 1
<1>1. s \in Seq(Nat \X Nat) /\ w \in Nat /\ Chained(s)
  BY DEF StreamOk
<1>2. CASE s = <<>>
  <2>1. Through(s, w) = w /\ Through(s, w) + 1 .. w = {}
    BY <1>1, <1>2 DEF Through
  <2>2. DOMAIN s = {}
    BY <1>2
  <2>3. CommandsIn(s) = {}
    BY <2>2, Zenon DEF CommandsIn, Range
  <2>4. w <= w
    BY <1>1
  <2>. QED
    BY <1>1, <1>2, <2>1, <2>3, <2>4, Zenon
<1>3. CASE s # <<>>
  <2>1. 1 \in 1 .. Len(s) /\ Len(s) \in 1 .. Len(s) /\ 1 <= Len(s)
    BY <1>1, <1>3
  <2>2. s[1] \in Nat \X Nat
    BY <1>1, <2>1
  <2>3. PICK f \in Nat, g \in Nat : s[1] = <<f, g>>
    BY <2>2
  <2>4. f >= 1 /\ g = 1 /\ s[Len(s)] = <<w, Total(w)>>
    BY <1>3, <2>3 DEF StreamOk
  <2>5. s[1][1] <= s[Len(s)][1]
    BY <1>1, <2>1, ChainGrows, Zenon
  <2>6. s[1][1] = f /\ s[Len(s)][1] = w
    BY <2>3, <2>4
  <2>7. f \in 1 .. w /\ Through(s, w) = f - 1
    BY <1>1, <1>3, <2>3, <2>4, <2>5, <2>6 DEF Through
  <2>8. CommandsIn(s) = f .. w
    BY <1>1, <1>3, <2>6, ChainCovers, Zenon
  <2>9. Through(s, w) + 1 = f /\ Through(s, w) \in Nat /\ Through(s, w) <= w
    BY <1>1, <2>7
  <2>10. s[1] = <<f, 1>>
    BY <2>3, <2>4
  <2>. QED
    BY <2>6, <2>7, <2>8, <2>9, <2>10, Zenon
<1>. QED
  BY <1>2, <1>3

\* The length of a command that was written.
LEMMA CommandLength ==
    ASSUME NEW s, NEW w, StreamOk(s, w), NEW n \in 1 .. w
    PROVE  /\ Length[n] \in Nat /\ Total(n) \in Nat \ {0} /\ Total(n) <= BufferLen
           /\ Total(n) = HeaderLen + Length[n] /\ n \in Nat
<1>1. n \in Commands
  BY DEF StreamOk
<1>2. Length[n] \in Nat /\ HeaderLen + Length[n] <= BufferLen /\ HeaderLen \in Nat \ {0}
  BY <1>1, ApiAssumption, Zenon
<1>. QED
  BY <1>2 DEF Total

\* The commands of two lists of bytes.
LEMMA CommandsOfBoth ==
    ASSUME NEW a \in Seq(Nat \X Nat), NEW b \in Seq(Nat \X Nat)
    PROVE  CommandsIn(a \o b) = CommandsIn(a) \cup CommandsIn(b)
<1>1. Range(a \o b) = Range(a) \cup Range(b)
  <2>1. Len(a) \in Nat /\ Len(b) \in Nat /\ DOMAIN a = 1 .. Len(a) /\ DOMAIN b = 1 .. Len(b)
    OBVIOUS
  <2>2. /\ Len(a \o b) = Len(a) + Len(b) /\ a \o b \in Seq(Nat \X Nat)
        /\ \A i \in 1 .. Len(a) + Len(b) : (a \o b)[i] = IF i <= Len(a) THEN a[i] ELSE b[i - Len(a)]
    BY ConcatProperties, Zenon
  <2>3. DOMAIN (a \o b) = 1 .. Len(a) + Len(b)
    BY <2>2
  <2>4. ASSUME NEW i \in 1 .. Len(a) + Len(b)
        PROVE  (a \o b)[i] \in Range(a) \cup Range(b)
    <3>1. CASE i <= Len(a)
      <4>1. i \in DOMAIN a
        BY <2>1, <3>1
      <4>. QED
        BY <2>2, <3>1, <4>1, Zenon DEF Range
    <3>2. CASE ~(i <= Len(a))
      <4>1. i - Len(a) \in DOMAIN b
        BY <2>1, <3>2
      <4>. QED
        BY <2>2, <3>2, <4>1, Zenon DEF Range
    <3>. QED
      BY <3>1, <3>2, Zenon
  <2>5. ASSUME NEW i \in DOMAIN a
        PROVE  a[i] \in Range(a \o b)
    <3>1. i \in 1 .. Len(a) + Len(b) /\ i <= Len(a)
      BY <2>1
    <3>. QED
      BY <2>2, <2>3, <3>1, Zenon DEF Range
  <2>6. ASSUME NEW i \in DOMAIN b
        PROVE  b[i] \in Range(a \o b)
    <3>1. Len(a) + i \in 1 .. Len(a) + Len(b) /\ ~(Len(a) + i <= Len(a)) /\ (Len(a) + i) - Len(a) = i
      BY <2>1
    <3>2. (a \o b)[Len(a) + i] = b[i]
      BY <2>2, <3>1, Zenon
    <3>. QED
      BY <2>3, <3>1, <3>2, Zenon DEF Range
  <2>. QED
    BY <2>3, <2>4, <2>5, <2>6, Zenon DEF Range
<1>. QED
  BY <1>1, Zenon DEF CommandsIn

\* When what is left begins with a command, whole commands were taken away.
LEMMA StreamRest ==
    ASSUME NEW s, NEW w, StreamOk(s, w), NEW k \in 1 .. Len(s),
           Without(s, k) # <<>> => Without(s, k)[1][2] = 1
    PROVE  /\ StreamOk(Without(s, k), w)
           /\ Through(Without(s, k), w) = s[k][1]
           /\ Through(s, w) + 1 <= s[k][1]
           /\ s[k][1] \in Nat
<1>. DEFINE r == Without(s, k)
<1>1. s \in Seq(Nat \X Nat) /\ w \in Nat /\ Chained(s)
  BY DEF StreamOk
<1>2. Len(s) \in Nat /\ k \in Nat /\ 1 <= k /\ k <= Len(s) /\ k \in 0 .. Len(s) /\ s # <<>> /\ 1 \in 1 .. Len(s)
  BY <1>1
<1>. HIDE DEF r
<1>3. /\ r \in Seq(Nat \X Nat) /\ Len(r) = Len(s) - k
      /\ r # <<>> => k < Len(s) /\ r[1] = s[k + 1] /\ r[Len(r)] = s[Len(s)]
      /\ Chained(r)
  <2>1. r = SubSeq(s, k + 1, Len(s))
    BY DEF r, Without
  <2>. QED
    BY <1>1, <1>2, <2>1, ChainRest, Zenon
<1>4. PICK f \in Nat, g \in Nat : s[k] = <<f, g>>
  <2>1. s[k] \in Nat \X Nat
    BY <1>1, <1>2
  <2>. QED
    BY <2>1
<1>5. s[k][1] = f /\ s[k][2] = g
  BY <1>4
<1>6. Through(s, w) \in Nat /\ Through(s, w) + 1 = s[1][1]
  BY <1>2, StreamFacts, Zenon
<1>7. Through(s, w) + 1 <= f
  <2>1. s[1][1] <= s[k][1]
    BY <1>1, <1>2, ChainGrows, Zenon
  <2>. QED
    BY <1>5, <1>6, <2>1, Zenon
<1>8. g >= 1
  <2>1. CASE k = 1
    BY <1>2, <1>5, <2>1 DEF StreamOk
  <2>2. CASE k # 1
    <3>1. k - 1 \in 1 .. Len(s) - 1 /\ k - 1 \in 1 .. Len(s) /\ (k - 1) + 1 = k
      BY <1>2, <2>2
    <3>2. s[(k - 1) + 1] = Succ(s[k - 1])
      BY <1>1, <3>1, Zenon DEF Chained
    <3>3. s[k - 1] \in Nat \X Nat
      BY <1>1, <3>1
    <3>4. PICK c \in Nat, d \in Nat : s[k - 1] = <<c, d>>
      BY <3>3
    <3>5. s[k] = Succ(<<c, d>>)
      BY <3>1, <3>2, <3>4
    <3>6. Succ(<<c, d>>)[2] = d + 1 \/ Succ(<<c, d>>)[2] = 1
      BY DEF Succ
    <3>7. g = d + 1 \/ g = 1
      BY <1>5, <3>5, <3>6, Zenon
    <3>. QED
      BY <3>7
  <2>. QED
    BY <2>1, <2>2
<1>9. CASE r = <<>>
  <2>1. k = Len(s)
    BY <1>2, <1>3, <1>9
  <2>2. s[Len(s)] = <<w, Total(w)>>
    BY <1>2, Zenon DEF StreamOk
  <2>3. f = w
    BY <1>5, <2>1, <2>2
  <2>4. StreamOk(r, w)
    BY <1>3, <1>9, Zenon DEF StreamOk
  <2>5. Through(r, w) = w
    BY <1>9, Zenon DEF Through
  <2>. QED
    BY <1>5, <1>7, <2>3, <2>4, <2>5, Zenon DEF r
<1>10. CASE r # <<>>
  <2>1. k \in 1 .. Len(s) - 1
    BY <1>2, <1>3, <1>10
  <2>2. r[1] = Succ(<<f, g>>)
    BY <1>3, <1>4, <1>10, <2>1, Zenon DEF Chained, StreamOk
  <2>3. r[1][2] = 1
    BY <1>10, Zenon DEF r
  <2>4. Succ(<<f, g>>) = <<f, g + 1>> \/ Succ(<<f, g>>) = <<f + 1, 1>>
    BY DEF Succ
  <2>5. r[1] = <<f + 1, 1>>
    <3>1. r[1] # <<f, g + 1>>
      <4>1. SUFFICES ASSUME r[1] = <<f, g + 1>> PROVE FALSE
        OBVIOUS
      <4>2. r[1][2] = g + 1
        BY <4>1
      <4>. QED
        BY <1>8, <2>3, <4>2
    <3>. QED
      BY <2>2, <2>4, <3>1, Zenon
  <2>6. r[1][1] = f + 1 /\ f + 1 >= 1 /\ (f + 1) - 1 = f
    BY <2>5
  <2>7. r[Len(r)] = <<w, Total(w)>>
    BY <1>2, <1>3, <1>10, Zenon DEF StreamOk
  <2>8. StreamOk(r, w)
    BY <1>3, <2>3, <2>6, <2>7, Zenon DEF StreamOk
  <2>9. Through(r, w) = f
    BY <1>10, <2>6, Zenon DEF Through
  <2>. QED
    BY <1>5, <1>7, <2>8, <2>9, Zenon DEF r
<1>. QED
  BY <1>9, <1>10

\* The next command is handled.
LEMMA HandledOne ==
    ASSUME NEW h, NEW l, NEW t \in Nat, HandledOk(h, l, t)
    PROVE  HandledOk(Append(h, t + 1), l, t + 1)
<1>. DEFINE g == Append(h, t + 1)
<1>1. h \in Seq(Nat) /\ Len(h) \in Nat /\ DOMAIN h = 1 .. Len(h)
  BY DEF HandledOk
<1>2. /\ g \in Seq(Nat) /\ Len(g) = Len(h) + 1 /\ DOMAIN g = 1 .. Len(h) + 1
      /\ \A i \in 1 .. Len(h) : g[i] = h[i]
      /\ g[Len(h) + 1] = t + 1
  BY <1>1
<1>. HIDE DEF g
<1>3. ASSUME NEW i \in 1 .. Len(h)
      PROVE  h[i] \in Nat /\ h[i] < t + 1
  <2>1. h[i] \in Range(h)
    BY <1>1, Zenon DEF Range
  <2>2. h[i] \in 1 .. t
    BY <2>1, Zenon DEF HandledOk
  <2>. QED
    BY <2>2
<1>4. ASSUME NEW i \in DOMAIN g, NEW j \in DOMAIN g, i < j
      PROVE  g[i] < g[j]
  <2>1. i \in 1 .. Len(h) /\ (j \in 1 .. Len(h) \/ j = Len(h) + 1)
    BY <1>1, <1>2, <1>4
  <2>2. CASE j \in 1 .. Len(h)
    BY <1>1, <1>2, <1>4, <2>1, <2>2, Zenon DEF HandledOk
  <2>3. CASE j = Len(h) + 1
    BY <1>2, <1>3, <2>1, <2>3, Zenon
  <2>. QED
    BY <2>1, <2>2, <2>3
<1>5. Range(g) = Range(h) \cup {t + 1}
  <2>1. \A i \in DOMAIN g : i \in 1 .. Len(h) \/ i = Len(h) + 1
    BY <1>1, <1>2
  <2>2. \A i \in 1 .. Len(h) : i \in DOMAIN g
    BY <1>1, <1>2
  <2>3. Len(h) + 1 \in DOMAIN g
    BY <1>1, <1>2
  <2>. QED
    BY <1>1, <1>2, <2>1, <2>2, <2>3, Zenon DEF Range
<1>6. Range(h) \cup l = 1 .. t
  BY Zenon DEF HandledOk
<1>7. Range(g) \cup l = 1 .. t + 1
  <2>1. 1 .. t + 1 = (1 .. t) \cup {t + 1}
    OBVIOUS
  <2>. QED
    BY <1>5, <1>6, <2>1, Zenon
<1>. QED
  BY <1>2, <1>4, <1>7, Zenon DEF HandledOk, g

\* Commands up to u are lost.
LEMMA HandledLost ==
    ASSUME NEW h, NEW l, NEW t \in Nat, NEW u \in Nat, t <= u, HandledOk(h, l, t)
    PROVE  HandledOk(h, l \cup (t + 1 .. u), u)
<1>1. Range(h) \cup l = 1 .. t
  BY Zenon DEF HandledOk
<1>2. (1 .. t) \cup (t + 1 .. u) = 1 .. u
  OBVIOUS
<1>3. Range(h) \cup (l \cup (t + 1 .. u)) = 1 .. u
  BY <1>1, <1>2, Zenon
<1>. QED
  BY <1>3, Zenon DEF HandledOk

\* The whole stream is lost.
LEMMA DropAll ==
    ASSUME NEW s, NEW w, StreamOk(s, w), NEW h, NEW l, HandledOk(h, l, Through(s, w))
    PROVE  /\ StreamOk(<<>>, w)
           /\ HandledOk(h, l \cup CommandsIn(s), Through(<<>>, w))
<1>1. w \in Nat /\ 1 .. w \subseteq Commands
  BY DEF StreamOk
<1>2. StreamOk(<<>>, w)
  <2>1. <<>> \in Seq(Nat \X Nat) /\ Chained(<<>>)
    BY DEF Chained
  <2>. QED
    BY <1>1, <2>1, Zenon DEF StreamOk
<1>3. Through(<<>>, w) = w
  BY Zenon DEF Through
<1>4. Through(s, w) \in Nat /\ Through(s, w) <= w /\ CommandsIn(s) = Through(s, w) + 1 .. w
  BY StreamFacts, Zenon
<1>5. HandledOk(h, l \cup (Through(s, w) + 1 .. w), w)
  BY <1>1, <1>4, HandledLost, Zenon
<1>. QED
  BY <1>2, <1>3, <1>4, <1>5, Zenon

\* The buffer is lost, and the pipe begins with a command.
LEMMA DropBuffer ==
    ASSUME NEW a \in Seq(Nat \X Nat), NEW c \in Seq(Nat \X Nat), NEW w, StreamOk(a \o c, w),
           NEW h, NEW l, HandledOk(h, l, Through(a \o c, w)),
           c # <<>> => c[1][2] = 1
    PROVE  /\ StreamOk(c, w)
           /\ HandledOk(h, l \cup CommandsIn(a), Through(c, w))
<1>1. CASE a = <<>>
  <2>1. a \o c = c /\ DOMAIN a = {}
    BY <1>1
  <2>2. CommandsIn(a) = {}
    BY <2>1, Zenon DEF CommandsIn, Range
  <2>3. l \cup CommandsIn(a) = l
    BY <2>2, Zenon
  <2>. QED
    BY <2>1, <2>3, Zenon
<1>2. CASE a # <<>>
  <2>. DEFINE s == a \o c
              k == Len(a)
  <2>1. Len(a) \in Nat \ {0} /\ Len(c) \in Nat
    BY <1>2
  <2>2. /\ s \in Seq(Nat \X Nat) /\ Len(s) = Len(a) + Len(c)
        /\ \A i \in 1 .. Len(a) + Len(c) : s[i] = IF i <= Len(a) THEN a[i] ELSE c[i - Len(a)]
    BY ConcatProperties, Zenon
  <2>3. \A i \in 1 .. Len(a) : s[i] = a[i]
    <3>1. \A i \in 1 .. Len(a) : i \in 1 .. Len(a) + Len(c) /\ i <= Len(a)
      BY <2>1
    <3>. QED
      BY <2>2, <3>1, Zenon
  <2>4. Without(s, k) = c
    <3>1. Len(a) \in 0 .. Len(a)
      BY <2>1
    <3>2. SubSeq(a, Len(a) + 1, Len(a)) \o c = Without(s, k)
      BY <3>1, RestOfBoth, Zenon DEF Without
    <3>3. SubSeq(a, Len(a) + 1, Len(a)) = <<>>
      BY <2>1
    <3>4. <<>> \o c = c
      OBVIOUS
    <3>. QED
      BY <3>2, <3>3, <3>4, Zenon
  <2>. HIDE DEF s, k
  <2>5. k \in 1 .. Len(s) /\ k \in 1 .. Len(a) /\ 1 \in 1 .. Len(a) /\ k = Len(a)
    <3>1. Len(s) = Len(a) + Len(c)
      BY <2>2
    <3>. QED
      BY <2>1, <3>1 DEF k
  <2>6. StreamOk(s, w) /\ HandledOk(h, l, Through(s, w))
    BY Zenon DEF s
  <2>7. /\ StreamOk(c, w) /\ Through(c, w) = s[k][1]
        /\ Through(s, w) + 1 <= s[k][1] /\ s[k][1] \in Nat
    BY <2>4, <2>5, <2>6, StreamRest, Zenon
  <2>8. Through(s, w) \in Nat /\ s[1][1] = Through(s, w) + 1
    <3>1. s # <<>>
      BY <2>1, <2>2
    <3>. QED
      BY <2>6, <3>1, StreamFacts, Zenon
  <2>9. Chained(a)
    <3>1. Chained(s)
      BY <2>6, Zenon DEF StreamOk
    <3>2. ASSUME NEW i \in 1 .. Len(a) - 1 PROVE a[i + 1] = Succ(a[i])
      <4>1. Len(s) = Len(a) + Len(c)
        BY <2>2
      <4>2. i \in 1 .. Len(a) /\ i + 1 \in 1 .. Len(a) /\ i \in 1 .. Len(s) - 1
        <5>1. \A p \in Nat \ {0}, q \in Nat : \A o \in 1 .. p - 1 :
                  o \in 1 .. p /\ o + 1 \in 1 .. p /\ o \in 1 .. (p + q) - 1
          OBVIOUS
        <5>. QED
          BY <2>1, <4>1, <5>1, Zenon
      <4>. QED
        BY <2>3, <3>1, <4>2, Zenon DEF Chained
    <3>. QED
      BY <3>2, Zenon DEF Chained
  <2>10. CommandsIn(a) = a[1][1] .. a[Len(a)][1]
    BY <1>2, <2>9, ChainCovers, Zenon
  <2>11. a[1] = s[1] /\ a[Len(a)] = s[k]
    BY <2>3, <2>5, Zenon
  <2>12. CommandsIn(a) = Through(s, w) + 1 .. Through(c, w)
    BY <2>7, <2>8, <2>10, <2>11, Zenon
  <2>13. Through(c, w) \in Nat /\ Through(s, w) <= Through(c, w)
    BY <2>7, <2>8
  <2>. QED
    BY <2>6, <2>7, <2>8, <2>12, <2>13, HandledLost, Zenon
<1>. QED
  BY <1>1, <1>2

\* The buffer a begins with command n, as the stream s does.
Front(a, s, n, w) ==
    /\ n \in 1 .. w /\ n \in Nat
    /\ a[1] = <<n, 1>> /\ a[1][1] = n /\ a[1][2] = 1
    /\ Total(n) \in Nat \ {0}
    /\ \A i \in 1 .. Len(a) : s[i] = a[i] /\ (i <= Total(n) => a[i] = <<n, i>>)

\* The buffer begins with the first command that is not handled.
LEMMA BufferFront ==
    ASSUME NEW a \in Seq(Nat \X Nat), NEW c \in Seq(Nat \X Nat), NEW w, StreamOk(a \o c, w),
           a # <<>>
    PROVE  Front(a, a \o c, Through(a \o c, w) + 1, w)
<1>. DEFINE s == a \o c
            n == Through(s, w) + 1
<1>1. Len(a) \in Nat \ {0} /\ Len(c) \in Nat
  OBVIOUS
<1>2. /\ s \in Seq(Nat \X Nat) /\ Len(s) = Len(a) + Len(c)
      /\ \A i \in 1 .. Len(a) + Len(c) : s[i] = IF i <= Len(a) THEN a[i] ELSE c[i - Len(a)]
  BY ConcatProperties, Zenon
<1>3. \A i \in 1 .. Len(a) : s[i] = a[i] /\ i \in 1 .. Len(s)
  <2>1. \A i \in 1 .. Len(a) : i \in 1 .. Len(a) + Len(c) /\ i <= Len(a) /\ i \in 1 .. Len(s)
    BY <1>1, <1>2
  <2>. QED
    BY <1>2, <2>1, Zenon
<1>4. s # <<>>
  BY <1>1, <1>2
<1>. HIDE DEF s, n
<1>5. StreamOk(s, w) /\ n = Through(s, w) + 1
  BY Zenon DEF s, n
<1>6. s[1] = <<n, 1>> /\ n \in 1 .. w
  BY <1>4, <1>5, StreamFacts, Zenon
<1>7. 1 \in 1 .. Len(a)
  BY <1>1
<1>8. a[1] = <<n, 1>>
  BY <1>3, <1>6, <1>7, Zenon
<1>9. Total(n) \in Nat \ {0} /\ n \in Nat
  BY <1>5, <1>6, CommandLength, Zenon
<1>10. Total(n) \in Nat
  BY <1>9
<1>11. \A i \in 1 .. Len(s) : i <= Total(n) => s[i] = <<n, i>>
  BY <1>2, <1>4, <1>5, <1>6, <1>9, <1>10, ChainFront, Zenon DEF StreamOk
<1>12. \A i \in 1 .. Len(a) : s[i] = a[i] /\ (i <= Total(n) => a[i] = <<n, i>>)
  BY <1>3, <1>11, Zenon
<1>13. a[1][1] = n /\ a[1][2] = 1
  BY <1>8
<1>. QED
  BY <1>6, <1>8, <1>9, <1>12, <1>13, Zenon DEF s, n, Front

\* Steps that leave the commands alone, and may only leave a callback that does
\* not read them.
LEMMA CommandsStay ==
    ASSUME CommandsInv, UNCHANGED <<written, commands, buf, dst, handled, lost, torn>>,
           pc' = pc \/ (pc # "loop" /\ pc' \in {"idle", "header", "body"})
    PROVE  CommandsInv'
<1>. SUFFICES ASSUME ~torn PROVE CommandsInv'
  BY Zenon DEF CommandsInv
<1>1. BufferOk(buf, dst, pc)
  BY Zenon DEF CommandsInv
<1>2. BufferOk(buf, dst, pc')
  <2>1. CASE pc' = pc
    BY <1>1, <2>1, Zenon
  <2>2. CASE pc # "loop" /\ pc' \in {"idle", "header", "body"}
    <3>1. /\ pc # "loop" /\ pc' # "loop" /\ pc' # "undefined"
          /\ pc' \notin {"reopen", "ended"}
      BY <2>2
    <3>. QED
      BY <1>1, <3>1, Zenon DEF BufferOk
  <2>. QED
    BY <2>1, <2>2
<1>. QED
  BY <1>2, Zenon DEF CommandsInv

\* The application writes a command.
LEMMA CommandWritten ==
    ASSUME CommandsInv, WriteCommand
    PROVE  CommandsInv'
<1>. SUFFICES ASSUME ~torn PROVE CommandsInv'
  BY Zenon DEF CommandsInv, WriteCommand
<1>1. PICK s, w : s = buf \o commands /\ w = written
  BY Zenon
<1>2. /\ buf \in Seq(Nat \X Nat) /\ commands \in Seq(Nat \X Nat)
      /\ StreamOk(s, w) /\ BufferOk(buf, dst, pc) /\ HandledOk(handled, lost, Through(s, w))
  BY <1>1, Zenon DEF CommandsInv
<1>3. /\ w + 1 \in Commands /\ written' = w + 1 /\ commands' = commands \o Bytes(w + 1)
      /\ buf' = buf /\ dst' = dst /\ pc' = pc /\ handled' = handled /\ lost' = lost /\ torn' = torn
  BY <1>1, Zenon DEF WriteCommand, peerIn
<1>4. s \in Seq(Nat \X Nat) /\ Chained(s) /\ w \in Nat /\ 1 .. w \subseteq Commands
  BY <1>2, Zenon DEF StreamOk
<1>5. /\ Total(w + 1) \in Nat \ {0} /\ w + 1 \in Nat \ {0} /\ (w + 1) - 1 = w
      /\ 1 .. w + 1 \subseteq Commands
  <2>1. Length[w + 1] \in Nat /\ HeaderLen \in Nat \ {0}
    BY <1>3, ApiAssumption, Zenon
  <2>2. 1 .. w + 1 = (1 .. w) \cup {w + 1}
    BY <1>4
  <2>3. 1 .. w + 1 \subseteq Commands
    BY <1>3, <1>4, <2>2, Zenon
  <2>4. Total(w + 1) \in Nat \ {0}
    BY <2>1 DEF Total
  <2>5. w + 1 \in Nat \ {0} /\ (w + 1) - 1 = w
    BY <1>4
  <2>. QED
    BY <2>3, <2>4, <2>5, Zenon
<1>6. s # <<>> => s[Len(s)] = <<w, Total(w)>> /\ Total(w) \in Nat
  <2>. SUFFICES ASSUME s # <<>> PROVE s[Len(s)] = <<w, Total(w)>> /\ Total(w) \in Nat
    OBVIOUS
  <2>1. Through(s, w) + 1 \in 1 .. w /\ Through(s, w) \in Nat
    BY <1>2, StreamFacts, Zenon
  <2>2. w \in 1 .. w
    BY <1>4, <2>1
  <2>3. Total(w) \in Nat \ {0}
    BY <1>2, <2>2, CommandLength, Zenon
  <2>4. Total(w) \in Nat
    BY <2>3
  <2>. QED
    BY <1>2, <2>4, Zenon DEF StreamOk
<1>7. PICK b : b = Bytes(w + 1)
  BY Zenon
<1>8. /\ b \in Seq(Nat \X Nat)
      /\ s \o b \in Seq(Nat \X Nat)
      /\ Len(s \o b) = Len(s) + Total(w + 1)
      /\ (s \o b)[1] = IF s = <<>> THEN <<w + 1, 1>> ELSE s[1]
      /\ (s \o b)[Len(s) + Total(w + 1)] = <<w + 1, Total(w + 1)>>
      /\ Chained(s \o b)
  BY <1>4, <1>5, <1>6, <1>7, ChainExtended, Zenon
<1>9. PICK r : r = s \o b
  BY Zenon
<1>10. StreamOk(r, w + 1)
  <2>1. r[1][1] >= 1 /\ r[1][2] = 1
    <3>1. CASE s = <<>>
      <4>1. r[1] = <<w + 1, 1>>
        BY <1>8, <1>9, <3>1, Zenon
      <4>. QED
        BY <1>4, <4>1
    <3>2. CASE s # <<>>
      <4>1. r[1] = s[1]
        BY <1>8, <1>9, <3>2, Zenon
      <4>. QED
        BY <1>2, <3>2, <4>1, Zenon DEF StreamOk
    <3>. QED
      BY <3>1, <3>2
  <2>2. r[Len(r)] = <<w + 1, Total(w + 1)>>
    BY <1>8, <1>9, Zenon
  <2>3. w + 1 \in Nat
    BY <1>4
  <2>. QED
    BY <1>5, <1>8, <1>9, <2>1, <2>2, <2>3, Zenon DEF StreamOk
<1>11. Through(r, w + 1) = Through(s, w)
  <2>0. r # <<>>
    <3>1. Len(r) # 0
      <4>1. Len(r) = Len(s) + Total(w + 1) /\ Len(s) \in Nat
        BY <1>4, <1>8, <1>9
      <4>. QED
        BY <1>5, <4>1
    <3>2. Len(<<>>) = 0
      OBVIOUS
    <3>. QED
      BY <3>1, <3>2, Zenon
  <2>1. CASE s = <<>>
    <3>1. r[1] = <<w + 1, 1>>
      BY <1>8, <1>9, <2>1, Zenon
    <3>2. r[1][1] - 1 = w
      BY <1>4, <3>1
    <3>. QED
      BY <2>0, <2>1, <3>2, Zenon DEF Through
  <2>2. CASE s # <<>>
    <3>1. r[1] = s[1]
      BY <1>8, <1>9, <2>2, Zenon
    <3>. QED
      BY <2>0, <2>2, <3>1, Zenon DEF Through
  <2>. QED
    BY <2>1, <2>2
<1>12. buf' \o commands' = r
  <2>0. buf \in Seq(Nat \X Nat) /\ commands \in Seq(Nat \X Nat) /\ b \in Seq(Nat \X Nat)
    BY <1>2, <1>8, Zenon
  <2>1. (buf \o commands) \o b = buf \o (commands \o b)
    <3>1. PICK T : T = Nat \X Nat
      BY Zenon
    <3>2. PICK x \in Seq(T), y \in Seq(T), z \in Seq(T) : x = buf /\ y = commands /\ z = b
      BY <2>0, <3>1, Zenon
    <3>3. (x \o y) \o z = x \o (y \o z)
      BY Associative
    <3>. QED
      BY <3>2, <3>3, Zenon
  <2>. QED
    BY <1>1, <1>3, <1>7, <1>9, <2>1, Zenon
<1>13. commands' \in Seq(Nat \X Nat)
  BY <1>2, <1>3, <1>7, <1>8, ConcatProperties, Zenon
<1>. QED
  BY <1>2, <1>3, <1>10, <1>11, <1>12, <1>13, Zenon DEF CommandsInv

\* The pipe of commands is closed at both ends: what is in it is lost.
LEMMA PipeEmptied ==
    ASSUME CommandsInv, buf = <<>>, commands' = <<>>, lost' = lost \cup CommandsIn(commands),
           UNCHANGED <<written, buf, dst, handled, torn>>,
           pc' = pc \/ (pc # "loop" /\ pc' = "idle")
    PROVE  CommandsInv'
<1>. SUFFICES ASSUME ~torn PROVE CommandsInv'
  BY Zenon DEF CommandsInv
<1>1. /\ commands \in Seq(Nat \X Nat)
      /\ StreamOk(buf \o commands, written) /\ BufferOk(buf, dst, pc)
      /\ HandledOk(handled, lost, Through(buf \o commands, written))
  BY Zenon DEF CommandsInv
<1>2. buf \o commands = commands /\ buf' \o commands' = <<>>
  BY <1>1
<1>3. /\ StreamOk(<<>>, written)
      /\ HandledOk(handled, lost \cup CommandsIn(commands), Through(<<>>, written))
  BY <1>1, <1>2, DropAll, Zenon
<1>4. BufferOk(buf, dst, pc')
  BY <1>1 DEF BufferOk
<1>5. <<>> \in Seq(Nat \X Nat)
  OBVIOUS
<1>. QED
  BY <1>2, <1>3, <1>4, <1>5, Zenon DEF CommandsInv

\* The peer ends.
LEMMA CommandsEnd ==
    ASSUME CommandsInv, End
    PROVE  CommandsInv'
<1>. SUFFICES ASSUME ~torn' PROVE CommandsInv'
  BY Zenon DEF CommandsInv
<1>0. ~torn
  BY Zenon DEF End
<1>1. /\ buf \in Seq(Nat \X Nat) /\ commands \in Seq(Nat \X Nat)
      /\ StreamOk(buf \o commands, written)
      /\ HandledOk(handled, lost, Through(buf \o commands, written))
  BY <1>0, Zenon DEF CommandsInv
<1>2. <<>> \in Seq(Nat \X Nat) /\ BufferOk(<<>>, 0, "ended")
  BY DEF BufferOk
<1>3. /\ buf' = <<>> /\ dst' = 0 /\ pc' = "ended" /\ written' = written /\ handled' = handled
      /\ commands' = IF writer THEN commands ELSE <<>>
      /\ lost' = (lost \cup CommandsIn(buf)) \cup IF writer THEN {} ELSE CommandsIn(commands)
      /\ commands' # <<>> => Head(commands')[2] = 1
  BY Zenon DEF End
<1>4. CASE writer
  <2>1. commands' = commands /\ lost' = lost \cup CommandsIn(buf)
    BY <1>3, <1>4, Zenon
  <2>2. commands # <<>> => commands[1][2] = 1
    <3>1. commands # <<>> => Head(commands) = commands[1]
      BY <1>1
    <3>. QED
      BY <1>3, <2>1, <3>1, Zenon
  <2>3. /\ StreamOk(commands, written)
        /\ HandledOk(handled, lost \cup CommandsIn(buf), Through(commands, written))
    BY <1>1, <2>2, DropBuffer, Zenon
  <2>4. buf' \o commands' = commands
    BY <1>1, <1>3, <2>1
  <2>. QED
    BY <1>1, <1>2, <1>3, <2>1, <2>3, <2>4, Zenon DEF CommandsInv
<1>5. CASE ~writer
  <2>1. commands' = <<>> /\ lost' = lost \cup CommandsIn(buf \o commands)
    <3>1. CommandsIn(buf \o commands) = CommandsIn(buf) \cup CommandsIn(commands)
      BY <1>1, CommandsOfBoth, Zenon
    <3>. QED
      BY <1>3, <1>5, <3>1, Zenon
  <2>2. /\ StreamOk(<<>>, written)
        /\ HandledOk(handled, lost \cup CommandsIn(buf \o commands), Through(<<>>, written))
    BY <1>1, DropAll, Zenon
  <2>3. buf' \o commands' = <<>>
    BY <1>3, <2>1
  <2>. QED
    BY <1>2, <1>3, <2>1, <2>2, <2>3, Zenon DEF CommandsInv
<1>. QED
  BY <1>4, <1>5

\* api_ev_read: as many bytes as the buffer has room for, one at least.
LEMMA CommandsRead ==
    ASSUME CommandsInv, Read
    PROVE  CommandsInv'
<1>. SUFFICES ASSUME ~torn' PROVE CommandsInv'
  BY Zenon DEF CommandsInv
<1>1. PICK n : n = Lesser(Len(commands), BufferLen - Len(buf))
  BY Zenon
<1>2. /\ pc = "idle" /\ commands # <<>> /\ pc' = "loop"
      /\ buf' = buf \o SubSeq(commands, 1, n)
      /\ commands' = SubSeq(commands, n + 1, Len(commands))
      /\ ~torn /\ ~(commands[n][2] < HeaderLen)
      /\ written' = written /\ dst' = dst /\ handled' = handled /\ lost' = lost
  BY <1>1, Zenon DEF Read
<1>3. /\ buf \in Seq(Nat \X Nat) /\ commands \in Seq(Nat \X Nat)
      /\ StreamOk(buf \o commands, written) /\ BufferOk(buf, dst, pc)
      /\ HandledOk(handled, lost, Through(buf \o commands, written))
  BY <1>2, Zenon DEF CommandsInv
<1>4. Len(buf) \in Nat /\ Len(commands) \in Nat \ {0} /\ buf \o commands # <<>>
  <2>1. buf \in Seq(Nat \X Nat) /\ commands \in Seq(Nat \X Nat) /\ commands # <<>>
    BY <1>2, <1>3
  <2>. QED
    BY <2>1
<1>5. PICK m \in 1 .. written : m = Through(buf \o commands, written) + 1
  BY <1>3, <1>4, StreamFacts, Zenon
<1>6. Total(m) \in Nat \ {0} /\ Total(m) <= BufferLen /\ BufferLen \in Nat
  BY <1>3, ApiAssumption, CommandLength, Zenon
<1>7. Len(buf) < BufferLen
  <2>1. CASE buf = <<>>
    <3>1. Len(buf) = 0
      BY <2>1
    <3>. QED
      BY <1>6, <3>1
  <2>2. CASE buf # <<>>
    <3>0. Front(buf, buf \o commands, m, written)
      BY <1>3, <1>5, <2>2, BufferFront, Zenon
    <3>1. buf[1][1] = m
      BY <3>0, Zenon DEF Front
    <3>2. pc # "loop"
      BY <1>2
    <3>3. Len(buf) < Total(m)
      BY <1>3, <2>2, <3>1, <3>2, Zenon DEF BufferOk
    <3>. QED
      BY <1>4, <1>6, <3>3
  <2>. QED
    BY <2>1, <2>2
<1>8. n \in 1 .. Len(commands) /\ n \in 0 .. Len(commands) /\ n \in Nat
  BY <1>1, <1>4, <1>6, <1>7 DEF Lesser
<1>9. buf' \o commands' = buf \o commands
  BY <1>2, <1>3, <1>8, CutAnywhere, Zenon
<1>10. PICK c : c = SubSeq(commands, 1, n)
  BY Zenon
<1>11. c \in Seq(Nat \X Nat) /\ Len(c) = n /\ c[n] = commands[n]
  BY <1>3, <1>8, <1>10
<1>12. /\ buf \o c \in Seq(Nat \X Nat) /\ Len(buf \o c) = Len(buf) + n
       /\ \A i \in 1 .. Len(buf) + n : (buf \o c)[i] = IF i <= Len(buf) THEN buf[i] ELSE c[i - Len(buf)]
  BY <1>3, <1>11, ConcatProperties, Zenon
<1>13. commands' \in Seq(Nat \X Nat)
  <2>1. SubSeq(commands, n + 1, Len(commands)) \in Seq(Nat \X Nat)
    BY <1>3, <1>8
  <2>. QED
    BY <1>2, <2>1, Zenon
<1>14. (buf \o c)[Len(buf) + n] = commands[n]
  <2>1. Len(buf) + n \in 1 .. Len(buf) + n /\ ~(Len(buf) + n <= Len(buf)) /\ (Len(buf) + n) - Len(buf) = n
    BY <1>4, <1>8
  <2>. QED
    BY <1>11, <1>12, <2>1, Zenon
<1>15. commands[n][2] >= HeaderLen
  <2>1. commands[n] \in Nat \X Nat
    BY <1>3, <1>8
  <2>2. commands[n][2] \in Nat /\ HeaderLen \in Nat
    BY <2>1, ApiAssumption
  <2>. QED
    BY <1>2, <2>2
<1>16. buf \o c # <<>>
  BY <1>4, <1>8, <1>12
<1>17. buf # <<>> => (buf \o c)[1] = buf[1]
  <2>. SUFFICES ASSUME buf # <<>> PROVE (buf \o c)[1] = buf[1]
    OBVIOUS
  <2>1. Len(buf) # 0
    BY <1>3
  <2>2. 1 \in 1 .. Len(buf) + n /\ 1 <= Len(buf)
    BY <1>4, <1>8, <2>1
  <2>. QED
    BY <1>12, <2>2, Zenon
<1>18. BufferOk(buf \o c, dst, "loop")
  <2>1. "loop" # "undefined" /\ "loop" \notin {"reopen", "ended"}
    OBVIOUS
  <2>. QED
    BY <1>3, <1>12, <1>14, <1>15, <1>16, <1>17, <2>1, Zenon DEF BufferOk
<1>. QED
  BY <1>2, <1>3, <1>9, <1>10, <1>12, <1>13, <1>18, Zenon DEF CommandsInv

\* read returns 0: there is no part of a command in the buffer.
LEMMA CommandsReadNothing ==
    ASSUME CommandsInv, ReadNothing
    PROVE  CommandsInv'
<1>. SUFFICES ASSUME ~torn PROVE CommandsInv'
  BY Zenon DEF CommandsInv, ReadNothing
<1>1. /\ pc = "idle" /\ commands = <<>> /\ pc' = "reopen"
      /\ UNCHANGED <<written, commands, buf, dst, handled, lost, torn>>
  BY DEF ReadNothing, appIn
<1>2. /\ buf \in Seq(Nat \X Nat) /\ commands \in Seq(Nat \X Nat)
      /\ StreamOk(buf \o commands, written) /\ BufferOk(buf, dst, pc)
      /\ HandledOk(handled, lost, Through(buf \o commands, written))
  BY Zenon DEF CommandsInv
<1>3. buf \o commands = buf
  BY <1>1, <1>2
<1>4. buf = <<>>
  <2>. SUFFICES ASSUME buf # <<>> PROVE FALSE
    OBVIOUS
  <2>1. PICK n : n = Through(buf \o commands, written) + 1
    BY Zenon
  <2>2. /\ n \in 1 .. written /\ n \in Nat /\ buf[1][1] = n /\ Total(n) \in Nat \ {0}
        /\ \A i \in 1 .. Len(buf) : i <= Total(n) => buf[i] = <<n, i>>
    <3>1. Front(buf, buf \o commands, n, written)
      BY <1>2, <2>1, BufferFront, Zenon
    <3>. QED
      BY <3>1, Zenon DEF Front
  <2>3. pc # "loop"
    BY <1>1
  <2>4. Len(buf) < Total(n)
    BY <1>2, <2>2, <2>3, Zenon DEF BufferOk
  <2>5. Len(buf) \in 1 .. Len(buf) /\ Len(buf) <= Total(n)
    BY <1>2, <2>2, <2>4
  <2>6. buf[Len(buf)] = <<n, Len(buf)>>
    BY <2>2, <2>5, Zenon
  <2>7. buf[Len(buf)] = <<written, Total(written)>>
    BY <1>2, <1>3, Zenon DEF StreamOk
  <2>8. n = written /\ Len(buf) = Total(written)
    BY <2>6, <2>7
  <2>. QED
    BY <2>2, <2>4, <2>8
<1>5. BufferOk(buf, dst, "reopen")
  BY <1>2, <1>4 DEF BufferOk
<1>. QED
  BY <1>1, <1>2, <1>5, Zenon DEF CommandsInv

\* In the loop the buffer begins with a header, and dst with what it says.
LEMMA LoopFacts ==
    ASSUME CommandsInv, ~torn, pc = "loop", NEW n, n = Through(buf \o commands, written) + 1
    PROVE  /\ HeaderRead /\ Size = Length[n] /\ buf # <<>>
           /\ Length[n] \in Nat /\ HeaderLen \in Nat \ {0} /\ Total(n) = HeaderLen + Length[n]
           /\ Front(buf, buf \o commands, n, written)
           /\ Len(buf) \in Nat \ {0}
<1>1. /\ buf \in Seq(Nat \X Nat) /\ commands \in Seq(Nat \X Nat)
      /\ StreamOk(buf \o commands, written) /\ BufferOk(buf, dst, pc)
  BY Zenon DEF CommandsInv
<1>2. buf # <<>> /\ buf[Len(buf)][2] >= HeaderLen
  BY <1>1, Zenon DEF BufferOk
<1>3. Front(buf, buf \o commands, n, written)
  BY <1>1, <1>2, BufferFront, Zenon
<1>4. /\ n \in 1 .. written /\ n \in Nat /\ buf[1][1] = n /\ buf[1][2] = 1
      /\ Total(n) \in Nat \ {0}
      /\ \A i \in 1 .. Len(buf) : i <= Total(n) => buf[i] = <<n, i>>
  BY <1>3, Zenon DEF Front
<1>5. Length[n] \in Nat /\ Total(n) = HeaderLen + Length[n] /\ HeaderLen \in Nat \ {0}
  BY <1>1, <1>4, CommandLength, ApiAssumption, Zenon
<1>6. Size = Length[n]
  BY <1>1, <1>4, Zenon DEF Size, BufferOk
<1>7. Len(buf) \in Nat \ {0}
  BY <1>1, <1>2
<1>8. Len(buf) >= HeaderLen
  <2>1. CASE Len(buf) <= Total(n)
    <3>1. Len(buf) \in 1 .. Len(buf)
      BY <1>7
    <3>2. buf[Len(buf)] = <<n, Len(buf)>>
      BY <1>4, <2>1, <3>1, Zenon
    <3>3. buf[Len(buf)][2] = Len(buf)
      BY <3>2
    <3>. QED
      BY <1>2, <3>3, Zenon
  <2>2. CASE ~(Len(buf) <= Total(n))
    BY <1>4, <1>5, <1>7, <2>2
  <2>. QED
    BY <2>1, <2>2
<1>9. HeaderRead
  BY <1>4, <1>8, Zenon DEF HeaderRead
<1>. QED
  BY <1>2, <1>3, <1>5, <1>6, <1>7, <1>9, Zenon

\* A whole command is taken from the buffer.
LEMMA CommandHandled ==
    ASSUME CommandsInv, Handle
    PROVE  CommandsInv'
<1>. SUFFICES ASSUME ~torn PROVE CommandsInv'
  BY Zenon DEF CommandsInv, Handle
<1>1. PICK s, w, n : s = buf \o commands /\ w = written /\ n = Through(s, w) + 1
  BY Zenon
<1>2. /\ buf \in Seq(Nat \X Nat) /\ commands \in Seq(Nat \X Nat)
      /\ StreamOk(s, w) /\ BufferOk(buf, dst, pc) /\ HandledOk(handled, lost, Through(s, w))
  BY <1>1, Zenon DEF CommandsInv
<1>3. /\ pc = "loop" /\ Complete(Size)
      /\ handled' = Append(handled, buf[1][1]) /\ buf' = Rest(Size) /\ dst' = 0
      /\ pc' = IF buf' = <<>> THEN "idle" ELSE "loop"
      /\ written' = w /\ commands' = commands /\ lost' = lost /\ torn' = torn
  BY <1>1, Zenon DEF Handle, appIn
<1>4. /\ Size = Length[n] /\ buf # <<>>
      /\ Length[n] \in Nat /\ HeaderLen \in Nat \ {0} /\ Total(n) = HeaderLen + Length[n]
      /\ Front(buf, s, n, w) /\ Len(buf) \in Nat \ {0} /\ HeaderRead
  BY <1>1, <1>3, LoopFacts, Zenon
<1>5. /\ n \in 1 .. w /\ n \in Nat /\ buf[1][1] = n /\ Total(n) \in Nat \ {0}
      /\ \A i \in 1 .. Len(buf) : s[i] = buf[i] /\ (i <= Total(n) => buf[i] = <<n, i>>)
  BY <1>4, Zenon DEF Front
<1>6. PICK k : k = Total(n)
  BY Zenon
<1>7. k \in 1 .. Len(buf) /\ k \in 0 .. Len(buf) /\ k <= Total(n) /\ k \in Nat
  <2>1. Len(buf) - HeaderLen >= Length[n]
    BY <1>3, <1>4, Zenon DEF Complete
  <2>2. Len(buf) >= HeaderLen
    BY <1>4, Zenon DEF HeaderRead
  <2>. QED
    BY <1>4, <1>5, <1>6, <2>1, <2>2
<1>8. buf' = Without(buf, k)
  <2>1. HeaderLen + Length[n] + 1 = k + 1
    BY <1>4, <1>6
  <2>. QED
    BY <1>3, <1>4, <2>1, Zenon DEF Rest, Without
<1>9. buf' \o commands' = Without(s, k)
  BY <1>1, <1>2, <1>3, <1>7, <1>8, RestOfBoth, Zenon DEF Without
<1>10. s \in Seq(Nat \X Nat) /\ Chained(s) /\ Len(s) = Len(buf) + Len(commands)
  BY <1>1, <1>2, ConcatProperties, Zenon DEF StreamOk
<1>11. k \in 1 .. Len(s) /\ k \in 0 .. Len(s)
  <2>1. Len(commands) \in Nat /\ Len(s) = Len(buf) + Len(commands)
    BY <1>2, <1>10
  <2>. QED
    BY <1>4, <1>7, <2>1
<1>12. s[k] = <<n, k>> /\ s[k][1] = n
  <2>1. s[k] = <<n, k>>
    BY <1>5, <1>7, Zenon
  <2>. QED
    BY <2>1
<1>13. PICK r : r = Without(s, k)
  BY Zenon
<1>14. r # <<>> => r[1][2] = 1
  <2>. SUFFICES ASSUME r # <<>> PROVE r[1][2] = 1
    OBVIOUS
  <2>1. k < Len(s) /\ r[1] = s[k + 1]
    BY <1>10, <1>11, <1>13, ChainRest, Zenon DEF Without
  <2>2. k \in 1 .. Len(s) - 1
    BY <1>10, <1>11, <2>1
  <2>3. s[k + 1] = Succ(<<n, k>>)
    BY <1>10, <1>12, <2>2, Zenon DEF Chained
  <2>4. Succ(<<n, k>>) = <<n + 1, 1>>
    BY <1>6, <1>7 DEF Succ
  <2>. QED
    BY <2>1, <2>3, <2>4
<1>15. StreamOk(r, w) /\ Through(r, w) = n
  BY <1>2, <1>11, <1>12, <1>13, <1>14, StreamRest, Zenon
<1>16. HandledOk(handled', lost', n)
  <2>1. Through(s, w) \in Nat
    BY <1>2, StreamFacts, Zenon
  <2>. QED
    BY <1>1, <1>2, <1>3, <1>5, <2>1, HandledOne, Zenon
<1>17. PICK b : b = Without(buf, k)
  BY Zenon
<1>18. b \in Seq(Nat \X Nat) /\ (b # <<>> => b[Len(b)] = buf[Len(buf)])
  <2>1. b \in Seq(Nat \X Nat) /\ Len(b) = Len(buf) - k /\ \A i \in 1 .. Len(buf) - k : b[i] = buf[k + i]
    BY <1>2, <1>7, <1>17, WithoutFacts, Zenon
  <2>2. ASSUME b # <<>> PROVE b[Len(b)] = buf[Len(buf)]
    <3>1. Len(b) # 0
      BY <2>1, <2>2
    <3>2. Len(buf) - k \in 1 .. Len(buf) - k /\ k + (Len(buf) - k) = Len(buf)
      BY <1>4, <1>7, <2>1, <3>1
    <3>. QED
      BY <2>1, <3>2, Zenon
  <2>. QED
    BY <2>1, <2>2, Zenon
<1>19. BufferOk(b, 0, pc')
  <2>1. b = <<>> => pc' = "idle"
    BY <1>3, <1>8, <1>17, Zenon
  <2>2. b # <<>> => pc' = "loop"
    BY <1>3, <1>8, <1>17, Zenon
  <2>3. buf[Len(buf)][2] >= HeaderLen
    BY <1>2, <1>3, Zenon DEF BufferOk
  <2>4. b # <<>> => b[Len(b)][2] >= HeaderLen
    BY <1>18, <2>3, Zenon
  <2>. QED
    BY <2>1, <2>2, <2>4 DEF BufferOk
<1>. QED
  BY <1>2, <1>3, <1>8, <1>9, <1>13, <1>15, <1>16, <1>17, <1>18, <1>19, Zenon DEF CommandsInv

\* The rest of a command is waited for.
LEMMA CommandAwaited ==
    ASSUME CommandsInv, Wait
    PROVE  CommandsInv'
<1>. SUFFICES ASSUME ~torn PROVE CommandsInv'
  BY Zenon DEF CommandsInv, Wait
<1>1. PICK n : n = Through(buf \o commands, written) + 1
  BY Zenon
<1>2. /\ buf \in Seq(Nat \X Nat) /\ commands \in Seq(Nat \X Nat)
      /\ StreamOk(buf \o commands, written)
      /\ HandledOk(handled, lost, Through(buf \o commands, written))
  BY Zenon DEF CommandsInv
<1>3. /\ pc = "loop" /\ ~Complete(Size) /\ dst' = Size /\ pc' = "idle"
      /\ written' = written /\ commands' = commands /\ buf' = buf
      /\ handled' = handled /\ lost' = lost /\ torn' = torn
  BY Zenon DEF Wait, appIn
<1>4. /\ Size = Length[n] /\ buf # <<>>
      /\ Length[n] \in Nat /\ HeaderLen \in Nat \ {0} /\ Total(n) = HeaderLen + Length[n]
      /\ Front(buf, buf \o commands, n, written) /\ Len(buf) \in Nat \ {0} /\ HeaderRead
  BY <1>1, <1>3, LoopFacts, Zenon
<1>5. buf[1][1] = n
  BY <1>4, Zenon DEF Front
<1>6. Len(buf) < Total(n)
  <2>1. ~(Len(buf) - HeaderLen >= Length[n])
    BY <1>3, <1>4, Zenon DEF Complete
  <2>2. Len(buf) >= HeaderLen
    BY <1>4, Zenon DEF HeaderRead
  <2>. QED
    BY <1>4, <2>1, <2>2
<1>7. BufferOk(buf, Length[n], "idle")
  <2>1. "idle" # "undefined" /\ "idle" # "loop" /\ "idle" \notin {"reopen", "ended"}
    OBVIOUS
  <2>. QED
    BY <1>4, <1>5, <1>6, <2>1, Zenon DEF BufferOk
<1>. QED
  BY <1>2, <1>3, <1>4, <1>7, Zenon DEF CommandsInv

\* Before the first command.
LEMMA InitCommandsInv ==
    ASSUME Init
    PROVE  CommandsInv
<1>1. /\ written = 0 /\ buf = <<>> /\ commands = <<>> /\ dst = 0 /\ pc = "idle"
      /\ handled = <<>> /\ lost = {}
  BY DEF Init
<1>2. <<>> \in Seq(Nat \X Nat) /\ <<>> \in Seq(Nat) /\ Chained(<<>>) /\ DOMAIN <<>> = {}
  BY DEF Chained
<1>3. 0 \in Nat /\ 1 .. 0 = {}
  OBVIOUS
<1>4. StreamOk(<<>>, 0) /\ Through(<<>>, 0) = 0
  BY <1>2, <1>3, Zenon DEF StreamOk, Through
<1>5. BufferOk(<<>>, 0, "idle")
  BY DEF BufferOk
<1>6. HandledOk(<<>>, {}, 0)
  BY <1>2, <1>3, Zenon DEF HandledOk, Range
<1>7. buf \o commands = <<>>
  BY <1>1
<1>. QED
  BY <1>1, <1>2, <1>4, <1>5, <1>6, <1>7, Zenon DEF CommandsInv

\* Every step of application and peer keeps the stream of commands in order.
LEMMA NextCommandsInv ==
    ASSUME CommandsInv, [Next]_vars
    PROVE  CommandsInv'
<1>1. CASE OpenCommands
  <2>1. pc' = pc /\ UNCHANGED <<written, commands, buf, dst, handled, lost, torn>>
    BY <1>1, Zenon DEF OpenCommands, peerIn
  <2>. QED
    BY <2>1, CommandsStay, Zenon
<1>2. CASE WriteCommand
  BY <1>2, CommandWritten
<1>3. CASE CloseCommands
  <2>1. CASE pc = "ended"
    <3>1. /\ commands' = <<>> /\ lost' = lost \cup CommandsIn(commands) /\ pc' = pc
          /\ UNCHANGED <<written, buf, dst, handled, torn>>
      BY <1>3, <2>1, Zenon DEF CloseCommands, peerIn
    <3>2. CASE torn
      BY <3>1, <3>2, Zenon DEF CommandsInv
    <3>3. CASE ~torn
      <4>1. buf = <<>>
        BY <2>1, <3>3 DEF CommandsInv, BufferOk
      <4>. QED
        BY <3>1, <4>1, PipeEmptied, Zenon
    <3>. QED
      BY <3>2, <3>3
  <2>2. CASE pc # "ended"
    <3>1. pc' = pc /\ UNCHANGED <<written, commands, buf, dst, handled, lost, torn>>
      BY <1>3, <2>2, Zenon DEF CloseCommands, peerIn
    <3>. QED
      BY <3>1, CommandsStay, Zenon
  <2>. QED
    BY <2>1, <2>2
<1>4. CASE OpenAnswers \/ ReadAnswer \/ CloseAnswers
  <2>1. pc' = pc /\ UNCHANGED <<written, commands, buf, dst, handled, lost, torn>>
    BY <1>4, Zenon DEF OpenAnswers, ReadAnswer, CloseAnswers, appIn, peerIn
  <2>. QED
    BY <2>1, CommandsStay, Zenon
<1>5. CASE FlushStart \/ FlushWrite
  <2>1. UNCHANGED <<written, commands, buf, dst, handled, lost, torn>>
    BY <1>5, Zenon DEF FlushStart, FlushWrite, appIn
  <2>2. pc # "loop" /\ pc' \in {"idle", "header", "body"}
    BY <1>5 DEF FlushStart, FlushWrite, FlushEnd
  <2>. QED
    BY <2>1, <2>2, CommandsStay, Zenon
<1>6. CASE ReaderGone \/ Notify
  <2>1. pc' = pc /\ UNCHANGED <<written, commands, buf, dst, handled, lost, torn>>
    BY <1>6, Zenon DEF ReaderGone, Notify, appIn, peerIn
  <2>. QED
    BY <2>1, CommandsStay, Zenon
<1>7. CASE BrokenPipe \/ Crash
  <2>1. End
    BY <1>7, Zenon DEF BrokenPipe, Crash
  <2>. QED
    BY <2>1, CommandsEnd, Zenon
<1>8. CASE Read
  BY <1>8, CommandsRead
<1>9. CASE ReadNothing
  BY <1>9, CommandsReadNothing
<1>10. CASE Reopen
  <2>1. pc = "reopen" /\ pc' = "idle" /\ pc # "loop" /\ pc' \in {"idle", "header", "body"}
    BY <1>10 DEF Reopen
  <2>2. CASE writer
    <3>1. UNCHANGED <<written, commands, buf, dst, handled, lost, torn>>
      BY <1>10, <2>2, Zenon DEF Reopen
    <3>. QED
      BY <2>1, <3>1, CommandsStay, Zenon
  <2>3. CASE ~writer
    <3>1. /\ commands' = <<>> /\ lost' = lost \cup CommandsIn(commands)
          /\ UNCHANGED <<written, buf, dst, handled, torn>>
      BY <1>10, <2>3, Zenon DEF Reopen
    <3>2. CASE torn
      BY <3>1, <3>2, Zenon DEF CommandsInv
    <3>3. CASE ~torn
      <4>1. buf = <<>>
        BY <2>1, <3>3 DEF CommandsInv, BufferOk
      <4>. QED
        BY <2>1, <3>1, <4>1, PipeEmptied, Zenon
    <3>. QED
      BY <3>2, <3>3
  <2>. QED
    BY <2>2, <2>3
<1>11. CASE Handle
  BY <1>11, CommandHandled
<1>12. CASE Wait
  BY <1>12, CommandAwaited
<1>13. CASE Misread
  <2>1. torn' = torn /\ pc = "loop" /\ ~HeaderRead
    BY <1>13, Zenon DEF Misread
  <2>2. torn
    <3>. SUFFICES ASSUME ~torn PROVE FALSE
      OBVIOUS
    <3>1. PICK n : n = Through(buf \o commands, written) + 1
      BY Zenon
    <3>. QED
      BY <2>1, <3>1, LoopFacts, Zenon
  <2>. QED
    BY <2>1, <2>2, Zenon DEF CommandsInv
<1>14. CASE Start
  <2>1. UNCHANGED <<written, commands, buf, dst, handled, lost, torn>>
    BY <1>14, Zenon DEF Start, appIn
  <2>2. pc # "loop" /\ pc' \in {"idle", "header", "body"}
    BY <1>14 DEF Start
  <2>. QED
    BY <2>1, <2>2, CommandsStay, Zenon
<1>15. CASE UNCHANGED vars
  <2>1. pc' = pc /\ UNCHANGED <<written, commands, buf, dst, handled, lost, torn>>
    BY <1>15, Zenon DEF vars
  <2>. QED
    BY <2>1, CommandsStay, Zenon
<1>. QED
  BY <1>1, <1>2, <1>3, <1>4, <1>5, <1>6, <1>7, <1>8, <1>9, <1>10, <1>11, <1>12, <1>13, <1>14,
     <1>15, Zenon DEF Next, Application, Peer

\* api_ev_read: unless a read ends inside a header, the buffer and the pipe
\* together hold whole commands that follow the ones handled or lost.
THEOREM CommandsInvariant == Spec => []CommandsInv
<1>1. Init => CommandsInv
  BY InitCommandsInv
<1>2. CommandsInv /\ [Next]_vars => CommandsInv'
  BY NextCommandsInv
<1>. QED
  BY <1>1, <1>2, PTL DEF Spec

\* Commands are handled in order, each once and none passed over, for commands
\* of every length that fits in api.read.buffer and wherever reads cut them.
THEOREM CommandsAreNotSkipped == Spec => []NothingSkipped
<1>1. CommandsInv => NothingSkipped
  <2>. SUFFICES ASSUME CommandsInv, ~torn PROVE NothingSkipped
    BY Zenon DEF NothingSkipped
  <2>1. PICK s, w, t : s = buf \o commands /\ w = written /\ t = Through(s, w)
    BY Zenon
  <2>2. StreamOk(s, w) /\ BufferOk(buf, dst, pc) /\ HandledOk(handled, lost, t)
    BY <2>1, Zenon DEF CommandsInv
  <2>3. t \in Nat /\ t <= w /\ CommandsIn(s) = t + 1 .. w
    BY <2>1, <2>2, StreamFacts, Zenon
  <2>4. w \in Nat
    BY <2>2, Zenon DEF StreamOk
  <2>5. Range(handled) \cup lost = 1 .. t
    BY <2>2, Zenon DEF HandledOk
  <2>6. (1 .. t) \cup (t + 1 .. w) = 1 .. w
    BY <2>3, <2>4
  <2>7. Pending = {n \in t + 1 .. w : n \notin lost}
    BY <2>1, <2>3, Zenon DEF Pending
  <2>8. Range(handled) \cup Pending \cup lost = 1 .. w
    BY <2>5, <2>6, <2>7, Zenon
  <2>9. ASSUME NEW n \in Pending, NEW h \in Range(handled) PROVE h < n
    <3>1. n \in t + 1 .. w /\ h \in 1 .. t
      BY <2>5, <2>7, Zenon
    <3>. QED
      BY <2>3, <2>4, <3>1
  <2>10. pc # "undefined"
    BY <2>2, Zenon DEF BufferOk
  <2>11. \A i, j \in DOMAIN handled : i < j => handled[i] < handled[j]
    BY <2>2, Zenon DEF HandledOk
  <2>. QED
    BY <2>1, <2>8, <2>9, <2>10, <2>11, Zenon DEF NothingSkipped
<1>. QED
  BY <1>1, CommandsInvariant, PTL

-----------------------------------------------------------------------------
(* Answers *)

Write == [part : {"header", "body"}, notice : Nat \ {0}]

\* The writes the application has not used: the header it has read comes first.
Unused(w, a) == (IF w = 0 THEN <<>> ELSE <<[part |-> "header", notice |-> w]>>) \o a

\* A header is followed by its body, a body by a later header.
Follows(v, w) ==
    IF v.part = "header" THEN w = [part |-> "body", notice |-> v.notice]
    ELSE w.part = "header" /\ v.notice < w.notice

Framed(u) ==
    /\ u # <<>> => u[1].part = "header"
    /\ \A i \in 1 .. Len(u) - 1 : Follows(u[i], u[i + 1])

\* A body is missing exactly while the callback is between its two writes.
Whole(u, q, p, a) ==
    IF p = "body" THEN u # <<>> /\ u[Len(u)] = [part |-> "header", notice |-> q[a]]
    ELSE u # <<>> => u[Len(u)].part = "body"

\* The items of the queue whose header is still to be written.
Ahead(q, p, a) == {k \in DOMAIN q : (p = "header" => k >= a) /\ (p = "body" => k > a)}

\* Everything that was read or written comes before item x.
Before(u, t, x) ==
    /\ \A i \in DOMAIN t : t[i] < x
    /\ \A i \in DOMAIN u : u[i].notice < x

\* What was read is in order, and before what was not.
Ordered(u, t) ==
    /\ \A i, j \in DOMAIN t : i < j => t[i] < t[j]
    /\ \A i, j \in DOMAIN u : i <= j => u[i].notice <= u[j].notice
    /\ \A i \in DOMAIN t : \A j \in DOMAIN u : t[i] < u[j].notice

AnswersOk(u, t, q, p, a, n) ==
    /\ u \in Seq(Write) /\ t \in Seq(Nat \ {0})
    /\ Framed(u) /\ Whole(u, q, p, a) /\ Ordered(u, t)
    /\ \A k \in Ahead(q, p, a) : Before(u, t, q[k])
    /\ Before(u, t, n + 1)

\* Items are queued in order; while they are written the pipe is open and the
\* event is not started.
QueueInv ==
    /\ notices \in Nat /\ queue \in Seq(1 .. notices) /\ at \in Nat
    /\ \A i, j \in DOMAIN queue : i < j => queue[i] < queue[j]
    /\ watch => fd /\ queue # <<>> /\ pc \notin {"header", "body"}
    /\ pc \in {"header", "body"} => fd /\ at \in DOMAIN queue
    /\ want # 0 => reader

AnswersInv ==
    /\ QueueInv
    /\ ~cut => /\ want \in Nat /\ answers \in Seq(Write)
               /\ AnswersOk(Unused(want, answers), told, queue, pc, at, notices)

\* What is still to be written was so before, or is new.
Continues(q2, p2, a2, q, p, a, n) ==
    \A k \in Ahead(q2, p2, a2) : (k \in Ahead(q, p, a) /\ q2[k] = q[k]) \/ q2[k] = n + 1

\* Another queue, or another place in it, with nothing missing.
LEMMA AnswersAhead ==
    ASSUME NEW u, NEW t, NEW q, NEW p, NEW a, NEW n \in Nat, AnswersOk(u, t, q, p, a, n),
           NEW q2, NEW p2, NEW a2, NEW n2 \in Nat, n <= n2, p # "body", p2 # "body",
           Continues(q2, p2, a2, q, p, a, n)
    PROVE  AnswersOk(u, t, q2, p2, a2, n2)
<1>1. \A k \in Ahead(q2, p2, a2) : Before(u, t, q2[k])
  BY Zenon DEF AnswersOk, Continues
<1>2. Whole(u, q2, p2, a2)
  BY Zenon DEF AnswersOk, Whole
<1>3. Before(u, t, n2 + 1)
  <2>1. /\ u \in Seq(Write) /\ t \in Seq(Nat \ {0}) /\ Before(u, t, n + 1)
    BY Zenon DEF AnswersOk
  <2>2. \A i \in DOMAIN t : t[i] \in Nat
    BY <2>1
  <2>3. \A i \in DOMAIN u : u[i].notice \in Nat
    <3>1. \A i \in DOMAIN u : u[i] \in Write
      BY <2>1
    <3>. QED
      BY <3>1 DEF Write
  <2>4. \A x \in Nat : x < n + 1 => x < n2 + 1
    OBVIOUS
  <2>. QED
    BY <2>1, <2>2, <2>3, <2>4, Zenon DEF Before
<1>. QED
  BY <1>1, <1>2, <1>3, Zenon DEF AnswersOk

\* The pipe of answers is closed at both ends.
LEMMA AnswersLost ==
    ASSUME NEW u, NEW t, NEW q, NEW p, NEW a, NEW n, AnswersOk(u, t, q, p, a, n), p # "body"
    PROVE  AnswersOk(<<>>, t, q, p, a, n)
<1>1. <<>> \in Seq(Write) /\ DOMAIN <<>> = {} /\ Len(<<>>) - 1 < 1
  OBVIOUS
<1>2. 1 .. Len(<<>>) - 1 = {}
  OBVIOUS
<1>. QED
  BY <1>1, <1>2, Zenon DEF AnswersOk, Framed, Whole, Ordered, Before

\* One more write.
LEMMA AnswerWritten ==
    ASSUME NEW u, NEW t, NEW x \in Write, NEW m, m = x.notice,
           u \in Seq(Write), t \in Seq(Nat \ {0}), Framed(u), Ordered(u, t),
           u = <<>> => x.part = "header",
           u # <<>> => Follows(u[Len(u)], x),
           \A i \in DOMAIN t : t[i] < m,
           \A i \in DOMAIN u : u[i].notice <= m
    PROVE  /\ Append(u, x) \in Seq(Write) /\ Framed(Append(u, x)) /\ Ordered(Append(u, x), t)
           /\ Append(u, x) # <<>> /\ Append(u, x)[Len(Append(u, x))] = x
           /\ \A y : Before(u, t, y) /\ m < y => Before(Append(u, x), t, y)
<1>. DEFINE v == Append(u, x)
            L == Len(u)
<1>1. L \in Nat /\ DOMAIN u = 1 .. L
  OBVIOUS
<1>2. /\ v \in Seq(Write) /\ Len(v) = L + 1 /\ v[L + 1] = x
      /\ \A i \in 1 .. L : v[i] = u[i]
  BY <1>1
<1>3. DOMAIN v = 1 .. L + 1 /\ v # <<>>
  BY <1>1, SMTT(30)
<1>. HIDE DEF v, L
<1>4. \A i \in 1 .. L + 1 : i \in 1 .. L \/ i = L + 1
  BY <1>1
<1>5. Framed(v)
  <2>1. v[1].part = "header"
    <3>1. CASE u = <<>>
      <4>1. L + 1 = 1
        BY <3>1 DEF L
      <4>. QED
        BY <1>2, <3>1, <4>1, Zenon
    <3>2. CASE u # <<>>
      <4>1. 1 \in 1 .. L
        BY <3>2 DEF L
      <4>. QED
        BY <1>2, <3>2, <4>1, Zenon DEF Framed
    <3>. QED
      BY <3>1, <3>2
  <2>2. ASSUME NEW i \in 1 .. Len(v) - 1 PROVE Follows(v[i], v[i + 1])
    <3>1. i \in 1 .. L
      BY <1>1, <1>2
    <3>2. CASE i = L
      <4>1. u # <<>>
        BY <1>1, <3>1, <3>2 DEF L
      <4>. QED
        BY <1>2, <3>1, <3>2, <4>1, Zenon DEF L
    <3>3. CASE i # L
      <4>1. i \in 1 .. L - 1 /\ i + 1 \in 1 .. L
        BY <1>1, <3>1, <3>3
      <4>. QED
        BY <1>2, <3>1, <4>1, Zenon DEF Framed, L
    <3>. QED
      BY <3>2, <3>3
  <2>. QED
    BY <2>1, <2>2, Zenon DEF Framed
<1>6. Ordered(v, t)
  <2>1. m \in Nat /\ m <= m
    BY DEF Write
  <2>2. ASSUME NEW i \in DOMAIN v, NEW j \in DOMAIN v, i <= j
        PROVE  v[i].notice <= v[j].notice
    <3>1. CASE j = L + 1
      BY <1>1, <1>2, <1>3, <1>4, <2>1, <3>1, Zenon
    <3>2. CASE j \in 1 .. L
      <4>1. i \in 1 .. L
        BY <1>1, <1>3, <2>2, <3>2
      <4>. QED
        BY <1>1, <1>2, <2>2, <3>2, <4>1, Zenon DEF Ordered
    <3>. QED
      BY <1>3, <1>4, <3>1, <3>2, Zenon
  <2>3. \A i \in DOMAIN t : \A j \in DOMAIN v : t[i] < v[j].notice
    BY <1>1, <1>2, <1>3, <1>4, Zenon DEF Ordered
  <2>. QED
    BY <2>2, <2>3, Zenon DEF Ordered
<1>7. ASSUME NEW y, Before(u, t, y), m < y PROVE Before(v, t, y)
  BY <1>1, <1>2, <1>3, <1>4, <1>7, Zenon DEF Before
<1>8. v[Len(v)] = x
  BY <1>2, Zenon
<1>. QED
  BY <1>2, <1>3, <1>5, <1>6, <1>7, <1>8, Zenon DEF v

\* The header is written.
LEMMA HeaderWritten ==
    ASSUME NEW u, NEW t, NEW q, NEW a, NEW n \in Nat, AnswersOk(u, t, q, "header", a, n),
           q \in Seq(1 .. n), a \in DOMAIN q, \A i, j \in DOMAIN q : i < j => q[i] < q[j]
    PROVE  AnswersOk(Append(u, [part |-> "header", notice |-> q[a]]), t, q, "body", a, n)
<1>1. PICK x, v, m : /\ x = [part |-> "header", notice |-> q[a]]
                     /\ v = Append(u, x) /\ m = q[a]
  BY Zenon
<1>2. q[a] \in 1 .. n /\ a \in Nat
  OBVIOUS
<1>3. x \in Write /\ x.notice = m /\ x.part = "header" /\ m \in Nat /\ m < n + 1
  BY <1>1, <1>2 DEF Write
<1>4. a \in Ahead(q, "header", a)
  BY <1>2 DEF Ahead
<1>5. /\ u \in Seq(Write) /\ t \in Seq(Nat \ {0}) /\ Framed(u) /\ Ordered(u, t)
      /\ Before(u, t, m) /\ Before(u, t, n + 1)
      /\ u # <<>> => u[Len(u)].part = "body"
  <2>1. "header" # "body"
    OBVIOUS
  <2>. QED
    BY <1>1, <1>4, <2>1, Zenon DEF AnswersOk, Whole
<1>6. u # <<>> => Follows(u[Len(u)], x)
  <2>. SUFFICES ASSUME u # <<>> PROVE Follows(u[Len(u)], x)
    OBVIOUS
  <2>1. Len(u) \in DOMAIN u
    BY <1>5
  <2>2. u[Len(u)].notice < x.notice /\ u[Len(u)].part # "header"
    BY <1>3, <1>5, <2>1 DEF Before
  <2>. QED
    BY <1>3, <2>2, Zenon DEF Follows
<1>7. \A i \in DOMAIN u : u[i].notice <= m
  <2>1. \A i \in DOMAIN u : u[i] \in Write
    BY <1>5
  <2>2. \A i \in DOMAIN u : u[i].notice \in Nat
    BY <2>1 DEF Write
  <2>3. \A k \in Nat : k < m => k <= m
    BY <1>3
  <2>. QED
    BY <1>5, <2>2, <2>3, Zenon DEF Before
<1>8. /\ v \in Seq(Write) /\ Framed(v) /\ Ordered(v, t) /\ v # <<>> /\ v[Len(v)] = x
      /\ \A y : Before(u, t, y) /\ m < y => Before(v, t, y)
  <2>1. \A i \in DOMAIN t : t[i] < m
    BY <1>5, Zenon DEF Before
  <2>. QED
    BY <1>1, <1>3, <1>5, <1>6, <1>7, <2>1, AnswerWritten, Zenon
<1>9. ASSUME NEW k \in Ahead(q, "body", a) PROVE Before(v, t, q[k])
  <2>1. k \in DOMAIN q /\ k > a /\ a < k /\ k \in Nat
    BY <1>2 DEF Ahead
  <2>2. k \in Ahead(q, "header", a)
    BY <1>2, <2>1 DEF Ahead
  <2>3. Before(u, t, q[k]) /\ m < q[k]
    BY <1>1, <2>1, <2>2, Zenon DEF AnswersOk
  <2>. QED
    BY <1>8, <2>3, Zenon
<1>10. Whole(v, q, "body", a)
  BY <1>1, <1>8, Zenon DEF Whole
<1>11. Before(v, t, n + 1)
  BY <1>3, <1>5, <1>8, Zenon
<1>. QED
  BY <1>1, <1>5, <1>8, <1>9, <1>10, <1>11, Zenon DEF AnswersOk

\* The body is written.
LEMMA BodyWritten ==
    ASSUME NEW u, NEW t, NEW q, NEW a, NEW n \in Nat, AnswersOk(u, t, q, "body", a, n),
           q \in Seq(1 .. n), a \in DOMAIN q, \A i, j \in DOMAIN q : i < j => q[i] < q[j],
           NEW q2, NEW p2, NEW a2, p2 # "body",
           \A k \in Ahead(q2, p2, a2) : k \in Ahead(q, "body", a) /\ q2[k] = q[k]
    PROVE  AnswersOk(Append(u, [part |-> "body", notice |-> q[a]]), t, q2, p2, a2, n)
<1>1. PICK x, v, m : /\ x = [part |-> "body", notice |-> q[a]]
                     /\ v = Append(u, x) /\ m = q[a]
  BY Zenon
<1>2. q[a] \in 1 .. n /\ a \in Nat
  OBVIOUS
<1>3. x \in Write /\ x.notice = m /\ x.part = "body" /\ m \in Nat /\ m < n + 1
  BY <1>1, <1>2 DEF Write
<1>4. /\ u \in Seq(Write) /\ t \in Seq(Nat \ {0}) /\ Framed(u) /\ Ordered(u, t)
      /\ Before(u, t, n + 1)
      /\ u # <<>> /\ u[Len(u)] = [part |-> "header", notice |-> m]
  BY <1>1, Zenon DEF AnswersOk, Whole
<1>5. Len(u) \in DOMAIN u /\ \A i \in DOMAIN u : i <= Len(u)
  BY <1>4
<1>6. u[Len(u)].part = "header" /\ u[Len(u)].notice = m
  BY <1>4
<1>7. Follows(u[Len(u)], x)
  BY <1>1, <1>6, Zenon DEF Follows
<1>8. \A i \in DOMAIN u : u[i].notice <= m
  BY <1>4, <1>5, <1>6, Zenon DEF Ordered
<1>9. \A i \in DOMAIN t : t[i] < m
  BY <1>4, <1>5, <1>6, Zenon DEF Ordered
<1>10. /\ v \in Seq(Write) /\ Framed(v) /\ Ordered(v, t) /\ v # <<>> /\ v[Len(v)] = x
       /\ \A y : Before(u, t, y) /\ m < y => Before(v, t, y)
  BY <1>1, <1>3, <1>4, <1>7, <1>8, <1>9, AnswerWritten, Zenon
<1>11. ASSUME NEW k \in Ahead(q2, p2, a2) PROVE Before(v, t, q2[k])
  <2>1. k \in Ahead(q, "body", a) /\ q2[k] = q[k]
    OBVIOUS
  <2>2. k \in DOMAIN q /\ a < k
    BY <1>2, <2>1 DEF Ahead
  <2>3. Before(u, t, q[k]) /\ m < q[k]
    BY <1>1, <2>1, <2>2, Zenon DEF AnswersOk
  <2>. QED
    BY <1>10, <2>1, <2>3, Zenon
<1>12. Whole(v, q2, p2, a2)
  BY <1>3, <1>10, Zenon DEF Whole
<1>13. Before(v, t, n + 1)
  BY <1>3, <1>4, <1>10, Zenon
<1>. QED
  BY <1>1, <1>4, <1>10, <1>11, <1>12, <1>13, Zenon DEF AnswersOk

\* A header that was read comes first, its body second.
LEMMA AnswerFrame ==
    ASSUME NEW u, u \in Seq(Write), Framed(u), Len(u) >= 2
    PROVE  /\ u[1].part = "header" /\ u[2] = [part |-> "body", notice |-> u[1].notice]
           /\ u[2].part = "body" /\ u[1].notice \in Nat \ {0}
           /\ Len(u) > 2 => u[3].part = "header" /\ u[1].notice < u[3].notice
<1>1. Len(u) \in Nat /\ u # <<>> /\ 1 \in 1 .. Len(u) - 1 /\ 1 \in 1 .. Len(u) /\ 1 + 1 = 2
  OBVIOUS
<1>2. u[1].part = "header" /\ Follows(u[1], u[2])
  BY <1>1, Zenon DEF Framed
<1>3. u[2] = [part |-> "body", notice |-> u[1].notice]
  BY <1>2, Zenon DEF Follows
<1>4. u[2].part = "body" /\ u[2].notice = u[1].notice
  BY <1>3
<1>5. u[1].notice \in Nat \ {0}
  <2>1. u[1] \in Write
    BY <1>1
  <2>. QED
    BY <2>1 DEF Write
<1>6. ASSUME Len(u) > 2 PROVE u[3].part = "header" /\ u[1].notice < u[3].notice
  <2>1. 2 \in 1 .. Len(u) - 1 /\ 2 + 1 = 3
    BY <1>1, <1>6
  <2>2. Follows(u[2], u[3])
    BY <2>1, Zenon DEF Framed
  <2>3. u[2].part # "header"
    BY <1>4
  <2>. QED
    BY <1>4, <2>2, <2>3, Zenon DEF Follows
<1>. QED
  BY <1>2, <1>3, <1>4, <1>5, <1>6, Zenon

\* The application has read a header and its body.
LEMMA AnswerTaken ==
    ASSUME NEW u, NEW t, NEW q, NEW p, NEW a, NEW n, AnswersOk(u, t, q, p, a, n), Len(u) >= 2
    PROVE  AnswersOk(Without(u, 2), Append(t, u[1].notice), q, p, a, n)
<1>. DEFINE m == u[1].notice
            v == Without(u, 2)
            s == Append(t, m)
            L == Len(u)
            T == Len(t)
<1>1. /\ u \in Seq(Write) /\ t \in Seq(Nat \ {0}) /\ Framed(u) /\ Whole(u, q, p, a)
      /\ Ordered(u, t) /\ Before(u, t, n + 1)
  BY Zenon DEF AnswersOk
<1>2. L \in Nat /\ L >= 2 /\ 2 \in 0 .. L /\ T \in Nat /\ DOMAIN u = 1 .. L /\ DOMAIN t = 1 .. T
  BY <1>1
<1>3. /\ u[1].part = "header" /\ u[2].part = "body" /\ m \in Nat \ {0}
      /\ L > 2 => u[3].part = "header" /\ m < u[3].notice
  BY <1>1, AnswerFrame, Zenon
<1>4. v \in Seq(Write) /\ Len(v) = L - 2 /\ \A i \in 1 .. L - 2 : v[i] = u[2 + i]
  BY <1>1, <1>2, WithoutFacts, Zenon
<1>. HIDE DEF m
<1>5. /\ s \in Seq(Nat \ {0}) /\ Len(s) = T + 1 /\ DOMAIN s = 1 .. T + 1
      /\ \A i \in 1 .. T : s[i] = t[i]
      /\ s[T + 1] = m
  BY <1>1, <1>3
<1>6. DOMAIN v = 1 .. L - 2
  BY <1>4
<1>7. /\ \A i \in 1 .. L - 2 : 2 + i \in 1 .. L /\ 2 + i \in 3 .. L /\ 3 <= 2 + i
      /\ 1 \in 1 .. L /\ \A i \in 3 .. L : i \in 1 .. L /\ 1 <= i
  BY <1>2
<1>8. \A i \in 1 .. T + 1 : i \in 1 .. T \/ i = T + 1
  BY <1>2
<1>. HIDE DEF v, s, L, T
<1>9. Framed(v)
  <2>1. ASSUME v # <<>> PROVE v[1].part = "header"
    <3>1. Len(v) # 0
      BY <1>4, <2>1
    <3>2. L > 2 /\ 1 \in 1 .. L - 2 /\ 2 + 1 = 3
      BY <1>2, <1>4, <3>1
    <3>. QED
      BY <1>3, <1>4, <3>2, Zenon
  <2>2. ASSUME NEW i \in 1 .. Len(v) - 1 PROVE Follows(v[i], v[i + 1])
    <3>1. Len(v) = L - 2
      BY <1>4
    <3>2. i \in 1 .. L - 2 /\ i + 1 \in 1 .. L - 2 /\ 2 + i \in 1 .. L - 1 /\ 2 + (i + 1) = (2 + i) + 1
      BY <1>2, <3>1
    <3>3. Follows(u[2 + i], u[(2 + i) + 1])
      BY <1>1, <3>2, Zenon DEF Framed, L
    <3>4. v[i] = u[2 + i]
      BY <1>4, <3>2, Zenon
    <3>5. v[i + 1] = u[2 + (i + 1)]
      BY <1>4, <3>2, Zenon
    <3>. QED
      BY <3>2, <3>3, <3>4, <3>5, Zenon
  <2>. QED
    BY <2>1, <2>2, Zenon DEF Framed
<1>10. Whole(v, q, p, a)
  <2>1. u # <<>>
    BY <1>2 DEF L
  <2>2. v = <<>> => L = 2
    BY <1>2, <1>4
  <2>3. ASSUME v # <<>> PROVE v[Len(v)] = u[Len(u)]
    <3>1. Len(v) # 0
      BY <1>4, <2>3
    <3>2. L - 2 \in 1 .. L - 2 /\ 2 + (L - 2) = L
      BY <1>2, <1>4, <3>1
    <3>. QED
      BY <1>4, <3>2, Zenon DEF L
  <2>4. CASE p = "body"
    <3>1. u[Len(u)] = [part |-> "header", notice |-> q[a]]
      BY <1>1, <2>4, Zenon DEF Whole
    <3>2. u[Len(u)].part = "header"
      BY <3>1
    <3>3. v # <<>>
      BY <1>3, <2>2, <3>2 DEF L
    <3>. QED
      BY <2>3, <2>4, <3>1, <3>3, Zenon DEF Whole
  <2>5. CASE p # "body"
    BY <1>1, <2>1, <2>3, <2>5, Zenon DEF Whole
  <2>. QED
    BY <2>4, <2>5
<1>11. \A i \in 1 .. T : t[i] < m
  BY <1>1, <1>2, <1>7, Zenon DEF Ordered, m
<1>12. \A j \in 1 .. L - 2 : m < v[j].notice /\ \A i \in 1 .. T : t[i] < v[j].notice
  <2>. SUFFICES ASSUME NEW j \in 1 .. L - 2
                PROVE  m < v[j].notice /\ \A i \in 1 .. T : t[i] < v[j].notice
    BY Zenon
  <2>1. L > 2 /\ 3 \in 1 .. L
    BY <1>2
  <2>2. u[3].notice <= u[2 + j].notice
    BY <1>1, <1>2, <1>7, <2>1, Zenon DEF Ordered
  <2>3. u[3] \in Write /\ u[2 + j] \in Write
    <3>1. \A i \in 1 .. L : u[i] \in Write
      BY <1>1, <1>2
    <3>. QED
      BY <1>7, <2>1, <3>1, Zenon
  <2>4. u[3].notice \in Nat /\ u[2 + j].notice \in Nat
    BY <2>3 DEF Write
  <2>5. m < u[2 + j].notice
    BY <1>3, <2>1, <2>2, <2>4
  <2>6. \A i \in 1 .. T : t[i] < u[2 + j].notice
    BY <1>1, <1>2, <1>7, Zenon DEF Ordered
  <2>. QED
    BY <1>4, <2>5, <2>6, Zenon
<1>13. Ordered(v, s)
  <2>1. ASSUME NEW i \in DOMAIN s, NEW j \in DOMAIN s, i < j PROVE s[i] < s[j]
    <3>1. i \in 1 .. T
      BY <1>2, <1>5, <2>1
    <3>2. CASE j = T + 1
      BY <1>5, <1>11, <3>1, <3>2, Zenon
    <3>3. CASE j \in 1 .. T
      BY <1>1, <1>2, <1>5, <2>1, <3>1, <3>3, Zenon DEF Ordered
    <3>. QED
      BY <1>5, <1>8, <3>2, <3>3, Zenon
  <2>2. ASSUME NEW i \in DOMAIN v, NEW j \in DOMAIN v, i <= j
        PROVE  v[i].notice <= v[j].notice
    <3>1. 2 + i <= 2 + j /\ 2 + i \in DOMAIN u /\ 2 + j \in DOMAIN u
      BY <1>2, <1>6, <2>2
    <3>. QED
      BY <1>1, <1>4, <1>6, <3>1, Zenon DEF Ordered
  <2>3. \A i \in DOMAIN s : \A j \in DOMAIN v : s[i] < v[j].notice
    BY <1>5, <1>6, <1>8, <1>12, Zenon
  <2>. QED
    BY <2>1, <2>2, <2>3, Zenon DEF Ordered
<1>14. ASSUME NEW y, Before(u, t, y) PROVE Before(v, s, y)
  <2>1. m < y
    BY <1>2, <1>7, <1>14, Zenon DEF Before, m
  <2>2. \A i \in DOMAIN s : s[i] < y
    BY <1>2, <1>5, <1>8, <1>14, <2>1, Zenon DEF Before
  <2>3. \A i \in DOMAIN v : v[i].notice < y
    BY <1>2, <1>4, <1>6, <1>7, <1>14, Zenon DEF Before
  <2>. QED
    BY <2>2, <2>3, Zenon DEF Before
<1>15. \A k \in Ahead(q, p, a) : Before(v, s, q[k])
  BY <1>14, Zenon DEF AnswersOk
<1>. QED
  BY <1>1, <1>4, <1>5, <1>9, <1>10, <1>13, <1>14, <1>15, Zenon DEF AnswersOk, v, s, m

\* What is unused, when the application has read a header, and when not.
LEMMA UnusedFacts ==
    ASSUME NEW w \in Nat, NEW a \in Seq(Write)
    PROVE  /\ Unused(0, a) = a
           /\ \A x \in Write : Unused(w, Append(a, x)) = Append(Unused(w, a), x)
           /\ w # 0 => /\ Len(Unused(w, a)) = Len(a) + 1
                       /\ Unused(w, a)[1] = [part |-> "header", notice |-> w]
                       /\ a # <<>> => /\ Unused(w, a)[2] = Head(a)
                                      /\ Without(Unused(w, a), 2) = Tail(a)
<1>1. Unused(0, a) = a
  <2>1. <<>> \o a = a
    OBVIOUS
  <2>. QED
    BY <2>1, Zenon DEF Unused
<1>2. PICK h : h = [part |-> "header", notice |-> w]
  BY Zenon
<1>3. ASSUME w # 0
      PROVE  h \in Write /\ Unused(w, a) = <<h>> \o a
  <2>1. h \in Write
    BY <1>2, <1>3 DEF Write
  <2>. QED
    BY <1>2, <1>3, <2>1, Zenon DEF Unused
<1>4. ASSUME NEW x \in Write
      PROVE  Unused(w, Append(a, x)) = Append(Unused(w, a), x)
  <2>1. CASE w = 0
    <3>1. <<>> \o Append(a, x) = Append(a, x) /\ <<>> \o a = a
      OBVIOUS
    <3>. QED
      BY <2>1, <3>1, Zenon DEF Unused
  <2>2. CASE w # 0
    <3>1. <<h>> \o Append(a, x) = Append(<<h>> \o a, x)
      <4>1. h \in Write
        BY <1>3, <2>2, Zenon
      <4>2. PICK T : T = Write
        BY Zenon
      <4>3. PICK g \in T, b \in Seq(T), y \in T : g = h /\ b = a /\ y = x
        BY <4>1, <4>2, Zenon
      <4>4. <<g>> \o Append(b, y) = Append(<<g>> \o b, y)
        OBVIOUS
      <4>. QED
        BY <4>3, <4>4, Zenon
    <3>. QED
      BY <1>2, <2>2, <3>1, Zenon DEF Unused
  <2>. QED
    BY <2>1, <2>2
<1>5. ASSUME w # 0
      PROVE  /\ Len(Unused(w, a)) = Len(a) + 1
             /\ Unused(w, a)[1] = [part |-> "header", notice |-> w]
             /\ a # <<>> => /\ Unused(w, a)[2] = Head(a)
                            /\ Without(Unused(w, a), 2) = Tail(a)
  <2>0. PICK T : T = Write
    BY Zenon
  <2>1. PICK g \in T, b \in Seq(T) : g = h /\ b = a
    BY <1>3, <1>5, <2>0, Zenon
  <2>2. Len(<<g>> \o b) = Len(b) + 1 /\ (<<g>> \o b)[1] = g
    OBVIOUS
  <2>3. ASSUME b # <<>> PROVE (<<g>> \o b)[2] = Head(b) /\ Without(<<g>> \o b, 2) = Tail(b)
    <3>1. (<<g>> \o b)[2] = Head(b)
      BY <2>3
    <3>2. PICK e : e = <<g>> \o b
      BY Zenon
    <3>3. e \in Seq(T) /\ Len(e) = Len(b) + 1 /\ \A i \in 1 .. Len(b) : e[1 + i] = b[i]
      BY <3>2
    <3>4. Len(b) \in Nat \ {0}
      BY <2>3
    <3>5. 2 \in 0 .. Len(e)
      BY <3>3, <3>4
    <3>6. /\ Without(e, 2) \in Seq(T) /\ Len(Without(e, 2)) = Len(e) - 2
          /\ \A i \in 1 .. Len(e) - 2 : Without(e, 2)[i] = e[2 + i]
      <4>1. e \in Seq(T)
        BY <3>3
      <4>. QED
        BY <3>5, <4>1, WithoutFacts, Zenon
    <3>7. /\ Tail(b) \in Seq(T) /\ Len(Tail(b)) = Len(b) - 1
          /\ \A i \in 1 .. Len(b) - 1 : Tail(b)[i] = b[i + 1]
      BY <2>3, HeadTailProperties, Zenon
    <3>8. Len(e) - 2 = Len(b) - 1
      BY <3>3, <3>4
    <3>9. ASSUME NEW i \in 1 .. Len(b) - 1 PROVE Without(e, 2)[i] = Tail(b)[i]
      <4>1. i + 1 \in 1 .. Len(b) /\ 1 + (i + 1) = 2 + i
        BY <3>4
      <4>2. e[2 + i] = b[i + 1]
        BY <3>3, <4>1, Zenon
      <4>. QED
        BY <3>6, <3>7, <3>8, <4>2, Zenon
    <3>10. Without(e, 2) = Tail(b)
      BY <3>6, <3>7, <3>8, <3>9, SeqEqual, Zenon
    <3>. QED
      BY <3>1, <3>2, <3>10, Zenon
  <2>. QED
    BY <1>2, <1>3, <1>5, <2>1, <2>2, <2>3, Zenon
<1>. QED
  BY <1>1, <1>4, <1>5, Zenon

\* The phases in which the peer is not writing answers.
Elsewhere(p) == p # "header" /\ p # "body"

\* Then every item of the queue is still to be written.
LEMMA AheadElsewhere ==
    ASSUME NEW q, NEW p, NEW a, Elsewhere(p)
    PROVE  Ahead(q, p, a) = DOMAIN q
  BY Zenon DEF Elsewhere, Ahead

\* Steps that leave the answers alone.
LEMMA AnswersStay ==
    ASSUME AnswersInv, UNCHANGED <<notices, queue, at, fd, watch, answers, want, told, cut>>,
           pc' = pc \/ (Elsewhere(pc) /\ Elsewhere(pc')),
           reader' = reader \/ reader'
    PROVE  AnswersInv'
<1>1. QueueInv'
  BY DEF AnswersInv, QueueInv, Elsewhere
<1>2. ASSUME ~cut
      PROVE  AnswersOk(Unused(want, answers), told, queue, pc', at, notices)
  <2>1. AnswersOk(Unused(want, answers), told, queue, pc, at, notices) /\ notices \in Nat
    BY <1>2, Zenon DEF AnswersInv, QueueInv
  <2>2. CASE pc' = pc
    BY <2>1, <2>2, Zenon
  <2>3. CASE Elsewhere(pc) /\ Elsewhere(pc')
    <3>1. Ahead(queue, pc, at) = DOMAIN queue /\ Ahead(queue, pc', at) = DOMAIN queue
      BY <2>3, AheadElsewhere, Zenon
    <3>2. Continues(queue, pc', at, queue, pc, at, notices)
      BY <3>1, Zenon DEF Continues
    <3>3. pc # "body" /\ pc' # "body"
      BY <2>3, Zenon DEF Elsewhere
    <3>4. notices <= notices
      BY <2>1
    <3>. QED
      BY <2>1, <3>2, <3>3, <3>4, AnswersAhead, Zenon
  <2>. QED
    BY <2>2, <2>3
<1>. QED
  BY <1>1, <1>2, Zenon DEF AnswersInv

\* api_write
LEMMA AnswerQueued ==
    ASSUME AnswersInv, Queued, Elsewhere(pc), Elsewhere(pc'),
           UNCHANGED <<answers, reader, want, told, cut>>
    PROVE  AnswersInv'
<1>1. PICK n, q : n = notices /\ q = queue
  BY Zenon
<1>2. /\ n \in Nat /\ q \in Seq(1 .. n) /\ at \in Nat
      /\ \A i, j \in DOMAIN q : i < j => q[i] < q[j]
      /\ watch => fd /\ q # <<>>
      /\ want # 0 => reader
  BY <1>1, Zenon DEF AnswersInv, QueueInv
<1>3. /\ notices' = n + 1 /\ fd' = Reopens /\ watch' = (watch \/ Reopens) /\ at' = at
      /\ queue' = IF Reopens THEN Append(q, n + 1) ELSE q
  BY <1>1, Zenon DEF Queued, Added
<1>4. PICK r : r = queue'
  BY Zenon
<1>5. /\ r \in Seq(1 .. n + 1)
      /\ \A i, j \in DOMAIN r : i < j => r[i] < r[j]
      /\ Reopens => r # <<>>
      /\ \A k \in DOMAIN r : (k \in DOMAIN q /\ r[k] = q[k]) \/ r[k] = n + 1
  <2>1. \A i \in DOMAIN q : q[i] \in 1 .. n /\ q[i] \in 1 .. n + 1 /\ q[i] < n + 1
    BY <1>2
  <2>2. CASE ~Reopens
    <3>1. r = q
      BY <1>3, <1>4, <2>2, Zenon
    <3>2. q \in Seq(1 .. n + 1)
      <4>1. 1 .. n \subseteq 1 .. n + 1
        BY <1>2
      <4>. QED
        BY <1>2, <4>1
    <3>. QED
      BY <1>2, <2>2, <3>1, <3>2, Zenon
  <2>3. CASE Reopens
    <3>1. r = Append(q, n + 1)
      BY <1>3, <1>4, <2>3, Zenon
    <3>2. PICK L \in Nat : L = Len(q)
      BY <1>2
    <3>3. DOMAIN q = 1 .. L
      BY <1>2, <3>2
    <3>4. /\ Len(r) = L + 1 /\ r[L + 1] = n + 1 /\ DOMAIN r = 1 .. L + 1
          /\ \A i \in 1 .. L : r[i] = q[i]
      BY <1>2, <3>1, <3>2
    <3>5. r \in Seq(1 .. n + 1) /\ r # <<>>
      <4>1. q \in Seq(1 .. n + 1) /\ n + 1 \in 1 .. n + 1
        <5>1. 1 .. n \subseteq 1 .. n + 1 /\ n + 1 \in 1 .. n + 1
          BY <1>2
        <5>. QED
          BY <1>2, <5>1
      <4>. QED
        BY <3>1, <4>1, AppendProperties, ZenonT(60)
    <3>6. \A i \in 1 .. L + 1 : i \in 1 .. L \/ i = L + 1
      OBVIOUS
    <3>7. ASSUME NEW i \in DOMAIN r, NEW j \in DOMAIN r, i < j PROVE r[i] < r[j]
      <4>1. i \in 1 .. L
        BY <3>4, <3>7
      <4>2. CASE j \in 1 .. L
        BY <1>2, <3>3, <3>4, <3>7, <4>1, <4>2, Zenon
      <4>3. CASE j = L + 1
        BY <2>1, <3>3, <3>4, <4>1, <4>3, Zenon
      <4>. QED
        BY <3>4, <3>6, <4>2, <4>3, Zenon
    <3>. QED
      BY <3>3, <3>4, <3>5, <3>6, <3>7, Zenon
  <2>. QED
    BY <2>2, <2>3
<1>6. QueueInv'
  <2>1. n + 1 \in Nat
    BY <1>2
  <2>2. watch' => fd' /\ queue' # <<>>
    <3>1. watch => Reopens
      BY <1>2, Zenon DEF Reopens
    <3>. QED
      BY <1>3, <1>4, <1>5, <3>1, Zenon
  <2>3. pc' \notin {"header", "body"}
    BY DEF Elsewhere
  <2>. QED
    BY <1>2, <1>3, <1>4, <1>5, <2>1, <2>2, <2>3, Zenon DEF QueueInv
<1>7. ASSUME ~cut
      PROVE  AnswersOk(Unused(want, answers), told, r, pc', at, n + 1)
  <2>1. AnswersOk(Unused(want, answers), told, q, pc, at, n)
    BY <1>1, <1>7, Zenon DEF AnswersInv
  <2>2. Ahead(q, pc, at) = DOMAIN q /\ Ahead(r, pc', at) = DOMAIN r
    BY AheadElsewhere, Zenon
  <2>3. n <= n + 1 /\ n + 1 \in Nat
    BY <1>2
  <2>4. pc # "body" /\ pc' # "body"
    BY Zenon DEF Elsewhere
  <2>5. Continues(r, pc', at, q, pc, at, n)
    BY <1>5, <2>2, Zenon DEF Continues
  <2>. QED
    BY <1>2, <2>1, <2>3, <2>4, <2>5, AnswersAhead, Zenon
<1>. QED
  BY <1>3, <1>4, <1>6, <1>7, Zenon DEF AnswersInv

\* The application reads a header, or the body of the one it has read.
LEMMA AnswerRead ==
    ASSUME AnswersInv, ReadAnswer
    PROVE  AnswersInv'
<1>1. PICK w, h : w = want /\ h = Head(answers)
  BY Zenon
<1>2. /\ reader /\ answers # <<>> /\ answers' = Tail(answers)
      /\ reader' = reader /\ pc' = pc /\ cut' = cut
      /\ UNCHANGED <<notices, queue, at, fd, watch>>
      /\ w = 0 => /\ want' = IF h.part = "header" THEN h.notice ELSE 0
                  /\ told' = IF h.part = "header" THEN told ELSE Append(told, 0)
      /\ w # 0 => /\ want' = 0
                  /\ told' = Append(told, IF h = [part |-> "body", notice |-> w] THEN w ELSE 0)
  BY <1>1, Zenon DEF ReadAnswer, peerIn, out
<1>3. QueueInv'
  BY <1>2, Zenon DEF AnswersInv, QueueInv
<1>4. ASSUME ~cut
      PROVE  /\ want' \in Nat /\ answers' \in Seq(Write)
             /\ AnswersOk(Unused(want', answers'), told', queue, pc, at, notices)
  <2>1. PICK a, u : a = answers /\ u = Unused(w, a)
    BY Zenon
  <2>2. w \in Nat /\ a \in Seq(Write) /\ AnswersOk(u, told, queue, pc, at, notices)
    BY <1>1, <1>4, <2>1, Zenon DEF AnswersInv
  <2>3. a # <<>> /\ h = Head(a) /\ answers' = Tail(a)
    BY <1>1, <1>2, <2>1, Zenon
  <2>4. h \in Write /\ Tail(a) \in Seq(Write) /\ h = a[1] /\ Len(a) \in Nat \ {0}
    BY <2>2, <2>3
  <2>5. Framed(u) /\ u \in Seq(Write)
    BY <2>2, Zenon DEF AnswersOk
  <2>6. CASE w = 0
    <3>1. u = a
      BY <2>1, <2>2, <2>6, UnusedFacts, Zenon
    <3>2. h.part = "header"
      BY <2>3, <2>4, <2>5, <3>1, Zenon DEF Framed
    <3>3. want' = h.notice /\ told' = told
      BY <1>2, <2>6, <3>2, Zenon
    <3>4. h.notice \in Nat \ {0} /\ h = [part |-> "header", notice |-> h.notice]
      BY <2>4, <3>2 DEF Write
    <3>5. h.notice \in Nat /\ h.notice # 0
      BY <3>4
    <3>6. Unused(h.notice, Tail(a)) = <<h>> \o Tail(a)
      BY <3>4, <3>5, Zenon DEF Unused
    <3>7. <<h>> \o Tail(a) = a
      <4>1. PICK T : T = Write
        BY Zenon
      <4>2. PICK b \in Seq(T) : b = a
        BY <2>2, <4>1, Zenon
      <4>3. b # <<>>
        BY <2>3, <4>2, Zenon
      <4>4. <<Head(b)>> \o Tail(b) = b
        BY <4>3
      <4>. QED
        BY <2>3, <4>2, <4>4, Zenon
    <3>. QED
      BY <2>2, <2>3, <2>4, <3>1, <3>3, <3>5, <3>6, <3>7, Zenon
  <2>7. CASE w # 0
    <3>1. /\ Len(u) = Len(a) + 1 /\ u[1] = [part |-> "header", notice |-> w]
          /\ u[2] = h /\ Without(u, 2) = Tail(a)
      BY <2>1, <2>2, <2>3, <2>7, UnusedFacts, Zenon
    <3>2. Len(u) >= 2 /\ u[1].notice = w
      BY <2>4, <3>1
    <3>3. h = [part |-> "body", notice |-> w]
      BY <2>5, <3>1, <3>2, AnswerFrame, Zenon
    <3>4. want' = 0 /\ told' = Append(told, w)
      BY <1>2, <2>7, <3>3, Zenon
    <3>5. AnswersOk(Without(u, 2), Append(told, u[1].notice), queue, pc, at, notices)
      BY <2>2, <3>2, AnswerTaken, Zenon
    <3>6. Unused(0, Tail(a)) = Tail(a) /\ 0 \in Nat
      <4>1. 0 \in Nat
        OBVIOUS
      <4>. QED
        BY <2>4, <4>1, UnusedFacts, Zenon
    <3>. QED
      BY <2>3, <2>4, <3>1, <3>2, <3>4, <3>5, <3>6, Zenon
  <2>. QED
    BY <2>6, <2>7
<1>. QED
  BY <1>2, <1>3, <1>4, Zenon DEF AnswersInv

\* The application closes the pipe of answers.
LEMMA AnswersClosed ==
    ASSUME AnswersInv, CloseAnswers
    PROVE  AnswersInv'
<1>1. /\ reader' = FALSE /\ want' = 0 /\ cut' = (cut \/ want # 0)
      /\ answers' = IF fd \/ leaked THEN answers ELSE <<>>
      /\ pc' = pc /\ told' = told /\ UNCHANGED <<notices, queue, at, fd, watch>>
  BY Zenon DEF CloseAnswers, peerIn, out
<1>2. QueueInv'
  BY <1>1, Zenon DEF AnswersInv, QueueInv
<1>3. ASSUME ~cut'
      PROVE  /\ want' \in Nat /\ answers' \in Seq(Write)
             /\ AnswersOk(Unused(want', answers'), told, queue, pc, at, notices)
  <2>1. ~cut /\ want = 0
    BY <1>1, <1>3, Zenon
  <2>2. answers \in Seq(Write) /\ AnswersOk(Unused(0, answers), told, queue, pc, at, notices)
    BY <2>1, Zenon DEF AnswersInv
  <2>3. 0 \in Nat /\ <<>> \in Seq(Write)
    OBVIOUS
  <2>4. CASE fd \/ leaked
    BY <1>1, <2>2, <2>3, <2>4, Zenon
  <2>5. CASE ~(fd \/ leaked)
    <3>1. pc # "body"
      BY <2>5 DEF AnswersInv, QueueInv
    <3>2. AnswersOk(<<>>, told, queue, pc, at, notices)
      BY <2>2, <3>1, AnswersLost, Zenon
    <3>3. Unused(0, <<>>) = <<>>
      BY <2>3, UnusedFacts, Zenon
    <3>. QED
      BY <1>1, <2>3, <2>5, <3>2, <3>3, Zenon
  <2>. QED
    BY <2>4, <2>5
<1>. QED
  BY <1>1, <1>2, <1>3, Zenon DEF AnswersInv

\* The peer ends.
LEMMA AnswersEnd ==
    ASSUME AnswersInv, End
    PROVE  AnswersInv'
<1>1. /\ pc' = "ended" /\ queue' = <<>> /\ at' = 0 /\ watch' = FALSE
      /\ answers' = IF reader THEN answers ELSE <<>>
      /\ cut' = (cut \/ (pc = "body" /\ reader))
      /\ notices' = notices /\ reader' = reader /\ want' = want /\ told' = told
  BY Zenon DEF End, appOut
<1>2. DOMAIN <<>> = {} /\ <<>> \in Seq(1 .. notices) /\ 0 \in Nat /\ <<>> \in Seq(Write)
  OBVIOUS
<1>3. "ended" # "body" /\ "ended" # "header" /\ "ended" \notin {"header", "body"}
  OBVIOUS
<1>4. QueueInv'
  BY <1>1, <1>2, <1>3, Zenon DEF AnswersInv, QueueInv
<1>5. ASSUME ~cut'
      PROVE  /\ want \in Nat /\ answers' \in Seq(Write)
             /\ AnswersOk(Unused(want, answers'), told, <<>>, "ended", 0, notices)
  <2>1. PICK u, t, q, p, a, n : /\ u = Unused(want, answers) /\ t = told /\ q = queue /\ p = pc
                                /\ a = at /\ n = notices
    BY Zenon
  <2>2. /\ want \in Nat /\ answers \in Seq(Write) /\ n \in Nat
        /\ AnswersOk(u, t, q, p, a, n)
    BY <1>1, <1>5, <2>1, Zenon DEF AnswersInv, QueueInv
  <2>3. Ahead(<<>>, "ended", 0) = {}
    BY <1>2, Zenon DEF Ahead
  <2>4. n <= n
    BY <2>2
  <2>5. CASE reader
    <3>1. answers' = answers /\ p # "body"
      BY <1>1, <1>5, <2>1, <2>5, Zenon
    <3>2. AnswersOk(u, t, <<>>, "ended", 0, n)
      <4>1. Continues(<<>>, "ended", 0, q, p, a, n)
        BY <2>3, Zenon DEF Continues
      <4>. QED
        BY <1>3, <2>2, <2>4, <3>1, <4>1, AnswersAhead, Zenon
    <3>. QED
      BY <2>1, <2>2, <3>1, <3>2, Zenon
  <2>6. CASE ~reader
    <3>1. answers' = <<>> /\ want = 0
      BY <1>1, <2>6, Zenon DEF AnswersInv, QueueInv
    <3>2. Unused(0, <<>>) = <<>>
      BY <1>2, UnusedFacts, Zenon
    <3>3. AnswersOk(<<>>, t, <<>>, "ended", 0, n)
      <4>1. t \in Seq(Nat \ {0}) /\ Ordered(u, t) /\ Before(u, t, n + 1)
        BY <2>2, Zenon DEF AnswersOk
      <4>2. 1 .. Len(<<>>) - 1 = {}
        OBVIOUS
      <4>. QED
        BY <1>2, <1>3, <2>3, <4>1, <4>2, Zenon DEF AnswersOk, Framed, Whole, Ordered, Before
    <3>. QED
      BY <1>2, <2>1, <3>1, <3>2, <3>3, Zenon
  <2>. QED
    BY <2>5, <2>6
<1>. QED
  BY <1>1, <1>4, <1>5, Zenon DEF AnswersInv

\* The first write of a flush is to come.
LEMMA FlushStarted ==
    ASSUME AnswersInv, FlushStart
    PROVE  AnswersInv'
<1>1. /\ pc = "idle" /\ watch /\ watch' = FALSE /\ pc' = "header" /\ at' = 1
      /\ UNCHANGED <<notices, queue, fd, answers, reader, want, told, cut>>
  BY DEF FlushStart, appOut
<1>2. 1 \in DOMAIN queue /\ 1 \in Nat /\ \A k \in DOMAIN queue : k >= 1
  BY <1>1 DEF AnswersInv, QueueInv
<1>3. QueueInv'
  BY <1>1, <1>2, Zenon DEF AnswersInv, QueueInv
<1>4. ASSUME ~cut
      PROVE  AnswersOk(Unused(want, answers), told, queue, "header", 1, notices)
  <2>1. AnswersOk(Unused(want, answers), told, queue, "idle", at, notices) /\ notices \in Nat
    BY <1>1, <1>4, Zenon DEF AnswersInv, QueueInv
  <2>2. "idle" # "body" /\ "header" # "body" /\ "idle" # "header"
    OBVIOUS
  <2>3. Continues(queue, "header", 1, queue, "idle", at, notices)
    BY <2>2, Zenon DEF Continues, Ahead
  <2>4. notices <= notices
    BY <2>1
  <2>. QED
    BY <2>1, <2>2, <2>3, <2>4, AnswersAhead, Zenon
<1>. QED
  BY <1>1, <1>3, <1>4, Zenon DEF AnswersInv

\* A write of the flush, or one for which there is no room.
LEMMA FlushWritten ==
    ASSUME AnswersInv, FlushWrite
    PROVE  AnswersInv'
<1>1. PICK q, a, n, u, t : /\ q = queue /\ a = at /\ n = notices /\ u = Unused(want, answers)
                           /\ t = told
  BY Zenon
<1>2. /\ n \in Nat /\ q \in Seq(1 .. n) /\ a \in Nat
      /\ \A i, j \in DOMAIN q : i < j => q[i] < q[j]
      /\ want # 0 => reader
  BY <1>1, Zenon DEF AnswersInv, QueueInv
<1>3. /\ pc \in {"header", "body"} /\ reader' = reader /\ want' = want /\ told' = told
      /\ notices' = n /\ fd' = fd /\ watch' = watch
  BY <1>1, Zenon DEF FlushWrite, appOut
<1>4. fd /\ a \in DOMAIN q /\ ~watch
  BY <1>1, <1>3, Zenon DEF AnswersInv, QueueInv
<1>5. ~cut => want \in Nat /\ answers \in Seq(Write) /\ AnswersOk(u, t, q, pc, a, n)
  BY <1>1, Zenon DEF AnswersInv
<1>6. <<>> \in Seq(1 .. n) /\ DOMAIN <<>> = {} /\ 0 \in Nat /\ n <= n
  BY <1>2
<1>7. /\ "idle" \notin {"header", "body"} /\ "idle" # "body" /\ "header" # "body"
      /\ "body" # "header"
  OBVIOUS
<1>8. ASSUME FlushEnd
      PROVE  /\ QueueInv' /\ Ahead(queue', pc', at') = {}
             /\ pc' = "idle" /\ queue' = <<>> /\ at' = 0
  <2>1. pc' = "idle" /\ at' = 0 /\ queue' = <<>>
    BY <1>8, Zenon DEF FlushEnd
  <2>2. Ahead(<<>>, "idle", 0) = {}
    BY <1>6, Zenon DEF Ahead
  <2>. QED
    BY <1>2, <1>3, <1>4, <1>6, <1>7, <2>1, <2>2, Zenon DEF QueueInv
<1>9. q[a] \in Nat \ {0}
  BY <1>2, <1>4
<1>10. CASE Len(answers) < Room
  <2>1. PICK x : x = [part |-> pc, notice |-> q[a]]
    BY Zenon
  <2>2. answers' = Append(answers, x) /\ cut' = cut
    BY <1>1, <1>10, <2>1, Zenon DEF FlushWrite
  <2>3. ~cut => want \in Nat /\ answers' \in Seq(Write) /\ Unused(want, answers') = Append(u, x)
    <3>. SUFFICES ASSUME ~cut
                  PROVE  answers' \in Seq(Write) /\ Unused(want, answers') = Append(u, x)
      BY <1>5, Zenon
    <3>1. x \in Write
      BY <1>3, <1>9, <2>1 DEF Write
    <3>2. want \in Nat /\ answers \in Seq(Write)
      BY <1>5, Zenon
    <3>3. Append(answers, x) \in Seq(Write)
      BY <3>1, <3>2, AppendProperties, Zenon
    <3>. QED
      BY <1>1, <2>2, <3>1, <3>2, <3>3, UnusedFacts, Zenon
  <2>4. CASE pc = "header"
    <3>1. pc' = "body" /\ at' = a /\ queue' = q
      BY <1>1, <1>10, <2>4, Zenon DEF FlushWrite
    <3>2. QueueInv'
      BY <1>2, <1>3, <1>4, <3>1, Zenon DEF QueueInv
    <3>3. ~cut => AnswersOk(Append(u, x), t, q, "body", a, n)
      BY <1>2, <1>4, <1>5, <2>1, <2>4, HeaderWritten, Zenon
    <3>. QED
      BY <1>1, <1>3, <2>2, <2>3, <3>1, <3>2, <3>3, Zenon DEF AnswersInv
  <2>5. CASE pc = "body"
    <3>1. pc # "header"
      BY <2>5
    <3>2. \/ a < Len(q) /\ pc' = "header" /\ at' = a + 1 /\ queue' = q
          \/ FlushEnd
      BY <1>1, <1>10, <3>1, Zenon DEF FlushWrite
    <3>3. pc' # "body" /\ QueueInv'
      <4>1. CASE a < Len(q) /\ pc' = "header" /\ at' = a + 1 /\ queue' = q
        <5>1. a + 1 \in DOMAIN q /\ a + 1 \in Nat
          BY <1>2, <1>4, <4>1
        <5>. QED
          BY <1>2, <1>3, <1>4, <1>7, <4>1, <5>1, Zenon DEF QueueInv
      <4>2. CASE FlushEnd
        BY <1>7, <1>8, <4>2, Zenon
      <4>. QED
        BY <3>2, <4>1, <4>2
    <3>4. \A k \in Ahead(queue', pc', at') : k \in Ahead(q, "body", a) /\ queue'[k] = q[k]
      <4>1. CASE a < Len(q) /\ pc' = "header" /\ at' = a + 1 /\ queue' = q
        <5>1. \A k \in DOMAIN q : k >= a + 1 => k > a
          BY <1>2
        <5>. QED
          BY <1>7, <4>1, <5>1, Zenon DEF Ahead
      <4>2. CASE FlushEnd
        BY <1>8, <4>2, Zenon
      <4>. QED
        BY <3>2, <4>1, <4>2
    <3>5. ~cut => AnswersOk(Append(u, x), t, queue', pc', at', n)
      BY <1>2, <1>4, <1>5, <2>1, <2>5, <3>3, <3>4, BodyWritten, Zenon
    <3>. QED
      BY <1>1, <1>3, <2>2, <2>3, <3>3, <3>5, Zenon DEF AnswersInv
  <2>. QED
    BY <1>3, <2>4, <2>5
<1>11. CASE ~(Len(answers) < Room)
  <2>1. FlushEnd /\ cut' = (cut \/ pc = "body") /\ answers' = answers
    BY <1>11, Zenon DEF FlushWrite
  <2>2. ASSUME ~cut'
        PROVE  AnswersOk(u, t, queue', pc', at', n)
    <3>1. pc # "body" /\ pc' # "body" /\ ~cut
      BY <1>7, <1>8, <2>1, <2>2, Zenon
    <3>2. Continues(queue', pc', at', q, pc, a, n)
      BY <1>8, <2>1, Zenon DEF Continues
    <3>. QED
      BY <1>2, <1>5, <1>6, <3>1, <3>2, AnswersAhead, Zenon
  <2>3. ~cut' => ~cut
    BY <2>1, Zenon
  <2>. QED
    BY <1>1, <1>3, <1>5, <1>8, <2>1, <2>2, <2>3, Zenon DEF AnswersInv
<1>. QED
  BY <1>10, <1>11

\* Before the first answer.
LEMMA InitAnswersInv ==
    ASSUME Init
    PROVE  AnswersInv
<1>1. /\ notices = 0 /\ queue = <<>> /\ at = 0 /\ watch = FALSE /\ pc = "idle"
      /\ want = 0 /\ answers = <<>> /\ told = <<>>
  BY DEF Init
<1>2. /\ 0 \in Nat /\ DOMAIN <<>> = {} /\ <<>> \in Seq(1 .. 0) /\ <<>> \in Seq(Write)
      /\ <<>> \in Seq(Nat \ {0}) /\ 1 .. Len(<<>>) - 1 = {}
      /\ "idle" \notin {"header", "body"} /\ "idle" # "body"
  OBVIOUS
<1>3. QueueInv
  BY <1>1, <1>2, Zenon DEF QueueInv
<1>4. Unused(0, <<>>) = <<>>
  BY <1>2, UnusedFacts, Zenon
<1>5. AnswersOk(<<>>, <<>>, <<>>, "idle", 0, 0)
  BY <1>2, Zenon DEF AnswersOk, Framed, Whole, Ordered, Ahead, Before
<1>. QED
  BY <1>1, <1>2, <1>3, <1>4, <1>5, Zenon DEF AnswersInv

\* Every step of application and peer keeps the answers in order.
LEMMA NextAnswersInv ==
    ASSUME AnswersInv, [Next]_vars
    PROVE  AnswersInv'
<1>1. CASE OpenCommands \/ WriteCommand \/ CloseCommands \/ OpenAnswers
  <2>1. /\ UNCHANGED <<notices, queue, at, fd, watch, answers, want, told, cut>> /\ pc' = pc
        /\ reader' = reader \/ reader'
    BY <1>1, Zenon DEF OpenCommands, WriteCommand, CloseCommands, OpenAnswers, peerIn, out, appOut
  <2>. QED
    BY <2>1, AnswersStay, Zenon
<1>2. CASE ReadAnswer
  BY <1>2, AnswerRead
<1>3. CASE CloseAnswers
  BY <1>3, AnswersClosed
<1>4. CASE FlushStart
  BY <1>4, FlushStarted
<1>5. CASE FlushWrite
  BY <1>5, FlushWritten
<1>6. CASE ReaderGone
  <2>1. /\ UNCHANGED <<notices, queue, at, answers, reader, want, told, cut>> /\ pc' = pc
        /\ watch' = FALSE /\ pc = "idle"
    BY <1>6, Zenon DEF ReaderGone, peerIn, appOut
  <2>2. QueueInv'
    BY <2>1 DEF AnswersInv, QueueInv
  <2>. QED
    BY <2>1, <2>2, Zenon DEF AnswersInv
<1>7. CASE BrokenPipe \/ Crash
  <2>1. End
    BY <1>7, Zenon DEF BrokenPipe, Crash
  <2>. QED
    BY <2>1, AnswersEnd, Zenon
<1>8. CASE Read \/ ReadNothing \/ Reopen \/ Wait \/ Misread \/ Start
  <2>1. /\ UNCHANGED <<notices, queue, at, fd, watch, answers, want, told, cut>>
        /\ reader' = reader
    BY <1>8, Zenon DEF Read, ReadNothing, Reopen, Wait, Misread, Start, out, appOut
  <2>2. Elsewhere(pc) /\ Elsewhere(pc')
    BY <1>8 DEF Read, ReadNothing, Reopen, Wait, Misread, Start, Elsewhere
  <2>. QED
    BY <2>1, <2>2, AnswersStay, Zenon
<1>9. CASE Handle
  <2>1. /\ UNCHANGED <<answers, reader, want, told, cut>> /\ (Queued \/ UNCHANGED out)
    BY <1>9, Zenon DEF Handle, Command, DumpRead, ActRead, TunnelRead, MessageRead, appOut
  <2>2. Elsewhere(pc) /\ Elsewhere(pc')
    BY <1>9 DEF Handle, Elsewhere
  <2>3. CASE Queued
    BY <2>1, <2>2, <2>3, AnswerQueued, Zenon
  <2>4. CASE UNCHANGED out
    <3>1. UNCHANGED <<notices, queue, at, fd, watch>>
      BY <2>4, Zenon DEF out
    <3>. QED
      BY <2>1, <2>2, <3>1, AnswersStay, Zenon
  <2>. QED
    BY <2>1, <2>3, <2>4
<1>10. CASE Notify
  <2>1. /\ UNCHANGED <<answers, reader, want, told, cut>> /\ Queued /\ pc = "idle" /\ pc' = pc
    BY <1>10, Zenon DEF Notify, peerIn, appOut
  <2>2. Elsewhere(pc) /\ Elsewhere(pc')
    BY <2>1 DEF Elsewhere
  <2>. QED
    BY <2>1, <2>2, AnswerQueued, Zenon
<1>11. CASE UNCHANGED vars
  <2>1. /\ UNCHANGED <<notices, queue, at, fd, watch, answers, want, told, cut>> /\ pc' = pc
        /\ reader' = reader
    BY <1>11, Zenon DEF vars
  <2>. QED
    BY <2>1, AnswersStay, Zenon
<1>. QED
  BY <1>1, <1>2, <1>3, <1>4, <1>5, <1>6, <1>7, <1>8, <1>9, <1>10, <1>11, Zenon
     DEF Next, Application, Peer

\* api_ev_write: unless a body was left unwritten, what the application has not read
\* are headers each followed by its body, later than what it has read and earlier
\* than what is queued.
THEOREM AnswersInvariant == Spec => []AnswersInv
<1>1. Init => AnswersInv
  BY InitAnswersInv
<1>2. AnswersInv /\ [Next]_vars => AnswersInv'
  BY NextAnswersInv
<1>. QED
  BY <1>1, <1>2, PTL DEF Spec

\* The application reads whole answers in the order in which api_write was given
\* them, with a pipe of any room and any number of readers and of peers started
\* again.
THEOREM AnswersAreInOrder == Spec => []AnswersInOrder
<1>1. AnswersInv => AnswersInOrder
  <2>. SUFFICES ASSUME AnswersInv, ~cut PROVE AnswersInOrder
    BY Zenon DEF AnswersInOrder
  <2>1. told \in Seq(Nat \ {0}) /\ Ordered(Unused(want, answers), told)
    BY Zenon DEF AnswersInv, AnswersOk
  <2>2. \A i \in DOMAIN told : told[i] # 0
    BY <2>1
  <2>. QED
    BY <2>1, <2>2, Zenon DEF Ordered, AnswersInOrder
<1>. QED
  BY <1>1, AnswersInvariant, PTL

==============================================================================
