---------------------------- MODULE ChainsProofs ----------------------------
(***************************************************************************)
(* Proofs about Chains: what a peer collects of the chains of others, for  *)
(* any number of owners and blocks, any order of arrival, any fork and any *)
(* number of faults.                                                       *)
(***************************************************************************)
EXTENDS Chains, WellFoundedInduction, TLAPS

(***************************************************************************)
(* Blocks.  A block is mined with one transaction.                         *)
(***************************************************************************)
Contents == UNION {Transactions[o] : o \in Owners}

Hashes == Seq(Contents)

\* The transaction and the block that Mine makes of content t on hash h.
Entry(h, t) == [file |-> [content |-> t, hash |-> <<t>>], hash |-> <<t>>,
                prev |-> h, current |-> h \o <<t>>]

Block(h, t) == [prev |-> h, trans |-> <<Entry(h, t)>>, digest |-> h \o <<t>>]

\* transactions_lock calculates the place of the first transaction from prev.
LEMMA PlaceOfOne ==
    ASSUME NEW b
    PROVE  /\ PlaceOf(b, 0) = b.prev
           /\ PlaceOf(b, 1) = HashTrans(b.trans[1], b.prev)
<1> DEFINE F(k, f) == [i \in 0 .. k |-> IF i = 0 THEN b.prev ELSE HashTrans(b.trans[i], f[i - 1])]
           U(k) == CHOOSE f : f = F(k, f)
           W(k) == [i \in 0 .. k |-> IF i = 0 THEN b.prev ELSE HashTrans(b.trans[1], b.prev)]
<1>1. PlaceOf(b, 0) = U(0)[0] /\ PlaceOf(b, 1) = U(1)[1]
  BY Zenon DEF PlaceOf
<1>2. ASSUME NEW k \in {0, 1} PROVE W(k) = F(k, W(k))
  <2>1. ASSUME NEW i \in 0 .. k
        PROVE W(k)[i] = IF i = 0 THEN b.prev ELSE HashTrans(b.trans[i], W(k)[i - 1])
    BY <1>2, <2>1
  <2> QED BY <2>1, Zenon
<1>3. ASSUME NEW k \in {0, 1} PROVE U(k) = F(k, U(k))
  BY <1>2, <1>3, Zenon
<1>4. U(0)[0] = b.prev
  <2>1. 0 \in 0 .. 0 BY SMT
  <2> QED BY <1>3, <2>1, Zenon
<1>5. U(1)[0] = b.prev
  <2>1. 0 \in 0 .. 1 BY SMT
  <2> QED BY <1>3, <2>1, Zenon
<1>6. U(1)[1] = HashTrans(b.trans[1], b.prev)
  <2>1. 1 \in 0 .. 1 /\ 1 # 0 /\ 1 - 1 = 0 BY SMT
  <2>2. U(1) = F(1, U(1)) BY <1>3, Zenon
  <2> HIDE DEF U
  <2>3. U(1)[1] = HashTrans(b.trans[1], U(1)[1 - 1]) BY <2>1, <2>2, Zenon
  <2>4. U(1)[1] = HashTrans(b.trans[1], U(1)[0]) BY <2>1, <2>3, Zenon
  <2> QED BY <2>4, <1>5, Zenon
<1> QED BY <1>1, <1>4, <1>6, Zenon

\* What mining makes of a block: transactions_lock gives the transaction its place.
LEMMA MinedIs ==
    ASSUME NEW h, NEW t
    PROVE  Locked(NewBlock(h, <<NewTransaction(t)>>)) = Block(h, t)
<1> DEFINE b == NewBlock(h, <<NewTransaction(t)>>)
           part(k) == [b.trans[k] EXCEPT !.prev = PlaceOf(b, k - 1), !.current = PlaceOf(b, k)]
<1>1. /\ b.prev = h /\ b.trans = <<NewTransaction(t)>>
      /\ Len(b.trans) = 1 /\ DOMAIN b.trans = 1 .. 1 /\ b.trans[1] = NewTransaction(t)
  BY DEF NewBlock
<1>2. NewTransaction(t) = [file |-> [content |-> t, hash |-> <<t>>], hash |-> <<t>>,
                           prev |-> <<>>, current |-> <<>>]
  BY Zenon DEF NewTransaction, NewFile, FileHash
<1>3. PlaceOf(b, 0) = h /\ PlaceOf(b, 1) = h \o <<t>>
  <2> HIDE DEF b
  <2>1. NewTransaction(t).hash = <<t>>
    BY Zenon DEF NewTransaction, FileHash
  <2>2. b.trans[1].hash = <<t>>
    BY <1>1, <2>1, Zenon
  <2> QED BY <1>1, <2>2, PlaceOfOne, Zenon DEF HashTrans
<1>4. part(1) = Entry(h, t)
  <2>1. PlaceOf(b, 1 - 1) = h
    <3>1. 1 - 1 = 0 BY SMT
    <3> QED BY <1>3, <3>1, Zenon
  <2> HIDE DEF b
  <2>2. part(1) = [NewTransaction(t) EXCEPT !.prev = h, !.current = h \o <<t>>]
    BY <1>1, <1>3, <2>1, Zenon
  <2>3. ASSUME NEW f, NEW n, NEW q, NEW c
        PROVE  [[file |-> f, hash |-> n, prev |-> <<>>, current |-> <<>>] EXCEPT !.prev = q, !.current = c]
                   = [file |-> f, hash |-> n, prev |-> q, current |-> c]
    <3>1. PICK r : r = [file |-> f, hash |-> n, prev |-> <<>>, current |-> <<>>]
      BY Zenon
    <3>2. DOMAIN r = {"file", "hash", "prev", "current"} /\ r.file = f /\ r.hash = n
      BY <3>1, Zenon
    <3>3. PICK x : x = [r EXCEPT !.prev = q, !.current = c]
      OBVIOUS
    <3>4. DOMAIN x = {"file", "hash", "prev", "current"}
      BY <3>2, <3>3, Zenon
    <3>5. x.file = f /\ x.hash = n /\ x.prev = q /\ x.current = c
      BY <3>2, <3>3, Zenon
    <3>6. x = [file |-> x.file, hash |-> x.hash, prev |-> x.prev, current |-> x.current]
      BY <3>3, <3>4, Zenon
    <3> QED BY <3>1, <3>3, <3>5, <3>6, Zenon
  <2> HIDE DEF part
  <2>4. PICK f, n, c : f = [content |-> t, hash |-> <<t>>] /\ n = <<t>> /\ c = h \o <<t>>
    BY Zenon
  <2>5. part(1) = [[file |-> f, hash |-> n, prev |-> <<>>, current |-> <<>>] EXCEPT !.prev = h, !.current = c]
    BY <1>2, <2>2, <2>4, Zenon
  <2>6. part(1) = [file |-> f, hash |-> n, prev |-> h, current |-> c]
    BY <2>3, <2>5, Zenon
  <2> QED BY <2>4, <2>6, Zenon DEF Entry
<1>5. [k \in 1 .. 1 |-> part(k)] = <<Entry(h, t)>>
  <2> HIDE DEF part
  <2>1. [k \in 1 .. 1 |-> part(k)] = <<part(1)>>
    BY SMT
  <2> QED BY <1>4, <2>1, Zenon
<1>6. Locked(b) = [prev |-> h, trans |-> [k \in 1 .. 1 |-> part(k)], digest |-> PlaceOf(b, 1)]
  <2>1. ASSUME NEW ts, NEW us, NEW d
        PROVE  [[prev |-> h, trans |-> ts, digest |-> <<>>] EXCEPT !.trans = us, !.digest = d]
                   = [prev |-> h, trans |-> us, digest |-> d]
    <3>1. PICK r : r = [prev |-> h, trans |-> ts, digest |-> <<>>]
      BY Zenon
    <3>2. DOMAIN r = {"prev", "trans", "digest"} /\ r.prev = h
      BY <3>1, Zenon
    <3>3. PICK x : x = [r EXCEPT !.trans = us, !.digest = d]
      OBVIOUS
    <3>4. DOMAIN x = {"prev", "trans", "digest"}
      BY <3>2, <3>3, Zenon
    <3>5. x.prev = h /\ x.trans = us /\ x.digest = d
      BY <3>2, <3>3, Zenon
    <3>6. x = [prev |-> x.prev, trans |-> x.trans, digest |-> x.digest]
      BY <3>3, <3>4, Zenon
    <3> QED BY <3>1, <3>3, <3>5, <3>6, Zenon
  <2>2. b = [prev |-> h, trans |-> <<NewTransaction(t)>>, digest |-> <<>>]
    BY Zenon DEF NewBlock
  <2> HIDE DEF b
  <2>3. Locked(b) = [b EXCEPT !.trans = [k \in DOMAIN b.trans |-> part(k)], !.digest = PlaceOf(b, Len(b.trans))]
    BY Zenon DEF Locked
  <2> HIDE DEF part
  <2>4. Locked(b) = [b EXCEPT !.trans = [k \in 1 .. 1 |-> part(k)], !.digest = PlaceOf(b, 1)]
    BY <1>1, <2>3, Zenon
  <2> QED BY <2>1, <2>2, <2>4, Zenon
<1> HIDE DEF b, part
<1>7. Locked(b) = Block(h, t)
  BY <1>3, <1>5, <1>6, Zenon DEF Block
<1> QED BY <1>7, Zenon DEF b

\* The JSON of a transaction and of a block, read again, is what was written.
LEMMA LoadedIs ==
    ASSUME NEW h, NEW t
    PROVE  LoadBlock(BlockObject(Block(h, t))) = Block(h, t)
<1> DEFINE e == Entry(h, t)
           o == TransactionObject(e)
<1>1. LoadTransaction(o) = e
  BY Zenon DEF Entry, TransactionObject, FileObject, LoadTransaction, LoadFile
<1> HIDE DEF e, o
<1>2. BlockObject(Block(h, t)) = [hash |-> [prev |-> h, transactions |-> h \o <<t>>],
                                  transactions |-> [k \in DOMAIN <<e>> |-> TransactionObject(<<e>>[k])]]
  BY Zenon DEF BlockObject, Block, e
<1>3. [k \in DOMAIN <<e>> |-> TransactionObject(<<e>>[k])] = <<o>>
  <2>1. DOMAIN <<e>> = 1 .. 1 /\ <<e>>[1] = e
    BY SMT
  <2> DEFINE f(k) == TransactionObject(<<e>>[k])
  <2>2. f(1) = o
    BY <2>1, Zenon DEF o
  <2> HIDE DEF f
  <2>3. [k \in 1 .. 1 |-> f(k)] = <<f(1)>>
    BY SMT
  <2>4. [k \in DOMAIN <<e>> |-> f(k)] = <<o>>
    BY <2>1, <2>2, <2>3, Zenon
  <2> QED BY <2>4, Zenon DEF f
<1>4. WithTransactions(<<>>, <<o>>) = <<e>>
  <2>1. DOMAIN <<o>> = 1 .. 1 /\ <<o>>[1] = o
    BY SMT
  <2> DEFINE f(k) == LoadTransaction(<<o>>[k])
  <2>2. f(1) = e
    BY <1>1, <2>1, Zenon
  <2> HIDE DEF f
  <2>3. <<>> \o [k \in 1 .. 1 |-> f(k)] = <<f(1)>>
    BY SMT
  <2>4. <<>> \o [k \in DOMAIN <<o>> |-> f(k)] = <<e>>
    BY <2>1, <2>2, <2>3, Zenon
  <2> QED BY <2>4, Zenon DEF f, WithTransactions
<1>5. LoadBlock(BlockObject(Block(h, t))) = [prev |-> h, digest |-> h \o <<t>>, trans |-> <<e>>]
  <2>1. PICK x : x = BlockObject(Block(h, t))
    OBVIOUS
  <2>2. x = [hash |-> [prev |-> h, transactions |-> h \o <<t>>], transactions |-> <<o>>]
    BY <1>2, <1>3, <2>1, Zenon
  <2>3. x.hash.prev = h /\ x.hash.transactions = h \o <<t>> /\ x.transactions = <<o>>
    BY <2>2, Zenon
  <2> QED BY <1>4, <2>1, <2>3, Zenon DEF LoadBlock
<1> QED BY <1>5, Zenon DEF Block, e

(***************************************************************************)
(* Chains.                                                                 *)
(***************************************************************************)
MinedBlocks == {Block(h, t) : h \in Hashes, t \in Contents}

\* Every block is on the hash of the block before it.
Roots ==
    {r \in Seq(MinedBlocks) :
        \A k \in DOMAIN r : r[k].prev = IF k = 1 THEN <<>> ELSE Hash(r[k - 1])}

\* A mined block validates and comes through its JSON unchanged, and two blocks with
\* the hashes that block.compare looks at are the same block.
LEMMA BlockFacts ==
    ASSUME NEW b \in MinedBlocks
    PROVE  /\ ValidBlock(b) /\ Len(b.trans) = 1 /\ LoadBlock(BlockObject(b)) = b
           /\ Hash(b) \in Hashes
           /\ \A c \in MinedBlocks : Same(b, c) => b = c
<1>1. PICK h \in Hashes, t \in Contents : b = Block(h, t)
  BY SMT DEF MinedBlocks
<1>2. /\ b.prev = h /\ b.digest = h \o <<t>> /\ b.trans = <<Entry(h, t)>>
  BY <1>1, Zenon DEF Block
<1>3. Len(b.trans) = 1 /\ DOMAIN b.trans = {1} /\ b.trans[1] = Entry(h, t)
  <2>1. \A e : Len(<<e>>) = 1 /\ DOMAIN <<e>> = {1} /\ <<e>>[1] = e
    BY SMT
  <2> QED BY <1>2, <2>1, Zenon
<1>4. /\ ValidTransaction(Entry(h, t))
      /\ Entry(h, t).prev = h /\ Entry(h, t).current = HashTrans(Entry(h, t), h)
  BY Zenon DEF Entry, ValidTransaction, ValidFile, FileHash, HashTrans
<1>5. ValidBlock(b)
  <2>1. 1 <= 1 BY SMT
  <2> QED BY <1>2, <1>3, <1>4, <2>1, Zenon DEF ValidBlock
<1>6. Hash(b) \in Hashes
  BY <1>2 DEF Hash, Hashes
<1>7. ASSUME NEW c \in MinedBlocks, Same(b, c)
      PROVE  b = c
  <2>1. PICK g \in Hashes, u \in Contents : c = Block(g, u)
    BY SMT DEF MinedBlocks
  <2>2. c.prev = g /\ c.digest = g \o <<u>>
    BY <2>1, Zenon DEF Block
  <2>3. g = h /\ h \o <<t>> = h \o <<u>>
    BY <1>2, <1>7, <2>2, Zenon DEF Same
  <2>4. (h \o <<t>>)[Len(h) + 1] = t /\ (h \o <<u>>)[Len(h) + 1] = u
    BY DEF Hashes
  <2> QED BY <1>1, <2>1, <2>3, <2>4, Zenon
<1>8. LoadBlock(BlockObject(b)) = b
  BY <1>1, LoadedIs, Zenon
<1> QED BY <1>3, <1>5, <1>6, <1>7, <1>8, Zenon

\* The sequences of blocks that the JSON of a sequence of mined blocks is loaded to.
LEMMA ObjectsFacts ==
    ASSUME NEW s \in Seq(MinedBlocks), NEW n \in 0 .. Len(s), NEW r \in Seq(MinedBlocks)
    PROVE  WithObjects(r, [k \in 1 .. Len(s) - n |-> BlockObject(s[n + k])])
               = r \o SubSeq(s, n + 1, Len(s))
<1> DEFINE os == [k \in 1 .. Len(s) - n |-> BlockObject(s[n + k])]
           bs == [k \in 1 .. Len(s) - n |-> s[n + k]]
<1>1. \A k \in 1 .. Len(s) - n : s[n + k] \in MinedBlocks
  BY SMT
<1>2. \A k \in 1 .. Len(s) - n : LoadBlock(BlockObject(s[n + k])) = s[n + k]
  BY <1>1, BlockFacts, Zenon
<1>3. DOMAIN os = 1 .. Len(s) - n /\ \A k \in 1 .. Len(s) - n : os[k] = BlockObject(s[n + k])
  BY Zenon
<1>4. [k \in DOMAIN os |-> LoadBlock(os[k])] = bs
  BY <1>2, <1>3, Zenon
<1>5. bs = SubSeq(s, n + 1, Len(s))
  BY SMT
<1> HIDE DEF os, bs
<1>6. WithObjects(r, os) = r \o bs
  BY <1>4, Zenon DEF WithObjects
<1> QED BY <1>5, <1>6, Zenon DEF os

\* A chain validates, and its block file is loaded to the same chain.
LEMMA RootFacts ==
    ASSUME NEW r \in Roots
    PROVE  Valid(r) /\ LoadRoot(RootObject(r)) = r
<1>1. r \in Seq(MinedBlocks) /\ DOMAIN r = 1 .. Len(r) /\ Len(r) \in Nat
  BY DEF Roots
<1>2. \A k \in DOMAIN r : r[k] \in MinedBlocks
  BY <1>1, SMT
<1>3. Valid(r)
  <2>1. \A k \in DOMAIN r : r[k].prev = IF k = 1 THEN <<>> ELSE Hash(r[k - 1])
    BY Zenon DEF Roots
  <2> QED BY <1>2, <2>1, BlockFacts, Zenon DEF Valid
<1>4. LoadRoot(RootObject(r)) = r
  <2> DEFINE os == [k \in DOMAIN r |-> BlockObject(r[k])]
  <2>1. RootObject(r).blocks = os
    BY Zenon DEF RootObject
  <2>2. \A k \in DOMAIN r : os[k] = BlockObject(r[k])
    OBVIOUS
  <2>3. DOMAIN os = DOMAIN r
    OBVIOUS
  <2> HIDE DEF os
  <2>4. \A k \in DOMAIN r : LoadBlock(os[k]) = r[k]
    BY <1>2, <2>2, BlockFacts, Zenon
  <2>5. [k \in DOMAIN os |-> LoadBlock(os[k])] = [k \in DOMAIN r |-> r[k]]
    BY <2>3, <2>4, Zenon
  <2>6. [k \in DOMAIN r |-> r[k]] = r
    BY <1>1
  <2>7. <<>> \o r = r
    BY <1>1
  <2> QED BY <2>1, <2>5, <2>6, <2>7, Zenon DEF LoadRoot, WithObjects
<1> QED BY <1>3, <1>4, Zenon

\* merge's loop, on a chain that starts with the other one, completes it.
LEMMA AppendedIs ==
    ASSUME NEW to \in Roots, NEW from \in Roots, IsPrefixOf(to, from)
    PROVE  Appended(to, from, Len(to)) = from
<1>1. to \in Seq(MinedBlocks) /\ from \in Seq(MinedBlocks)
  BY DEF Roots
<1>2. Len(to) \in 0 .. Len(from) /\ \A k \in 1 .. Len(to) : to[k] = from[k]
  BY <1>1 DEF IsPrefixOf
<1>3. Appended(to, from, Len(to)) = to \o SubSeq(from, Len(to) + 1, Len(from))
  BY <1>1, <1>2, ObjectsFacts, Zenon DEF Appended
<1>4. to \o SubSeq(from, Len(to) + 1, Len(from)) = from
  BY <1>1, <1>2, SMT
<1> QED BY <1>3, <1>4, Zenon

\* A set of numbers has a least one.
LEMMA LeastExists ==
    ASSUME NEW S \in SUBSET Nat, S # {}
    PROVE  \E n \in S : \A j \in S : n <= j
<1>1. IsWellFoundedOn(OpToRel(<, Nat), Nat)
  BY NatLessThanWellFounded, Zenon
<1>2. PICK n \in S : \A j \in S : ~(<<j, n>> \in OpToRel(<, Nat))
  BY <1>1, WFMin, Zenon
<1>3. ASSUME NEW j \in S, j < n PROVE FALSE
  <2>1. <<j, n>> \in OpToRel(<, Nat)
    BY <1>3 DEF OpToRel
  <2> QED BY <1>2, <2>1, Zenon
<1> QED BY <1>3

\* Two chains in which root.compare finds no block that differs start alike.
LEMMA NoDifference ==
    ASSUME NEW l \in Roots, NEW r \in Roots,
           ~ \E k \in 1 .. Shorter(l, r) : Differs(l, r, k)
    PROVE  \A k \in 1 .. Shorter(l, r) : l[k] = r[k]
<1> DEFINE n == Shorter(l, r)
           S == {k \in 1 .. n : ~Same(l[k], r[k])}
<1>1. l \in Seq(MinedBlocks) /\ r \in Seq(MinedBlocks)
  BY DEF Roots
<1>2. n \in Nat /\ n <= Len(l) /\ n <= Len(r)
  BY <1>1 DEF Shorter
<1> HIDE DEF n
<1>3. S = {}
  <2> SUFFICES ASSUME S # {} PROVE FALSE
    OBVIOUS
  <2>1. S \in SUBSET Nat
    BY <1>2
  <2> HIDE DEF S
  <2>2. PICK k \in S : \A j \in S : k <= j
    BY <2>1, LeastExists
  <2>3. k \in 1 .. n /\ ~Same(l[k], r[k])
    BY <2>2, Zenon DEF S
  <2>4. \A j \in 1 .. k - 1 : Same(l[j], r[j])
    <3> SUFFICES ASSUME NEW j \in 1 .. k - 1 PROVE Same(l[j], r[j])
      OBVIOUS
    <3>1. j \in 1 .. n /\ ~(k <= j)
      BY <1>2, <2>3
    <3> QED BY <2>2, <3>1, Zenon DEF S
  <2>5. Differs(l, r, k)
    BY <2>3, <2>4, Zenon DEF Differs
  <2> QED BY <2>3, <2>5, Zenon DEF n
<1>4. \A k \in 1 .. n : l[k] \in MinedBlocks /\ r[k] \in MinedBlocks /\ Same(l[k], r[k])
  BY <1>1, <1>2, <1>3
<1>5. \A k \in 1 .. n : l[k] = r[k]
  BY <1>4, BlockFacts, Zenon
<1> QED BY <1>5, Zenon DEF n

\* What merge makes of the chain at hand and of the copy.
DstAfter(dst, src, can, diff) == IF can = "src to dst" THEN Appended(dst, src, diff.idx) ELSE dst

SrcAfter(dst, src, can, diff) == IF can = "dst to src" THEN Appended(src, dst, diff.idx) ELSE src

\* root.merge, step by step.
LEMMA MergedIs ==
    ASSUME NEW dst, NEW src, NEW df, NEW cn,
           df = Compare(dst, src), cn = CanMerge(dst, src, df)
    PROVE  Merged(dst, src) =
               Outcome(df, cn, DstAfter(dst, src, cn, df), SrcAfter(dst, src, cn, df))
<1> DEFINE D(can, diff) == IF can = "src to dst" THEN Appended(dst, src, diff.idx) ELSE dst
           S(can, diff) == IF can = "dst to src" THEN Appended(src, dst, diff.idx) ELSE src
           X == Outcome(df, cn, D(cn, df), S(cn, df))
           B(diff, can) == {Outcome(diff, can, d, s) : d \in {D(can, diff)}, s \in {S(can, diff)}}
           F == {B(diff, can) : diff \in {Compare(dst, src)},
                                can \in {CanMerge(dst, src, Compare(dst, src))}}
           A == UNION F
<1>1. Merged(dst, src) = CHOOSE m \in A : TRUE
  BY DEF Merged
<1> HIDE DEF D, S
<1>2. X \in B(df, cn) /\ \A m \in B(df, cn) : m = X
  OBVIOUS
<1> HIDE DEF B
<1>3. B(df, cn) \in F /\ \A b \in F : b = B(df, cn)
  OBVIOUS
<1> HIDE DEF F, X
<1>4. X \in A /\ \A m \in A : m = X
  BY <1>2, <1>3
<1> HIDE DEF A
<1>5. Merged(dst, src) = X
  BY <1>1, <1>4, Zenon
<1>6. D(cn, df) = DstAfter(dst, src, cn, df) /\ S(cn, df) = SrcAfter(dst, src, cn, df)
  BY Zenon DEF D, S, DstAfter, SrcAfter
<1> QED BY <1>5, <1>6, Zenon DEF X

\* A chain is equal to itself.
LEMMA EqualToItself ==
    ASSUME NEW r \in Roots
    PROVE  Compare(r, r).equal = TRUE
<1>1. ~ \E k \in 1 .. Shorter(r, r) : Differs(r, r, k)
  BY Zenon DEF Differs, Same
<1>2. Compare(r, r) = [ok |-> TRUE, equal |-> Len(r) = Len(r), idx |-> Shorter(r, r),
                       winner |-> IF Len(r) > Len(r) THEN "dst" ELSE "src"]
  BY <1>1, RootFacts, Zenon DEF Compare, CompareRoots
<1>3. PICK w : w = IF Len(r) > Len(r) THEN "dst" ELSE "src"
  OBVIOUS
<1>4. Compare(r, r) = [ok |-> TRUE, equal |-> TRUE, idx |-> Shorter(r, r), winner |-> w]
  BY <1>2, <1>3, Zenon
<1>5. \A i, v : [ok |-> TRUE, equal |-> TRUE, idx |-> i, winner |-> v].equal = TRUE
  BY Zenon
<1> QED BY <1>4, <1>5, Zenon

\* Two roots that differ somewhere are not equal to root.compare.
LEMMA NotEqual ==
    ASSUME NEW l, NEW r, \E k \in 1 .. Shorter(l, r) : Differs(l, r, k)
    PROVE  Compare(l, r).equal = FALSE
<1> DEFINE k == CHOOSE k \in 1 .. Shorter(l, r) : Differs(l, r, k)
<1>1. \/ Compare(l, r) = Failed
      \/ Compare(l, r) = [ok |-> TRUE, equal |-> FALSE, idx |-> k, winner |-> WinnerBlock(l[k], r[k])]
  BY Zenon DEF Compare, CompareRoots
<1> HIDE DEF k
<1>2. Failed.equal = FALSE
  BY Zenon DEF Failed
<1>3. \A w : [ok |-> TRUE, equal |-> FALSE, idx |-> k, winner |-> w].equal = FALSE
  BY Zenon
<1> QED BY <1>1, <1>2, <1>3, Zenon

\* What root.compare reports of two chains that differ: the blocks that differ are on
\* the same one and have a transaction each, so that the chain at hand wins.
LEMMA ComparedFork ==
    ASSUME NEW l \in Roots, NEW r \in Roots,
           \E k \in 1 .. Shorter(l, r) : Differs(l, r, k)
    PROVE  \E k \in 1 .. Shorter(l, r) :
              /\ Differs(l, r, k)
              /\ Compare(l, r) = [ok |-> TRUE, equal |-> FALSE, idx |-> k, winner |-> "dst"]
<1> DEFINE k == CHOOSE k \in 1 .. Shorter(l, r) : Differs(l, r, k)
<1>1. k \in 1 .. Shorter(l, r) /\ Differs(l, r, k)
  BY Zenon
<1>2. Compare(l, r) = IF l[k].prev # r[k].prev THEN Failed
                      ELSE [ok |-> TRUE, equal |-> FALSE, idx |-> k,
                            winner |-> WinnerBlock(l[k], r[k])]
  BY RootFacts, Zenon DEF Compare, CompareRoots
<1> HIDE DEF k
<1>3. l \in Seq(MinedBlocks) /\ r \in Seq(MinedBlocks)
  BY DEF Roots
<1>4. k \in DOMAIN l /\ k \in DOMAIN r /\ k \in Nat /\ (k # 1 => k - 1 \in 1 .. k - 1)
  BY <1>1, <1>3 DEF Shorter
<1>5. l[k].prev = r[k].prev
  <2>1. /\ l[k].prev = IF k = 1 THEN <<>> ELSE Hash(l[k - 1])
        /\ r[k].prev = IF k = 1 THEN <<>> ELSE Hash(r[k - 1])
    BY <1>4, Zenon DEF Roots
  <2>2. k # 1 => Hash(l[k - 1]) = Hash(r[k - 1])
    BY <1>1, <1>4, Zenon DEF Differs, Same
  <2> QED BY <2>1, <2>2, Zenon
<1>6. WinnerBlock(l[k], r[k]) = "dst"
  <2>1. l[k] \in MinedBlocks /\ r[k] \in MinedBlocks
    BY <1>3, <1>4
  <2>2. Len(l[k].trans) = 1 /\ Len(r[k].trans) = 1
    BY <2>1, BlockFacts, Zenon
  <2>3. 1 >= 1 BY SMT
  <2> QED BY <2>2, <2>3, Zenon DEF WinnerBlock
<1> QED BY <1>1, <1>2, <1>5, <1>6, Zenon

\* What root.compare reports of two chains one of which starts with the other.
LEMMA ComparedAlike ==
    ASSUME NEW l \in Roots, NEW r \in Roots,
           ~ \E k \in 1 .. Shorter(l, r) : Differs(l, r, k)
    PROVE  /\ Compare(l, r).ok = TRUE /\ Compare(l, r).equal = (Len(l) = Len(r))
           /\ Compare(l, r).idx = Shorter(l, r)
           /\ Compare(l, r).winner = IF Len(l) > Len(r) THEN "dst" ELSE "src"
<1>1. PICK c, n, e, w : /\ c = Compare(l, r) /\ n = Shorter(l, r) /\ e = (Len(l) = Len(r))
                       /\ w = IF Len(l) > Len(r) THEN "dst" ELSE "src"
  OBVIOUS
<1>2. c = [ok |-> TRUE, equal |-> e, idx |-> n, winner |-> w]
  BY <1>1, RootFacts, Zenon DEF Compare, CompareRoots
<1>3. c.ok = TRUE /\ c.equal = e
  BY <1>2, Zenon
<1>4. c.idx = n /\ c.winner = w
  BY <1>2, Zenon
<1> QED BY <1>1, <1>3, <1>4, Zenon

\* A fork: the chain at hand is left alone and nothing is merged.
LEMMA MergedFork ==
    ASSUME NEW dst \in Roots, NEW src \in Roots,
           \E k \in 1 .. Shorter(dst, src) : Differs(dst, src, k)
    PROVE  Merged(dst, src).root = dst /\ Merged(dst, src).result # "merged"
<1>1. PICK k \in 1 .. Shorter(dst, src) :
         /\ Differs(dst, src, k)
         /\ Compare(dst, src) = [ok |-> TRUE, equal |-> FALSE, idx |-> k, winner |-> "dst"]
  BY ComparedFork
<1>2. PICK df : df = Compare(dst, src)
  OBVIOUS
<1>3. df.ok = TRUE /\ df.equal = FALSE /\ df.idx = k /\ df.winner = "dst"
  <2>1. \A i : LET c == [ok |-> TRUE, equal |-> FALSE, idx |-> i, winner |-> "dst"]
               IN  c.ok = TRUE /\ c.equal = FALSE /\ c.idx = i /\ c.winner = "dst"
    BY Zenon
  <2> QED BY <1>1, <1>2, <2>1, Zenon
<1>4. PICK cn : cn = CanMerge(dst, src, df)
  OBVIOUS
<1>5. cn = IF k = Len(src) THEN "dst to src" ELSE "impossible"
  <2>1. "dst" # "src" OBVIOUS
  <2> QED BY <1>3, <1>4, <2>1, Zenon DEF CanMerge
<1>6. PICK s : s = SrcAfter(dst, src, cn, df)
  OBVIOUS
<1>7. Merged(dst, src) = Outcome(df, cn, dst, s)
  <2>1. cn # "src to dst"
    BY <1>5, Zenon
  <2>2. DstAfter(dst, src, cn, df) = dst
    BY <2>1, Zenon DEF DstAfter
  <2>3. Merged(dst, src) = Outcome(df, cn, DstAfter(dst, src, cn, df), SrcAfter(dst, src, cn, df))
    BY <1>2, <1>4, MergedIs, Zenon
  <2> QED BY <1>6, <2>2, <2>3, Zenon
<1>8. k = Len(src) => Compare(dst, s).equal = FALSE
  <2> SUFFICES ASSUME k = Len(src) PROVE Compare(dst, s).equal = FALSE
    BY Zenon
  <2>1. dst \in Seq(MinedBlocks) /\ src \in Seq(MinedBlocks)
    BY DEF Roots
  <2>2. k \in 0 .. Len(dst) /\ k \in 1 .. Len(src)
    BY <1>1, <2>1 DEF Shorter
  <2>3. s = src \o SubSeq(dst, k + 1, Len(dst))
    <3>1. s = Appended(src, dst, k)
      BY <1>3, <1>5, <1>6, Zenon DEF SrcAfter
    <3> QED BY <2>1, <2>2, <3>1, ObjectsFacts, Zenon DEF Appended
  <2>4. Len(s) >= k /\ Len(s) \in Nat /\ \A j \in 1 .. k : s[j] = src[j]
    BY <2>1, <2>2, <2>3
  <2>5. k \in 1 .. Shorter(dst, s)
    BY <2>1, <2>2, <2>4 DEF Shorter
  <2>6. k \in 1 .. k /\ \A j \in 1 .. k - 1 : j \in 1 .. k
    BY <2>2
  <2>7. Differs(dst, s, k)
    BY <1>1, <2>4, <2>6, Zenon DEF Differs
  <2> QED BY <2>5, <2>7, NotEqual, Zenon
<1>9. /\ Outcome(df, cn, dst, s).root = dst
      /\ Outcome(df, cn, dst, s).result \in {"unmerged", "error"}
  <2>1. CASE cn = "impossible"
    BY <1>3, <2>1, Zenon DEF Outcome
  <2>2. CASE cn # "impossible"
    BY <1>3, <1>5, <1>8, <2>2, Zenon DEF Outcome
  <2> QED BY <2>1, <2>2, Zenon
<1>10. "unmerged" # "merged" /\ "error" # "merged"
  OBVIOUS
<1> QED BY <1>7, <1>9, <1>10, Zenon

\* One chain starts with the other: the longer one is kept.
LEMMA MergedAlike ==
    ASSUME NEW dst \in Roots, NEW src \in Roots,
           ~ \E k \in 1 .. Shorter(dst, src) : Differs(dst, src, k)
    PROVE  /\ Merged(dst, src).root \in {dst, src}
           /\ IsPrefixOf(dst, Merged(dst, src).root)
           /\ Merged(dst, src).result = "merged"
<1>1. PICK df : df = Compare(dst, src)
  OBVIOUS
<1>2. PICK cn : cn = CanMerge(dst, src, df)
  OBVIOUS
<1>3. /\ df.ok = TRUE /\ df.equal = (Len(dst) = Len(src))
      /\ df.idx = Shorter(dst, src)
      /\ df.winner = IF Len(dst) > Len(src) THEN "dst" ELSE "src"
  BY <1>1, ComparedAlike, Zenon
<1>4. dst \in Seq(MinedBlocks) /\ src \in Seq(MinedBlocks)
  BY DEF Roots
<1>5. \A k \in 1 .. Shorter(dst, src) : dst[k] = src[k]
  BY NoDifference, Zenon
<1>6. "dst" # "src" /\ "impossible" \notin {"not needed", "src to dst", "dst to src"}
  OBVIOUS
<1>7. ASSUME NEW d \in Roots, cn # "impossible"
      PROVE  Outcome(df, cn, d, d).root = d /\ Outcome(df, cn, d, d).result = "merged"
  BY <1>3, <1>7, EqualToItself, Zenon DEF Outcome
<1>8. PICK d, s : d = DstAfter(dst, src, cn, df) /\ s = SrcAfter(dst, src, cn, df)
  OBVIOUS
<1>9. Merged(dst, src) = Outcome(df, cn, d, s)
  BY <1>1, <1>2, <1>8, MergedIs, Zenon
<1>10. cn # "impossible" /\ d \in {dst, src} /\ s = d /\ IsPrefixOf(dst, d)
  <2>1. CASE Len(dst) = Len(src)
    <3>1. cn = "not needed"
      BY <1>2, <1>3, <2>1, Zenon DEF CanMerge
    <3>2. dst = src
      BY <1>4, <1>5, <2>1 DEF Shorter
    <3>3. IsPrefixOf(dst, dst)
      BY <1>4 DEF IsPrefixOf
    <3>4. d = dst /\ s = src
      BY <1>8, <3>1, Zenon DEF DstAfter, SrcAfter
    <3> QED BY <1>6, <3>1, <3>2, <3>3, <3>4, Zenon
  <2>2. CASE Len(dst) > Len(src)
    <3>1. Shorter(dst, src) = Len(src) /\ Len(dst) # Len(src)
      BY <1>4, <2>2 DEF Shorter
    <3>2. cn = "dst to src"
      BY <1>2, <1>3, <1>6, <2>2, <3>1, Zenon DEF CanMerge
    <3>3. IsPrefixOf(src, dst)
      BY <1>4, <1>5, <2>2, <3>1 DEF IsPrefixOf
    <3>4. d = dst /\ s = Appended(src, dst, Len(src))
      BY <1>3, <1>8, <3>1, <3>2, Zenon DEF DstAfter, SrcAfter
    <3>5. s = dst
      BY <3>3, <3>4, AppendedIs, Zenon
    <3>6. IsPrefixOf(dst, dst)
      BY <1>4 DEF IsPrefixOf
    <3> QED BY <1>6, <3>2, <3>4, <3>5, <3>6, Zenon
  <2>3. CASE Len(dst) < Len(src)
    <3>1. Shorter(dst, src) = Len(dst) /\ Len(dst) # Len(src) /\ ~(Len(dst) > Len(src))
      BY <1>4, <2>3 DEF Shorter
    <3>2. cn = "src to dst"
      BY <1>2, <1>3, <1>6, <3>1, Zenon DEF CanMerge
    <3>3. IsPrefixOf(dst, src)
      BY <1>4, <1>5, <2>3, <3>1 DEF IsPrefixOf
    <3>4. s = src /\ d = Appended(dst, src, Len(dst))
      BY <1>3, <1>8, <3>1, <3>2, Zenon DEF DstAfter, SrcAfter
    <3>5. d = src
      BY <3>3, <3>4, AppendedIs, Zenon
    <3> QED BY <1>6, <3>2, <3>3, <3>4, <3>5, Zenon
  <2> QED BY <1>4, <2>1, <2>2, <2>3
<1>11. d \in Roots
  BY <1>10, Zenon
<1> QED BY <1>7, <1>9, <1>10, <1>11, Zenon

\* dfile's merge: the chain at hand or, if it starts with that, the copy.
LEMMA MergeFacts ==
    ASSUME NEW dst \in Roots, NEW src \in Roots
    PROVE  /\ Merged(dst, src).root \in {dst, src}
           /\ IsPrefixOf(dst, Merged(dst, src).root)
           /\ Merged(dst, src).result # "merged" => Merged(dst, src).root = dst
<1>1. IsPrefixOf(dst, dst)
  BY DEF IsPrefixOf, Roots
<1> QED BY <1>1, MergedFork, MergedAlike, Zenon

\* Mining on the last block of a chain makes a longer chain.
LEMMA MineFacts ==
    ASSUME NEW r \in Roots, NEW t \in Contents
    PROVE  Append(r, Locked(NewBlock(RootHash(r), <<NewTransaction(t)>>))) \in Roots
<1> DEFINE h == RootHash(r)
           b == Block(h, t)
           s == Append(r, b)
<1>1. r \in Seq(MinedBlocks)
  BY DEF Roots
<1>2. h \in Hashes
  <2>1. CASE r = <<>>
    <3>1. <<>> \in Hashes
      BY DEF Hashes
    <3> QED BY <2>1, <3>1, Zenon DEF RootHash
  <2>2. CASE r # <<>>
    <3>1. r[Len(r)] \in MinedBlocks
      BY <1>1, <2>2
    <3> QED BY <2>2, <3>1, BlockFacts, Zenon DEF RootHash
  <2> QED BY <2>1, <2>2
<1> HIDE DEF h
<1>3. b \in MinedBlocks /\ b.prev = h
  <2>1. b \in MinedBlocks
    BY <1>2, SMT DEF MinedBlocks
  <2>2. b.prev = h
    BY Zenon DEF Block
  <2> QED BY <2>1, <2>2
<1> HIDE DEF b
<1>4. /\ s \in Seq(MinedBlocks) /\ DOMAIN s = 1 .. Len(r) + 1 /\ s[Len(r) + 1] = b
      /\ Len(r) \in Nat /\ DOMAIN r = 1 .. Len(r)
      /\ \A k \in 1 .. Len(r) : s[k] = r[k]
  BY <1>1, <1>3
<1> HIDE DEF s
<1>5. ASSUME NEW k \in DOMAIN s
      PROVE  s[k].prev = IF k = 1 THEN <<>> ELSE Hash(s[k - 1])
  <2>1. CASE k = Len(r) + 1
    <3>1. CASE k = 1
      <4>1. r = <<>>
        BY <1>1, <2>1, <3>1
      <4> QED BY <1>3, <1>4, <2>1, <3>1, <4>1, Zenon DEF h, RootHash
    <3>2. CASE k # 1
      <4>1. r # <<>> /\ k - 1 = Len(r) /\ Len(r) \in 1 .. Len(r)
        BY <1>4, <2>1, <3>2
      <4>2. s[k - 1] = r[Len(r)]
        BY <1>4, <4>1, Zenon
      <4>3. s[k].prev = Hash(r[Len(r)])
        BY <1>3, <1>4, <2>1, <4>1, Zenon DEF h, RootHash
      <4> QED BY <3>2, <4>2, <4>3, Zenon
    <3> QED BY <3>1, <3>2
  <2>2. CASE k # Len(r) + 1
    <3>1. k \in 1 .. Len(r) /\ (k # 1 => k - 1 \in 1 .. Len(r))
      BY <1>4, <2>2
    <3>2. r[k].prev = IF k = 1 THEN <<>> ELSE Hash(r[k - 1])
      BY <1>4, <3>1, Zenon DEF Roots
    <3> QED BY <1>4, <3>1, <3>2, Zenon
  <2> QED BY <2>1, <2>2
<1>6. s \in Roots
  BY <1>4, <1>5, Zenon DEF Roots
<1> QED BY <1>6, MinedIs, Zenon DEF s, b, h

\* A file that was damaged on its way does not validate.
LEMMA DamagedFacts ==
    ASSUME NEW r \in Roots, NEW k \in DOMAIN RootObject(r).blocks
    PROVE  ~Valid(LoadRoot(Damaged(RootObject(r), k)))
<1>1. r \in Seq(MinedBlocks) /\ Len(r) \in Nat /\ DOMAIN r = 1 .. Len(r)
  BY DEF Roots
<1>2. PICK os : os = [j \in 1 .. Len(r) |-> BlockObject(r[j])]
  BY Zenon
<1>3. RootObject(r) = [blocks |-> os]
  BY <1>1, <1>2, Zenon DEF RootObject
<1>4. k \in 1 .. Len(r)
  BY <1>2, <1>3
<1>5. PICK h \in Hashes, t \in Contents : r[k] = Block(h, t)
  BY <1>1, <1>4 DEF MinedBlocks
<1>6. PICK tr : tr = TransactionObject(Entry(h, t))
  OBVIOUS
<1>7. os[k].transactions = [j \in {1} |-> tr] /\ "transactions" \in DOMAIN os[k]
  <2>1. PICK b, e : b = Block(h, t) /\ e = Entry(h, t)
    OBVIOUS
  <2>2. os[k] = BlockObject(b)
    BY <1>2, <1>4, <1>5, <2>1, Zenon
  <2>3. b.trans = <<e>>
    BY <2>1, Zenon DEF Block
  <2>4. DOMAIN <<e>> = {1} /\ <<e>>[1] = e
    BY SMT
  <2>5. os[k].transactions = [j \in DOMAIN b.trans |-> TransactionObject(b.trans[j])]
    <3>1. PICK n, ts : /\ n = [prev |-> b.prev, transactions |-> b.digest]
                       /\ ts = [j \in DOMAIN b.trans |-> TransactionObject(b.trans[j])]
      BY Zenon
    <3>2. os[k] = [hash |-> n, transactions |-> ts]
      BY <2>2, <3>1, Zenon DEF BlockObject
    <3>3. os[k].transactions = ts
      BY <3>2
    <3> QED BY <3>1, <3>3, Zenon
  <2>6. DOMAIN b.trans = {1} /\ TransactionObject(b.trans[1]) = tr
    BY <1>6, <2>1, <2>3, <2>4, Zenon
  <2>7. "transactions" \in DOMAIN os[k]
    BY <2>2 DEF BlockObject
  <2> QED BY <2>5, <2>6, <2>7, Zenon
<1>8. tr.fileadd = [hash |-> <<t>>, meta_chunks |-> t]
  BY <1>6, Zenon DEF TransactionObject, FileObject, Entry
<1>9. PICK bs : bs = Damaged(RootObject(r), k).blocks
  OBVIOUS
<1>10. DOMAIN bs = 1 .. Len(r)
  BY <1>2, <1>3, <1>9 DEF Damaged
<1>11. bs[k] = [os[k] EXCEPT !.transactions[1].fileadd.meta_chunks = <<@>>]
  BY <1>2, <1>3, <1>4, <1>9 DEF Damaged
<1>12. PICK x, y : x = bs[k] /\ y = x.transactions[1]
  OBVIOUS
<1>13. DOMAIN x.transactions = {1}
  BY <1>7, <1>11, <1>12
<1>14. y.fileadd = [tr.fileadd EXCEPT !.meta_chunks = <<@>>]
  <2>1. "fileadd" \in DOMAIN tr
    BY <1>6 DEF TransactionObject
  <2>2. y = [tr EXCEPT !.fileadd.meta_chunks = <<@>>]
    BY <1>7, <1>11, <1>12
  <2> QED BY <2>1, <2>2
<1>15. y.fileadd.hash = <<t>> /\ y.fileadd.meta_chunks = <<t>>
  BY <1>8, <1>14
<1>16. ~ValidTransaction(LoadTransaction(y))
  <2>1. t # <<t>>
    BY ChainsAssumption DEF Contents
  <2>2. <<t>> # <<<<t>>>>
    BY <2>1
  <2>3. LoadTransaction(y).file.content = <<t>> /\ LoadTransaction(y).file.hash = <<t>>
    BY <1>15, Zenon DEF LoadTransaction, LoadFile
  <2> QED BY <2>2, <2>3, Zenon DEF ValidTransaction, ValidFile, FileHash
<1>17. LoadBlock(x).trans[1] = LoadTransaction(y) /\ 1 \in DOMAIN LoadBlock(x).trans
  <2> DEFINE f(j) == LoadTransaction(x.transactions[j])
  <2>1. LoadBlock(x).trans = <<>> \o [j \in {1} |-> f(j)]
    BY <1>13, Zenon DEF LoadBlock, WithTransactions
  <2>2. f(1) = LoadTransaction(y)
    BY <1>12, Zenon
  <2> HIDE DEF f
  <2>3. <<>> \o [j \in {1} |-> f(j)] = <<f(1)>>
    BY SMT
  <2>4. LoadBlock(x).trans = <<f(1)>>
    BY <2>1, <2>3, Zenon
  <2> QED BY <2>2, <2>4
<1>18. ~ValidBlock(LoadBlock(x))
  BY <1>16, <1>17, Zenon DEF ValidBlock
<1>19. LoadRoot(Damaged(RootObject(r), k)) = [j \in 1 .. Len(r) |-> LoadBlock(bs[j])]
  <2> DEFINE f(j) == LoadBlock(bs[j])
  <2>1. LoadRoot(Damaged(RootObject(r), k)) = <<>> \o [j \in 1 .. Len(r) |-> f(j)]
    BY <1>9, <1>10, Zenon DEF LoadRoot, WithObjects
  <2> HIDE DEF f
  <2>2. <<>> \o [j \in 1 .. Len(r) |-> f(j)] = [j \in 1 .. Len(r) |-> f(j)]
    BY <1>1, SMT
  <2> QED BY <2>1, <2>2, Zenon DEF f
<1> QED BY <1>4, <1>12, <1>18, <1>19, Zenon DEF Valid

(***************************************************************************)
(* The invariant: what owners have and send are chains; what the group and *)
(* the blocks directory have under the key of an owner is one of the files *)
(* the owner has sent, and the group has one root per owner.               *)
(***************************************************************************)
OwnerInv ==
    /\ file \in [Owners -> Roots]
    /\ sent \in [Owners -> SUBSET {RootObject(r) : r \in Roots}]

GroupInv ==
    /\ \A g \in group : /\ g.root \in Roots
                        /\ g.key \in Owners => RootObject(g.root) \in sent[g.key]
    /\ \A g, h \in group : g.key \in Owners /\ g.key = h.key => g = h

\* What a file of the blocks directory may be.
Torn(k) == saved[k] = TornFile
Kept(k) == \E json \in sent[k] : saved[k] = WholeFile(json)

SavedInv ==
    /\ DOMAIN saved \subseteq Owners
    /\ \A k \in DOMAIN saved : Torn(k) \/ Kept(k)

ChainsInv == OwnerInv /\ GroupInv /\ SavedInv /\ SavedIsCopy

\* A chain starts with itself.
LEMMA PrefixOfItself ==
    ASSUME NEW r \in Roots
    PROVE  IsPrefixOf(r, r)
BY DEF IsPrefixOf, Roots

\* What arrives and validates is a chain that the owner has sent.
LEMMA ArrivedIsSent ==
    ASSUME ChainsInv, NEW o \in Owners, NEW json \in Arriving(o), Valid(LoadRoot(json))
    PROVE  /\ json \in sent[o]
           /\ LoadRoot(json) \in Roots /\ RootObject(LoadRoot(json)) = json
<1>1. \A j \in sent[o] : \E r \in Roots : j = RootObject(r)
  BY DEF ChainsInv, OwnerInv
<1>2. json \in sent[o]
  <2> SUFFICES ASSUME json \notin sent[o] PROVE FALSE
    OBVIOUS
  <2>1. PICK j \in sent[o] : \E k \in DOMAIN j.blocks : json = Damaged(j, k)
    BY Zenon DEF Arriving
  <2>2. PICK k \in DOMAIN j.blocks : json = Damaged(j, k)
    BY <2>1
  <2>3. PICK r \in Roots : j = RootObject(r)
    BY <1>1
  <2> QED BY <2>2, <2>3, DamagedFacts, Zenon
<1>3. PICK r \in Roots : json = RootObject(r)
  BY <1>1, <1>2
<1>4. LoadRoot(json) = r
  BY <1>3, RootFacts, Zenon
<1> QED BY <1>2, <1>3, <1>4, Zenon

\* A step of an owner.
LEMMA OwnerStep ==
    ASSUME ChainsInv, NEW o \in Owners,
           (\E t \in Transactions[o] : Mine(o, t)) \/ Lose(o) \/ Send(o)
    PROVE  ChainsInv'
<1>1. /\ UNCHANGED receiverVars
      /\ \A p \in Owners : sent[p] \subseteq sent'[p]
      /\ OwnerInv'
  <2>1. CASE \E t \in Transactions[o] : Mine(o, t)
    <3>1. PICK t \in Transactions[o] : Mine(o, t)
      BY <2>1
    <3>2. t \in Contents
      BY DEF Contents
    <3>3. PICK r : r = Append(file[o], Locked(NewBlock(RootHash(file[o]), <<NewTransaction(t)>>)))
      BY Zenon
    <3>4. r \in Roots
      <4>1. file[o] \in Roots
        BY DEF ChainsInv, OwnerInv
      <4> QED BY <3>2, <3>3, <4>1, MineFacts, Zenon
    <3>5. file' = [file EXCEPT ![o] = r] /\ sent' = sent /\ UNCHANGED receiverVars
      BY <3>1, <3>3, Zenon DEF Mine
    <3> QED BY <3>4, <3>5 DEF ChainsInv, OwnerInv
  <2>2. CASE Lose(o)
    <3>1. <<>> \in Roots
      BY DEF Roots
    <3> QED BY <2>2, <3>1 DEF ChainsInv, OwnerInv, Lose
  <2>3. CASE Send(o)
    <3>1. file[o] \in Roots
      BY DEF ChainsInv, OwnerInv
    <3>2. file' = file /\ UNCHANGED receiverVars
      BY <2>3, Zenon DEF Send
    <3>3. PICK j : j = RootObject(file[o])
      OBVIOUS
    <3>4. sent' = [sent EXCEPT ![o] = sent[o] \cup {j}]
      BY <2>3, <3>3, Zenon DEF Send
    <3>5. j \in {RootObject(r) : r \in Roots}
      BY <3>1, <3>3, SMT
    <3>6. sent \in [Owners -> SUBSET {RootObject(r) : r \in Roots}] /\ file \in [Owners -> Roots]
      BY Zenon DEF ChainsInv, OwnerInv
    <3> DEFINE J == {RootObject(r) : r \in Roots}
    <3> HIDE DEF J
    <3>7. sent \in [Owners -> SUBSET J] /\ j \in J
      BY <3>5, <3>6, Zenon DEF J
    <3>8. sent' \in [Owners -> SUBSET J] /\ \A p \in Owners : sent[p] \subseteq sent'[p]
      BY <3>4, <3>7
    <3> QED BY <3>2, <3>6, <3>8, Zenon DEF OwnerInv, J
  <2> QED BY <2>1, <2>2, <2>3
<1>2. group' = group /\ saved' = saved /\ up' = up /\ unsaved' = unsaved
  BY <1>1, Zenon DEF receiverVars
<1>3. GroupInv'
  BY <1>1, <1>2 DEF ChainsInv, GroupInv
<1>4. SavedInv'
  <2>1. ASSUME NEW k \in DOMAIN saved PROVE Torn(k)' \/ Kept(k)'
    BY <1>1, <1>2, Zenon DEF ChainsInv, SavedInv, Torn, Kept
  <2> QED BY <1>2, <2>1, Zenon DEF ChainsInv, SavedInv
<1>5. SavedIsCopy'
  BY <1>2, Zenon DEF ChainsInv, SavedIsCopy, Found
<1> QED BY <1>1, <1>3, <1>4, <1>5 DEF ChainsInv

\* What is written under one key leaves the other files alone.
LEMMA SavedFacts ==
    ASSUME NEW o, NEW f, saved' = Saved(o, f)
    PROVE  /\ DOMAIN saved' = DOMAIN saved \cup {o} /\ saved'[o] = f
           /\ \A k \in DOMAIN saved : k # o => saved'[k] = saved[k]
BY SMT DEF Saved

\* The files stay what they may be when one of them becomes torn or a file that was sent.
LEMMA SavedStep ==
    ASSUME ChainsInv, NEW o \in Owners, NEW f, saved' = Saved(o, f), UNCHANGED sent,
           f = TornFile \/ \E json \in sent[o] : f = WholeFile(json)
    PROVE  SavedInv'
<1>1. /\ DOMAIN saved' = DOMAIN saved \cup {o} /\ saved'[o] = f
      /\ \A k \in DOMAIN saved : k # o => saved'[k] = saved[k]
  BY SavedFacts, Zenon
<1>2. DOMAIN saved' \subseteq Owners
  BY <1>1 DEF ChainsInv, SavedInv
<1>3. ASSUME NEW k \in DOMAIN saved' PROVE Torn(k)' \/ Kept(k)'
  <2>1. CASE k = o
    BY <1>1, <2>1, Zenon DEF Torn, Kept
  <2>2. CASE k # o
    <3>1. k \in DOMAIN saved /\ saved'[k] = saved[k]
      BY <1>1, <2>2
    <3> QED BY <3>1, Zenon DEF ChainsInv, SavedInv, Torn, Kept
  <2> QED BY <2>1, <2>2
<1> QED BY <1>2, <1>3, Zenon DEF SavedInv

\* A file of o arrives that is the first one of o.
LEMMA ImportStep ==
    ASSUME ChainsInv, NEW o \in Owners, NEW json \in sent[o], NEW src \in Roots,
           RootObject(src) = json, Found(o) = {}, Import(o, src, json),
           UNCHANGED <<ownerVars, up, unsaved>>
    PROVE  /\ ChainsInv'
           /\ group \subseteq group'
<1>1. file' = file /\ sent' = sent /\ up' = up /\ unsaved' = unsaved
  BY Zenon DEF ownerVars
<1>2. OwnerInv'
  BY <1>1, Zenon DEF ChainsInv, OwnerInv
<1>3. \A g \in group : g.key # o
  BY Zenon DEF Found
<1>4. CASE /\ group' = group \cup {[key |-> o, root |-> src]}
           /\ saved' = Saved(o, WholeFile(json))
  <2>1. PICK n : n = [key |-> o, root |-> src]
    BY Zenon
  <2>2. n.key = o /\ n.root = src
    BY <2>1
  <2>3. group' = group \cup {n}
    BY <1>4, <2>1, Zenon
  <2>4. GroupInv'
    <3>1. ASSUME NEW g \in group'
          PROVE  g.root \in Roots /\ (g.key \in Owners => RootObject(g.root) \in sent'[g.key])
      BY <1>1, <2>2, <2>3, Zenon DEF ChainsInv, GroupInv
    <3>2. ASSUME NEW g \in group', NEW h \in group', g.key \in Owners, g.key = h.key
          PROVE  g = h
      <4>1. CASE g \in group /\ h \in group
        BY <3>2, <4>1, Zenon DEF ChainsInv, GroupInv
      <4>2. CASE g = n \/ h = n
        BY <1>3, <2>2, <2>3, <3>2, <4>2, Zenon
      <4> QED BY <2>3, <4>1, <4>2, Zenon
    <3> QED BY <3>1, <3>2, Zenon DEF GroupInv
  <2>5. SavedInv'
    <3>1. PICK f : f = WholeFile(json)
      OBVIOUS
    <3> QED BY <1>1, <1>4, <3>1, SavedStep, Zenon
  <2>6. SavedIsCopy'
    <3>1. PICK f : f = WholeFile(json)
      OBVIOUS
    <3>2. /\ DOMAIN saved' = DOMAIN saved \cup {o} /\ saved'[o] = f
          /\ \A k \in DOMAIN saved : k # o => saved'[k] = saved[k]
      BY <1>4, <3>1, SavedFacts, Zenon
    <3>3. ASSUME up', NEW p \in Owners \ unsaved'
          PROVE  IF p \in DOMAIN saved'
                 THEN \E g \in group' : g.key = p /\ saved'[p] = WholeFile(RootObject(g.root))
                 ELSE ~ \E g \in group' : g.key = p
      <4>1. CASE p = o
        <5>1. n \in group' /\ n.key = p /\ saved'[p] = WholeFile(RootObject(n.root))
          BY <2>2, <2>3, <3>1, <3>2, <4>1, Zenon
        <5>2. p \in DOMAIN saved'
          BY <3>2, <4>1, Zenon
        <5> QED BY <5>1, <5>2, Zenon
      <4>2. CASE p # o
        <5>1. IF p \in DOMAIN saved
              THEN \E g \in group : g.key = p /\ saved[p] = WholeFile(RootObject(g.root))
              ELSE ~ \E g \in group : g.key = p
          BY <1>1, <3>3, Zenon DEF ChainsInv, SavedIsCopy, Found
        <5>2. p \in DOMAIN saved' <=> p \in DOMAIN saved
          BY <3>2, <4>2, Zenon
        <5> QED BY <2>2, <2>3, <3>2, <4>2, <5>1, <5>2, Zenon
      <4> QED BY <4>1, <4>2
    <3> QED BY <3>3, Zenon DEF SavedIsCopy, Found
  <2> QED BY <1>2, <2>3, <2>4, <2>5, <2>6, Zenon DEF ChainsInv
<1>5. CASE /\ group' = group \cup {[key |-> NoKey, root |-> src]}
           /\ UNCHANGED saved
  <2>1. PICK n : n = [key |-> NoKey, root |-> src]
    BY Zenon
  <2>2. n.key = NoKey /\ n.root = src /\ NoKey \notin Owners
    BY <2>1, ChainsAssumption
  <2>3. group' = group \cup {n} /\ saved' = saved
    BY <1>5, <2>1, Zenon
  <2>4. GroupInv'
    <3>1. ASSUME NEW g \in group'
          PROVE  g.root \in Roots /\ (g.key \in Owners => RootObject(g.root) \in sent'[g.key])
      BY <1>1, <2>2, <2>3, Zenon DEF ChainsInv, GroupInv
    <3>2. ASSUME NEW g \in group', NEW h \in group', g.key \in Owners, g.key = h.key
          PROVE  g = h
      <4>1. g \in group /\ h \in group
        BY <2>2, <2>3, <3>2, Zenon
      <4> QED BY <3>2, <4>1, Zenon DEF ChainsInv, GroupInv
    <3> QED BY <3>1, <3>2, Zenon DEF GroupInv
  <2>5. SavedInv'
    BY <1>1, <2>3, Zenon DEF ChainsInv, SavedInv, Torn, Kept
  <2>6. \A p \in Owners : Found(p)' = Found(p)
    BY <2>2, <2>3 DEF Found
  <2>7. SavedIsCopy'
    <3>1. ASSUME up', NEW p \in Owners \ unsaved'
          PROVE  IF p \in DOMAIN saved'
                 THEN \E g \in Found(p)' : saved'[p] = WholeFile(RootObject(g.root))
                 ELSE Found(p)' = {}
      <4>1. IF p \in DOMAIN saved
            THEN \E g \in Found(p) : saved[p] = WholeFile(RootObject(g.root))
            ELSE Found(p) = {}
        BY <1>1, <3>1, Zenon DEF ChainsInv, SavedIsCopy
      <4>2. Found(p)' = Found(p)
        BY <2>6
      <4> QED BY <2>3, <4>1, <4>2, Zenon
    <3> QED BY <3>1, Zenon DEF SavedIsCopy
  <2> QED BY <1>2, <2>3, <2>4, <2>5, <2>7, Zenon DEF ChainsInv
<1> QED BY <1>4, <1>5, Zenon DEF Import

\* A file of o arrives and the group has a root of o.
LEMMA UpdateStep ==
    ASSUME ChainsInv, NEW o \in Owners, NEW json \in sent[o], NEW src \in Roots,
           RootObject(src) = json, NEW c \in Found(o), Update(o, c.root, src),
           UNCHANGED <<ownerVars, up>>
    PROVE  /\ ChainsInv'
           /\ \A g \in group : \E h \in group' : h.key = g.key /\ IsPrefixOf(g.root, h.root)
<1>1. file' = file /\ sent' = sent /\ up' = up
  BY Zenon DEF ownerVars
<1>2. OwnerInv'
  BY <1>1, Zenon DEF ChainsInv, OwnerInv
<1>3. c \in group /\ c.key = o /\ c.root \in Roots /\ RootObject(c.root) \in sent[o]
  BY Zenon DEF Found, ChainsInv, GroupInv
<1>4. \A g \in group : g.key = o => g = c
  BY <1>3, Zenon DEF ChainsInv, GroupInv
<1>5. PICK m : m = Merged(c.root, src)
  OBVIOUS
<1>6. m.root \in {c.root, src} /\ IsPrefixOf(c.root, m.root) /\ (m.result # "merged" => m.root = c.root)
  BY <1>3, <1>5, MergeFacts, Zenon
<1>7. m.root \in Roots /\ RootObject(m.root) \in sent[o]
  BY <1>3, <1>6, Zenon
<1>8. PICK n : n = [key |-> o, root |-> m.root]
  BY Zenon
<1>9. n.key = o /\ n.root = m.root
  BY <1>8
<1>10. group' = (group \ {c}) \cup {n}
  <2>1. Found(o) = {c}
    BY <1>3, <1>4 DEF Found
  <2>2. group' = (group \ Found(o)) \cup {n}
    BY <1>5, <1>8, Zenon DEF Update
  <2> QED BY <2>1, <2>2, Zenon
<1>11. GroupInv'
  <2>1. ASSUME NEW g \in group'
        PROVE  g.root \in Roots /\ (g.key \in Owners => RootObject(g.root) \in sent'[g.key])
    <3>1. CASE g = n
      BY <1>1, <1>7, <1>9, <3>1, Zenon
    <3>2. CASE g \in group
      BY <1>1, <3>2, Zenon DEF ChainsInv, GroupInv
    <3> QED BY <1>10, <3>1, <3>2, Zenon
  <2>2. ASSUME NEW g \in group', NEW h \in group', g.key \in Owners, g.key = h.key
        PROVE  g = h
    <3>1. CASE g \in group \ {c} /\ h \in group \ {c}
      BY <2>2, <3>1, Zenon DEF ChainsInv, GroupInv
    <3>2. CASE g = n \/ h = n
      BY <1>4, <1>9, <1>10, <2>2, <3>2, Zenon
    <3> QED BY <1>10, <3>1, <3>2, Zenon
  <2> QED BY <2>1, <2>2, Zenon DEF GroupInv
<1>12. \A g \in group : \E h \in group' : h.key = g.key /\ IsPrefixOf(g.root, h.root)
  <2> SUFFICES ASSUME NEW g \in group
               PROVE  \E h \in group' : h.key = g.key /\ IsPrefixOf(g.root, h.root)
    OBVIOUS
  <2>1. CASE g = c
    BY <1>3, <1>6, <1>9, <1>10, <2>1, Zenon
  <2>2. CASE g # c
    <3>1. g \in group' /\ g.root \in Roots
      BY <1>10, <2>2, Zenon DEF ChainsInv, GroupInv
    <3> QED BY <3>1, PrefixOfItself, Zenon
  <2> QED BY <2>1, <2>2
<1>13. \A p \in Owners : p # o => Found(p)' = Found(p)
  <2> SUFFICES ASSUME NEW p \in Owners, p # o PROVE Found(p)' = Found(p)
    OBVIOUS
  <2>1. Found(p)' = {g \in group' : g.key = p}
    BY DEF Found
  <2> QED BY <1>3, <1>9, <1>10, <2>1, Zenon DEF Found
<1>14. n \in Found(o)'
  BY <1>9, <1>10 DEF Found
<1>15. ASSUME NEW p \in Owners, up', p \notin unsaved, p # o,
              p \in DOMAIN saved' <=> p \in DOMAIN saved,
              p \in DOMAIN saved => saved'[p] = saved[p]
       PROVE  IF p \in DOMAIN saved'
              THEN \E g \in Found(p)' : saved'[p] = WholeFile(RootObject(g.root))
              ELSE Found(p)' = {}
  <2>1. IF p \in DOMAIN saved
        THEN \E g \in Found(p) : saved[p] = WholeFile(RootObject(g.root))
        ELSE Found(p) = {}
    <3>1. p \in Owners \ unsaved
      BY <1>15
    <3>2. up
      BY <1>1, <1>15, SMT
    <3> QED BY <3>1, <3>2, Zenon DEF ChainsInv, SavedIsCopy
  <2>2. Found(p)' = Found(p)
    BY <1>13, <1>15
  <2> QED BY <1>15, <2>1, <2>2, Zenon
<1>16. CASE /\ saved' = Saved(o, WholeFile(RootObject(ToSave(c.root, src))))
            /\ unsaved' = unsaved \ {o}
  <2>1. PICK f : f = WholeFile(RootObject(m.root))
    OBVIOUS
  <2>2. saved' = Saved(o, f)
    BY <1>5, <1>16, <2>1, Zenon DEF ToSave
  <2>3. SavedInv'
    BY <1>1, <1>7, <2>1, <2>2, SavedStep, Zenon
  <2>4. /\ DOMAIN saved' = DOMAIN saved \cup {o} /\ saved'[o] = f
        /\ \A k \in DOMAIN saved : k # o => saved'[k] = saved[k]
    BY <2>2, SavedFacts, Zenon
  <2>5. ASSUME up', NEW p \in Owners \ unsaved'
        PROVE  IF p \in DOMAIN saved'
               THEN \E g \in Found(p)' : saved'[p] = WholeFile(RootObject(g.root))
               ELSE Found(p)' = {}
    <3>1. CASE p = o
      BY <1>9, <1>14, <2>1, <2>4, <3>1, Zenon
    <3>2. CASE p # o
      BY <1>15, <1>16, <2>4, <2>5, <3>2, Zenon
    <3> QED BY <3>1, <3>2
  <2>6. SavedIsCopy'
    BY <2>5, Zenon DEF SavedIsCopy
  <2> QED BY <1>2, <1>11, <1>12, <2>3, <2>6, Zenon DEF ChainsInv
<1>17. CASE /\ saved' \in {saved, Saved(o, TornFile)}
            /\ unsaved' = unsaved \cup {o}
  <2>1. SavedInv'
    <3>1. CASE saved' = saved
      BY <1>1, <3>1, Zenon DEF ChainsInv, SavedInv, Torn, Kept
    <3>2. CASE saved' = Saved(o, TornFile)
      BY <1>1, <3>2, SavedStep, Zenon
    <3> QED BY <1>17, <3>1, <3>2, Zenon
  <2>2. ASSUME NEW p \in Owners, p # o
        PROVE  /\ p \in DOMAIN saved' <=> p \in DOMAIN saved
               /\ p \in DOMAIN saved => saved'[p] = saved[p]
    <3>1. CASE saved' = Saved(o, TornFile)
      BY <2>2, <3>1, SavedFacts, Zenon
    <3>2. CASE saved' = saved
      BY <3>2, Zenon
    <3> QED BY <1>17, <3>1, <3>2, Zenon
  <2>3. ASSUME up', NEW p \in Owners \ unsaved'
        PROVE  IF p \in DOMAIN saved'
               THEN \E g \in Found(p)' : saved'[p] = WholeFile(RootObject(g.root))
               ELSE Found(p)' = {}
    <3>1. p # o /\ p \notin unsaved
      BY <1>17, <2>3, Zenon
    <3> QED BY <1>15, <2>2, <2>3, <3>1, Zenon
  <2>4. SavedIsCopy'
    BY <2>3, Zenon DEF SavedIsCopy
  <2> QED BY <1>2, <1>11, <1>12, <2>1, <2>4, Zenon DEF ChainsInv
<1>18. CASE m.result # "merged" /\ saved' = saved /\ unsaved' = unsaved
  <2>1. SavedInv'
    BY <1>1, <1>18, Zenon DEF ChainsInv, SavedInv, Torn, Kept
  <2>2. ASSUME up', NEW p \in Owners \ unsaved'
        PROVE  IF p \in DOMAIN saved'
               THEN \E g \in Found(p)' : saved'[p] = WholeFile(RootObject(g.root))
               ELSE Found(p)' = {}
    <3>1. CASE p = o
      <4>1. IF o \in DOMAIN saved
            THEN \E g \in Found(o) : saved[o] = WholeFile(RootObject(g.root))
            ELSE Found(o) = {}
        BY <1>1, <1>18, <2>2, <3>1, Zenon DEF ChainsInv, SavedIsCopy
      <4>2. o \in DOMAIN saved /\ saved[o] = WholeFile(RootObject(c.root))
        BY <1>4, <4>1, Zenon DEF Found
      <4>3. saved'[o] = WholeFile(RootObject(n.root))
        BY <1>6, <1>9, <1>18, <4>2, Zenon
      <4> QED BY <1>14, <1>18, <3>1, <4>2, <4>3, Zenon
    <3>2. CASE p # o
      BY <1>15, <1>18, <2>2, <3>2, Zenon
    <3> QED BY <3>1, <3>2
  <2>3. SavedIsCopy'
    BY <2>2, Zenon DEF SavedIsCopy
  <2> QED BY <1>2, <1>11, <1>12, <2>1, <2>3, Zenon DEF ChainsInv
<1> QED BY <1>5, <1>16, <1>17, <1>18, Zenon DEF Update

\* The program stops, possibly while it writes.
LEMMA StopStep ==
    ASSUME ChainsInv,
           Crash \/ \E o \in Owners : \E json \in Arriving(o) : CrashInSave(o, json)
    PROVE  ChainsInv' /\ ~up'
<1>1. /\ file' = file /\ sent' = sent /\ group' = {} /\ up' = FALSE
      /\ saved' = saved \/ \E o \in Owners : saved' = Saved(o, TornFile)
  BY Zenon DEF Crash, CrashInSave, ownerVars
<1>2. OwnerInv'
  BY <1>1, Zenon DEF ChainsInv, OwnerInv
<1>3. GroupInv'
  BY <1>1, Zenon DEF GroupInv
<1>4. SavedInv'
  <2>1. CASE saved' = saved
    BY <1>1, <2>1, Zenon DEF ChainsInv, SavedInv, Torn, Kept
  <2>2. CASE saved' # saved
    <3>1. PICK o \in Owners : saved' = Saved(o, TornFile)
      BY <1>1, <2>2, Zenon
    <3> QED BY <1>1, <3>1, SavedStep, Zenon
  <2> QED BY <2>1, <2>2
<1>5. SavedIsCopy'
  BY <1>1, Zenon DEF SavedIsCopy
<1> QED BY <1>1, <1>2, <1>3, <1>4, <1>5, Zenon DEF ChainsInv

\* blocks_load at the start.
LEMMA RestartStep ==
    ASSUME ChainsInv, Restart
    PROVE  ChainsInv'
<1>1. file' = file /\ sent' = sent /\ saved' = saved /\ unsaved' = {}
  BY Zenon DEF Restart, ownerVars
<1>2. OwnerInv'
  BY <1>1, Zenon DEF ChainsInv, OwnerInv
<1>3. SavedInv'
  BY <1>1, Zenon DEF ChainsInv, SavedInv, Torn, Kept
<1>4. ASSUME NEW k \in DOMAIN saved
      PROVE  /\ k \in Owners
             /\ LoadRoot(saved[k].json) \in Roots
             /\ RootObject(LoadRoot(saved[k].json)) \in sent[k]
             /\ saved[k] = WholeFile(RootObject(LoadRoot(saved[k].json)))
  <2>1. k \in Owners
    BY DEF ChainsInv, SavedInv
  <2>2. saved[k].whole
    BY Zenon DEF Restart, Loads
  <2>3. ~Torn(k)
    <3>1. TornFile.whole = FALSE
      BY Zenon DEF TornFile
    <3> QED BY <2>2, <3>1, Zenon DEF Torn
  <2>4. PICK json \in sent[k] : saved[k] = WholeFile(json)
    BY <2>3, Zenon DEF ChainsInv, SavedInv, Kept
  <2>5. saved[k].json = json
    <3>1. \A j : WholeFile(j).json = j
      BY Zenon DEF WholeFile
    <3> QED BY <2>4, <3>1, Zenon
  <2>6. PICK r \in Roots : json = RootObject(r)
    BY <2>1, <2>4 DEF ChainsInv, OwnerInv
  <2>7. LoadRoot(json) = r
    BY <2>6, RootFacts, Zenon
  <2> QED BY <2>1, <2>4, <2>5, <2>6, <2>7, Zenon
<1>5. ASSUME NEW g \in group'
      PROVE  g.key \in DOMAIN saved /\ g = [key |-> g.key, root |-> LoadRoot(saved[g.key].json)]
  <2>1. PICK k \in DOMAIN saved : g = [key |-> k, root |-> LoadRoot(saved[k].json)]
    BY Zenon DEF Restart
  <2>2. g.key = k
    BY <2>1, Zenon
  <2> QED BY <2>1, <2>2, Zenon
<1>6. ASSUME NEW g \in group'
      PROVE  g.root = LoadRoot(saved[g.key].json)
  <2>1. PICK q, x : q = g.key /\ x = LoadRoot(saved[g.key].json)
    OBVIOUS
  <2>2. g = [key |-> q, root |-> x]
    BY <1>5, <2>1, Zenon
  <2>3. g.root = x
    BY <2>2, SMT
  <2> QED BY <2>1, <2>3, Zenon
<1>7. GroupInv'
  <2>1. ASSUME NEW g \in group'
        PROVE  g.root \in Roots /\ (g.key \in Owners => RootObject(g.root) \in sent'[g.key])
    BY <1>1, <1>4, <1>5, <1>6, Zenon
  <2>2. ASSUME NEW g \in group', NEW h \in group', g.key = h.key
        PROVE  g = h
    BY <1>5, <2>2, Zenon
  <2> QED BY <2>1, <2>2, Zenon DEF GroupInv
<1>8. SavedIsCopy'
  <2>1. ASSUME NEW p \in Owners
        PROVE  IF p \in DOMAIN saved'
               THEN \E g \in Found(p)' : saved'[p] = WholeFile(RootObject(g.root))
               ELSE Found(p)' = {}
    <3>1. CASE p \in DOMAIN saved
      <4>1. PICK x : x = LoadRoot(saved[p].json)
        OBVIOUS
      <4>2. PICK g : g = [key |-> p, root |-> x]
        BY Zenon
      <4>3. g.key = p /\ g.root = x
        BY <4>2, Zenon
      <4>4. g \in group'
        BY <3>1, <4>1, <4>2, Zenon DEF Restart
      <4>5. g \in Found(p)'
        BY <4>3, <4>4 DEF Found
      <4>6. saved'[p] = WholeFile(RootObject(g.root))
        BY <1>1, <1>4, <3>1, <4>1, <4>3, Zenon
      <4> QED BY <1>1, <3>1, <4>5, <4>6, Zenon
    <3>2. CASE p \notin DOMAIN saved
      <4>1. Found(p)' = {}
        BY <1>5, <3>2 DEF Found
      <4> QED BY <1>1, <3>2, <4>1, Zenon
    <3> QED BY <3>1, <3>2
  <2> QED BY <2>1, Zenon DEF SavedIsCopy
<1> QED BY <1>2, <1>3, <1>7, <1>8, Zenon DEF ChainsInv

\* What one step of the system keeps.
LEMMA ChainsStep ==
    ASSUME ChainsInv, [Next]_vars
    PROVE  /\ ChainsInv'
           /\ up /\ up' => \A g \in group : \E h \in group' :
                               h.key = g.key /\ IsPrefixOf(g.root, h.root)
<1>1. group \subseteq group' =>
         \A g \in group : \E h \in group' : h.key = g.key /\ IsPrefixOf(g.root, h.root)
  <2>1. \A g \in group : IsPrefixOf(g.root, g.root)
    BY PrefixOfItself, Zenon DEF ChainsInv, GroupInv
  <2> QED BY <2>1, Zenon
<1>2. ASSUME NEW o \in Owners, NEW t \in Transactions[o], Mine(o, t)
      PROVE  ChainsInv' /\ group' = group
  BY <1>2, OwnerStep, Zenon DEF Mine, receiverVars
<1>3. ASSUME NEW o \in Owners, Lose(o) \/ Send(o)
      PROVE  ChainsInv' /\ group' = group
  BY <1>3, OwnerStep, Zenon DEF Lose, Send, receiverVars
<1>4. ASSUME NEW o \in Owners, NEW json \in Arriving(o), Receive(o, json)
      PROVE  /\ ChainsInv'
             /\ \A g \in group : \E h \in group' : h.key = g.key /\ IsPrefixOf(g.root, h.root)
  <2>1. PICK src : src = LoadRoot(json)
    OBVIOUS
  <2>2. /\ Valid(src) /\ UNCHANGED <<ownerVars, up>>
        /\ \/ Found(o) = {} /\ Import(o, src, json) /\ UNCHANGED unsaved
           \/ \E c \in Found(o) : Update(o, c.root, src)
    BY <1>4, <2>1, Zenon DEF Receive
  <2>3. json \in sent[o] /\ src \in Roots /\ RootObject(src) = json
    BY <2>1, <2>2, ArrivedIsSent, Zenon
  <2>4. CASE Found(o) = {} /\ Import(o, src, json) /\ UNCHANGED unsaved
    <3>1. UNCHANGED <<ownerVars, up, unsaved>>
      BY <2>2, <2>4, Zenon
    <3> QED BY <1>1, <2>3, <2>4, <3>1, ImportStep, Zenon
  <2>5. CASE \E c \in Found(o) : Update(o, c.root, src)
    BY <2>2, <2>3, <2>5, UpdateStep, Zenon
  <2> QED BY <2>2, <2>4, <2>5
<1>5. ASSUME NEW o \in Owners, NEW json \in Arriving(o), CrashInSave(o, json)
      PROVE  ChainsInv' /\ ~up'
  BY <1>5, StopStep, Zenon
<1>6. CASE Crash
  BY <1>6, StopStep, Zenon
<1>7. CASE Restart
  BY <1>7, RestartStep, Zenon DEF Restart
<1>8. CASE UNCHANGED vars
  <2>1. /\ file' = file /\ sent' = sent /\ group' = group /\ saved' = saved
        /\ up' = up /\ unsaved' = unsaved
    BY <1>8, Zenon DEF vars
  <2>2. OwnerInv' /\ GroupInv'
    BY <2>1, Zenon DEF ChainsInv, OwnerInv, GroupInv
  <2>3. SavedInv'
    BY <2>1, Zenon DEF ChainsInv, SavedInv, Torn, Kept
  <2>4. SavedIsCopy'
    BY <2>1, Zenon DEF ChainsInv, SavedIsCopy, Found
  <2> QED BY <1>1, <2>1, <2>2, <2>3, <2>4, Zenon DEF ChainsInv
<1> QED BY <1>1, <1>2, <1>3, <1>4, <1>5, <1>6, <1>7, <1>8, Zenon DEF Next

\* Every state of the receiver: what the group and the blocks directory have of an owner
\* is a block file that this owner has sent, for any number of owners and blocks, any
\* order of arrival, any fork, and any crash or failed write.
THEOREM ChainsInvariant == Spec => []ChainsInv
<1>1. Init => ChainsInv
  <2> SUFFICES ASSUME Init PROVE ChainsInv
    OBVIOUS
  <2>1. OwnerInv
    <3>1. <<>> \in Roots
      BY DEF Roots
    <3> QED BY <3>1 DEF Init, OwnerInv
  <2>2. GroupInv
    BY DEF Init, GroupInv
  <2>3. DOMAIN saved = {}
    BY DEF Init
  <2>4. SavedInv
    BY <2>3 DEF SavedInv
  <2>5. SavedIsCopy
    BY <2>3 DEF Init, SavedIsCopy, Found
  <2> QED BY <2>1, <2>2, <2>4, <2>5 DEF ChainsInv
<1> QED BY <1>1, ChainsStep, PTL DEF Spec

\* The cardinality facts of the library, from here on.
INSTANCE FiniteSetTheorems

\* The group never has two roots of one owner, and each validates and is, block for block,
\* a version that the owner sent: root.merge in dfile never puts two branches together.
THEOREM CopiesAreVersions == Spec => []CopiesAreReal
<1>1. ChainsInv => CopiesAreReal
  <2> SUFFICES ASSUME ChainsInv, NEW g \in group
               PROVE  /\ Valid(g.root)
                      /\ g.key \in Owners =>
                            /\ Cardinality(Found(g.key)) = 1
                            /\ RootObject(g.root) \in sent[g.key]
    BY DEF CopiesAreReal
  <2>1. g.root \in Roots /\ (g.key \in Owners => RootObject(g.root) \in sent[g.key])
    BY Zenon DEF ChainsInv, GroupInv
  <2>2. Valid(g.root)
    BY <2>1, RootFacts, Zenon
  <2>3. ASSUME g.key \in Owners PROVE Cardinality(Found(g.key)) = 1
    <3>1. Found(g.key) = {g}
      BY <2>3 DEF Found, ChainsInv, GroupInv
    <3> QED BY <3>1, FS_Singleton, Zenon
  <2> QED BY <2>1, <2>2, <2>3
<1> QED BY <1>1, ChainsInvariant, PTL

\* A restart of the receiver loads what it had in memory, unless a write failed in
\* between: dfile saves the root that merge has left in the group.
THEOREM CopiesAreSaved == Spec => []SavedIsCopy
<1>1. ChainsInv => SavedIsCopy
  BY DEF ChainsInv
<1> QED BY <1>1, ChainsInvariant, PTL

\* No step of the running receiver drops or replaces a block that it has collected.
THEOREM CopiesOnlyGrow == Spec => CopiesGrow
<1>1. ChainsInv /\ [Next]_vars =>
         [up /\ up' => \A g \in group : \E h \in group' :
                           h.key = g.key /\ IsPrefixOf(g.root, h.root)]_vars
  BY ChainsStep
<1> QED BY <1>1, ChainsInvariant, PTL DEF Spec, CopiesGrow
==============================================================================
