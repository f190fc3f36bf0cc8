------------------------------- MODULE Blocks -------------------------------
(***************************************************************************)
(* Blocks and roots (chains of blocks): block.c and root.c.                *)
(*                                                                         *)
(* A hash is the sequence of the contents it stands for, <<>> being        *)
(* DISTFS_BASE_ROOT_HASH; nothing else has the same hash.                  *)
(*                                                                         *)
(* A transaction has what was shared, the file, with the hash of that,     *)
(* and the place it is locked to: the hash before it and the hash that     *)
(* digests both.  A block has the hash prev of the block it was mined on,  *)
(* its transactions, and digest (hash.transactions), the place of the last *)
(* one.  Its proof of work hashes digest, prev and a nonce: as digest      *)
(* starts from prev it stands for all of them.                             *)
(***************************************************************************)
EXTENDS Naturals, Sequences

\* file_add's hash_chunks, hash_meta and hash: of the description, the chunks and
\* the owner's key.
FileHash(c) == <<c>>

\* file_add's init
NewFile(c) == [content |-> c, hash |-> FileHash(c)]

\* transaction.init; hash_calc covers the file's hash.
NewTransaction(c) ==
    [file |-> NewFile(c), hash |-> FileHash(c), prev |-> <<>>, current |-> <<>>]

\* file_add's validate
ValidFile(f) == f.hash = FileHash(f.content)

\* Variant: the hashes of a transaction are taken as they are.
ValidTransactionUnread(t) == TRUE

\* transaction.validate calculates the hashes again.
ValidTransaction(t) == ValidFile(t.file) /\ t.hash = FileHash(t.file.content)

\* hash_trans
HashTrans(t, prev) == prev \o t.hash

\* transactions_lock: each transaction gets its place after the one before it.
PlaceOf(b, k) ==
    LET upto[i \in 0 .. k] == IF i = 0 THEN b.prev ELSE HashTrans(b.trans[i], upto[i - 1])
    IN  upto[k]

Locked(b) ==
    [b EXCEPT !.trans = [k \in DOMAIN @ |-> [@[k] EXCEPT !.prev = PlaceOf(b, k - 1),
                                                         !.current = PlaceOf(b, k)]],
              !.digest = PlaceOf(b, Len(b.trans))]

\* block.init, and the transactions that are added to it.
NewBlock(prev, ts) == [prev |-> prev, trans |-> ts, digest |-> <<>>]

\* hash.pow of a mined block.
Hash(b) == b.digest

\* root->hash: the hash of the last block.
RootHash(r) == IF r = <<>> THEN <<>> ELSE Hash(r[Len(r)])

\* block.validate: at most one transaction, valid and in its place.  That digest is
\* the place of the last one is not looked at.
ValidBlock(b) ==
    /\ Len(b.trans) <= 1
    /\ \A k \in DOMAIN b.trans : /\ ValidTransaction(b.trans[k])
                                 /\ b.trans[k].prev = b.prev
                                 /\ b.trans[k].current = HashTrans(b.trans[k], b.prev)

\* root.validate: each block is valid and on the hash of the block before it.
Valid(r) ==
    \A k \in DOMAIN r : /\ r[k].prev = IF k = 1 THEN <<>> ELSE Hash(r[k - 1])
                        /\ ValidBlock(r[k])

-----------------------------------------------------------------------------
(* The JSON objects of a block file.  root.merge copies blocks through them. *)

FileObject(f) == [hash |-> f.hash, meta_chunks |-> f.content]

TransactionObject(t) ==
    [hash |-> t.hash, blockhash |-> [prev |-> t.prev, current |-> t.current],
     fileadd |-> FileObject(t.file)]

BlockObject(b) ==
    [hash |-> [prev |-> b.prev, transactions |-> b.digest],
     transactions |-> [k \in DOMAIN b.trans |-> TransactionObject(b.trans[k])]]

RootObject(r) == [blocks |-> [k \in DOMAIN r |-> BlockObject(r[k])]]

LoadFile(o) == [content |-> o.meta_chunks, hash |-> o.hash]

LoadTransaction(o) ==
    [file |-> LoadFile(o.fileadd), hash |-> o.hash,
     prev |-> o.blockhash.prev, current |-> o.blockhash.current]

\* transactions_add of each of a sequence of transactions.
WithTransactions(ts, os) == ts \o [k \in DOMAIN os |-> LoadTransaction(os[k])]

\* pow and nonce stand for the hash over the others (Hash); the index is not used.
\* A nonce is assumed to fit in the int that BIND_INT reads.
LoadBlock(o) ==
    [prev |-> o.hash.prev, digest |-> o.hash.transactions,
     trans |-> WithTransactions(<<>>, o.transactions)]

\* blocks_append of each of a sequence of blocks.
WithObjects(r, bs) == r \o [k \in DOMAIN bs |-> LoadBlock(bs[k])]

\* load_object, up to its call of validate.
LoadRoot(o) == WithObjects(<<>>, o.blocks)

-----------------------------------------------------------------------------
Shorter(l, r) == IF Len(l) <= Len(r) THEN Len(l) ELSE Len(r)

Failed == [ok |-> FALSE, equal |-> FALSE, idx |-> 0, winner |-> "none"]

\* block.compare of two blocks on the same predecessor.
WinnerBlock(d, s) == IF Len(d.trans) >= Len(s.trans) THEN "dst" ELSE "src"

\* block.compare: contents are not compared.
Same(d, s) == d.prev = s.prev /\ d.digest = s.digest /\ Hash(d) = Hash(s)

\* The first place where the roots differ, or the length of the shorter one.
\* The loop of root.compare stops one past a block that differs, and counts
\* from 0: idx is the number of blocks it has looked at.
Differs(l, r, k) == ~Same(l[k], r[k]) /\ \A j \in 1..k - 1 : Same(l[j], r[j])

CompareRoots(l, r) ==
    IF \E k \in 1..Shorter(l, r) : Differs(l, r, k)
    THEN LET k == CHOOSE k \in 1..Shorter(l, r) : Differs(l, r, k)
         IN  IF l[k].prev # r[k].prev THEN Failed
             ELSE [ok |-> TRUE, equal |-> FALSE, idx |-> k,
                   winner |-> WinnerBlock(l[k], r[k])]
    ELSE [ok |-> TRUE, equal |-> Len(l) = Len(r), idx |-> Shorter(l, r),
          winner |-> IF Len(l) > Len(r) THEN "dst" ELSE "src"]

\* root.compare: two roots that validate.
Compare(l, r) == IF Valid(l) /\ Valid(r) THEN CompareRoots(l, r) ELSE Failed

\* Variant: the last block of dst is compared as an index, not as a count.
CanMergeOffByOne(dst, src, diff) ==
    IF diff.equal THEN "not needed"
    ELSE IF diff.winner = "src" /\ diff.idx = Len(dst) - 1 THEN "src to dst"
    ELSE IF diff.winner = "dst" /\ diff.idx = Len(src) THEN "dst to src"
    ELSE "impossible"

\* root.canmerge
CanMerge(dst, src, diff) ==
    IF diff.equal THEN "not needed"
    ELSE IF diff.winner = "src" /\ diff.idx = Len(dst) THEN "src to dst"
    ELSE IF diff.winner = "dst" /\ diff.idx = Len(src) THEN "dst to src"
    ELSE "impossible"

\* merge's loop: the blocks of `from' after the first idx go to the end of `to'.
Appended(to, from, idx) ==
    WithObjects(to, [k \in 1 .. Len(from) - idx |-> BlockObject(from[idx + k])])

\* Variant: the root that arrives replaces the one at hand.
MergedReplace(dst, src) == [result |-> "merged", root |-> src]

\* What merge returns once it has changed dst into d or src into s: they must have
\* become equal.
Outcome(diff, can, d, s) ==
    [root |-> d,
     result |-> IF ~diff.ok THEN "error"
                ELSE IF can = "impossible" THEN "unmerged"
                ELSE IF Compare(d, s).equal THEN "merged" ELSE "error"]

\* root.merge: the result (error, merged, not merged) and what dst has become.  src
\* is the other's copy and is freed afterwards.  (Each of the sets has one element,
\* which is evaluated once.)
Merged(dst, src) ==
    CHOOSE m \in UNION {{Outcome(diff, can, d, s) :
                            d \in {IF can = "src to dst" THEN Appended(dst, src, diff.idx) ELSE dst},
                            s \in {IF can = "dst to src" THEN Appended(src, dst, diff.idx) ELSE src}} :
                         diff \in {Compare(dst, src)},
                         can \in {CanMerge(dst, src, Compare(dst, src))}} : TRUE
=============================================================================
