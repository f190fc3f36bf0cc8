---------------------------- MODULE MiningProofs ----------------------------
(***************************************************************************)
(* Proofs about Mining, for all values of its constants.                   *)
(***************************************************************************)
EXTENDS Mining, TLAPS

(***************************************************************************)
(* Facts about sequences.                                                  *)
(***************************************************************************)
\* The length and the places of a sequence.
LEMMA LenProperties ==
    ASSUME NEW S, NEW s \in Seq(S)
    PROVE  Len(s) \in Nat /\ s \in [1 .. Len(s) -> S] /\ DOMAIN s = 1 .. Len(s)
  OBVIOUS

\* A function on 1 .. n is a sequence.
LEMMA SeqDef ==
    ASSUME NEW S, NEW n \in Nat, NEW s \in [1 .. n -> S]
    PROVE  s \in Seq(S)
  OBVIOUS

\* Sequences that agree place by place are equal.
LEMMA SeqEqual ==
    ASSUME NEW S, NEW s \in Seq(S), NEW t \in Seq(S), Len(s) = Len(t),
           \A i \in 1 .. Len(s) : s[i] = t[i]
    PROVE  s = t
  OBVIOUS

\* Concatenation, place by place.
LEMMA ConcatProperties ==
    ASSUME NEW S, NEW s \in Seq(S), NEW t \in Seq(S)
    PROVE  /\ s \o t \in Seq(S) /\ Len(s \o t) = Len(s) + Len(t)
           /\ \A i \in 1 .. Len(s) + Len(t) :
                 (s \o t)[i] = IF i <= Len(s) THEN s[i] ELSE t[i - Len(s)]
  OBVIOUS

\* Nothing is added by the empty sequence.
LEMMA ConcatEmptySeq ==
    ASSUME NEW S, NEW s \in Seq(S)
    PROVE  s \o << >> = s /\ << >> \o s = s
  OBVIOUS

\* One element more.
LEMMA AppendProperties ==
    ASSUME NEW S, NEW s \in Seq(S), NEW e \in S
    PROVE  /\ Append(s, e) \in Seq(S) /\ Append(s, e) # << >>
           /\ Len(Append(s, e)) = Len(s) + 1
           /\ \A i \in 1 .. Len(s) : Append(s, e)[i] = s[i]
           /\ Append(s, e)[Len(s) + 1] = e
  OBVIOUS

\* Appending is the concatenation of a sequence of one.
LEMMA AppendIsConcat ==
    ASSUME NEW S, NEW s \in Seq(S), NEW e \in S
    PROVE  Append(s, e) = s \o <<e>>
  OBVIOUS


(***************************************************************************)
(* Blocks.  A block is mined with one transaction.                         *)
(***************************************************************************)
Hashes == Seq(Transactions)

Mined(h, t) == Locked(NewBlock(h, <<NewTransaction(t)>>))

MinedBlocks == {Mined(h, t) : h \in Hashes, t \in Transactions}

\* The list the loop hands to the miner.
Lists == {<<>>} \cup {<<NewTransaction(t)>> : t \in Transactions}

\* transactions_lock calculates the place of the first transaction from prev.
LEMMA PlaceOfOne ==
    ASSUME NEW b
    PROVE  /\ PlaceOf(b, 0) = b.prev
           /\ PlaceOf(b, 1) = HashTrans(b.trans[1], b.prev)
<1> DEFINE F(k, f) == [i \in 0 .. k |-> IF i = 0 THEN b.prev ELSE HashTrans(b.trans[i], f[i - 1])]
           U(k) == CHOOSE f : f = F(k, f)
           W(k) == [i \in 0 .. k |-> IF i = 0 THEN b.prev ELSE HashTrans(b.trans[1], b.prev)]
<1>1. PlaceOf(b, 0) = U(0)[0] /\ PlaceOf(b, 1) = U(1)[1]
  BY Zenon DEF PlaceOf
<1>2. ASSUME NEW k \in {0, 1} PROVE W(k) = F(k, W(k))
  <2>1. ASSUME NEW i \in 0 .. k
        PROVE W(k)[i] = IF i = 0 THEN b.prev ELSE HashTrans(b.trans[i], W(k)[i - 1])
    BY <1>2, <2>1
  <2> QED BY <2>1, Zenon
<1>3. ASSUME NEW k \in {0, 1} PROVE U(k) = F(k, U(k))
  BY <1>2, <1>3, Zenon
<1>4. U(0)[0] = b.prev
  <2>1. 0 \in 0 .. 0 BY SMT
  <2> QED BY <1>3, <2>1, Zenon
<1>5. U(1)[0] = b.prev
  <2>1. 0 \in 0 .. 1 BY SMT
  <2> QED BY <1>3, <2>1, Zenon
<1>6. U(1)[1] = HashTrans(b.trans[1], b.prev)
  <2>1. 1 \in 0 .. 1 /\ 1 # 0 /\ 1 - 1 = 0 BY SMT
  <2>2. U(1) = F(1, U(1)) BY <1>3, Zenon
  <2> HIDE DEF U
  <2>3. U(1)[1] = HashTrans(b.trans[1], U(1)[1 - 1]) BY <2>1, <2>2, Zenon
  <2>4. U(1)[1] = HashTrans(b.trans[1], U(1)[0]) BY <2>1, <2>3, Zenon
  <2> QED BY <2>4, <1>5, Zenon
<1> QED BY <1>1, <1>4, <1>6, Zenon

\* What mining leaves of a block: its place, its digest and what it carries.
LEMMA MinedFacts ==
    ASSUME NEW h \in Hashes, NEW t \in Transactions
    PROVE  /\ Mined(h, t).digest = h \o <<t>>
           /\ Mined(h, t).digest \in Hashes
           /\ Mined(h, t).digest # <<>>
           /\ DOMAIN Mined(h, t).trans = {1}
           /\ Len(Mined(h, t).trans) = 1
           /\ Mined(h, t).trans[1].file.content = t
<1> DEFINE b == NewBlock(h, <<NewTransaction(t)>>)
<1>1. b.prev = h /\ b.trans = <<NewTransaction(t)>> /\ Len(b.trans) = 1 /\ b.trans[1] = NewTransaction(t)
  BY DEF NewBlock
<1>2. NewTransaction(t).hash = <<t>> /\ NewTransaction(t).file.content = t
  BY DEF NewTransaction, NewFile, FileHash
<1>3. PlaceOf(b, Len(b.trans)) = h \o <<t>>
  BY <1>1, <1>2, PlaceOfOne, Zenon DEF HashTrans
<1>4. Locked(b).digest = h \o <<t>>
  BY <1>1, <1>3, Zenon DEF Locked, NewBlock
<1> DEFINE part(k) == [b.trans[k] EXCEPT !.prev = PlaceOf(b, k - 1), !.current = PlaceOf(b, k)]
<1>5. Locked(b).trans = [k \in DOMAIN b.trans |-> part(k)]
  BY Zenon DEF Locked, NewBlock
<1>6. DOMAIN b.trans = {1} /\ {1} = 1 .. 1
  BY <1>1
<1>7. part(1).file.content = t
  BY <1>1, <1>2, Zenon DEF NewTransaction
<1>8. /\ DOMAIN Locked(b).trans = {1} /\ Len(Locked(b).trans) = 1
      /\ Locked(b).trans[1].file.content = t
  <2> HIDE DEF part, b
  <2>1. DOMAIN Locked(b).trans = 1 .. 1 /\ Locked(b).trans[1] = part(1)
    BY <1>5, <1>6, Zenon
  <2>2. Locked(b).trans \in [1 .. 1 -> {part(1)}]
    BY <1>5, <1>6, Zenon
  <2>3. Locked(b).trans \in Seq({part(1)})
    BY <2>2, SeqDef, 1 \in Nat, Zenon
  <2>4. 1 .. 1 = 1 .. Len(Locked(b).trans) /\ Len(Locked(b).trans) \in Nat
    BY <2>1, <2>3, LenProperties, Zenon
  <2>5. \A n \in Nat : 1 .. 1 = 1 .. n => n = 1
    <3>1. ASSUME NEW n \in Nat, 1 .. 1 = 1 .. n PROVE n = 1
      <4>1. 1 \in 1 .. n /\ (n >= 1 => n \in 1 .. 1)
        BY <3>1
      <4> QED BY <4>1
    <3> QED BY <3>1
  <2> QED BY <1>6, <1>7, <2>1, <2>4, <2>5, Zenon
<1>9. h \o <<t>> \in Hashes /\ h \o <<t>> # <<>>
  BY DEF Hashes
<1> QED BY <1>4, <1>8, <1>9, Zenon DEF Mined

(***************************************************************************)
(* The inductive invariant.                                                *)
(***************************************************************************)
Chain == Seq(MinedBlocks)

Entries == [name: Hashes, whole: BOOLEAN, data: Chain]

Builds == {NewBlock(h, ts) : h \in Hashes, ts \in Lists} \cup MinedBlocks

MinerStates == [at: Steps \cup {"none"}, block: Builds]

TypeInv ==
    /\ up \in BOOLEAN /\ state \in BOOLEAN /\ newblock \in BOOLEAN
    /\ failed \in BOOLEAN /\ unstarted \in BOOLEAN
    /\ transactions \in Lists
    /\ local \in Chain /\ loaded \in Chain /\ file \in Hashes
    /\ dir \subseteq Entries
    /\ accepted \in Seq(Transactions)
    /\ miner \in [Threads -> MinerStates]
    /\ sending \subseteq Peers /\ offered \subseteq Peers

At(m, S) == miner[m].at \in S

\* One thread at a time, and the flag is its lock.
FlagInv ==
    /\ \A m, n \in Threads : ~At(m, {"none"}) /\ ~At(n, {"none"}) => m = n
    /\ \A m \in Threads : ~At(m, {"none"}) => up /\ state
    /\ state => up /\ (unstarted \/ \E m \in Threads : ~At(m, {"none"}))

\* The block of the thread and the list of the loop, step by step.
BuildOf(m) ==
    /\ At(m, {"copy", "clear"}) => transactions # <<>>
    /\ At(m, {"clear"}) => miner[m].block = NewBlock(RootHash(local), transactions)
    /\ At(m, {"work"}) => \E t \in Transactions :
          miner[m].block = NewBlock(RootHash(local), <<NewTransaction(t)>>)
    /\ At(m, {"add"}) => \E t \in Transactions : miner[m].block = Mined(RootHash(local), t)
    /\ At(m, Steps \ {"copy", "clear"}) => transactions = <<>>
    /\ At(m, Steps \ {"copy", "clear", "work", "add"}) => local # <<>>

BuildInv ==
    /\ ~up => transactions = <<>>
    /\ \A m \in Threads : BuildOf(m)

WorkInv == TypeInv /\ FlagInv /\ BuildInv /\ NothingLost

(***************************************************************************)
(* Chains.                                                                 *)
(***************************************************************************)
\* The hash of a chain that is not empty is not DISTFS_BASE_ROOT_HASH.
LEMMA RootHashFacts ==
    ASSUME NEW c \in Chain
    PROVE  RootHash(c) \in Hashes /\ (c # <<>> => RootHash(c) # <<>>)
<1>1. CASE c = <<>>
  BY <1>1 DEF RootHash, Hashes
<1>2. CASE c # <<>>
  <2>1. c[Len(c)] \in MinedBlocks
    BY <1>2 DEF Chain
  <2>2. PICK h \in Hashes, t \in Transactions : c[Len(c)] = Mined(h, t)
    BY <2>1, SMT DEF MinedBlocks
  <2>3. Mined(h, t).digest \in Hashes /\ Mined(h, t).digest # <<>>
    BY MinedFacts, Zenon
  <2> QED BY <1>2, <2>2, <2>3, Zenon DEF RootHash, Hash
<1> QED BY <1>1, <1>2

\* What the lists and the blocks in work carry.
LEMMA ContentsFacts ==
    /\ Contents(<<>>) = <<>>
    /\ \A t \in Transactions : Contents(<<NewTransaction(t)>>) = <<t>>
    /\ \A h \in Hashes, t \in Transactions : Contents(Mined(h, t).trans) = <<t>>
<1>1. Contents(<<>>) = <<>>
  BY DEF Contents
<1>2. ASSUME NEW s, NEW t, Len(s) = 1, s[1].file.content = t
      PROVE  Contents(s) = <<t>>
  <2>1. Contents(s) = [k \in 1 .. 1 |-> s[k].file.content]
    BY <1>2, Zenon DEF Contents
  <2>2. Contents(s) = [k \in 1 .. 1 |-> t]
    BY <1>2, <2>1
  <2> QED BY <2>2
<1>3. ASSUME NEW t \in Transactions PROVE Contents(<<NewTransaction(t)>>) = <<t>>
  <2>1. NewTransaction(t).file.content = t
    BY DEF NewTransaction, NewFile
  <2>2. Len(<<NewTransaction(t)>>) = 1 /\ <<NewTransaction(t)>>[1] = NewTransaction(t)
    BY SMT
  <2> QED BY <2>1, <2>2, <1>2, Zenon
<1>4. ASSUME NEW h \in Hashes, NEW t \in Transactions PROVE Contents(Mined(h, t).trans) = <<t>>
  <2>1. Len(Mined(h, t).trans) = 1 /\ Mined(h, t).trans[1].file.content = t
    BY MinedFacts, Zenon
  <2> QED BY <1>2, <2>1, Zenon
<1> QED BY <1>1, <1>3, <1>4, Zenon

\* A chain carries one transaction per block.
LEMMA TransOfFacts ==
    ASSUME NEW d \in Chain
    PROVE  /\ TransOf(d) \in Seq(Transactions) /\ Len(TransOf(d)) = Len(d)
           /\ \A k \in 1 .. Len(d) : TransOf(d)[k] = d[k].trans[1].file.content
<1> DEFINE content(e) == e.trans[1].file.content
<1>1. ASSUME NEW e \in MinedBlocks PROVE content(e) \in Transactions
  <2>1. PICK g \in Hashes, u \in Transactions : e = Mined(g, u)
    BY SMT DEF MinedBlocks
  <2> QED BY <2>1, MinedFacts, Zenon
<1>2. TransOf(d) = [k \in 1 .. Len(d) |-> content(d[k])]
  BY Zenon DEF TransOf
<1> HIDE DEF content
<1>3. Len(d) \in Nat /\ \A k \in 1 .. Len(d) : d[k] \in MinedBlocks
  BY DEF Chain
<1>4. TransOf(d) \in [1 .. Len(d) -> Transactions]
  BY <1>1, <1>2, <1>3, Zenon
<1>5. TransOf(d) \in Seq(Transactions)
  BY <1>3, <1>4, SeqDef, Zenon
<1>6. DOMAIN TransOf(d) = 1 .. Len(d)
  BY <1>2, Zenon
<1>7. Len(TransOf(d)) = Len(d)
  BY <1>3, <1>5, <1>6
<1> QED BY <1>2, <1>5, <1>7, Zenon DEF content

\* root.blocks.add of a mined block adds its transaction.
LEMMA ChainGrows ==
    ASSUME NEW c \in Chain, NEW h \in Hashes, NEW t \in Transactions
    PROVE  /\ Append(c, Mined(h, t)) \in Chain
           /\ Append(c, Mined(h, t)) # <<>>
           /\ TransOf(Append(c, Mined(h, t))) = TransOf(c) \o <<t>>
<1> DEFINE b == Mined(h, t)
           content(e) == e.trans[1].file.content
<1>1. b \in MinedBlocks /\ content(b) = t
  <2>1. b \in MinedBlocks
    BY SMT DEF MinedBlocks
  <2> QED BY <2>1, MinedFacts, Zenon
<1>2. ASSUME NEW d \in Chain
      PROVE  /\ TransOf(d) \in Seq(Transactions) /\ Len(TransOf(d)) = Len(d)
             /\ \A k \in 1 .. Len(d) : TransOf(d)[k] = content(d[k])
  BY TransOfFacts, Zenon
<1> HIDE DEF b, content
<1>3. /\ Append(c, b) \in Chain /\ Append(c, b) # <<>>
      /\ Len(Append(c, b)) = Len(c) + 1 /\ Len(c) \in Nat
      /\ Append(c, b)[Len(c) + 1] = b
      /\ \A k \in 1 .. Len(c) : Append(c, b)[k] = c[k]
  BY <1>1, AppendProperties, LenProperties DEF Chain
<1>4. TransOf(Append(c, b)) = TransOf(c) \o <<t>>
  <2>1. ASSUME NEW D \in Seq(Transactions)
        PROVE  /\ D \o <<t>> \in Seq(Transactions) /\ Len(D \o <<t>>) = Len(D) + 1
               /\ (D \o <<t>>)[Len(D) + 1] = t
               /\ \A k \in 1 .. Len(D) : (D \o <<t>>)[k] = D[k]
    BY <2>1
  <2>2. Len(TransOf(Append(c, b))) = Len(TransOf(c) \o <<t>>)
    BY <1>3, <1>2, <2>1, Zenon
  <2>3. ASSUME NEW k \in 1 .. Len(TransOf(Append(c, b)))
        PROVE  TransOf(Append(c, b))[k] = (TransOf(c) \o <<t>>)[k]
    <3>1. k \in 1 .. Len(c) + 1
      BY <1>3, <1>2, Zenon
    <3>2. TransOf(Append(c, b))[k] = content(Append(c, b)[k])
      BY <1>3, <1>2, Zenon
    <3>3. CASE k = Len(c) + 1
      <4>1. TransOf(c) \in Seq(Transactions) /\ Len(TransOf(c)) = Len(c)
        BY <1>2, Zenon
      <4>2. (TransOf(c) \o <<t>>)[Len(c) + 1] = t
        BY <2>1, <4>1, Zenon
      <4> QED BY <3>2, <3>3, <1>1, <1>3, <4>2, Zenon
    <3>4. CASE k \in 1 .. Len(c)
      BY <3>2, <3>4, <2>1, <1>3, <1>2, Zenon
    <3>5. \A n \in Nat : \A i \in 1 .. n + 1 : i = n + 1 \/ i \in 1 .. n
      BY SMT
    <3> QED BY <1>3, <3>1, <3>3, <3>4, <3>5, Zenon
  <2> QED BY <1>3, <1>2, <2>1, <2>2, <2>3, SeqEqual, Zenon
<1> QED BY <1>3, <1>2, <1>4 DEF b

(***************************************************************************)
(* Steps of a thread.                                                      *)
(***************************************************************************)
\* A thread that moves on keeps its block and leaves the others alone.
LEMMA MoveFacts ==
    ASSUME TypeInv, NEW m \in Threads, NEW to \in Steps \cup {"none"},
           miner' = [miner EXCEPT ![m].at = to]
    PROVE  /\ miner' \in [Threads -> MinerStates]
           /\ miner'[m].at = to /\ miner'[m].block = miner[m].block
           /\ \A n \in Threads \ {m} : miner'[n] = miner[n]
<1> USE DEF MinerStates
<1>1. miner \in [Threads -> MinerStates]
  BY DEF TypeInv
<1> HIDE DEF Steps
<1> QED BY <1>1, SMT

\* A thread that gets a new state leaves the others alone.
LEMMA PutFacts ==
    ASSUME TypeInv, NEW m \in Threads, NEW r \in MinerStates,
           miner' = [miner EXCEPT ![m] = r]
    PROVE  /\ miner' \in [Threads -> MinerStates]
           /\ miner'[m] = r
           /\ \A n \in Threads \ {m} : miner'[n] = miner[n]
<1>1. miner \in [Threads -> MinerStates]
  BY DEF TypeInv, MinerStates
<1> QED BY <1>1, SMT

\* The states that Idle, Copy and Work give to a thread.
LEMMA NewStates ==
    ASSUME TypeInv
    PROVE  /\ Idle \in MinerStates
           /\ [at |-> "clear", block |-> NewBlock(RootHash(local), transactions)] \in MinerStates
           /\ \A h \in Hashes : \A t \in Transactions :
                 [at |-> "add", block |-> Mined(h, t)] \in MinerStates
<1>1. <<>> \in Hashes /\ <<>> \in Lists
  BY SMT DEF Hashes, Lists
<1>2. RootHash(local) \in Hashes /\ transactions \in Lists
  BY RootHashFacts, Zenon DEF TypeInv
<1>3. ASSUME NEW h \in Hashes, NEW ts \in Lists PROVE NewBlock(h, ts) \in Builds
  BY SMT DEF Builds
<1>4. ASSUME NEW h \in Hashes, NEW t \in Transactions PROVE Mined(h, t) \in Builds
  BY SMT DEF Builds, MinedBlocks
<1>5. {"none", "clear", "add"} \subseteq Steps \cup {"none"}
  BY DEF Steps
<1> QED BY <1>1, <1>2, <1>3, <1>4, <1>5, Zenon DEF MinerStates, Idle, NoBlock

\* While a thread is at work no other is.
LEMMA Alone ==
    ASSUME TypeInv, FlagInv, NEW m \in Threads, miner[m].at # "none"
    PROVE  /\ up /\ state
           /\ \A n \in Threads \ {m} : miner[n].at = "none"
BY DEF FlagInv, At

\* Each step of a thread at work, but its last, goes from one of Steps to another.
LEMMA ThreadStep ==
    ASSUME TypeInv, FlagInv, NEW m \in Threads,
           \/ Copy(m) \/ Clear(m) \/ Work(m) \/ Add(m) \/ Remove(m)
           \/ Name(m) \/ Open(m) \/ Write(m)
    PROVE  /\ miner[m].at \in Steps /\ miner'[m].at \in Steps
           /\ \A n \in Threads \ {m} : miner'[n] = miner[n] /\ miner[n].at = "none"
           /\ UNCHANGED <<up, state, unstarted, failed, loaded, sending, newblock, accepted>>
<1>1. miner[m].at \in Steps /\ miner[m].at # "none"
  BY Zenon DEF Copy, Clear, Work, Add, Remove, Name, Open, Write, Moves, Steps
<1>2. \A n \in Threads \ {m} : miner[n].at = "none"
  BY <1>1, Alone, Zenon
<1>3. UNCHANGED <<up, state, unstarted, failed, loaded, sending, newblock, accepted>>
  BY Zenon DEF Copy, Clear, Work, Add, Remove, Name, Open, Write, loopVars, sharedVars, historyVars
<1>4. ASSUME NEW to \in Steps, miner' = [miner EXCEPT ![m].at = to]
      PROVE  miner'[m].at \in Steps /\ \A n \in Threads \ {m} : miner'[n] = miner[n]
  BY <1>4, MoveFacts, Zenon
<1>5. ASSUME NEW from, NEW to \in Steps, Moves(m, from, to)
      PROVE  miner'[m].at \in Steps /\ \A n \in Threads \ {m} : miner'[n] = miner[n]
  BY <1>4, <1>5, Zenon DEF Moves
<1>6. {"clear", "work", "add", "remove", "name", "open", "write", "end"} \subseteq Steps
  BY DEF Steps
<1>7. miner'[m].at \in Steps /\ \A n \in Threads \ {m} : miner'[n] = miner[n]
  <2>0. miner \in [Threads -> MinerStates]
    BY DEF TypeInv, MinerStates
  <2>1. CASE Copy(m)
    BY <2>0, <2>1, <1>6, SMT DEF Copy
  <2>2. CASE Work(m)
    BY <2>0, <2>2, <1>6, SMT DEF Work
  <2>3. CASE Clear(m)
    BY <2>3, <1>5, <1>6, Zenon DEF Clear
  <2>4. CASE Add(m)
    BY <2>4, <1>5, <1>6, Zenon DEF Add
  <2>5. CASE Remove(m)
    BY <2>5, <1>5, <1>6, Zenon DEF Remove
  <2>6. CASE Name(m)
    BY <2>6, <1>5, <1>6, Zenon DEF Name
  <2>7. CASE Open(m)
    BY <2>7, <1>5, <1>6, Zenon DEF Open
  <2>8. CASE Write(m)
    BY <2>8, <1>5, <1>6, Zenon DEF Write
  <2> QED BY <2>1, <2>2, <2>3, <2>4, <2>5, <2>6, <2>7, <2>8, Zenon
<1> QED BY <1>1, <1>2, <1>3, <1>7, Zenon

\* The last step of a thread, and its failure.
LEMMA ThreadEnds ==
    ASSUME TypeInv, FlagInv, NEW m \in Threads, End(m) \/ Fail(m)
    PROVE  /\ miner[m].at \in Steps /\ up /\ up' /\ state' = FALSE
           /\ \A n \in Threads : miner'[n].at = "none"
           /\ UNCHANGED <<unstarted, loaded, sending, accepted, transactions, local, file, dir, offered>>
           /\ miner' \in [Threads -> MinerStates]
<1>1. miner[m].at \in Steps /\ miner[m].at # "none"
  BY DEF End, Fail, Steps
<1>2. /\ up /\ up' = up /\ state' = FALSE /\ miner' = [miner EXCEPT ![m] = Idle]
      /\ UNCHANGED <<unstarted, loaded, sending, accepted, transactions, local, file, dir, offered>>
  BY DEF End, Fail, loopVars, historyVars
<1>3. /\ miner'[m] = Idle /\ \A n \in Threads \ {m} : miner'[n] = miner[n]
      /\ miner' \in [Threads -> MinerStates]
  BY <1>2, NewStates, PutFacts, Zenon
<1>4. Idle.at = "none"
  BY DEF Idle
<1> QED BY <1>1, <1>2, <1>3, <1>4, Alone, Zenon

\* Every step keeps the mining flag and the one miner together.
LEMMA FlagStep ==
    ASSUME TypeInv, FlagInv, [Next]_vars
    PROVE  FlagInv'
<1>1. CASE UNCHANGED <<up, state, miner, unstarted>>
  BY <1>1 DEF FlagInv, At
<1>2. CASE BlockMine
  <2>1. \A n \in Threads : miner[n].at = "none"
    BY <1>2 DEF FlagInv, At, BlockMine
  <2>2. CASE UNCHANGED miner /\ unstarted' = TRUE
    BY <1>2, <2>1, <2>2 DEF FlagInv, At, BlockMine, LoopFree
  <2>3. CASE \E m \in Threads : miner' = [miner EXCEPT ![m].at = "copy"]
    <3>1. PICK m \in Threads : miner' = [miner EXCEPT ![m].at = "copy"]
      BY <2>3, Zenon
    <3>2. miner'[m].at = "copy" /\ \A n \in Threads \ {m} : miner'[n] = miner[n]
      BY <3>1, MoveFacts, Zenon DEF Steps
    <3>3. up' /\ state'
      BY <1>2 DEF BlockMine, LoopFree
    <3> QED BY <2>1, <3>2, <3>3, Zenon DEF FlagInv, At
  <2> QED BY <1>2, <2>2, <2>3, Zenon DEF BlockMine
<1>3. ASSUME NEW m \in Threads, MinerStep(m), ~End(m)
      PROVE  FlagInv'
  <2>1. /\ miner[m].at \in Steps /\ miner'[m].at \in Steps
        /\ \A n \in Threads \ {m} : miner'[n] = miner[n] /\ miner[n].at = "none"
        /\ UNCHANGED <<up, state, unstarted>>
    BY <1>3, ThreadStep, Zenon DEF MinerStep
  <2>2. "none" \notin Steps
    BY DEF Steps
  <2>3. up /\ state
    BY <2>1, <2>2, Alone, Zenon
  <2>4. /\ miner'[m].at # "none" /\ up' /\ state'
        /\ \A n \in Threads \ {m} : miner'[n].at = "none"
    BY <2>1, <2>2, <2>3, Zenon
  <2> QED BY <2>4 DEF FlagInv, At
<1>4. ASSUME NEW m \in Threads, End(m) \/ Fail(m)
      PROVE  FlagInv'
  BY <1>4, ThreadEnds, Zenon DEF FlagInv, At
<1>5. CASE Crash
  BY <1>5 DEF Crash, FlagInv, At, Idle
<1>6. CASE Restart
  BY <1>6 DEF Restart, FlagInv, At
<1>7. ASSUME NEW t \in Transactions, TransactionAdd(t) \/ TransactionShare(t)
      PROVE  UNCHANGED <<up, state, miner, unstarted>>
  BY <1>7 DEF TransactionAdd, TransactionShare, Queue, loopVars
<1>8. ASSUME NEW p \in Peers, BlockSend(p) \/ Hello(p)
      PROVE  UNCHANGED <<up, state, miner, unstarted>>
  BY <1>8 DEF BlockSend, Hello, sharedVars
<1>9. ASSUME Advertise \/ UNCHANGED vars
      PROVE  UNCHANGED <<up, state, miner, unstarted>>
  BY <1>9 DEF Advertise, vars
<1> QED BY <1>1, <1>2, <1>3, <1>4, <1>5, <1>6, <1>7, <1>8, <1>9, Zenon DEF Next

(***************************************************************************)
(* Types.                                                                  *)
(***************************************************************************)
\* What os.blockfile finds at the start.
LEMMA BlockFileFacts ==
    ASSUME dir \subseteq Entries
    PROVE  /\ BlockFile.name \in Hashes /\ BlockFile.data \in Chain
           /\ dir = {} => BlockFile.data = <<>> /\ BlockFile.name = <<>> /\ BlockFile.whole
           /\ dir # {} => BlockFile \in dir
<1>1. <<>> \in Hashes /\ <<>> \in Chain
  BY DEF Hashes, Chain
<1>2. CASE dir = {}
  BY <1>1, <1>2, Zenon DEF BlockFile
<1>3. CASE dir # {}
  <2>1. BlockFile \in dir
    BY <1>3, Zenon DEF BlockFile
  <2> QED BY <1>3, <2>1, Zenon DEF Entries
<1> QED BY <1>2, <1>3, Zenon

\* The directory after the block file is created and after it is written.
LEMMA StoredFacts ==
    ASSUME dir \subseteq Entries, file \in Hashes, NEW whole \in BOOLEAN, NEW data \in Chain
    PROVE  Stored(whole, data) \subseteq Entries
<1>1. [name |-> file, whole |-> whole, data |-> data] \in Entries
  BY Zenon DEF Entries
<1>2. {f \in dir : f.name # file} \subseteq Entries
  BY Zenon
<1> QED BY <1>1, <1>2, Zenon DEF Stored

\* Every step keeps the variables in their types.
LEMMA TypeStep ==
    ASSUME TypeInv, FlagInv, BuildInv, [Next]_vars
    PROVE  TypeInv'
<1> USE DEF loopVars, sharedVars, historyVars
<1>0. /\ <<>> \in Lists /\ <<>> \in Hashes /\ <<>> \in Chain
      /\ TRUE \in BOOLEAN /\ FALSE \in BOOLEAN
  BY DEF Lists, Hashes, Chain
<1>1. ASSUME NEW t \in Transactions, Queue(t)
      PROVE  TypeInv'
  <2>1. transactions' = <<NewTransaction(t)>>
    BY <1>1 DEF Queue, Accepts
  <2>2. transactions' \in Lists /\ accepted' \in Seq(Transactions)
    BY <1>1, <2>1 DEF Lists, Queue, TypeInv
  <2> QED BY <1>1, <2>2 DEF Queue, TypeInv
<1>2. CASE BlockMine
  <2>1. miner' \in [Threads -> MinerStates]
    <3>1. CASE \E m \in Threads : miner' = [miner EXCEPT ![m].at = "copy"]
      BY <3>1, MoveFacts, Zenon DEF Steps
    <3>2. CASE miner' = miner
      BY <3>2 DEF TypeInv
    <3> QED BY <1>2, <3>1, <3>2 DEF BlockMine
  <2> QED BY <1>0, <1>2, <2>1, Zenon DEF BlockMine, TypeInv
<1>3. CASE Advertise
  BY <1>0, <1>3, Zenon DEF Advertise, TypeInv
<1>4. ASSUME NEW p \in Peers, BlockSend(p) \/ Hello(p)
      PROVE  TypeInv'
  BY <1>4 DEF BlockSend, Hello, Offered, TypeInv
<1>5. ASSUME NEW m \in Threads, NEW from, NEW to \in Steps, Moves(m, from, to)
      PROVE  miner' \in [Threads -> MinerStates]
  BY <1>5, MoveFacts, Zenon DEF Moves
<1>6. {"clear", "work", "add", "remove", "name", "open", "write", "end"} \subseteq Steps
  BY DEF Steps
<1>7. ASSUME NEW m \in Threads, Copy(m)
      PROVE  TypeInv'
  <2>1. miner' \in [Threads -> MinerStates]
    BY <1>7, NewStates, PutFacts, Zenon DEF Copy
  <2> QED BY <1>7, <2>1 DEF Copy, TypeInv
<1>8. ASSUME NEW m \in Threads, Clear(m)
      PROVE  TypeInv'
  <2>1. miner' \in [Threads -> MinerStates]
    BY <1>5, <1>6, <1>8, Zenon DEF Clear
  <2> QED BY <1>0, <1>8, <2>1 DEF Clear, TypeInv
<1>9. ASSUME NEW m \in Threads, Work(m)
      PROVE  TypeInv'
  <2>1. PICK t \in Transactions : miner[m].block = NewBlock(RootHash(local), <<NewTransaction(t)>>)
    BY <1>9, Zenon DEF Work, BuildInv, BuildOf, At
  <2>2. RootHash(local) \in Hashes
    BY RootHashFacts, Zenon DEF TypeInv
  <2>3. miner' = [miner EXCEPT ![m] = [at |-> "add", block |-> Mined(RootHash(local), t)]]
    BY <1>9, <2>1, Zenon DEF Work, Mined
  <2>4. miner' \in [Threads -> MinerStates]
    BY <2>2, <2>3, NewStates, PutFacts, Zenon
  <2> QED BY <1>9, <2>4 DEF Work, TypeInv
<1>10. ASSUME NEW m \in Threads, Add(m)
       PROVE  TypeInv'
  <2>1. PICK t \in Transactions : miner[m].block = Mined(RootHash(local), t)
    BY <1>10, Zenon DEF Add, Moves, BuildInv, BuildOf, At
  <2>2. RootHash(local) \in Hashes
    BY RootHashFacts, Zenon DEF TypeInv
  <2>3. local' \in Chain
    BY <1>10, <2>1, <2>2, ChainGrows, Zenon DEF Add, TypeInv
  <2>4. miner' \in [Threads -> MinerStates]
    BY <1>5, <1>6, <1>10, Zenon DEF Add
  <2> QED BY <1>10, <2>3, <2>4 DEF Add, TypeInv
<1>11. ASSUME NEW m \in Threads, Remove(m)
       PROVE  TypeInv'
  <2>1. miner' \in [Threads -> MinerStates]
    BY <1>5, <1>6, <1>11, Zenon DEF Remove
  <2> QED BY <1>11, <2>1 DEF Remove, TypeInv
<1>12. ASSUME NEW m \in Threads, Name(m)
       PROVE  TypeInv'
  <2>1. miner' \in [Threads -> MinerStates]
    BY <1>5, <1>6, <1>12, Zenon DEF Name
  <2>2. file' \in Hashes
    BY <1>12, RootHashFacts, Zenon DEF Name, TypeInv
  <2> QED BY <1>12, <2>1, <2>2 DEF Name, TypeInv
<1>13. ASSUME NEW m \in Threads, Open(m) \/ Write(m)
       PROVE  TypeInv'
  <2>1. miner' \in [Threads -> MinerStates]
    BY <1>5, <1>6, <1>13, Zenon DEF Open, Write
  <2>2. dir' \subseteq Entries
    BY <1>0, <1>13, StoredFacts, Zenon DEF Open, Write, TypeInv
  <2> QED BY <1>13, <2>1, <2>2, Zenon DEF Open, Write, TypeInv
<1>14. ASSUME NEW m \in Threads, End(m) \/ Fail(m)
       PROVE  TypeInv'
  <2>1. newblock' \in BOOLEAN /\ failed' \in BOOLEAN
    BY <1>0, <1>14, Zenon DEF End, Fail, TypeInv
  <2> QED BY <1>0, <1>14, <2>1, ThreadEnds, Zenon DEF TypeInv
<1>15. CASE Crash
  <2>1. miner' \in [Threads -> MinerStates]
    BY <1>15, NewStates, Zenon DEF Crash
  <2> QED BY <1>0, <1>15, <2>1, Zenon DEF Crash, TypeInv
<1>16. CASE Restart
  <2>1. BlockFile.name \in Hashes /\ BlockFile.data \in Chain
    BY BlockFileFacts, Zenon DEF TypeInv
  <2>2. TransOf(BlockFile.data) \in Seq(Transactions)
    BY <2>1, TransOfFacts, Zenon
  <2> QED BY <1>0, <1>16, <2>1, <2>2, Zenon DEF Restart, TypeInv
<1>17. CASE UNCHANGED vars
  BY <1>17 DEF vars, TypeInv
<1> QED
  BY <1>1, <1>2, <1>3, <1>4, <1>7, <1>8, <1>9, <1>10, <1>11, <1>12, <1>13, <1>14, <1>15, <1>16,
     <1>17, Zenon DEF Next, TransactionAdd, TransactionShare, MinerStep

(***************************************************************************)
(* The block in work.                                                      *)
(***************************************************************************)
\* Every step keeps what the miner has built so far in line with where it is.
LEMMA BuildStep ==
    ASSUME TypeInv, FlagInv, BuildInv, [Next]_vars
    PROVE  BuildInv'
<1> USE DEF loopVars, sharedVars, historyVars
<1>1. ASSUME NEW n \in Threads, miner'[n].at = "none"
      PROVE  BuildOf(n)'
  BY <1>1 DEF BuildOf, At, Steps
<1>2. ASSUME NEW m \in Threads, up', BuildOf(m)',
             \A n \in Threads \ {m} : miner'[n].at = "none"
      PROVE  BuildInv'
  BY <1>1, <1>2, Zenon DEF BuildInv
<1>3. ASSUME \A n \in Threads : miner'[n].at = "none", up' \/ transactions' = <<>>
      PROVE  BuildInv'
  BY <1>1, <1>3, Zenon DEF BuildInv
<1>4. CASE UNCHANGED <<up, miner, transactions, local>>
  BY <1>4 DEF BuildInv, BuildOf, At
<1>5. ASSUME NEW t \in Transactions, Queue(t)
      PROVE  BuildInv'
  <2>1. \A n \in Threads : miner[n].at = "none"
    BY <1>5 DEF Queue, Accepts, FlagInv, At
  <2> QED BY <1>3, <1>5, <2>1, Zenon DEF Queue, LoopFree
<1>6. CASE BlockMine
  <2>1. \A n \in Threads : miner[n].at = "none"
    BY <1>6 DEF BlockMine, FlagInv, At
  <2>2. up' /\ transactions' = transactions /\ transactions # <<>>
    BY <1>6 DEF BlockMine, LoopFree
  <2>3. CASE miner' = miner
    BY <1>3, <2>1, <2>2, <2>3, Zenon
  <2>4. CASE \E m \in Threads : miner' = [miner EXCEPT ![m].at = "copy"]
    <3>1. PICK m \in Threads : miner' = [miner EXCEPT ![m].at = "copy"]
      BY <2>4, Zenon
    <3>2. miner'[m].at = "copy" /\ \A n \in Threads \ {m} : miner'[n] = miner[n]
      BY <3>1, MoveFacts, Zenon DEF Steps
    <3>3. BuildOf(m)'
      BY <2>2, <3>2 DEF BuildOf, At
    <3> QED BY <1>2, <2>1, <2>2, <3>2, <3>3, Zenon
  <2> QED BY <1>6, <2>3, <2>4 DEF BlockMine
<1>7. ASSUME NEW m \in Threads, MinerStep(m), ~End(m), BuildOf(m)'
      PROVE  BuildInv'
  <2>1. /\ up' = up /\ miner[m].at \in Steps
        /\ \A n \in Threads \ {m} : miner'[n] = miner[n] /\ miner[n].at = "none"
    BY <1>7, ThreadStep, Zenon DEF MinerStep
  <2>2. up
    BY <2>1, Alone DEF Steps
  <2> QED BY <1>2, <1>7, <2>1, <2>2, Zenon
<1>8. ASSUME NEW m \in Threads, Copy(m)
      PROVE  BuildOf(m)'
  <2>1. miner'[m] = [at |-> "clear", block |-> NewBlock(RootHash(local), transactions)]
    BY <1>8, NewStates, PutFacts, Zenon DEF Copy
  <2>2. transactions # <<>> /\ UNCHANGED <<local, transactions>>
    BY <1>8 DEF Copy, BuildInv, BuildOf, At
  <2> QED BY <2>1, <2>2 DEF BuildOf, At
<1>9. ASSUME NEW m \in Threads, Clear(m)
      PROVE  BuildOf(m)'
  <2>1. miner'[m].at = "work" /\ miner'[m].block = miner[m].block
    BY <1>9, MoveFacts, Zenon DEF Clear, Moves, Steps
  <2>2. miner[m].block = NewBlock(RootHash(local), transactions) /\ transactions # <<>>
    BY <1>9 DEF Clear, Moves, BuildInv, BuildOf, At
  <2>3. PICK t \in Transactions : transactions = <<NewTransaction(t)>>
    BY <2>2 DEF TypeInv, Lists
  <2>4. transactions' = <<>> /\ local' = local
    BY <1>9 DEF Clear
  <2> QED BY <2>1, <2>2, <2>3, <2>4, Zenon DEF BuildOf, At
<1>10. ASSUME NEW m \in Threads, Work(m)
       PROVE  BuildOf(m)'
  <2>1. PICK t \in Transactions : miner[m].block = NewBlock(RootHash(local), <<NewTransaction(t)>>)
    BY <1>10, Zenon DEF Work, BuildInv, BuildOf, At
  <2>2. RootHash(local) \in Hashes
    BY RootHashFacts, Zenon DEF TypeInv
  <2>3. miner' = [miner EXCEPT ![m] = [at |-> "add", block |-> Mined(RootHash(local), t)]]
    BY <1>10, <2>1, Zenon DEF Work, Mined
  <2>4. miner'[m] = [at |-> "add", block |-> Mined(RootHash(local), t)]
    BY <2>2, <2>3, NewStates, PutFacts, Zenon
  <2>5. transactions = <<>> /\ UNCHANGED <<local, transactions>>
    BY <1>10 DEF Work, BuildInv, BuildOf, At, Steps
  <2> QED BY <2>4, <2>5 DEF BuildOf, At
<1>11. ASSUME NEW m \in Threads, Add(m)
       PROVE  BuildOf(m)'
  <2>1. PICK t \in Transactions : miner[m].block = Mined(RootHash(local), t)
    BY <1>11, Zenon DEF Add, Moves, BuildInv, BuildOf, At
  <2>2. local' # <<>>
    BY <1>11, <2>1, RootHashFacts, ChainGrows, Zenon DEF Add, TypeInv
  <2>3. miner'[m].at = "remove"
    BY <1>11, MoveFacts, Zenon DEF Add, Moves, Steps
  <2>4. transactions = <<>> /\ transactions' = transactions
    BY <1>11 DEF Add, Moves, BuildInv, BuildOf, At, Steps
  <2> QED BY <2>2, <2>3, <2>4 DEF BuildOf, At
<1>12. ASSUME NEW m \in Threads, Remove(m) \/ Name(m) \/ Open(m) \/ Write(m)
       PROVE  BuildOf(m)'
  <2>1. miner'[m].at \in {"name", "open", "write", "end"}
    BY <1>12, MoveFacts, Zenon DEF Remove, Name, Open, Write, Moves, Steps
  <2>2. /\ transactions = <<>> /\ local # <<>>
    BY <1>12, Zenon DEF Remove, Name, Open, Write, Moves, BuildInv, BuildOf, At, Steps
  <2>3. UNCHANGED <<transactions, local>>
    BY <1>12, Zenon DEF Remove, Name, Open, Write
  <2> QED BY <2>1, <2>2, <2>3, Zenon DEF BuildOf, At
<1>13. ASSUME NEW m \in Threads, End(m) \/ Fail(m)
       PROVE  BuildInv'
  BY <1>3, <1>13, ThreadEnds, Zenon
<1>14. CASE Crash
  <2>1. \A n \in Threads : miner'[n].at = "none"
    BY <1>14 DEF Crash, Idle
  <2> QED BY <1>3, <1>14, <2>1, Zenon DEF Crash
<1>15. CASE Restart
  <2>1. \A n \in Threads : miner'[n].at = "none"
    BY <1>15 DEF Restart, FlagInv, At
  <2> QED BY <1>3, <1>15, <2>1, Zenon DEF Restart
<1>16. ASSUME NEW p \in Peers, BlockSend(p) \/ Hello(p)
       PROVE  UNCHANGED <<up, miner, transactions, local>>
  BY <1>16 DEF BlockSend, Hello
<1>17. ASSUME Advertise \/ UNCHANGED vars
       PROVE  UNCHANGED <<up, miner, transactions, local>>
  BY <1>17 DEF Advertise, vars
<1>18. ASSUME NEW m \in Threads, MinerStep(m)
       PROVE  BuildInv'
  BY <1>7, <1>8, <1>9, <1>10, <1>11, <1>12, <1>13, <1>18, Zenon DEF MinerStep
<1> QED
  BY <1>4, <1>5, <1>6, <1>13, <1>14, <1>15, <1>16, <1>17, <1>18, Zenon
  DEF Next, TransactionAdd, TransactionShare

(***************************************************************************)
(* No transaction is lost.                                                 *)
(***************************************************************************)
\* What the thread at work has taken over, before and after a step.
LEMMA InWorkNow ==
    /\ (\A n \in Threads : miner[n].at = "none") => InWork = <<>>
    /\ \A m \in Threads :
          miner[m].at # "none" /\ (\A n \in Threads \ {m} : miner[n].at = "none")
             => InWork = Held(m)
<1>1. ASSUME \A n \in Threads : miner[n].at = "none" PROVE InWork = <<>>
  BY <1>1 DEF InWork, Working
<1>2. ASSUME NEW m \in Threads, miner[m].at # "none",
             \A n \in Threads \ {m} : miner[n].at = "none"
      PROVE  InWork = Held(m)
  <2>1. Working = {m}
    BY <1>2 DEF Working
  <2>2. (CHOOSE n \in Working : TRUE) = m
    BY <2>1, Zenon
  <2> QED BY <2>1, <2>2, Zenon DEF InWork
<1> QED BY <1>1, <1>2, Zenon

\* What is in work after a step is what the one miner holds, if there is one.
LEMMA InWorkNext ==
    /\ (\A n \in Threads : miner'[n].at = "none") => InWork' = <<>>
    /\ \A m \in Threads :
          miner'[m].at # "none" /\ (\A n \in Threads \ {m} : miner'[n].at = "none")
             => InWork' = Held(m)'
<1>1. ASSUME \A n \in Threads : miner'[n].at = "none" PROVE InWork' = <<>>
  BY <1>1 DEF InWork, Working
<1>2. ASSUME NEW m \in Threads, miner'[m].at # "none",
             \A n \in Threads \ {m} : miner'[n].at = "none"
      PROVE  InWork' = Held(m)'
  <2>1. Working' = {m}
    BY <1>2 DEF Working
  <2>2. (CHOOSE n \in Working' : TRUE) = m
    BY <2>1, Zenon
  <2>3. Working' # {}
    BY <2>1
  <2> QED BY <2>2, <2>3, Zenon DEF InWork, Held
<1> QED BY <1>1, <1>2, Zenon

\* Moving a transaction from the list to the block to the chain keeps the order.
LEMMA AccountFacts ==
    ASSUME NEW s \in Seq(Transactions), NEW t \in Transactions
    PROVE  /\ s \o <<>> \o <<>> = s
           /\ s \o <<>> \o <<t>> = s \o <<t>>
           /\ s \o <<t>> \o <<>> = s \o <<t>>
           /\ (s \o <<t>>) \o <<>> \o <<>> = s \o <<t>>
           /\ Append(s, t) = s \o <<t>>
<1>1. s \o <<>> = s /\ s \o <<t>> \in Seq(Transactions)
  BY ConcatEmptySeq, ConcatProperties
<1>2. (s \o <<t>>) \o <<>> = s \o <<t>>
  BY <1>1, ConcatEmptySeq, Zenon
<1> QED BY <1>1, <1>2, AppendIsConcat, Zenon

\* No step loses a transaction or stores it twice.
LEMMA LostStep ==
    ASSUME TypeInv, FlagInv, BuildInv, NothingLost, [Next]_vars
    PROVE  NothingLost'
<1> USE DEF loopVars, sharedVars, historyVars
<1>0. /\ TransOf(local) \in Seq(Transactions) /\ accepted \in Seq(Transactions)
      /\ Contents(<<>>) = <<>>
  BY TransOfFacts, ContentsFacts, Zenon DEF TypeInv
<1>1. ASSUME up', ~failed', up, ~failed, InWork' = InWork, UNCHANGED <<local, transactions, accepted>>
      PROVE  NothingLost'
  <2>1. TransOf(local') = TransOf(local) /\ Contents(transactions') = Contents(transactions)
    BY <1>1, Zenon
  <2> QED BY <1>1, <2>1, Zenon DEF NothingLost
<1>2. ASSUME NEW t \in Transactions, Queue(t)
      PROVE  NothingLost'
  <2>1. \A n \in Threads : miner[n].at = "none" /\ miner'[n].at = "none"
    BY <1>2 DEF Queue, Accepts, FlagInv, At
  <2>2. InWork = <<>> /\ InWork' = <<>>
    BY <2>1, InWorkNow, InWorkNext, Zenon
  <2>3. transactions = <<>> /\ transactions' = <<NewTransaction(t)>>
    BY <1>2 DEF Queue, Accepts
  <2>4. Contents(transactions') = <<t>> /\ TransOf(local') = TransOf(local)
    BY <1>2, <2>3, ContentsFacts, Zenon DEF Queue
  <2>5. accepted' = Append(accepted, t) /\ UNCHANGED <<up, failed>>
    BY <1>2 DEF Queue
  <2>6. up /\ ~failed => accepted = TransOf(local)
    BY <1>0, <2>2, <2>3, AccountFacts, Zenon DEF NothingLost
  <2>7. TransOf(local) \o <<>> \o <<t>> = Append(TransOf(local), t)
    BY <1>0, AccountFacts, Zenon
  <2> QED BY <2>2, <2>4, <2>5, <2>6, <2>7, Zenon DEF NothingLost
<1>3. CASE BlockMine
  <2>1. \A n \in Threads : miner[n].at = "none"
    BY <1>3 DEF BlockMine, FlagInv, At
  <2>2. InWork' = <<>>
    <3>1. CASE miner' = miner
      BY <2>1, <3>1, InWorkNext, Zenon
    <3>2. CASE \E m \in Threads : miner' = [miner EXCEPT ![m].at = "copy"]
      <4>1. PICK m \in Threads : miner' = [miner EXCEPT ![m].at = "copy"]
        BY <3>2, Zenon
      <4>2. miner'[m].at = "copy" /\ \A n \in Threads \ {m} : miner'[n] = miner[n]
        BY <4>1, MoveFacts, Zenon DEF Steps
      <4>3. Held(m)' = <<>> /\ miner'[m].at # "none"
        BY <4>2 DEF Held
      <4> QED BY <2>1, <4>2, <4>3, InWorkNext, Zenon
    <3> QED BY <1>3, <3>1, <3>2, Zenon DEF BlockMine
  <2>3. InWork = <<>>
    BY <2>1, InWorkNow, Zenon
  <2>4. UNCHANGED <<up, failed, local, transactions, accepted>>
    BY <1>3 DEF BlockMine
  <2> QED BY <1>1, <2>2, <2>3, <2>4, Zenon DEF NothingLost
<1>4. ASSUME NEW m \in Threads, MinerStep(m), ~End(m)
      PROVE  /\ InWork = Held(m) /\ InWork' = Held(m)' /\ up /\ up' = up
             /\ failed' = failed /\ accepted' = accepted
  <2>1. /\ miner[m].at \in Steps /\ miner'[m].at \in Steps
        /\ \A n \in Threads \ {m} : miner'[n] = miner[n] /\ miner[n].at = "none"
        /\ UNCHANGED <<up, failed, accepted>>
    BY <1>4, ThreadStep, Zenon DEF MinerStep
  <2>2. "none" \notin Steps
    BY DEF Steps
  <2> QED BY <2>1, <2>2, Alone, InWorkNow, InWorkNext, Zenon
<1>5. ASSUME NEW m \in Threads, MinerStep(m), ~End(m), Held(m)' = Held(m),
             UNCHANGED <<local, transactions>>
      PROVE  NothingLost'
  BY <1>1, <1>4, <1>5, Zenon DEF NothingLost
<1>6. ASSUME NEW m \in Threads, Copy(m)
      PROVE  NothingLost'
  <2>1. miner[m].at = "copy" /\ miner'[m].at = "clear"
    <3>1. miner'[m] = [at |-> "clear", block |-> NewBlock(RootHash(local), transactions)]
      BY <1>6, NewStates, PutFacts, Zenon DEF Copy
    <3> QED BY <1>6, <3>1 DEF Copy
  <2>2. Held(m) = <<>> /\ Held(m)' = <<>>
    BY <2>1 DEF Held
  <2>3. ~End(m) /\ UNCHANGED <<local, transactions>>
    BY <1>6 DEF Copy, End
  <2> QED BY <1>5, <1>6, <2>2, <2>3, Zenon DEF MinerStep
<1>7. ASSUME NEW m \in Threads, Clear(m)
      PROVE  NothingLost'
  <2>1. miner[m].at = "clear" /\ miner'[m].at = "work" /\ miner'[m].block = miner[m].block
    BY <1>7, MoveFacts, Zenon DEF Clear, Moves, Steps
  <2>2. miner[m].block = NewBlock(RootHash(local), transactions) /\ transactions # <<>>
    BY <2>1 DEF BuildInv, BuildOf, At
  <2>3. PICK t \in Transactions : transactions = <<NewTransaction(t)>>
    BY <2>2 DEF TypeInv, Lists
  <2>4. miner'[m].block.trans = <<NewTransaction(t)>>
    BY <2>1, <2>2, <2>3 DEF NewBlock
  <2>5. Held(m) = <<>> /\ Held(m)' = <<t>>
    BY <2>1, <2>4, ContentsFacts DEF Held
  <2>6. /\ transactions' = <<>> /\ TransOf(local') = TransOf(local) /\ ~End(m)
        /\ Contents(transactions) = <<t>> /\ Contents(transactions') = <<>>
    BY <1>0, <1>7, <2>1, <2>3, ContentsFacts, Zenon DEF Clear, End
  <2>7. TransOf(local) \o <<t>> \o <<>> = TransOf(local) \o <<>> \o <<t>>
    BY <1>0, AccountFacts, Zenon
  <2> QED BY <1>4, <1>7, <2>5, <2>6, <2>7, Zenon DEF NothingLost, MinerStep
<1>8. ASSUME NEW m \in Threads, Work(m)
      PROVE  NothingLost'
  <2>1. PICK t \in Transactions : miner[m].block = NewBlock(RootHash(local), <<NewTransaction(t)>>)
    BY <1>8, Zenon DEF Work, BuildInv, BuildOf, At
  <2>2. RootHash(local) \in Hashes
    BY RootHashFacts, Zenon DEF TypeInv
  <2>3. miner' = [miner EXCEPT ![m] = [at |-> "add", block |-> Mined(RootHash(local), t)]]
    BY <1>8, <2>1, Zenon DEF Work, Mined
  <2>4. miner'[m] = [at |-> "add", block |-> Mined(RootHash(local), t)]
    BY <2>2, <2>3, NewStates, PutFacts, Zenon
  <2>5. miner[m].at = "work" /\ miner[m].block.trans = <<NewTransaction(t)>>
    BY <1>8, <2>1 DEF Work, NewBlock
  <2>6. Held(m) = <<t>>
    BY <2>5, ContentsFacts, Zenon DEF Held
  <2>7. Held(m)' = <<t>>
    <3>1. miner'[m].at = "add" /\ miner'[m].block = Mined(RootHash(local), t)
      BY <2>4
    <3>2. Contents(miner'[m].block.trans) = <<t>>
      BY <2>2, <3>1, ContentsFacts, Zenon
    <3> QED BY <3>1, <3>2, Zenon DEF Held
  <2>8. ~End(m) /\ UNCHANGED <<local, transactions>>
    BY <1>8 DEF Work, End
  <2> QED BY <1>5, <1>8, <2>6, <2>7, <2>8, Zenon DEF MinerStep
<1>9. ASSUME NEW m \in Threads, Add(m)
      PROVE  NothingLost'
  <2>1. PICK t \in Transactions : miner[m].block = Mined(RootHash(local), t)
    BY <1>9, Zenon DEF Add, Moves, BuildInv, BuildOf, At
  <2>2. RootHash(local) \in Hashes
    BY RootHashFacts, Zenon DEF TypeInv
  <2>3. TransOf(local') = TransOf(local) \o <<t>>
    <3>1. local \in Chain /\ local' = Append(local, Mined(RootHash(local), t))
      BY <1>9, <2>1, Zenon DEF Add, TypeInv
    <3> QED BY <2>2, <3>1, ChainGrows, Zenon
  <2>4. miner[m].at = "add" /\ miner'[m].at = "remove"
    BY <1>9, MoveFacts, Zenon DEF Add, Moves, Steps
  <2>5. Contents(miner[m].block.trans) = <<t>>
    BY <2>1, <2>2, ContentsFacts, Zenon
  <2>6. Held(m) = <<t>> /\ Held(m)' = <<>>
    BY <2>4, <2>5, Zenon DEF Held
  <2>7. transactions = <<>> /\ transactions' = <<>>
    BY <1>9, <2>4 DEF Add, BuildInv, BuildOf, At, Steps
  <2>8. ~End(m)
    BY <2>4 DEF End
  <2>9. (TransOf(local) \o <<t>>) \o <<>> \o <<>> = TransOf(local) \o <<t>> \o <<>>
    BY <1>0, AccountFacts, Zenon
  <2>10. Contents(transactions) = <<>> /\ Contents(transactions') = <<>>
    BY <1>0, <2>7, Zenon
  <2> QED BY <1>4, <1>9, <2>3, <2>6, <2>8, <2>9, <2>10, Zenon DEF NothingLost, MinerStep
<1>10. ASSUME NEW m \in Threads, Remove(m) \/ Name(m) \/ Open(m) \/ Write(m)
       PROVE  NothingLost'
  <2>1. /\ miner[m].at \in {"remove", "name", "open", "write"}
        /\ miner'[m].at \in {"name", "open", "write", "end"}
    BY <1>10, MoveFacts, Zenon DEF Remove, Name, Open, Write, Moves, Steps
  <2>2. Held(m) = <<>> /\ Held(m)' = <<>>
    BY <2>1 DEF Held
  <2>3. ~End(m) /\ UNCHANGED <<local, transactions>>
    BY <1>10, <2>1, Zenon DEF Remove, Name, Open, Write, End
  <2> QED BY <1>5, <1>10, <2>2, <2>3, Zenon DEF MinerStep
<1>11. ASSUME NEW m \in Threads, End(m)
       PROVE  NothingLost'
  <2>1. miner[m].at = "end" /\ failed' = failed
    BY <1>11 DEF End
  <2>2. /\ up /\ up' /\ \A n \in Threads : miner'[n].at = "none"
        /\ UNCHANGED <<accepted, transactions, local>>
    BY <1>11, ThreadEnds, Zenon
  <2>3. InWork' = <<>>
    BY <2>2, InWorkNext, Zenon
  <2>4. InWork = Held(m)
    BY <2>1, Alone, InWorkNow
  <2>5. Held(m) = <<>>
    BY <2>1 DEF Held
  <2> QED BY <1>1, <2>1, <2>2, <2>3, <2>4, <2>5, Zenon DEF NothingLost
<1>12. ASSUME NEW m \in Threads, Fail(m)
       PROVE  NothingLost'
  BY <1>12 DEF Fail, NothingLost
<1>13. CASE Crash
  BY <1>13 DEF Crash, NothingLost
<1>14. CASE Restart
  <2>1. \A n \in Threads : miner'[n].at = "none"
    BY <1>14 DEF Restart, FlagInv, At
  <2>2. InWork' = <<>> /\ transactions' = <<>>
    BY <1>14, <2>1, InWorkNext, Zenon DEF Restart, BuildInv
  <2>3. BlockFile.data \in Chain
    BY BlockFileFacts, Zenon DEF TypeInv
  <2>4. local' = BlockFile.data /\ accepted' = TransOf(BlockFile.data)
    BY <1>14 DEF Restart
  <2>5. TransOf(local') \in Seq(Transactions)
    BY <2>3, <2>4, TransOfFacts, Zenon
  <2>6. TransOf(local') \o <<>> \o <<>> = TransOf(local')
    BY <2>5, ConcatEmptySeq, Zenon
  <2> QED BY <1>0, <2>2, <2>4, <2>6, Zenon DEF NothingLost
<1>15. ASSUME UNCHANGED <<up, failed, miner, transactions, local, accepted>>
       PROVE  NothingLost'
  BY <1>15, Zenon DEF NothingLost, InWork, Working, Held
<1>16. ASSUME NEW p \in Peers, BlockSend(p) \/ Hello(p)
       PROVE  NothingLost'
  BY <1>15, <1>16 DEF BlockSend, Hello
<1>17. ASSUME Advertise \/ UNCHANGED vars
       PROVE  NothingLost'
  BY <1>15, <1>17 DEF Advertise, vars
<1> QED
  BY <1>2, <1>3, <1>6, <1>7, <1>8, <1>9, <1>10, <1>11, <1>12, <1>13, <1>14, <1>16, <1>17, Zenon
  DEF Next, TransactionAdd, TransactionShare, MinerStep

(***************************************************************************)
(* Theorems.                                                               *)
(***************************************************************************)
\* The invariant of the block in work holds at the start.
LEMMA WorkInit == Init => WorkInv
<1> SUFFICES ASSUME Init PROVE WorkInv
  OBVIOUS
<1>1. <<>> \in Lists /\ <<>> \in Hashes /\ <<>> \in Chain /\ <<>> \in Seq(Transactions)
  BY DEF Lists, Hashes, Chain
<1>2. \A n \in Threads : miner[n] = Idle /\ miner[n].at = "none"
  BY DEF Init, Idle
<1>3. Idle \in MinerStates
  <2>1. NewBlock(<<>>, <<>>) \in Builds
    BY <1>1, SMT DEF Builds
  <2> QED BY <2>1, Zenon DEF Idle, NoBlock, MinerStates
<1>4. TypeInv
  BY <1>1, <1>3, Zenon DEF Init, TypeInv
<1>5. FlagInv
  BY <1>2 DEF Init, FlagInv, At
<1>6. BuildInv
  BY <1>2 DEF Init, BuildInv, BuildOf, At, Steps
<1>7. NothingLost
  <2>1. InWork = <<>> /\ Contents(<<>>) = <<>>
    BY <1>2, InWorkNow, ContentsFacts, Zenon
  <2>2. TransOf(<<>>) = <<>>
    BY DEF TransOf
  <2>3. <<>> \o <<>> \o <<>> = <<>>
    BY <1>1, ConcatEmptySeq, Zenon
  <2> QED BY <2>1, <2>2, <2>3, Zenon DEF Init, NothingLost
<1> QED BY <1>4, <1>5, <1>6, <1>7 DEF WorkInv

\* The lock of the miner, the block it builds and the account of transactions hold
\* in every reachable state of distfs.c.
THEOREM WorkInvariant == Spec => []WorkInv
<1>1. Init => WorkInv
  BY WorkInit
<1>2. WorkInv /\ [Next]_vars => WorkInv'
  BY TypeStep, FlagStep, BuildStep, LostStep DEF WorkInv
<1> QED BY <1>1, <1>2, PTL DEF Spec

\* The cardinality facts of the library, from here on.
INSTANCE FiniteSetTheorems

\* dfs_block_mine never lets two miners run, and its flag is the miner's lock.
THEOREM MinerIsAlone == Spec => []FlagIsMiner
<1>1. WorkInv => FlagIsMiner
  <2> SUFFICES ASSUME TypeInv, FlagInv PROVE FlagIsMiner
    BY DEF WorkInv
  <2>1. Cardinality(Working) <= 1
    <3>1. CASE Working = {}
      BY <3>1, FS_EmptySet
    <3>2. ASSUME NEW m \in Working PROVE Cardinality(Working) <= 1
      <4>1. Working = {m}
        BY <3>2 DEF Working, FlagInv, At
      <4> QED BY <4>1, FS_Singleton
    <3> QED BY <3>1, <3>2
  <2>2. Working # {} => state
    BY DEF Working, FlagInv, At
  <2>3. state => Working # {} \/ unstarted
    BY DEF Working, FlagInv, At
  <2> QED BY <2>1, <2>2, <2>3 DEF FlagIsMiner
<1> QED BY <1>1, WorkInvariant, PTL

\* However the loop and the miner interleave, a transaction that dfs_transaction_add
\* or dfs_transaction_share accepted is in the list, in work or in the chain.
THEOREM TransactionsAreKept == Spec => []NothingLost
<1>1. WorkInv => NothingLost
  BY DEF WorkInv
<1> QED BY <1>1, WorkInvariant, PTL

(***************************************************************************)
(* The block file: what a restart finds, what the peers are offered, and   *)
(* that the whole behaves as a BlockOwner.                                 *)
(***************************************************************************)
\* The one file of the directory, whatever was interrupted.
FileOf(f) == IF f.whole THEN f.name = RootHash(f.data) /\ f.data # <<>> ELSE f.data = <<>>

DirOf(c) == IF c = <<>> THEN {} ELSE {[name |-> RootHash(c), whole |-> TRUE, data |-> c]}

FilesOk ==
    /\ \A f, g \in dir : f = g
    /\ \A f \in dir : FileOf(f) /\ (up => f.name = file)

DirAt(m) ==
    /\ At(m, {"name", "open"}) => dir = {}
    /\ At(m, {"open", "write", "end"}) => file = RootHash(local)
    /\ At(m, {"end"}) => dir = DirOf(local)

Early == {"none", "copy", "clear", "work", "add"}

DirInv ==
    /\ FilesOk
    /\ \A m \in Threads : DirAt(m)
    /\ up /\ ~failed /\ (\A m \in Threads : At(m, Early)) => dir = DirOf(local)

\* The peers that an advertisement has still to reach are those not offered it.
NewsInv ==
    /\ local = <<>> => loaded = <<>>
    /\ up /\ ~failed /\ Working = {} /\ local # loaded =>
          newblock \/ Peers \ sending \subseteq offered

FilesInv == WorkInv /\ DirInv /\ NewsInv

(***************************************************************************)
(* The directory.                                                          *)
(***************************************************************************)
\* A file that was just created or written is all there is.
LEMMA StoredAlone ==
    ASSUME \A f \in dir : f.name = file, NEW whole, NEW data
    PROVE  Stored(whole, data) = {[name |-> file, whole |-> whole, data |-> data]}
BY Zenon DEF Stored

\* A file that loads at the start is the whole of its chain.
LEMMA FileLoads ==
    ASSUME TypeInv, FilesOk, BlockFile.whole
    PROVE  /\ dir = DirOf(BlockFile.data)
           /\ \A f \in dir : f.name = BlockFile.name
<1>1. dir \subseteq Entries
  BY DEF TypeInv
<1>2. CASE dir = {}
  BY <1>1, <1>2, BlockFileFacts, Zenon DEF DirOf
<1>3. CASE dir # {}
  <2>1. BlockFile \in dir
    BY <1>1, <1>3, BlockFileFacts, Zenon
  <2>2. dir = {BlockFile}
    BY <2>1, Zenon DEF FilesOk
  <2>3. BlockFile.name = RootHash(BlockFile.data) /\ BlockFile.data # <<>>
    BY <2>1, Zenon DEF FilesOk, FileOf
  <2>4. BlockFile \in Entries
    BY <1>1, <2>1, Zenon
  <2> DEFINE b == BlockFile
  <2>5. b = [name |-> b.name, whole |-> b.whole, data |-> b.data] /\ b.whole = TRUE
    <3> HIDE DEF b
    <3>1. b \in Entries /\ b.whole
      BY <2>4 DEF b
    <3> QED BY <3>1, Zenon DEF Entries
  <2> QED BY <2>2, <2>3, <2>5, Zenon DEF DirOf
<1> QED BY <1>2, <1>3, Zenon

\* Every step keeps the directory in line with the chain in memory.
LEMMA DirStep ==
    ASSUME WorkInv, DirInv, [Next]_vars
    PROVE  DirInv'
<1> USE DEF loopVars, sharedVars, historyVars
<1>0. TypeInv /\ FlagInv /\ BuildInv
  BY DEF WorkInv
<1>1. ASSUME NEW m \in Threads, \A n \in Threads \ {m} : miner'[n].at = "none",
             FilesOk', DirAt(m)',
             miner'[m].at \in Early /\ up' /\ ~failed' => dir' = DirOf(local')
      PROVE  DirInv'
  <2>1. ASSUME NEW n \in Threads \ {m} PROVE DirAt(n)'
    BY <1>1, <2>1 DEF DirAt, At
  <2>2. (\A n \in Threads : At(n, Early))' => miner'[m].at \in Early
    BY DEF At
  <2> QED BY <1>1, <2>1, <2>2, Zenon DEF DirInv
<1>2. ASSUME \A n \in Threads : miner'[n].at = "none", FilesOk',
             up' /\ ~failed' => dir' = DirOf(local')
      PROVE  DirInv'
  <2>1. ASSUME NEW n \in Threads PROVE DirAt(n)'
    BY <1>2, <2>1 DEF DirAt, At
  <2> QED BY <1>2, <2>1, Zenon DEF DirInv
<1>3. ASSUME UNCHANGED <<up, dir, file>>
      PROVE  FilesOk'
  BY <1>3, Zenon DEF DirInv, FilesOk
<1>4. CASE UNCHANGED <<up, dir, file, failed, local, miner>>
  BY <1>4 DEF DirInv, FilesOk, DirAt, At
<1>5. CASE BlockMine
  <2>1. \A n \in Threads : miner[n].at = "none"
    BY <1>0, <1>5 DEF BlockMine, FlagInv, At
  <2>2. UNCHANGED <<up, dir, file, failed, local>>
    BY <1>5 DEF BlockMine
  <2>3. up /\ ~failed => dir = DirOf(local)
    BY <2>1 DEF DirInv, At, Early
  <2>4. CASE miner' = miner
    BY <1>4, <2>2, <2>4
  <2>5. CASE \E m \in Threads : miner' = [miner EXCEPT ![m].at = "copy"]
    <3>1. PICK m \in Threads : miner' = [miner EXCEPT ![m].at = "copy"]
      BY <2>5, Zenon
    <3>2. miner'[m].at = "copy" /\ \A n \in Threads \ {m} : miner'[n] = miner[n]
      BY <1>0, <3>1, MoveFacts, Zenon DEF Steps
    <3>3. DirAt(m)'
      BY <3>2 DEF DirAt, At
    <3>4. FilesOk' /\ (up' /\ ~failed' => dir' = DirOf(local'))
      BY <1>3, <2>2, <2>3, Zenon
    <3> QED BY <1>1, <2>1, <3>2, <3>3, <3>4, Zenon
  <2> QED BY <1>5, <2>4, <2>5 DEF BlockMine
<1>6. ASSUME NEW m \in Threads, MinerStep(m), ~End(m)
      PROVE  /\ up /\ up' = up /\ failed' = failed
             /\ \A n \in Threads \ {m} : miner'[n].at = "none" /\ miner[n].at = "none"
  <2>1. /\ miner[m].at \in Steps /\ up' = up /\ failed' = failed
        /\ \A n \in Threads \ {m} : miner'[n] = miner[n] /\ miner[n].at = "none"
    BY <1>0, <1>6, ThreadStep, Zenon DEF MinerStep
  <2> QED BY <1>0, <2>1, Alone DEF Steps
<1>7. ASSUME NEW m \in Threads, Copy(m) \/ Clear(m) \/ Work(m)
      PROVE  DirInv'
  <2>1. miner[m].at \in {"copy", "clear", "work"} /\ miner'[m].at \in {"clear", "work", "add"}
    <3>1. CASE Clear(m)
      BY <1>0, <3>1, MoveFacts, Zenon DEF Clear, Moves, Steps
    <3>2. miner \in [Threads -> MinerStates]
      BY <1>0 DEF TypeInv
    <3>3. CASE Copy(m)
      BY <3>2, <3>3, SMT DEF Copy
    <3>4. CASE Work(m)
      BY <3>2, <3>4, SMT DEF Work
    <3> QED BY <1>7, <3>1, <3>3, <3>4, Zenon
  <2>2. ~End(m) /\ MinerStep(m) /\ UNCHANGED <<dir, file, local>>
    BY <1>7, <2>1 DEF End, MinerStep, Copy, Clear, Work
  <2>3. /\ up /\ up' = up /\ failed' = failed
        /\ \A n \in Threads \ {m} : miner'[n].at = "none" /\ miner[n].at = "none"
    BY <1>6, <2>2, Zenon
  <2>4. \A n \in Threads : At(n, Early)
    BY <2>1, <2>3, Zenon DEF At, Early
  <2>5. DirAt(m)'
    BY <2>1 DEF DirAt, At
  <2>6. ~failed' => dir' = DirOf(local')
    BY <2>2, <2>3, <2>4, Zenon DEF DirInv
  <2> QED BY <1>1, <1>3, <2>2, <2>3, <2>5, <2>6, Zenon
<1>8. ASSUME NEW m \in Threads, Add(m)
      PROVE  DirInv'
  <2>1. miner'[m].at = "remove" /\ miner[m].at = "add"
    BY <1>0, <1>8, MoveFacts, Zenon DEF Add, Moves, Steps
  <2>2. ~End(m) /\ MinerStep(m) /\ UNCHANGED <<dir, file>>
    BY <1>8, <2>1, Zenon DEF End, MinerStep, Add
  <2>3. DirAt(m)' /\ miner'[m].at \notin Early
    BY <2>1 DEF DirAt, At, Early
  <2> QED BY <1>1, <1>3, <1>6, <2>2, <2>3, Zenon
<1>9. ASSUME NEW m \in Threads, Remove(m)
      PROVE  DirInv'
  <2>1. miner'[m].at = "name" /\ miner[m].at = "remove"
    BY <1>0, <1>9, MoveFacts, Zenon DEF Remove, Moves, Steps
  <2>2. ~End(m) /\ MinerStep(m)
    BY <1>9, <2>1, Zenon DEF End, MinerStep
  <2>3. dir' = {}
    BY <1>6, <1>9, <2>2, Zenon DEF Remove, DirInv, FilesOk
  <2>4. FilesOk' /\ DirAt(m)' /\ miner'[m].at \notin Early
    BY <2>1, <2>3, Zenon DEF FilesOk, DirAt, At, Early
  <2> QED BY <1>1, <1>6, <2>2, <2>4, Zenon
<1>10. ASSUME NEW m \in Threads, Name(m)
       PROVE  DirInv'
  <2>1. miner'[m].at = "open" /\ miner[m].at = "name"
    BY <1>0, <1>10, MoveFacts, Zenon DEF Name, Moves, Steps
  <2>2. ~End(m) /\ MinerStep(m)
    BY <1>10, <2>1 DEF End, MinerStep
  <2>3. dir' = {} /\ file' = RootHash(local')
    <3>1. dir = {}
      BY <2>1 DEF DirInv, DirAt, At
    <3> QED BY <1>10, <3>1, Zenon DEF Name
  <2>4. FilesOk' /\ DirAt(m)' /\ miner'[m].at \notin Early
    BY <2>1, <2>3 DEF FilesOk, DirAt, At, Early
  <2> QED BY <1>1, <1>6, <2>2, <2>4, Zenon
<1>11. ASSUME NEW m \in Threads, Open(m)
       PROVE  DirInv'
  <2>1. miner'[m].at = "write" /\ miner[m].at = "open"
    BY <1>0, <1>11, MoveFacts, Zenon DEF Open, Moves, Steps
  <2>2. ~End(m) /\ MinerStep(m) /\ UNCHANGED <<file, local>>
    BY <1>11, <2>1, Zenon DEF End, MinerStep, Open
  <2>3. dir = {} /\ file = RootHash(local)
    BY <2>1 DEF DirInv, DirAt, At
  <2>4. dir' = {[name |-> file, whole |-> FALSE, data |-> <<>>]}
    BY <1>11, <2>3, StoredAlone, Zenon DEF Open
  <2>5. FileOf([name |-> file, whole |-> FALSE, data |-> <<>>])
    BY Zenon DEF FileOf
  <2>6. FilesOk'
    <3> DEFINE r == [name |-> file, whole |-> FALSE, data |-> <<>>]
    <3>1. r.name = file'
      BY <2>2
    <3>2. dir' = {r} /\ FileOf(r)
      BY <2>4, <2>5
    <3> HIDE DEF r
    <3> QED BY <3>1, <3>2, Zenon DEF FilesOk
  <2>7. file' = RootHash(local')
    BY <2>2, <2>3, Zenon
  <2>8. DirAt(m)' /\ miner'[m].at \notin Early
    BY <2>1, <2>7, Zenon DEF DirAt, At, Early
  <2> QED BY <1>1, <1>6, <2>2, <2>6, <2>8, Zenon
<1>12. ASSUME NEW m \in Threads, Write(m)
       PROVE  DirInv'
  <2>1. miner'[m].at = "end" /\ miner[m].at = "write"
    BY <1>0, <1>12, MoveFacts, Zenon DEF Write, Moves, Steps
  <2>2. ~End(m) /\ MinerStep(m) /\ UNCHANGED <<file, local>>
    BY <1>12, <2>1, Zenon DEF End, MinerStep, Write
  <2>3. file = RootHash(local) /\ local # <<>>
    BY <1>0, <2>1, Zenon DEF DirInv, DirAt, BuildInv, BuildOf, At, Steps
  <2>4. \A f \in dir : f.name = file
    BY <1>6, <2>2 DEF DirInv, FilesOk
  <2>5. dir' = {[name |-> file, whole |-> TRUE, data |-> local]}
    BY <1>12, <2>4, StoredAlone, Zenon DEF Write
  <2>6. FileOf([name |-> file, whole |-> TRUE, data |-> local])
    BY <2>3, Zenon DEF FileOf
  <2>7. FilesOk'
    <3> DEFINE r == [name |-> file, whole |-> TRUE, data |-> local]
    <3>1. r.name = file'
      BY <2>2
    <3>2. dir' = {r} /\ FileOf(r)
      BY <2>5, <2>6
    <3> HIDE DEF r
    <3> QED BY <3>1, <3>2, Zenon DEF FilesOk
  <2>8. file' = RootHash(local') /\ dir' = DirOf(local')
    BY <2>2, <2>3, <2>5, Zenon DEF DirOf
  <2>9. DirAt(m)' /\ miner'[m].at \notin Early
    BY <2>1, <2>8 DEF DirAt, At, Early
  <2> QED BY <1>1, <1>6, <2>2, <2>7, <2>9, Zenon
<1>13. ASSUME NEW m \in Threads, End(m) \/ Fail(m)
       PROVE  DirInv'
  <2>1. /\ up /\ up' /\ \A n \in Threads : miner'[n].at = "none"
        /\ UNCHANGED <<local, file, dir>>
    BY <1>0, <1>13, ThreadEnds, Zenon
  <2>2. FilesOk'
    BY <2>1 DEF DirInv, FilesOk
  <2>3. ~failed' => dir' = DirOf(local')
    <3>1. CASE Fail(m)
      BY <3>1 DEF Fail
    <3>2. CASE End(m)
      <4>1. dir = DirOf(local)
        BY <3>2 DEF End, DirInv, DirAt, At
      <4> QED BY <2>1, <4>1, Zenon
    <3> QED BY <1>13, <3>1, <3>2, Zenon
  <2> QED BY <1>2, <2>1, <2>2, <2>3, Zenon
<1>14. CASE Crash
  <2>1. \A n \in Threads : miner'[n].at = "none"
    BY <1>14 DEF Crash, Idle
  <2>2. FilesOk' /\ ~up'
    BY <1>14 DEF Crash, DirInv, FilesOk
  <2> QED BY <1>2, <2>1, <2>2, Zenon
<1>15. CASE Restart
  <2>1. \A n \in Threads : miner'[n].at = "none"
    BY <1>0, <1>15, Zenon DEF Restart, FlagInv, At
  <2>2. BlockFile.whole /\ dir' = dir /\ file' = BlockFile.name /\ local' = BlockFile.data
    BY <1>15 DEF Restart
  <2>3. dir = DirOf(BlockFile.data) /\ \A f \in dir : f.name = BlockFile.name
    BY <1>0, <2>2, FileLoads, Zenon DEF DirInv
  <2>4. FilesOk'
    BY <2>2, <2>3, Zenon DEF DirInv, FilesOk
  <2> QED BY <1>2, <2>1, <2>2, <2>3, <2>4, Zenon
<1>16. ASSUME NEW t \in Transactions, Queue(t)
       PROVE  UNCHANGED <<up, dir, file, failed, local, miner>>
  BY <1>16, Zenon DEF Queue
<1>17. ASSUME NEW p \in Peers, BlockSend(p) \/ Hello(p)
       PROVE  UNCHANGED <<up, dir, file, failed, local, miner>>
  BY <1>17, Zenon DEF BlockSend, Hello
<1>18. ASSUME Advertise \/ UNCHANGED vars
       PROVE  UNCHANGED <<up, dir, file, failed, local, miner>>
  BY <1>18 DEF Advertise, vars
<1> QED
  BY <1>4, <1>5, <1>7, <1>8, <1>9, <1>10, <1>11, <1>12, <1>13, <1>14, <1>15, <1>16, <1>17, <1>18,
     Zenon DEF Next, TransactionAdd, TransactionShare, MinerStep

(***************************************************************************)
(* News.                                                                   *)
(***************************************************************************)
\* A block file that a peer is sent while nothing is mined is the current one.
LEMMA OfferedFacts ==
    ASSUME WorkInv, DirInv, up, ~failed, Working = {}, local # <<>>, NEW p \in Peers
    PROVE  Offered(p) = offered \cup {p}
<1>1. dir = DirOf(local)
  BY DEF DirInv, Working, At, Early
<1>2. dir = {[name |-> RootHash(local), whole |-> TRUE, data |-> local]}
  BY <1>1, Zenon DEF DirOf
<1>3. RootHash(local) # <<>>
  BY RootHashFacts, Zenon DEF WorkInv, TypeInv
<1>4. \A f \in dir : f.name = file /\ f.name = RootHash(local)
  BY <1>2 DEF DirInv, FilesOk
<1>5. dir # {}
  BY <1>2, Zenon
<1> QED BY <1>3, <1>4, <1>5, Zenon DEF Offered

\* Every step keeps track of the peers that a new block has still to be offered to.
LEMMA NewsStep ==
    ASSUME WorkInv, DirInv, NewsInv, [Next]_vars
    PROVE  NewsInv'
<1> USE DEF loopVars, sharedVars, historyVars
<1>0. TypeInv /\ FlagInv /\ BuildInv
  BY DEF WorkInv
<1>1. ASSUME Working' = Working, UNCHANGED <<up, failed, local, loaded, newblock, sending, offered>>
      PROVE  NewsInv'
  BY <1>1, Zenon DEF NewsInv
<1>2. ASSUME NEW t \in Transactions, Queue(t)
      PROVE  NewsInv'
  BY <1>1, <1>2, Zenon DEF Queue, Working
<1>3. CASE BlockMine
  <2>1. UNCHANGED <<up, failed, local, loaded, newblock, sending, offered>>
    BY <1>3 DEF BlockMine
  <2>2. Working = {}
    BY <1>0, <1>3, Zenon DEF BlockMine, FlagInv, At, Working
  <2> QED BY <2>1, <2>2 DEF NewsInv
<1>4. CASE Advertise
  BY <1>4 DEF Advertise, NewsInv, Working
<1>5. ASSUME NEW p \in Peers, BlockSend(p) \/ Hello(p)
      PROVE  NewsInv'
  <2>1. /\ UNCHANGED <<up, failed, local, loaded, newblock>> /\ Working' = Working
        /\ offered' = Offered(p) /\ offered \subseteq offered' /\ sending \ {p} \subseteq sending'
    BY <1>5 DEF BlockSend, Hello, Offered, Working
  <2>2. ASSUME up, ~failed, Working = {}, local # loaded, ~newblock
        PROVE  Peers \ sending' \subseteq offered'
    <3>1. local # <<>>
      BY <2>2 DEF NewsInv
    <3>2. offered' = offered \cup {p}
      BY <2>1, <2>2, <3>1, OfferedFacts, Zenon
    <3>3. Peers \ sending \subseteq offered
      BY <2>2 DEF NewsInv
    <3> QED BY <2>1, <3>2, <3>3, Zenon
  <2> QED BY <2>1, <2>2, Zenon DEF NewsInv
<1>6. ASSUME NEW m \in Threads, MinerStep(m), ~End(m)
      PROVE  NewsInv'
  <2>1. miner'[m].at \in Steps /\ loaded' = loaded
    BY <1>0, <1>6, ThreadStep, Zenon DEF MinerStep
  <2>2. Working' # {}
    BY <2>1 DEF Working, Steps
  <2>3. local' = <<>> => local = <<>>
    <3>1. CASE Add(m)
      <4>1. PICK t \in Transactions : miner[m].block = Mined(RootHash(local), t)
        BY <1>0, <3>1, Zenon DEF Add, Moves, BuildInv, BuildOf, At
      <4> QED BY <1>0, <3>1, <4>1, RootHashFacts, ChainGrows, Zenon DEF Add, TypeInv
    <3>2. CASE ~Add(m)
      BY <1>6, <3>2, Zenon DEF MinerStep, Copy, Clear, Work, Remove, Name, Open, Write
    <3> QED BY <3>1, <3>2
  <2> QED BY <2>1, <2>2, <2>3, Zenon DEF NewsInv
<1>7. ASSUME NEW m \in Threads, End(m) \/ Fail(m)
      PROVE  NewsInv'
  <2>1. UNCHANGED <<local, loaded>>
    BY <1>0, <1>7, ThreadEnds, Zenon
  <2>2. newblock' \/ failed'
    BY <1>7, Zenon DEF End, Fail
  <2> QED BY <2>1, <2>2 DEF NewsInv
<1>8. CASE Crash
  BY <1>8, Zenon DEF Crash, NewsInv
<1>9. CASE Restart
  BY <1>9, Zenon DEF Restart, NewsInv
<1>10. CASE UNCHANGED vars
  BY <1>1, <1>10 DEF vars, Working
<1> QED
  BY <1>2, <1>3, <1>4, <1>5, <1>6, <1>7, <1>8, <1>9, <1>10, Zenon
  DEF Next, TransactionAdd, TransactionShare

(***************************************************************************)
(* Theorems.                                                               *)
(***************************************************************************)
\* The invariant of the block file holds at the start.
LEMMA FilesInit == Init => FilesInv
<1> SUFFICES ASSUME Init PROVE FilesInv
  OBVIOUS
<1>1. \A n \in Threads : miner[n].at = "none"
  BY Zenon DEF Init, Idle
<1>2. DirInv
  BY <1>1 DEF Init, DirInv, FilesOk, DirAt, At, DirOf
<1>3. NewsInv
  BY Zenon DEF Init, NewsInv
<1> QED BY <1>2, <1>3, WorkInit, Zenon DEF FilesInv

\* The block directory and the flag newblock, in every reachable state of distfs.c.
THEOREM FilesInvariant == Spec => []FilesInv
<1>1. Init => FilesInv
  BY FilesInit
<1>2. FilesInv /\ [Next]_vars => FilesInv'
  BY TypeStep, FlagStep, BuildStep, LostStep, DirStep, NewsStep, Zenon DEF FilesInv, WorkInv
<1> QED BY <1>1, <1>2, PTL DEF Spec

\* Whatever mine_block_file is interrupted by, the directory has one file at most;
\* when no miner runs and none failed it is the chain in memory.
THEOREM BlockFileIsChain == Spec => []FileIsChain
<1>1. FilesInv => FileIsChain
  <2> SUFFICES ASSUME FilesInv PROVE FileIsChain
    OBVIOUS
  <2>1. Cardinality(dir) <= 1
    <3>1. CASE dir = {}
      BY <3>1, FS_EmptySet
    <3>2. ASSUME NEW f \in dir PROVE Cardinality(dir) <= 1
      <4>1. dir = {f}
        BY <3>2 DEF FilesInv, DirInv, FilesOk
      <4>2. Cardinality({f}) = 1
        BY FS_Singleton, Zenon
      <4> QED BY <4>1, <4>2
    <3> QED BY <3>1, <3>2
  <2>2. up /\ ~failed /\ Working = {} => dir = DirOf(local)
    BY Zenon DEF FilesInv, DirInv, Working, At, Early
  <2> QED BY <2>1, <2>2, Zenon DEF FileIsChain, DirOf
<1> QED BY <1>1, FilesInvariant, PTL

\* A new block is news until dfs_block_send has offered it to every peer.
THEOREM NewsReachesPeers == Spec => []NewsIsOffered
<1>1. FilesInv => NewsIsOffered
  BY Zenon DEF FilesInv, NewsInv, NewsIsOffered, WorkInv, TypeInv
<1> QED BY <1>1, FilesInvariant, PTL

\* The block file as the network sees it, for a directory without a file and with one.
LEMMA ImageFacts ==
    /\ dir = {} => BlockFile.whole = TRUE /\ TransOf(BlockFile.data) = <<>>
    /\ dir' = {} => BlockFile'.whole = TRUE /\ TransOf(BlockFile'.data) = <<>>
    /\ \A f : dir' = {f} => BlockFile' = f
<1>1. TransOf(<<>>) = <<>>
  BY DEF TransOf
<1>2. ASSUME NEW f, dir' = {f} PROVE BlockFile' = f
  <2>1. (CHOOSE g \in dir' : TRUE) = f /\ dir' # {}
    BY <1>2, Zenon
  <2> QED BY <2>1, Zenon DEF BlockFile
<1> QED BY <1>1, <1>2, Zenon DEF BlockFile

\* The steps of distfs.c, seen from the network: a block is mined, the block file is
\* replaced, the program starts from its block file, or nothing happens.
LEMMA OwnerStep ==
    ASSUME FilesInv, [Next]_vars
    PROVE  [Owner!Next]_<<TransOf(local), [whole |-> BlockFile.whole, chain |-> TransOf(BlockFile.data)]>>
<1> USE DEF loopVars, sharedVars, historyVars
<1>0. TypeInv /\ FlagInv /\ BuildInv /\ DirInv
  BY DEF FilesInv, WorkInv
<1>1. ASSUME UNCHANGED <<local, dir>>
      PROVE  UNCHANGED <<TransOf(local), [whole |-> BlockFile.whole, chain |-> TransOf(BlockFile.data)]>>
  BY <1>1, Zenon DEF BlockFile, TransOf
<1>2. ASSUME NEW m \in Threads, Add(m)
      PROVE  \E t \in Transactions : Owner!Mine(t)
  <2>1. PICK t \in Transactions : miner[m].block = Mined(RootHash(local), t)
    BY <1>0, <1>2, Zenon DEF Add, Moves, BuildInv, BuildOf, At
  <2>2. TransOf(local') = TransOf(local) \o <<t>>
    <3>1. RootHash(local) \in Hashes
      BY <1>0, RootHashFacts, Zenon DEF TypeInv
    <3>2. local \in Chain /\ local' = Append(local, Mined(RootHash(local), t))
      BY <1>0, <1>2, <2>1, Zenon DEF Add, TypeInv
    <3> QED BY <3>1, <3>2, ChainGrows, Zenon
  <2>3. Append(TransOf(local), t) = TransOf(local) \o <<t>>
    BY <1>0, TransOfFacts, AccountFacts, Zenon DEF TypeInv
  <2>4. dir' = dir
    BY <1>2, Zenon DEF Add
  <2>5. BlockFile' = BlockFile
    BY <2>4 DEF BlockFile
  <2> QED BY <2>2, <2>3, <2>5, Zenon DEF Owner!Mine
<1>3. ASSUME NEW m \in Threads, Remove(m) \/ Open(m) \/ Write(m)
      PROVE  Owner!Write
  <2>1. local' = local /\ TransOf(local') = TransOf(local)
    BY <1>3, Zenon DEF Remove, Open, Write
  <2>2. \A f \in dir : f.name = file
    BY <1>0, <1>3, Zenon DEF Remove, Open, Write, Moves, DirInv, FilesOk
  <2>3. CASE Remove(m)
    <3>1. dir' = {}
      BY <2>2, <2>3, Zenon DEF Remove
    <3> QED BY <2>1, <3>1, ImageFacts, Zenon DEF Owner!Write, Owner!NoFile
  <2>4. CASE Open(m)
    <3>1. dir' = {[name |-> file, whole |-> FALSE, data |-> <<>>]}
      BY <2>2, <2>4, StoredAlone, Zenon DEF Open
    <3>2. BlockFile' = [name |-> file, whole |-> FALSE, data |-> <<>>]
      BY <3>1, ImageFacts, Zenon
    <3>3. BlockFile'.whole = FALSE /\ BlockFile'.data = <<>>
      BY <3>2, Zenon
    <3>4. TransOf(<<>>) = <<>>
      BY DEF TransOf
    <3> QED BY <2>1, <3>3, <3>4, Zenon DEF Owner!Write, Owner!Torn
  <2>5. CASE Write(m)
    <3>1. dir' = {[name |-> file, whole |-> TRUE, data |-> local]}
      BY <2>2, <2>5, StoredAlone, Zenon DEF Write
    <3>2. BlockFile' = [name |-> file, whole |-> TRUE, data |-> local]
      BY <3>1, ImageFacts, Zenon
    <3>3. BlockFile'.whole = TRUE /\ BlockFile'.data = local
      BY <3>2, Zenon
    <3> QED BY <2>1, <3>3, Zenon DEF Owner!Write
  <2> QED BY <1>3, <2>3, <2>4, <2>5, Zenon
<1>4. CASE Restart
  <2>1. BlockFile.whole /\ local' = BlockFile.data /\ dir' = dir
    BY <1>4, Zenon DEF Restart
  <2>2. BlockFile' = BlockFile
    BY <2>1 DEF BlockFile
  <2>3. Owner!Restart
    BY <2>1, <2>2, Zenon DEF Owner!Restart
  <2> QED BY <2>3, Zenon DEF Owner!Next
<1>5. ASSUME NEW m \in Threads,
             Copy(m) \/ Clear(m) \/ Work(m) \/ Name(m) \/ End(m) \/ Fail(m)
      PROVE  UNCHANGED <<local, dir>>
  BY <1>5 DEF Copy, Clear, Work, Name, End, Fail
<1>6. ASSUME \/ \E t \in Transactions : Queue(t)
             \/ BlockMine \/ Advertise \/ Crash \/ UNCHANGED vars
             \/ \E p \in Peers : BlockSend(p) \/ Hello(p)
      PROVE  UNCHANGED <<local, dir>>
  BY <1>6 DEF Queue, BlockMine, Advertise, Crash, vars, BlockSend, Hello
<1> QED
  BY <1>1, <1>2, <1>3, <1>4, <1>5, <1>6, Zenon
  DEF Next, TransactionAdd, TransactionShare, MinerStep, Owner!Next

\* A peer that runs distfs.c keeps the promise of BlockOwner, on which the peers
\* that collect its chain rely.
THEOREM PeerIsOwner == Spec => ImplementsOwner
<1>1. Init => Owner!Init
  <2>1. dir = {} => BlockFile.whole = TRUE /\ TransOf(BlockFile.data) = <<>>
    BY ImageFacts, Zenon
  <2>2. TransOf(<<>>) = <<>>
    BY DEF TransOf
  <2> QED BY <2>1, <2>2, Zenon DEF Init, Owner!Init, Owner!NoFile
<1>2. FilesInv /\ [Next]_vars
         => [Owner!Next]_<<TransOf(local), [whole |-> BlockFile.whole, chain |-> TransOf(BlockFile.data)]>>
  BY OwnerStep
<1> QED BY <1>1, <1>2, FilesInvariant, PTL DEF Spec, ImplementsOwner, Owner!Spec, Owner!ownerVars
==============================================================================
