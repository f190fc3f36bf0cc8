------------------------------- MODULE Mining -------------------------------
(***************************************************************************)
(* A peer's own block chain: distfs.c, with the start of mpeer.c.          *)
(*                                                                         *)
(* The event loop accepts one transaction at a time (add, share), starts a *)
(* miner thread and advertises new blocks.  The miner thread copies the    *)
(* transaction list into a block, empties the list, looks for a proof of   *)
(* work, appends the block to the chain, removes the old block file and    *)
(* writes the new one.  The two share the list, the chain, the name of the *)
(* block file and the flags state and newblock; the mutex covers only the  *)
(* flags, so each section under it is one step and everything else the     *)
(* thread does is interleaved with the callbacks of the loop.  A callback  *)
(* that looks at the shared state more than once is one step per look.     *)
(***************************************************************************)
EXTENDS Blocks, FiniteSets

CONSTANTS Transactions,   \* of files that can be added or shared
          Listed,         \* those in the chains of other peers
          Peers,          \* the peers of the world list
          Threads,        \* names for miner threads
          MaxBlocks,      \* bound: transactions accepted
          MaxFaults       \* bound: crashes and failing calls

VARIABLES up,             \* the process runs
          transactions,   \* dfs->transactions, a sequence
          state,          \* dfs->mining.state
          newblock,       \* dfs->mining.newblock
          local,          \* dfs->blocks.local, a sequence of blocks
          file,           \* dfs->blocks.file, <<>> when it is empty
          dir,            \* the block directory, a set of [name, whole, data]
          miner,          \* what each thread is at and the block it builds
          sending,        \* the peers an advertisement has still to reach
          faults,
          \* history
          accepted,       \* the transactions accepted, in order
          offered,        \* the peers a file of the name `file' was queued to
          loaded,         \* the chain the process started from
          failed,         \* a miner thread failed since the start
          unstarted       \* a thread could not be created since the start

loopVars == <<up, sending, faults, offered, loaded, unstarted>>
sharedVars == <<transactions, state, newblock, local, file, dir>>
historyVars == <<accepted, failed>>
vars == <<up, transactions, state, newblock, local, file, dir, miner, sending,
          faults, accepted, offered, loaded, failed, unstarted>>

-----------------------------------------------------------------------------
(* Blocks and chains *)

\* What was shared by a list of transactions and by a chain, in order.
Contents(ts) == [k \in 1..Len(ts) |-> ts[k].file.content]

TransOf(c) == [k \in 1..Len(c) |-> c[k].trans[1].file.content]

NoBlock == NewBlock(<<>>, <<>>)

Idle == [at |-> "none", block |-> NoBlock]

Steps == {"copy", "clear", "work", "add", "remove", "name", "open", "write",
          "end"}

Working == {m \in Threads : miner[m].at # "none"}

-----------------------------------------------------------------------------
Init ==
    /\ up = TRUE
    /\ transactions = <<>> /\ state = FALSE /\ newblock = FALSE
    /\ local = <<>> /\ file = <<>> /\ dir = {}
    /\ miner = [m \in Threads |-> Idle]
    /\ sending = {}
    /\ faults = 0
    /\ accepted = <<>> /\ offered = {} /\ loaded = <<>>
    /\ failed = FALSE /\ unstarted = FALSE

\* The loop is between two callbacks.
LoopFree == up /\ sending = {}

\* Variant: a second transaction is let in.
AcceptsAny == ~state

\* dfs_transaction_add and dfs_transaction_share: exactly one transaction per
\* block, none while a block is mined.  A refusal changes nothing.
Accepts == transactions = <<>> /\ ~state

Queue(t) ==
    /\ LoopFree
    /\ Len(accepted) < MaxBlocks
    /\ Accepts
    /\ transactions' = Append(transactions, NewTransaction(t))
    /\ accepted' = Append(accepted, t)
    /\ UNCHANGED <<loopVars, state, newblock, local, file, dir, miner, failed>>

TransactionAdd(t) == t \notin Listed /\ Queue(t)

\* A copy of the transaction in another peer's chain.
TransactionShare(t) == t \in Listed /\ Queue(t)

\* Variant: the flag is not looked at.
BlockMineTwice ==
    /\ LoopFree
    /\ Len(transactions) >= 1
    /\ state' = TRUE
    /\ \E m \in Threads \ Working : miner' = [miner EXCEPT ![m].at = "copy"]
    /\ UNCHANGED <<loopVars, transactions, newblock, local, file, dir,
                   accepted, failed>>

\* dfs_block_mine: the flag is set under the mutex and the thread is created
\* after it.  A thread that cannot be created leaves the flag set.
BlockMine ==
    /\ LoopFree
    /\ ~state
    /\ Len(transactions) >= 1
    /\ state' = TRUE
    /\ \/ /\ \E m \in Threads \ Working :
                miner' = [miner EXCEPT ![m].at = "copy"]
          /\ UNCHANGED <<faults, unstarted>>
       \/ /\ faults < MaxFaults
          /\ faults' = faults + 1
          /\ unstarted' = TRUE
          /\ UNCHANGED miner
    /\ UNCHANGED <<up, transactions, newblock, local, file, dir, sending,
                   accepted, offered, loaded, failed>>

\* dfs_block_xet with "a": the flag newblock is taken under the mutex first,
\* the block file is queued to one peer after the other later.
Advertise ==
    /\ LoopFree
    /\ newblock
    /\ newblock' = FALSE
    /\ sending' = Peers
    /\ UNCHANGED <<up, faults, offered, loaded, unstarted, transactions, state,
                   local, file, dir, miner, accepted, failed>>

\* dfs_block_send to peer p: the file the peer names, if it is there.
Offered(p) == IF file # <<>> /\ \E f \in dir : f.name = file
              THEN offered \cup {p}
              ELSE offered

\* Variant: the flag newblock is cleared when the block has been sent.
BlockSendClears(p) ==
    /\ up
    /\ p \in sending
    /\ sending' = sending \ {p}
    /\ offered' = Offered(p)
    /\ newblock' = FALSE
    /\ UNCHANGED <<up, faults, loaded, unstarted, transactions, state, local,
                   file, dir, miner, accepted, failed>>

BlockSend(p) ==
    /\ up
    /\ p \in sending
    /\ sending' = sending \ {p}
    /\ offered' = Offered(p)
    /\ UNCHANGED <<up, faults, loaded, unstarted, sharedVars, miner, accepted,
                   failed>>

\* message: a peer that says hello is sent the block file.
Hello(p) ==
    /\ LoopFree
    /\ offered' = Offered(p)
    /\ offered' # offered
    /\ UNCHANGED <<up, sending, faults, loaded, unstarted, sharedVars, miner,
                   accepted, failed>>

-----------------------------------------------------------------------------
(* mine and mine_block_file, one step per access to what the loop shares.  *)
(* Thread m moves on to the step `at'.                                     *)

Moves(m, from, to) == /\ up
                      /\ miner[m].at = from
                      /\ miner' = [miner EXCEPT ![m].at = to]

\* block.init on the hash of the chain, then each transaction of the list.
Copy(m) ==
    /\ up
    /\ miner[m].at = "copy"
    /\ miner' = [miner EXCEPT ![m] =
                    [at |-> "clear",
                     block |-> NewBlock(RootHash(local), transactions)]]
    /\ UNCHANGED <<loopVars, sharedVars, historyVars>>

Clear(m) ==
    /\ Moves(m, "clear", "work")
    /\ transactions' = <<>>
    /\ UNCHANGED <<loopVars, state, newblock, local, file, dir, historyVars>>

\* block.transactions.lock and block.mine.
Work(m) ==
    /\ up
    /\ miner[m].at = "work"
    /\ miner' = [miner EXCEPT ![m] = [at |-> "add", block |-> Locked(@.block)]]
    /\ UNCHANGED <<loopVars, sharedVars, historyVars>>

\* root.blocks.add, with the hash that the next block is made on.  Its three
\* assignments are one step: whoever reads the list in the event loop between
\* them follows a pointer that is not there, and the process may end (Crash).
Add(m) ==
    /\ Moves(m, "add", "remove")
    /\ local' = Append(local, miner[m].block)
    /\ UNCHANGED <<loopVars, transactions, state, newblock, file, dir,
                   historyVars>>

\* A block file that has a name must be there to be removed.
Removable == file = <<>> \/ \E f \in dir : f.name = file

\* Variant: the old block file stays.
RemoveNothing(m) ==
    /\ Moves(m, "remove", "name")
    /\ Removable
    /\ UNCHANGED <<loopVars, sharedVars, historyVars>>

Remove(m) ==
    /\ Moves(m, "remove", "name")
    /\ Removable
    /\ dir' = {f \in dir : f.name # file}
    /\ UNCHANGED <<loopVars, transactions, state, newblock, local, file,
                   historyVars>>

Name(m) ==
    /\ Moves(m, "name", "open")
    /\ file' = RootHash(local)
    /\ offered' = {}
    /\ UNCHANGED <<up, sending, faults, loaded, unstarted, transactions, state,
                   newblock, local, dir, historyVars>>

\* root.data.save.file: the file is there, without its content, before the
\* chain is written to it.
Stored(whole, data) == {f \in dir : f.name # file}
                          \cup {[name |-> file, whole |-> whole, data |-> data]}

Open(m) ==
    /\ Moves(m, "open", "write")
    /\ dir' = Stored(FALSE, <<>>)
    /\ UNCHANGED <<loopVars, transactions, state, newblock, local, file,
                   historyVars>>

Write(m) ==
    /\ Moves(m, "write", "end")
    /\ dir' = Stored(TRUE, local)
    /\ UNCHANGED <<loopVars, transactions, state, newblock, local, file,
                   historyVars>>

End(m) ==
    /\ up
    /\ miner[m].at = "end"
    /\ miner' = [miner EXCEPT ![m] = Idle]
    /\ state' = FALSE
    /\ newblock' = TRUE
    /\ UNCHANGED <<loopVars, transactions, local, file, dir, historyVars>>

\* mine_thread_fail, from any call that can fail.  What the thread has done
\* up to there stays done.
Fail(m) ==
    /\ up
    /\ miner[m].at \in Steps \ {"name", "end"}
    /\ \/ faults < MaxFaults /\ faults' = faults + 1
       \/ miner[m].at = "remove" /\ ~Removable /\ UNCHANGED faults
    /\ miner' = [miner EXCEPT ![m] = Idle]
    /\ state' = FALSE
    /\ failed' = TRUE
    /\ UNCHANGED <<up, sending, offered, loaded, unstarted, transactions,
                   newblock, local, file, dir, accepted>>

-----------------------------------------------------------------------------
\* The process ends, by a crash or by the SIGINT handler: the thread ends with
\* it wherever it is, and only the block directory stays.
Crash ==
    /\ up
    /\ faults < MaxFaults
    /\ faults' = faults + 1
    /\ up' = FALSE
    /\ transactions' = <<>> /\ state' = FALSE /\ newblock' = FALSE
    /\ miner' = [m \in Threads |-> Idle]
    /\ sending' = {}
    /\ UNCHANGED <<local, file, dir, accepted, offered, loaded, failed,
                   unstarted>>

\* os.blockfile takes the first file of the directory that looks like one.
\* A chain that does not load keeps the program from starting.
BlockFile == IF dir = {} THEN [name |-> <<>>, whole |-> TRUE, data |-> <<>>]
                         ELSE CHOOSE f \in dir : TRUE

\* Variant: a block file that does not load is taken for an empty one.
RestartAnyway ==
    /\ ~up
    /\ up' = TRUE
    /\ offered' = {}
    /\ local' = BlockFile.data
    /\ file' = BlockFile.name
    /\ loaded' = BlockFile.data
    /\ accepted' = TransOf(BlockFile.data)
    /\ failed' = FALSE /\ unstarted' = FALSE
    /\ UNCHANGED <<transactions, state, newblock, dir, miner, sending, faults>>

Restart ==
    /\ ~up
    /\ BlockFile.whole /\ Valid(BlockFile.data)
    /\ up' = TRUE
    /\ offered' = {}
    /\ local' = BlockFile.data
    /\ file' = BlockFile.name
    /\ loaded' = BlockFile.data
    /\ accepted' = TransOf(BlockFile.data)
    /\ failed' = FALSE /\ unstarted' = FALSE
    /\ UNCHANGED <<transactions, state, newblock, dir, miner, sending, faults>>

MinerStep(m) == \/ Copy(m) \/ Clear(m) \/ Work(m) \/ Add(m) \/ Remove(m)
                \/ Name(m) \/ Open(m) \/ Write(m) \/ End(m)

Next == \/ \E t \in Transactions : TransactionAdd(t) \/ TransactionShare(t)
        \/ BlockMine
        \/ Advertise
        \/ \E p \in Peers : BlockSend(p) \/ Hello(p)
        \/ \E m \in Threads : MinerStep(m) \/ Fail(m)
        \/ Crash
        \/ Restart

Spec == Init /\ [][Next]_vars

-----------------------------------------------------------------------------
(* Properties *)

\* The flag that keeps a second miner out and transactions locked is set
\* exactly while one thread is at work.  Only dfs_block_mine, when the thread
\* cannot be created, leaves it set with nobody to reset it.
FlagIsMiner ==
    /\ Cardinality(Working) <= 1
    /\ Working # {} => state
    /\ state => Working # {} \/ unstarted

Held(m) == IF miner[m].at \in {"work", "add"} THEN Contents(miner[m].block.trans) ELSE <<>>

InWork == IF Working = {} THEN <<>> ELSE Held(CHOOSE m \in Working : TRUE)

\* Every transaction that was accepted is, exactly once and in order, in the
\* chain, in the block being mined or in the list, however the loop and the
\* thread interleave; only a failing thread may drop one.
NothingLost ==
    up /\ ~failed => TransOf(local) \o InWork \o Contents(transactions) = accepted

\* Between two miners the directory holds exactly one block file, complete,
\* under the name the process knows, with the chain that is in memory: what
\* the peers are offered is what a restart would load.
FileIsChain ==
    /\ Cardinality(dir) <= 1
    /\ up /\ ~failed /\ Working = {} =>
          dir = IF local = <<>> THEN {}
                ELSE {[name |-> RootHash(local), whole |-> TRUE, data |-> local]}

\* A chain that grew since the start is news until every peer has been sent
\* it: an advertisement that overlaps the miner never swallows the flag of
\* the block that is just being finished.
NewsIsOffered ==
    up /\ ~failed /\ Working = {} /\ sending = {} /\ local # loaded =>
        newblock \/ offered = Peers

\* What the network relies on: the chain and the block file of this peer are
\* those of a BlockOwner.
Owner == INSTANCE BlockOwner
            WITH chain <- TransOf(local),
                 file <- [whole |-> BlockFile.whole,
                          chain |-> TransOf(BlockFile.data)]

ImplementsOwner == Owner!Spec
=============================================================================
