------------------------------- MODULE Chains -------------------------------
(***************************************************************************)
(* How the chains of other peers are collected: the block branch of dfile  *)
(* and blocks_load in mpeer.c, with group.c, root.c and os.c.              *)
(*                                                                         *)
(* Every owner behaves as BlockOwner says: its block file grows with its   *)
(* chain, but a restart may find it gone, so that the files an owner sends *)
(* over time may fork.  (A torn file does not load and is not a block file *)
(* to the receiver.)  A file that was sent may arrive any number of times, *)
(* late and in any order, or never.  One receiver keeps a root per owner   *)
(* in memory and, under the owner's key, in a file; it may fail to write,  *)
(* stop anywhere and start again.                                          *)
(***************************************************************************)
EXTENDS Blocks, FiniteSets

CONSTANTS Owners,         \* by the hash of their public key
          Transactions,   \* what each owner may put in a block
          NoKey,          \* the key of a root on which net.set was not called
          MaxLength,      \* bound: blocks of a chain, for each owner
          MaxSent,        \* bound: block files each owner sends
          MaxLosses,      \* bound: restarts of owners that take blocks back
          MaxFaults       \* bound: crashes and failed calls of the receiver

\* The files of a directory are never named NoKey; a damaged file is another file.
ASSUME ChainsAssumption ==
    /\ NoKey \notin Owners
    /\ \A o \in Owners : \A t \in Transactions[o] : t # <<t>>

VARIABLES file,           \* the root in the block file of each owner, <<>> if none
          sent,           \* the JSON of the block files each owner has sent so far
          group,          \* dfs->blocks.remote, a set of [key, root]
          saved,          \* the files of the blocks directory: key -> file
          up,             \* the receiver runs
          losses, faults,
          unsaved         \* history: owners whose save failed since the start

ownerVars == <<file, sent, losses>>
receiverVars == <<group, saved, up, faults, unsaved>>
vars == <<file, sent, losses, group, saved, up, faults, unsaved>>

Init ==
    /\ file = [o \in Owners |-> <<>>]
    /\ sent = [o \in Owners |-> {}]
    /\ group = {} /\ saved = <<>> /\ up = TRUE
    /\ losses = 0 /\ faults = 0 /\ unsaved = {}

-----------------------------------------------------------------------------
(* The owners *)

\* A block is mined on the last one and the file replaced by one that has it.
Mine(o, t) ==
    /\ Len(file[o]) < MaxLength[o]
    /\ file' = [file EXCEPT ![o] =
                   Append(@, Locked(NewBlock(RootHash(@), <<NewTransaction(t)>>)))]
    /\ UNCHANGED <<sent, losses, receiverVars>>

\* The process ends while the block file is replaced, and starts without it.
Lose(o) ==
    /\ losses < MaxLosses
    /\ losses' = losses + 1
    /\ file' = [file EXCEPT ![o] = <<>>]
    /\ UNCHANGED <<sent, receiverVars>>

\* dfs_block_send of the owner.
Send(o) ==
    /\ file[o] # <<>>
    /\ Cardinality(sent[o]) < MaxSent
    /\ sent' = [sent EXCEPT ![o] = @ \cup {RootObject(file[o])}]
    /\ UNCHANGED <<file, losses, receiverVars>>

-----------------------------------------------------------------------------
(* The receiver *)

\* group.find.root
Found(o) == {g \in group : g.key = o}

\* What root.data.save.file and os.filemove leave under the owner's key.
Saved(o, f) == [k \in DOMAIN saved \cup {o} |-> IF k = o THEN f ELSE saved[k]]

TornFile == [whole |-> FALSE, json |-> RootObject(<<>>)]

WholeFile(json) == [whole |-> TRUE, json |-> json]

Fault == faults < MaxFaults /\ faults' = faults + 1

\* dfile, no root of this owner yet: the root joins the group, the received
\* file becomes its file, and only then it is given its key.
Import(o, src, json) ==
    \/ /\ group' = group \cup {[key |-> o, root |-> src]}
       /\ saved' = Saved(o, WholeFile(json))
       /\ UNCHANGED faults
    \/ /\ Fault
       /\ group' = group \cup {[key |-> NoKey, root |-> src]}
       /\ UNCHANGED saved

\* Variant: the file that arrived is kept, not the root it was merged into.
ToSaveReceived(dst, src) == src

\* dfile saves the root as the merge has left it.
ToSave(dst, src) == Merged(dst, src).root

\* dfile, with the root the group has: merge, and save it if that worked.
\* eioie_fwrite empties the file before it writes it.
Update(o, dst, src) ==
    \E m \in {Merged(dst, src)} :
        /\ group' = (group \ Found(o)) \cup {[key |-> o, root |-> m.root]}
        /\ \/ /\ m.result = "merged"
              /\ saved' = Saved(o, WholeFile(RootObject(ToSave(dst, src))))
              /\ unsaved' = unsaved \ {o}
              /\ UNCHANGED faults
           \/ /\ m.result = "merged"
              /\ Fault
              /\ saved' \in {saved, Saved(o, TornFile)}
              /\ unsaved' = unsaved \cup {o}
           \/ /\ m.result # "merged"
              /\ UNCHANGED <<saved, unsaved, faults>>

\* Parts of two files under one name may be joined (FileParts): the k-th block has
\* another content than the one its hashes are of.
Damaged(json, k) == [json EXCEPT !.blocks[k].transactions[1].fileadd.meta_chunks = <<@>>]

Arriving(o) ==
    sent[o] \cup UNION {{Damaged(json, k) : k \in DOMAIN json.blocks} : json \in sent[o]}

\* A block file of o has arrived; load_object takes it only if it validates.
\* One that os.filereadable or the parser refuses is not looked at either.
Receive(o, json) ==
    /\ up /\ UNCHANGED <<ownerVars, up>>
    /\ \E src \in {LoadRoot(json)} :
          /\ Valid(src)
          /\ \/ Found(o) = {} /\ Import(o, src, json) /\ UNCHANGED unsaved
             \/ \E g \in Found(o) : Update(o, g.root, src)

Crash ==
    /\ up
    /\ Fault
    /\ up' = FALSE
    /\ group' = {}
    /\ UNCHANGED <<ownerVars, saved, unsaved>>

\* The process ends inside the save of an update.
CrashInSave(o, json) ==
    /\ up
    /\ \E g \in Found(o) : Merged(g.root, LoadRoot(json)).result = "merged"
    /\ Fault
    /\ up' = FALSE
    /\ group' = {}
    /\ saved' = Saved(o, TornFile)
    /\ UNCHANGED <<ownerVars, unsaved>>

\* blocks_load: one file that does not load and the program does not start.
Loads == \A k \in DOMAIN saved : saved[k].whole /\ Valid(LoadRoot(saved[k].json))

Restart ==
    /\ ~up
    /\ Loads
    /\ up' = TRUE
    /\ group' = {[key |-> k, root |-> LoadRoot(saved[k].json)] : k \in DOMAIN saved}
    /\ unsaved' = {}
    /\ UNCHANGED <<ownerVars, saved, faults>>

Next ==
    \/ \E o \in Owners : \/ \E t \in Transactions[o] : Mine(o, t)
                         \/ Lose(o) \/ Send(o)
                         \/ \E r \in Arriving(o) : Receive(o, r) \/ CrashInSave(o, r)
    \/ Crash
    \/ Restart

Spec == Init /\ [][Next]_vars

\* The program is started again, and the block file an owner sends arrives in
\* the end: the owner sends it again to every peer that says hello.
Arrives(o) == \E json \in sent[o] : json = RootObject(file[o]) /\ Receive(o, json)

FairSpec ==
    /\ Spec
    /\ WF_vars(Restart)
    /\ \A o \in Owners : WF_vars(Arrives(o))

-----------------------------------------------------------------------------
(* Properties *)

IsPrefixOf(s, t) == Len(s) <= Len(t) /\ \A k \in 1..Len(s) : s[k] = t[k]

\* Whatever arrives, in whatever order, forked or stale: the group has at most
\* one root per owner, each root validates and is, block for block, a version
\* that the owner sent; merging never puts two versions together.
CopiesAreReal ==
    \A g \in group :
        /\ Valid(g.root)
        /\ g.key \in Owners =>
              /\ Cardinality(Found(g.key)) = 1
              /\ RootObject(g.root) \in sent[g.key]

\* What is in memory is what a restart would load, unless a write failed.
SavedIsCopy ==
    up => \A o \in Owners \ unsaved :
            IF o \in DOMAIN saved
            THEN \E g \in Found(o) : saved[o] = WholeFile(RootObject(g.root))
            ELSE Found(o) = {}

\* While the program runs no block that was collected is dropped or replaced.
CopiesGrow ==
    [][up /\ up' => \A g \in group : \E h \in group' :
                        h.key = g.key /\ IsPrefixOf(g.root, h.root)]_vars

Included(o) ==
    \E g \in Found(o) : \/ IsPrefixOf(file[o], g.root)
                        \/ ~IsPrefixOf(g.root, file[o])

\* The block file an owner sends is in the end part of the receiver's root,
\* unless the two are different branches or a torn file keeps the program down.
Converges ==
    \A o \in Owners : []<>(RootObject(file[o]) \in sent[o] => Included(o) \/ ~Loads)
=============================================================================
