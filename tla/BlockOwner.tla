----------------------------- MODULE BlockOwner -----------------------------
(***************************************************************************)
(* What a peer promises the network about its own block chain.  The chain  *)
(* it holds in memory grows one transaction at a time.  The block file it  *)
(* hands to the others is absent, torn, or the whole chain.  A restart     *)
(* makes the file the chain again: this is the only step that may take     *)
(* blocks back, and the only way two versions of a chain may disagree.     *)
(*                                                                         *)
(* Mining implements this specification; Chains composes the owners of     *)
(* this specification with the peers that collect their chains.            *)
(***************************************************************************)
EXTENDS Sequences

CONSTANT Transactions     \* the transactions a block may carry

VARIABLES chain,          \* the transactions of the owner's chain, in order
          file            \* the block file: [whole, chain]

ownerVars == <<chain, file>>

NoFile == [whole |-> TRUE, chain |-> <<>>]

Torn == [whole |-> FALSE, chain |-> <<>>]

Init == /\ chain = <<>>
        /\ file = NoFile

Mine(t) == /\ chain' = Append(chain, t)
           /\ UNCHANGED file

Write == /\ file' \in {NoFile, Torn, [whole |-> TRUE, chain |-> chain]}
         /\ UNCHANGED chain

Restart == /\ file.whole
           /\ chain' = file.chain
           /\ UNCHANGED file

Next == \/ \E t \in Transactions : Mine(t)
        \/ Write
        \/ Restart

Spec == Init /\ [][Next]_ownerVars
=============================================================================
