------------------------------ MODULE MCChains ------------------------------
EXTENDS Chains, TLC

CONSTANTS o1, o2, t1, t2

\* One owner whose chain grows, is lost and forks, and one with a single block.
MCOwners == {o1, o2}
MCTransactions == o1 :> {t1, t2} @@ o2 :> {t1}
MCMaxLength == o1 :> 3 @@ o2 :> 1
=============================================================================
