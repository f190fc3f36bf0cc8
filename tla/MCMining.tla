------------------------------ MODULE MCMining ------------------------------
EXTENDS Mining

CONSTANTS t1, t2, p1, p2, m1, m2

MCTransactions == {t1, t2}
MCPeers == {p1, p2}
MCThreads == {m1, m2}
=============================================================================
