------------------------------ MODULE MCWorld ------------------------------
EXTENDS World

CONSTANTS p1, p2

MCPeers == {p1, p2}
=============================================================================
