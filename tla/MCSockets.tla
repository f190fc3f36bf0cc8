------------------------------ MODULE MCSockets ------------------------------
(* Sockets on small instances. *)
EXTENDS Sockets, TLC

CONSTANTS a1, a2

\* Two clients of one tunnel of another peer.
MCConnections == [from: {a1}, cidx: {7, 8}, src: {1024}, dst: {80}]

\* Descriptors and the ports of listening sockets are interchangeable.
Symmetry == Permutations(Fds) \cup Permutations(LocalPorts)
==============================================================================
