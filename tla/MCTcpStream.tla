----------------------------- MODULE MCTcpStream -----------------------------
(***************************************************************************)
(* An instance of TcpStream for TLC.                                       *)
(***************************************************************************)
EXTENDS TcpStream, TLC

\* The tunnel's peer makes three tasks, the endpoint's one.
Tasks == [e \in Ends |-> IF e = "tunnel" THEN 3 ELSE 1]

\* Descriptors and contents are interchangeable.
Symmetry == Permutations(Fds) \cup Permutations(Chunks)

==============================================================================
