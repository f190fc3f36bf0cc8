----------------------------- MODULE MCSendQueue -----------------------------
(* SendQueue on small instances. *)
EXTENDS SendQueue

CONSTANTS s1, t1

\* A shared chunk of two parts, the last one shorter, and tunnelled data of one.
MCFilePackets == [f \in Files |-> IF f = s1 THEN 3 ELSE 2]

\* Packets of another peer whose (pidx, tidx) coincide with those of a direct
\* packet and of a file packet of this one.
MCForeignKeys == {<<0, 0>>, <<1, 1>>}
==============================================================================
