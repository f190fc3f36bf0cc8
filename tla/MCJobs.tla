------------------------------- MODULE MCJobs -------------------------------
(***************************************************************************)
(* Instances of Jobs for TLC.  A file of two chunks, the last of one      *)
(* byte; two files with one and the same chunk; a file of the peer itself. *)
(* All have one name when finished.                                        *)
(***************************************************************************)
EXTENDS Jobs, TLC

CONSTANTS f1, f2, f3, f4, o1, o2

Bytes ==
    (f1 :> <<"x", "y", "z", "u">>) @@ (f2 :> <<"v", "w">>) @@ (f3 :> <<"v", "w">>) @@ (f4 :> <<"v">>)

Names == [f \in Files |-> "name"]

\* o2 shared f2 without having fetched its chunk.
Chains == [o \in Owners |-> IF o = o1 THEN Files \ Own ELSE Files \cap {f2}]

Stores == [o \in Owners |-> IF o = o1 THEN AllChunks ELSE {}]

==============================================================================
