----------------------------- MODULE MCFileParts -----------------------------
(***************************************************************************)
(* Instance of FileParts for TLC: a file of one part, and one of two parts *)
(* whose last is short.                                                    *)
(***************************************************************************)
EXTENDS FileParts, TLC

CONSTANTS Short, Long, s1, s2

Lengths == (Short :> 2) @@ (Long :> 3)

\* One sender makes a task and may be started again, the other makes two.
Tasks == (s1 :> 1) @@ (s2 :> 2)
Runs == (s1 :> 2) @@ (s2 :> 1)

==============================================================================
