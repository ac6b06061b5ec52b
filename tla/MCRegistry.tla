----------------------------- MODULE MCRegistry -----------------------------
(***************************************************************************)
(* Instances of Registry for TLC: two users, with requests enough to become*)
(* friends, part and meet again, one of whom also writes.                  *)
(***************************************************************************)
EXTENDS Registry, TLC

CONSTANTS ann, ben

RequestsOf == (ann :> 2) @@ (ben :> 2)
WordsOf == (ann :> 0) @@ (ben :> 1)
============================================================================
