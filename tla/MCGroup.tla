------------------------------ MODULE MCGroup ------------------------------
(***************************************************************************)
(* An instance of Group for TLC: two users, without a group or in one in   *)
(* any ranks, of whom one says two things.  With two requests each one can *)
(* remove the other from the group while he has its chat open.             *)
(***************************************************************************)
EXTENDS Group, TLC

CONSTANTS ann, ben

RequestsOf == ann :> 2 @@ ben :> 2
WordsOf == ann :> 2 @@ ben :> 0
============================================================================
