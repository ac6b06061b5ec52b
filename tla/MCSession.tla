----------------------------- MODULE MCSession -----------------------------
(***************************************************************************)
(* Instances of Session for TLC.                                           *)
(***************************************************************************)
EXTENDS Session, TLC

CONSTANT c1

\* One client sends more requests than the other; which one does not matter.
\* With three it logs in, shows its screen and deletes the account; the other's
\* two then log in by the word "null" and are routed.
RequestsOf == (c1 :> 3) @@ [c \in Conns |-> 2]
============================================================================
