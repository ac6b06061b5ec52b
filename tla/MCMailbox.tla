----------------------------- MODULE MCMailbox -----------------------------
(***************************************************************************)
(* Instances of Mailbox for TLC: two users, one of whom enters the chat    *)
(* more often than the other.                                              *)
(***************************************************************************)
EXTENDS Mailbox, TLC

CONSTANTS alice, bob

EntersOf == (alice :> 2) @@ (bob :> 1)

\* Messages are interchangeable.
Symmetry == Permutations(Messages)
============================================================================
