------------------------------ MODULE MCStream ------------------------------
(***************************************************************************)
(* An instance of Stream for TLC: four byte values, lengths of two digits, *)
(* the empty message and one of three bytes that look like a header.       *)
(***************************************************************************)
EXTENDS Stream

SomeBytes == 0 .. 3
SomeMessages == {<<>>, <<0, 1, 3>>}
============================================================================
