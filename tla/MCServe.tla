------------------------------- MODULE MCServe -------------------------------
(***************************************************************************)
(* Instances of Serve for TLC: two batteries, in a fixed order.            *)
(***************************************************************************)
EXTENDS Serve

CONSTANTS b1, b2

TwoInOrder == <<b1, b2>>

==============================================================================
