----------------------------- MODULE MCListenFds -----------------------------
(***************************************************************************)
(* An instance of ListenFds for TLC.                                       *)
(***************************************************************************)
EXTENDS ListenFdsInv

==============================================================================
