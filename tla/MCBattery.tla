------------------------------ MODULE MCBattery ------------------------------
(***************************************************************************)
(* Instances of Battery for TLC.  The ticks are scaled down: what matters  *)
(* is that the probe is shorter than the settle delay (or not), that it is *)
(* over before a charging flip's re-push, and that the uevent window is    *)
(* shorter than that re-push.                                              *)
(***************************************************************************)
EXTENDS BatteryInv

==============================================================================
