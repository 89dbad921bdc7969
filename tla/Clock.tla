-------------------------------- MODULE Clock --------------------------------
(***************************************************************************)
(* Points in time, as the whole ticks left until them.  A point that has   *)
(* passed stays at zero, which is all a comparison with Instant::now()     *)
(* tells apart.                                                            *)
(***************************************************************************)
EXTENDS Naturals

Countdown(n) == IF n = 0 THEN 0 ELSE n - 1

==============================================================================
