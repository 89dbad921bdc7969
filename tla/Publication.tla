----------------------------- MODULE Publication -----------------------------
(***************************************************************************)
(* What a Battery promises its daemon about the power supply in sysfs: it  *)
(* appears, follows the daemon's readings, and goes, and nothing but the   *)
(* reading the daemon wants at that moment is ever put in it - the whole   *)
(* of it by a push, its level by the answer to a request.  No reading comes *)
(* back once it was replaced, none is taken from another battery.  An       *)
(* update may miss the supply, before a first push has landed or because    *)
(* its write failed; a later one makes up for it.                           *)
(***************************************************************************)
EXTENDS Naturals

CONSTANTS
  Readings,  \* what can be published
  Blank,     \* what the supply shows before anybody gave it a reading
  Nothing,   \* no battery
  MayMiss    \* whether a write may fail

VARIABLES
  wanted,  \* the reading the daemon last gave, or Nothing
  supply,  \* what the power supply shows
  landed   \* whether a push has reached it

publication == <<wanted, supply, landed>>

Gone == wanted = Nothing /\ supply = Blank /\ ~landed

Appear ==
  /\ wanted = Nothing
  /\ wanted' \in Readings
  /\ UNCHANGED <<supply, landed>>

(* The daemon's new reading reaches the supply at once.                    *)
Publish ==
  /\ wanted # Nothing
  /\ wanted' \in Readings
  /\ supply' = wanted'
  /\ landed'

(* Or does not.                                                            *)
Miss ==
  /\ wanted # Nothing
  /\ landed => MayMiss
  /\ wanted' \in Readings
  /\ UNCHANGED <<supply, landed>>

(* A later push brings it there.                                           *)
CatchUp ==
  /\ wanted # Nothing
  /\ supply' = wanted
  /\ landed'
  /\ UNCHANGED wanted

AnswerLevel ==
  /\ wanted # Nothing
  /\ supply' = [supply EXCEPT !.percent = wanted.percent]
  /\ UNCHANGED <<wanted, landed>>

Vanish ==
  /\ wanted # Nothing
  /\ wanted' = Nothing
  /\ supply' = Blank
  /\ landed' = FALSE

PublicationNext == Appear \/ Publish \/ Miss \/ CatchUp \/ AnswerLevel \/ Vanish

PublicationSpec == Gone /\ [][PublicationNext]_publication

==============================================================================
