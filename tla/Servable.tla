------------------------------- MODULE Servable -------------------------------
(***************************************************************************)
(* A battery as a loop that serves it sees it: events queue up, each is    *)
(* read once, reading one may schedule a push, a push that is due is made  *)
(* once the queue looked empty, and the time of the next push never moves  *)
(* away.  Battery implements this, and Serve rests on nothing else.        *)
(***************************************************************************)
EXTENDS Clock

CONSTANTS
  None,        \* stands for Rust's None
  Delays,      \* the ticks until a push that is scheduled
  MayFail,     \* whether service may fail
  MayOverlook  \* whether the queue may look empty and not be

VARIABLES
  queued,  \* events nobody has read
  due,     \* Battery::next_deadline
  stage    \* "absent", "rest", or in service "reading", then "settling"

servable == <<queued, due, stage>>

ServableInit == queued = 0 /\ due = None /\ stage \in {"absent", "rest"}

(* A battery may find on its handle what was queued for an earlier one.    *)
Come ==
  /\ stage = "absent"
  /\ stage' = "rest"
  /\ queued' \in Nat
  /\ UNCHANGED due

Scheduled ==
  due' \in {IF due # None /\ due <= delay THEN due ELSE delay : delay \in Delays}

Arrive ==
  /\ stage # "absent"
  /\ queued' = queued + 1
  /\ UNCHANGED <<due, stage>>

Update ==
  /\ stage = "rest"
  /\ Scheduled
  /\ UNCHANGED <<queued, stage>>

Begin ==
  /\ stage = "rest"
  /\ stage' = "reading"
  /\ UNCHANGED <<queued, due>>

Take ==
  /\ stage = "reading"
  /\ queued > 0
  /\ queued' = queued - 1
  /\ Scheduled \/ UNCHANGED due
  /\ UNCHANGED stage

LookEmpty ==
  /\ stage = "reading"
  /\ queued = 0 \/ MayOverlook
  /\ stage' = "settling"
  /\ UNCHANGED <<queued, due>>

Settle ==
  /\ stage = "settling"
  /\ stage' = "rest"
  /\ due' = IF due = 0 THEN None ELSE due
  /\ UNCHANGED queued

(* Reading or answering fails; a push that fails was made all the same.    *)
Fail ==
  /\ MayFail
  /\ stage = "reading"
  /\ stage' = "rest"
  /\ UNCHANGED <<queued, due>>

(* The daemon is done with the battery, or dies.                           *)
Leave == queued' = 0 /\ due' = None /\ stage' = "absent"

Elapse ==
  /\ due' = IF due = None THEN None ELSE Countdown(due)
  /\ UNCHANGED <<queued, stage>>

ServableNext ==
  \/ Come \/ Arrive \/ Update \/ Begin \/ Take \/ LookEmpty \/ Settle \/ Fail
  \/ Leave \/ Elapse

ServableSpec == ServableInit /\ [][ServableNext]_servable

==============================================================================
