------------------------------ MODULE WaitSupply ------------------------------
(***************************************************************************)
(* Battery::wait_for_power_supply (battery.rs:365): service, look at       *)
(* sysfs, look at the clock, serve until the next look.  serve_until is    *)
(* what Serve shows of it: it reads what the kernel sends as it comes, and *)
(* returns at its deadline, at a signal, or with an error.  Registration   *)
(* says what reading an event does, and what the kernel does meanwhile.    *)
(***************************************************************************)
EXTENDS Clock, Names

CONSTANTS
  REGISTRATION_POLL,  \* in ticks
  Timeouts,           \* the daemon's timeouts, None for one past Instant's range
  MaxLag,             \* bound on the ticks from one wake-up to the next block
  Faults,             \* whether servicing may fail
  OtherUniqs          \* the other devices whose supplies sysfs lists

ASSUME WaitAssumption ==
  /\ REGISTRATION_POLL \in Nat \ {0}
  /\ None \notin Nat
  /\ Timeouts \subseteq Nat \cup {None}
  /\ MaxLag \in Nat
  /\ Faults \in BOOLEAN
  /\ OtherUniqs \subseteq Seq(Nat)

VARIABLES
  pc,        \* "caller"; in the loop "service", "look", "clock"; "serve"
  deadline,  \* the ticks left of the timeout
  until,     \* the ticks left of the deadline given to serve_until
  lag,       \* ticks since the last wake-up, while the call does not block
  outcome,   \* what the call returned
  path,      \* the entry it found
  age,       \* ticks of the call since the supply was registered
  late,      \* ticks of the call since its deadline
  waited,    \* ticks of the call since the kernel asked what it waits on,
             \* or since a signal last interrupted reading it
  battery,   \* the daemon's Battery, or None
  ours,      \* the entry of the battery's supply, or None
  inbox,     \* what the kernel has sent and nobody has read
  asked      \* the request the kernel waits on, or None

call == <<deadline, until, lag, outcome, path>>
ghosts == <<age, late, waited>>
world == <<battery, ours, inbox, asked>>

Bound == REGISTRATION_POLL + 2 * MaxLag + 1  \* the ghosts stop there

LoopTypeOK ==
  /\ pc \in {"caller", "service", "look", "clock", "serve"}
  /\ deadline \in Nat \cup {None}
  /\ until \in 0 .. REGISTRATION_POLL
  /\ lag \in 0 .. MaxLag
  /\ outcome \in {"none", "found", "missing", "Err"}
  /\ {age, late, waited} \subseteq 0 .. Bound

LoopInit ==
  /\ pc = "caller"
  /\ deadline = None
  /\ until = 0 /\ lag = 0
  /\ outcome = "none" /\ path = None
  /\ age = 0 /\ late = 0 /\ waited = 0

Waiting == pc # "caller"

------------------------------------------------------------------------------
(* The code.                                                               *)

Wait(timeout) ==
  /\ pc = "caller"
  /\ battery # None
  /\ deadline' = timeout
  /\ outcome' = "none" /\ path' = None
  /\ pc' = "service"
  /\ UNCHANGED <<until, lag, ghosts, world>>

Return(result, entry) ==
  /\ pc' = "caller"
  /\ outcome' = result /\ path' = entry
  /\ deadline' = None /\ until' = 0 /\ lag' = 0
  /\ age' = 0 /\ late' = 0 /\ waited' = 0

Go(next) ==
  /\ pc' = next
  /\ UNCHANGED <<call, ghosts>>

(* As if there were nothing left; nobody answers sooner than signals let,  *)
(* and the wait for an answer is counted from the last one.                *)
ReadInterrupted ==
  /\ pc' = "look"
  /\ waited' = 0
  /\ UNCHANGED <<call, age, late>>

(* Servicing is over once a read brings nothing: there is nothing left, or *)
(* a signal interrupted it.                                                *)
Service ==
  /\ pc = "service"
  /\ \/ inbox = <<>> /\ Go("look")
     \/ ReadInterrupted
     \/ Faults /\ Return("Err", None)
  /\ UNCHANGED world

Class ==
  {SupplyName(uniq, numbered, 1) :
     uniq \in OtherUniqs \ {battery.uniq}, numbered \in BOOLEAN}
  \cup ({ours} \ {None})

power_supply == find_power_supply(Class, battery.uniq)

LookUp ==
  \/ \E entry \in power_supply : Return("found", entry)
  \/ power_supply = {} /\ Go("clock")

BugTimeFirst ==
  /\ pc = "look"
  /\ IF deadline = 0 THEN Return("missing", None) ELSE LookUp
  /\ UNCHANGED world

Look ==
  /\ pc = "look"
  /\ LookUp
  /\ UNCHANGED world

BugSleepsPastDeadline(left) == REGISTRATION_POLL

BugSleepsToDeadline(left) == IF left = None THEN REGISTRATION_POLL ELSE left

(* The deadline of serve_until, with left of the call's.                   *)
NextLook(left) ==
  IF left # None /\ left < REGISTRATION_POLL THEN left ELSE REGISTRATION_POLL

Serve ==
  /\ pc' = "serve" /\ until' = NextLook(deadline) /\ lag' = 0
  /\ UNCHANGED <<deadline, outcome, path, ghosts>>


ReadClock ==
  /\ pc = "clock"
  /\ IF deadline = 0 THEN Return("missing", None) ELSE Serve
  /\ UNCHANGED world

ServeReturns ==
  /\ pc = "serve"
  /\ until = 0 /\ inbox = <<>>
  /\ Go("service")
  /\ UNCHANGED world

ServeInterrupted ==
  /\ pc = "serve"
  /\ Go("service")
  /\ UNCHANGED world

ServeFails ==
  /\ pc = "serve"
  /\ Faults
  /\ Return("Err", None)
  /\ UNCHANGED world

------------------------------------------------------------------------------
(* An event is read while servicing, by the call itself or by serve_until, *)
(* which blocks again once there are none.                                 *)

Servicing == pc \in {"service", "serve"}

Reading == Servicing /\ inbox # <<>>

Took ==
  /\ inbox' = Tail(inbox)
  /\ lag' = IF pc = "serve" /\ until > 0 /\ inbox' = <<>> THEN 0 ELSE lag
  /\ waited' = IF asked' = None THEN 0 ELSE waited
  /\ UNCHANGED <<pc, deadline, until, outcome, path, age, late>>

------------------------------------------------------------------------------
(* The clock.                                                              *)

(* As if the sleep watched nothing.                                        *)
BugSleeps == pc = "serve" /\ until > 0

(* In poll(), with nothing to wake it.                                     *)
Blocked == pc = "serve" /\ until > 0 /\ inbox = <<>>

OneMore(n) == IF n < Bound THEN n + 1 ELSE n

Tick ==
  /\ Waiting
  /\ Blocked \/ lag < MaxLag
  /\ lag' = IF Blocked THEN lag ELSE lag + 1
  /\ deadline' = IF deadline = None THEN None ELSE Countdown(deadline)
  /\ until' = Countdown(until)
  /\ age' = IF ours = None THEN age ELSE OneMore(age)
  /\ late' = IF deadline = 0 THEN OneMore(late) ELSE late
  /\ waited' = IF asked = None THEN 0 ELSE OneMore(waited)
  /\ UNCHANGED <<pc, outcome, path, world>>

------------------------------------------------------------------------------

(* What the call says is right.  None is returned only past the deadline   *)
(* and on a look taken since the last wake-up: a supply it missed was      *)
(* registered during that turn, never during the sleep before it           *)
(* (battery.rs:370-375).  And what is found is the battery's own supply,   *)
(* whatever the others' are called (sysfs.rs:33-34).                       *)
AnswerIsRight ==
  [][/\ outcome' = "missing" /\ outcome # "missing" =>
          deadline = 0 /\ (ours # None => age <= lag)
     /\ path' # None /\ path' # path => path' = ours]_<<pc, call, ghosts, world>>

(* A supply is found by the next look, a poll interval away at most,       *)
(* whatever is left of the timeout, and whatever the kernel called it.     *)
FoundSoon == age <= REGISTRATION_POLL + 2 * MaxLag

(* The call outlasts its deadline only by the turn it was in: it does not  *)
(* sleep a poll interval past it (battery.rs:379).                         *)
NotLate == late <= MaxLag

(* The kernel does not wait for an answer while the call waits for the     *)
(* supply: it serves, rather than sleeps, between two looks                *)
(* (battery.rs:377), and two turns after the request, or after the last    *)
(* signal that kept it from being read, it is answered.                    *)
AnsweredSoon == waited <= 2 * MaxLag


==============================================================================
