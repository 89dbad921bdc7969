-------------------------------- MODULE Serve --------------------------------
(***************************************************************************)
(* The loop behind serve_all and Battery::serve_until (battery.rs): service *)
(* every battery, work out how long to wait, poll, decide.  A battery is   *)
(* what the loop sees of it: how many events its device has queued, when   *)
(* its next push is due, whether servicing it fails.  Servicing one is a   *)
(* read at a time, then the push, so events, signals and the clock fall    *)
(* between them.  Servable says the same of one battery, and Battery       *)
(* implements that.                                                        *)
(***************************************************************************)
EXTENDS Clock, Integers, Sequences, SequencesExt, FiniteSetsExt

CONSTANTS
  Batteries,    \* the batteries of the daemon
  Order,        \* the slice it starts out with
  None,         \* stands for Rust's None
  MaxQueued,    \* bound on the events one device has queued
  Delays,       \* the ticks until a push that an event or the daemon schedules
  Deadlines,    \* the ticks until the deadline of a call, None for no deadline
  MaxLag,       \* bound on the ticks between reading the clock and blocking
  Signals,      \* "poll", "read": what a signal may interrupt
  Faults        \* whether a battery may break, and poll() be refused

ASSUME ServeAssumption ==
  /\ Order \in Seq(Batteries) /\ IsInjective(Order)
  /\ None \notin Nat \cup Batteries
  /\ MaxQueued \in Nat /\ MaxLag \in Nat
  /\ Delays \subseteq Nat
  /\ Deadlines \subseteq Nat \cup {None}
  /\ Signals \subseteq {"poll", "read"}
  /\ Faults \in BOOLEAN

VARIABLES
  queued,    \* events read() has yet to return, per battery
  due,       \* Battery::next_deadline
  broken,    \* the batteries whose service fails
  wake,      \* the wake descriptor
  slice,     \* the batteries the daemon still serves, in order
  pc,        \* "caller" outside serve; "service", "plan", "enter", "poll", "check"
  pass,      \* which service_all: "loop", or the Wakeup to return after it
  turn,      \* the position in the slice of the battery being serviced
  settling,  \* whether its queue looked empty, and the push is next
  deadline,  \* of the call, None outside one too
  watched,   \* whether the call was given the wake descriptor
  timeout,   \* what is left of the timeout handed to poll(), None outside poll() too
  lag,       \* ticks since the clock was read to work it out
  outcome,   \* what the last call returned
  culprit,   \* ServeError::index, or None
  owed,      \* events queued when the last pass began and not read since
  owing      \* batteries whose push was due when the last pass began

deviceVars == <<queued, due, broken>>
callVars == <<slice, deadline, watched, outcome, culprit>>
waitVars == <<timeout, lag>>
ghostVars == <<owed, owing>>
passVars == <<pass, turn, settling>>
vars == <<deviceVars, wake, pc, passVars, callVars, waitVars, ghostVars>>

Wakeups == {"Wake", "Deadline", "Interrupted"}

(* Every variable has its type.                                            *)
TypeOK ==
  /\ queued \in [Batteries -> 0 .. MaxQueued]
  /\ due \in [Batteries -> Nat \cup {None}]
  /\ broken \subseteq Batteries
  /\ wake \in {"quiet", "readable", "hungup"}
  /\ slice \in Seq(Batteries)
  /\ pc \in {"caller", "service", "plan", "enter", "poll", "check"}
  /\ pass \in {"loop"} \cup Wakeups
  /\ turn \in 1 .. Len(slice) + 1 /\ settling \in BOOLEAN
  /\ deadline \in Nat \cup {None}
  /\ watched \in BOOLEAN
  /\ timeout \in Nat \cup {None}
  /\ lag \in 0 .. MaxLag
  /\ outcome \in {"none", "Err"} \cup Wakeups
  /\ culprit \in DOMAIN slice \cup {None}
  /\ owed \in [Batteries -> 0 .. MaxQueued]
  /\ owing \subseteq Batteries

Init ==
  /\ queued = [b \in Batteries |-> 0]
  /\ due = [b \in Batteries |-> None]
  /\ broken = {}
  /\ wake = "quiet"
  /\ slice = Order
  /\ pc = "caller"
  /\ pass = "loop"
  /\ turn = 1 /\ settling = FALSE
  /\ deadline = None
  /\ watched = FALSE
  /\ timeout = None
  /\ lag = 0
  /\ outcome = "none"
  /\ culprit = None
  /\ owed = [b \in Batteries |-> 0]
  /\ owing = {}

Serving == pc # "caller"

Soonest(S) == IF S \ {None} = {} THEN None ELSE Min(S \ {None})

Pushes == {due[slice[i]] : i \in DOMAIN slice}

------------------------------------------------------------------------------
(* The daemon between two calls.                                           *)

(* After an error it does without the battery that failed, and calls again. *)
Call(d, w) ==
  /\ pc = "caller"
  /\ culprit = None
  /\ deadline' = d
  /\ watched' = w
  /\ pc' = "service"
  /\ pass' = "loop"
  /\ turn' = 1 /\ settling' = FALSE
  /\ outcome' = "none"
  /\ owed' = [b \in Batteries |-> 0]
  /\ owing' = {}
  /\ UNCHANGED <<deviceVars, wake, slice, culprit, waitVars>>

GiveUpOn ==
  /\ pc = "caller"
  /\ culprit # None
  /\ slice' = RemoveAt(slice, culprit)
  /\ culprit' = None
  /\ turn' = 1 /\ settling' = FALSE
  /\ UNCHANGED <<deviceVars, wake, pc, pass, deadline, watched, outcome, waitVars, ghostVars>>

(* An update that schedules a push.                                        *)
Update(b, delay) ==
  /\ pc = "caller"
  /\ due' = [due EXCEPT ![b] = Soonest({@, delay})]
  /\ UNCHANGED <<queued, broken, wake, pc, passVars, callVars, waitVars, ghostVars>>

(* The daemon reads the wake descriptor, or replaces a dead one.           *)
ReadWake ==
  /\ pc = "caller"
  /\ wake # "quiet"
  /\ wake' = "quiet"
  /\ UNCHANGED <<deviceVars, pc, passVars, callVars, waitVars, ghostVars>>

------------------------------------------------------------------------------
(* service_all.                                                            *)

NoWait == timeout' = None /\ lag' = 0

Return(result, index) ==
  /\ pc' = "caller"
  /\ outcome' = result
  /\ culprit' = index
  /\ deadline' = None /\ watched' = FALSE
  /\ NoWait
  /\ UNCHANGED <<slice, passVars>>

Serviced == slice[turn]

InTurn == pc = "service" /\ turn <= Len(slice)

(* Battery::service reads an event and answers it; UHID_START schedules a  *)
(* push.                                                                   *)
Answer ==
  /\ InTurn /\ ~settling
  /\ Serviced \notin broken /\ queued[Serviced] > 0
  /\ queued' = [queued EXCEPT ![Serviced] = @ - 1]
  /\ owed' = [owed EXCEPT ![Serviced] = Countdown(@)]
  /\ \/ UNCHANGED due
     \/ \E delay \in Delays : due' = [due EXCEPT ![Serviced] = Soonest({@, delay})]
  /\ UNCHANGED <<broken, wake, pc, passVars, callVars, waitVars, owing>>

(* Nothing is left to read, or so a signal makes it seem.                  *)
LooksEmpty ==
  /\ InTurn /\ ~settling
  /\ Serviced \notin broken
  /\ settling' = TRUE
  /\ UNCHANGED <<deviceVars, wake, pc, pass, turn, callVars, waitVars, ghostVars>>

ReadNothing ==
  /\ LooksEmpty
  /\ queued[Serviced] = 0

ReadInterrupted ==
  /\ "read" \in Signals
  /\ LooksEmpty

BugPushForgotten ==
  /\ InTurn /\ settling
  /\ turn' = turn + 1 /\ settling' = FALSE
  /\ UNCHANGED <<deviceVars, wake, pc, pass, callVars, waitVars, ghostVars>>

(* Push if a push is due, and on to the next battery.                      *)
Settle ==
  /\ InTurn /\ settling
  /\ Serviced \in broken => due[Serviced] # 0
  /\ due' = [due EXCEPT ![Serviced] = IF @ = 0 THEN None ELSE @]
  /\ owing' = owing \ {Serviced}
  /\ turn' = turn + 1 /\ settling' = FALSE
  /\ UNCHANGED <<queued, broken, wake, pc, pass, callVars, waitVars, owed>>

BugFirstBlamed ==
  /\ InTurn
  /\ Serviced \in broken
  /\ Return("Err", 1)
  /\ UNCHANGED <<deviceVars, wake, ghostVars>>

BugNobodyBlamed ==
  /\ InTurn
  /\ Serviced \in broken
  /\ Return("Err", None)
  /\ UNCHANGED <<deviceVars, wake, ghostVars>>

(* A read, an answer or the push fails, and the call stops there: a push   *)
(* is not tried again.                                                     *)
Fail ==
  /\ InTurn
  /\ Serviced \in broken
  /\ settling => due[Serviced] = 0
  /\ due' = IF settling THEN [due EXCEPT ![Serviced] = None] ELSE due
  /\ Return("Err", turn)
  /\ UNCHANGED <<queued, broken, wake, ghostVars>>

(* Every battery was serviced.                                             *)
PassDone ==
  /\ pc = "service" /\ turn > Len(slice)
  /\ IF pass = "loop"
     THEN pc' = "plan" /\ UNCHANGED <<passVars, callVars, waitVars>>
     ELSE Return(pass, None)
  /\ UNCHANGED <<deviceVars, wake, ghostVars>>

LastPass(wakeup) ==
  /\ pc' = "service"
  /\ pass' = wakeup
  /\ turn' = 1 /\ settling' = FALSE
  /\ NoWait
  /\ owed' = queued
  /\ owing' = {b \in Batteries : due[b] = 0}

------------------------------------------------------------------------------
(* serve, and wait.                                                        *)

BugPlansForDeadlineOnly ==
  /\ pc = "plan"
  /\ timeout' = deadline
  /\ lag' = 0
  /\ pc' = "enter"
  /\ UNCHANGED <<deviceVars, wake, passVars, callVars, ghostVars>>

Plan ==
  /\ pc = "plan"
  /\ timeout' = Soonest(Pushes \cup {deadline})
  /\ lag' = 0
  /\ pc' = "enter"
  /\ UNCHANGED <<deviceVars, wake, passVars, callVars, ghostVars>>

Enter ==
  /\ pc = "enter"
  /\ pc' = "poll"
  /\ UNCHANGED <<deviceVars, wake, passVars, callVars, waitVars, ghostVars>>

DeviceReady == \E i \in DOMAIN slice : queued[slice[i]] > 0

Ready == DeviceReady \/ timeout = 0 \/ (watched /\ wake # "quiet")

BugWakeReturnsAtOnce ==
  /\ pc = "poll" /\ Ready
  /\ watched /\ wake = "readable"
  /\ Return("Wake", None)
  /\ owed' = queued
  /\ owing' = {b \in Batteries : due[b] = 0}
  /\ UNCHANGED <<deviceVars, wake>>

PollWake ==
  /\ pc = "poll" /\ Ready
  /\ watched /\ wake = "readable"
  /\ LastPass("Wake")
  /\ UNCHANGED <<deviceVars, wake, callVars>>

BugHangUpIgnored ==
  /\ pc = "poll" /\ Ready
  /\ watched /\ wake = "hungup"
  /\ pc' = "check"
  /\ UNCHANGED <<deviceVars, wake, passVars, callVars, waitVars, ghostVars>>

PollHungUp ==
  /\ pc = "poll" /\ Ready
  /\ watched /\ wake = "hungup"
  /\ Return("Err", None)
  /\ UNCHANGED <<deviceVars, wake, ghostVars>>

PollDevice ==
  /\ pc = "poll" /\ Ready
  /\ watched => wake = "quiet"
  /\ pc' = "check"
  /\ UNCHANGED <<deviceVars, wake, passVars, callVars, waitVars, ghostVars>>

PollInterrupted ==
  /\ pc = "poll"
  /\ "poll" \in Signals
  /\ LastPass("Interrupted")
  /\ UNCHANGED <<deviceVars, wake, callVars>>

PollRefused ==
  /\ pc = "poll"
  /\ Faults
  /\ Return("Err", None)
  /\ UNCHANGED <<deviceVars, wake, ghostVars>>

BugTimeoutIsDeadline ==
  /\ pc = "check"
  /\ IF timeout = 0
     THEN LastPass("Deadline")
     ELSE /\ pc' = "service" /\ turn' = 1 /\ settling' = FALSE
          /\ NoWait
          /\ UNCHANGED <<pass, ghostVars>>
  /\ UNCHANGED <<deviceVars, wake, callVars>>

Check ==
  /\ pc = "check"
  /\ IF deadline = 0
     THEN LastPass("Deadline")
     ELSE /\ pc' = "service" /\ turn' = 1 /\ settling' = FALSE
          /\ NoWait
          /\ UNCHANGED <<pass, ghostVars>>
  /\ UNCHANGED <<deviceVars, wake, callVars>>

------------------------------------------------------------------------------
(* The kernel, whoever holds the other end of the wake descriptor, and the *)
(* clock.                                                                  *)

Event(b) ==
  /\ queued[b] < MaxQueued
  /\ queued' = [queued EXCEPT ![b] = @ + 1]
  /\ UNCHANGED <<due, broken, wake, pc, passVars, callVars, waitVars, ghostVars>>

Break(b) ==
  /\ Faults
  /\ broken' = broken \cup {b}
  /\ UNCHANGED <<queued, due, wake, pc, passVars, callVars, waitVars, ghostVars>>

WriteWake ==
  /\ wake = "quiet"
  /\ wake' \in {"readable", "hungup"}
  /\ UNCHANGED <<deviceVars, pc, passVars, callVars, waitVars, ghostVars>>

BugUnsaturated(t) == IF t = None THEN None ELSE t - 1

LeftOf(t) == IF t = None THEN None ELSE Countdown(t)

Tick ==
  /\ pc = "enter" => lag < MaxLag
  /\ due' = [b \in Batteries |-> LeftOf(due[b])]
  /\ deadline' = LeftOf(deadline)
  /\ timeout' = IF pc = "poll" THEN LeftOf(timeout) ELSE timeout
  /\ lag' = IF pc = "enter" THEN lag + 1 ELSE lag
  /\ UNCHANGED <<queued, broken, wake, pc, passVars, slice, watched, outcome, culprit,
                 ghostVars>>

Next ==
  \/ \E d \in Deadlines, w \in BOOLEAN : Call(d, w)
  \/ GiveUpOn \/ ReadWake
  \/ \E b \in ToSet(slice), delay \in Delays : Update(b, delay)
  \/ Answer \/ ReadNothing \/ ReadInterrupted \/ Settle \/ Fail \/ PassDone
  \/ Plan \/ Enter
  \/ PollWake \/ PollHungUp \/ PollDevice \/ PollInterrupted \/ PollRefused \/ Check
  \/ \E b \in Batteries : Event(b) \/ Break(b)
  \/ WriteWake \/ Tick

Spec == Init /\ [][Next]_vars

------------------------------------------------------------------------------
(* The clock goes on, the daemon carries out the call and calls again, and *)
(* a signal does not interrupt every read of a battery.  That a battery's  *)
(* turn ends is not owed: NoFlood says where a property needs it.          *)

AnswerOf(b) == Answer /\ Serviced = b

CallAgain == \E d \in Deadlines, w \in BOOLEAN : Call(d, w)

Fairness ==
  /\ SF_vars(Tick) /\ WF_vars(CallAgain) /\ WF_vars(GiveUpOn)
  /\ WF_vars(ReadNothing) /\ \A b \in Batteries : SF_vars(AnswerOf(b))
  /\ WF_vars(Settle) /\ WF_vars(Fail) /\ WF_vars(PassDone)
  /\ WF_vars(Plan) /\ WF_vars(Enter) /\ WF_vars(Check)
  /\ WF_vars(PollWake) /\ WF_vars(PollHungUp) /\ WF_vars(PollDevice)

FairSpec == Spec /\ Fairness

------------------------------------------------------------------------------
(* Safety.                                                                 *)

(* battery.rs:69-71: whatever serve returned short of an error, "the       *)
(* batteries were serviced once more just before returning": no event that *)
(* was there when it decided to return is unread, no push due is unmade.   *)
ServicedBeforeReturn ==
  pc = "caller" /\ outcome \in Wakeups =>
    \A b \in ToSet(slice) : owed[b] = 0 /\ b \notin owing

(* The wait never outlasts a push or the deadline by more than the time it *)
(* took to get into poll(), the push UHID_START has just scheduled         *)
(* included (battery.rs:482-488).                                          *)
NoOversleep ==
  pc = "poll" =>
    \A t \in (Pushes \cup {deadline}) \ {None} : timeout # None /\ timeout <= t + lag

(* The call says what made it return, from the decision to the return: a   *)
(* readable wake descriptor and not a hung-up one, on which the caller     *)
(* would spin (battery.rs:447-451), and the deadline, for which a push     *)
(* that comes due is not taken (battery.rs:506).                           *)
ReturnsForCause ==
  Serving => /\ pass = "Wake" => watched /\ wake = "readable"
             /\ pass = "Deadline" => deadline = 0

(* battery.rs:452: a daemon that drops the battery a ServeError names      *)
(* never drops one that works.                                             *)
HealthyKept == \A b \in ToSet(Order) : b \in broken \/ b \in ToSet(slice)

------------------------------------------------------------------------------
(* Liveness.                                                               *)

(* No device asks for ever faster than it is answered: service reads until *)
(* there is nothing left (battery.rs:290), and the crate sets no bound.    *)
NoFlood == []<>~(InTurn /\ ~settling)

(* As long as no device floods it, the deadline ends the call, and the     *)
(* wake descriptor does, readable or hung up, wherever the call is:        *)
(* written by a signal handler, it closes the window before poll() that    *)
(* the signal itself falls through (battery.rs:539).                       *)
CallEnds ==
  NoFlood =>
    (Serving /\ (deadline # None \/ (watched /\ wake # "quiet")) ~> ~Serving)

(* A battery's requests are answered whatever becomes of the batteries     *)
(* before it in the slice, once the daemon drops those that fail, and as   *)
(* long as none of them floods the call.                                   *)
HealthyServed ==
  NoFlood =>
    \A b \in Batteries :
      b \in ToSet(slice) /\ queued[b] > 0 ~> b \notin ToSet(slice) \/ queued[b] = 0

(* So are its pushes made.                                                 *)
PushesMade ==
  NoFlood =>
    \A b \in Batteries :
      b \in ToSet(slice) /\ due[b] = 0 ~> b \notin ToSet(slice) \/ due[b] # 0

------------------------------------------------------------------------------
(* What the loop does with a battery.                                      *)

Stage(b) ==
  IF InTurn /\ Serviced = b THEN IF settling THEN "settling" ELSE "reading" ELSE "rest"

Seen(b) == INSTANCE Servable WITH
             queued <- queued[b],
             due <- due[b],
             stage <- Stage(b),
             MayFail <- Faults,
             MayOverlook <- "read" \in Signals

(* The loop takes of every battery the steps a battery takes, which are    *)
(* those Battery implements, and no others.                                *)
ServesBatteries ==
  /\ \A b \in Batteries : Seen(b)!ServableInit
  /\ [][\A b \in Batteries : Seen(b)!ServableNext \/ UNCHANGED Seen(b)!servable]_vars

==============================================================================
