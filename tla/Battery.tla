------------------------------- MODULE Battery -------------------------------
(***************************************************************************)
(* One Battery (battery.rs) on one Handle (handle.rs), driven by a         *)
(* single-threaded daemon and interleaved with the kernel.  An action is   *)
(* one system call together with the code up to the next one; `pc` says    *)
(* which call of the crate is under way:                                   *)
(*                                                                         *)
(*   "idle"    the daemon holds a handle and no battery                    *)
(*   "first"   in create, CREATE2 accepted, about to push                  *)
(*   "undo"    in create, the push failed, about to destroy                *)
(*   "alive"   the daemon holds a battery and no call is under way         *)
(*   "service" in service, about to read                                   *)
(*   "reply"   in service, about to answer `event`                         *)
(*   "due"     in service, the queue looked empty                          *)
(*   "drain"   in destroy, about to read                                   *)
(***************************************************************************)
EXTENDS UhidKernel

CONSTANTS
  MAX_PERCENT,              \* the descriptor's logical maximum
  START_SETTLE_DELAY,       \* in ticks
  CHARGE_FLIP_REPUSH_DELAY, \* in ticks
  Kinds,                    \* the kinds of battery the daemon creates
  Percents,                 \* the levels it is told of, unclamped
  Interruptible,            \* the reads a signal may interrupt
  Faults                    \* whether a read or a write may fail

ASSUME BatteryAssumption ==
  /\ MAX_PERCENT \in Nat
  /\ START_SETTLE_DELAY \in Nat
  /\ CHARGE_FLIP_REPUSH_DELAY \in Nat
  /\ Kinds \subseteq {"Mouse", "Generic", "Headset"}
  /\ Percents \subseteq Nat
  /\ Interruptible \subseteq {"service", "drain"}
  /\ Faults \in BOOLEAN

VARIABLES
  pc,         \* the call under way
  kind,       \* Battery::kind
  reading,    \* Battery::reading
  repush_at,  \* Battery::repush_at, as the ticks left until then
  event,      \* the request service is answering
  published,  \* the reading of the last push the kernel took
  told,       \* whether the last push failed, which the daemon was told
  abandoned,  \* the requests whose answer could not be written
  cut         \* whether a signal or an error ended the last drain

batteryVars == <<kind, reading, repush_at>>
ghostVars == <<published, told, abandoned, cut>>
vars == <<kernelVars, pc, batteryVars, event, ghostVars>>

Held == pc \notin {"idle", "drain"}   \* a Battery exists

BatteryTypeOK ==
  /\ pc \in {"idle", "first", "undo", "alive", "service", "reply", "due", "drain"}
  /\ kind \in {"Mouse", "Generic", "Headset"}
  /\ reading \in Reading
  /\ repush_at \in Nat \cup {None}
  /\ event \in Event \cup {None}
  /\ published \in Reading
  /\ told \in BOOLEAN
  /\ abandoned \subseteq Ids
  /\ cut \in BOOLEAN

(* Every variable has its type.                                            *)
TypeOK == KernelTypeOK /\ BatteryTypeOK

Init ==
  /\ KernelInit
  /\ pc = "idle"
  /\ kind = "Generic"
  /\ reading = Unknown
  /\ repush_at = None
  /\ event = None
  /\ published = Unknown
  /\ told = FALSE
  /\ abandoned = {}
  /\ cut = FALSE

------------------------------------------------------------------------------
(* Pieces of the code the actions share.                                   *)

clamped(r) ==
  [r EXCEPT !.percent = IF r.percent <= MAX_PERCENT THEN r.percent ELSE MAX_PERCENT]

report_id(k) == IF k = "Mouse" THEN 2 ELSE 1

BugNoReportId(k) == IF k = "Mouse" THEN 2 ELSE 0

(* The report ID the descriptor of kind k declares before its battery.     *)
descriptor(k) == IF k \in {"Generic", "Headset"} THEN 1 ELSE 2

Report(k, r) ==
  [id |-> report_id(k), percent |-> r.percent, charging |-> r.charging]

BugAtOnce(delay) == repush_at' = 0

BugLatestWins(delay) == repush_at' = delay

schedule_repush(delay) ==
  repush_at' = IF repush_at # None /\ repush_at <= delay THEN repush_at ELSE delay

PushTaken(k, r) ==
  /\ TakeInput(Report(k, r))
  /\ published' = r
  /\ told' = FALSE

PushFailed ==
  /\ Faults
  /\ told' = TRUE
  /\ UNCHANGED <<kernelVars, published>>

push(k, r) == PushTaken(k, r) \/ PushFailed

(* What a Battery value leaves behind when it is gone.                     *)
Forget ==
  /\ kind' = "Generic"
  /\ reading' = Unknown
  /\ repush_at' = None
  /\ published' = Unknown
  /\ told' = FALSE
  /\ abandoned' = {}

------------------------------------------------------------------------------
(* Battery::create.  Refused by validate, or by the kernel because a device *)
(* is still there, it hands the handle back and changes nothing.           *)

Create(k, r) ==
  /\ pc = "idle"
  /\ TakeCreate(descriptor(k))
  /\ kind' = k
  /\ reading' = clamped(r)
  /\ repush_at' = None
  /\ pc' = "first"
  /\ UNCHANGED <<event, ghostVars>>

FirstPush ==
  /\ pc = "first"
  /\ \/ PushTaken(kind, reading) /\ pc' = "alive"
     \/ PushFailed /\ pc' = "undo"
  /\ UNCHANGED <<batteryVars, event, abandoned, cut>>

------------------------------------------------------------------------------
(* Battery::update.  The daemon learns of a failed push from the result.   *)

BugUpdatePushesOld(r) ==
  /\ pc = "alive"
  /\ push(kind, reading)
  /\ reading' = clamped(r)
  /\ UNCHANGED <<pc, kind, repush_at, event, abandoned, cut>>

BugUpdateSkipsEqualLevel(r) ==
  /\ pc = "alive"
  /\ reading' = clamped(r)
  /\ IF r.percent = reading.percent
     THEN UNCHANGED <<kernelVars, published, told>>
     ELSE push(kind, clamped(r))
  /\ UNCHANGED <<pc, kind, repush_at, event, abandoned, cut>>

Update(r) ==
  LET new == clamped(r) IN
  /\ pc = "alive"
  /\ IF new.charging # reading.charging /\ new.percent = reading.percent
     THEN schedule_repush(CHARGE_FLIP_REPUSH_DELAY)
     ELSE UNCHANGED repush_at
  /\ reading' = new
  /\ push(kind, new)
  /\ UNCHANGED <<pc, kind, event, abandoned, cut>>

------------------------------------------------------------------------------
(* Battery::service: read and handle events until there is none, then push *)
(* if a push is due.                                                       *)

Service ==
  /\ pc = "alive"
  /\ pc' = "service"
  /\ UNCHANGED <<kernelVars, batteryVars, event, ghostVars>>

BugStartIgnored ==
  /\ pc = "service"
  /\ GiveEvent
  /\ Head(queue).type = "Start"
  /\ UNCHANGED <<pc, batteryVars, event, ghostVars>>

ReadStart ==
  /\ pc = "service"
  /\ GiveEvent
  /\ Head(queue).type = "Start"
  /\ schedule_repush(START_SETTLE_DELAY)
  /\ UNCHANGED <<pc, kind, reading, event, ghostVars>>

ReadIgnored ==
  /\ pc = "service"
  /\ GiveEvent
  /\ Head(queue).type = "Ignored"
  /\ UNCHANGED <<pc, batteryVars, event, ghostVars>>

ReadRequest ==
  /\ pc = "service"
  /\ GiveEvent
  /\ Head(queue).type \in {"GetReport", "SetReport"}
  /\ event' = Head(queue)
  /\ pc' = "reply"
  /\ UNCHANGED <<batteryVars, ghostVars>>

(* The battery's report is served to everybody, at its full scale.         *)
BugAnswerUnclamped(request) ==
  [id |-> report_id(kind), percent |-> 255, charging |-> FALSE]

(* The report is served to whom asked for it, and everything else refused. *)
Answer(request) ==
  IF /\ request.type = "GetReport"
     /\ request.rnum = report_id(kind)
     /\ request.rtype = RTYPE_INPUT
  THEN Report(kind, reading)
  ELSE None

BugOnlyOursAnswered ==
  /\ pc = "reply"
  /\ event' = None
  /\ pc' = "service"
  /\ IF Answer(event) = None
     THEN UNCHANGED kernelVars
     ELSE TakeReply(event, Answer(event))
  /\ UNCHANGED <<batteryVars, ghostVars>>

Reply ==
  /\ pc = "reply"
  /\ event' = None
  /\ \/ /\ TakeReply(event, Answer(event))
        /\ pc' = "service"
        /\ UNCHANGED abandoned
     \/ /\ Faults
        /\ pc' = "alive"
        /\ abandoned' = abandoned \cup (waiting \cap {event.id})
        /\ UNCHANGED kernelVars
  /\ UNCHANGED <<batteryVars, published, told, cut>>

(* Handle::read returns None: the queue is empty, or a signal interrupted  *)
(* the read.                                                               *)
ReadNothing ==
  /\ pc = "service"
  /\ queue = <<>> \/ "service" \in Interruptible
  /\ pc' = "due"
  /\ UNCHANGED <<kernelVars, batteryVars, event, ghostVars>>

(* The read fails, and service with it.                                    *)
ReadFails ==
  /\ pc = "service"
  /\ Faults
  /\ pc' = "alive"
  /\ UNCHANGED <<kernelVars, batteryVars, event, ghostVars>>


(* The re-push is forgotten before it is attempted.                        *)
PushIfDue ==
  /\ pc = "due"
  /\ pc' = "alive"
  /\ IF repush_at = 0
     THEN repush_at' = None /\ push(kind, reading)
     ELSE UNCHANGED <<repush_at, kernelVars, published, told>>
  /\ UNCHANGED <<kind, reading, event, abandoned, cut>>

------------------------------------------------------------------------------
(* Battery::destroy, and dropping the battery or its handle.               *)

Destroy ==
  /\ pc \in {"alive", "undo"}
  /\ \/ TakeDestroy
     \/ Faults /\ UNCHANGED kernelVars
  /\ pc' = "drain"
  /\ Forget
  /\ UNCHANGED <<event, cut>>

Drain ==
  /\ pc = "drain"
  /\ GiveEvent
  /\ UNCHANGED <<pc, batteryVars, event, ghostVars>>

BugDrainOnce ==
  /\ pc = "drain"
  /\ pc' = "idle"
  /\ cut' = FALSE
  /\ UNCHANGED <<kernelVars, batteryVars, event, published, told, abandoned>>

(* The loop stops at the first read that brings no event: the queue is     *)
(* empty, or a signal or an error cuts the drain short.                    *)
DrainEnd ==
  /\ pc = "drain"
  /\ \/ queue = <<>> /\ cut' = FALSE
     \/ ("drain" \in Interruptible \/ Faults) /\ cut' = TRUE
  /\ pc' = "idle"
  /\ UNCHANGED <<kernelVars, batteryVars, event, published, told, abandoned>>

(* The handle is closed, by a drop or because the process dies at any      *)
(* point, and the daemon comes back with a fresh one.                      *)
Reopen ==
  /\ TakeClose
  /\ pc' = "idle"
  /\ event' = None
  /\ cut' = FALSE
  /\ Forget

------------------------------------------------------------------------------
(* The kernel and the clock, seen from here.                               *)

FreshIds ==
  Ids \ (QueuedIds \cup waiting \cup {e.id : e \in {event} \ {None}})

daemonVars == <<pc, batteryVars, event, ghostVars>>

ProbeStarts == StartProbe /\ UNCHANGED daemonVars

ProbeEnds == FinishProbe /\ UNCHANGED daemonVars

KernelAsks ==
  /\ Notify \/ \E id \in FreshIds : AskLevel(id) \/ AskOther(id)
  /\ UNCHANGED daemonVars

TimeOut ==
  \E id \in waiting :
    /\ GiveUp(id)
    /\ abandoned' = abandoned \ {id}
    /\ UNCHANGED <<pc, batteryVars, event, published, told, cut>>

Tick ==
  /\ KernelTick
  /\ repush_at' = IF repush_at = None THEN None ELSE Countdown(repush_at)
  /\ UNCHANGED <<pc, kind, reading, event, ghostVars>>

Inputs == [percent : Percents, charging : BOOLEAN]

Next ==
  \/ \E k \in Kinds, r \in Inputs : Create(k, r)
  \/ FirstPush
  \/ \E r \in Inputs : Update(r)
  \/ Service \/ ReadStart \/ ReadIgnored \/ ReadRequest \/ Reply
  \/ ReadNothing \/ ReadFails \/ PushIfDue
  \/ Destroy \/ Drain \/ DrainEnd \/ Reopen
  \/ ProbeStarts \/ ProbeEnds \/ KernelAsks \/ TimeOut \/ Tick

Spec == Init /\ [][Next]_vars

------------------------------------------------------------------------------
(* What the scheduler owes: time passes, the kernel gets on with a probe,  *)
(* the daemon keeps calling service, a call under way is carried through,  *)
(* and signals do not interrupt every read.  Nobody has to update, destroy *)
(* or give up on anything.                                                 *)

Fairness ==
  /\ WF_vars(Tick)
  /\ WF_vars(ProbeStarts) /\ SF_vars(ProbeEnds)
  /\ WF_vars(FirstPush) /\ WF_vars(Service) /\ WF_vars(Reply) /\ WF_vars(PushIfDue)
  /\ SF_vars(ReadStart) /\ SF_vars(ReadIgnored) /\ SF_vars(ReadRequest)
  /\ SF_vars(ReadNothing /\ queue = <<>>)

FairSpec == Spec /\ Fairness

------------------------------------------------------------------------------
(* Safety.                                                                 *)

Unread(type) == \E i \in DOMAIN queue : queue[i].type = type

Current == shown = reading /\ reported

(* A battery created on a handle that holds nothing of an earlier one: a   *)
(* new handle, or one whose last drain was not cut short.                  *)
Fresh == Held /\ ~cut

(* Whatever the interleaving of probe, pushes and events, a battery that   *)
(* got a drained handle and whose reading the kernel does not show has     *)
(* something left that will put it right: the probe has yet to send START, *)
(* START has yet to be read, a re-push is scheduled, a push is about to be *)
(* written, or the daemon was told that the last one failed.  The settle   *)
(* push of battery.rs:16-20.                                               *)
CurrentOrPending ==
  Fresh => \/ dev = "ready" /\ Current
           \/ dev = "created" \/ Unread("Start") \/ repush_at # None
           \/ pc \in {"first", "undo"} \/ told

(* Once an input report has reached the supply, however late, sysfs shows  *)
(* the reading the daemon last gave, which replies (battery.rs:295) and    *)
(* pushes (battery.rs:408) both take from the battery.                     *)
ReportedIsCurrent == Held /\ reported /\ ~told => shown = reading

(* On a kernel that announces charging flips, UPower is then told of it    *)
(* as well: no push is wasted on a supply that already had the level.      *)
Announced == Held /\ reported /\ ~told => upower = reading

(* On any kernel, only the charging status can be news to UPower.          *)
LevelAnnounced ==
  Held /\ reported /\ ~told => upower.percent = reading.percent

(* A re-push is only ever attempted once the probe is over: the settle     *)
(* delay (battery.rs:21), which no START of an earlier device begins on a  *)
(* drained handle, outlasts the probe.                                     *)
RepushLands == Fresh /\ repush_at = 0 => dev = "ready"

(* Nobody in the kernel waits for an answer that nothing will bring: a     *)
(* request is unread, or being answered, or its answer failed.             *)
NoLostRequest ==
  Held => waiting \ abandoned \subseteq QueuedIds \cup {e.id : e \in {event} \ {None}}

(* Events of one device stay on the handle for the next one to read only   *)
(* if a signal or an error cut the drain between them short; the next      *)
(* complete drain, or a new handle, puts an end to it (handle.rs:188-190). *)
StaleOnlyWhenCut == Held /\ leftover > 0 => cut

(* The kernel passes a level on as it is (battery.rs:34), so none past the *)
(* maximum is ever handed to it, by a push or by a reply.                  *)
ShownWithinMaximum == shown.percent <= MAX_PERCENT

------------------------------------------------------------------------------
(* Liveness.                                                               *)

(* A request is answered, or given up on, or its device goes: service      *)
(* never leaves one for ever in its queue (battery.rs:188-191).            *)
RequestsAnswered == \A id \in Ids : id \in waiting ~> id \notin waiting

(* The kernel does not ask faster than service answers for ever, which     *)
(* would keep it from ever reaching the push it owes.                      *)
NoFlood == []<>(pc = "alive") => []<>(pc = "service" /\ queue = <<>>)


------------------------------------------------------------------------------
(* Refinement.                                                             *)

P == INSTANCE Publication WITH
       Readings <- [percent : 0 .. MAX_PERCENT, charging : BOOLEAN],
       Blank <- Unknown,
       Nothing <- None,
       wanted <- IF Held THEN reading ELSE None,
       supply <- IF Held THEN shown ELSE Unknown,
       landed <- Held /\ reported,
       MayMiss <- Faults

(* Whatever the kernel and the daemon interleave, sysfs is only ever given *)
(* the reading the daemon wants at that moment.                            *)
Publishes == P!PublicationSpec

S == INSTANCE Servable WITH
              queued <- IF Held THEN Len(queue) ELSE 0,
              due <- IF Held THEN repush_at ELSE None,
              stage <- CASE ~Held -> "absent"
                         [] pc \in {"service", "reply"} -> "reading"
                         [] pc = "due" -> "settling"
                         [] OTHER -> "rest",
              Delays <- {START_SETTLE_DELAY, CHARGE_FLIP_REPUSH_DELAY},
              MayFail <- Faults,
              MayOverlook <- "service" \in Interruptible

(* A battery is to the loop that serves it what Servable says: no event is *)
(* read twice or dropped, and the push it owes is made on time or sooner,  *)
(* never put off by what is read or updated in between (battery.rs:421),   *)
(* whatever a drain that was cut short left on its handle.                 *)
Serves == S!ServableSpec

------------------------------------------------------------------------------
(* What the documentation says, against the code.                          *)

(* handle.rs:186 on drain: "Discards whatever the kernel queued for a      *)
(* device that is gone, so it is not mistaken for news about the next      *)
(* device created on this handle".                                         *)
NoStaleEvents == Held => leftover = 0

(* battery.rs:390 on reading(): "The reading last published, after         *)
(* clamping".                                                              *)
ReadingIsLastPublished == pc = "alive" => reading = published

(* README.md, "What it knows": a charging flip "is not always announced    *)
(* [...] so the report is pushed again once that window has closed".       *)
FlipPushedAgain ==
  Held /\ reported /\ ~told /\ upower # reading => repush_at # None

(* battery.rs:19: should the settle push still be too early "nothing       *)
(* breaks: the kernel asks for the level (GET_REPORT) until a push lands". *)
(* A battery with nothing left to do and a kernel that has got the level   *)
(* by asking has the whole reading.                                        *)
NothingBreaks ==
  /\ pc = "alive" /\ dev = "ready" /\ ~told
  /\ repush_at = None /\ ~Unread("Start")
  /\ shown.percent = reading.percent
  => shown = reading

==============================================================================
