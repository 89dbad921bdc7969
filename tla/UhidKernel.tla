------------------------------ MODULE UhidKernel ------------------------------
(***************************************************************************)
(* The kernel's side of one /dev/uhid handle, as the crate relies on it:   *)
(* the queue of events read() returns, the probe that swallows input       *)
(* reports until it is over, the requests that wait for an answer, and the *)
(* power supply with its rate-limited uevents.  None of this code is in    *)
(* the repository; every rule here is one the comments of battery.rs,      *)
(* event.rs and handle.rs state about the kernel.                          *)
(*                                                                         *)
(* Time is counted in ticks and every clock is a countdown, so the model   *)
(* is finite without a horizon.                                            *)
(***************************************************************************)
EXTENDS Clock, Sequences

CONSTANTS
  Ids,             \* request ids that can be in flight
  StartMax,        \* ticks at most from CREATE2 to UHID_START
  ProbeMax,        \* ticks at most from UHID_START to the end of the probe
  UeventWindow,    \* ticks for which an unchanged level is not announced
  AnnouncesFlips,  \* whether a charging flip is announced at once (7.2)
  Noise,           \* the kinds of events unrelated to the battery
  MaxQueue,        \* bound on the length of the event queue
  None             \* stands for Rust's None

VARIABLES
  dev,       \* the device on this handle
  rid,       \* the battery's report ID in the descriptor it was created with
  timer,     \* ticks left to the kernel for the current stage of the probe
  queue,     \* events read() has yet to return
  leftover,  \* how many of them were queued for a device that is gone
  waiting,   \* ids of the requests somebody in the kernel is waiting on
  shown,     \* the power supply's level and charging status
  reported,  \* whether an input report has set them
  upower,    \* what they were when the last uevent was raised
  window     \* ticks left before an unchanged level is announced again

kernelVars ==
  <<dev, rid, timer, queue, leftover, waiting, shown, reported, upower, window>>

supplyVars == <<shown, reported, upower, window>>

RTYPE_INPUT == 2
RTYPE_FEATURE == 0

Event ==
  [type : {"Start", "GetReport", "SetReport", "Ignored"},
   id : Ids \cup {0}, rnum : {0, 1, 2}, rtype : {RTYPE_INPUT, RTYPE_FEATURE}]

Reading == [percent : Nat, charging : BOOLEAN]

ASSUME KernelAssumption ==
  /\ Ids \subseteq Nat \ {0}
  /\ StartMax \in Nat
  /\ ProbeMax \in Nat
  /\ UeventWindow \in Nat
  /\ AnnouncesFlips \in BOOLEAN
  /\ Noise \subseteq {"GetReport", "SetReport", "Ignored"}
  /\ MaxQueue \in Nat
  /\ None \notin Nat \cup Event \cup Reading

Plain(type) == [type |-> type, id |-> 0, rnum |-> 0, rtype |-> RTYPE_FEATURE]

Unknown == [percent |-> 0, charging |-> FALSE]

KernelTypeOK ==
  /\ dev \in {"none", "created", "probing", "ready"}
  /\ rid \in {1, 2}
  /\ timer \in Nat
  /\ queue \in Seq(Event)
  /\ leftover \in Nat
  /\ waiting \subseteq Ids
  /\ shown \in Reading
  /\ reported \in BOOLEAN
  /\ upower \in Reading \cup {None}
  /\ window \in Nat

KernelInit ==
  /\ dev = "none"
  /\ rid = 1
  /\ timer = 0
  /\ queue = <<>>
  /\ leftover = 0
  /\ waiting = {}
  /\ shown = Unknown
  /\ reported = FALSE
  /\ upower = None
  /\ window = 0

------------------------------------------------------------------------------
(* What the kernel does on its own.                                        *)

QueuedIds == {queue[i].id : i \in DOMAIN queue}

Enqueue(event) ==
  /\ Len(queue) < MaxQueue
  /\ queue' = Append(queue, event)

(* A worker registers the device and the driver's probe begins.            *)
StartProbe ==
  /\ dev = "created"
  /\ dev' = "probing"
  /\ timer' = ProbeMax
  /\ Enqueue(Plain("Start"))
  /\ UNCHANGED <<rid, leftover, waiting, supplyVars>>

(* The probe is over, and from now on input reports get through.  A        *)
(* request left unanswered holds it up.                                    *)
FinishProbe ==
  /\ dev = "probing"
  /\ waiting = {}
  /\ dev' = "ready"
  /\ timer' = 0
  /\ UNCHANGED <<rid, queue, leftover, waiting, supplyVars>>

Request(type, id, rnum, rtype) ==
  /\ dev \in {"probing", "ready"}
  /\ Enqueue([type |-> type, id |-> id, rnum |-> rnum, rtype |-> rtype])
  /\ waiting' = waiting \cup {id}
  /\ UNCHANGED <<dev, rid, timer, leftover, supplyVars>>

(* Reading the level from sysfs makes the kernel ask for it until a push   *)
(* has landed.                                                             *)
AskLevel(id) == ~reported /\ Request("GetReport", id, rid, RTYPE_INPUT)

(* Somebody asks for another report, or tries to set one, of which event.rs *)
(* decodes the id alone.                                                   *)
AskOther(id) ==
  \/ /\ "GetReport" \in Noise
     /\ \E rnum \in {1, 2}, rtype \in {RTYPE_INPUT, RTYPE_FEATURE} :
          /\ <<rnum, rtype>> # <<rid, RTYPE_INPUT>>
          /\ Request("GetReport", id, rnum, rtype)
  \/ /\ "SetReport" \in Noise
     /\ Request("SetReport", id, 0, RTYPE_FEATURE)

(* Stop, open, close, output.                                              *)
Notify ==
  /\ "Ignored" \in Noise
  /\ dev \in {"probing", "ready"}
  /\ Enqueue(Plain("Ignored"))
  /\ UNCHANGED <<dev, rid, timer, leftover, waiting, supplyVars>>

(* The kernel waits up to five seconds for an answer.                      *)
GiveUp(id) ==
  /\ id \in waiting
  /\ waiting' = waiting \ {id}
  /\ UNCHANGED <<dev, rid, timer, queue, leftover, supplyVars>>

KernelTick ==
  /\ dev \in {"created", "probing"} => timer > 0
  /\ timer' = Countdown(timer)
  /\ window' = Countdown(window)
  /\ UNCHANGED <<dev, rid, queue, leftover, waiting, shown, reported, upower>>

------------------------------------------------------------------------------
(* What it does with what the daemon writes and reads.                     *)

TakeCreate(reportId) ==
  /\ dev = "none"
  /\ dev' = "created"
  /\ rid' = reportId
  /\ timer' = StartMax
  /\ UNCHANGED <<queue, leftover, waiting, supplyVars>>

Announces(new) ==
  \/ ~reported
  \/ new.percent # shown.percent
  \/ AnnouncesFlips /\ new.charging # shown.charging
  \/ window = 0

(* An input report is dropped, and the write still succeeds, until the     *)
(* probe is over.  The level is not clamped.                               *)
TakeInput(report) ==
  LET new == [percent |-> report.percent, charging |-> report.charging] IN
  /\ IF dev = "ready" /\ report.id = rid
     THEN /\ shown' = new
          /\ reported' = TRUE
          /\ IF Announces(new)
             THEN upower' = new /\ window' = UeventWindow
             ELSE UNCHANGED <<upower, window>>
     ELSE UNCHANGED supplyVars
  /\ UNCHANGED <<dev, rid, timer, queue, leftover, waiting>>

(* A reply is matched on the request's id, and ignored if nobody waits for *)
(* it any more.  Of a battery report only the level is read.               *)
TakeReply(request, report) ==
  /\ waiting' = waiting \ {request.id}
  /\ shown' = IF /\ request.id \in waiting
                 /\ request.type = "GetReport"
                 /\ report # None
                 /\ request.rnum = rid /\ request.rtype = RTYPE_INPUT
              THEN [shown EXCEPT !.percent = report.percent]
              ELSE shown
  /\ UNCHANGED <<dev, rid, timer, queue, leftover, reported, upower, window>>

NoDevice ==
  /\ dev' = "none"
  /\ rid' = 1
  /\ timer' = 0
  /\ waiting' = {}
  /\ shown' = Unknown
  /\ reported' = FALSE
  /\ upower' = None
  /\ window' = 0

(* The device is gone and so is its power supply; the events queued for it *)
(* stay readable, the ones its removal queues included.                    *)
TakeDestroy ==
  /\ NoDevice
  /\ queue' \in {queue, Append(queue, Plain("Ignored"))}
  /\ Len(queue') <= MaxQueue
  /\ leftover' = Len(queue')

(* Closing the handle takes the queue away as well.                        *)
TakeClose ==
  /\ NoDevice
  /\ queue' = <<>>
  /\ leftover' = 0

GiveEvent ==
  /\ queue # <<>>
  /\ queue' = Tail(queue)
  /\ leftover' = Countdown(leftover)
  /\ UNCHANGED <<dev, rid, timer, waiting, supplyVars>>

==============================================================================
