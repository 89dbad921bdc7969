---------------------------- MODULE BatteryProofs ----------------------------
(***************************************************************************)
(* Theorems about Battery, for every number of requests, length of queue,  *)
(* set of levels and kinds, and for every delay.                           *)
(***************************************************************************)
EXTENDS BatteryInv, TLAPS

(* The pieces of code the actions share keep to their types.               *)
LEMMA ClampedType ==
  ASSUME NEW r \in Inputs
  PROVE  clamped(r) \in Reading /\ clamped(r).percent <= MAX_PERCENT
BY BatteryAssumption DEF Inputs, clamped, Reading

(* A report carries the reading under the kind's ID.                       *)
LEMMA ReportFields ==
  ASSUME NEW k, NEW r
  PROVE  /\ Report(k, r).id = report_id(k)
         /\ Report(k, r).percent = r.percent
         /\ Report(k, r).charging = r.charging
BY DEF Report

(* The ID a descriptor declares is the one its reports carry.              *)
LEMMA DescriptorIsReportId ==
  ASSUME NEW k \in {"Mouse", "Generic", "Headset"}
  PROVE  descriptor(k) = report_id(k) /\ descriptor(k) \in {1, 2}
BY DEF descriptor, report_id

(* What is left of a number of ticks.                                      *)
LEMMA CountdownType ==
  ASSUME NEW n \in Nat
  PROVE  Countdown(n) \in Nat /\ Countdown(n) <= n
BY DEF Countdown

(* What reading and queueing an event does to the queue.                   *)
LEMMA TakenEvent ==
  ASSUME queue \in Seq(Event), GiveEvent
  PROVE  /\ Head(queue) \in Event
         /\ queue' \in Seq(Event)
         /\ Len(queue') = Len(queue) - 1
         /\ Len(queue) \in Nat \ {0}
         /\ \A i \in DOMAIN queue' : i + 1 \in DOMAIN queue /\ queue'[i] = queue[i + 1]
         /\ \A i \in DOMAIN queue :
              \/ i = 1 /\ queue[i] = Head(queue)
              \/ i - 1 \in DOMAIN queue' /\ queue'[i - 1] = queue[i]
BY DEF GiveEvent

(* An event behind the queue is in it, and nothing else is new.            *)
LEMMA QueuedEvent ==
  ASSUME queue \in Seq(Event), NEW e \in Event, queue' = Append(queue, e)
  PROVE  /\ queue' \in Seq(Event)
         /\ Len(queue') = Len(queue) + 1
         /\ DOMAIN queue' = DOMAIN queue \cup {Len(queue) + 1}
         /\ \A i \in DOMAIN queue : queue'[i] = queue[i]
         /\ queue'[Len(queue) + 1] = e
OBVIOUS

------------------------------------------------------------------------------
(* Type correctness.                                                       *)

(* Types of a push, taken by the kernel or not.                            *)
LEMMA PushType ==
  ASSUME TypeOK, NEW k \in {"Mouse", "Generic", "Headset"},
         NEW r \in Reading, push(k, r)
  PROVE  KernelTypeOK' /\ published' \in Reading /\ told' \in BOOLEAN
<1>1. CASE PushTaken(k, r)
  <2> DEFINE new == [percent |-> r.percent, charging |-> r.charging]
  <2>1. new \in Reading
    BY DEF Reading
  <2>2. TakeInput(Report(k, r)) /\ published' = r /\ told' = FALSE
    BY <1>1 DEF PushTaken
  <2>3. /\ shown' \in {new, shown}
        /\ reported' \in {TRUE, reported}
        /\ upower' \in {new, upower}
        /\ window' \in {UeventWindow, window}
        /\ UNCHANGED <<dev, rid, timer, queue, leftover, waiting>>
    BY <2>2, ReportFields DEF TakeInput, supplyVars
  <2> QED
    BY <2>1, <2>2, <2>3, KernelAssumption DEF TypeOK, KernelTypeOK
<1>2. CASE PushFailed
  BY <1>2 DEF PushFailed, TypeOK, KernelTypeOK, BatteryTypeOK, kernelVars
<1> QED
  BY <1>1, <1>2 DEF push

(* Types of reading an event.                                              *)
LEMMA GiveEventType ==
  ASSUME KernelTypeOK, GiveEvent
  PROVE  KernelTypeOK' /\ Head(queue) \in Event
<1>1. queue' \in Seq(Event) /\ Head(queue) \in Event
  BY TakenEvent DEF KernelTypeOK
<1>2. leftover' \in Nat
  BY CountdownType DEF GiveEvent, KernelTypeOK
<1> QED
  BY <1>1, <1>2 DEF GiveEvent, KernelTypeOK, supplyVars

(* Types of sending one.                                                   *)
LEMMA EnqueueType ==
  ASSUME KernelTypeOK, NEW e \in Event, Enqueue(e)
  PROVE  queue' \in Seq(Event)
BY DEF KernelTypeOK, Enqueue

(* An event that is no request.                                            *)
LEMMA PlainType ==
  ASSUME NEW type \in {"Start", "Ignored"}
  PROVE  Plain(type) \in Event
BY DEF Plain, Event, RTYPE_FEATURE, RTYPE_INPUT

(* Types of the kernel without a device.                                   *)
LEMMA NoDeviceType == ASSUME NoDevice PROVE
  /\ dev' = "none" /\ rid' = 1 /\ timer' = 0 /\ waiting' = {}
  /\ shown' \in Reading /\ shown' = Unknown /\ reported' = FALSE
  /\ upower' = None /\ window' = 0
BY DEF NoDevice, Unknown, Reading

(* Types of the daemon without a battery.                                  *)
LEMMA ForgetType == ASSUME Forget PROVE
  /\ kind' = "Generic" /\ reading' \in Reading /\ reading' = Unknown
  /\ repush_at' = None /\ published' \in Reading /\ told' = FALSE /\ abandoned' = {}
BY DEF Forget, Unknown, Reading

(* A question the kernel queues, by the types of its parts.                *)
LEMMA RequestType ==
  ASSUME KernelTypeOK, NEW id \in FreshIds, AskLevel(id) \/ AskOther(id)
  PROVE  /\ \E e \in Event :
              e.id = id /\ e.type \in {"GetReport", "SetReport"} /\ Enqueue(e)
         /\ dev \in {"probing", "ready"}
         /\ waiting' = waiting \cup {id}
         /\ UNCHANGED <<dev, rid, timer, leftover, supplyVars>>
<1>1. ASSUME NEW type \in {"GetReport", "SetReport"}, NEW rnum \in {0, 1, 2},
             NEW rtype \in {RTYPE_INPUT, RTYPE_FEATURE},
             Request(type, id, rnum, rtype)
      PROVE  /\ \E e \in Event :
                  e.id = id /\ e.type \in {"GetReport", "SetReport"} /\ Enqueue(e)
             /\ dev \in {"probing", "ready"}
             /\ waiting' = waiting \cup {id}
             /\ UNCHANGED <<dev, rid, timer, leftover, supplyVars>>
  <2> DEFINE e == [type |-> type, id |-> id, rnum |-> rnum, rtype |-> rtype]
  <2>1. e \in Event /\ e.id = id /\ e.type = type
    BY DEF Event, FreshIds
  <2> QED
    BY <1>1, <2>1 DEF Request
<1>2. CASE AskLevel(id)
  BY <1>1, <1>2 DEF AskLevel, KernelTypeOK
<1>3. CASE AskOther(id)
  <2>1. PICK type \in {"GetReport", "SetReport"}, rnum \in {0, 1, 2},
             rtype \in {RTYPE_INPUT, RTYPE_FEATURE} : Request(type, id, rnum, rtype)
    BY <1>3 DEF AskOther
  <2> QED
    BY <1>1, <2>1
<1> QED
  BY <1>2, <1>3

(* A re-push is brought forward, never put off.                            *)
LEMMA ScheduleType ==
  ASSUME repush_at \in Nat \cup {None}, NEW delay \in Nat, schedule_repush(delay)
  PROVE  /\ repush_at' \in Nat
         /\ repush_at' = delay \/ repush_at' = repush_at
         /\ repush_at # None => repush_at' <= repush_at
BY KernelAssumption DEF schedule_repush

(* Types of a tick of every clock.                                         *)
LEMMA TickType ==
  ASSUME TypeOK, Tick
  PROVE  /\ timer \in Nat /\ timer' = Countdown(timer)
         /\ repush_at = None <=> repush_at' = None
         /\ repush_at # None => /\ repush_at \in Nat
                                /\ repush_at' = Countdown(repush_at)
BY KernelAssumption DEF Tick, KernelTick, TypeOK, KernelTypeOK, BatteryTypeOK, Countdown

(* Every step of the daemon, the kernel and the clock keeps the types.     *)
LEMMA TypeStep == TypeOK /\ [Next]_vars => TypeOK'
<1> SUFFICES ASSUME TypeOK, [Next]_vars PROVE TypeOK'
  OBVIOUS
<1> USE DEF TypeOK
<1>1. ASSUME NEW k \in Kinds, NEW r \in Inputs, Create(k, r) PROVE TypeOK'
  <2>1. descriptor(k) \in {1, 2} /\ k \in {"Mouse", "Generic", "Headset"}
    BY BatteryAssumption, DescriptorIsReportId
  <2>2. KernelTypeOK'
    BY <1>1, <2>1, KernelAssumption DEF Create, TakeCreate, KernelTypeOK, supplyVars
  <2>3. BatteryTypeOK'
    BY <1>1, <2>1, ClampedType DEF Create, BatteryTypeOK, ghostVars
  <2> QED
    BY <2>2, <2>3
<1>2. CASE FirstPush
  <2>1. push(kind, reading) /\ pc' \in {"alive", "undo"}
    BY <1>2 DEF FirstPush, push
  <2> QED
    BY <1>2, <2>1, PushType DEF FirstPush, BatteryTypeOK, batteryVars
<1>3. ASSUME NEW r \in Inputs, Update(r) PROVE TypeOK'
  <2>1. clamped(r) \in Reading
    BY ClampedType
  <2>2. KernelTypeOK' /\ published' \in Reading /\ told' \in BOOLEAN
    BY <1>3, <2>1, PushType DEF Update, BatteryTypeOK
  <2>3. repush_at' \in Nat \cup {None}
    BY <1>3, ScheduleType, BatteryAssumption DEF Update, BatteryTypeOK
  <2> QED
    BY <1>3, <2>1, <2>2, <2>3 DEF Update, BatteryTypeOK
<1>4. CASE Service
  BY <1>4 DEF Service, BatteryTypeOK, KernelTypeOK, kernelVars, batteryVars, ghostVars, supplyVars
<1>5. CASE ReadStart
  <2>1. KernelTypeOK'
    BY <1>5, GiveEventType DEF ReadStart
  <2>2. repush_at' \in Nat
    BY <1>5, ScheduleType, BatteryAssumption DEF ReadStart, BatteryTypeOK
  <2> QED
    BY <1>5, <2>1, <2>2 DEF ReadStart, BatteryTypeOK, ghostVars
<1>6. CASE ReadIgnored
  BY <1>6, GiveEventType DEF ReadIgnored, BatteryTypeOK, batteryVars, ghostVars
<1>7. CASE ReadRequest
  BY <1>7, GiveEventType DEF ReadRequest, BatteryTypeOK, batteryVars, ghostVars
<1>8. CASE Reply
  <2>1. CASE TakeReply(event, Answer(event)) /\ pc' = "service" /\ UNCHANGED abandoned
    <3>1. shown' \in Reading
      <4>1. Answer(event) # None => Answer(event).percent \in Nat
        BY ReportFields DEF Answer, BatteryTypeOK, Reading
      <4> QED
        BY <2>1, <4>1 DEF TakeReply, KernelTypeOK, Reading
    <3>2. KernelTypeOK'
      BY <2>1, <3>1 DEF TakeReply, KernelTypeOK
    <3> QED
      BY <1>8, <2>1, <3>2 DEF Reply, BatteryTypeOK, batteryVars
  <2>2. CASE UNCHANGED kernelVars /\ pc' = "alive"
             /\ abandoned' = abandoned \cup (waiting \cap {event.id})
    BY <1>8, <2>2 DEF Reply, BatteryTypeOK, KernelTypeOK, batteryVars, kernelVars, supplyVars
  <2> QED
    BY <1>8, <2>1, <2>2 DEF Reply
<1>9. CASE ReadNothing \/ ReadFails
  BY <1>9 DEF ReadNothing, ReadFails, BatteryTypeOK, KernelTypeOK, kernelVars, batteryVars, ghostVars, supplyVars
<1>10. CASE PushIfDue
  <2>1. KernelTypeOK' /\ published' \in Reading /\ told' \in BOOLEAN
    BY <1>10, PushType DEF PushIfDue, BatteryTypeOK, KernelTypeOK, kernelVars
  <2> QED
    BY <1>10, <2>1 DEF PushIfDue, BatteryTypeOK
<1>11. CASE Destroy
  <2>1. KernelTypeOK'
    <3>1. CASE TakeDestroy
      BY <3>1, PlainType, NoDeviceType DEF TakeDestroy, KernelTypeOK
    <3>2. CASE UNCHANGED kernelVars
      BY <3>2 DEF KernelTypeOK, kernelVars
    <3> QED
      BY <1>11, <3>1, <3>2 DEF Destroy
  <2> QED
    BY <1>11, <2>1, ForgetType DEF Destroy, BatteryTypeOK
<1>12. CASE Drain
  BY <1>12, GiveEventType DEF Drain, BatteryTypeOK, batteryVars, ghostVars
<1>13. CASE DrainEnd
  BY <1>13 DEF DrainEnd, BatteryTypeOK, KernelTypeOK, kernelVars, batteryVars, ghostVars, supplyVars
<1>14. CASE Reopen
  <2>1. KernelTypeOK'
    BY <1>14, NoDeviceType DEF Reopen, TakeClose, KernelTypeOK
  <2> QED
    BY <1>14, <2>1, ForgetType DEF Reopen, BatteryTypeOK
<1>15. CASE ProbeStarts
  BY <1>15, PlainType, EnqueueType, KernelAssumption
     DEF ProbeStarts, StartProbe, daemonVars, batteryVars, ghostVars, supplyVars,
         KernelTypeOK, BatteryTypeOK
<1>16. CASE ProbeEnds
  BY <1>16 DEF ProbeEnds, FinishProbe, daemonVars, batteryVars, ghostVars, supplyVars,
               KernelTypeOK, BatteryTypeOK
<1>17. CASE KernelAsks
  <2>1. CASE Notify
    BY <1>17, <2>1, PlainType, EnqueueType
       DEF KernelAsks, Notify, daemonVars, batteryVars, ghostVars, supplyVars,
           KernelTypeOK, BatteryTypeOK
  <2>2. ASSUME NEW id \in FreshIds, AskLevel(id) \/ AskOther(id) PROVE KernelTypeOK'
    <3>1. PICK e \in Event : Enqueue(e)
      BY <2>2, RequestType
    <3>2. id \in Ids
      BY DEF FreshIds
    <3> QED
      BY <2>2, <3>1, <3>2, RequestType, EnqueueType DEF KernelTypeOK, supplyVars
  <2> QED
    BY <1>17, <2>1, <2>2 DEF KernelAsks, daemonVars, batteryVars, ghostVars, BatteryTypeOK
<1>18. CASE TimeOut
  BY <1>18 DEF TimeOut, GiveUp, batteryVars, supplyVars, KernelTypeOK, BatteryTypeOK
<1>19. CASE Tick
  <2>1. timer' \in Nat /\ window' \in Nat /\ repush_at' \in Nat \cup {None}
    BY <1>19, CountdownType DEF Tick, KernelTick, KernelTypeOK, BatteryTypeOK
  <2> QED
    BY <1>19, <2>1 DEF Tick, KernelTick, KernelTypeOK, BatteryTypeOK, ghostVars
<1>20. CASE UNCHANGED vars
  BY <1>20 DEF vars, kernelVars, batteryVars, ghostVars, supplyVars, KernelTypeOK, BatteryTypeOK
<1> QED
  BY <1>1, <1>2, <1>3, <1>4, <1>5, <1>6, <1>7, <1>8, <1>9, <1>10, <1>11, <1>12,
     <1>13, <1>14, <1>15, <1>16, <1>17, <1>18, <1>19, <1>20 DEF Next

(* The types at the start.                                                 *)
LEMMA TypeInit == Init => TypeOK
<1> SUFFICES ASSUME Init PROVE TypeOK
  OBVIOUS
<1>1. Unknown \in Reading
  BY DEF Unknown, Reading
<1>2. KernelTypeOK
  <2>1. <<>> \in Seq(Event)
    OBVIOUS
  <2>2. dev = "none" /\ rid = 1 /\ timer = 0 /\ queue = <<>> /\ leftover = 0
    BY DEF Init, KernelInit
  <2>3. /\ waiting = {} /\ shown = Unknown /\ reported = FALSE /\ upower = None
        /\ window = 0
    BY DEF Init, KernelInit
  <2> QED
    BY <1>1, <2>1, <2>2, <2>3 DEF KernelTypeOK
<1>3. BatteryTypeOK
  BY <1>1 DEF Init, BatteryTypeOK
<1> QED
  BY <1>2, <1>3 DEF TypeOK

(* The types hold in every reachable state.                                *)
THEOREM TypeCorrect == Spec => []TypeOK
BY TypeInit, TypeStep, PTL DEF Spec

==============================================================================
