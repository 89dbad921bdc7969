---------------------------- MODULE BatterySafety ----------------------------
(***************************************************************************)
(* The safety properties of Battery, for every value of the constants:     *)
(* first those that hold whatever the kernel's timing, then those of a     *)
(* probe that ends before the settle push.                                 *)
(***************************************************************************)
EXTENDS BatteryProofs

(* What a push changes: with the device ready and the write taken, the     *)
(* supply has the reading; otherwise it is left alone.                     *)
LEMMA PushEffect ==
  ASSUME TypeOK, ReportedWhenReady,
         NEW k \in {"Mouse", "Generic", "Headset"}, NEW r \in Reading,
         rid = report_id(k), push(k, r)
  PROVE  /\ UNCHANGED <<dev, rid, timer, queue, leftover, waiting>>
         /\ told' => Faults
         /\ told' => UNCHANGED <<shown, reported>>
         /\ ~told' /\ dev = "ready" => shown' = r /\ reported'
         /\ ~told' /\ dev # "ready" => UNCHANGED <<shown, reported>>
<1>1. CASE PushTaken(k, r)
  <2> DEFINE new == [percent |-> r.percent, charging |-> r.charging]
  <2>1. new = r
    BY DEF Reading
  <2>2. TakeInput(Report(k, r)) /\ told' = FALSE
    BY <1>1 DEF PushTaken
  <2>3. CASE dev = "ready"
    BY <2>1, <2>2, <2>3, ReportFields DEF TakeInput
  <2>4. CASE dev # "ready"
    BY <2>2, <2>4 DEF TakeInput, supplyVars
  <2> QED
    BY <2>2, <2>3, <2>4
<1>2. CASE PushFailed
  BY <1>2 DEF PushFailed, kernelVars
<1> QED
  BY <1>1, <1>2 DEF push

(* A request read off the queue is the only id that leaves it.             *)
LEMMA QueuedIdsGiven ==
  ASSUME KernelTypeOK, GiveEvent
  PROVE  QueuedIds \subseteq QueuedIds' \cup {Head(queue).id}
<1>1. queue \in Seq(Event)
  BY DEF KernelTypeOK
<1> SUFFICES ASSUME NEW i \in DOMAIN queue
             PROVE  queue[i].id \in QueuedIds' \cup {Head(queue).id}
  BY DEF QueuedIds
<1> QED
  BY <1>1, TakenEvent DEF QueuedIds

(* Reading an event leaves those that are no request without an ID.        *)
LEMMA PlainGiven ==
  ASSUME KernelTypeOK, GiveEvent, PlainEvents
  PROVE  PlainEvents'
<1>1. queue \in Seq(Event)
  BY DEF KernelTypeOK
<1> QED
  BY <1>1, TakenEvent DEF PlainEvents

(* An event that is no request has no request's ID.                        *)
LEMMA PlainHead ==
  ASSUME KernelTypeOK, GiveEvent, PlainEvents, Head(queue).type \in {"Start", "Ignored"}
  PROVE  Head(queue).id \notin Ids
BY KernelAssumption DEF PlainEvents, GiveEvent, KernelTypeOK

(* The IDs in the queue, with one event more.                              *)
LEMMA QueuedIdsAppended ==
  ASSUME KernelTypeOK, NEW e \in Event, queue' = Append(queue, e)
  PROVE  QueuedIds' = QueuedIds \cup {e.id}
<1>1. queue \in Seq(Event)
  BY DEF KernelTypeOK
<1>2. /\ DOMAIN queue' = DOMAIN queue \cup {Len(queue) + 1}
      /\ \A i \in DOMAIN queue : queue'[i] = queue[i]
      /\ queue'[Len(queue) + 1] = e
  BY <1>1, QueuedEvent
<1> QED
  BY <1>2 DEF QueuedIds

(* So does sending one, if it has none either.                             *)
LEMMA PlainAppended ==
  ASSUME KernelTypeOK, PlainEvents, NEW e \in Event, queue' = Append(queue, e),
         e.type \in {"Start", "Ignored"} => e.id = 0
  PROVE  PlainEvents'
<1>1. queue \in Seq(Event)
  BY DEF KernelTypeOK
<1>2. /\ DOMAIN queue' = DOMAIN queue \cup {Len(queue) + 1}
      /\ \A i \in DOMAIN queue : queue'[i] = queue[i]
      /\ queue'[Len(queue) + 1] = e
  BY <1>1, QueuedEvent
<1> QED
  BY <1>2 DEF PlainEvents

------------------------------------------------------------------------------
(* What holds whatever the kernel's timing.                                *)

(* A step that only reads an event, and is not a request's, loses nothing. *)
LEMMA GiveEventKeeps ==
  ASSUME TypeOK, BatteryInv, GiveEvent,
         UNCHANGED <<kind, reading, ghostVars>>, UNCHANGED <<pc>> \/ pc' = "reply"
  PROVE  /\ Held /\ Held' => OwnDevice' /\ ReportedIsCurrent'
         /\ NoDeviceNoSupply' /\ ReportedWhenReady' /\ ReadingWithinMaximum'
         /\ ShownWithinMaximum' /\ PlainEvents' /\ ToldOnlyOfFaults'
<1>1. PlainEvents'
  BY PlainGiven DEF BatteryInv, TypeOK
<1> QED
  BY <1>1 DEF GiveEvent, supplyVars, ghostVars, BatteryInv, OwnDevice, ReportedIsCurrent,
     NoDeviceNoSupply, ReportedWhenReady, ReadingWithinMaximum, ShownWithinMaximum,
     ToldOnlyOfFaults, Held

(* Every step keeps what holds of a battery whatever the timing.           *)
LEMMA BatteryInvStep == TypeOK /\ BatteryInv /\ [Next]_vars => BatteryInv'
<1> SUFFICES ASSUME TypeOK, BatteryInv, [Next]_vars PROVE BatteryInv'
  OBVIOUS
<1>0. TypeOK'
  BY TypeStep
<1> USE DEF BatteryInv
<1>1. ASSUME NEW k \in Kinds, NEW r \in Inputs, Create(k, r) PROVE BatteryInv'
  <2>1. descriptor(k) = report_id(k) /\ descriptor(k) \in {1, 2}
    BY BatteryAssumption, DescriptorIsReportId
  <2>2. dev = "none" /\ waiting = {} /\ ~reported /\ shown = Unknown
    BY <1>1 DEF Create, TakeCreate, NoDeviceNoSupply
  <2>3. OwnDevice' /\ NoDeviceNoSupply' /\ ReportedWhenReady' /\ ReportedIsCurrent'
    BY <1>1, <2>1, <2>2 DEF Create, TakeCreate, supplyVars, OwnDevice, NoDeviceNoSupply,
       ReportedWhenReady, ReportedIsCurrent
  <2>4. ReadingWithinMaximum' /\ ShownWithinMaximum'
    BY <1>1, ClampedType DEF Create, TakeCreate, supplyVars, ReadingWithinMaximum,
       ShownWithinMaximum
  <2>5. EventWhileReplying' /\ PlainEvents' /\ ToldOnlyOfFaults'
    BY <1>1 DEF Create, TakeCreate, ghostVars, EventWhileReplying, PlainEvents,
       ToldOnlyOfFaults
  <2>6. NoLostRequest'
    BY <1>1, <2>2 DEF Create, TakeCreate, NoLostRequest
  <2> QED
    BY <2>3, <2>4, <2>5, <2>6
<1>2. ASSUME NEW r \in Reading, r.percent <= MAX_PERCENT,
             pc \in {"first", "alive", "due"}, push(kind, r),
             kind' = kind, reading' = r, event' = event, abandoned' = abandoned,
             pc' \in {"alive", "undo"}
      PROVE  BatteryInv'
  <2>1. Held /\ Held' /\ event = None
    BY <1>2 DEF Held, EventWhileReplying
  <2>2. /\ UNCHANGED <<dev, rid, timer, queue, leftover, waiting>>
        /\ told' => Faults
        /\ told' => UNCHANGED <<shown, reported>>
        /\ ~told' /\ dev = "ready" => shown' = r /\ reported'
        /\ ~told' /\ dev # "ready" => UNCHANGED <<shown, reported>>
    BY <1>2, <2>1, PushEffect DEF OwnDevice, TypeOK, BatteryTypeOK
  <2>3. OwnDevice' /\ NoDeviceNoSupply' /\ ReportedWhenReady' /\ ReportedIsCurrent'
    BY <1>2, <2>1, <2>2 DEF OwnDevice, NoDeviceNoSupply, ReportedWhenReady, ReportedIsCurrent
  <2>4. ReadingWithinMaximum' /\ ShownWithinMaximum'
    BY <1>2, <2>2 DEF ReadingWithinMaximum, ShownWithinMaximum
  <2>5. EventWhileReplying' /\ PlainEvents' /\ ToldOnlyOfFaults'
    BY <1>2, <2>1, <2>2 DEF EventWhileReplying, PlainEvents, ToldOnlyOfFaults
  <2>6. NoLostRequest'
    BY <1>2, <2>1, <2>2 DEF NoLostRequest, QueuedIds
  <2> QED
    BY <2>3, <2>4, <2>5, <2>6
<1>3. CASE FirstPush
  BY <1>2, <1>3 DEF FirstPush, push, batteryVars, ReadingWithinMaximum, TypeOK, BatteryTypeOK
<1>4. ASSUME NEW r \in Inputs, Update(r) PROVE BatteryInv'
  BY <1>2, <1>4, ClampedType DEF Update
<1>5. CASE PushIfDue
  <2>1. CASE repush_at = 0
    BY <1>2, <1>5, <2>1 DEF PushIfDue, ReadingWithinMaximum, TypeOK, BatteryTypeOK
  <2>2. CASE repush_at # 0
    BY <1>5, <2>2 DEF PushIfDue, kernelVars, supplyVars, Held, OwnDevice, NoDeviceNoSupply,
       ReportedWhenReady, ReportedIsCurrent, ReadingWithinMaximum, ShownWithinMaximum,
       EventWhileReplying, PlainEvents, ToldOnlyOfFaults, NoLostRequest, QueuedIds
  <2> QED
    BY <2>1, <2>2
<1>6. CASE Service \/ ReadNothing \/ ReadFails
  BY <1>6 DEF Service, ReadNothing, ReadFails, kernelVars, batteryVars, ghostVars, supplyVars,
     Held, OwnDevice, NoDeviceNoSupply, ReportedWhenReady, ReportedIsCurrent,
     ReadingWithinMaximum, ShownWithinMaximum, EventWhileReplying, PlainEvents,
     ToldOnlyOfFaults, NoLostRequest, QueuedIds
<1>7. CASE ReadStart \/ ReadIgnored
  <2>1. /\ GiveEvent /\ Head(queue).type \in {"Start", "Ignored"}
        /\ pc = "service" /\ UNCHANGED <<pc, kind, reading, event, ghostVars>>
    BY <1>7 DEF ReadStart, ReadIgnored, batteryVars
  <2>2. Held /\ Held'
    BY <2>1 DEF Held
  <2>3. NoLostRequest'
    <3>1. Head(queue).id \notin Ids /\ QueuedIds \subseteq QueuedIds' \cup {Head(queue).id}
      BY <2>1, PlainHead, QueuedIdsGiven DEF TypeOK
    <3> QED
      BY <2>1, <2>2, <3>1 DEF NoLostRequest, GiveEvent, ghostVars, TypeOK, KernelTypeOK
  <2>4. EventWhileReplying'
    BY <2>1 DEF EventWhileReplying
  <2> QED
    BY <2>1, <2>2, <2>3, <2>4, GiveEventKeeps
<1>8. CASE ReadRequest
  <2>1. /\ GiveEvent /\ pc = "service" /\ pc' = "reply" /\ event' = Head(queue)
        /\ UNCHANGED <<kind, reading, ghostVars>>
    BY <1>8 DEF ReadRequest, batteryVars
  <2>2. Held /\ Held' /\ event = None
    BY <2>1 DEF Held, EventWhileReplying
  <2>3. Head(queue) \in Event /\ Head(queue) # None
    BY <2>1, GiveEventType, KernelAssumption DEF TypeOK
  <2>4. NoLostRequest'
    BY <2>1, <2>2, <2>3, QueuedIdsGiven DEF NoLostRequest, GiveEvent, ghostVars, TypeOK
  <2>5. EventWhileReplying'
    BY <2>1, <2>3 DEF EventWhileReplying
  <2> QED
    BY <2>1, <2>2, <2>4, <2>5, GiveEventKeeps

<1>9. CASE Reply
  <2>1. pc = "reply" /\ Held /\ event # None /\ event' = None
        /\ UNCHANGED <<kind, reading, repush_at, published, told>>
    BY <1>9 DEF Reply, Held, EventWhileReplying, batteryVars
  <2>2. CASE TakeReply(event, Answer(event)) /\ pc' = "service" /\ UNCHANGED abandoned
    <3>1. UNCHANGED <<dev, rid, timer, queue, leftover, reported>> /\ waiting' = waiting \ {event.id}
      BY <2>2 DEF TakeReply
    <3>2. /\ shown' = shown \/ shown' = [shown EXCEPT !.percent = reading.percent]
          /\ waiting = {} => shown' = shown
      BY <2>2, ReportFields DEF TakeReply, Answer
    <3>3. shown = reading => shown' = reading
      BY <3>2 DEF TypeOK, KernelTypeOK, Reading
    <3>4. OwnDevice' /\ NoDeviceNoSupply' /\ ReportedWhenReady' /\ ReportedIsCurrent'
      BY <2>1, <2>2, <3>1, <3>2, <3>3 DEF OwnDevice, NoDeviceNoSupply, ReportedWhenReady,
         ReportedIsCurrent, Held
    <3>5. ReadingWithinMaximum' /\ ShownWithinMaximum'
      BY <2>1, <3>2 DEF ReadingWithinMaximum, ShownWithinMaximum, TypeOK, KernelTypeOK, Reading
    <3>6. EventWhileReplying' /\ PlainEvents' /\ ToldOnlyOfFaults'
      BY <2>1, <2>2, <3>1 DEF EventWhileReplying, PlainEvents, ToldOnlyOfFaults
    <3>7. NoLostRequest'
      BY <2>1, <2>2, <3>1 DEF NoLostRequest, QueuedIds
    <3> QED
      BY <3>4, <3>5, <3>6, <3>7
  <2>3. CASE /\ UNCHANGED kernelVars /\ pc' = "alive"
             /\ abandoned' = abandoned \cup (waiting \cap {event.id})
    <3>1. NoLostRequest'
      BY <2>1, <2>3 DEF NoLostRequest, QueuedIds, kernelVars
    <3> QED
      BY <2>1, <2>3, <3>1 DEF kernelVars, supplyVars, Held, OwnDevice, NoDeviceNoSupply,
         ReportedWhenReady, ReportedIsCurrent, ReadingWithinMaximum, ShownWithinMaximum,
         EventWhileReplying, PlainEvents, ToldOnlyOfFaults
  <2> QED
    BY <1>9, <2>2, <2>3 DEF Reply
<1>10. CASE Destroy
  <2>1. ~Held' /\ event = None /\ event' = None /\ pc' = "drain"
    BY <1>10 DEF Destroy, Held, EventWhileReplying
  <2>2. reading' = Unknown /\ told' = FALSE
    BY <1>10, ForgetType DEF Destroy
  <2>3. /\ NoDeviceNoSupply' /\ ReportedWhenReady' /\ ShownWithinMaximum' /\ PlainEvents'
    <3>1. CASE TakeDestroy
      <4>1. PlainEvents'
        <5>1. Plain("Ignored") \in Event /\ Plain("Ignored").id = 0
          BY PlainType DEF Plain
        <5>2. queue' = queue => PlainEvents'
          BY DEF PlainEvents
        <5> QED
          BY <3>1, <5>1, <5>2, PlainAppended DEF TakeDestroy, TypeOK
      <4> QED
        BY <3>1, <4>1, NoDeviceType, BatteryAssumption DEF TakeDestroy, NoDeviceNoSupply,
           ReportedWhenReady, ShownWithinMaximum, Unknown
    <3>2. CASE UNCHANGED kernelVars
      BY <3>2 DEF kernelVars, NoDeviceNoSupply, ReportedWhenReady, ShownWithinMaximum, PlainEvents
    <3> QED
      BY <1>10, <3>1, <3>2 DEF Destroy
  <2> QED
    BY <2>1, <2>2, <2>3, BatteryAssumption DEF OwnDevice, ReadingWithinMaximum, Unknown,
       EventWhileReplying, ToldOnlyOfFaults, ReportedIsCurrent, NoLostRequest
<1>11. CASE Drain
  <2>1. ~Held /\ ~Held' /\ UNCHANGED <<pc, event>>
    BY <1>11 DEF Drain, Held
  <2> QED
    BY <1>11, <2>1, GiveEventKeeps DEF Drain, batteryVars, OwnDevice, ReportedIsCurrent,
       NoLostRequest, EventWhileReplying
<1>12. CASE DrainEnd
  BY <1>12 DEF DrainEnd, kernelVars, batteryVars, ghostVars, supplyVars,
     Held, OwnDevice, NoDeviceNoSupply, ReportedWhenReady, ReportedIsCurrent,
     ReadingWithinMaximum, ShownWithinMaximum, EventWhileReplying, PlainEvents,
     ToldOnlyOfFaults, NoLostRequest, QueuedIds
<1>13. CASE Reopen
  <2>1. ~Held'
    BY <1>13 DEF Reopen, Held
  <2> QED
    BY <1>13, <2>1, NoDeviceType, ForgetType, BatteryAssumption
       DEF Reopen, TakeClose, OwnDevice, NoDeviceNoSupply, ReportedWhenReady,
           ReportedIsCurrent, ReadingWithinMaximum, ShownWithinMaximum, EventWhileReplying,
           PlainEvents, ToldOnlyOfFaults, NoLostRequest, Unknown
<1>14. CASE ProbeStarts \/ (KernelAsks /\ Notify)
  <2>1. PICK type \in {"Start", "Ignored"} : Enqueue(Plain(type))
    BY <1>14 DEF ProbeStarts, StartProbe, Notify
  <2>2. queue' = Append(queue, Plain(type)) /\ Plain(type) \in Event /\ Plain(type).id = 0
    BY <2>1, PlainType DEF Enqueue, Plain
  <2>3. PlainEvents' /\ QueuedIds \subseteq QueuedIds'
    <3>1. PlainEvents'
      BY <2>2, PlainAppended DEF TypeOK
    <3>2. QueuedIds' = QueuedIds \cup {Plain(type).id}
      BY <2>2, QueuedIdsAppended DEF TypeOK
    <3> QED
      BY <3>1, <3>2
  <2>4. /\ UNCHANGED <<pc, kind, reading, event, told, abandoned>>
        /\ UNCHANGED <<rid, waiting, shown, reported>>
        /\ dev' # dev => dev = "created" /\ dev' = "probing"
    BY <1>14 DEF ProbeStarts, StartProbe, KernelAsks, Notify, daemonVars, batteryVars,
       ghostVars, supplyVars
  <2> QED
    BY <2>3, <2>4 DEF Held, OwnDevice, NoDeviceNoSupply, ReportedWhenReady, ReportedIsCurrent,
       ReadingWithinMaximum, ShownWithinMaximum, EventWhileReplying, ToldOnlyOfFaults,
       NoLostRequest
<1>15. ASSUME NEW id \in FreshIds, AskLevel(id) \/ AskOther(id), UNCHANGED daemonVars
       PROVE  BatteryInv'
  <2>1. PICK e \in Event : e.id = id /\ e.type \in {"GetReport", "SetReport"} /\ Enqueue(e)
    BY <1>15, RequestType DEF TypeOK
  <2>2. /\ dev \in {"probing", "ready"} /\ waiting' = waiting \cup {id}
        /\ UNCHANGED <<dev, rid, shown, reported>>
    BY <1>15, RequestType DEF TypeOK, supplyVars
  <2>3. PlainEvents' /\ QueuedIds' = QueuedIds \cup {id}
    BY <2>1, PlainAppended, QueuedIdsAppended DEF TypeOK, Enqueue
  <2> QED
    BY <1>15, <2>2, <2>3 DEF daemonVars, batteryVars, ghostVars, Held, OwnDevice,
       NoDeviceNoSupply, ReportedWhenReady, ReportedIsCurrent, ReadingWithinMaximum,
       ShownWithinMaximum, EventWhileReplying, ToldOnlyOfFaults, NoLostRequest
<1>16. CASE ProbeEnds
  BY <1>16 DEF ProbeEnds, FinishProbe, daemonVars, batteryVars, ghostVars, supplyVars,
     Held, OwnDevice, NoDeviceNoSupply, ReportedWhenReady, ReportedIsCurrent,
     ReadingWithinMaximum, ShownWithinMaximum, EventWhileReplying, PlainEvents,
     ToldOnlyOfFaults, NoLostRequest, QueuedIds
<1>17. CASE TimeOut
  <2>1. PICK id \in waiting : GiveUp(id) /\ abandoned' = abandoned \ {id}
    BY <1>17 DEF TimeOut
  <2> QED
    BY <1>17, <2>1 DEF TimeOut, GiveUp, batteryVars, supplyVars,
     Held, OwnDevice, NoDeviceNoSupply, ReportedWhenReady, ReportedIsCurrent,
     ReadingWithinMaximum, ShownWithinMaximum, EventWhileReplying, PlainEvents,
     ToldOnlyOfFaults, NoLostRequest, QueuedIds
<1>18. CASE Tick
  BY <1>18 DEF Tick, KernelTick, ghostVars,
     Held, OwnDevice, NoDeviceNoSupply, ReportedWhenReady, ReportedIsCurrent,
     ReadingWithinMaximum, ShownWithinMaximum, EventWhileReplying, PlainEvents,
     ToldOnlyOfFaults, NoLostRequest, QueuedIds
<1>19. CASE UNCHANGED vars
  BY <1>19 DEF vars, kernelVars, batteryVars, ghostVars, supplyVars,
     Held, OwnDevice, NoDeviceNoSupply, ReportedWhenReady, ReportedIsCurrent,
     ReadingWithinMaximum, ShownWithinMaximum, EventWhileReplying, PlainEvents,
     ToldOnlyOfFaults, NoLostRequest, QueuedIds
<1> QED
  BY <1>1, <1>3, <1>4, <1>5, <1>6, <1>7, <1>8, <1>9, <1>10, <1>11, <1>12,
     <1>13, <1>14, <1>15, <1>16, <1>17, <1>18, <1>19 DEF Next, KernelAsks

(* It holds at the start, with no device and nothing queued.               *)
LEMMA BatteryInvInit == Init => BatteryInv
BY BatteryAssumption
   DEF Init, KernelInit, BatteryInv, OwnDevice, NoDeviceNoSupply, ReportedWhenReady,
       ReadingWithinMaximum, ShownWithinMaximum, EventWhileReplying, PlainEvents,
       ToldOnlyOfFaults, ReportedIsCurrent, NoLostRequest, Unknown, Held

(* It holds throughout.                                                    *)
LEMMA BatteryInvariant == Spec => [](TypeOK /\ BatteryInv)
BY TypeInit, TypeStep, BatteryInvInit, BatteryInvStep, PTL DEF Spec

(* Once a push has landed, sysfs shows what the daemon last gave.          *)
THEOREM ReportedIsCurrentHolds == Spec => []ReportedIsCurrent
<1>1. BatteryInv => ReportedIsCurrent
  BY DEF BatteryInv
<1> QED
  BY <1>1, BatteryInvariant, PTL

(* No request is read off the queue and then forgotten.                    *)
THEOREM NoLostRequestHolds == Spec => []NoLostRequest
<1>1. BatteryInv => NoLostRequest
  BY DEF BatteryInv
<1> QED
  BY <1>1, BatteryInvariant, PTL

(* The supply never shows a level past the descriptor's maximum.           *)
THEOREM ShownWithinMaximumHolds == Spec => []ShownWithinMaximum
<1>1. BatteryInv => ShownWithinMaximum
  BY DEF BatteryInv
<1> QED
  BY <1>1, BatteryInvariant, PTL

------------------------------------------------------------------------------
(* What UPower is told.                                                    *)

(* Nobody is ever told of a push that failed where none fails.             *)
LEMMA NeverTold == ASSUME BatteryInv, ~Faults PROVE ~told
BY DEF BatteryInv, ToldOnlyOfFaults

(* A push that changes what sysfs shows is announced as far as it is news. *)
LEMMA PushAnnounced ==
  ASSUME TypeOK, AnnouncedAsShown, NEW k, NEW r \in Reading, push(k, r)
  PROVE  AnnouncedAsShown'
<1>1. CASE TakeInput(Report(k, r)) /\ dev = "ready" /\ report_id(k) = rid
  <2>1. [percent |-> Report(k, r).percent, charging |-> Report(k, r).charging] = r
    BY ReportFields DEF Reading
  <2>2. /\ shown' = r /\ reported'
        /\ IF Announces(r) THEN upower' = r ELSE UNCHANGED upower
    BY <1>1, <2>1, ReportFields DEF TakeInput
  <2>3. CASE Announces(r)
    BY <2>2, <2>3 DEF AnnouncedAsShown
  <2>4. CASE ~Announces(r)
    <3>1. reported /\ r.percent = shown.percent
          /\ (AnnouncesFlips => r.charging = shown.charging)
      BY <2>4 DEF Announces
    <3>2. AnnouncesFlips => r = shown
      BY <3>1 DEF TypeOK, KernelTypeOK, Reading
    <3> QED
      BY <2>2, <2>4, <3>1, <3>2 DEF AnnouncedAsShown
  <2> QED
    BY <2>3, <2>4
<1>2. CASE UNCHANGED <<shown, reported, upower>>
  BY <1>2 DEF AnnouncedAsShown
<1> QED
  BY <1>1, <1>2, ReportFields
     DEF push, PushTaken, PushFailed, TakeInput, kernelVars, supplyVars

(* Every other step leaves what sysfs shows as UPower knows it: a reply    *)
(* after the first push carries the level that push brought.               *)
LEMMA AnnouncedStep ==
  ASSUME TypeOK, BatteryInv, ~Faults, AnnouncedAsShown, [Next]_vars
  PROVE  AnnouncedAsShown'
<1>1. ASSUME UNCHANGED <<shown, reported, upower>> PROVE AnnouncedAsShown'
  BY <1>1 DEF AnnouncedAsShown
<1>2. ASSUME ~reported' PROVE AnnouncedAsShown'
  BY <1>2 DEF AnnouncedAsShown
<1>3. ASSUME NEW k \in Kinds, NEW r \in Inputs, Create(k, r) PROVE AnnouncedAsShown'
  BY <1>1, <1>3 DEF Create, TakeCreate, supplyVars
<1>4. CASE FirstPush
  BY <1>4, PushAnnounced DEF FirstPush, push, TypeOK, BatteryTypeOK
<1>5. ASSUME NEW r \in Inputs, Update(r) PROVE AnnouncedAsShown'
  BY <1>5, PushAnnounced, ClampedType DEF Update
<1>6. CASE PushIfDue
  <2>1. reading \in Reading
    BY DEF TypeOK, BatteryTypeOK
  <2>2. push(kind, reading) \/ UNCHANGED kernelVars
    BY <1>6 DEF PushIfDue
  <2> QED
    BY <1>1, <2>1, <2>2, PushAnnounced DEF kernelVars, supplyVars
<1>7. CASE Service \/ ReadNothing \/ ReadFails \/ DrainEnd \/ UNCHANGED vars
  BY <1>1, <1>7 DEF Service, ReadNothing, ReadFails, DrainEnd, vars, kernelVars, supplyVars
<1>8. CASE ReadStart \/ ReadIgnored \/ ReadRequest \/ Drain
  BY <1>1, <1>8 DEF ReadStart, ReadIgnored, ReadRequest, Drain, GiveEvent, supplyVars
<1>9. CASE Reply
  <2>1. TakeReply(event, Answer(event)) /\ Held
    BY <1>9 DEF Reply, Held
  <2>2. /\ UNCHANGED <<reported, upower>>
        /\ shown' = shown \/ shown' = [shown EXCEPT !.percent = reading.percent]
    BY <2>1, ReportFields DEF TakeReply, Answer
  <2>3. CASE reported
    <3>1. shown = reading
      BY <2>1, <2>3, NeverTold DEF BatteryInv, ReportedIsCurrent
    <3>2. shown' = shown
      BY <2>2, <3>1 DEF TypeOK, KernelTypeOK, Reading
    <3> QED
      BY <1>1, <2>2, <3>2
  <2> QED
    BY <1>2, <2>2, <2>3
<1>10. CASE Destroy \/ Reopen
  <2>1. UNCHANGED kernelVars \/ ~reported'
    BY <1>10, NoDeviceType DEF Destroy, Reopen, TakeDestroy, TakeClose
  <2> QED
    BY <1>1, <1>2, <2>1 DEF kernelVars, supplyVars
<1>11. CASE ProbeStarts \/ ProbeEnds \/ KernelAsks
  BY <1>1, <1>11 DEF ProbeStarts, StartProbe, ProbeEnds, FinishProbe, KernelAsks, Notify,
                     AskLevel, AskOther, Request, supplyVars
<1>12. CASE TimeOut \/ Tick
  BY <1>1, <1>12 DEF TimeOut, GiveUp, Tick, KernelTick, supplyVars
<1> QED
  BY <1>3, <1>4, <1>5, <1>6, <1>7, <1>8, <1>9, <1>10, <1>11, <1>12 DEF Next

(* Where no write fails, UPower knows throughout what sysfs shows.         *)
LEMMA AnnouncedInvariant ==
  ASSUME ~Faults
  PROVE  Spec => [](BatteryInv /\ AnnouncedAsShown)
<1>1. Init => AnnouncedAsShown
  BY DEF Init, KernelInit, AnnouncedAsShown
<1>2. TypeOK /\ BatteryInv /\ AnnouncedAsShown /\ [Next]_vars => AnnouncedAsShown'
  BY AnnouncedStep
<1> QED
  BY <1>1, <1>2, BatteryInvariant, PTL DEF Spec

(* On a kernel that announces a charging flip, UPower is told of every     *)
(* reading that reaches sysfs, as long as no write fails.                  *)
THEOREM AnnouncedHolds ==
  ASSUME ~Faults, AnnouncesFlips
  PROVE  Spec => []Announced
<1>1. BatteryInv /\ AnnouncedAsShown => Announced
  BY DEF BatteryInv, ReportedIsCurrent, AnnouncedAsShown, Announced
<1> QED
  BY <1>1, AnnouncedInvariant, PTL

(* And on every kernel of every level.                                     *)
THEOREM LevelAnnouncedHolds ==
  ASSUME ~Faults
  PROVE  Spec => []LevelAnnounced
<1>1. BatteryInv /\ AnnouncedAsShown => LevelAnnounced
  BY DEF BatteryInv, ReportedIsCurrent, AnnouncedAsShown, LevelAnnounced
<1> QED
  BY <1>1, AnnouncedInvariant, PTL

------------------------------------------------------------------------------
(* What one device leaves for the next to read.                            *)

(* Reading an event uses up what an earlier device left.                   *)
LEMMA LeftoverGiven ==
  ASSUME TypeOK, GiveEvent, LeftoverCounted
  PROVE  /\ leftover' <= Len(queue')
         /\ dev' = "none" => leftover' = Len(queue')
         /\ leftover = 0 => leftover' = 0
<1>1. Len(queue') = Len(queue) - 1 /\ Len(queue) \in Nat \ {0}
  BY TakenEvent DEF TypeOK, KernelTypeOK
<1>2. /\ leftover \in Nat /\ dev' = dev
      /\ leftover' = IF leftover = 0 THEN 0 ELSE leftover - 1
  BY DEF GiveEvent, Countdown, TypeOK, KernelTypeOK
<1> QED
  BY <1>1, <1>2 DEF LeftoverCounted

(* Only a drain that is cut short leaves events behind.                    *)
LEMMA LeftoverStep ==
  TypeOK /\ BatteryInv /\ LeftoverCounted /\ [Next]_vars => LeftoverCounted'
<1> SUFFICES ASSUME TypeOK, BatteryInv, LeftoverCounted, [Next]_vars PROVE LeftoverCounted'
  OBVIOUS
<1>a. Len(queue) \in Nat /\ leftover \in Nat
  BY DEF TypeOK, KernelTypeOK
<1>1. ASSUME UNCHANGED <<queue, leftover, cut>>, dev' = "none" => dev = "none",
             pc' = "drain" \/ pc # "drain"
      PROVE  LeftoverCounted'
  BY <1>1 DEF LeftoverCounted
<1>2. ASSUME GiveEvent, UNCHANGED cut, pc' = "drain" \/ pc # "drain" PROVE LeftoverCounted'
  BY <1>2, LeftoverGiven DEF LeftoverCounted
<1>3. ASSUME NEW e \in Event, Enqueue(e), dev' # "none", UNCHANGED leftover,
             UNCHANGED daemonVars
      PROVE  LeftoverCounted'
  <2>1. Len(queue') = Len(queue) + 1
    BY <1>3, QueuedEvent DEF Enqueue, TypeOK, KernelTypeOK
  <2> QED
    BY <1>a, <1>3, <2>1 DEF LeftoverCounted, daemonVars, ghostVars
<1>4. ASSUME NEW k \in Kinds, NEW r \in Inputs, Create(k, r) PROVE LeftoverCounted'
  BY <1>1, <1>4 DEF Create, TakeCreate, ghostVars
<1>5. CASE FirstPush
  BY <1>1, <1>5 DEF FirstPush, PushTaken, PushFailed, TakeInput, kernelVars
<1>6. ASSUME NEW r \in Inputs, Update(r) PROVE LeftoverCounted'
  BY <1>1, <1>6 DEF Update, push, PushTaken, PushFailed, TakeInput, kernelVars
<1>7. CASE Service \/ ReadNothing \/ ReadFails
  BY <1>1, <1>7 DEF Service, ReadNothing, ReadFails, kernelVars, ghostVars
<1>8. CASE ReadStart \/ ReadIgnored \/ ReadRequest \/ Drain
  BY <1>2, <1>8 DEF ReadStart, ReadIgnored, ReadRequest, Drain, ghostVars
<1>9. CASE Reply \/ PushIfDue
  BY <1>1, <1>9 DEF Reply, TakeReply, PushIfDue, push, PushTaken, PushFailed, TakeInput,
     kernelVars
<1>10. CASE Destroy
  <2>0. leftover' \in Nat /\ Len(queue') \in Nat
    BY TypeStep DEF TypeOK, KernelTypeOK
  <2>1. CASE TakeDestroy
    BY <1>10, <2>1, <2>0 DEF Destroy, TakeDestroy, LeftoverCounted
  <2>2. CASE UNCHANGED kernelVars
    BY <1>1, <1>10, <2>2 DEF Destroy, kernelVars
  <2> QED
    BY <1>10, <2>1, <2>2 DEF Destroy
<1>11. CASE DrainEnd
  BY <1>a, <1>11 DEF DrainEnd, kernelVars, LeftoverCounted
<1>12. CASE Reopen
  BY <1>12 DEF Reopen, TakeClose, LeftoverCounted
<1>13. CASE ProbeStarts
  BY <1>3, <1>13, PlainType DEF ProbeStarts, StartProbe
<1>14. CASE ProbeEnds \/ TimeOut \/ Tick
  BY <1>1, <1>14 DEF ProbeEnds, FinishProbe, TimeOut, GiveUp, Tick, KernelTick, daemonVars,
     ghostVars
<1>15. CASE KernelAsks
  <2>1. CASE Notify
    BY <1>3, <1>15, <2>1, PlainType DEF KernelAsks, Notify
  <2>2. ASSUME NEW id \in FreshIds, AskLevel(id) \/ AskOther(id) PROVE LeftoverCounted'
    BY <1>3, <1>15, <2>2, RequestType DEF KernelAsks, TypeOK
  <2> QED
    BY <1>15, <2>1, <2>2 DEF KernelAsks
<1>16. CASE UNCHANGED vars
  BY <1>1, <1>16 DEF vars, kernelVars, ghostVars
<1> QED
  BY <1>4, <1>5, <1>6, <1>7, <1>8, <1>9, <1>10, <1>11, <1>12, <1>13, <1>14, <1>15, <1>16
     DEF Next

(* What is left over is counted throughout.                                *)
LEMMA LeftoverInvariant == Spec => []LeftoverCounted
<1>1. Init => LeftoverCounted
  BY DEF Init, KernelInit, LeftoverCounted
<1> QED
  BY <1>1, LeftoverStep, BatteryInvariant, PTL DEF Spec

(* No event of one device is read as news about the next, unless a signal  *)
(* or an error cut the drain between them short.                           *)
THEOREM StaleOnlyWhenCutHolds == Spec => []StaleOnlyWhenCut
<1>1. TypeOK /\ LeftoverCounted => StaleOnlyWhenCut
  BY DEF LeftoverCounted, StaleOnlyWhenCut, Held, TypeOK, KernelTypeOK
<1> QED
  BY <1>1, BatteryInvariant, LeftoverInvariant, PTL

------------------------------------------------------------------------------
(* What holds when the probe is over before the settle push.               *)

(* Reading an event reads no other.                                        *)
LEMMA UnreadGiven ==
  ASSUME TypeOK, GiveEvent
  PROVE  /\ Unread("Start")' => Unread("Start")
         /\ Unread("Start") /\ Head(queue).type # "Start" => Unread("Start")'
         /\ Head(queue).type = "Start" => Unread("Start")
<1>1. queue \in Seq(Event) /\ queue # <<>>
  BY DEF TypeOK, KernelTypeOK, GiveEvent
<1>2. Unread("Start")' => Unread("Start")
  BY <1>1, TakenEvent DEF Unread
<1>3. Unread("Start") /\ Head(queue).type # "Start" => Unread("Start")'
  BY <1>1, TakenEvent DEF Unread
<1>4. Head(queue).type = "Start" => Unread("Start")
  BY <1>1 DEF Unread
<1> QED
  BY <1>2, <1>3, <1>4

(* An event is unread once it is sent.                                     *)
LEMMA UnreadAppended ==
  ASSUME TypeOK, NEW e \in Event, queue' = Append(queue, e)
  PROVE  /\ Unread("Start")' <=> Unread("Start") \/ e.type = "Start"
         /\ Len(queue') = Len(queue) + 1
<1>1. /\ DOMAIN queue' = DOMAIN queue \cup {Len(queue) + 1}
      /\ \A i \in DOMAIN queue : queue'[i] = queue[i]
      /\ queue'[Len(queue) + 1] = e
      /\ Len(queue') = Len(queue) + 1
  BY QueuedEvent DEF TypeOK, KernelTypeOK
<1> QED
  BY <1>1 DEF Unread

(* A re-push that is due finds the device ready.                           *)
LEMMA DueOnlyWhenReady ==
  ASSUME TypeOK, BatteryInv, PromptInv, Fresh, repush_at = 0
  PROVE  dev = "ready"
<1>1. repush_at # None /\ timer \in Nat /\ ProbeMax \in Nat
  BY KernelAssumption DEF TypeOK, KernelTypeOK
<1> QED
  BY <1>1 DEF PromptInv, RepushOutlastsProbe, BatteryInv, OwnDevice, Fresh, TypeOK,
     KernelTypeOK

(* Every step keeps the strengthened invariant of a prompt probe.          *)
LEMMA PromptInvStep ==
  ASSUME PromptProbe
  PROVE  TypeOK /\ BatteryInv /\ LeftoverCounted /\ PromptInv /\ [Next]_vars => PromptInv'
<1> SUFFICES ASSUME TypeOK, BatteryInv, LeftoverCounted, PromptInv, [Next]_vars PROVE PromptInv'
  OBVIOUS
<1>0. TypeOK' /\ BatteryInv'
  BY TypeStep, BatteryInvStep
<1>a. /\ timer \in Nat /\ ProbeMax \in Nat /\ StartMax \in Nat
      /\ START_SETTLE_DELAY \in Nat /\ CHARGE_FLIP_REPUSH_DELAY \in Nat
      /\ repush_at \in Nat \cup {None} /\ None \notin Nat
  BY KernelAssumption, BatteryAssumption DEF TypeOK, KernelTypeOK, BatteryTypeOK
<1> USE DEF PromptInv
<1>1. ASSUME NEW k \in Kinds, NEW r \in Inputs, Create(k, r) PROVE PromptInv'
  <2>1. /\ dev = "none" /\ dev' = "created" /\ timer' = StartMax /\ queue' = queue
        /\ repush_at' = None /\ pc = "idle" /\ cut' = cut
    BY <1>1 DEF Create, TakeCreate, ghostVars
  <2>2. ~cut => Len(queue) = 0
    BY <2>1 DEF LeftoverCounted
  <2>3. ~cut' => ~Unread("Start")'
    BY <2>1, <2>2 DEF Unread, TypeOK, KernelTypeOK
  <2> QED
    BY <1>a, <2>1, <2>3 DEF StartNotYetSent, RepushOutlastsProbe, PushPending
<1>2. ASSUME NEW r \in Reading, pc \in {"first", "alive", "due"}, push(kind, r),
             kind' = kind, reading' = r, cut' = cut, pc' \in {"alive", "undo"},
             Fresh /\ repush_at # None => repush_at' # None \/ dev = "ready",
             repush_at' \in {None, repush_at, CHARGE_FLIP_REPUSH_DELAY}
      PROVE  PromptInv'
  <2>1. Held /\ Held' /\ (Fresh' <=> Fresh)
    BY <1>2 DEF Held, Fresh
  <2>2. /\ UNCHANGED <<dev, rid, timer, queue, leftover, waiting>>
        /\ dev = "ready" /\ ~told' => shown' = r /\ reported'
    BY <1>2, <2>1, PushEffect DEF BatteryInv, OwnDevice, TypeOK, BatteryTypeOK
  <2>3. Unread("Start")' <=> Unread("Start")
    BY <2>2 DEF Unread
  <2>4. RepushOutlastsProbe'
    BY <1>a, <1>2, <2>1, <2>2 DEF RepushOutlastsProbe, PromptProbe
  <2>5. PushPending'
    BY <1>2, <2>1, <2>2, <2>3 DEF PushPending, Current, BatteryInv, OwnDevice
  <2> QED
    BY <1>2, <2>2, <2>3, <2>4, <2>5 DEF StartNotYetSent
<1>3. CASE FirstPush
  BY <1>2, <1>3 DEF FirstPush, push, batteryVars, TypeOK, BatteryTypeOK
<1>4. ASSUME NEW r \in Inputs, Update(r) PROVE PromptInv'
  <2>1. /\ repush_at # None => repush_at' # None
        /\ repush_at' \in {None, repush_at, CHARGE_FLIP_REPUSH_DELAY}
    BY <1>4, <1>a DEF Update, schedule_repush
  <2> QED
    BY <1>2, <1>4, <2>1, ClampedType DEF Update
<1>5. CASE PushIfDue
  <2>1. CASE repush_at = 0
    BY <1>2, <1>5, <2>1, DueOnlyWhenReady DEF PushIfDue, TypeOK, BatteryTypeOK
  <2>2. CASE repush_at # 0
    BY <1>5, <2>2 DEF PushIfDue, kernelVars, supplyVars, Held, Fresh,
       StartNotYetSent, RepushOutlastsProbe, PushPending, Current, Unread
  <2> QED
    BY <2>1, <2>2
<1>6. CASE Service \/ ReadNothing \/ ReadFails
  BY <1>6 DEF Service, ReadNothing, ReadFails, kernelVars, batteryVars, ghostVars, supplyVars,
     Held, Fresh, StartNotYetSent, RepushOutlastsProbe, PushPending, Current, Unread
<1>7. ASSUME pc = "service", GiveEvent, pc' \in {"service", "reply"},
             UNCHANGED <<kind, reading, ghostVars>>,
             \/ Head(queue).type # "Start" /\ UNCHANGED repush_at
             \/ Head(queue).type = "Start" /\ schedule_repush(START_SETTLE_DELAY)
      PROVE  PromptInv'
  <2>1. Held /\ Held' /\ (Fresh' <=> Fresh) /\ UNCHANGED <<dev, timer, shown, reported, told, cut>>
    BY <1>7 DEF Held, Fresh, GiveEvent, supplyVars, ghostVars
  <2>2. StartNotYetSent'
    BY <1>7, <2>1, UnreadGiven DEF StartNotYetSent
  <2>3. CASE Head(queue).type # "Start" /\ UNCHANGED repush_at
    BY <1>7, <2>1, <2>2, <2>3, UnreadGiven DEF RepushOutlastsProbe, PushPending, Current
  <2>4. CASE Head(queue).type = "Start" /\ schedule_repush(START_SETTLE_DELAY)
    <3>1. Fresh => dev # "created"
      BY <1>7, <2>4, UnreadGiven DEF StartNotYetSent, Fresh
    <3>2. repush_at' \in Nat /\ (repush_at' = START_SETTLE_DELAY \/ repush_at' = repush_at)
      BY <1>a, <2>4, ScheduleType
    <3>3. RepushOutlastsProbe'
      BY <1>a, <2>1, <3>1, <3>2 DEF RepushOutlastsProbe, PromptProbe
    <3>4. PushPending'
      BY <1>a, <2>1, <3>2 DEF PushPending
    <3> QED
      BY <2>2, <3>3, <3>4
  <2> QED
    BY <1>7, <2>3, <2>4
<1>8. CASE ReadStart
  BY <1>7, <1>8 DEF ReadStart
<1>9. CASE ReadIgnored
  BY <1>7, <1>9 DEF ReadIgnored, batteryVars
<1>10. CASE ReadRequest
  BY <1>7, <1>10 DEF ReadRequest, batteryVars
<1>11. CASE Reply
  <2>1. /\ pc = "reply" /\ pc' \in {"service", "alive"}
        /\ UNCHANGED <<kind, reading, repush_at, told, cut>>
        /\ UNCHANGED <<dev, timer, queue, reported>>
    BY <1>11 DEF Reply, TakeReply, batteryVars, kernelVars, supplyVars
  <2>2. Held /\ Held' /\ (Fresh' <=> Fresh)
    BY <2>1 DEF Held, Fresh
  <2>3. Current => Current'
    <3>1. CASE TakeReply(event, Answer(event))
      <4>1. shown' = shown \/ shown' = [shown EXCEPT !.percent = reading.percent]
        BY <3>1, ReportFields DEF TakeReply, Answer
      <4> QED
        BY <2>1, <4>1 DEF Current, TypeOK, KernelTypeOK, Reading
    <3>2. CASE UNCHANGED kernelVars
      BY <2>1, <3>2 DEF Current, kernelVars, supplyVars
    <3> QED
      BY <1>11, <3>1, <3>2 DEF Reply
  <2> QED
    BY <2>1, <2>2, <2>3 DEF StartNotYetSent, RepushOutlastsProbe, PushPending, Unread
<1>12. CASE Destroy
  <2>1. ~Fresh' /\ cut' = cut
    BY <1>12 DEF Destroy, Held, Fresh
  <2>2. CASE TakeDestroy
    BY <2>1, <2>2, NoDeviceType DEF TakeDestroy, StartNotYetSent, RepushOutlastsProbe,
       PushPending
  <2>3. CASE UNCHANGED kernelVars
    BY <2>1, <2>3 DEF kernelVars, StartNotYetSent, RepushOutlastsProbe, PushPending, Unread
  <2> QED
    BY <1>12, <2>2, <2>3 DEF Destroy
<1>13. CASE Drain
  <2>1. ~Fresh' /\ GiveEvent /\ UNCHANGED <<dev, timer, cut>>
    BY <1>13 DEF Drain, Held, Fresh, GiveEvent, ghostVars
  <2> QED
    BY <2>1, UnreadGiven DEF StartNotYetSent, RepushOutlastsProbe, PushPending
<1>14. CASE DrainEnd
  <2>1. ~Fresh' /\ UNCHANGED <<dev, timer, queue>> /\ (queue = <<>> \/ cut')
    BY <1>14 DEF DrainEnd, Held, Fresh, kernelVars
  <2> QED
    BY <2>1 DEF StartNotYetSent, RepushOutlastsProbe, PushPending, Unread
<1>15. CASE Reopen
  BY <1>15, NoDeviceType DEF Reopen, TakeClose, Held, Fresh, StartNotYetSent,
     RepushOutlastsProbe, PushPending
<1>16. CASE ProbeStarts
  <2>1. /\ dev = "created" /\ dev' = "probing" /\ timer' = ProbeMax
        /\ UNCHANGED <<pc, kind, reading, repush_at, told, cut>>
        /\ queue' = Append(queue, Plain("Start"))
    BY <1>16 DEF ProbeStarts, StartProbe, Enqueue, daemonVars, batteryVars, ghostVars
  <2>2. Unread("Start")'
    BY <2>1, UnreadAppended, PlainType DEF Plain
  <2> QED
    BY <1>a, <2>1, <2>2 DEF Held, Fresh, StartNotYetSent, RepushOutlastsProbe, PushPending
<1>17. CASE ProbeEnds
  BY <1>17 DEF ProbeEnds, FinishProbe, daemonVars, batteryVars, ghostVars, supplyVars,
     Held, Fresh, StartNotYetSent, RepushOutlastsProbe, PushPending, Current, Unread
<1>18. ASSUME dev \in {"probing", "ready"}, NEW e \in Event, e.type # "Start", Enqueue(e),
              UNCHANGED <<dev, timer, supplyVars>>, UNCHANGED daemonVars
       PROVE  PromptInv'
  <2>1. Unread("Start")' <=> Unread("Start")
    BY <1>18, UnreadAppended DEF Enqueue
  <2> QED
    BY <1>18, <2>1 DEF daemonVars, batteryVars, ghostVars, supplyVars, Held, Fresh,
       StartNotYetSent, RepushOutlastsProbe, PushPending, Current
<1>19. CASE KernelAsks
  <2>1. CASE Notify
    <3>1. Plain("Ignored") \in Event /\ Plain("Ignored").type # "Start"
      BY PlainType DEF Plain
    <3> QED
      BY <1>18, <1>19, <2>1, <3>1 DEF KernelAsks, Notify
  <2>2. ASSUME NEW id \in FreshIds, AskLevel(id) \/ AskOther(id) PROVE PromptInv'
    BY <1>18, <1>19, <2>2, RequestType DEF KernelAsks, TypeOK
  <2> QED
    BY <1>19, <2>1, <2>2 DEF KernelAsks
<1>20. CASE TimeOut
  BY <1>20 DEF TimeOut, GiveUp, batteryVars, supplyVars, Held, Fresh,
     StartNotYetSent, RepushOutlastsProbe, PushPending, Current, Unread
<1>21. CASE Tick
  <2>1. /\ UNCHANGED <<pc, dev, queue, shown, reported, reading, told, cut>>
        /\ dev \in {"created", "probing"} => timer > 0
        /\ timer' = Countdown(timer)
        /\ repush_at' = IF repush_at = None THEN None ELSE Countdown(repush_at)
    BY <1>21 DEF Tick, KernelTick, ghostVars
  <2>2. RepushOutlastsProbe'
    BY <1>a, <2>1 DEF RepushOutlastsProbe, Countdown, Held, Fresh
  <2>3. repush_at # None => repush_at' # None
    BY <1>a, <2>1 DEF Countdown
  <2> QED
    BY <2>1, <2>2, <2>3 DEF Held, Fresh, StartNotYetSent, PushPending, Current, Unread
<1>22. CASE UNCHANGED vars
  BY <1>22 DEF vars, kernelVars, batteryVars, ghostVars, supplyVars, Held, Fresh,
     StartNotYetSent, RepushOutlastsProbe, PushPending, Current, Unread
<1> QED
  BY <1>1, <1>3, <1>4, <1>5, <1>6, <1>8, <1>9, <1>10, <1>11, <1>12, <1>13, <1>14,
     <1>15, <1>16, <1>17, <1>19, <1>20, <1>21, <1>22 DEF Next

(* It holds at the start.                                                  *)
LEMMA PromptInvInit == Init => PromptInv
BY DEF Init, KernelInit, PromptInv, StartNotYetSent, RepushOutlastsProbe, PushPending, Held,
       Fresh

(* With a prompt probe the strengthened invariant is inductive, whatever   *)
(* reads and writes fail or are interrupted.                               *)
THEOREM InductiveHolds == ASSUME PromptProbe PROVE Spec => []Inductive
<1>1. Init => PromptInv
  BY PromptInvInit
<1>2. TypeOK /\ BatteryInv /\ LeftoverCounted /\ PromptInv /\ [Next]_vars => PromptInv'
  BY PromptInvStep
<1> QED
  BY <1>1, <1>2, BatteryInvariant, LeftoverInvariant, PTL DEF Spec, Inductive

(* A battery on a drained handle whose reading the kernel does not show    *)
(* has a push to come.                                                     *)
THEOREM CurrentOrPendingHolds == ASSUME PromptProbe PROVE Spec => []CurrentOrPending
<1>1. Inductive => CurrentOrPending
  BY DEF Inductive, PromptInv, PushPending, CurrentOrPending
<1> QED
  BY <1>1, InductiveHolds, PTL

(* No re-push of a battery on a drained handle is dropped by the probe.    *)
THEOREM RepushLandsHolds == ASSUME PromptProbe PROVE Spec => []RepushLands
<1>1. Inductive => RepushLands
  BY DueOnlyWhenReady DEF Inductive, RepushLands
<1> QED
  BY <1>1, InductiveHolds, PTL

==============================================================================
