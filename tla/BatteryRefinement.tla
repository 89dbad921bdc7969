-------------------------- MODULE BatteryRefinement --------------------------
(***************************************************************************)
(* Battery implements Publication and Servable: under the mappings of the  *)
(* instances P and S every step of the daemon, the kernel and the clock is *)
(* a step of the abstract specification, or changes nothing of what it     *)
(* talks about.                                                            *)
(***************************************************************************)
EXTENDS BatterySafety

Published == [percent : 0 .. MAX_PERCENT, charging : BOOLEAN]

(* A reading within its maximum is one Publication can hold.               *)
LEMMA ReadingPublished ==
  ASSUME reading \in Reading, ReadingWithinMaximum
  PROVE  reading \in Published /\ reading # None
BY KernelAssumption, BatteryAssumption DEF Reading, ReadingWithinMaximum, Published

(* The mapped variables change with Held, reading, shown and reported only. *)
LEMMA MappedUnchanged ==
  ASSUME Held' <=> Held, Held => UNCHANGED <<reading, shown, reported>>
  PROVE  UNCHANGED P!publication
BY DEF P!publication

(* A push, whatever becomes of it.                                         *)
LEMMA PushRefines ==
  ASSUME TypeOK, BatteryInv, BatteryInv', TypeOK', Held, Held', kind' = kind,
         reading' \in Reading, push(kind, reading')
  PROVE  [P!PublicationNext]_(P!publication)
<1>1. /\ told' => Faults
      /\ told' => UNCHANGED <<shown, reported>>
      /\ ~told' /\ dev = "ready" => shown' = reading' /\ reported'
      /\ ~told' /\ dev # "ready" => UNCHANGED <<shown, reported>>
  BY PushEffect DEF BatteryInv, OwnDevice, TypeOK, BatteryTypeOK
<1>2. reading \in Published /\ reading # None /\ reading' \in Published /\ reading' # None
  <2>1. reading' \in Published /\ reading' # None
    BY KernelAssumption, BatteryAssumption
       DEF BatteryInv, Reading, ReadingWithinMaximum, Published
  <2> QED
    BY <2>1, ReadingPublished DEF BatteryInv, TypeOK, BatteryTypeOK
<1>3. CASE told' \/ dev # "ready"
  <2>1. reported => Faults
    BY <1>1, <1>3 DEF BatteryInv, ReportedWhenReady
  <2>2. P!Miss
    BY <1>1, <1>2, <1>3, <2>1 DEF P!Miss, Published
  <2> QED
    BY <2>2 DEF P!PublicationNext
<1>4. CASE ~told' /\ dev = "ready"
  <2>1. P!Publish
    BY <1>1, <1>2, <1>4 DEF P!Publish, Published
  <2> QED
    BY <2>1 DEF P!PublicationNext
<1> QED
  BY <1>3, <1>4

(* Every step of Battery is one of Publication, or changes nothing it has. *)
LEMMA StepRefines ==
  TypeOK /\ BatteryInv /\ [Next]_vars => [P!PublicationNext]_(P!publication)
<1> SUFFICES ASSUME TypeOK, BatteryInv, [Next]_vars
             PROVE  [P!PublicationNext]_(P!publication)
  OBVIOUS
<1>0. TypeOK' /\ BatteryInv'
  BY TypeStep, BatteryInvStep
<1>1. ASSUME NEW k \in Kinds, NEW r \in Inputs, Create(k, r)
      PROVE  [P!PublicationNext]_(P!publication)
  <2>1. /\ ~Held /\ Held' /\ ~reported' /\ shown' = Unknown
        /\ reading' = clamped(r)
    BY <1>1 DEF Create, TakeCreate, Held, supplyVars, BatteryInv, NoDeviceNoSupply
  <2>2. reading' \in Published
    BY <1>0, <2>1, ClampedType, BatteryAssumption DEF Published, Reading
  <2>3. P!Appear
    BY <2>1, <2>2 DEF P!Appear, Published
  <2> QED
    BY <2>3 DEF P!PublicationNext
<1>2. CASE FirstPush
  <2>1. Held /\ Held' /\ push(kind, reading') /\ kind' = kind
    BY <1>2 DEF FirstPush, push, Held, batteryVars
  <2> QED
    BY <1>0, <2>1, PushRefines DEF TypeOK, BatteryTypeOK
<1>3. ASSUME NEW r \in Inputs, Update(r) PROVE [P!PublicationNext]_(P!publication)
  <2>1. Held /\ Held' /\ push(kind, reading') /\ kind' = kind
    BY <1>3 DEF Update, Held
  <2> QED
    BY <1>0, <2>1, PushRefines DEF TypeOK, BatteryTypeOK
<1>4. CASE PushIfDue
  <2>1. Held /\ Held' /\ kind' = kind /\ reading' = reading
    BY <1>4 DEF PushIfDue, Held
  <2>2. CASE push(kind, reading)
    BY <1>0, <2>1, <2>2, PushRefines DEF TypeOK, BatteryTypeOK
  <2>3. CASE UNCHANGED kernelVars
    BY <2>1, <2>3, MappedUnchanged DEF kernelVars, supplyVars
  <2> QED
    BY <1>4, <2>2, <2>3 DEF PushIfDue
<1>5. CASE Reply
  <2>1. Held /\ Held' /\ reading' = reading
    BY <1>5 DEF Reply, Held, batteryVars
  <2>2. CASE UNCHANGED kernelVars
    BY <2>1, <2>2, MappedUnchanged DEF kernelVars, supplyVars
  <2>3. CASE TakeReply(event, Answer(event))
    <3>1. /\ reported' = reported
          /\ shown' = shown \/ shown' = [shown EXCEPT !.percent = reading.percent]
      BY <2>3, ReportFields DEF TakeReply, Answer
    <3>2. CASE shown' = shown
      BY <2>1, <3>1, <3>2, MappedUnchanged
    <3>3. CASE shown' = [shown EXCEPT !.percent = reading.percent]
      <4>1. reading # None
        BY ReadingPublished DEF TypeOK, BatteryTypeOK, BatteryInv
      <4>2. P!AnswerLevel
        BY <2>1, <3>1, <3>3, <4>1 DEF P!AnswerLevel
      <4> QED
        BY <4>2 DEF P!PublicationNext
    <3> QED
      BY <3>1, <3>2, <3>3
  <2> QED
    BY <1>5, <2>2, <2>3 DEF Reply
<1>6. ASSUME ~Held' PROVE [P!PublicationNext]_(P!publication)
  <2>1. CASE Held
    <3>1. reading # None
      BY ReadingPublished DEF TypeOK, BatteryTypeOK, BatteryInv
    <3>2. P!Vanish
      BY <1>6, <2>1, <3>1 DEF P!Vanish
    <3> QED
      BY <3>2 DEF P!PublicationNext
  <2>2. CASE ~Held
    BY <1>6, <2>2, MappedUnchanged
  <2> QED
    BY <2>1, <2>2
<1>7. CASE Destroy \/ Drain \/ DrainEnd \/ Reopen
  BY <1>6, <1>7 DEF Destroy, Drain, DrainEnd, Reopen, Held
<1>8. CASE Service \/ ReadStart \/ ReadIgnored \/ ReadRequest \/ ReadNothing \/ ReadFails
  BY <1>8, MappedUnchanged DEF Service, ReadStart, ReadIgnored, ReadRequest, ReadNothing,
     ReadFails, GiveEvent, kernelVars, batteryVars, supplyVars, Held
<1>9. CASE ProbeStarts \/ ProbeEnds \/ TimeOut \/ Tick
  BY <1>9, MappedUnchanged DEF ProbeStarts, ProbeEnds, TimeOut, Tick, StartProbe, FinishProbe,
     GiveUp, KernelTick, daemonVars, batteryVars, supplyVars, Held
<1>10. CASE KernelAsks
  <2>1. UNCHANGED <<pc, reading>>
    BY <1>10 DEF KernelAsks, daemonVars, batteryVars
  <2>2. UNCHANGED <<shown, reported>>
    BY <1>10, RequestType DEF KernelAsks, Notify, supplyVars, TypeOK
  <2> QED
    BY <2>1, <2>2, MappedUnchanged DEF Held
<1>11. CASE UNCHANGED vars
  BY <1>11, MappedUnchanged DEF vars, kernelVars, batteryVars, supplyVars, Held
<1> QED
  BY <1>1, <1>2, <1>3, <1>4, <1>5, <1>7, <1>8, <1>9, <1>10, <1>11 DEF Next

(* Sysfs is only ever given the reading the daemon wants at that moment.   *)
THEOREM Refinement == Spec => Publishes
<1>1. Init => P!Gone
  BY DEF Init, Held, P!Gone
<1>2. TypeOK /\ BatteryInv /\ [Next]_vars => [P!PublicationNext]_(P!publication)
  BY StepRefines
<1> QED
  BY <1>1, <1>2, BatteryInvariant, PTL DEF Spec, Publishes, P!PublicationSpec

------------------------------------------------------------------------------
(* Battery implements Servable, whatever a drain that was cut short left   *)
(* on the handle.                                                          *)

(* A step that Servable does not see.                                      *)
LEMMA UnseenStep ==
  ASSUME UNCHANGED pc \/ (pc \in {"first", "undo", "alive"} /\ pc' \in {"undo", "alive"})
                      \/ (pc \in {"service", "reply"} /\ pc' \in {"service", "reply"})
                      \/ (~Held /\ ~Held'),
         Held => UNCHANGED <<queue, repush_at>>
  PROVE  UNCHANGED S!servable
BY DEF S!servable, Held

(* What schedule_repush does is what Servable allows.                      *)
LEMMA SchedulesAsServable ==
  ASSUME Held, Held', NEW delay \in {START_SETTLE_DELAY, CHARGE_FLIP_REPUSH_DELAY},
         schedule_repush(delay)
  PROVE  S!Scheduled
BY DEF schedule_repush, S!Scheduled

(* Reading an event, whatever is done with it.                             *)
LEMMA TakeServes ==
  ASSUME TypeOK, pc = "service", GiveEvent, pc' \in {"service", "reply"},
         \/ UNCHANGED repush_at
         \/ schedule_repush(START_SETTLE_DELAY)
  PROVE  S!Take
<1>1. Held /\ Held'
  BY DEF Held
<1>2. Len(queue') = Len(queue) - 1 /\ Len(queue) \in Nat \ {0}
  BY TakenEvent DEF TypeOK, KernelTypeOK
<1>3. S!Scheduled \/ UNCHANGED repush_at
  BY <1>1, SchedulesAsServable
<1> QED
  BY <1>1, <1>2, <1>3 DEF S!Take

(* The kernel queues an event while a device is there.                     *)
LEMMA ArriveServes ==
  ASSUME TypeOK, Held, NEW e \in Event, queue' = Append(queue, e), UNCHANGED <<pc, repush_at>>
  PROVE  S!Arrive
<1>1. Len(queue') = Len(queue) + 1
  BY QueuedEvent DEF TypeOK, KernelTypeOK
<1> QED
  BY <1>1 DEF S!Arrive, Held

(* Every step is one of Servable's, or none of its business.               *)
LEMMA StepServes == TypeOK /\ [Next]_vars => [S!ServableNext]_(S!servable)
<1> SUFFICES ASSUME TypeOK, [Next]_vars
             PROVE  [S!ServableNext]_(S!servable)
  OBVIOUS
<1>a. /\ repush_at \in Nat \cup {None} /\ None \notin Nat
      /\ queue \in Seq(Event)
  BY KernelAssumption DEF TypeOK, KernelTypeOK, BatteryTypeOK
<1> USE DEF S!ServableNext
<1>1. ASSUME NEW k \in Kinds, NEW r \in Inputs, Create(k, r) PROVE S!Come
  <2>1. /\ pc = "idle" /\ pc' = "first" /\ queue' = queue /\ repush_at' = None
    BY <1>1 DEF Create, TakeCreate
  <2>2. Len(queue') \in Nat
    BY <1>a, <2>1
  <2> QED
    BY <2>1, <2>2 DEF S!Come, Held
<1>2. CASE FirstPush
  BY <1>2, UnseenStep DEF FirstPush, PushTaken, PushFailed, TakeInput, kernelVars, batteryVars
<1>3. ASSUME NEW r \in Inputs, Update(r) PROVE [S!ServableNext]_(S!servable)
  <2>1. Held /\ Held' /\ pc = "alive" /\ UNCHANGED <<pc, queue>>
    BY <1>3 DEF Update, Held, push, PushTaken, PushFailed, TakeInput, kernelVars
  <2>2. CASE UNCHANGED repush_at
    BY <2>1, <2>2, UnseenStep
  <2>3. CASE schedule_repush(CHARGE_FLIP_REPUSH_DELAY)
    <3>1. S!Scheduled
      BY <2>1, <2>3, SchedulesAsServable
    <3>2. S!Update
      BY <2>1, <3>1 DEF S!Update, Held
    <3> QED
      BY <3>2
  <2> QED
    BY <1>3, <2>2, <2>3 DEF Update
<1>4. CASE Service
  <2>1. S!Begin
    BY <1>4 DEF Service, S!Begin, Held, kernelVars, batteryVars
  <2> QED
    BY <2>1
<1>5. CASE ReadStart \/ ReadIgnored \/ ReadRequest
  <2>1. S!Take
    BY <1>5, TakeServes DEF ReadStart, ReadIgnored, ReadRequest, batteryVars
  <2> QED
    BY <2>1
<1>6. CASE Reply
  <2>1. pc = "reply" /\ UNCHANGED <<queue, repush_at>>
    BY <1>6 DEF Reply, TakeReply, batteryVars, kernelVars
  <2>2. CASE pc' = "service"
    BY <2>1, <2>2, UnseenStep
  <2>3. CASE Faults /\ pc' = "alive"
    <3>1. S!Fail
      BY <2>1, <2>3 DEF S!Fail, Held
    <3> QED
      BY <3>1
  <2> QED
    BY <1>6, <2>2, <2>3 DEF Reply
<1>7. CASE ReadNothing
  <2>1. S!LookEmpty
    <3>1. /\ pc = "service" /\ pc' = "due" /\ UNCHANGED <<queue, repush_at>>
          /\ queue = <<>> \/ "service" \in Interruptible
      BY <1>7 DEF ReadNothing, kernelVars, batteryVars
    <3> QED
      BY <3>1 DEF S!LookEmpty, Held
  <2> QED
    BY <2>1
<1>8. CASE ReadFails
  <2>1. S!Fail
    BY <1>8 DEF ReadFails, S!Fail, Held, kernelVars, batteryVars
  <2> QED
    BY <2>1
<1>9. CASE PushIfDue
  <2>1. /\ pc = "due" /\ pc' = "alive" /\ queue' = queue
        /\ repush_at' = IF repush_at = 0 THEN None ELSE repush_at
    BY <1>9 DEF PushIfDue, push, PushTaken, PushFailed, TakeInput, kernelVars
  <2>2. S!Settle
    BY <2>1 DEF S!Settle, Held
  <2> QED
    BY <2>2
<1>10. ASSUME ~Held' PROVE [S!ServableNext]_(S!servable)
  <2>1. S!Leave
    BY <1>10 DEF S!Leave, Held
  <2> QED
    BY <2>1
<1>11. CASE Destroy \/ Drain \/ DrainEnd \/ Reopen
  BY <1>10, <1>11 DEF Destroy, Drain, DrainEnd, Reopen, Held
<1>12. ASSUME NEW e \in Event, Enqueue(e), dev # "none", UNCHANGED daemonVars
       PROVE  [S!ServableNext]_(S!servable)
  <2>1. queue' = Append(queue, e) /\ UNCHANGED <<pc, repush_at>>
    BY <1>12 DEF Enqueue, daemonVars, batteryVars
  <2>2. CASE Held
    BY <2>1, <2>2, ArriveServes
  <2>3. CASE ~Held
    BY <1>10, <2>1, <2>3 DEF Held
  <2> QED
    BY <2>2, <2>3
<1>13. CASE ProbeStarts
  BY <1>12, <1>13, PlainType DEF ProbeStarts, StartProbe
<1>14. CASE KernelAsks
  <2>1. CASE Notify
    BY <1>12, <1>14, <2>1, PlainType DEF KernelAsks, Notify
  <2>2. ASSUME NEW id \in FreshIds, AskLevel(id) \/ AskOther(id)
        PROVE  [S!ServableNext]_(S!servable)
    BY <1>12, <1>14, <2>2, RequestType DEF KernelAsks, TypeOK
  <2> QED
    BY <1>14, <2>1, <2>2 DEF KernelAsks
<1>15. CASE ProbeEnds \/ TimeOut
  BY <1>15, UnseenStep DEF ProbeEnds, FinishProbe, TimeOut, GiveUp, daemonVars, batteryVars
<1>16. CASE Tick
  <2>1. /\ UNCHANGED <<pc, queue>>
        /\ repush_at' = IF repush_at = None THEN None ELSE Countdown(repush_at)
    BY <1>16 DEF Tick, KernelTick
  <2>2. S!Elapse
    BY <1>a, <2>1 DEF S!Elapse, S!Countdown, Countdown, Held
  <2> QED
    BY <2>2
<1>17. CASE UNCHANGED vars
  BY <1>17, UnseenStep DEF vars, kernelVars, batteryVars
<1> QED
  BY <1>1, <1>2, <1>3, <1>4, <1>5, <1>6, <1>7, <1>8, <1>9, <1>11, <1>13, <1>14,
     <1>15, <1>16, <1>17 DEF Next

(* A battery is to its serve loop what Servable says, whatever the         *)
(* kernel's timing and whatever fails: no event is dropped or read twice,  *)
(* and a push that is owed never moves away (battery.rs:421).              *)
THEOREM ServesHolds == Spec => Serves
<1>1. Init => S!ServableInit
  BY DEF Init, KernelInit, Held, S!ServableInit
<1>2. TypeOK /\ [Next]_vars => [S!ServableNext]_(S!servable)
  BY StepServes
<1> QED
  BY <1>1, <1>2, TypeCorrect, PTL DEF Spec, Serves, S!ServableSpec

==============================================================================
