------------------------------ MODULE BatteryInv ------------------------------
(***************************************************************************)
(* The inductive strengthening of Battery's safety properties.  The parts  *)
(* that hold of every battery come first; those that need the probe to be  *)
(* over before a re-push come after.                                       *)
(***************************************************************************)
EXTENDS Battery

(* The probe ends before the settle delay, and one that has not begun ends *)
(* before a charging flip is pushed again.                                 *)
PromptProbe ==
  /\ ProbeMax < START_SETTLE_DELAY
  /\ StartMax + ProbeMax < CHARGE_FLIP_REPUSH_DELAY

(* A battery's device was created with the report ID its reports carry.    *)
OwnDevice == Held => dev # "none" /\ rid = report_id(kind)

NoDeviceNoSupply ==
  dev = "none" => waiting = {} /\ ~reported /\ shown = Unknown

ReportedWhenReady == reported => dev = "ready"

ReadingWithinMaximum == reading.percent <= MAX_PERCENT

EventWhileReplying == event # None <=> pc = "reply"

(* Events that need no answer carry no request's id.                       *)
PlainEvents ==
  \A i \in DOMAIN queue : queue[i].type \in {"Start", "Ignored"} => queue[i].id = 0

ToldOnlyOfFaults == told => Faults

(* UPower was told the level sysfs shows, and the charging status where a  *)
(* flip is announced; unless a write may fail, for a level the kernel then *)
(* asks for is not announced, and makes the next push look like no news.   *)
AnnouncedAsShown ==
  reported =>
    /\ upower \in Reading /\ upower.percent = shown.percent
    /\ AnnouncesFlips => upower = shown

(* What holds whatever the kernel's timing.                                *)
BatteryInv ==
  /\ OwnDevice /\ NoDeviceNoSupply /\ ReportedWhenReady
  /\ ReadingWithinMaximum /\ ShownWithinMaximum
  /\ EventWhileReplying /\ PlainEvents /\ ToldOnlyOfFaults
  /\ ReportedIsCurrent /\ NoLostRequest

(* Every event is left over once the device is gone, and a drain that is   *)
(* not cut short takes them all before the handle is used again.           *)
LeftoverCounted ==
  /\ leftover <= Len(queue)
  /\ dev = "none" => leftover = Len(queue)
  /\ pc # "drain" /\ ~cut => leftover = 0

------------------------------------------------------------------------------
(* No START is read before the kernel has sent it.                         *)
StartNotYetSent == dev = "created" /\ ~cut => ~Unread("Start")

(* A scheduled push comes after the latest end of the probe.               *)
RepushOutlastsProbe ==
  /\ dev = "created" => timer <= StartMax
  /\ dev = "probing" => timer <= ProbeMax
  /\ Fresh /\ repush_at # None =>
       /\ dev = "created" => timer + ProbeMax < repush_at
       /\ dev = "probing" => timer < repush_at

(* CurrentOrPending, with no excuse before the probe is over.              *)
PushPending ==
  Fresh => \/ dev = "created" \/ Unread("Start") \/ repush_at # None
           \/ dev = "ready" /\ (Current \/ told)

PromptInv == StartNotYetSent /\ RepushOutlastsProbe /\ PushPending

(* The inductive invariant of a prompt probe.                              *)
Inductive == TypeOK /\ BatteryInv /\ LeftoverCounted /\ PromptInv

==============================================================================
