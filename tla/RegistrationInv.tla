--------------------------- MODULE RegistrationInv ---------------------------
(***************************************************************************)
(* The inductive strengthening of the safety properties of a wait for the  *)
(* battery's supply.  The loop's own timing rests on nothing else; that a  *)
(* look finds the supply, that a request is answered once it is read, and  *)
(* that sysfs shows the reading, rest on what the kernel and the daemon    *)
(* make of each other's bytes.                                             *)
(***************************************************************************)
EXTENDS Registration

Written(asked_for) ==
  LET id == asked_for.identity IN
  create2(id.name, id.phys, id.uniq, id.vendor, id.product, descriptor(asked_for.kind))

(* Of each kind's descriptor the kernel's parser makes a field for the     *)
(* level, in a report with a one-digit ID, and one for the charging        *)
(* status, and finds in them what the daemon's report says.  No constant   *)
(* occurs in it: it holds of every instance or of none.                    *)
DescriptorsParsed ==
  \A kind \in Kinds :
    LET fields == Parsed(descriptor(kind)).fields IN
    /\ BatteryFields(fields) # {}
    /\ \A field \in BatteryFields(fields) : field.report \in 1 .. 9
    /\ \A percent \in 0 .. 100, charging \in BOOLEAN :
         LET data == Report(kind, [percent |-> percent, charging |-> charging]) IN
         /\ \A field \in BatteryFields(fields) : FieldValue(data, field) = percent
         /\ (FieldValue(data, FieldOf(fields, Charging)) = 1) = charging

------------------------------------------------------------------------------
(* The loop's timing.                                                      *)

(* serve_until returns before the call's deadline, and what the call is    *)
(* late by is all since the last wake-up.                                  *)
Overdue ==
  /\ deadline # 0 \/ ~Waiting => late = 0
  /\ pc = "serve" /\ deadline # None => until <= deadline
  /\ late <= lag

------------------------------------------------------------------------------
(* The supply and the look.                                                *)

(* A battery is one of those the daemon may ask for, and the kernel has    *)
(* what create wrote for it.                                               *)
CreatedFor(asked_for) ==
  /\ validate(asked_for.identity) /\ Written(asked_for) # None
  /\ battery = [uniq |-> asked_for.identity.uniq, kind |-> asked_for.kind,
                 percent |-> clamped(asked_for.percent), charging |-> asked_for.charging,
                 repush |-> battery.repush]
  /\ battery.repush \in BOOLEAN
  /\ identity = asked_for.identity
  /\ device = KernelReads(Written(asked_for))
  /\ parsed = Parsed(device.descriptor)

BatteryKnown ==
  /\ battery # None => \E asked_for \in Devices : CreatedFor(asked_for)
  /\ battery = None => stage = "none" /\ device = None /\ asked = None /\ ours = None
  /\ Waiting => battery # None
  /\ stage # "ready" => ours = None
  /\ battery = None => shown = Nothing

OursNamed ==
  ours # None =>
    \E numbered \in BOOLEAN, report_no \in 1 .. 9 :
      ours = SupplyName(battery.uniq, numbered, report_no)

(* How long the supply has been there, by how far the call has got.        *)
Unfound ==
  /\ ours = None => age = 0
  /\ ~Waiting => age = 0
  /\ pc = "clock" => age <= lag
  /\ age + until <= REGISTRATION_POLL + MaxLag + (IF until = 0 THEN lag ELSE 0)

(* Whom the kernel waits on has yet to read the request.                   *)
AskedQueued ==
  /\ inbox \in Seq(Sent)
  /\ asked # None => asked \in Requests /\ \E i \in DOMAIN inbox : inbox[i] = asked

(* What sysfs shows is the reading, or nothing yet.                        *)
ShownKnown ==
  battery # None =>
    shown \in [percent : {None, battery.percent}, charging : {None, battery.charging}]

(* What has its type whatever the rest does.                               *)
Shapes ==
  /\ Len(inbox) <= Queue
  /\ identity \in Identities \cup {None}
  /\ stage \in {"none", "created", "probing", "ready"}

Unanswered ==
  /\ asked = None \/ ~Waiting => waited = 0
  /\ pc \in {"look", "clock"} => waited <= lag
  /\ waited <= MaxLag + lag

==============================================================================
