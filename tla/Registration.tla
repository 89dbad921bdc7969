---------------------------- MODULE Registration ----------------------------
(***************************************************************************)
(* From an Identity to a power supply in sysfs: Battery::create, the bytes *)
(* it writes and what the kernel reads in them, the probe that builds a    *)
(* battery from the descriptor or does not, the questions on the way, and  *)
(* wait_for_power_supply, which answers them while it looks.  The delays   *)
(* of the re-push, updates, and writes that fail are Battery's: here a     *)
(* re-push is due at any time, and an error comes between two events.      *)
(***************************************************************************)
EXTENDS WaitSupply, Descriptor

CONSTANTS
  Devices,  \* what the daemon may ask for: [identity, kind, reading]
  Ids,      \* the ids of requests
  Queue     \* bound on the events nobody has read

Kinds == {"Mouse", "Generic", "Headset"}

Batteries ==
  [uniq : Strings, kind : Kinds, percent : 0 .. 100, charging : BOOLEAN, repush : BOOLEAN]

(* What the kernel may have read of a device, and what it sends.           *)
Described ==
  [type : {"Create2"}, name : Strings, phys : Strings, uniq : Strings, bus : {BUS_VIRTUAL},
   vendor : U16, product : U16, descriptor : Seq(Nat)]

UHID_OPEN == 4

Plain(kind) == [kind |-> kind, id |-> 0, rnum |-> 0, rtype |-> 0]

Requests ==
  [kind : {UHID_GET_REPORT, UHID_SET_REPORT}, id : Ids, rnum : 1 .. 9, rtype : {RTYPE_INPUT}]

Sent == Requests \cup {Plain(UHID_START), Plain(UHID_OPEN)}

ASSUME RegistrationAssumption ==
  /\ \A id \in Ids : IsU32(id)
  /\ IsFiniteSet(Ids)
  /\ Queue \in Nat /\ Cardinality(Ids) > Queue
  /\ DATA_MAX >= 3
  /\ Devices \subseteq
       [identity : Identities, kind : Kinds, percent : 0 .. 255, charging : BOOLEAN]
  /\ None \notin Batteries \cup Described

VARIABLES
  identity,  \* the last one given to create
  device,    \* what the kernel read in UHID_CREATE2, or None
  parsed,    \* what its parser made of the descriptor
  stage,     \* of the device: "none", "created", "probing", "ready"
  shown      \* what sysfs shows of the supply

rest == <<identity, device, parsed, stage, shown>>
vars == <<pc, call, ghosts, world, rest>>

Nothing == [percent |-> None, charging |-> None]

(* Every variable has its type.                                            *)
TypeOK ==
  /\ LoopTypeOK
  /\ battery \in Batteries \cup {None}
  /\ ours \in Seq(Nat) \cup {None}
  /\ inbox \in Seq(Sent) /\ Len(inbox) <= Queue
  /\ asked \in Requests \cup {None}
  /\ identity \in Identities \cup {None}
  /\ device \in Described \cup {None}
  /\ stage \in {"none", "created", "probing", "ready"}
  /\ shown \in [percent : 0 .. 100 \cup {None}, charging : BOOLEAN \cup {None}]

Init ==
  /\ LoopInit
  /\ battery = None /\ ours = None /\ inbox = <<>> /\ asked = None
  /\ identity = None /\ device = None /\ parsed = None
  /\ stage = "none" /\ shown = Nothing

------------------------------------------------------------------------------
(* The code.                                                               *)

clamped(percent) == IF percent > 100 THEN 100 ELSE percent

report == Report(battery.kind, battery)

Strengths == BatteryFields(parsed.fields)

StrengthField == CHOOSE f \in Strengths : TRUE

(* The kernel takes a report once it has probed the device.                *)
TakeInput(event) ==
  shown' = IF stage # "ready" THEN shown
           ELSE LET data == KernelReads(event).data IN
             [percent |-> FieldValue(data, StrengthField),
              charging |-> FieldValue(data, FieldOf(parsed.fields, Charging)) = 1]

(* The first push finds no device yet.                                     *)
Create(asked_for) ==
  /\ pc = "caller"
  /\ battery = None
  /\ identity' = asked_for.identity
  /\ LET event == create2(identity'.name, identity'.phys, identity'.uniq, identity'.vendor,
                          identity'.product, descriptor(asked_for.kind))
     IN  IF validate(identity') /\ event # None
         THEN /\ battery' = [uniq |-> identity'.uniq, kind |-> asked_for.kind,
                             percent |-> clamped(asked_for.percent),
                             charging |-> asked_for.charging, repush |-> FALSE]
              /\ device' = KernelReads(event)
              /\ parsed' = Parsed(device'.descriptor)
              /\ stage' = "created"
         ELSE UNCHANGED <<battery, device, parsed, stage>>
  /\ UNCHANGED <<pc, call, ghosts, ours, inbox, asked, shown>>

(* The device is gone, and the queue drained, or what a signal or an error *)
(* left of it.                                                             *)
Destroy ==
  /\ pc = "caller"
  /\ battery # None
  /\ \E read \in 0 .. Len(inbox) : inbox' = SubSeq(inbox, read + 1, Len(inbox))
  /\ battery' = None /\ ours' = None /\ asked' = None
  /\ identity' = None /\ device' = None /\ parsed' = None
  /\ stage' = "none" /\ shown' = Nothing
  /\ UNCHANGED <<pc, call, ghosts>>

Incoming == decode(KernelWrites(Head(inbox)))

ReadStart ==
  /\ Reading /\ Incoming.type = "Start"
  /\ battery' = [battery EXCEPT !.repush = TRUE]
  /\ UNCHANGED <<ours, asked, rest>>
  /\ Took

ReadIgnored ==
  /\ Reading /\ Incoming.type = "Ignored"
  /\ UNCHANGED <<battery, ours, asked, rest>>
  /\ Took

(* A reply reaches whoever waits for it, and nobody else: of a report, the *)
(* kernel uses the byte behind its ID.                                     *)
TakeReply(event) ==
  LET reply == KernelReads(event)
      wanted == asked # None /\ asked.id = reply.id
      level == wanted /\ reply.type = "GetReportReply" /\ reply.err = 0 /\ Len(reply.data) > 1
  IN  /\ asked' = IF wanted THEN None ELSE asked
      /\ shown' = IF level THEN [shown EXCEPT !.percent = reply.data[2]] ELSE shown

Answer(event) ==
  /\ TakeReply(event)
  /\ Took
  /\ UNCHANGED <<battery, ours, identity, device, parsed, stage>>

BugAnswersOnlyItsOwn ==
  /\ Reading /\ Incoming.type = "GetReport"
  /\ IF Incoming.rnum = report_id(battery.kind) /\ Incoming.rtype = RTYPE_INPUT
     THEN Answer(get_report_reply(Incoming.id, report))
     ELSE /\ UNCHANGED <<battery, ours, asked, rest>>
          /\ Took

ReadGetReport ==
  /\ Reading /\ Incoming.type = "GetReport"
  /\ LET mine == Incoming.rnum = report_id(battery.kind) /\ Incoming.rtype = RTYPE_INPUT
     IN  Answer(get_report_reply(Incoming.id, IF mine THEN report ELSE None))

ReadSetReport ==
  /\ Reading /\ Incoming.type = "SetReport"
  /\ Answer(set_report_reply(Incoming.id))

PushIfDue ==
  /\ Servicing
  /\ inbox = <<>>
  /\ battery.repush
  /\ battery' = [battery EXCEPT !.repush = FALSE]
  /\ TakeInput(input2(report))
  /\ UNCHANGED <<pc, call, ghosts, ours, inbox, asked, identity, device, parsed, stage>>

------------------------------------------------------------------------------
(* The kernel.                                                             *)

Send(event) ==
  /\ Len(inbox) < Queue
  /\ inbox' = Append(inbox, event)
  /\ UNCHANGED <<pc, call, ghosts, battery, ours, identity, device, parsed, shown>>

StartProbe ==
  /\ stage = "created"
  /\ Send(Plain(UHID_START))
  /\ stage' = "probing"
  /\ UNCHANGED asked

Notify ==
  /\ stage # "none"
  /\ inbox = <<>>
  /\ Send(Plain(UHID_OPEN))
  /\ UNCHANGED <<stage, asked>>

Pending == {inbox[i].id : i \in DOMAIN inbox}

(* One request at a time, under an id that no unread one has.              *)
Ask(kind, rnum) ==
  /\ stage \in {"probing", "ready"}
  /\ asked = None
  /\ LET event == [kind |-> kind, id |-> CHOOSE id \in Ids : id \notin Pending,
                   rnum |-> rnum, rtype |-> RTYPE_INPUT]
     IN  Send(event) /\ asked' = event
  /\ UNCHANGED stage

AskLevel ==
  /\ device # None
  /\ \E field \in Strengths : Ask(UHID_GET_REPORT, field.report)

(* Through hidraw: a report the battery does not have, or one to set.      *)
AskOther ==
  /\ inbox = <<>>
  /\ Ask(UHID_GET_REPORT, 3) \/ Ask(UHID_SET_REPORT, 1)

(* After five seconds, which the call leaves nobody waiting for.           *)
GiveUp ==
  /\ pc = "caller"
  /\ asked # None
  /\ asked' = None
  /\ UNCHANGED <<pc, call, ghosts, battery, ours, inbox, rest>>

(* hid-input builds the battery, once its questions are answered; not      *)
(* every kernel numbers it.                                                *)
Register(numbered) ==
  /\ stage = "probing"
  /\ asked = None
  /\ stage' = "ready"
  /\ ours' = IF BuildsBattery(parsed.fields)
             THEN SupplyName(device.uniq, numbered, StrengthField.report)
             ELSE None
  /\ UNCHANGED <<pc, call, ghosts, battery, inbox, asked, identity, device, parsed, shown>>

Loop ==
  /\ Service \/ Look \/ ReadClock \/ ServeReturns \/ ServeInterrupted \/ ServeFails
  /\ UNCHANGED rest

Read == ReadStart \/ ReadIgnored \/ ReadGetReport \/ ReadSetReport

Next ==
  \/ \E asked_for \in Devices : Create(asked_for)
  \/ (\E timeout \in Timeouts : Wait(timeout)) /\ UNCHANGED rest
  \/ Loop \/ Read \/ PushIfDue \/ Destroy
  \/ StartProbe \/ Notify \/ AskLevel \/ AskOther \/ GiveUp
  \/ \E numbered \in BOOLEAN : Register(numbered)
  \/ Tick /\ UNCHANGED rest

Spec == Init /\ [][Next]_vars

(* What every Read step does to the queue.                                 *)
Takes == Reading /\ inbox' = Tail(inbox)

(* Time passes and the loop goes on, however often the kernel asks, and    *)
(* signals do not interrupt every read.                                    *)
FairSpec ==
  /\ Spec
  /\ SF_vars(Tick /\ UNCHANGED rest)
  /\ SF_vars(Loop)
  /\ SF_inbox(Takes)

------------------------------------------------------------------------------

Created == device = None /\ device' # None

(* The kernel has the strings whole, the IDs, the bus and the descriptor   *)
(* where it looks for them: an identity it would cut short is refused      *)
(* (identity.rs:86-89).                                                    *)
KernelSeesIdentity ==
  device # None =>
    device = [type |-> "Create2", name |-> identity.name, phys |-> identity.phys,
              uniq |-> identity.uniq, bus |-> BUS_VIRTUAL, vendor |-> identity.vendor,
              product |-> identity.product, descriptor |-> descriptor(battery.kind)]

(* A string too long for its field would be cut at the end of a character, *)
(* as late as leaves room for the NUL (event.rs:185-187).                  *)
CutAtACharacter ==
  [][identity' # identity /\ identity' # None =>
       \A cut \in { <<identity'.name, LEN_NAME>>, <<identity'.phys, LEN_PHYS>> } :
         LET whole == {end \in 0 .. Len(cut[1]) :
                         end < cut[2] /\ WholeChars(SubSeq(cut[1], 1, end))}
         IN  fitting(cut[1], cut[2]) = Max(whole)]_vars

(* hid-input makes a supply of every descriptor, with the level just       *)
(* behind the report's ID, where the kernel looks for it when it asks, and *)
(* out of a hundred (descriptor.rs:3-17).  A battery's report has the size *)
(* its descriptor declares, by the walk and by the kernel's parser, and    *)
(* reports nothing else: no button is pressed, no pointer moved, no        *)
(* padding set (descriptor.rs:28, 146).                                    *)
RegistersBattery ==
  [][Created =>
       LET sent == KernelReads(input2(report')).data
           size == Bytes(parsed'.at[sent[1]]) + 1
       IN  /\ BuildsBattery(parsed'.fields)
           /\ \A field \in BatteryFields(parsed'.fields) : field.at = 0 /\ field.max = 100
           /\ Len(sent) = size
           /\ input_report_len(device'.descriptor, sent[1]) = size
           /\ \A field \in parsed'.fields :
                field.report = sent[1] /\ field.usage \notin {Strength, Charging} =>
                  FieldValue(sent, field) = 0]_vars

(* What sysfs shows is the battery's reading, whether it was pushed or     *)
(* asked for, through the bytes of both and the descriptor's fields.       *)
LevelIsReading ==
  battery # None =>
    /\ shown.percent \in {None, battery.percent}
    /\ shown.charging \in {None, battery.charging}

(* The stand-in the unit tests talk to reads what the kernel would read,   *)
(* and writes what the kernel would: it shares its offsets with the code   *)
(* it tests, so a wrong one passes every test (event.rs:216).              *)
FakeIsFaithful ==
  [][Created =>
       LET asks == Ids \X {UHID_GET_REPORT, UHID_SET_REPORT}
           written ==
             {create2(identity'.name, identity'.phys, identity'.uniq, identity'.vendor,
                      identity'.product, device'.descriptor),
              input2(report'), destroy}
             \cup {get_report_reply(id, report') : id \in Ids}
             \cup {get_report_reply(id, None) : id \in Ids}
             \cup {set_report_reply(id) : id \in Ids}
       IN  /\ \A event \in written : decode_sent(event) = KernelReads(event)
           /\ \A ask \in asks :
                request(ask[2], ask[1], 1, RTYPE_INPUT)
                = KernelWrites([kind |-> ask[2], id |-> ask[1],
                                rnum |-> 1, rtype |-> RTYPE_INPUT])]_vars

(* Left to itself the kernel gets through its probe and registers the      *)
(* supply, and then a wait without a timeout ends - because it answers     *)
(* what the probe asks (battery.rs:358-360).                               *)
WaitEnds ==
  /\ WF_stage(stage = "created" /\ Len(inbox) < Queue /\ stage' = "probing")
  /\ SF_stage(stage = "probing" /\ asked = None /\ stage' = "ready")
  => (Waiting ~> ~Waiting)

==============================================================================
