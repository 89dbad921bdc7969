------------------------------ MODULE Descriptor ------------------------------
(***************************************************************************)
(* The report descriptors (descriptor.rs), byte for byte, the walk over    *)
(* their items, and what the kernel makes of them: hid-core's parser, the  *)
(* rules by which hid-input builds a battery or not, and the reading of a  *)
(* report.  The rules are those the comments of descriptor.rs state.       *)
(***************************************************************************)
EXTENDS Naturals, Sequences, SequencesExt, FiniteSetsExt

(* The items, as the prefix they have with one byte of data.  They hold    *)
(* until set again, save the usages, which the next main item uses up.     *)
UsagePage == 5
Usage == 9
UsageMinimum == 25
UsageMaximum == 41
LogicalMinimum == 21
LogicalMaximum == 37
ReportSize == 117
ReportCount == 149
ReportID == 133
InputItem == 129
Collection == 161
EndCollection == 192  \* has no data

TwoBytes(prefix) == prefix + 1

BATTERY_FIELDS ==
  << UsagePage, 6, Usage, 32, LogicalMinimum, 0, TwoBytes(LogicalMaximum), 100, 0,
     ReportSize, 8, ReportCount, 1, InputItem, 2,
     UsagePage, 133, Usage, 68, LogicalMaximum, 1, ReportSize, 1, InputItem, 2 >>

MOUSE ==
  << UsagePage, 1, Usage, 2, Collection, 1, ReportID, 1, Usage, 1, Collection, 0,
     UsagePage, 9, UsageMinimum, 1, UsageMaximum, 3,
     LogicalMinimum, 0, LogicalMaximum, 1, ReportSize, 1, ReportCount, 3, InputItem, 2,
     ReportSize, 5, ReportCount, 1, InputItem, 3,
     UsagePage, 1, Usage, 48, Usage, 49, LogicalMinimum, 129, LogicalMaximum, 127,
     ReportSize, 8, ReportCount, 2, InputItem, 6, EndCollection, ReportID, 2 >>
  \o BATTERY_FIELDS \o <<ReportSize, 7, InputItem, 3, EndCollection>>

BugIgnoredPage ==
  << UsagePage, 12, Usage, 1, Collection, 1, ReportID, 1 >>
  \o BATTERY_FIELDS
  \o << TwoBytes(UsagePage), 0, 255, Usage, 2, InputItem, 2,
        ReportSize, 6, InputItem, 3, EndCollection >>

GENERIC ==
  << UsagePage, 12, Usage, 1, Collection, 1, ReportID, 1 >>
  \o BATTERY_FIELDS
  \o << TwoBytes(UsagePage), 33, 255, Usage, 2, InputItem, 2,
        ReportSize, 6, InputItem, 3, EndCollection >>

descriptor(kind) == IF kind = "Mouse" THEN MOUSE ELSE GENERIC

report_id(kind) == IF kind = "Mouse" THEN 2 ELSE 1

Report(kind, reading) ==
  <<report_id(kind), reading.percent, IF reading.charging THEN 1 ELSE 0>>

------------------------------------------------------------------------------
(* The walk.                                                               *)

DataLen(prefix) == IF prefix % 4 = 3 THEN 4 ELSE prefix % 4

(* Each item as its prefix for one byte of data, and its value.            *)
Items(bytes) ==
  LET len(at) == DataLen(bytes[at])
      item(at) ==
        [prefix |-> (bytes[at] - (bytes[at] % 4)) + (IF bytes[at] = EndCollection THEN 0 ELSE 1),
         value |-> MapThenSumSet(LAMBDA i : bytes[at + i] * 256 ^ (i - 1), 1 .. len(at))]
      from[at \in Nat] ==
        IF at > Len(bytes) THEN <<>> ELSE <<item(at)>> \o from[at + 1 + len(at)]
  IN  from[1]

Bytes(bits) == (bits + 7) \div 8

input_report_len(bytes, wanted) ==
  LET step(walk, item) ==
        CASE item.prefix = ReportSize -> [walk EXCEPT !.size = item.value]
          [] item.prefix = ReportCount -> [walk EXCEPT !.count = item.value]
          [] item.prefix = ReportID -> [walk EXCEPT !.id = item.value]
          [] item.prefix = InputItem /\ walk.id = wanted ->
               [walk EXCEPT !.bits = @ + walk.size * walk.count]
          [] OTHER -> walk
      end == FoldLeft(step, [size |-> 0, count |-> 0, id |-> 0, bits |-> 0], Items(bytes))
  IN  Bytes(end.bits) + 1

------------------------------------------------------------------------------
(* The kernel's parser.                                                    *)

Parser ==
  [page |-> 0, max |-> 0, size |-> 0, count |-> 0, report |-> 0,
   usages |-> <<>>, from |-> 0, collections |-> <<>>,
   at |-> [report \in 0 .. 15 |-> 0], fields |-> {}]

UsageOf(s, k) == <<s.page, s.usages[IF k < Len(s.usages) THEN k + 1 ELSE Len(s.usages)]>>

(* The fields of an input item, the last usage standing for those missing. *)
NewFields(s, constant) ==
  IF s.usages = <<>> THEN {}
  ELSE {[report |-> s.report, usage |-> UsageOf(s, k), size |-> s.size, max |-> s.max,
         at |-> s.at[s.report] + k * s.size, constant |-> constant,
         application |-> s.collections[1]] : k \in 0 .. s.count - 1}

ParseItem(s, item) ==
  LET main == [s EXCEPT !.usages = <<>>]
      value == item.value
  IN
  CASE item.prefix = UsagePage -> [s EXCEPT !.page = value]
    [] item.prefix = LogicalMaximum -> [s EXCEPT !.max = value]
    [] item.prefix = ReportSize -> [s EXCEPT !.size = value]
    [] item.prefix = ReportCount -> [s EXCEPT !.count = value]
    [] item.prefix = ReportID -> [s EXCEPT !.report = value]
    [] item.prefix = Usage -> [s EXCEPT !.usages = Append(@, value)]
    [] item.prefix = UsageMinimum -> [s EXCEPT !.from = value]
    [] item.prefix = UsageMaximum ->
         [s EXCEPT !.usages = @ \o [i \in 1 .. value - s.from + 1 |-> s.from + i - 1]]
    [] item.prefix = Collection ->
         [main EXCEPT !.collections = Append(@, <<s.page, s.usages[1]>>)]
    [] item.prefix = EndCollection -> [main EXCEPT !.collections = Front(@)]
    [] item.prefix = InputItem ->
         [main EXCEPT !.fields = @ \cup NewFields(s, value % 2 = 1),
                      !.at[s.report] = @ + s.size * s.count]
    [] OTHER -> s

Parsed(bytes) == FoldLeft(ParseItem, Parser, Items(bytes))

Strength == <<6, 32>>
Charging == <<133, 68>>

(* Generic desktop, consumer control, digitizer.                           *)
IsInputApplication(usage) == usage[1] \in {1, 13} \/ usage = <<12, 1>>

IgnoredPages == {65280, 65281, 65289, 65329, 65347, 65407, 65440, 65468, 65489}

(* What becomes an event of the input node: a button, an axis, or an       *)
(* unknown one-bit usage.                                                  *)
Mapped(field) ==
  /\ ~field.constant
  /\ \/ field.usage[1] = 9
     \/ field.usage \in {<<1, 48>>, <<1, 49>>}
     \/ field.usage[1] >= 65280 /\ field.usage[1] \notin IgnoredPages /\ field.size = 1

BatteryFields(fields) ==
  {f \in fields : f.usage = Strength /\ IsInputApplication(f.application)}

(* hid-input registers a power supply, and keeps the device.               *)
BuildsBattery(fields) ==
  /\ BatteryFields(fields) # {}
  /\ \E f \in fields : Mapped(f) /\ IsInputApplication(f.application)

(* A field's value in a report, whose first byte is its ID; bytes that are *)
(* missing read as zero.                                                   *)
FieldValue(report, field) ==
  LET bits == MapThenSumSet(LAMBDA i : report[i] * 256 ^ (i - 2), 2 .. Len(report))
  IN  (bits \div 2 ^ field.at) % 2 ^ field.size

FieldOf(fields, usage) == CHOOSE f \in fields : f.usage = usage

==============================================================================
