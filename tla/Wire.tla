--------------------------------- MODULE Wire ---------------------------------
(***************************************************************************)
(* The /dev/uhid wire format (event.rs): one struct uhid_event, a buffer   *)
(* of bytes, written and read at offsets the source spells out.  Next to   *)
(* it, the kernel's own idea of the layout, which the source cannot share: *)
(* the packed structures of linux/uhid.h, whose offsets are the sums of    *)
(* the sizes before them.  Strings are sequences of bytes.                 *)
(***************************************************************************)
EXTENDS Naturals, Sequences, SequencesExt, FiniteSetsExt

CONSTANTS
  LEN_NAME, LEN_PHYS, LEN_UNIQ,  \* sizes of the string fields
  RD_DATA_MAX, DATA_MAX,         \* sizes of the data fields
  None                           \* stands for Rust's None, and for Err

ASSUME WireAssumption ==
  /\ {LEN_NAME, LEN_PHYS, LEN_UNIQ} \subseteq Nat \ {0}
  /\ RD_DATA_MAX \in Nat /\ RD_DATA_MAX < 65536 /\ DATA_MAX \in 0 .. RD_DATA_MAX
  /\ None \notin Nat \cup Seq(Nat)

BUS_VIRTUAL == 6
UHID_DESTROY == 1
UHID_START == 2
UHID_GET_REPORT == 9
UHID_GET_REPORT_REPLY == 10
UHID_CREATE2 == 11
UHID_INPUT2 == 12
UHID_SET_REPORT == 13
UHID_SET_REPORT_REPLY == 14
RTYPE_INPUT == 2
EIO == 5

OFF_TYPE == 0
OFF_CREATE_NAME == 4
OFF_CREATE_PHYS == OFF_CREATE_NAME + LEN_NAME
OFF_CREATE_UNIQ == OFF_CREATE_PHYS + LEN_PHYS
OFF_CREATE_RD_SIZE == OFF_CREATE_UNIQ + LEN_UNIQ
OFF_CREATE_BUS == OFF_CREATE_RD_SIZE + 2
OFF_CREATE_VENDOR == OFF_CREATE_BUS + 2
OFF_CREATE_PRODUCT == OFF_CREATE_VENDOR + 4
OFF_CREATE_RD_DATA == OFF_CREATE_PRODUCT + 4 + 4 + 4
EVENT_SIZE == OFF_CREATE_RD_DATA + RD_DATA_MAX
OFF_INPUT_SIZE == 4
OFF_INPUT_DATA == 6
OFF_REQUEST_ID == 4
OFF_REQUEST_RNUM == 8
OFF_REQUEST_RTYPE == 9
OFF_REPLY_ERR == 8
OFF_GET_REPLY_SIZE == 10
BugSizeIsFourBytes == OFF_GET_REPLY_SIZE + 4
OFF_GET_REPLY_DATA == 12

------------------------------------------------------------------------------
(* Bytes.                                                                  *)

put(buf, offset, bytes) ==
  [o \in DOMAIN buf |->
     IF o \in offset .. offset + Len(bytes) - 1 THEN bytes[o - offset + 1] ELSE buf[o]]

(* Integers, in the order of a little-endian machine.                      *)
IsU32(value) == value \in Nat /\ value \div 16777216 <= 255

put_u16(buf, offset, value) ==
  put(buf, offset, <<value % 256, (value \div 256) % 256>>)

put_u32(buf, offset, value) ==
  put(buf, offset, <<value % 256, (value \div 256) % 256,
                     (value \div 65536) % 256, (value \div 16777216) % 256>>)

get_u16(buf, offset) == buf[offset] + 256 * buf[offset + 1]

get_u32(buf, offset) == get_u16(buf, offset) + 65536 * get_u16(buf, offset + 2)

slice(buf, offset, size) == [i \in 1 .. size |-> buf[offset + i - 1]]

blank(kind) == put_u32([o \in 0 .. EVENT_SIZE - 1 |-> 0], OFF_TYPE, kind)

is_char_boundary(value, end) ==
  end = Len(value) \/ value[end + 1] \notin 128 .. 191

BugCutAnywhere(value, field) ==
  IF Len(value) < field THEN Len(value) ELSE field - 1

(* How much of a string fits, the NUL after it included, cut back to the   *)
(* end of a character.                                                     *)
fitting(value, field) ==
  LET room == IF Len(value) < field THEN Len(value) ELSE field - 1
  IN  Max({end \in 0 .. room : end = 0 \/ is_char_boundary(value, end)})

put_str(buf, offset, field, value) ==
  put(buf, offset, SubSeq(value, 1, fitting(value, field)))

(* Up to the NUL, or the whole field.                                      *)
get_str(bytes) ==
  LET nuls == {i \in DOMAIN bytes : bytes[i] = 0}
  IN  IF nuls = {} THEN bytes ELSE SubSeq(bytes, 1, Min(nuls) - 1)

------------------------------------------------------------------------------
(* What the daemon writes.                                                 *)

create2(name, phys, uniq, vendor, product, descriptor) ==
  LET named == put_str(blank(UHID_CREATE2), OFF_CREATE_NAME, LEN_NAME, name)
      placed == put_str(named, OFF_CREATE_PHYS, LEN_PHYS, phys)
      unique == put_str(placed, OFF_CREATE_UNIQ, LEN_UNIQ, uniq)
      sized == put_u16(unique, OFF_CREATE_RD_SIZE, Len(descriptor))
      bused == put_u16(sized, OFF_CREATE_BUS, BUS_VIRTUAL)
      vended == put_u32(bused, OFF_CREATE_VENDOR, vendor)
      produced == put_u32(vended, OFF_CREATE_PRODUCT, product)
  IN  IF Len(descriptor) <= RD_DATA_MAX
      THEN put(produced, OFF_CREATE_RD_DATA, descriptor)
      ELSE None

destroy == blank(UHID_DESTROY)

payload_len(data) == IF Len(data) <= DATA_MAX THEN Len(data) ELSE None

(* A payload after its size, or None if it is too long.                    *)
put_payload(buf, offset_size, offset_data, data) ==
  IF payload_len(data) = None THEN None
  ELSE put(put_u16(buf, offset_size, payload_len(data)), offset_data, data)

input2(report) ==
  put_payload(blank(UHID_INPUT2), OFF_INPUT_SIZE, OFF_INPUT_DATA, report)

get_report_reply(id, report) ==
  LET event == put_u32(blank(UHID_GET_REPORT_REPLY), OFF_REQUEST_ID, id) IN
  IF report = None
  THEN put_u16(event, OFF_REPLY_ERR, EIO)
  ELSE put_payload(event, OFF_GET_REPLY_SIZE, OFF_GET_REPLY_DATA, report)

set_report_reply(id) ==
  put_u16(put_u32(blank(UHID_SET_REPORT_REPLY), OFF_REQUEST_ID, id), OFF_REPLY_ERR, EIO)

------------------------------------------------------------------------------
(* What the daemon reads.                                                  *)

(* The fields of a request are read of every event, and used of requests.  *)
decode(buf) ==
  LET kind == get_u32(buf, OFF_TYPE) IN
  [type |-> CASE kind = UHID_START -> "Start"
              [] kind = UHID_GET_REPORT -> "GetReport"
              [] kind = UHID_SET_REPORT -> "SetReport"
              [] OTHER -> "Ignored",
   id |-> get_u32(buf, OFF_REQUEST_ID),
   rnum |-> buf[OFF_REQUEST_RNUM],
   rtype |-> buf[OFF_REQUEST_RTYPE]]

------------------------------------------------------------------------------
(* The stand-in for the kernel, at the daemon's own offsets.               *)

AtMostData(size) == IF size < DATA_MAX THEN size ELSE DATA_MAX

decode_sent(buf) ==
  LET kind == get_u32(buf, OFF_TYPE)
      payload(offset_size, offset_data) ==
        slice(buf, offset_data, AtMostData(get_u16(buf, offset_size)))
      str(offset, size) == get_str(slice(buf, offset, size))
  IN
  CASE kind = UHID_CREATE2 ->
         [type |-> "Create2",
          name |-> str(OFF_CREATE_NAME, LEN_NAME),
          phys |-> str(OFF_CREATE_PHYS, LEN_PHYS),
          uniq |-> str(OFF_CREATE_UNIQ, LEN_UNIQ),
          bus |-> get_u16(buf, OFF_CREATE_BUS),
          vendor |-> get_u32(buf, OFF_CREATE_VENDOR),
          product |-> get_u32(buf, OFF_CREATE_PRODUCT),
          descriptor |-> payload(OFF_CREATE_RD_SIZE, OFF_CREATE_RD_DATA)]
    [] kind = UHID_INPUT2 ->
         [type |-> "Input2", data |-> payload(OFF_INPUT_SIZE, OFF_INPUT_DATA)]
    [] kind = UHID_GET_REPORT_REPLY ->
         [type |-> "GetReportReply",
          id |-> get_u32(buf, OFF_REQUEST_ID),
          err |-> get_u16(buf, OFF_REPLY_ERR),
          data |-> payload(OFF_GET_REPLY_SIZE, OFF_GET_REPLY_DATA)]
    [] kind = UHID_SET_REPORT_REPLY ->
         [type |-> "SetReportReply",
          id |-> get_u32(buf, OFF_REQUEST_ID),
          err |-> get_u16(buf, OFF_REPLY_ERR)]
    [] kind = UHID_DESTROY -> [type |-> "Destroy"]
    [] OTHER -> [type |-> "Other"]

request(kind, id, rnum, rtype) ==
  put(put_u32(blank(kind), OFF_REQUEST_ID, id), OFF_REQUEST_RNUM, <<rnum, rtype>>)

------------------------------------------------------------------------------
(* The kernel's layout, from linux/uhid.h: the members of the union behind *)
(* the type, packed, each field behind the one before.                     *)

Behind(field, size) == [at |-> field.at + field.size, size |-> size]

type == [at |-> 0, size |-> 4]

uhid_create2_req ==
  LET name == Behind(type, LEN_NAME)
      phys == Behind(name, LEN_PHYS)
      uniq == Behind(phys, LEN_UNIQ)
      rd_size == Behind(uniq, 2)
      bus == Behind(rd_size, 2)
      vendor == Behind(bus, 4)
      product == Behind(vendor, 4)
      version == Behind(product, 4)
      country == Behind(version, 4)
  IN  [name |-> name, phys |-> phys, uniq |-> uniq, rd_size |-> rd_size, bus |-> bus,
       vendor |-> vendor, product |-> product, rd_data |-> Behind(country, RD_DATA_MAX)]

uhid_input2_req ==
  LET size == Behind(type, 2) IN [size |-> size, data |-> Behind(size, DATA_MAX)]

(* A request of either kind.                                               *)
uhid_report_req ==
  LET id == Behind(type, 4)
      rnum == Behind(id, 1)
  IN  [id |-> id, rnum |-> rnum, rtype |-> Behind(rnum, 1)]

(* And a reply of either kind, of which SET_REPORT's has no data.          *)
uhid_report_reply_req ==
  LET id == Behind(type, 4)
      err == Behind(id, 2)
      size == Behind(err, 2)
  IN  [id |-> id, err |-> err, size |-> size, data |-> Behind(size, DATA_MAX)]

Num(buf, field) ==
  IF field.size = 2 THEN get_u16(buf, field.at) ELSE get_u32(buf, field.at)

Str(buf, field) == get_str(slice(buf, field.at, field.size))

Data(buf, size, field) ==
  slice(buf, field.at, IF Num(buf, size) < field.size THEN Num(buf, size) ELSE field.size)

KernelReads(buf) ==
  LET kind == Num(buf, type)
      create == uhid_create2_req
      input == uhid_input2_req
      reply == uhid_report_reply_req
  IN
  CASE kind = UHID_CREATE2 ->
         [type |-> "Create2",
          name |-> Str(buf, create.name), phys |-> Str(buf, create.phys),
          uniq |-> Str(buf, create.uniq), bus |-> Num(buf, create.bus),
          vendor |-> Num(buf, create.vendor), product |-> Num(buf, create.product),
          descriptor |-> Data(buf, create.rd_size, create.rd_data)]
    [] kind = UHID_INPUT2 ->
         [type |-> "Input2", data |-> Data(buf, input.size, input.data)]
    [] kind = UHID_GET_REPORT_REPLY ->
         [type |-> "GetReportReply", id |-> Num(buf, reply.id), err |-> Num(buf, reply.err),
          data |-> Data(buf, reply.size, reply.data)]
    [] kind = UHID_SET_REPORT_REPLY ->
         [type |-> "SetReportReply", id |-> Num(buf, reply.id), err |-> Num(buf, reply.err)]
    [] kind = UHID_DESTROY -> [type |-> "Destroy"]
    [] OTHER -> [type |-> "Other"]

KernelWrites(event) ==
  LET req == uhid_report_req
      asked_for == put_u32(blank(event.kind), req.id.at, event.id)
  IN  put(put(asked_for, req.rnum.at, <<event.rnum>>), req.rtype.at, <<event.rtype>>)

==============================================================================
