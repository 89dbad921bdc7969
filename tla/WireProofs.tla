------------------------------ MODULE WireProofs ------------------------------
(***************************************************************************)
(* That the kernel reads in an event what the daemon wrote there, and the  *)
(* daemon what the kernel wrote, for every size of the fields: the offsets *)
(* event.rs spells out are those of the packed structures of linux/uhid.h. *)
(* And that the stand-in of the unit tests does what the kernel does.  An  *)
(* event is followed cell by cell: what each write puts, and what it       *)
(* leaves of the writes before it.                                         *)
(***************************************************************************)
EXTENDS Wire, SequenceTheorems, TLAPS

(* The bytes of an event.                                                  *)
Cells == 0 .. EVENT_SIZE - 1

(* A field with a string in it, and zeros behind the string.               *)
HoldsText(buf, offset, field, text) ==
  \A i \in 1 .. field : buf[offset + i - 1] = IF i <= Len(text) THEN text[i] ELSE 0

Empty(buf, offset, field) == \A i \in 1 .. field : buf[offset + i - 1] = 0

(* And with data in it.                                                    *)
HoldsData(buf, offset, data) == \A i \in 1 .. Len(data) : buf[offset + i - 1] = data[i]

(* The bytes of integers.                                                  *)
Bytes16(value) == <<value % 256, (value \div 256) % 256>>

Bytes32(value) ==
  <<value % 256, (value \div 256) % 256, (value \div 65536) % 256, (value \div 16777216) % 256>>

(* The cells before the field and from the next one on are left alone.     *)
SameAround(new, old, offset, next) ==
  /\ DOMAIN new = Cells
  /\ \A o \in Cells : o < offset \/ o >= next => new[o] = old[o]

(* What the arithmetic over offsets rests on.                              *)
LEMMA Sizes ==
  /\ LEN_NAME \in Nat \ {0} /\ LEN_PHYS \in Nat \ {0} /\ LEN_UNIQ \in Nat \ {0}
  /\ RD_DATA_MAX \in Nat /\ RD_DATA_MAX < 65536
  /\ DATA_MAX \in Nat /\ DATA_MAX <= RD_DATA_MAX
  /\ EVENT_SIZE = 24 + LEN_NAME + LEN_PHYS + LEN_UNIQ + RD_DATA_MAX
  /\ OFF_CREATE_NAME = 4 /\ OFF_CREATE_PHYS = 4 + LEN_NAME
  /\ OFF_CREATE_UNIQ = 4 + LEN_NAME + LEN_PHYS
  /\ OFF_CREATE_RD_SIZE = 4 + LEN_NAME + LEN_PHYS + LEN_UNIQ
  /\ OFF_CREATE_BUS = 6 + LEN_NAME + LEN_PHYS + LEN_UNIQ
  /\ OFF_CREATE_VENDOR = 8 + LEN_NAME + LEN_PHYS + LEN_UNIQ
  /\ OFF_CREATE_PRODUCT = 12 + LEN_NAME + LEN_PHYS + LEN_UNIQ
  /\ OFF_CREATE_RD_DATA = 24 + LEN_NAME + LEN_PHYS + LEN_UNIQ
<1>1. LEN_NAME \in Nat \ {0} /\ LEN_PHYS \in Nat \ {0} /\ LEN_UNIQ \in Nat \ {0}
  BY WireAssumption
<1>2. /\ RD_DATA_MAX \in Nat /\ RD_DATA_MAX < 65536
      /\ DATA_MAX \in Nat /\ DATA_MAX <= RD_DATA_MAX
  BY WireAssumption
<1> QED
  BY <1>1, <1>2
     DEF EVENT_SIZE, OFF_CREATE_NAME, OFF_CREATE_PHYS, OFF_CREATE_UNIQ, OFF_CREATE_RD_SIZE,
         OFF_CREATE_BUS, OFF_CREATE_VENDOR, OFF_CREATE_PRODUCT, OFF_CREATE_RD_DATA

(* The kernel's sums of sizes are the same numbers.                        *)
LEMMA CreateLayout ==
  LET req == uhid_create2_req IN
  /\ req.name.at = OFF_CREATE_NAME /\ req.name.size = LEN_NAME
  /\ req.phys.at = OFF_CREATE_PHYS /\ req.phys.size = LEN_PHYS
  /\ req.uniq.at = OFF_CREATE_UNIQ /\ req.uniq.size = LEN_UNIQ
  /\ req.rd_size.at = OFF_CREATE_RD_SIZE /\ req.rd_size.size = 2
  /\ req.bus.at = OFF_CREATE_BUS /\ req.bus.size = 2
  /\ req.vendor.at = OFF_CREATE_VENDOR /\ req.vendor.size = 4
  /\ req.product.at = OFF_CREATE_PRODUCT /\ req.product.size = 4
  /\ req.rd_data.at = OFF_CREATE_RD_DATA /\ req.rd_data.size = RD_DATA_MAX
<1>1. PICK name : name = Behind(type, LEN_NAME)
  OBVIOUS
<1>2. PICK phys : phys = Behind(name, LEN_PHYS)
  OBVIOUS
<1>3. PICK uniq : uniq = Behind(phys, LEN_UNIQ)
  OBVIOUS
<1>4. PICK rd_size : rd_size = Behind(uniq, 2)
  OBVIOUS
<1>5. PICK bus : bus = Behind(rd_size, 2)
  OBVIOUS
<1>6. PICK vendor : vendor = Behind(bus, 4)
  OBVIOUS
<1>7. PICK product : product = Behind(vendor, 4)
  OBVIOUS
<1>8. PICK rd_data : rd_data = Behind(Behind(Behind(product, 4), 4), RD_DATA_MAX)
  OBVIOUS
<1>9. uhid_create2_req =
        [name |-> name, phys |-> phys, uniq |-> uniq, rd_size |-> rd_size, bus |-> bus,
         vendor |-> vendor, product |-> product, rd_data |-> rd_data]
  BY <1>1, <1>2, <1>3, <1>4, <1>5, <1>6, <1>7, <1>8 DEF uhid_create2_req
<1>10. /\ name.at = 4 /\ name.size = LEN_NAME
       /\ phys.at = 4 + LEN_NAME /\ phys.size = LEN_PHYS
       /\ uniq.at = (4 + LEN_NAME) + LEN_PHYS /\ uniq.size = LEN_UNIQ
  BY <1>1, <1>2, <1>3 DEF Behind, type
<1>11. /\ rd_size.at = uniq.at + LEN_UNIQ /\ rd_size.size = 2
       /\ bus.at = rd_size.at + 2 /\ bus.size = 2
       /\ vendor.at = bus.at + 2 /\ vendor.size = 4
       /\ product.at = vendor.at + 4 /\ product.size = 4
       /\ rd_data.at = ((product.at + 4) + 4) + 4 /\ rd_data.size = RD_DATA_MAX
  BY <1>4, <1>5, <1>6, <1>7, <1>8, <1>10 DEF Behind
<1> QED
  BY <1>9, <1>10, <1>11, Sizes

(* And so are those of the other events.                                   *)
LEMMA OtherLayouts ==
  /\ type = [at |-> OFF_TYPE, size |-> 4]
  /\ uhid_input2_req = [size |-> [at |-> OFF_INPUT_SIZE, size |-> 2],
                        data |-> [at |-> OFF_INPUT_DATA, size |-> DATA_MAX]]
  /\ uhid_report_req = [id |-> [at |-> OFF_REQUEST_ID, size |-> 4],
                        rnum |-> [at |-> OFF_REQUEST_RNUM, size |-> 1],
                        rtype |-> [at |-> OFF_REQUEST_RTYPE, size |-> 1]]
  /\ uhid_report_reply_req = [id |-> [at |-> OFF_REQUEST_ID, size |-> 4],
                              err |-> [at |-> OFF_REPLY_ERR, size |-> 2],
                              size |-> [at |-> OFF_GET_REPLY_SIZE, size |-> 2],
                              data |-> [at |-> OFF_GET_REPLY_DATA, size |-> DATA_MAX]]
BY DEF type, Behind, uhid_input2_req, uhid_report_req, uhid_report_reply_req,
       OFF_TYPE, OFF_INPUT_SIZE, OFF_INPUT_DATA, OFF_REQUEST_ID, OFF_REQUEST_RNUM,
       OFF_REQUEST_RTYPE, OFF_REPLY_ERR, OFF_GET_REPLY_SIZE, OFF_GET_REPLY_DATA

------------------------------------------------------------------------------
(* Reading back.                                                           *)

(* What a byte is after bytes were put somewhere.                          *)
LEMMA PutCell ==
  ASSUME NEW buf, DOMAIN buf = Cells, NEW offset, NEW bytes
  PROVE  /\ DOMAIN put(buf, offset, bytes) = Cells
         /\ \A o \in Cells :
              put(buf, offset, bytes)[o] = IF o \in offset .. offset + Len(bytes) - 1
                                           THEN bytes[o - offset + 1] ELSE buf[o]
BY DEF put

(* Two cells.                                                              *)
LEMMA TwoCells ==
  ASSUME NEW buf, NEW offset \in Nat, NEW a, NEW b
  PROVE  HoldsData(buf, offset, <<a, b>>) <=> buf[offset] = a /\ buf[offset + 1] = b
<1>1. PICK bytes : bytes = <<a, b>>
  OBVIOUS
<1>2. Len(bytes) = 2 /\ bytes[1] = a /\ bytes[2] = b
  BY <1>1
<1>3. offset + 1 - 1 = offset /\ offset + 2 - 1 = offset + 1
  OBVIOUS
<1>4. HoldsData(buf, offset, bytes) <=> \A i \in {1, 2} : buf[offset + i - 1] = bytes[i]
  BY <1>2 DEF HoldsData
<1> QED
  BY <1>1, <1>2, <1>3, <1>4

(* Four cells.                                                             *)
LEMMA FourCells ==
  ASSUME NEW buf, NEW offset \in Nat, NEW a, NEW b, NEW c, NEW d
  PROVE  HoldsData(buf, offset, <<a, b, c, d>>) <=>
           /\ buf[offset] = a /\ buf[offset + 1] = b
           /\ buf[offset + 2] = c /\ buf[offset + 3] = d
<1>1. PICK bytes : bytes = <<a, b, c, d>>
  OBVIOUS
<1>2. Len(bytes) = 4 /\ bytes[1] = a /\ bytes[2] = b /\ bytes[3] = c /\ bytes[4] = d
  BY <1>1
<1>3. /\ offset + 1 - 1 = offset /\ offset + 2 - 1 = offset + 1
      /\ offset + 3 - 1 = offset + 2 /\ offset + 4 - 1 = offset + 3
  OBVIOUS
<1>4. HoldsData(buf, offset, bytes) <=> \A i \in {1, 2, 3, 4} : buf[offset + i - 1] = bytes[i]
  BY <1>2 DEF HoldsData
<1> QED
  BY <1>1, <1>2, <1>3, <1>4

(* The bytes of an integer are of that integer.                            *)
LEMMA U16Bytes ==
  ASSUME NEW buf, NEW offset \in Nat, NEW value \in Nat, value < 65536,
         HoldsData(buf, offset, Bytes16(value))
  PROVE  get_u16(buf, offset) = value
<1>1. value % 65536 = (value % 256) + 256 * ((value \div 256) % 256)
  OBVIOUS
<1>2. value % 65536 = value
  OBVIOUS
<1>3. buf[offset] = value % 256 /\ buf[offset + 1] = (value \div 256) % 256
  BY TwoCells DEF Bytes16
<1> QED
  BY <1>1, <1>2, <1>3 DEF get_u16

(* Four little-endian bytes read back as the integer they were made of.    *)
LEMMA U32Bytes ==
  ASSUME NEW buf, NEW offset \in Nat, NEW value, IsU32(value),
         HoldsData(buf, offset, Bytes32(value))
  PROVE  get_u32(buf, offset) = value
<1> USE DEF IsU32
<1>0. /\ buf[offset] = value % 256 /\ buf[offset + 1] = (value \div 256) % 256
      /\ buf[offset + 2] = (value \div 65536) % 256
      /\ buf[offset + 3] = (value \div 16777216) % 256
  BY FourCells DEF Bytes32
<1>1. get_u16(buf, offset) = value % 65536
  <2>1. value % 65536 = (value % 256) + 256 * ((value \div 256) % 256)
    OBVIOUS
  <2> QED
    BY <1>0, <2>1 DEF get_u16
<1>2. get_u16(buf, offset + 2) = value \div 65536
  <2>1. (offset + 2) + 1 = offset + 3
    OBVIOUS
  <2>2. get_u16(buf, offset + 2) = ((value \div 65536) % 256) + 256 * ((value \div 16777216) % 256)
    BY <1>0, <2>1 DEF get_u16
  <2>3. (value \div 65536) \div 256 = value \div 16777216
    OBVIOUS
  <2>4. (value \div 16777216) % 256 = value \div 16777216
    OBVIOUS
  <2>5. \A w \in Nat : (w % 256) + 256 * (w \div 256) = w
    OBVIOUS
  <2>6. value \div 65536 \in Nat
    OBVIOUS
  <2> QED
    BY <2>2, <2>3, <2>4, <2>5, <2>6
<1>3. (value % 65536) + 65536 * (value \div 65536) = value
  OBVIOUS
<1> QED
  BY <1>1, <1>2, <1>3 DEF get_u32

(* A string with a NUL behind it.                                          *)
LEMMA StrBytes ==
  ASSUME NEW buf, NEW offset, NEW field \in Nat, NEW text \in Seq(Nat),
         Len(text) < field, 0 \notin ToSet(text), HoldsText(buf, offset, field, text)
  PROVE  get_str(slice(buf, offset, field)) = text
<1>1. PICK bytes : bytes = slice(buf, offset, field)
  OBVIOUS
<1>2. PICK nuls : nuls = {i \in DOMAIN bytes : bytes[i] = 0}
  OBVIOUS
<1>3. PICK size \in Nat : size = Len(text)
  OBVIOUS
<1>4. size < field /\ \A i \in 1 .. size : text[i] # 0 /\ text[i] \in Nat
  <2>1. DOMAIN text = 1 .. size
    BY <1>3
  <2>2. ASSUME NEW i \in 1 .. size PROVE text[i] # 0 /\ text[i] \in Nat
    <3>1. text[i] \in Nat
      BY <2>1
    <3>2. text[i] \in ToSet(text)
      BY <2>1 DEF ToSet
    <3> QED
      BY <3>1, <3>2
  <2> QED
    BY <1>3, <2>2
<1>5. /\ DOMAIN bytes = 1 .. field
      /\ \A i \in 1 .. field : bytes[i] = IF i <= size THEN text[i] ELSE 0
  BY <1>1, <1>3 DEF slice, HoldsText
<1>6. \A i : i \in nuls <=> i \in size + 1 .. field
  <2>1. ASSUME NEW i \in 1 .. field PROVE bytes[i] = 0 <=> i > size
    <3>1. CASE i <= size
      <4>1. i \in 1 .. size
        BY <3>1
      <4> QED
        BY <1>4, <1>5, <3>1, <4>1
    <3>2. CASE i > size
      BY <1>5, <3>2
    <3> QED
      BY <3>1, <3>2
  <2> QED
    BY <1>2, <1>4, <1>5, <2>1
<1>7. nuls # {} /\ Min(nuls) = size + 1
  <2>1. size + 1 \in nuls /\ \A i \in nuls : size + 1 <= i /\ i \in Nat
    <3>1. size + 1 \in size + 1 .. field
      BY <1>4
    <3>2. size + 1 \in nuls
      BY <1>6, <3>1
    <3>3. ASSUME NEW i \in nuls PROVE size + 1 <= i /\ i \in Nat
      <4>1. i \in size + 1 .. field
        BY <1>6
      <4> QED
        BY <4>1
    <3> QED
      BY <3>2, <3>3
  <2>2. \A x \in nuls : (\A y \in nuls : x <= y) => x = size + 1
    BY <2>1
  <2> QED
    BY <2>1, <2>2 DEF Min
<1>8. SubSeq(bytes, 1, size) = text
  <2>1. \A i \in 1 .. size : bytes[i] = text[i] /\ bytes[i] \in Nat
    BY <1>4, <1>5
  <2>2. /\ SubSeq(bytes, 1, size) \in Seq(Nat)
        /\ Len(SubSeq(bytes, 1, size)) = size
        /\ \A i \in 1 .. size : SubSeq(bytes, 1, size)[i] = bytes[i]
    BY <2>1, SubSeqProperties
  <2> QED
    BY <1>3, <2>1, <2>2, SeqEqual
<1>9. get_str(bytes) = IF nuls = {} THEN bytes ELSE SubSeq(bytes, 1, Min(nuls) - 1)
  BY <1>2 DEF get_str
<1>10. size + 1 - 1 = size
  OBVIOUS
<1> QED
  BY <1>1, <1>7, <1>8, <1>9, <1>10

(* Data of a given size.                                                   *)
LEMMA DataBytes ==
  ASSUME NEW buf, NEW offset, NEW data \in Seq(Nat), HoldsData(buf, offset, data)
  PROVE  slice(buf, offset, Len(data)) = data
BY DEF slice, HoldsData

(* A string that fits is written whole.                                    *)
LEMMA FittingWhole ==
  ASSUME NEW text \in Seq(Nat), NEW field \in Nat, Len(text) < field
  PROVE  SubSeq(text, 1, fitting(text, field)) = text
<1> DEFINE ends == {end \in 0 .. Len(text) : end = 0 \/ is_char_boundary(text, end)}
<1>1. fitting(text, field) = Max(ends)
  BY DEF fitting
<1>2. Len(text) \in ends /\ \A end \in ends : Len(text) >= end /\ end \in Nat
  BY DEF is_char_boundary
<1>3. Max(ends) = Len(text)
  <2> HIDE DEF ends
  <2> QED
    BY <1>2 DEF Max
<1> QED
  BY <1>1, <1>3

------------------------------------------------------------------------------
(* Putting.                                                                *)

(* Data takes as many cells as it has bytes.                               *)
LEMMA PutDataCells ==
  ASSUME NEW buf, DOMAIN buf = Cells, NEW offset \in Nat, NEW data \in Seq(Nat),
         offset + Len(data) <= EVENT_SIZE
  PROVE  /\ HoldsData(put(buf, offset, data), offset, data)
         /\ SameAround(put(buf, offset, data), buf, offset, offset + Len(data))
<1>1. PICK new : new = put(buf, offset, data)
  OBVIOUS
<1>2. PICK size \in Nat : size = Len(data)
  OBVIOUS
<1>3. /\ DOMAIN new = Cells
      /\ \A o \in Cells : new[o] = IF o \in offset .. offset + size - 1
                                  THEN data[o - offset + 1] ELSE buf[o]
  BY SMTT(20), <1>1, <1>2, PutCell
<1>4. ASSUME NEW i \in 1 .. size PROVE new[offset + i - 1] = data[i]
  <2>1. /\ offset + i - 1 \in Cells /\ offset + i - 1 \in offset .. offset + size - 1
        /\ (offset + i - 1) - offset + 1 = i
    BY <1>2, Sizes DEF Cells
  <2> QED
    BY <1>3, <2>1
<1>5. \A o \in Cells : o < offset \/ o >= offset + size => new[o] = buf[o]
  BY <1>3 DEF Cells
<1> QED
  BY <1>1, <1>2, <1>3, <1>4, <1>5 DEF HoldsData, SameAround

(* A string that fits leaves the rest of its field zero.                   *)
LEMMA PutStrCells ==
  ASSUME NEW buf, DOMAIN buf = Cells, NEW offset \in Nat, NEW field \in Nat,
         NEW text \in Seq(Nat), Len(text) < field, offset + field <= EVENT_SIZE,
         Empty(buf, offset, field)
  PROVE  /\ HoldsText(put_str(buf, offset, field, text), offset, field, text)
         /\ SameAround(put_str(buf, offset, field, text), buf, offset, offset + field)
<1>1. PICK new : new = put_str(buf, offset, field, text)
  OBVIOUS
<1>2. new = put(buf, offset, text)
  BY <1>1, FittingWhole DEF put_str
<1>3. PICK size \in Nat : size = Len(text)
  OBVIOUS
<1>4. offset + Len(text) <= EVENT_SIZE
  BY Sizes
<1>5. /\ DOMAIN new = Cells
      /\ \A i \in 1 .. size : new[offset + i - 1] = text[i]
      /\ \A o \in Cells : o < offset \/ o >= offset + size => new[o] = buf[o]
  <2>1. HoldsData(new, offset, text) /\ SameAround(new, buf, offset, offset + Len(text))
    BY <1>2, <1>4, PutDataCells
  <2> QED
    BY <1>3, <2>1 DEF HoldsData, SameAround
<1>6. ASSUME NEW i \in 1 .. field, ~(i <= size) PROVE new[offset + i - 1] = 0
  <2>1. offset + i - 1 \in Cells /\ offset + i - 1 >= offset + size
    BY <1>6, Sizes DEF Cells
  <2> QED
    BY <1>5, <2>1 DEF Empty
<1>7. ASSUME NEW i \in 1 .. field
      PROVE  new[offset + i - 1] = IF i <= size THEN text[i] ELSE 0
  <2>1. CASE i <= size
    <3>1. i \in 1 .. size
      BY <2>1
    <3> QED
      BY <1>5, <2>1, <3>1
  <2>2. CASE ~(i <= size)
    BY <1>6, <2>2
  <2> QED
    BY <2>1, <2>2
<1>8. \A o \in Cells : o < offset \/ o >= offset + field => new[o] = buf[o]
  <2>1. size < field
    BY <1>3
  <2> QED
    BY <1>5, <2>1 DEF Cells
<1> QED
  BY <1>1, <1>3, <1>5, <1>7, <1>8 DEF HoldsText, SameAround

------------------------------------------------------------------------------
(* UHID_CREATE2.                                                           *)

(* Where each field of a descriptor ends is where the next begins.         *)
LEMMA CreateOffsets ==
  /\ OFF_CREATE_NAME = 4 /\ OFF_CREATE_NAME \in Nat
  /\ OFF_CREATE_PHYS = OFF_CREATE_NAME + LEN_NAME /\ OFF_CREATE_PHYS \in Nat
  /\ OFF_CREATE_UNIQ = OFF_CREATE_PHYS + LEN_PHYS /\ OFF_CREATE_UNIQ \in Nat
  /\ OFF_CREATE_RD_SIZE = OFF_CREATE_UNIQ + LEN_UNIQ /\ OFF_CREATE_RD_SIZE \in Nat
  /\ OFF_CREATE_BUS = OFF_CREATE_RD_SIZE + 2 /\ OFF_CREATE_BUS \in Nat
  /\ OFF_CREATE_VENDOR = OFF_CREATE_BUS + 2 /\ OFF_CREATE_VENDOR \in Nat
  /\ OFF_CREATE_PRODUCT = OFF_CREATE_VENDOR + 4 /\ OFF_CREATE_PRODUCT \in Nat
  /\ OFF_CREATE_RD_DATA = OFF_CREATE_PRODUCT + 12 /\ OFF_CREATE_RD_DATA \in Nat
  /\ EVENT_SIZE = OFF_CREATE_RD_DATA + RD_DATA_MAX /\ EVENT_SIZE \in Nat
  /\ LEN_NAME \in Nat /\ LEN_PHYS \in Nat /\ LEN_UNIQ \in Nat /\ RD_DATA_MAX \in Nat
BY Sizes

(* Cells a put leaves alone stay as they were.                             *)
LEMMA StillText ==
  ASSUME NEW new, NEW old, NEW offset \in Nat, NEW next \in Nat,
         SameAround(new, old, offset, next),
         NEW at \in Nat, NEW field \in Nat, NEW text, HoldsText(old, at, field, text),
         at + field <= offset \/ at >= next, at + field <= EVENT_SIZE
  PROVE  HoldsText(new, at, field, text)
<1> SUFFICES ASSUME NEW i \in 1 .. field PROVE new[at + i - 1] = old[at + i - 1]
  BY DEF HoldsText
<1>1. /\ at + i - 1 \in Cells
      /\ at + i - 1 < offset \/ at + i - 1 >= next
  BY Sizes DEF Cells
<1> QED
  BY <1>1 DEF SameAround

(* Nor does it fill a field that is still empty.                           *)
LEMMA StillEmpty ==
  ASSUME NEW new, NEW old, NEW offset \in Nat, NEW next \in Nat,
         SameAround(new, old, offset, next),
         NEW at \in Nat, NEW field \in Nat, Empty(old, at, field),
         at + field <= offset \/ at >= next, at + field <= EVENT_SIZE
  PROVE  Empty(new, at, field)
<1> SUFFICES ASSUME NEW i \in 1 .. field PROVE new[at + i - 1] = old[at + i - 1]
  BY DEF Empty
<1>1. /\ at + i - 1 \in Cells
      /\ at + i - 1 < offset \/ at + i - 1 >= next
  BY Sizes DEF Cells
<1> QED
  BY <1>1 DEF SameAround

(* Nor does it change data.                                                *)
LEMMA StillData ==
  ASSUME NEW new, NEW old, NEW offset \in Nat, NEW next \in Nat,
         SameAround(new, old, offset, next),
         NEW at \in Nat, NEW data, Len(data) \in Nat, HoldsData(old, at, data),
         at + Len(data) <= offset \/ at >= next, at + Len(data) <= EVENT_SIZE
  PROVE  HoldsData(new, at, data)
<1> SUFFICES ASSUME NEW i \in 1 .. Len(data) PROVE new[at + i - 1] = old[at + i - 1]
  BY DEF HoldsData
<1>1. /\ at + i - 1 \in Cells
      /\ at + i - 1 < offset \/ at + i - 1 >= next
  BY Sizes DEF Cells
<1> QED
  BY <1>1 DEF SameAround

(* Integers are data.                                                      *)
LEMMA BytesFacts ==
  ASSUME NEW value \in Nat
  PROVE  /\ Bytes16(value) \in Seq(Nat) /\ Len(Bytes16(value)) = 2
         /\ Bytes32(value) \in Seq(Nat) /\ Len(Bytes32(value)) = 4
<1>1. /\ value % 256 \in Nat /\ (value \div 256) % 256 \in Nat
      /\ (value \div 65536) % 256 \in Nat /\ (value \div 16777216) % 256 \in Nat
  OBVIOUS
<1>2. \A a, b, c, d \in Nat : /\ <<a, b>> \in Seq(Nat) /\ Len(<<a, b>>) = 2
                             /\ <<a, b, c, d>> \in Seq(Nat) /\ Len(<<a, b, c, d>>) = 4
  OBVIOUS
<1> QED
  BY <1>1, <1>2 DEF Bytes16, Bytes32

(* An integer of two bytes is put where it belongs, and nowhere else.      *)
LEMMA PutU16Cells ==
  ASSUME NEW buf, DOMAIN buf = Cells, NEW offset \in Nat, offset + 2 <= EVENT_SIZE,
         NEW value \in Nat
  PROVE  /\ HoldsData(put_u16(buf, offset, value), offset, Bytes16(value))
         /\ SameAround(put_u16(buf, offset, value), buf, offset, offset + 2)
<1>1. put_u16(buf, offset, value) = put(buf, offset, Bytes16(value))
  BY DEF put_u16, Bytes16
<1> QED
  BY <1>1, BytesFacts, PutDataCells

(* And one of four.                                                        *)
LEMMA PutU32Cells ==
  ASSUME NEW buf, DOMAIN buf = Cells, NEW offset \in Nat, offset + 4 <= EVENT_SIZE,
         NEW value \in Nat
  PROVE  /\ HoldsData(put_u32(buf, offset, value), offset, Bytes32(value))
         /\ SameAround(put_u32(buf, offset, value), buf, offset, offset + 4)
<1>1. put_u32(buf, offset, value) = put(buf, offset, Bytes32(value))
  BY DEF put_u32, Bytes32
<1> QED
  BY <1>1, BytesFacts, PutDataCells

(* A blank event has its type, and zeros behind it.                        *)
LEMMA BlankCells ==
  ASSUME NEW kind \in Nat
  PROVE  /\ DOMAIN blank(kind) = Cells
         /\ HoldsData(blank(kind), OFF_TYPE, Bytes32(kind))
         /\ \A offset \in Nat, field \in Nat :
              offset >= 4 /\ offset + field <= EVENT_SIZE => Empty(blank(kind), offset, field)
<1>1. PICK zeros : zeros = [o \in 0 .. EVENT_SIZE - 1 |-> 0]
  OBVIOUS
<1>2. DOMAIN zeros = Cells /\ \A o \in Cells : zeros[o] = 0
  BY <1>1 DEF Cells
<1>3. blank(kind) = put_u32(zeros, OFF_TYPE, kind)
  BY <1>1 DEF blank
<1>4. OFF_TYPE \in Nat /\ OFF_TYPE + 4 <= EVENT_SIZE /\ OFF_TYPE + 4 = 4
  BY Sizes DEF OFF_TYPE
<1>5. /\ HoldsData(blank(kind), OFF_TYPE, Bytes32(kind))
      /\ SameAround(blank(kind), zeros, OFF_TYPE, 4)
  BY <1>2, <1>3, <1>4, PutU32Cells
<1>6. ASSUME NEW offset \in Nat, NEW field \in Nat, offset >= 4, offset + field <= EVENT_SIZE
      PROVE  Empty(blank(kind), offset, field)
  <2>1. Empty(zeros, offset, field)
    <3> SUFFICES ASSUME NEW i \in 1 .. field PROVE zeros[offset + i - 1] = 0
      BY DEF Empty
    <3>1. offset + i - 1 \in Cells
      BY <1>6, Sizes DEF Cells
    <3> QED
      BY <1>2, <3>1
  <2> QED
    BY <1>4, <1>5, <1>6, <2>1, StillEmpty
<1> QED
  BY <1>5, <1>6 DEF SameAround

------------------------------------------------------------------------------
(* UHID_CREATE2.                                                           *)

(* What the event has in its fields.                                       *)
Describes(buf, name, phys, uniq, vendor, product, descriptor) ==
  /\ HoldsData(buf, OFF_TYPE, Bytes32(UHID_CREATE2))
  /\ HoldsText(buf, OFF_CREATE_NAME, LEN_NAME, name)
  /\ HoldsText(buf, OFF_CREATE_PHYS, LEN_PHYS, phys)
  /\ HoldsText(buf, OFF_CREATE_UNIQ, LEN_UNIQ, uniq)
  /\ HoldsData(buf, OFF_CREATE_RD_SIZE, Bytes16(Len(descriptor)))
  /\ HoldsData(buf, OFF_CREATE_BUS, Bytes16(BUS_VIRTUAL))
  /\ HoldsData(buf, OFF_CREATE_VENDOR, Bytes32(vendor))
  /\ HoldsData(buf, OFF_CREATE_PRODUCT, Bytes32(product))
  /\ HoldsData(buf, OFF_CREATE_RD_DATA, descriptor)

(* A put behind the type and the strings leaves them alone.                *)
LEMMA StillNamed ==
  ASSUME NEW new, NEW old, NEW offset \in Nat, NEW next \in Nat,
         SameAround(new, old, offset, next), OFF_CREATE_RD_SIZE <= offset,
         NEW name, NEW phys, NEW uniq,
         HoldsData(old, OFF_TYPE, Bytes32(UHID_CREATE2)),
         HoldsText(old, OFF_CREATE_NAME, LEN_NAME, name),
         HoldsText(old, OFF_CREATE_PHYS, LEN_PHYS, phys),
         HoldsText(old, OFF_CREATE_UNIQ, LEN_UNIQ, uniq)
  PROVE  /\ HoldsData(new, OFF_TYPE, Bytes32(UHID_CREATE2))
         /\ HoldsText(new, OFF_CREATE_NAME, LEN_NAME, name)
         /\ HoldsText(new, OFF_CREATE_PHYS, LEN_PHYS, phys)
         /\ HoldsText(new, OFF_CREATE_UNIQ, LEN_UNIQ, uniq)
<1>1. HoldsData(new, OFF_TYPE, Bytes32(UHID_CREATE2))
  <2>1. OFF_TYPE \in Nat /\ Len(Bytes32(UHID_CREATE2)) = 4
    BY BytesFacts DEF OFF_TYPE, UHID_CREATE2
  <2>2. /\ OFF_TYPE + Len(Bytes32(UHID_CREATE2)) <= offset
        /\ OFF_TYPE + Len(Bytes32(UHID_CREATE2)) <= EVENT_SIZE
    BY <2>1, Sizes DEF OFF_TYPE
  <2>3. Len(Bytes32(UHID_CREATE2)) \in Nat
    BY <2>1
  <2> QED
    BY <2>1, <2>2, <2>3, StillData
<1>2. HoldsText(new, OFF_CREATE_NAME, LEN_NAME, name)
  <2>1. /\ OFF_CREATE_NAME \in Nat /\ LEN_NAME \in Nat
        /\ OFF_CREATE_NAME + LEN_NAME <= offset /\ OFF_CREATE_NAME + LEN_NAME <= EVENT_SIZE
    BY Sizes
  <2> QED
    BY <2>1, StillText
<1>3. HoldsText(new, OFF_CREATE_PHYS, LEN_PHYS, phys)
  <2>1. /\ OFF_CREATE_PHYS \in Nat /\ LEN_PHYS \in Nat
        /\ OFF_CREATE_PHYS + LEN_PHYS <= offset /\ OFF_CREATE_PHYS + LEN_PHYS <= EVENT_SIZE
    BY Sizes
  <2> QED
    BY <2>1, StillText
<1>4. HoldsText(new, OFF_CREATE_UNIQ, LEN_UNIQ, uniq)
  <2>1. /\ OFF_CREATE_UNIQ \in Nat /\ LEN_UNIQ \in Nat
        /\ OFF_CREATE_UNIQ + LEN_UNIQ <= offset /\ OFF_CREATE_UNIQ + LEN_UNIQ <= EVENT_SIZE
    BY Sizes
  <2> QED
    BY <2>1, StillText
<1> QED
  BY <1>1, <1>2, <1>3, <1>4

(* The strings, put one after the other.                                   *)
LEMMA StringsPut ==
  ASSUME NEW name \in Seq(Nat), Len(name) < LEN_NAME,
         NEW phys \in Seq(Nat), Len(phys) < LEN_PHYS,
         NEW uniq \in Seq(Nat), Len(uniq) < LEN_UNIQ,
         NEW named, named = put_str(blank(UHID_CREATE2), OFF_CREATE_NAME, LEN_NAME, name),
         NEW placed, placed = put_str(named, OFF_CREATE_PHYS, LEN_PHYS, phys),
         NEW unique, unique = put_str(placed, OFF_CREATE_UNIQ, LEN_UNIQ, uniq)
  PROVE  /\ DOMAIN unique = Cells
         /\ HoldsData(unique, OFF_TYPE, Bytes32(UHID_CREATE2))
         /\ HoldsText(unique, OFF_CREATE_NAME, LEN_NAME, name)
         /\ HoldsText(unique, OFF_CREATE_PHYS, LEN_PHYS, phys)
         /\ HoldsText(unique, OFF_CREATE_UNIQ, LEN_UNIQ, uniq)
<1>1. PICK first : first = blank(UHID_CREATE2)
  OBVIOUS
<1>2. PICK at, place, id, next \in Nat :
        /\ at = OFF_CREATE_NAME /\ place = OFF_CREATE_PHYS /\ id = OFF_CREATE_UNIQ
        /\ next = OFF_CREATE_RD_SIZE
  BY Sizes
<1>3. /\ at \in Nat /\ place \in Nat /\ id \in Nat /\ next \in Nat
      /\ LEN_NAME \in Nat /\ LEN_PHYS \in Nat /\ LEN_UNIQ \in Nat
      /\ 4 <= at /\ at + LEN_NAME = place /\ place + LEN_PHYS = id /\ id + LEN_UNIQ = next
      /\ next <= EVENT_SIZE /\ EVENT_SIZE \in Nat
  BY <1>2, Sizes
<1>4. /\ 4 <= place /\ 4 <= id /\ place <= id /\ id <= next
      /\ place <= EVENT_SIZE /\ id <= EVENT_SIZE
  BY <1>3
<1>5. /\ UHID_CREATE2 \in Nat /\ OFF_TYPE \in Nat /\ Len(Bytes32(UHID_CREATE2)) \in Nat
      /\ OFF_TYPE + Len(Bytes32(UHID_CREATE2)) = 4
  BY BytesFacts DEF UHID_CREATE2, OFF_TYPE
<1>6. /\ DOMAIN first = Cells /\ HoldsData(first, OFF_TYPE, Bytes32(UHID_CREATE2))
      /\ Empty(first, at, LEN_NAME) /\ Empty(first, place, LEN_PHYS) /\ Empty(first, id, LEN_UNIQ)
  BY <1>1, <1>3, <1>4, <1>5, BlankCells
<1>7. HoldsText(named, at, LEN_NAME, name) /\ SameAround(named, first, at, place)
  BY <1>1, <1>2, <1>3, <1>4, <1>6, PutStrCells
<1>8. HoldsData(named, OFF_TYPE, Bytes32(UHID_CREATE2))
  <2>1. OFF_TYPE + Len(Bytes32(UHID_CREATE2)) <= at /\ OFF_TYPE + Len(Bytes32(UHID_CREATE2)) <= EVENT_SIZE
    BY <1>3, <1>5
  <2> QED
    BY <1>5, <1>6, <1>7, <2>1, StillData
<1>9. Empty(named, place, LEN_PHYS) /\ Empty(named, id, LEN_UNIQ)
  <2>1. /\ place >= place /\ place + LEN_PHYS <= EVENT_SIZE
        /\ id >= place /\ id + LEN_UNIQ <= EVENT_SIZE
    BY <1>3, <1>4
  <2>2. Empty(named, place, LEN_PHYS)
    BY <1>3, <1>6, <1>7, <2>1, StillEmpty
  <2>3. Empty(named, id, LEN_UNIQ)
    BY <1>3, <1>6, <1>7, <2>1, StillEmpty
  <2> QED
    BY <2>2, <2>3
<1>10. HoldsText(placed, place, LEN_PHYS, phys) /\ SameAround(placed, named, place, id)
  <2>1. DOMAIN named = Cells /\ place + LEN_PHYS <= EVENT_SIZE
    BY <1>3, <1>4, <1>7 DEF SameAround
  <2> QED
    BY <1>2, <1>3, <1>9, <2>1, PutStrCells
<1>11. HoldsData(placed, OFF_TYPE, Bytes32(UHID_CREATE2))
  <2>1. OFF_TYPE + Len(Bytes32(UHID_CREATE2)) <= place /\ OFF_TYPE + Len(Bytes32(UHID_CREATE2)) <= EVENT_SIZE
    BY <1>3, <1>4, <1>5
  <2> QED
    BY <1>3, <1>5, <1>8, <1>10, <2>1, StillData
<1>12. HoldsText(placed, at, LEN_NAME, name)
  <2>1. at + LEN_NAME <= place /\ at + LEN_NAME <= EVENT_SIZE
    BY <1>3, <1>4
  <2> QED
    BY <1>3, <1>7, <1>10, <2>1, StillText
<1>13. Empty(placed, id, LEN_UNIQ)
  <2>1. id >= id /\ id + LEN_UNIQ <= EVENT_SIZE
    BY <1>3, <1>4
  <2> QED
    BY <1>3, <1>9, <1>10, <2>1, StillEmpty
<1>14. HoldsText(unique, id, LEN_UNIQ, uniq) /\ SameAround(unique, placed, id, next)
  <2>1. DOMAIN placed = Cells /\ id + LEN_UNIQ <= EVENT_SIZE
    BY <1>3, <1>4, <1>10 DEF SameAround
  <2> QED
    BY <1>2, <1>3, <1>13, <2>1, PutStrCells
<1>15. HoldsData(unique, OFF_TYPE, Bytes32(UHID_CREATE2))
  <2>1. OFF_TYPE + Len(Bytes32(UHID_CREATE2)) <= id /\ OFF_TYPE + Len(Bytes32(UHID_CREATE2)) <= EVENT_SIZE
    BY <1>3, <1>4, <1>5
  <2> QED
    BY <1>3, <1>5, <1>11, <1>14, <2>1, StillData
<1>16. HoldsText(unique, at, LEN_NAME, name)
  <2>1. at + LEN_NAME <= id /\ at + LEN_NAME <= EVENT_SIZE
    BY <1>3, <1>4
  <2> QED
    BY <1>3, <1>12, <1>14, <2>1, StillText
<1>17. HoldsText(unique, place, LEN_PHYS, phys)
  <2>1. place + LEN_PHYS <= id /\ place + LEN_PHYS <= EVENT_SIZE
    BY <1>3, <1>4
  <2> QED
    BY <1>3, <1>10, <1>14, <2>1, StillText
<1> QED
  BY <1>2, <1>14, <1>15, <1>16, <1>17 DEF SameAround

(* And the rest behind them.                                               *)
LEMMA CreateHolds ==
  ASSUME NEW name \in Seq(Nat), Len(name) < LEN_NAME,
         NEW phys \in Seq(Nat), Len(phys) < LEN_PHYS,
         NEW uniq \in Seq(Nat), Len(uniq) < LEN_UNIQ,
         NEW vendor \in Nat, NEW product \in Nat,
         NEW descriptor \in Seq(Nat), Len(descriptor) <= RD_DATA_MAX
  PROVE  Describes(create2(name, phys, uniq, vendor, product, descriptor),
                   name, phys, uniq, vendor, product, descriptor)
<1>1. PICK named : named = put_str(blank(UHID_CREATE2), OFF_CREATE_NAME, LEN_NAME, name)
  OBVIOUS
<1>2. PICK placed : placed = put_str(named, OFF_CREATE_PHYS, LEN_PHYS, phys)
  OBVIOUS
<1>3. PICK unique : unique = put_str(placed, OFF_CREATE_UNIQ, LEN_UNIQ, uniq)
  OBVIOUS
<1>4. PICK size \in Nat : size = Len(descriptor)
  OBVIOUS
<1>5. PICK sized : sized = put_u16(unique, OFF_CREATE_RD_SIZE, size)
  OBVIOUS
<1>6. PICK bused : bused = put_u16(sized, OFF_CREATE_BUS, BUS_VIRTUAL)
  OBVIOUS
<1>7. PICK vended : vended = put_u32(bused, OFF_CREATE_VENDOR, vendor)
  OBVIOUS
<1>8. PICK produced : produced = put_u32(vended, OFF_CREATE_PRODUCT, product)
  OBVIOUS
<1>9. PICK event : event = put(produced, OFF_CREATE_RD_DATA, descriptor)
  OBVIOUS
<1>10. create2(name, phys, uniq, vendor, product, descriptor) = event
  BY <1>1, <1>2, <1>3, <1>4, <1>5, <1>6, <1>7, <1>8, <1>9 DEF create2
<1>11. PICK rd_size, bus, ven, pro, data \in Nat :
        /\ rd_size = OFF_CREATE_RD_SIZE /\ bus = OFF_CREATE_BUS /\ ven = OFF_CREATE_VENDOR
        /\ pro = OFF_CREATE_PRODUCT /\ data = OFF_CREATE_RD_DATA
  BY Sizes
<1>12. /\ rd_size + 2 = bus /\ bus + 2 = ven /\ ven + 4 = pro /\ pro + 12 = data
       /\ data + size <= EVENT_SIZE /\ EVENT_SIZE \in Nat
       /\ \A at \in {rd_size, bus, ven, pro, data} : OFF_CREATE_RD_SIZE <= at
  BY <1>4, <1>11, Sizes
<1>13. /\ BUS_VIRTUAL \in Nat
       /\ Len(Bytes16(size)) = 2 /\ Len(Bytes16(BUS_VIRTUAL)) = 2
       /\ Len(Bytes32(vendor)) = 4 /\ Len(Bytes32(product)) = 4
  BY BytesFacts DEF BUS_VIRTUAL
<1> DEFINE Strings(buf) ==
  /\ HoldsData(buf, OFF_TYPE, Bytes32(UHID_CREATE2))
  /\ HoldsText(buf, OFF_CREATE_NAME, LEN_NAME, name)
  /\ HoldsText(buf, OFF_CREATE_PHYS, LEN_PHYS, phys)
  /\ HoldsText(buf, OFF_CREATE_UNIQ, LEN_UNIQ, uniq)
<1>14. DOMAIN unique = Cells /\ Strings(unique)
  BY <1>1, <1>2, <1>3, StringsPut
<1>15. ASSUME NEW new, NEW old, NEW offset \in {rd_size, bus, ven, pro, data}, NEW next \in Nat,
              SameAround(new, old, offset, next), Strings(old)
       PROVE  Strings(new)
  <2>1. offset \in Nat /\ OFF_CREATE_RD_SIZE <= offset
    BY <1>11, <1>12
  <2> QED
    BY <1>15, <2>1, StillNamed
<1> HIDE DEF Strings
<1>16. HoldsData(sized, rd_size, Bytes16(size)) /\ SameAround(sized, unique, rd_size, bus)
  <2>1. DOMAIN unique = Cells /\ rd_size + 2 <= EVENT_SIZE /\ rd_size + 2 = bus
    BY <1>12, <1>14 DEF SameAround
  <2> QED
    BY <1>5, <1>11, <1>13, <2>1, PutU16Cells
<1>17. Strings(sized)
  <2>1. bus \in Nat
    BY <1>4, <1>11
  <2> QED
    BY <1>15, <1>16, <2>1, <1>14
<1>18. HoldsData(bused, bus, Bytes16(BUS_VIRTUAL)) /\ SameAround(bused, sized, bus, ven)
  <2>1. DOMAIN sized = Cells
    BY <1>16 DEF SameAround
  <2>2. bus + 2 <= EVENT_SIZE /\ bus + 2 = ven
    BY <1>12
  <2> QED
    BY <1>6, <1>11, <1>13, <2>1, <2>2, PutU16Cells
<1>19. Strings(bused)
  <2>1. ven \in Nat
    BY <1>4, <1>11
  <2> QED
    BY <1>15, <1>18, <2>1, <1>17
<1>20. /\ HoldsData(bused, rd_size, Bytes16(size))
  <2>1. /\ rd_size + Len(Bytes16(size)) <= bus /\ rd_size + Len(Bytes16(size)) <= EVENT_SIZE
        /\ Len(Bytes16(size)) \in Nat /\ ven \in Nat
    BY <1>4, <1>11, <1>12, <1>13
  <2>2. HoldsData(bused, rd_size, Bytes16(size))
    BY <1>11, <1>18, <1>16, <2>1, StillData
  <2> QED
    BY <2>2
<1>21. HoldsData(vended, ven, Bytes32(vendor)) /\ SameAround(vended, bused, ven, pro)
  <2>1. DOMAIN bused = Cells /\ ven + 4 <= EVENT_SIZE /\ ven + 4 = pro
    BY <1>12, <1>18 DEF SameAround
  <2> QED
    BY <1>7, <1>11, <1>13, <2>1, PutU32Cells
<1>22. Strings(vended)
  <2>1. pro \in Nat
    BY <1>4, <1>11
  <2> QED
    BY <1>15, <1>21, <2>1, <1>19
<1>23. /\ HoldsData(vended, rd_size, Bytes16(size))
       /\ HoldsData(vended, bus, Bytes16(BUS_VIRTUAL))
  <2>1. /\ rd_size + Len(Bytes16(size)) <= ven /\ rd_size + Len(Bytes16(size)) <= EVENT_SIZE
        /\ Len(Bytes16(size)) \in Nat /\ pro \in Nat
    BY <1>4, <1>11, <1>12, <1>13
  <2>2. HoldsData(vended, rd_size, Bytes16(size))
    BY <1>11, <1>21, <1>20, <2>1, StillData
  <2>3. /\ bus + Len(Bytes16(BUS_VIRTUAL)) <= ven /\ bus + Len(Bytes16(BUS_VIRTUAL)) <= EVENT_SIZE
        /\ Len(Bytes16(BUS_VIRTUAL)) \in Nat /\ pro \in Nat
    BY <1>4, <1>11, <1>12, <1>13
  <2>4. HoldsData(vended, bus, Bytes16(BUS_VIRTUAL))
    BY <1>11, <1>21, <1>18, <2>3, StillData
  <2> QED
    BY <2>2, <2>4
<1>24. HoldsData(produced, pro, Bytes32(product)) /\ SameAround(produced, vended, pro, pro + 4)
  <2>1. DOMAIN vended = Cells /\ pro + 4 <= EVENT_SIZE /\ pro + 4 = pro + 4
    BY <1>12, <1>21 DEF SameAround
  <2> QED
    BY <1>8, <1>11, <1>13, <2>1, PutU32Cells
<1>25. Strings(produced)
  <2>1. pro + 4 \in Nat
    BY <1>4, <1>11
  <2> QED
    BY <1>15, <1>24, <2>1, <1>22
<1>26. /\ HoldsData(produced, rd_size, Bytes16(size))
       /\ HoldsData(produced, bus, Bytes16(BUS_VIRTUAL))
       /\ HoldsData(produced, ven, Bytes32(vendor))
  <2>1. /\ rd_size + Len(Bytes16(size)) <= pro /\ rd_size + Len(Bytes16(size)) <= EVENT_SIZE
        /\ Len(Bytes16(size)) \in Nat /\ pro + 4 \in Nat
    BY <1>4, <1>11, <1>12, <1>13
  <2>2. HoldsData(produced, rd_size, Bytes16(size))
    BY <1>11, <1>24, <1>23, <2>1, StillData
  <2>3. /\ bus + Len(Bytes16(BUS_VIRTUAL)) <= pro /\ bus + Len(Bytes16(BUS_VIRTUAL)) <= EVENT_SIZE
        /\ Len(Bytes16(BUS_VIRTUAL)) \in Nat /\ pro + 4 \in Nat
    BY <1>4, <1>11, <1>12, <1>13
  <2>4. HoldsData(produced, bus, Bytes16(BUS_VIRTUAL))
    BY <1>11, <1>24, <1>23, <2>3, StillData
  <2>5. /\ ven + Len(Bytes32(vendor)) <= pro /\ ven + Len(Bytes32(vendor)) <= EVENT_SIZE
        /\ Len(Bytes32(vendor)) \in Nat /\ pro + 4 \in Nat
    BY <1>4, <1>11, <1>12, <1>13
  <2>6. HoldsData(produced, ven, Bytes32(vendor))
    BY <1>11, <1>24, <1>21, <2>5, StillData
  <2> QED
    BY <2>2, <2>4, <2>6
<1>27. HoldsData(event, data, descriptor) /\ SameAround(event, produced, data, data + size)
  <2>1. DOMAIN produced = Cells /\ data + Len(descriptor) <= EVENT_SIZE
    BY <1>4, <1>12, <1>24 DEF SameAround
  <2> QED
    BY <1>9, <1>4, <1>11, <2>1, PutDataCells
<1>28. Strings(event)
  <2>1. data + size \in Nat
    BY <1>4, <1>11
  <2> QED
    BY <1>15, <1>27, <2>1, <1>25
<1>29. /\ HoldsData(event, rd_size, Bytes16(size))
       /\ HoldsData(event, bus, Bytes16(BUS_VIRTUAL))
       /\ HoldsData(event, ven, Bytes32(vendor))
       /\ HoldsData(event, pro, Bytes32(product))
  <2>1. /\ rd_size + Len(Bytes16(size)) <= data /\ rd_size + Len(Bytes16(size)) <= EVENT_SIZE
        /\ Len(Bytes16(size)) \in Nat /\ data + size \in Nat
    BY <1>4, <1>11, <1>12, <1>13
  <2>2. HoldsData(event, rd_size, Bytes16(size))
    BY <1>11, <1>27, <1>26, <2>1, StillData
  <2>3. /\ bus + Len(Bytes16(BUS_VIRTUAL)) <= data /\ bus + Len(Bytes16(BUS_VIRTUAL)) <= EVENT_SIZE
        /\ Len(Bytes16(BUS_VIRTUAL)) \in Nat /\ data + size \in Nat
    BY <1>4, <1>11, <1>12, <1>13
  <2>4. HoldsData(event, bus, Bytes16(BUS_VIRTUAL))
    BY <1>11, <1>27, <1>26, <2>3, StillData
  <2>5. /\ ven + Len(Bytes32(vendor)) <= data /\ ven + Len(Bytes32(vendor)) <= EVENT_SIZE
        /\ Len(Bytes32(vendor)) \in Nat /\ data + size \in Nat
    BY <1>4, <1>11, <1>12, <1>13
  <2>6. HoldsData(event, ven, Bytes32(vendor))
    BY <1>11, <1>27, <1>26, <2>5, StillData
  <2>7. /\ pro + Len(Bytes32(product)) <= data /\ pro + Len(Bytes32(product)) <= EVENT_SIZE
        /\ Len(Bytes32(product)) \in Nat /\ data + size \in Nat
    BY <1>4, <1>11, <1>12, <1>13
  <2>8. HoldsData(event, pro, Bytes32(product))
    BY <1>11, <1>27, <1>24, <2>7, StillData
  <2> QED
    BY <2>2, <2>4, <2>6, <2>8
<1> QED
  BY <1>4, <1>10, <1>11, <1>28, <1>29, <1>27 DEF Describes, Strings

(* The fields, read one by one.                                            *)
LEMMA DescribedFields ==
  ASSUME NEW name \in Seq(Nat), Len(name) < LEN_NAME, 0 \notin ToSet(name),
         NEW phys \in Seq(Nat), Len(phys) < LEN_PHYS, 0 \notin ToSet(phys),
         NEW uniq \in Seq(Nat), Len(uniq) < LEN_UNIQ, 0 \notin ToSet(uniq),
         NEW vendor, IsU32(vendor), NEW product, IsU32(product),
         NEW descriptor \in Seq(Nat), Len(descriptor) <= RD_DATA_MAX,
         NEW buf, Describes(buf, name, phys, uniq, vendor, product, descriptor)
  PROVE  /\ get_u32(buf, OFF_TYPE) = UHID_CREATE2
         /\ get_str(slice(buf, OFF_CREATE_NAME, LEN_NAME)) = name
         /\ get_str(slice(buf, OFF_CREATE_PHYS, LEN_PHYS)) = phys
         /\ get_str(slice(buf, OFF_CREATE_UNIQ, LEN_UNIQ)) = uniq
         /\ get_u16(buf, OFF_CREATE_RD_SIZE) = Len(descriptor)
         /\ get_u16(buf, OFF_CREATE_BUS) = BUS_VIRTUAL
         /\ get_u32(buf, OFF_CREATE_VENDOR) = vendor
         /\ get_u32(buf, OFF_CREATE_PRODUCT) = product
         /\ slice(buf, OFF_CREATE_RD_DATA, Len(descriptor)) = descriptor
<1>1. OFF_TYPE \in Nat /\ IsU32(UHID_CREATE2) /\ BUS_VIRTUAL \in Nat /\ BUS_VIRTUAL < 65536
  BY DEF IsU32, OFF_TYPE, UHID_CREATE2, BUS_VIRTUAL
<1>2. get_u32(buf, OFF_TYPE) = UHID_CREATE2
  BY <1>1, U32Bytes DEF Describes
<1>3. LEN_NAME \in Nat /\ LEN_PHYS \in Nat /\ LEN_UNIQ \in Nat
  BY Sizes
<1>4. get_str(slice(buf, OFF_CREATE_NAME, LEN_NAME)) = name
  BY <1>3, StrBytes DEF Describes
<1>5. get_str(slice(buf, OFF_CREATE_PHYS, LEN_PHYS)) = phys
  BY <1>3, StrBytes DEF Describes
<1>6. get_str(slice(buf, OFF_CREATE_UNIQ, LEN_UNIQ)) = uniq
  BY <1>3, StrBytes DEF Describes
<1>7. /\ OFF_CREATE_RD_SIZE \in Nat /\ OFF_CREATE_BUS \in Nat /\ OFF_CREATE_VENDOR \in Nat
      /\ OFF_CREATE_PRODUCT \in Nat /\ Len(descriptor) \in Nat /\ Len(descriptor) < 65536
  BY Sizes
<1>8. get_u16(buf, OFF_CREATE_RD_SIZE) = Len(descriptor)
  BY <1>7, U16Bytes DEF Describes
<1>9. get_u16(buf, OFF_CREATE_BUS) = BUS_VIRTUAL
  BY <1>1, <1>7, U16Bytes DEF Describes
<1>10. get_u32(buf, OFF_CREATE_VENDOR) = vendor
  BY <1>7, U32Bytes DEF Describes
<1>11. get_u32(buf, OFF_CREATE_PRODUCT) = product
  BY <1>7, U32Bytes DEF Describes
<1>12. slice(buf, OFF_CREATE_RD_DATA, Len(descriptor)) = descriptor
  BY DataBytes DEF Describes
<1> QED
  BY <1>2, <1>4, <1>5, <1>6, <1>8, <1>9, <1>10, <1>11, <1>12

(* The kernel reads in UHID_CREATE2 all that the daemon meant by it: the   *)
(* offsets of event.rs:21-46 are those of the packed structure, the        *)
(* strings that fit come through whole, and so does the descriptor.        *)
THEOREM KernelReadsCreate ==
  ASSUME NEW name \in Seq(Nat), Len(name) < LEN_NAME, 0 \notin ToSet(name),
         NEW phys \in Seq(Nat), Len(phys) < LEN_PHYS, 0 \notin ToSet(phys),
         NEW uniq \in Seq(Nat), Len(uniq) < LEN_UNIQ, 0 \notin ToSet(uniq),
         NEW vendor, IsU32(vendor), NEW product, IsU32(product),
         NEW descriptor \in Seq(Nat), Len(descriptor) <= RD_DATA_MAX
  PROVE  KernelReads(create2(name, phys, uniq, vendor, product, descriptor)) =
           [type |-> "Create2", name |-> name, phys |-> phys, uniq |-> uniq,
            bus |-> BUS_VIRTUAL, vendor |-> vendor, product |-> product,
            descriptor |-> descriptor]
<1>1. PICK buf : buf = create2(name, phys, uniq, vendor, product, descriptor)
  OBVIOUS
<1>2. Describes(buf, name, phys, uniq, vendor, product, descriptor)
  <2>1. vendor \in Nat /\ product \in Nat
    BY DEF IsU32
  <2> QED
    BY <1>1, <2>1, CreateHolds
<1>3. /\ get_u32(buf, OFF_TYPE) = UHID_CREATE2
      /\ get_str(slice(buf, OFF_CREATE_NAME, LEN_NAME)) = name
      /\ get_str(slice(buf, OFF_CREATE_PHYS, LEN_PHYS)) = phys
      /\ get_str(slice(buf, OFF_CREATE_UNIQ, LEN_UNIQ)) = uniq
      /\ get_u16(buf, OFF_CREATE_RD_SIZE) = Len(descriptor)
      /\ get_u16(buf, OFF_CREATE_BUS) = BUS_VIRTUAL
      /\ get_u32(buf, OFF_CREATE_VENDOR) = vendor
      /\ get_u32(buf, OFF_CREATE_PRODUCT) = product
      /\ slice(buf, OFF_CREATE_RD_DATA, Len(descriptor)) = descriptor
  BY <1>2, DescribedFields
<1>4. type.at = OFF_TYPE
  BY OtherLayouts
<1>5. PICK req : req = uhid_create2_req
  OBVIOUS
<1>6. /\ req.name.at = OFF_CREATE_NAME /\ req.name.size = LEN_NAME
      /\ req.phys.at = OFF_CREATE_PHYS /\ req.phys.size = LEN_PHYS
      /\ req.uniq.at = OFF_CREATE_UNIQ /\ req.uniq.size = LEN_UNIQ
      /\ req.rd_size.at = OFF_CREATE_RD_SIZE /\ req.rd_size.size = 2
      /\ req.bus.at = OFF_CREATE_BUS /\ req.bus.size = 2
      /\ req.vendor.at = OFF_CREATE_VENDOR /\ req.vendor.size = 4
      /\ req.product.at = OFF_CREATE_PRODUCT /\ req.product.size = 4
      /\ req.rd_data.at = OFF_CREATE_RD_DATA /\ req.rd_data.size = RD_DATA_MAX
  BY <1>5, CreateLayout
<1>7. (IF Len(descriptor) < RD_DATA_MAX THEN Len(descriptor) ELSE RD_DATA_MAX) = Len(descriptor)
  BY Sizes
<1>8. KernelReads(buf) =
        [type |-> "Create2",
         name |-> Str(buf, req.name), phys |-> Str(buf, req.phys),
         uniq |-> Str(buf, req.uniq), bus |-> Num(buf, req.bus),
         vendor |-> Num(buf, req.vendor), product |-> Num(buf, req.product),
         descriptor |-> Data(buf, req.rd_size, req.rd_data)]
  <2>1. Num(buf, type) = UHID_CREATE2
    BY <1>3, OtherLayouts DEF Num
  <2> QED
    BY SMT, <1>5, <2>1
       DEF KernelReads, UHID_CREATE2, UHID_INPUT2, UHID_GET_REPORT_REPLY,
           UHID_SET_REPORT_REPLY, UHID_DESTROY
<1>9. /\ Str(buf, req.name) = name /\ Str(buf, req.phys) = phys /\ Str(buf, req.uniq) = uniq
      /\ Num(buf, req.bus) = BUS_VIRTUAL /\ Num(buf, req.vendor) = vendor
      /\ Num(buf, req.product) = product
  BY <1>3, <1>6 DEF Str, Num
<1>10. Data(buf, req.rd_size, req.rd_data) = descriptor
  BY <1>3, <1>6, <1>7 DEF Data, Num
<1> QED
  BY <1>1, <1>8, <1>9, <1>10

------------------------------------------------------------------------------
(* The other events.                                                       *)

(* A field nobody has written reads as zero.                               *)
LEMMA ZeroRead ==
  ASSUME NEW buf, NEW offset \in Nat, Empty(buf, offset, 2)
  PROVE  get_u16(buf, offset) = 0
<1>1. 1 \in 1 .. 2 /\ 2 \in 1 .. 2 /\ offset + 1 - 1 = offset /\ offset + 2 - 1 = offset + 1
  OBVIOUS
<1>2. buf[offset] = 0 /\ buf[offset + 1] = 0
  BY <1>1 DEF Empty
<1> QED
  BY <1>2 DEF get_u16

(* A payload keeps what is before it, and is read back whole.              *)
LEMMA PayloadPut ==
  ASSUME NEW buf, DOMAIN buf = Cells, NEW at \in Nat, NEW data \in Seq(Nat),
         Len(data) <= DATA_MAX, at + 2 + DATA_MAX <= EVENT_SIZE,
         NEW new, new = put_payload(buf, at, at + 2, data)
  PROVE  /\ get_u16(new, at) = Len(data)
         /\ slice(new, at + 2, Len(data)) = data
         /\ \A offset \in Nat : \A bytes : Len(bytes) \in Nat /\ offset + Len(bytes) <= at =>
              (HoldsData(buf, offset, bytes) => HoldsData(new, offset, bytes))
         /\ \A offset, field \in Nat : offset + field <= at =>
              (Empty(buf, offset, field) => Empty(new, offset, field))
<1>1. PICK size \in Nat : size = Len(data)
  OBVIOUS
<1>2. PICK sized : sized = put_u16(buf, at, size)
  OBVIOUS
<1>3. new = put(sized, at + 2, data)
  <2>1. payload_len(data) = size /\ size # None
    BY <1>1, WireAssumption DEF payload_len
  <2> QED
    BY <1>2, <2>1 DEF put_payload
<1>4. /\ size < 65536 /\ at + 2 \in Nat /\ at + 2 + size \in Nat /\ at + 2 <= EVENT_SIZE
      /\ at + 2 + Len(data) <= EVENT_SIZE /\ at + 2 + Len(data) = at + 2 + size
  BY <1>1, Sizes
<1>5. HoldsData(sized, at, Bytes16(size)) /\ SameAround(sized, buf, at, at + 2)
  BY <1>2, <1>4, PutU16Cells
<1>6. HoldsData(new, at + 2, data) /\ SameAround(new, sized, at + 2, at + 2 + size)
  <2>1. DOMAIN sized = Cells
    BY <1>5 DEF SameAround
  <2> QED
    BY <1>3, <1>4, <2>1, PutDataCells
<1>7. get_u16(new, at) = size
  <2>0. Len(Bytes16(size)) = 2
    BY BytesFacts
  <2>1. /\ Len(Bytes16(size)) \in Nat
        /\ at + Len(Bytes16(size)) <= at + 2 /\ at + Len(Bytes16(size)) <= EVENT_SIZE
    BY <1>4, <2>0
  <2>2. HoldsData(new, at, Bytes16(size))
    BY <1>4, <1>5, <1>6, <2>1, StillData
  <2> QED
    BY <1>4, <2>2, U16Bytes
<1>8. slice(new, at + 2, Len(data)) = data
  BY <1>6, DataBytes
<1>9. ASSUME NEW offset \in Nat, NEW bytes, Len(bytes) \in Nat, offset + Len(bytes) <= at,
             HoldsData(buf, offset, bytes)
      PROVE  HoldsData(new, offset, bytes)
  <2>1. offset + Len(bytes) <= at + 2 /\ offset + Len(bytes) <= EVENT_SIZE
    BY <1>4, <1>9, Sizes
  <2>2. HoldsData(sized, offset, bytes)
    BY <1>4, <1>5, <1>9, <2>1, StillData
  <2> QED
    BY <1>4, <1>6, <1>9, <2>1, <2>2, StillData
<1>10. ASSUME NEW offset \in Nat, NEW field \in Nat, offset + field <= at,
              Empty(buf, offset, field)
       PROVE  Empty(new, offset, field)
  <2>1. offset + field <= at + 2 /\ offset + field <= EVENT_SIZE
    BY <1>4, <1>10, Sizes
  <2>2. Empty(sized, offset, field)
    BY <1>4, <1>5, <1>10, <2>1, StillEmpty
  <2> QED
    BY <1>4, <1>6, <1>10, <2>1, <2>2, StillEmpty
<1> QED
  BY <1>1, <1>7, <1>8, <1>9, <1>10

(* A reply, or a request, before its other fields are put.                 *)
LEMMA IdPut ==
  ASSUME NEW kind, IsU32(kind), NEW id, IsU32(id),
         NEW buf, buf = put_u32(blank(kind), OFF_REQUEST_ID, id)
  PROVE  /\ DOMAIN buf = Cells
         /\ HoldsData(buf, OFF_TYPE, Bytes32(kind))
         /\ HoldsData(buf, OFF_REQUEST_ID, Bytes32(id))
         /\ \A offset, field \in Nat :
              offset >= 8 /\ offset + field <= EVENT_SIZE => Empty(buf, offset, field)
<1>1. PICK first : first = blank(kind)
  OBVIOUS
<1>2. kind \in Nat /\ id \in Nat
  BY DEF IsU32
<1>3. /\ DOMAIN first = Cells /\ HoldsData(first, OFF_TYPE, Bytes32(kind))
      /\ \A offset \in Nat, field \in Nat :
           offset >= 4 /\ offset + field <= EVENT_SIZE => Empty(first, offset, field)
  BY <1>1, <1>2, BlankCells
<1>4. /\ OFF_REQUEST_ID \in Nat /\ OFF_REQUEST_ID + 4 = 8 /\ OFF_REQUEST_ID + 4 <= EVENT_SIZE
      /\ 8 \in Nat
  BY Sizes DEF OFF_REQUEST_ID
<1>5. HoldsData(buf, OFF_REQUEST_ID, Bytes32(id)) /\ SameAround(buf, first, OFF_REQUEST_ID, 8)
  BY <1>1, <1>2, <1>3, <1>4, PutU32Cells
<1>6. HoldsData(buf, OFF_TYPE, Bytes32(kind))
  <2>1. OFF_TYPE \in Nat /\ Len(Bytes32(kind)) = 4 /\ Len(Bytes32(kind)) \in Nat
    BY <1>2, BytesFacts DEF OFF_TYPE
  <2>2. /\ OFF_TYPE + Len(Bytes32(kind)) <= OFF_REQUEST_ID
        /\ OFF_TYPE + Len(Bytes32(kind)) <= EVENT_SIZE
    BY <2>1, Sizes DEF OFF_TYPE, OFF_REQUEST_ID
  <2> QED
    BY <1>3, <1>4, <1>5, <2>1, <2>2, StillData
<1>7. ASSUME NEW offset \in Nat, NEW field \in Nat, offset >= 8, offset + field <= EVENT_SIZE
      PROVE  Empty(buf, offset, field)
  <2>1. Empty(first, offset, field)
    BY <1>3, <1>7
  <2> QED
    BY <1>4, <1>5, <1>7, <2>1, StillEmpty
<1> QED
  BY <1>5, <1>6, <1>7 DEF SameAround

(* What is read of an event with an ID, and of a report behind it.         *)
LEMMA IdRead ==
  ASSUME NEW buf, NEW kind, IsU32(kind), NEW id, IsU32(id),
         HoldsData(buf, OFF_TYPE, Bytes32(kind)),
         HoldsData(buf, OFF_REQUEST_ID, Bytes32(id))
  PROVE  get_u32(buf, OFF_TYPE) = kind /\ get_u32(buf, OFF_REQUEST_ID) = id
BY U32Bytes DEF OFF_TYPE, OFF_REQUEST_ID

(* The numbers of the events.                                              *)
LEMMA Kinds32 ==
  /\ IsU32(UHID_DESTROY) /\ IsU32(UHID_INPUT2) /\ IsU32(UHID_GET_REPORT)
  /\ IsU32(UHID_SET_REPORT) /\ IsU32(UHID_GET_REPORT_REPLY) /\ IsU32(UHID_SET_REPORT_REPLY)
BY DEF IsU32, UHID_DESTROY, UHID_INPUT2, UHID_GET_REPORT, UHID_SET_REPORT,
       UHID_GET_REPORT_REPLY, UHID_SET_REPORT_REPLY

(* An error, put in a reply.                                               *)
LEMMA ErrorPut ==
  ASSUME NEW kind, IsU32(kind), NEW id, IsU32(id),
         NEW buf, buf = put_u16(put_u32(blank(kind), OFF_REQUEST_ID, id), OFF_REPLY_ERR, EIO)
  PROVE  /\ get_u32(buf, OFF_TYPE) = kind /\ get_u32(buf, OFF_REQUEST_ID) = id
         /\ get_u16(buf, OFF_REPLY_ERR) = EIO
         /\ get_u16(buf, OFF_GET_REPLY_SIZE) = 0
<1>1. PICK event : event = put_u32(blank(kind), OFF_REQUEST_ID, id)
  OBVIOUS
<1>2. /\ DOMAIN event = Cells
      /\ HoldsData(event, OFF_TYPE, Bytes32(kind))
      /\ HoldsData(event, OFF_REQUEST_ID, Bytes32(id))
      /\ \A offset, field \in Nat :
           offset >= 8 /\ offset + field <= EVENT_SIZE => Empty(event, offset, field)
  BY <1>1, IdPut
<1>3. /\ OFF_REPLY_ERR \in Nat /\ OFF_REPLY_ERR + 2 <= EVENT_SIZE /\ OFF_REPLY_ERR + 2 = 10
      /\ EIO \in Nat /\ EIO < 65536 /\ 10 \in Nat /\ 2 \in Nat /\ 10 >= 8 /\ 10 + 2 <= EVENT_SIZE
      /\ OFF_GET_REPLY_SIZE = 10
  BY Sizes DEF OFF_REPLY_ERR, EIO, OFF_GET_REPLY_SIZE
<1>4. HoldsData(buf, OFF_REPLY_ERR, Bytes16(EIO)) /\ SameAround(buf, event, OFF_REPLY_ERR, 10)
  BY <1>1, <1>2, <1>3, PutU16Cells
<1>5. /\ HoldsData(buf, OFF_TYPE, Bytes32(kind))
      /\ HoldsData(buf, OFF_REQUEST_ID, Bytes32(id))
  <2>1. Len(Bytes32(kind)) = 4 /\ Len(Bytes32(id)) = 4
    BY BytesFacts DEF IsU32
  <2>2. /\ OFF_TYPE \in Nat /\ OFF_TYPE + Len(Bytes32(kind)) <= OFF_REPLY_ERR
        /\ OFF_TYPE + Len(Bytes32(kind)) <= EVENT_SIZE /\ Len(Bytes32(kind)) \in Nat
    BY <2>1, Sizes DEF OFF_TYPE, OFF_REPLY_ERR
  <2>3. /\ OFF_REQUEST_ID \in Nat /\ OFF_REQUEST_ID + Len(Bytes32(id)) <= OFF_REPLY_ERR
        /\ OFF_REQUEST_ID + Len(Bytes32(id)) <= EVENT_SIZE /\ Len(Bytes32(id)) \in Nat
    BY <2>1, Sizes DEF OFF_REQUEST_ID, OFF_REPLY_ERR
  <2>4. HoldsData(buf, OFF_TYPE, Bytes32(kind))
    BY <1>2, <1>3, <1>4, <2>2, StillData
  <2>5. HoldsData(buf, OFF_REQUEST_ID, Bytes32(id))
    BY <1>2, <1>3, <1>4, <2>3, StillData
  <2> QED
    BY <2>4, <2>5
<1>6. Empty(buf, 10, 2)
  <2>1. Empty(event, 10, 2)
    BY <1>2, <1>3
  <2>2. 10 >= 10
    OBVIOUS
  <2> QED
    BY <1>3, <1>4, <2>1, <2>2, StillEmpty
<1>7. get_u16(buf, OFF_REPLY_ERR) = EIO
  BY <1>3, <1>4, U16Bytes
<1>8. get_u16(buf, OFF_GET_REPLY_SIZE) = 0
  BY <1>3, <1>6, ZeroRead
<1> QED
  BY <1>5, <1>7, <1>8, IdRead

(* A report, put in a reply.                                               *)
LEMMA ReportPut ==
  ASSUME NEW id, IsU32(id), NEW report \in Seq(Nat), Len(report) <= DATA_MAX,
         NEW buf, buf = get_report_reply(id, report)
  PROVE  /\ get_u32(buf, OFF_TYPE) = UHID_GET_REPORT_REPLY
         /\ get_u32(buf, OFF_REQUEST_ID) = id
         /\ get_u16(buf, OFF_REPLY_ERR) = 0
         /\ get_u16(buf, OFF_GET_REPLY_SIZE) = Len(report)
         /\ slice(buf, OFF_GET_REPLY_DATA, Len(report)) = report
<1>1. PICK event : event = put_u32(blank(UHID_GET_REPORT_REPLY), OFF_REQUEST_ID, id)
  OBVIOUS
<1>2. /\ DOMAIN event = Cells
      /\ HoldsData(event, OFF_TYPE, Bytes32(UHID_GET_REPORT_REPLY))
      /\ HoldsData(event, OFF_REQUEST_ID, Bytes32(id))
      /\ \A offset, field \in Nat :
           offset >= 8 /\ offset + field <= EVENT_SIZE => Empty(event, offset, field)
  BY <1>1, Kinds32, IdPut
<1>3. /\ OFF_GET_REPLY_SIZE = 10 /\ 10 \in Nat /\ OFF_GET_REPLY_DATA = 10 + 2
      /\ 10 + 2 + DATA_MAX <= EVENT_SIZE
      /\ OFF_REPLY_ERR = 8 /\ 8 \in Nat /\ 2 \in Nat /\ 8 >= 8 /\ 8 + 2 <= EVENT_SIZE /\ 8 + 2 <= 10
  BY Sizes DEF OFF_REPLY_ERR, OFF_GET_REPLY_SIZE, OFF_GET_REPLY_DATA
<1>4. report # None
  BY WireAssumption
<1>5. buf = put_payload(event, 10, 10 + 2, report)
  BY <1>1, <1>3, <1>4 DEF get_report_reply
<1>6. /\ get_u16(buf, 10) = Len(report) /\ slice(buf, 10 + 2, Len(report)) = report
      /\ \A offset \in Nat : \A bytes : Len(bytes) \in Nat /\ offset + Len(bytes) <= 10 =>
           (HoldsData(event, offset, bytes) => HoldsData(buf, offset, bytes))
      /\ \A offset, field \in Nat : offset + field <= 10 =>
           (Empty(event, offset, field) => Empty(buf, offset, field))
  BY <1>2, <1>3, <1>5, PayloadPut
<1>7. /\ HoldsData(buf, OFF_TYPE, Bytes32(UHID_GET_REPORT_REPLY))
      /\ HoldsData(buf, OFF_REQUEST_ID, Bytes32(id))
  <2>1. Len(Bytes32(UHID_GET_REPORT_REPLY)) = 4 /\ Len(Bytes32(id)) = 4
    BY BytesFacts, Kinds32 DEF IsU32
  <2>2. /\ OFF_TYPE \in Nat /\ OFF_TYPE + Len(Bytes32(UHID_GET_REPORT_REPLY)) <= 10
        /\ Len(Bytes32(UHID_GET_REPORT_REPLY)) \in Nat
        /\ OFF_REQUEST_ID \in Nat /\ OFF_REQUEST_ID + Len(Bytes32(id)) <= 10
        /\ Len(Bytes32(id)) \in Nat
    BY <2>1 DEF OFF_TYPE, OFF_REQUEST_ID
  <2> QED
    BY <1>2, <1>6, <2>2
<1>8. Empty(buf, 8, 2)
  BY <1>2, <1>3, <1>6
<1>9. get_u16(buf, OFF_REPLY_ERR) = 0
  BY <1>3, <1>8, ZeroRead
<1> QED
  BY <1>3, <1>6, <1>7, <1>9, Kinds32, IdRead

(* A report, pushed.                                                       *)
LEMMA InputPut ==
  ASSUME NEW report \in Seq(Nat), Len(report) <= DATA_MAX, NEW buf, buf = input2(report)
  PROVE  /\ get_u32(buf, OFF_TYPE) = UHID_INPUT2
         /\ get_u16(buf, OFF_INPUT_SIZE) = Len(report)
         /\ slice(buf, OFF_INPUT_DATA, Len(report)) = report
<1>1. PICK event : event = blank(UHID_INPUT2)
  OBVIOUS
<1>2. DOMAIN event = Cells /\ HoldsData(event, OFF_TYPE, Bytes32(UHID_INPUT2))
  BY <1>1, Kinds32, BlankCells DEF IsU32
<1>3. /\ OFF_INPUT_SIZE = 4 /\ 4 \in Nat /\ OFF_INPUT_DATA = 4 + 2 /\ 4 + 2 + DATA_MAX <= EVENT_SIZE
  BY Sizes DEF OFF_INPUT_SIZE, OFF_INPUT_DATA
<1>4. buf = put_payload(event, 4, 4 + 2, report)
  BY <1>1, <1>3 DEF input2
<1>5. /\ get_u16(buf, 4) = Len(report) /\ slice(buf, 4 + 2, Len(report)) = report
      /\ \A offset \in Nat : \A bytes : Len(bytes) \in Nat /\ offset + Len(bytes) <= 4 =>
           (HoldsData(event, offset, bytes) => HoldsData(buf, offset, bytes))
  BY <1>2, <1>3, <1>4, PayloadPut
<1>6. HoldsData(buf, OFF_TYPE, Bytes32(UHID_INPUT2))
  <2>1. Len(Bytes32(UHID_INPUT2)) = 4
    BY BytesFacts, Kinds32 DEF IsU32
  <2>2. /\ OFF_TYPE \in Nat /\ OFF_TYPE + Len(Bytes32(UHID_INPUT2)) <= 4
        /\ Len(Bytes32(UHID_INPUT2)) \in Nat
    BY <2>1 DEF OFF_TYPE
  <2> QED
    BY <1>2, <1>5, <2>2
<1>7. OFF_TYPE \in Nat
  BY DEF OFF_TYPE
<1> QED
  BY <1>3, <1>5, <1>6, <1>7, Kinds32, U32Bytes

(* The kernel reads the report of an input event, and of an answer, whole, *)
(* and whose answer it is, an error where the daemon meant one.            *)
THEOREM KernelReadsReports ==
  ASSUME NEW report \in Seq(Nat), Len(report) <= DATA_MAX, NEW id, IsU32(id)
  PROVE  /\ KernelReads(input2(report)) = [type |-> "Input2", data |-> report]
         /\ KernelReads(get_report_reply(id, report)) =
              [type |-> "GetReportReply", id |-> id, err |-> 0, data |-> report]
<1>1. PICK pushed, answer : /\ pushed = input2(report)
                            /\ answer = get_report_reply(id, report)
  OBVIOUS
<1>2. /\ get_u32(pushed, OFF_TYPE) = UHID_INPUT2
      /\ get_u16(pushed, OFF_INPUT_SIZE) = Len(report)
      /\ slice(pushed, OFF_INPUT_DATA, Len(report)) = report
  BY <1>1, InputPut
<1>3. /\ get_u32(answer, OFF_TYPE) = UHID_GET_REPORT_REPLY
      /\ get_u32(answer, OFF_REQUEST_ID) = id
      /\ get_u16(answer, OFF_REPLY_ERR) = 0
      /\ get_u16(answer, OFF_GET_REPLY_SIZE) = Len(report)
      /\ slice(answer, OFF_GET_REPLY_DATA, Len(report)) = report
  BY <1>1, ReportPut
<1>4. PICK input, reply : input = uhid_input2_req /\ reply = uhid_report_reply_req
  OBVIOUS
<1>5. /\ type.at = OFF_TYPE /\ type.size = 4
      /\ input.size.at = OFF_INPUT_SIZE /\ input.size.size = 2
      /\ input.data.at = OFF_INPUT_DATA /\ input.data.size = DATA_MAX
      /\ reply.id.at = OFF_REQUEST_ID /\ reply.id.size = 4
      /\ reply.err.at = OFF_REPLY_ERR /\ reply.err.size = 2
      /\ reply.size.at = OFF_GET_REPLY_SIZE /\ reply.size.size = 2
      /\ reply.data.at = OFF_GET_REPLY_DATA /\ reply.data.size = DATA_MAX
  BY <1>4, OtherLayouts
<1>6. (IF Len(report) < DATA_MAX THEN Len(report) ELSE DATA_MAX) = Len(report)
  BY Sizes
<1>7. Num(pushed, type) = UHID_INPUT2 /\ Num(answer, type) = UHID_GET_REPORT_REPLY
  BY <1>2, <1>3, <1>5 DEF Num
<1>8. Data(pushed, input.size, input.data) = report
  BY <1>2, <1>5, <1>6 DEF Data, Num
<1>9. /\ Num(answer, reply.id) = id /\ Num(answer, reply.err) = 0
      /\ Data(answer, reply.size, reply.data) = report
  BY <1>3, <1>5, <1>6 DEF Data, Num
<1>10. KernelReads(pushed) = [type |-> "Input2", data |-> Data(pushed, input.size, input.data)]
  BY SMT, <1>4, <1>7
     DEF KernelReads, UHID_CREATE2, UHID_INPUT2, UHID_GET_REPORT_REPLY,
         UHID_SET_REPORT_REPLY, UHID_DESTROY
<1>11. KernelReads(answer) =
         [type |-> "GetReportReply", id |-> Num(answer, reply.id),
          err |-> Num(answer, reply.err), data |-> Data(answer, reply.size, reply.data)]
  BY SMT, <1>4, <1>7
     DEF KernelReads, UHID_CREATE2, UHID_INPUT2, UHID_GET_REPORT_REPLY,
         UHID_SET_REPORT_REPLY, UHID_DESTROY
<1> QED
  BY <1>1, <1>8, <1>9, <1>10, <1>11

(* And the refusals of a request, and the destruction.                     *)
THEOREM KernelReadsErrors ==
  ASSUME NEW id, IsU32(id)
  PROVE  /\ KernelReads(get_report_reply(id, None)) =
              [type |-> "GetReportReply", id |-> id, err |-> EIO, data |-> <<>>]
         /\ KernelReads(set_report_reply(id)) =
              [type |-> "SetReportReply", id |-> id, err |-> EIO]
         /\ KernelReads(destroy) = [type |-> "Destroy"]
<1>1. PICK got, set : /\ got = get_report_reply(id, None)
                      /\ set = set_report_reply(id)
  OBVIOUS
<1>2. /\ get_u32(got, OFF_TYPE) = UHID_GET_REPORT_REPLY /\ get_u32(got, OFF_REQUEST_ID) = id
      /\ get_u16(got, OFF_REPLY_ERR) = EIO /\ get_u16(got, OFF_GET_REPLY_SIZE) = 0
  BY <1>1, Kinds32, ErrorPut DEF get_report_reply
<1>3. /\ get_u32(set, OFF_TYPE) = UHID_SET_REPORT_REPLY /\ get_u32(set, OFF_REQUEST_ID) = id
      /\ get_u16(set, OFF_REPLY_ERR) = EIO
  BY <1>1, Kinds32, ErrorPut DEF set_report_reply
<1>4. PICK reply : reply = uhid_report_reply_req
  OBVIOUS
<1>5. /\ type.at = OFF_TYPE /\ type.size = 4
      /\ reply.id.at = OFF_REQUEST_ID /\ reply.id.size = 4
      /\ reply.err.at = OFF_REPLY_ERR /\ reply.err.size = 2
      /\ reply.size.at = OFF_GET_REPLY_SIZE /\ reply.size.size = 2
      /\ reply.data.at = OFF_GET_REPLY_DATA /\ reply.data.size = DATA_MAX
  BY <1>4, OtherLayouts
<1>6. /\ Num(got, type) = UHID_GET_REPORT_REPLY /\ Num(got, reply.id) = id
      /\ Num(got, reply.err) = EIO /\ Num(got, reply.size) = 0
  BY <1>2, <1>5 DEF Num
<1>7. /\ Num(set, type) = UHID_SET_REPORT_REPLY /\ Num(set, reply.id) = id
      /\ Num(set, reply.err) = EIO
  BY <1>3, <1>5 DEF Num
<1>8. Data(got, reply.size, reply.data) = <<>>
  <2>1. (IF 0 < DATA_MAX THEN 0 ELSE DATA_MAX) = 0
    BY Sizes
  <2>2. Data(got, reply.size, reply.data) = slice(got, reply.data.at, 0)
    BY <1>5, <1>6, <2>1 DEF Data
  <2> QED
    BY <2>2 DEF slice
<1>9. KernelReads(got) =
         [type |-> "GetReportReply", id |-> Num(got, reply.id),
          err |-> Num(got, reply.err), data |-> Data(got, reply.size, reply.data)]
  BY SMT, <1>4, <1>6
     DEF KernelReads, UHID_CREATE2, UHID_INPUT2, UHID_GET_REPORT_REPLY,
         UHID_SET_REPORT_REPLY, UHID_DESTROY
<1>10. KernelReads(set) =
         [type |-> "SetReportReply", id |-> Num(set, reply.id), err |-> Num(set, reply.err)]
  BY SMT, <1>4, <1>7
     DEF KernelReads, UHID_CREATE2, UHID_INPUT2, UHID_GET_REPORT_REPLY,
         UHID_SET_REPORT_REPLY, UHID_DESTROY
<1>11. KernelReads(destroy) = [type |-> "Destroy"]
  <2>1. get_u32(destroy, OFF_TYPE) = UHID_DESTROY
    BY Kinds32, BlankCells, U32Bytes DEF destroy, IsU32, OFF_TYPE
  <2>2. Num(destroy, type) = UHID_DESTROY
    BY <1>5, <2>1 DEF Num
  <2> QED
    BY SMT, <2>2
       DEF KernelReads, UHID_CREATE2, UHID_INPUT2, UHID_GET_REPORT_REPLY,
           UHID_SET_REPORT_REPLY, UHID_DESTROY
<1> QED
  BY <1>1, <1>6, <1>7, <1>8, <1>9, <1>10, <1>11

------------------------------------------------------------------------------
(* Requests.                                                               *)

(* One byte put in a cell.                                                 *)
LEMMA BytePut ==
  ASSUME NEW buf, DOMAIN buf = Cells, NEW at \in Nat, at + 1 <= EVENT_SIZE, NEW byte \in Nat,
         NEW new, new = put(buf, at, <<byte>>)
  PROVE  new[at] = byte /\ SameAround(new, buf, at, at + 1)
<1>1. <<byte>> \in Seq(Nat) /\ Len(<<byte>>) = 1 /\ <<byte>>[1] = byte
  OBVIOUS
<1>2. HoldsData(new, at, <<byte>>) /\ SameAround(new, buf, at, at + 1)
  BY <1>1, PutDataCells
<1>3. 1 \in 1 .. Len(<<byte>>) /\ at + 1 - 1 = at
  BY <1>1
<1> QED
  BY <1>1, <1>2, <1>3 DEF HoldsData

(* The daemon reads in a request what the kernel wrote: which, of which    *)
(* report, and the ID its answer is to bear.                               *)
THEOREM DaemonReadsRequests ==
  ASSUME NEW kind, IsU32(kind), NEW id, IsU32(id), NEW rnum \in Nat, NEW rtype \in Nat
  PROVE  decode(KernelWrites([kind |-> kind, id |-> id, rnum |-> rnum, rtype |-> rtype])) =
           [type |-> CASE kind = UHID_START -> "Start"
                       [] kind = UHID_GET_REPORT -> "GetReport"
                       [] kind = UHID_SET_REPORT -> "SetReport"
                       [] OTHER -> "Ignored",
            id |-> id, rnum |-> rnum, rtype |-> rtype]
<1>1. PICK event : event = put_u32(blank(kind), OFF_REQUEST_ID, id)
  OBVIOUS
<1>2. PICK numbered : numbered = put(event, OFF_REQUEST_RNUM, <<rnum>>)
  OBVIOUS
<1>3. PICK buf : buf = put(numbered, OFF_REQUEST_RTYPE, <<rtype>>)
  OBVIOUS
<1>4. KernelWrites([kind |-> kind, id |-> id, rnum |-> rnum, rtype |-> rtype]) = buf
  BY <1>1, <1>2, <1>3, OtherLayouts DEF KernelWrites
<1>5. /\ DOMAIN event = Cells
      /\ HoldsData(event, OFF_TYPE, Bytes32(kind))
      /\ HoldsData(event, OFF_REQUEST_ID, Bytes32(id))
  BY <1>1, IdPut
<1>6. /\ OFF_REQUEST_RNUM = 8 /\ OFF_REQUEST_RTYPE = 9 /\ 8 \in Nat /\ 9 \in Nat /\ 8 + 1 = 9
      /\ 9 + 1 = 10 /\ 10 \in Nat /\ 8 + 1 <= EVENT_SIZE /\ 9 + 1 <= EVENT_SIZE
      /\ 8 \in Cells /\ 8 < 9
  BY Sizes DEF OFF_REQUEST_RNUM, OFF_REQUEST_RTYPE, Cells
<1>7. numbered[8] = rnum /\ SameAround(numbered, event, 8, 9)
  BY <1>2, <1>5, <1>6, BytePut
<1>8. buf[9] = rtype /\ SameAround(buf, numbered, 9, 10)
  BY <1>3, <1>6, <1>7, BytePut DEF SameAround
<1>9. buf[8] = rnum
  BY <1>6, <1>7, <1>8 DEF SameAround
<1>10. HoldsData(buf, OFF_TYPE, Bytes32(kind)) /\ HoldsData(buf, OFF_REQUEST_ID, Bytes32(id))
  <2>1. Len(Bytes32(kind)) = 4 /\ Len(Bytes32(id)) = 4
    BY BytesFacts DEF IsU32
  <2>2. /\ OFF_TYPE \in Nat /\ OFF_TYPE + Len(Bytes32(kind)) <= 8
        /\ OFF_TYPE + Len(Bytes32(kind)) <= 9
        /\ OFF_TYPE + Len(Bytes32(kind)) <= EVENT_SIZE /\ Len(Bytes32(kind)) \in Nat
    BY <2>1, Sizes DEF OFF_TYPE
  <2>3. /\ OFF_REQUEST_ID \in Nat /\ OFF_REQUEST_ID + Len(Bytes32(id)) <= 8
        /\ OFF_REQUEST_ID + Len(Bytes32(id)) <= 9
        /\ OFF_REQUEST_ID + Len(Bytes32(id)) <= EVENT_SIZE /\ Len(Bytes32(id)) \in Nat
    BY <2>1, Sizes DEF OFF_REQUEST_ID
  <2>4. HoldsData(numbered, OFF_TYPE, Bytes32(kind))
    BY <1>5, <1>6, <1>7, <2>2, StillData
  <2>5. HoldsData(numbered, OFF_REQUEST_ID, Bytes32(id))
    BY <1>5, <1>6, <1>7, <2>3, StillData
  <2>6. HoldsData(buf, OFF_TYPE, Bytes32(kind))
    BY <1>6, <1>8, <2>2, <2>4, StillData
  <2>7. HoldsData(buf, OFF_REQUEST_ID, Bytes32(id))
    BY <1>6, <1>8, <2>3, <2>5, StillData
  <2> QED
    BY <2>6, <2>7
<1>11. get_u32(buf, OFF_TYPE) = kind /\ get_u32(buf, OFF_REQUEST_ID) = id
  BY <1>10, IdRead
<1> QED
  BY SMT, <1>4, <1>6, <1>8, <1>9, <1>11 DEF decode

------------------------------------------------------------------------------
(* The stand-in.                                                           *)

(* It reads of a reply, an input event and a destruction what the kernel   *)
(* reads, and writes the requests the kernel writes.                       *)
THEOREM FakeReadsReports ==
  ASSUME NEW report \in Seq(Nat), Len(report) <= DATA_MAX, NEW id, IsU32(id)
  PROVE  /\ decode_sent(input2(report)) = KernelReads(input2(report))
         /\ decode_sent(get_report_reply(id, report)) = KernelReads(get_report_reply(id, report))
<1>1. PICK pushed, answer : /\ pushed = input2(report)
                            /\ answer = get_report_reply(id, report)
  OBVIOUS
<1>2. /\ get_u32(pushed, OFF_TYPE) = UHID_INPUT2
      /\ get_u16(pushed, OFF_INPUT_SIZE) = Len(report)
      /\ slice(pushed, OFF_INPUT_DATA, Len(report)) = report
  BY <1>1, InputPut
<1>3. /\ get_u32(answer, OFF_TYPE) = UHID_GET_REPORT_REPLY
      /\ get_u32(answer, OFF_REQUEST_ID) = id
      /\ get_u16(answer, OFF_REPLY_ERR) = 0
      /\ get_u16(answer, OFF_GET_REPLY_SIZE) = Len(report)
      /\ slice(answer, OFF_GET_REPLY_DATA, Len(report)) = report
  BY <1>1, ReportPut
<1>4. AtMostData(Len(report)) = Len(report)
  BY Sizes DEF AtMostData
<1>5. decode_sent(pushed) =
        [type |-> "Input2",
         data |-> slice(pushed, OFF_INPUT_DATA, AtMostData(get_u16(pushed, OFF_INPUT_SIZE)))]
  BY SMT, <1>2
     DEF decode_sent, UHID_CREATE2, UHID_INPUT2, UHID_GET_REPORT_REPLY,
         UHID_SET_REPORT_REPLY, UHID_DESTROY
<1>6. decode_sent(answer) =
        [type |-> "GetReportReply", id |-> get_u32(answer, OFF_REQUEST_ID),
         err |-> get_u16(answer, OFF_REPLY_ERR),
         data |-> slice(answer, OFF_GET_REPLY_DATA,
                        AtMostData(get_u16(answer, OFF_GET_REPLY_SIZE)))]
  BY SMT, <1>3
     DEF decode_sent, UHID_CREATE2, UHID_INPUT2, UHID_GET_REPORT_REPLY,
         UHID_SET_REPORT_REPLY, UHID_DESTROY
<1> QED
  BY <1>1, <1>2, <1>3, <1>4, <1>5, <1>6, KernelReadsReports

(* The stand-in reads in an answer without a report, and in the event that *)
(* destroys the device, what the kernel reads there.                       *)
THEOREM FakeReadsErrors ==
  ASSUME NEW id, IsU32(id)
  PROVE  /\ decode_sent(get_report_reply(id, None)) = KernelReads(get_report_reply(id, None))
         /\ decode_sent(set_report_reply(id)) = KernelReads(set_report_reply(id))
         /\ decode_sent(destroy) = KernelReads(destroy)
<1>1. PICK got, set : /\ got = get_report_reply(id, None)
                      /\ set = set_report_reply(id)
  OBVIOUS
<1>2. /\ get_u32(got, OFF_TYPE) = UHID_GET_REPORT_REPLY /\ get_u32(got, OFF_REQUEST_ID) = id
      /\ get_u16(got, OFF_REPLY_ERR) = EIO /\ get_u16(got, OFF_GET_REPLY_SIZE) = 0
  BY <1>1, Kinds32, ErrorPut DEF get_report_reply
<1>3. /\ get_u32(set, OFF_TYPE) = UHID_SET_REPORT_REPLY /\ get_u32(set, OFF_REQUEST_ID) = id
      /\ get_u16(set, OFF_REPLY_ERR) = EIO
  BY <1>1, Kinds32, ErrorPut DEF set_report_reply
<1>4. AtMostData(0) = 0
  BY Sizes DEF AtMostData
<1>5. slice(got, OFF_GET_REPLY_DATA, 0) = <<>>
  BY DEF slice
<1>6. decode_sent(got) =
        [type |-> "GetReportReply", id |-> get_u32(got, OFF_REQUEST_ID),
         err |-> get_u16(got, OFF_REPLY_ERR),
         data |-> slice(got, OFF_GET_REPLY_DATA, AtMostData(get_u16(got, OFF_GET_REPLY_SIZE)))]
  BY SMT, <1>2
     DEF decode_sent, UHID_CREATE2, UHID_INPUT2, UHID_GET_REPORT_REPLY,
         UHID_SET_REPORT_REPLY, UHID_DESTROY
<1>7. decode_sent(set) =
        [type |-> "SetReportReply", id |-> get_u32(set, OFF_REQUEST_ID),
         err |-> get_u16(set, OFF_REPLY_ERR)]
  BY SMT, <1>3
     DEF decode_sent, UHID_CREATE2, UHID_INPUT2, UHID_GET_REPORT_REPLY,
         UHID_SET_REPORT_REPLY, UHID_DESTROY
<1>8. decode_sent(destroy) = [type |-> "Destroy"]
  <2>1. get_u32(destroy, OFF_TYPE) = UHID_DESTROY
    BY Kinds32, BlankCells, U32Bytes DEF destroy, IsU32, OFF_TYPE
  <2> QED
    BY SMT, <2>1
       DEF decode_sent, UHID_CREATE2, UHID_INPUT2, UHID_GET_REPORT_REPLY,
           UHID_SET_REPORT_REPLY, UHID_DESTROY
<1> QED
  BY <1>1, <1>2, <1>3, <1>4, <1>5, <1>6, <1>7, <1>8, KernelReadsErrors

(* Of a description too, as far as its own bound on data goes.             *)
THEOREM FakeReadsCreate ==
  ASSUME NEW name \in Seq(Nat), Len(name) < LEN_NAME, 0 \notin ToSet(name),
         NEW phys \in Seq(Nat), Len(phys) < LEN_PHYS, 0 \notin ToSet(phys),
         NEW uniq \in Seq(Nat), Len(uniq) < LEN_UNIQ, 0 \notin ToSet(uniq),
         NEW vendor, IsU32(vendor), NEW product, IsU32(product),
         NEW descriptor \in Seq(Nat), Len(descriptor) <= DATA_MAX
  PROVE  decode_sent(create2(name, phys, uniq, vendor, product, descriptor)) =
           KernelReads(create2(name, phys, uniq, vendor, product, descriptor))
<1>0. Len(descriptor) <= RD_DATA_MAX
  BY Sizes
<1>1. PICK buf : buf = create2(name, phys, uniq, vendor, product, descriptor)
  OBVIOUS
<1>2. Describes(buf, name, phys, uniq, vendor, product, descriptor)
  <2>1. vendor \in Nat /\ product \in Nat
    BY DEF IsU32
  <2> QED
    BY <1>0, <1>1, <2>1, CreateHolds
<1>3. /\ get_u32(buf, OFF_TYPE) = UHID_CREATE2
      /\ get_str(slice(buf, OFF_CREATE_NAME, LEN_NAME)) = name
      /\ get_str(slice(buf, OFF_CREATE_PHYS, LEN_PHYS)) = phys
      /\ get_str(slice(buf, OFF_CREATE_UNIQ, LEN_UNIQ)) = uniq
      /\ get_u16(buf, OFF_CREATE_RD_SIZE) = Len(descriptor)
      /\ get_u16(buf, OFF_CREATE_BUS) = BUS_VIRTUAL
      /\ get_u32(buf, OFF_CREATE_VENDOR) = vendor
      /\ get_u32(buf, OFF_CREATE_PRODUCT) = product
      /\ slice(buf, OFF_CREATE_RD_DATA, Len(descriptor)) = descriptor
  BY <1>0, <1>2, DescribedFields
<1>4. AtMostData(Len(descriptor)) = Len(descriptor)
  BY Sizes DEF AtMostData
<1>5. decode_sent(buf) =
        [type |-> "Create2",
         name |-> get_str(slice(buf, OFF_CREATE_NAME, LEN_NAME)),
         phys |-> get_str(slice(buf, OFF_CREATE_PHYS, LEN_PHYS)),
         uniq |-> get_str(slice(buf, OFF_CREATE_UNIQ, LEN_UNIQ)),
         bus |-> get_u16(buf, OFF_CREATE_BUS),
         vendor |-> get_u32(buf, OFF_CREATE_VENDOR),
         product |-> get_u32(buf, OFF_CREATE_PRODUCT),
         descriptor |-> slice(buf, OFF_CREATE_RD_DATA,
                              AtMostData(get_u16(buf, OFF_CREATE_RD_SIZE)))]
  BY SMT, <1>3
     DEF decode_sent, UHID_CREATE2, UHID_INPUT2, UHID_GET_REPORT_REPLY,
         UHID_SET_REPORT_REPLY, UHID_DESTROY
<1> QED
  BY <1>0, <1>1, <1>3, <1>4, <1>5, KernelReadsCreate

(* The stand-in writes a request, byte for byte, as the kernel does.       *)
THEOREM FakeWritesRequests ==
  ASSUME NEW kind, IsU32(kind), NEW id, IsU32(id), NEW rnum \in Nat, NEW rtype \in Nat
  PROVE  request(kind, id, rnum, rtype) =
           KernelWrites([kind |-> kind, id |-> id, rnum |-> rnum, rtype |-> rtype])
<1>1. PICK event : event = put_u32(blank(kind), OFF_REQUEST_ID, id)
  OBVIOUS
<1>2. PICK numbered : numbered = put(event, OFF_REQUEST_RNUM, <<rnum>>)
  OBVIOUS
<1>3. KernelWrites([kind |-> kind, id |-> id, rnum |-> rnum, rtype |-> rtype])
        = put(numbered, OFF_REQUEST_RTYPE, <<rtype>>)
  BY <1>1, <1>2, OtherLayouts DEF KernelWrites
<1>4. request(kind, id, rnum, rtype) = put(event, OFF_REQUEST_RNUM, <<rnum, rtype>>)
  BY <1>1 DEF request
<1>5. DOMAIN event = Cells
  BY <1>1, IdPut
<1>6. OFF_REQUEST_RNUM = 8 /\ OFF_REQUEST_RTYPE = 9 /\ Cells \subseteq Nat
  BY Sizes DEF OFF_REQUEST_RNUM, OFF_REQUEST_RTYPE, Cells
<1>7. /\ Len(<<rnum>>) = 1 /\ Len(<<rtype>>) = 1 /\ Len(<<rnum, rtype>>) = 2
      /\ <<rnum>>[1] = rnum /\ <<rtype>>[1] = rtype
      /\ <<rnum, rtype>>[1] = rnum /\ <<rnum, rtype>>[2] = rtype
  OBVIOUS
<1>8. numbered = [o \in Cells |-> IF o = 8 THEN rnum ELSE event[o]]
  <2>1. numbered = [o \in Cells |-> IF o \in 8 .. 8 THEN <<rnum>>[o - 8 + 1] ELSE event[o]]
    <3>1. 8 + 1 - 1 = 8
      OBVIOUS
    <3> QED
      BY <1>2, <1>5, <1>6, <1>7, <3>1 DEF put
  <2>2. ASSUME NEW o \in Cells
        PROVE  (IF o \in 8 .. 8 THEN <<rnum>>[o - 8 + 1] ELSE event[o])
                 = IF o = 8 THEN rnum ELSE event[o]
    BY <1>6, <1>7
  <2> QED
    BY <2>1, <2>2
<1>9. put(numbered, OFF_REQUEST_RTYPE, <<rtype>>)
        = [o \in Cells |-> IF o = 9 THEN rtype ELSE IF o = 8 THEN rnum ELSE event[o]]
  <2>0. DOMAIN numbered = Cells /\ 9 + 1 - 1 = 9
    BY <1>8
  <2>1. put(numbered, OFF_REQUEST_RTYPE, <<rtype>>)
          = [o \in Cells |-> IF o \in 9 .. 9 THEN <<rtype>>[o - 9 + 1] ELSE numbered[o]]
    BY <1>6, <1>7, <2>0 DEF put
  <2>2. ASSUME NEW o \in Cells
        PROVE  (IF o \in 9 .. 9 THEN <<rtype>>[o - 9 + 1] ELSE numbered[o])
                 = IF o = 9 THEN rtype ELSE IF o = 8 THEN rnum ELSE event[o]
    BY <1>6, <1>7, <1>8
  <2> QED
    BY <2>1, <2>2
<1>10. put(event, OFF_REQUEST_RNUM, <<rnum, rtype>>)
        = [o \in Cells |-> IF o = 9 THEN rtype ELSE IF o = 8 THEN rnum ELSE event[o]]
  <2>0. 8 + 2 - 1 = 9
    OBVIOUS
  <2>1. put(event, OFF_REQUEST_RNUM, <<rnum, rtype>>)
          = [o \in Cells |-> IF o \in 8 .. 9 THEN <<rnum, rtype>>[o - 8 + 1] ELSE event[o]]
    BY <1>5, <1>6, <1>7, <2>0 DEF put
  <2>2. ASSUME NEW o \in Cells
        PROVE  (IF o \in 8 .. 9 THEN <<rnum, rtype>>[o - 8 + 1] ELSE event[o])
                 = IF o = 9 THEN rtype ELSE IF o = 8 THEN rnum ELSE event[o]
    BY <1>6, <1>7
  <2> QED
    BY <2>1, <2>2
<1> QED
  BY <1>3, <1>4, <1>9, <1>10

==============================================================================
