-------------------------------- MODULE Names --------------------------------
(***************************************************************************)
(* What a device is called: the identity the daemon gives it               *)
(* (identity.rs), and the name under which its power supply is looked for  *)
(* in sysfs (sysfs.rs).  A string is the sequence of its bytes; of the     *)
(* supply's name, "h-" stands for "hid-" and "-b" for "-battery".          *)
(***************************************************************************)
EXTENDS Wire

CharLen(byte) ==
  IF byte < 128 THEN 1 ELSE IF byte < 224 THEN 2 ELSE IF byte < 240 THEN 3 ELSE 4

WholeChars(bytes) ==
  \A i \in DOMAIN bytes :
    bytes[i] \notin 128 .. 191 => i + CharLen(bytes[i]) - 1 <= Len(bytes)

(* A byte continues a character just where one has begun.                  *)
Utf8(bytes) ==
  /\ WholeChars(bytes)
  /\ \A j \in DOMAIN bytes :
       bytes[j] \in 128 .. 191 <=>
         \E i \in 1 .. j - 1 :
           bytes[i] \notin 128 .. 191 /\ j <= i + CharLen(bytes[i]) - 1

Strings == {bytes \in Seq(0 .. 255) : Utf8(bytes)}

U16 == {n \in Nat : n < 65536}

Identities ==
  [name : Strings, phys : Strings, uniq : Strings, vendor : U16, product : U16]

Dash == 45
Digits == 48 .. 57
PlainChars == Digits \cup 65 .. 90 \cup 97 .. 122 \cup {Dash, 46, 95}

fits(value, field) == Len(value) < field /\ 0 \notin ToSet(value)

BugPhysUnchecked(identity) ==
  /\ identity.name # <<>> /\ fits(identity.name, LEN_NAME)
  /\ identity.uniq # <<>> /\ fits(identity.uniq, LEN_UNIQ)
  /\ ToSet(identity.uniq) \subseteq PlainChars

validate(identity) ==
  /\ identity.name # <<>> /\ fits(identity.name, LEN_NAME)
  /\ fits(identity.phys, LEN_PHYS)
  /\ identity.uniq # <<>> /\ fits(identity.uniq, LEN_UNIQ)
  /\ ToSet(identity.uniq) \subseteq PlainChars

Prefix(uniq) == <<104, Dash>> \o uniq \o <<Dash, 98>>

BugBareOnly(rest) == rest = <<>>

(* What may follow the prefix: nothing, or a number.                       *)
is_report_suffix(rest) ==
  \/ rest = <<>>
  \/ Head(rest) = Dash /\ Tail(rest) # <<>> /\ ToSet(Tail(rest)) \subseteq Digits

(* The entries that match, of which read_dir may return any first.         *)
find_power_supply(class, uniq) ==
  {entry \in class :
     /\ IsPrefix(Prefix(uniq), entry)
     /\ is_report_suffix(SubSeq(entry, Len(Prefix(uniq)) + 1, Len(entry)))}

(* The name the kernel gives a supply: recent ones append the report ID.   *)
SupplyName(uniq, numbered, report) ==
  Prefix(uniq) \o IF numbered THEN <<Dash, 48 + report>> ELSE <<>>

==============================================================================
