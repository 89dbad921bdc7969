---------------------------- MODULE MCWaitSupply ----------------------------
(***************************************************************************)
(* An instance of Registration for TLC.  The strings are as long as their  *)
(* small fields allow, and one longer; they end, or are cut, in characters *)
(* of two and of four bytes.                                               *)
(***************************************************************************)
EXTENDS RegistrationInv

U == <<117>>
UB == <<117, 45, 98>>      \* u-b: its supply's name begins with u's

MCOtherUniqs == {U, UB}

Named(name, phys, uniq) ==
  [name |-> name, phys |-> phys, uniq |-> uniq, vendor |-> 13097, product |-> 19224]

Accepted ==
  { [identity |-> Named(<<77, 195, 169>>, <<>>, U),
     kind |-> "Mouse", percent |-> 37, charging |-> TRUE],
    [identity |-> Named(<<77, 97, 120, 195, 169>>, <<112, 47, 49>>, UB),
     kind |-> "Headset", percent |-> 130, charging |-> FALSE] }

Refused ==
  {[identity |-> id, kind |-> "Generic", percent |-> 50, charging |-> FALSE] :
     id \in { Named(<<>>, <<>>, U),
              Named(<<77, 97, 120, 119, 195, 169>>, <<>>, U),
              Named(<<240, 159, 146, 128, 195, 169>>, <<>>, U),
              Named(<<77>>, <<112, 47, 195, 169>>, U),
              Named(<<77>>, <<112, 0>>, U),
              Named(<<77>>, <<>>, <<117, 45, 98, 49, 50>>),
              Named(<<77>>, <<>>, <<117, 47>>) }}

MCDevices == Accepted \cup Refused

(* The assumption of the proofs.                                           *)
ASSUME MCDescriptorsParsed == DescriptorsParsed

==============================================================================
