----------------------------- MODULE ListenFdsInv -----------------------------
(***************************************************************************)
(* The inductive invariant behind the safety of ListenFds: who owns which  *)
(* number at which point of the code, and what the walk has to do with the *)
(* variables the process was started with.                                 *)
(***************************************************************************)
EXTENDS ListenFds

Given ==
  /\ given.fds \in 0 .. Count \cup {None}
  /\ given.names \in Seq(Names)
  /\ given.file \in [Offsets -> {"closed", "uhid", "socket"}]

(* The numbers a call has taken and not yet handed over.                   *)
InTheCall == IF pc = "idle" THEN {} ELSE Fds(ToSet(passed))

Owned == handles \cup held \cup InTheCall

(* An owned number is open, and has exactly one owner.                     *)
Ownership ==
  /\ \A s \in Offsets : owners[s] = IF s \in Owned THEN 1 ELSE 0
  /\ \A s \in Owned : file[s] # "closed"
  /\ handles \cap held = {}

(* Only the first call addressed to the process gets past the variables,   *)
(* and nothing is open then but what was passed.                           *)
Untouched ==
  /\ pc # "idle" => handles = {} /\ held = {} /\ file = given.file /\ calls > 0
  /\ pc \in {"walk", "unset"} => listen_pid = "ours"
  /\ pc = "sort" => listen_pid = None
  /\ pc = "idle" /\ listen_pid = "ours" =>
       calls = 0 /\ handles = {} /\ held = {} /\ file = given.file
  /\ listen_pid = "ours" => names = given.names

(* The walk takes the numbers in order.                                    *)
InOrder ==
  /\ pc = "walk" => offset = Len(passed)
  /\ TakenAsPassed

(* All of it, which is inductive.                                          *)
Inductive ==
  /\ TypeOK /\ Given
  /\ Ownership /\ Untouched /\ InOrder
  /\ HandlesAreUhid
  /\ OthersLeftAlone

==============================================================================
