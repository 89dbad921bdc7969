---------------------------- MODULE ListenFdsProofs ----------------------------
(***************************************************************************)
(* Theorems about ListenFds, for every number of descriptors, of names and *)
(* of calls.                                                               *)
(***************************************************************************)
EXTENDS ListenFdsInv, TLAPS

(* The numbers in what a walk took in order are the first ones.            *)
LEMMA TakenNumbers ==
  ASSUME NEW taken \in Seq(Entry), \A i \in DOMAIN taken : taken[i].fd = i - 1
  PROVE  /\ Fds(ToSet(taken)) = 0 .. Len(taken) - 1
         /\ Fds(ToSet(taken)) \subseteq Offsets
         /\ \A entry \in ToSet(taken) :
              /\ entry \in Entry
              /\ entry.fd + 1 \in DOMAIN taken /\ taken[entry.fd + 1] = entry
<1>1. Len(taken) \in Nat /\ DOMAIN taken = 1 .. Len(taken)
  OBVIOUS
<1>2. \A i \in DOMAIN taken : taken[i] \in Entry /\ taken[i].fd = i - 1
  OBVIOUS
<1>3. \A entry \in ToSet(taken) :
        entry \in Entry /\ entry.fd + 1 \in DOMAIN taken /\ taken[entry.fd + 1] = entry
  BY <1>1, <1>2 DEF ToSet
<1>4. ASSUME NEW n \in 0 .. Len(taken) - 1
      PROVE  n \in Fds(ToSet(taken))
  <2>1. n + 1 \in DOMAIN taken /\ taken[n + 1].fd = n
    BY <1>1, <1>2
  <2> QED BY <2>1 DEF Fds, ToSet
<1>5. Fds(ToSet(taken)) \subseteq 0 .. Len(taken) - 1
  BY <1>1, <1>2 DEF Fds, ToSet
<1>6. Fds(ToSet(taken)) \subseteq Offsets
  BY <1>3 DEF Fds, Entry
<1> QED BY <1>3, <1>4, <1>5, <1>6

(* The same of what the walk has taken so far.                             *)
LEMMA PassedNumbers ==
  ASSUME TypeOK, InOrder
  PROVE  /\ passed \in Seq(Entry)
         /\ \A i \in DOMAIN passed : passed[i].fd = i - 1
BY DEF TypeOK, InOrder, TakenAsPassed

------------------------------------------------------------------------------
(* The invariant is inductive.                                             *)

(* The process starts owning nothing.                                      *)
LEMMA InitInductive ==
  ASSUME Init
  PROVE  Inductive
<1>1. names \in Seq(Names)
  BY DEF Init, SeqOf
<1>2. TypeOK
  BY <1>1, ListenFdsAssumption DEF Init, TypeOK, Offsets
<1>3. Given
  BY <1>1 DEF Init, Given
<1>4. Ownership
  BY DEF Init, Ownership, Owned, InTheCall
<1>5. Untouched
  BY ListenFdsAssumption DEF Init, Untouched
<1>6. InOrder
  BY DEF Init, InOrder, TakenAsPassed
<1>7. HandlesAreUhid /\ OthersLeftAlone
  BY DEF Init, HandlesAreUhid, OthersLeftAlone
<1> QED BY <1>2, <1>3, <1>4, <1>5, <1>6, <1>7 DEF Inductive

(* A call starts with nothing taken, and ends there unless it is for us.   *)
LEMMA CallInductive ==
  ASSUME Inductive, NEW function \in {"take", "inherited", "inherited_with_others"},
         Call(function)
  PROVE  Inductive'
<1> USE DEF Call, env, table, daemon
<1>1. pc = "idle" /\ passed' = <<>> /\ pc' \in {"idle", "walk"}
  OBVIOUS
<1>2. TypeOK'
  <2>1. passed' \in Seq(Entry) /\ calls' \in 0 .. Calls
    BY <1>1, ListenFdsAssumption DEF Inductive, TypeOK
  <2> QED BY <1>1, <2>1 DEF Inductive, TypeOK
<1>3. Given'
  BY DEF Inductive, Given
<1>4. Ownership'
  <2>1. InTheCall = {} /\ InTheCall' = {}
    BY <1>1 DEF InTheCall, Fds, ToSet
  <2> QED BY <2>1 DEF Inductive, Ownership, Owned, Offsets
<1>5. Untouched'
  BY <1>1, ListenFdsAssumption DEF Inductive, Untouched, TypeOK, announced
<1>6. InOrder'
  BY <1>1 DEF InOrder, TakenAsPassed
<1>7. HandlesAreUhid'
  BY DEF Inductive, HandlesAreUhid
<1>8. OthersLeftAlone'
  BY <1>1 DEF Inductive, OthersLeftAlone
<1> QED BY <1>2, <1>3, <1>4, <1>5, <1>6, <1>7, <1>8 DEF Inductive

(* The number taken is the next one: open, and nobody's yet.               *)
LEMMA TakeOneInductive ==
  ASSUME Inductive, TakeOne
  PROVE  Inductive'
<1> DEFINE entry == [name |-> NameOf(offset), fd |-> offset]
<1>1. /\ TypeOK /\ Ownership /\ Untouched /\ InOrder
      /\ pc = "walk" /\ pc' = "walk" /\ listen_pid = "ours" /\ offset = Len(passed)
      /\ handles = {} /\ held = {} /\ handles' = {} /\ held' = {}
      /\ file = given.file /\ names = given.names
  BY DEF Inductive, Untouched, InOrder, TakeOne, daemon
<1>2. offset \in Offsets
  BY <1>1, ListenFdsAssumption DEF TypeOK, TakeOne, announced, Offsets
<1>3. entry \in Entry
  BY <1>1, <1>2 DEF NameOf, Entry, TypeOK
<1>4. /\ passed' = Append(passed, entry) /\ passed' \in Seq(Entry)
      /\ Len(passed') = Len(passed) + 1
      /\ DOMAIN passed' = DOMAIN passed \cup {Len(passed) + 1}
      /\ \A i \in DOMAIN passed : passed'[i] = passed[i]
      /\ passed'[Len(passed) + 1] = entry
  BY <1>1, <1>3 DEF TakeOne, TypeOK
<1>5. TypeOK'
  <2>1. owners' \in [Offsets -> Nat] /\ cloexec' \subseteq Offsets /\ offset' \in Nat
    <3>1. owners \in [Offsets -> Nat] /\ cloexec \subseteq Offsets /\ offset \in Nat
      BY <1>1 DEF TypeOK
    <3>2. /\ owners' = [owners EXCEPT ![offset] = @ + 1]
          /\ cloexec' = cloexec \cup {offset} /\ offset' = offset + 1
      BY DEF TakeOne
    <3> QED BY <1>2, <3>1, <3>2
  <2> QED BY <1>1, <1>4, <2>1 DEF TypeOK, TakeOne, env, daemon
<1>6. Given'
  BY DEF Inductive, Given, TakeOne
<1>7. InOrder'
  <2>1. offset' = Len(passed')
    BY <1>1, <1>4 DEF TakeOne
  <2>2. ASSUME NEW i \in DOMAIN passed
        PROVE  /\ passed'[i].fd = i - 1 /\ given.file[passed'[i].fd] # "closed"
               /\ passed'[i].name = IF passed'[i].fd + 1 \in DOMAIN given.names
                                    THEN given.names[passed'[i].fd + 1] ELSE None
               /\ passed'[i].fd \in cloexec'
    BY <1>1, <1>4 DEF InOrder, TakenAsPassed, TakeOne
  <2>3. /\ entry.fd = (Len(passed) + 1) - 1 /\ given.file[entry.fd] # "closed"
        /\ entry.name = IF entry.fd + 1 \in DOMAIN given.names
                        THEN given.names[entry.fd + 1] ELSE None
        /\ entry.fd \in cloexec'
    BY <1>1, <1>4 DEF NameOf, TakeOne, TypeOK
  <2>4. TakenAsPassed'
    BY <1>4, <2>2, <2>3 DEF TakenAsPassed, TakeOne
  <2> QED BY <2>1, <2>4 DEF InOrder
<1>8. Ownership'
  <2>1. Owned = 0 .. Len(passed) - 1
    BY <1>1, PassedNumbers, TakenNumbers DEF Owned, InTheCall
  <2>2. Owned' = 0 .. Len(passed') - 1
    <3>1. \A i \in DOMAIN passed' : passed'[i].fd = i - 1
      BY <1>7 DEF InOrder, TakenAsPassed
    <3>2. Fds(ToSet(passed')) = 0 .. Len(passed') - 1
      BY <1>4, <3>1, TakenNumbers
    <3> QED BY <1>1, <3>2 DEF Owned, InTheCall
  <2>3. Len(passed) \in Nat /\ Owned' = Owned \cup {offset} /\ offset \notin Owned
    BY <1>1, <1>4, <2>1, <2>2 DEF TypeOK
  <2>4. /\ owners \in [Offsets -> Nat] /\ owners' = [owners EXCEPT ![offset] = @ + 1]
        /\ file' = file /\ file[offset] # "closed"
    BY <1>1 DEF TypeOK, TakeOne
  <2>5. /\ \A s \in Offsets : owners[s] = IF s \in Owned THEN 1 ELSE 0
        /\ \A s \in Owned : file[s] # "closed"
    BY <1>1 DEF Ownership
  <2>6. \A s \in Offsets : owners'[s] = IF s \in Owned' THEN 1 ELSE 0
    BY <1>2, <2>3, <2>4, <2>5
  <2>7. \A s \in Owned' : file'[s] # "closed"
    BY <2>3, <2>4, <2>5
  <2> QED BY <1>1, <2>6, <2>7 DEF Ownership
<1>9. Untouched'
  BY <1>1 DEF Inductive, Untouched, TakeOne, env
<1>10. HandlesAreUhid'
  BY <1>1 DEF HandlesAreUhid
<1>11. OthersLeftAlone'
  BY <1>1 DEF Inductive, OthersLeftAlone, TakeOne, env
<1> QED BY <1>5, <1>6, <1>7, <1>8, <1>9, <1>10, <1>11 DEF Inductive

(* The end of the walk gives up no number.                                 *)
LEMMA StopWalkInductive ==
  ASSUME Inductive, StopWalk
  PROVE  Inductive'
<1> USE DEF StopWalk, env, table, daemon
<1>1. TypeOK' /\ Given'
  BY DEF Inductive, TypeOK, Given
<1>2. Ownership'
  BY DEF Inductive, Ownership, Owned, InTheCall
<1>3. Untouched'
  BY DEF Inductive, Untouched
<1>4. InOrder'
  BY DEF Inductive, InOrder, TakenAsPassed
<1>5. HandlesAreUhid' /\ OthersLeftAlone'
  BY DEF Inductive, HandlesAreUhid, OthersLeftAlone
<1> QED BY <1>1, <1>2, <1>3, <1>4, <1>5 DEF Inductive

(* take hands what it took to its caller, and the variables are gone.      *)
LEMMA UnsetInductive ==
  ASSUME Inductive, unset
  PROVE  Inductive'
<1> USE DEF unset, table
<1>1. /\ TypeOK /\ Untouched /\ InOrder /\ pc = "unset" /\ pc' \in {"idle", "sort"}
      /\ handles = {} /\ held = {} /\ listen_pid = "ours" /\ calls > 0
      /\ passed' = passed /\ file' = file
  BY DEF Inductive, Untouched
<1>2. /\ mode = "take" => handles' = {} /\ held' = Fds(ToSet(passed)) /\ pc' = "idle"
      /\ mode # "take" => handles' = {} /\ held' = {} /\ pc' = "sort"
  BY <1>1 DEF ToDaemon, daemon
<1>3. TypeOK'
  BY <1>1, <1>2, PassedNumbers, TakenNumbers DEF TypeOK
<1>4. Given'
  BY DEF Inductive, Given
<1>5. Ownership'
  <2>1. Owned = Fds(ToSet(passed))
    BY <1>1 DEF Owned, InTheCall
  <2>2. Owned' = Fds(ToSet(passed))
    BY <1>1, <1>2 DEF Owned, InTheCall
  <2>3. handles' \cap held' = {}
    BY <1>2
  <2> QED BY <2>1, <2>2, <2>3 DEF Inductive, Ownership
<1>6. Untouched'
  BY <1>1, <1>2, ListenFdsAssumption DEF Untouched
<1>7. InOrder'
  BY <1>1 DEF InOrder, TakenAsPassed
<1>8. HandlesAreUhid'
  BY <1>2 DEF HandlesAreUhid
<1>9. OthersLeftAlone'
  BY <1>1 DEF Inductive, OthersLeftAlone
<1> QED BY <1>3, <1>4, <1>5, <1>6, <1>7, <1>8, <1>9 DEF Inductive

(* The sorting closes what it does not hand over.                          *)
LEMMA AdoptNamedInductive ==
  ASSUME Inductive, adopt_named
  PROVE  Inductive'
<1> DEFINE all == Fds(ToSet(passed))
           adopted == Fds({entry \in ToSet(passed) : is_handle(entry)})
<1>1. /\ TypeOK /\ Untouched /\ InOrder /\ pc = "sort" /\ pc' = "idle"
      /\ handles = {} /\ held = {} /\ listen_pid = None /\ calls > 0
      /\ passed' = passed /\ Owned = all
  BY DEF Inductive, Untouched, adopt_named, Owned, InTheCall
<1>2. adopted \subseteq all /\ all \subseteq Offsets
  BY <1>1, PassedNumbers, TakenNumbers DEF Fds
<1>3. \A s \in adopted : file[s] = "uhid"
  BY DEF Fds, is_handle
<1>4. PICK closed \in SUBSET all :
        /\ Close(closed) /\ handles' = adopted \ closed
        /\ held' = IF mode = "inherited" THEN {} ELSE all \ adopted
        /\ closed \cap held' = {}
        /\ handles' \cup held' = all \ closed
  <2>1. PICK refused \in SUBSET adopted :
          IF mode = "inherited"
          THEN Close(refused \cup (all \ adopted)) /\ ToDaemon(adopted \ refused, {})
          ELSE Close(refused) /\ ToDaemon(adopted \ refused, all \ adopted)
    BY DEF adopt_named
  <2>2. CASE mode = "inherited"
    <3>1. Close(refused \cup (all \ adopted)) /\ handles' = adopted \ refused /\ held' = {}
      BY <1>1, <2>1, <2>2 DEF ToDaemon
    <3> DEFINE gone == refused \cup (all \ adopted)
    <3>2. gone \in SUBSET all /\ adopted \ refused = adopted \ gone
      BY <1>2
    <3>3. gone \cap held' = {} /\ handles' \cup held' = all \ gone
      BY <1>2, <3>1
    <3> QED BY <2>2, <3>1, <3>2, <3>3
  <2>3. CASE mode # "inherited"
    <3>1. Close(refused) /\ handles' = adopted \ refused /\ held' = all \ adopted
      BY <1>1, <2>1, <2>3 DEF ToDaemon
    <3> QED BY <1>2, <2>3, <3>1
  <2> QED BY <2>2, <2>3
<1>5. /\ \A s \in all : owners[s] = 1 /\ file[s] # "closed"
      /\ \A s \in Offsets \ all : owners[s] = 0
  BY <1>1, <1>2 DEF Inductive, Ownership
<1>6. \A s \in Offsets :
        /\ owners'[s] = IF s \in all \ closed THEN 1 ELSE 0
        /\ file'[s] = IF s \in closed THEN "closed" ELSE file[s]
  BY <1>2, <1>4, <1>5 DEF Close
<1>7. TypeOK'
  <2>1. file' \in [Offsets -> {"closed", "uhid", "socket"}] /\ cloexec' \subseteq Offsets
    BY <1>1, <1>4 DEF TypeOK, Close
  <2>2. owners' \in [Offsets -> Nat]
    BY <1>4, <1>6 DEF Close
  <2>3. handles' \subseteq Offsets /\ held' \subseteq Offsets
    BY <1>2, <1>4
  <2> QED BY <1>1, <2>1, <2>2, <2>3 DEF TypeOK, adopt_named, env
<1>8. Given'
  BY DEF Inductive, Given, adopt_named
<1>9. Ownership'
  <2>1. Owned' = all \ closed
    BY <1>1, <1>4 DEF Owned, InTheCall
  <2>2. handles' \cap held' = {}
    BY <1>4
  <2> QED BY <1>2, <1>5, <1>6, <2>1, <2>2 DEF Ownership
<1>10. Untouched'
  BY <1>1, ListenFdsAssumption DEF Untouched, adopt_named, env
<1>11. InOrder'
  BY <1>1 DEF InOrder, TakenAsPassed, adopt_named
<1>12. HandlesAreUhid'
  BY <1>2, <1>3, <1>4, <1>6 DEF HandlesAreUhid
<1>13. OthersLeftAlone'
  BY <1>1, ListenFdsAssumption DEF Inductive, OthersLeftAlone, adopt_named, env
<1> QED BY <1>7, <1>8, <1>9, <1>10, <1>11, <1>12, <1>13 DEF Inductive

(* Between its calls the daemon works on numbers of its own, or on free    *)
(* ones: it lets go of some, opens others, and makes handles of some.      *)
LEMMA IdleInductive ==
  ASSUME Inductive, pc = "idle", calls > 0 \/ handles \cup held # {},
         NEW closed \in SUBSET (handles \cup held), NEW opened \in SUBSET Offsets,
         \A s \in opened : file[s] = "closed",
         file' \in [Offsets -> {"closed", "uhid", "socket"}],
         owners' \in [Offsets -> Nat],
         cloexec' \subseteq cloexec,
         handles' \cup held' = ((handles \cup held) \ closed) \cup opened,
         handles' \cap held' = {},
         \A s \in Offsets \ (closed \cup opened) :
           file'[s] = file[s] /\ owners'[s] = owners[s],
         \A s \in closed : owners'[s] = owners[s] - 1,
         \A s \in opened : owners'[s] = owners[s] + 1 /\ file'[s] # "closed",
         \A s \in handles' : file'[s] = "uhid",
         UNCHANGED <<env, pc, mode, offset, passed, given, calls>>
  PROVE  Inductive'
<1> USE DEF env
<1>1. TypeOK /\ Ownership /\ Untouched /\ InOrder /\ listen_pid # "ours"
  BY DEF Inductive, Untouched, TypeOK
<1>2. Owned = handles \cup held /\ Owned' = handles' \cup held' /\ Owned \subseteq Offsets
  BY <1>1 DEF Owned, InTheCall, TypeOK
<1>3. /\ \A s \in Offsets : owners[s] = IF s \in Owned THEN 1 ELSE 0
      /\ \A s \in Owned : file[s] # "closed"
  BY <1>1 DEF Ownership
<1>4. \A s \in opened : s \notin Owned
  BY <1>3
<1>5. \A s \in Offsets : owners'[s] = IF s \in Owned' THEN 1 ELSE 0
  BY <1>2, <1>3, <1>4
<1>6. TypeOK'
  BY <1>1, <1>2 DEF TypeOK
<1>7. Given'
  BY DEF Inductive, Given
<1>8. Ownership'
  <2>1. \A s \in Owned' : file'[s] # "closed"
    BY <1>2, <1>3, <1>4
  <2> QED BY <1>5, <2>1 DEF Ownership
<1>9. Untouched'
  BY <1>1 DEF Untouched
<1>10. InOrder'
  BY <1>1 DEF InOrder, TakenAsPassed
<1>11. HandlesAreUhid'
  BY <1>2, <1>5, <1>6 DEF HandlesAreUhid, TypeOK
<1>12. OthersLeftAlone'
  BY DEF Inductive, OthersLeftAlone
<1> QED BY <1>6, <1>7, <1>8, <1>9, <1>10, <1>11, <1>12 DEF Inductive

(* What Close does to numbers the daemon owns, while it is idle.           *)
LEMMA CloseOne ==
  ASSUME Inductive, pc = "idle", NEW s \in handles \cup held, Close({s})
  PROVE  /\ s \in Offsets
         /\ file' \in [Offsets -> {"closed", "uhid", "socket"}]
         /\ owners' \in [Offsets -> Nat]
         /\ cloexec' \subseteq cloexec
         /\ \A n \in Offsets \ {s} : file'[n] = file[n] /\ owners'[n] = owners[n]
         /\ owners'[s] = owners[s] - 1
<1>1. TypeOK /\ s \in Offsets /\ owners[s] = 1
  BY DEF Inductive, TypeOK, Ownership, Owned, InTheCall
<1>2. file \in [Offsets -> {"closed", "uhid", "socket"}] /\ owners \in [Offsets -> Nat]
  BY <1>1 DEF TypeOK
<1> QED BY <1>1, <1>2 DEF Close

(* What opening a file on a free number does.                              *)
LEMMA OpenOne ==
  ASSUME Inductive, NEW s \in Offsets, NEW kind \in {"uhid", "socket"},
         file' = [file EXCEPT ![s] = kind],
         owners' = [owners EXCEPT ![s] = @ + 1]
  PROVE  /\ file' \in [Offsets -> {"closed", "uhid", "socket"}]
         /\ owners' \in [Offsets -> Nat]
         /\ \A n \in Offsets \ {s} : file'[n] = file[n] /\ owners'[n] = owners[n]
         /\ owners'[s] = owners[s] + 1 /\ file'[s] = kind
<1>1. file \in [Offsets -> {"closed", "uhid", "socket"}] /\ owners \in [Offsets -> Nat]
  BY DEF Inductive, TypeOK
<1> QED BY <1>1

(* What the daemon holds, between its calls.                               *)
LEMMA IdleFacts ==
  ASSUME Inductive
  PROVE  /\ handles \subseteq Offsets /\ held \subseteq Offsets /\ handles \cap held = {}
         /\ \A s \in handles \cup held : file[s] # "closed"
         /\ \A s \in handles : file[s] = "uhid"
BY DEF Inductive, TypeOK, Ownership, Owned, HandlesAreUhid

(* Dropping a value closes its number.                                     *)
LEMMA DropInductive ==
  ASSUME Inductive, NEW s \in Offsets, Drop(s)
  PROVE  Inductive'
<1>1. /\ pc = "idle" /\ s \in handles \cup held /\ Close({s})
      /\ handles' = handles \ {s} /\ held' = held \ {s}
      /\ UNCHANGED <<env, pc, mode, offset, passed, given, calls>>
  BY DEF Drop
<1>2. /\ handles' \cup held' = ((handles \cup held) \ {s}) \cup {}
      /\ handles' \cap held' = {} /\ handles' \subseteq Offsets \ {s}
      /\ \A n \in handles' : file[n] = "uhid"
  BY <1>1, IdleFacts
<1>3. /\ {s} \in SUBSET (handles \cup held) /\ {} \in SUBSET Offsets
      /\ \A n \in Offsets \ ({s} \cup {}) : file'[n] = file[n] /\ owners'[n] = owners[n]
      /\ \A n \in {s} : owners'[n] = owners[n] - 1
      /\ \A n \in handles' : file'[n] = "uhid"
  BY <1>1, <1>2, CloseOne
<1> QED BY <1>1, <1>2, <1>3, CloseOne, IdleInductive

(* A descriptor becomes a handle, or is closed.                            *)
LEMMA FromFdInductive ==
  ASSUME Inductive, NEW s \in Offsets, from_fd(s)
  PROVE  Inductive'
<1>1. /\ pc = "idle" /\ s \in held /\ held' = held \ {s}
      /\ UNCHANGED <<env, pc, mode, offset, passed, given, calls>>
  BY DEF from_fd
<1>2. CASE file[s] = "uhid" /\ handles' = handles \cup {s} /\ UNCHANGED table
  <2>1. /\ file' = file /\ owners' = owners /\ cloexec' = cloexec
        /\ file \in [Offsets -> {"closed", "uhid", "socket"}] /\ owners \in [Offsets -> Nat]
    BY <1>2 DEF table, Inductive, TypeOK
  <2>2. /\ handles' \cup held' = ((handles \cup held) \ {}) \cup {}
        /\ handles' \cap held' = {}
        /\ \A n \in handles' : file'[n] = "uhid"
    BY <1>1, <1>2, <2>1, IdleFacts
  <2>3. {} \in SUBSET (handles \cup held) /\ {} \in SUBSET Offsets
    OBVIOUS
  <2>4. \A n \in Offsets \ ({} \cup {}) : file'[n] = file[n] /\ owners'[n] = owners[n]
    BY <2>1
  <2> QED BY <1>1, <2>1, <2>2, <2>3, <2>4, IdleInductive
<1>3. CASE Close({s}) /\ UNCHANGED handles
  <2>1. /\ handles' \cup held' = ((handles \cup held) \ {s}) \cup {}
        /\ handles' \cap held' = {} /\ handles' \subseteq Offsets \ {s}
        /\ \A n \in handles' : file[n] = "uhid"
    BY <1>1, <1>3, IdleFacts
  <2>2. /\ {s} \in SUBSET (handles \cup held) /\ {} \in SUBSET Offsets
        /\ \A n \in Offsets \ ({s} \cup {}) : file'[n] = file[n] /\ owners'[n] = owners[n]
        /\ \A n \in {s} : owners'[n] = owners[n] - 1
        /\ \A n \in handles' : file'[n] = "uhid"
    BY <1>1, <1>3, <2>1, CloseOne
  <2> QED BY <1>1, <1>3, <2>1, <2>2, CloseOne, IdleInductive
<1> QED BY <1>2, <1>3 DEF from_fd

(* Opening a file takes a number nobody owns.                              *)
LEMMA OpenInductive ==
  ASSUME Inductive, NEW s \in Offsets, Open(s) \/ open(s)
  PROVE  Inductive'
<1>1. /\ pc = "idle" /\ calls > 0 /\ file[s] = "closed" /\ cloexec' = cloexec
      /\ owners' = [owners EXCEPT ![s] = @ + 1]
      /\ UNCHANGED <<env, pc, mode, offset, passed, given, calls>>
  BY DEF Open, open
<1>2. /\ {} \in SUBSET (handles \cup held) /\ {s} \in SUBSET Offsets
      /\ s \notin handles \cup held
      /\ \A n \in {s} : file[n] = "closed"
  BY <1>1, IdleFacts
<1>3. CASE Open(s)
  <2>1. /\ file' = [file EXCEPT ![s] = "socket"]
        /\ held' = held \cup {s} /\ handles' = handles
    BY <1>3 DEF Open
  <2>2. /\ handles' \cup held' = ((handles \cup held) \ {}) \cup {s}
        /\ handles' \cap held' = {} /\ handles' \subseteq Offsets \ {s}
        /\ \A n \in handles' : file[n] = "uhid"
    BY <1>2, <2>1, IdleFacts
  <2>3. /\ \A n \in Offsets \ ({} \cup {s}) : file'[n] = file[n] /\ owners'[n] = owners[n]
        /\ \A n \in {s} : owners'[n] = owners[n] + 1 /\ file'[n] # "closed"
        /\ \A n \in handles' : file'[n] = "uhid"
    BY <1>1, <2>1, <2>2, OpenOne
  <2>4. /\ file' \in [Offsets -> {"closed", "uhid", "socket"}]
        /\ owners' \in [Offsets -> Nat] /\ cloexec' \subseteq cloexec
    BY <1>1, <2>1, OpenOne
  <2> QED BY <1>1, <1>2, <2>2, <2>3, <2>4, IdleInductive
<1>4. CASE open(s)
  <2>1. /\ file' = [file EXCEPT ![s] = "uhid"]
        /\ handles' = handles \cup {s} /\ held' = held
    BY <1>4 DEF open
  <2>2. /\ handles' \cup held' = ((handles \cup held) \ {}) \cup {s}
        /\ handles' \cap held' = {} /\ handles' \subseteq Offsets
        /\ \A n \in handles' \ {s} : file[n] = "uhid"
    BY <1>2, <2>1, IdleFacts
  <2>3. /\ \A n \in Offsets \ ({} \cup {s}) : file'[n] = file[n] /\ owners'[n] = owners[n]
        /\ \A n \in {s} : owners'[n] = owners[n] + 1 /\ file'[n] # "closed"
        /\ \A n \in handles' : file'[n] = "uhid"
    BY <1>1, <2>1, <2>2, OpenOne
  <2>4. /\ file' \in [Offsets -> {"closed", "uhid", "socket"}]
        /\ owners' \in [Offsets -> Nat] /\ cloexec' \subseteq cloexec
    BY <1>1, <2>1, OpenOne
  <2> DEFINE gone == {}
             new == {s}
  <2>5. /\ gone \in SUBSET (handles \cup held) /\ new \in SUBSET Offsets
        /\ \A n \in new : file[n] = "closed"
        /\ handles' \cup held' = ((handles \cup held) \ gone) \cup new
        /\ \A n \in Offsets \ (gone \cup new) : file'[n] = file[n] /\ owners'[n] = owners[n]
        /\ \A n \in gone : owners'[n] = owners[n] - 1
        /\ \A n \in new : owners'[n] = owners[n] + 1 /\ file'[n] # "closed"
    BY <1>2, <2>2, <2>3
  <2> HIDE DEF gone, new
  <2> QED BY <1>1, <2>2, <2>3, <2>4, <2>5, IdleInductive
<1> QED BY <1>3, <1>4

(* No step breaks the invariant.                                           *)
LEMMA StepInductive ==
  ASSUME Inductive, [Next]_vars
  PROVE  Inductive'
<1>1. CASE \E function \in {"take", "inherited", "inherited_with_others"} : Call(function)
  BY <1>1, CallInductive
<1>2. CASE TakeOne
  BY <1>2, TakeOneInductive
<1>3. CASE StopWalk
  BY <1>3, StopWalkInductive
<1>4. CASE unset
  BY <1>4, UnsetInductive
<1>5. CASE adopt_named
  BY <1>5, AdoptNamedInductive
<1>6. CASE \E s \in Offsets : Drop(s)
  BY <1>6, DropInductive
<1>7. CASE \E s \in Offsets : from_fd(s)
  BY <1>7, FromFdInductive
<1>8. CASE \E s \in Offsets : Open(s) \/ open(s)
  BY <1>8, OpenInductive
<1>9. CASE UNCHANGED vars
  <2> USE <1>9 DEF vars, env, table, daemon
  <2>1. TypeOK' /\ Given'
    BY DEF Inductive, TypeOK, Given
  <2>2. Ownership'
    BY DEF Inductive, Ownership, Owned, InTheCall
  <2>3. Untouched' /\ InOrder'
    BY DEF Inductive, Untouched, InOrder, TakenAsPassed
  <2>4. HandlesAreUhid' /\ OthersLeftAlone'
    BY DEF Inductive, HandlesAreUhid, OthersLeftAlone
  <2> QED BY <2>1, <2>2, <2>3, <2>4 DEF Inductive
<1> QED BY <1>1, <1>2, <1>3, <1>4, <1>5, <1>6, <1>7, <1>8, <1>9 DEF Next

(* The invariant of everything listen_fds and Handle do with descriptors.  *)
THEOREM DescriptorsInductive == Spec => []Inductive
<1>1. Init => Inductive
  BY InitInductive
<1>2. Inductive /\ [Next]_vars => Inductive'
  BY StepInductive
<1> QED BY <1>1, <1>2, PTL DEF Spec

------------------------------------------------------------------------------
(* What follows from it.                                                   *)

(* Every variable has its type, however many descriptors are passed.       *)
THEOREM TypeCorrect == Spec => []TypeOK
<1>1. Inductive => TypeOK
  BY DEF Inductive
<1> QED BY <1>1, DescriptorsInductive, PTL

(* An adopted number is owned once, and open, in every reachable state.    *)
THEOREM SoleOwnerHolds == Spec => []SoleOwner
<1>1. Inductive => SoleOwner
  BY DEF Inductive, Ownership, SoleOwner
<1> QED BY <1>1, DescriptorsInductive, PTL

(* Between calls nothing that was adopted is out of the daemon's hands.    *)
THEOREM NothingLostHolds == Spec => []NothingLost
<1>1. Inductive => NothingLost
  BY DEF Inductive, Ownership, Owned, InTheCall, NothingLost
<1> QED BY <1>1, DescriptorsInductive, PTL

(* Every Handle is open on /dev/uhid and the only owner of its number.     *)
THEOREM HandlesAreUhidHolds == Spec => []HandlesAreUhid
<1>1. Inductive => HandlesAreUhid
  BY DEF Inductive
<1> QED BY <1>1, DescriptorsInductive, PTL

(* The variables and descriptors of another process are never touched.     *)
THEOREM OthersLeftAloneHolds == Spec => []OthersLeftAlone
<1>1. Inductive => OthersLeftAlone
  BY DEF Inductive
<1> QED BY <1>1, DescriptorsInductive, PTL

(* The walk takes the open numbers in order, each with the name it was     *)
(* passed under, and makes them close-on-exec.                             *)
THEOREM WalkHolds == Spec => []TakenAsPassed
<1>1. Inductive => TakenAsPassed
  BY DEF Inductive, InOrder
<1> QED BY <1>1, DescriptorsInductive, PTL

(* The handles inherited makes were passed under a name with that prefix.  *)
THEOREM InheritedByNameHolds == Spec => InheritedByName
<1> DEFINE named == \A s \in handles' \ handles :
                      s + 1 \in DOMAIN given.names /\ given.names[s + 1] \in Prefixed
<1>1. ASSUME Inductive, [Next]_vars
      PROVE  [pc = "sort" => named]_vars
  <2> SUFFICES ASSUME pc = "sort", ~UNCHANGED vars, NEW s \in handles' \ handles
               PROVE  s + 1 \in DOMAIN given.names /\ given.names[s + 1] \in Prefixed
    OBVIOUS
  <2>1. adopt_named
    BY <1>1 DEF Next, Call, TakeOne, StopWalk, unset, Drop, Open, open, from_fd
  <2>2. TypeOK /\ TakenAsPassed /\ InOrder
    BY <1>1 DEF Inductive, InOrder
  <2>3. s \in Fds({entry \in ToSet(passed) : is_handle(entry)})
    BY <2>1 DEF adopt_named, ToDaemon
  <2>4. PICK entry \in ToSet(passed) : entry.fd = s /\ entry.name \in Prefixed
    BY <2>3 DEF Fds, is_handle
  <2>5. s + 1 \in DOMAIN passed /\ passed[s + 1] = entry
    BY <2>2, <2>4, PassedNumbers, TakenNumbers
  <2>6. entry.name = IF s + 1 \in DOMAIN given.names THEN given.names[s + 1] ELSE None
    BY <2>2, <2>4, <2>5 DEF TakenAsPassed
  <2> QED BY <2>4, <2>6, ListenFdsAssumption
<1> QED BY <1>1, DescriptorsInductive, PTL DEF Spec, InheritedByName

==============================================================================
