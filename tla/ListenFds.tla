------------------------------ MODULE ListenFds ------------------------------
(***************************************************************************)
(* The descriptors a service manager passed down (listen_fds.rs) and the   *)
(* handles made of them (handle.rs): the walk over the announced numbers,  *)
(* one descriptor at a time, the removal of the variables, and the sorting *)
(* into handles and the rest - called more than once by a daemon that also *)
(* closes what it was given and opens files of its own, on the numbers     *)
(* that become free.  A descriptor is its number less LISTEN_FDS_START.    *)
(***************************************************************************)
EXTENDS Naturals, Sequences, SequencesExt

CONSTANTS
  Count,     \* the descriptors that can be passed
  Prefixed,  \* the names that start with the prefix the daemon looks for
  Names,     \* the names they are passed under
  None,      \* stands for Rust's None, an absent variable or one not a number
  Calls      \* bound on the calls one process makes

ASSUME ListenFdsAssumption ==
  /\ Count \in Nat \ {0} /\ Calls \in Nat
  /\ Prefixed \subseteq Names
  /\ None \notin Nat \cup Names \cup {"ours", "other"}

VARIABLES
  listen_pid,  \* "ours", "other", or None
  listen_fds,  \* a number, or None: absent, no number, or out of bounds
  names,       \* LISTEN_FDNAMES, split
  file,        \* what each number is open on
  cloexec,     \* the numbers take made close-on-exec
  owners,      \* how many values of the process own each number
  pc,          \* "idle", in the "walk", about to "unset", or to "sort"
  mode,        \* which function was called
  offset,      \* of the walk
  passed,      \* what it has taken
  handles,     \* what the daemon holds as a Handle
  held,        \* what else it holds
  given,       \* the variables and the files as the process was started
  calls        \* how many calls there were

env == <<listen_pid, listen_fds, names>>
table == <<file, cloexec, owners>>
daemon == <<handles, held>>
vars == <<env, table, pc, mode, offset, passed, daemon, given, calls>>

Offsets == 0 .. Count - 1
Entry == [name : Names \cup {None}, fd : Offsets]

(* Every variable has its type.                                            *)
TypeOK ==
  /\ listen_pid \in {"ours", "other", None}
  /\ listen_fds \in 0 .. Count \cup {None}
  /\ names \in Seq(Names)
  /\ file \in [Offsets -> {"closed", "uhid", "socket"}]
  /\ cloexec \subseteq Offsets
  /\ owners \in [Offsets -> Nat]
  /\ pc \in {"idle", "walk", "unset", "sort"}
  /\ mode \in {"take", "inherited", "inherited_with_others"}
  /\ offset \in Nat
  /\ passed \in Seq(Entry)
  /\ handles \subseteq Offsets /\ held \subseteq Offsets
  /\ calls \in 0 .. Calls

(* The variables may announce more, or fewer, than is there, but what is   *)
(* open in that range was passed: nobody else owns it.                     *)
Init ==
  /\ listen_pid \in {"ours", "other", None}
  /\ listen_fds \in 0 .. Count \cup {None}
  /\ names \in SeqOf(Names, Count)
  /\ file \in [Offsets -> {"closed", "uhid", "socket"}]
  /\ cloexec = {}
  /\ owners = [s \in Offsets |-> 0]
  /\ pc = "idle"
  /\ mode = "take"
  /\ offset = 0
  /\ passed = <<>>
  /\ handles = {} /\ held = {}
  /\ given = [pid |-> listen_pid, fds |-> listen_fds, names |-> names, file |-> file]
  /\ calls = 0

------------------------------------------------------------------------------
(* listen_fds::take.                                                       *)

BugAnyPid == IF listen_pid = None THEN None ELSE IF listen_fds = None THEN 0 ELSE listen_fds

(* None when the variables are not ours; nothing sensible announces 0.     *)
announced ==
  IF listen_pid # "ours" THEN None ELSE IF listen_fds = None THEN 0 ELSE listen_fds

Call(function) ==
  /\ pc = "idle"
  /\ calls < Calls
  /\ calls' = calls + 1
  /\ mode' = function
  /\ offset' = 0
  /\ passed' = <<>>
  /\ pc' = IF announced = None THEN "idle" ELSE "walk"
  /\ UNCHANGED <<env, table, daemon, given>>

BugNameOffByOne(s) == IF s + 2 \in DOMAIN names THEN names[s + 2] ELSE None

NameOf(s) == IF s + 1 \in DOMAIN names THEN names[s + 1] ELSE None

TakeOne ==
  /\ pc = "walk"
  /\ offset < announced
  /\ file[offset] # "closed"
  /\ owners' = [owners EXCEPT ![offset] = @ + 1]
  /\ cloexec' = cloexec \cup {offset}
  /\ passed' = Append(passed, [name |-> NameOf(offset), fd |-> offset])
  /\ offset' = offset + 1
  /\ UNCHANGED <<env, file, pc, mode, daemon, given, calls>>

BugClosesNotOurs ==
  /\ pc = "walk"
  /\ offset < announced => file[offset] = "closed"
  /\ pc' = "unset"
  /\ owners' = IF offset < announced THEN [owners EXCEPT ![offset] = @ - 1] ELSE owners
  /\ UNCHANGED <<env, file, cloexec, mode, offset, passed, daemon, given, calls>>

(* All of them were taken, or the number is not open: it is let go.        *)
StopWalk ==
  /\ pc = "walk"
  /\ offset < announced => file[offset] = "closed"
  /\ pc' = "unset"
  /\ UNCHANGED <<env, table, mode, offset, passed, daemon, given, calls>>

ToDaemon(kept, others) ==
  /\ handles' = handles \cup kept
  /\ held' = held \cup others

Fds(entries) == {entry.fd : entry \in entries}

BugUnsetForgotten ==
  /\ pc = "unset"
  /\ IF mode = "take"
     THEN ToDaemon({}, Fds(ToSet(passed))) /\ pc' = "idle"
     ELSE UNCHANGED daemon /\ pc' = "sort"
  /\ UNCHANGED <<env, table, mode, offset, passed, given, calls>>

unset ==
  /\ pc = "unset"
  /\ listen_pid' = None /\ listen_fds' = None /\ names' = <<>>
  /\ IF mode = "take"
     THEN ToDaemon({}, Fds(ToSet(passed))) /\ pc' = "idle"
     ELSE UNCHANGED daemon /\ pc' = "sort"
  /\ UNCHANGED <<table, mode, offset, passed, given, calls>>

------------------------------------------------------------------------------
(* Handle::inherited and inherited_with_others.                            *)

BugNameAlone(entry) == entry.name \in Prefixed

BugUhidAlone(entry) == file[entry.fd] = "uhid"

is_handle(entry) == entry.name \in Prefixed /\ file[entry.fd] = "uhid"

Close(fds) ==
  /\ file' = [s \in Offsets |-> IF s \in fds THEN "closed" ELSE file[s]]
  /\ cloexec' = cloexec \ fds
  /\ owners' = [s \in Offsets |-> IF s \in fds THEN owners[s] - 1 ELSE owners[s]]

BugOthersLeaked ==
  /\ pc = "sort"
  /\ ToDaemon(Fds({entry \in ToSet(passed) : is_handle(entry)}), {})
  /\ pc' = "idle"
  /\ UNCHANGED <<env, table, mode, offset, passed, given, calls>>

(* Making a handle non-blocking may fail, and then it is closed.           *)
adopt_named ==
  /\ pc = "sort"
  /\ LET adopted == Fds({entry \in ToSet(passed) : is_handle(entry)})
         others == Fds(ToSet(passed)) \ adopted
     IN  \E refused \in SUBSET adopted :
           IF mode = "inherited"
           THEN Close(refused \cup others) /\ ToDaemon(adopted \ refused, {})
           ELSE Close(refused) /\ ToDaemon(adopted \ refused, others)
  /\ pc' = "idle"
  /\ UNCHANGED <<env, mode, offset, passed, given, calls>>

------------------------------------------------------------------------------
(* The daemon, between its calls.                                          *)

Drop(s) ==
  /\ pc = "idle"
  /\ s \in handles \cup held
  /\ Close({s})
  /\ handles' = handles \ {s}
  /\ held' = held \ {s}
  /\ UNCHANGED <<env, pc, mode, offset, passed, given, calls>>

(* A file of its own takes a number that is free - after the first call,   *)
(* which take's contract puts at the top of main.                          *)
Open(s) ==
  /\ pc = "idle"
  /\ file[s] = "closed"
  /\ calls > 0
  /\ file' = [file EXCEPT ![s] = "socket"]
  /\ owners' = [owners EXCEPT ![s] = @ + 1]
  /\ held' = held \cup {s}
  /\ UNCHANGED <<env, cloexec, pc, mode, offset, passed, handles, given, calls>>

(* Handle::from_fd, which takes the descriptor whatever comes of it.       *)
from_fd(s) ==
  /\ pc = "idle"
  /\ s \in held
  /\ held' = held \ {s}
  /\ \/ /\ file[s] = "uhid"
        /\ handles' = handles \cup {s}
        /\ UNCHANGED table
     \/ Close({s}) /\ UNCHANGED handles
  /\ UNCHANGED <<env, pc, mode, offset, passed, given, calls>>

(* Handle::open; of what is not uhid, it leaves nothing behind.            *)
open(s) ==
  /\ pc = "idle"
  /\ file[s] = "closed"
  /\ calls > 0
  /\ file' = [file EXCEPT ![s] = "uhid"]
  /\ owners' = [owners EXCEPT ![s] = @ + 1]
  /\ handles' = handles \cup {s}
  /\ UNCHANGED <<env, cloexec, pc, mode, offset, passed, held, given, calls>>

Next ==
  \/ \E function \in {"take", "inherited", "inherited_with_others"} : Call(function)
  \/ TakeOne \/ StopWalk \/ unset \/ adopt_named
  \/ \E s \in Offsets : Drop(s) \/ Open(s) \/ from_fd(s) \/ open(s)

Spec == Init /\ [][Next]_vars

------------------------------------------------------------------------------

(* A number has one owner at most, which is what OwnedFd relies on         *)
(* (listen_fds.rs:66-70), and only while it is open - however often the    *)
(* daemon calls, and whatever it opened on the same number meanwhile.      *)
SoleOwner == \A s \in Offsets : owners[s] <= 1 /\ (owners[s] = 1 => file[s] # "closed")

(* Between calls every owned number is in the daemon's hands, so none is   *)
(* leaked by inherited and none closed behind its back.                    *)
NothingLost == pc = "idle" => \A s \in Offsets : owners[s] = 1 <=> s \in handles \cup held

(* Uhid events are only ever written into /dev/uhid, however a handle was  *)
(* come by and whatever its number was before (handle.rs:48-49).           *)
HandlesAreUhid == \A s \in handles : owners[s] = 1 /\ file[s] = "uhid"

(* What the process makes its handles of by itself was passed under a name *)
(* with the prefix asked for (handle.rs:84).                               *)
InheritedByName ==
  [][pc = "sort" =>
       \A s \in handles' \ handles :
         s + 1 \in DOMAIN given.names /\ given.names[s + 1] \in Prefixed]_vars

(* Variables addressed to another process are left for it, and so are the  *)
(* descriptors (listen_fds.rs:26-28).                                      *)
OthersLeftAlone ==
  given.pid = "other" =>
    /\ listen_pid = "other" /\ listen_fds = given.fds /\ names = given.names
    /\ passed = <<>> /\ cloexec = {}

(* The walk takes the open descriptors in order and never reaches past the *)
(* first number that is not open, whatever the variables announced         *)
(* (listen_fds.rs:38); each comes with the name it was passed under (23),  *)
(* and is not handed on to a program the daemon executes (33).             *)
TakenAsPassed ==
  \A i \in DOMAIN passed :
    LET s == passed[i].fd IN
    /\ s = i - 1
    /\ given.file[s] # "closed"
    /\ passed[i].name = IF s + 1 \in DOMAIN given.names THEN given.names[s + 1] ELSE None
    /\ pc # "idle" => s \in cloexec

==============================================================================
