-------------------------- MODULE RegistrationProofs --------------------------
(***************************************************************************)
(* What a wait for the battery's power supply promises, for every value of *)
(* the constants: the loop's timing, that its looks find the supply and    *)
(* nothing else, and that the kernel has its answers; that the kernel has  *)
(* the whole identity, that sysfs shows the reading, and that the stand-in *)
(* of the unit tests does what the kernel does.  What passes through the   *)
(* bytes is WireProofs'; what the kernel's parser makes of the descriptors *)
(* is assumed, in DescriptorsParsed, which TLC evaluates.                  *)
(***************************************************************************)
EXTENDS RegistrationInv, WireProofs, FiniteSetTheorems, SequenceTheorems, TLAPS

(* The constants the arithmetic is about.                                  *)
LEMMA Periods ==
  /\ REGISTRATION_POLL \in Nat \ {0} /\ MaxLag \in Nat /\ Bound \in Nat
  /\ None \notin Nat /\ Timeouts \subseteq Nat \cup {None}
BY WaitAssumption DEF Bound

(* A ghost counts one more, up to its bound.                               *)
LEMMA OneMoreFacts ==
  ASSUME NEW n \in 0 .. Bound
  PROVE  OneMore(n) \in 0 .. Bound /\ OneMore(n) <= n + 1
BY Periods DEF OneMore

(* What the loop counts, as numbers.                                       *)
LEMMA Counts ==
  ASSUME LoopTypeOK
  PROVE  /\ until \in 0 .. REGISTRATION_POLL /\ lag \in 0 .. MaxLag
         /\ deadline \in Nat \cup {None}
         /\ age \in 0 .. Bound /\ late \in 0 .. Bound /\ waited \in 0 .. Bound
BY DEF LoopTypeOK

(* The deadline of serve_until comes no later than the call's.             *)
LEMMA NextLookFacts ==
  ASSUME NEW left \in Nat \cup {None}, left # 0
  PROVE  /\ NextLook(left) \in 1 .. REGISTRATION_POLL
         /\ left # None => NextLook(left) <= left
BY Periods DEF NextLook

(* What a step may do to the loop, whatever it does to the rest.           *)
LoopMoves ==
  \/ UNCHANGED <<pc, call, ghosts>>
  \/ Reading /\ Took /\ UNCHANGED ours
  \/ Tick
  \/ /\ UNCHANGED world
     /\ \/ \E timeout \in Timeouts : Wait(timeout)
        \/ Waiting /\ Return("Err", None)
        \/ pc = "look" /\ \E entry \in power_supply : Return("found", entry)
        \/ pc = "clock" /\ deadline = 0 /\ Return("missing", None)
        \/ pc = "service" /\ inbox = <<>> /\ Go("look")
        \/ pc = "service" /\ ReadInterrupted
        \/ pc = "look" /\ power_supply = {} /\ Go("clock")
        \/ pc = "clock" /\ deadline # 0 /\ Serve
        \/ pc = "serve" /\ Go("service")

(* There are no others.                                                   *)
LEMMA EveryMove == [Next]_vars => LoopMoves
<1> SUFFICES ASSUME [Next]_vars PROVE LoopMoves
  OBVIOUS
<1> USE DEF LoopMoves
<1>1. ASSUME NEW asked_for \in Devices, Create(asked_for) PROVE LoopMoves
  BY <1>1 DEF Create
<1>2. ASSUME NEW timeout \in Timeouts, Wait(timeout) PROVE LoopMoves
  BY <1>2 DEF Wait
<1>3. CASE Loop
  <2>1. CASE Service
    BY <2>1 DEF Service, Waiting
  <2>2. CASE Look
    BY <2>2 DEF Look, LookUp, Waiting
  <2>3. CASE ReadClock
    BY <2>3 DEF ReadClock, Waiting
  <2>4. CASE ServeReturns \/ ServeInterrupted
    BY <2>4 DEF ServeReturns, ServeInterrupted
  <2>5. CASE ServeFails
    BY <2>5 DEF ServeFails, Waiting
  <2> QED
    BY <1>3, <2>1, <2>2, <2>3, <2>4, <2>5 DEF Loop
<1>4. CASE Read
  BY <1>4 DEF Read, ReadStart, ReadIgnored, ReadGetReport, ReadSetReport, Answer
<1>5. CASE PushIfDue \/ Destroy \/ GiveUp
  BY <1>5 DEF PushIfDue, Destroy, GiveUp
<1>6. CASE StartProbe \/ Notify
  BY <1>6 DEF StartProbe, Notify, Send
<1>7. CASE AskLevel \/ AskOther
  BY <1>7 DEF AskLevel, AskOther, Ask, Send
<1>8. ASSUME NEW numbered \in BOOLEAN, Register(numbered) PROVE LoopMoves
  BY <1>8 DEF Register
<1>9. CASE Tick
  BY <1>9
<1>10. CASE UNCHANGED vars
  BY <1>10 DEF vars
<1> QED
  BY <1>1, <1>2, <1>3, <1>4, <1>5, <1>6, <1>7, <1>8, <1>9, <1>10 DEF Next

------------------------------------------------------------------------------
(* The timing of the loop.                                                 *)

(* Every step keeps the loop's types and its timing.                       *)
LEMMA TimingStep ==
  LoopTypeOK /\ Overdue /\ [Next]_vars => LoopTypeOK' /\ Overdue'
<1> SUFFICES ASSUME LoopTypeOK, Overdue, [Next]_vars PROVE LoopTypeOK' /\ Overdue'
  OBVIOUS
<1>0. LoopMoves
  BY EveryMove
<1> USE Periods, Counts
<1>1. CASE UNCHANGED <<pc, call, ghosts>>
  BY <1>1 DEF call, ghosts, Waiting, LoopTypeOK, Overdue
<1>2. ASSUME NEW timeout \in Timeouts, Wait(timeout) PROVE LoopTypeOK' /\ Overdue'
  BY <1>2 DEF Wait, Waiting, ghosts, LoopTypeOK, Overdue
<1>3. ASSUME NEW result \in {"found", "missing", "Err"}, NEW entry, Return(result, entry)
      PROVE  LoopTypeOK' /\ Overdue'
  BY <1>3 DEF Return, Waiting, LoopTypeOK, Overdue
<1>4. ASSUME NEW next \in {"look", "clock", "service"}, Go(next) PROVE LoopTypeOK' /\ Overdue'
  BY <1>4 DEF Go, call, ghosts, Waiting, LoopTypeOK, Overdue
<1>5a. CASE ReadInterrupted
  BY <1>5a DEF ReadInterrupted, call, Waiting, LoopTypeOK, Overdue
<1>5. CASE deadline # 0 /\ Serve
  BY <1>5, NextLookFacts DEF Serve, ghosts, Waiting, LoopTypeOK, Overdue
<1>6. CASE Took
  <2>1. /\ UNCHANGED <<pc, deadline, until, outcome, age, late>>
        /\ lag' = lag \/ (lag' = 0 /\ pc = "serve" /\ until > 0)
        /\ waited' \in {0, waited}
    <3>1. UNCHANGED <<pc, deadline, until, outcome, age, late>>
      BY <1>6 DEF Took
    <3>2. lag' = IF pc = "serve" /\ until > 0 /\ inbox' = <<>> THEN 0 ELSE lag
      BY <1>6 DEF Took
    <3>3. waited' = IF asked' = None THEN 0 ELSE waited
      BY <1>6 DEF Took
    <3> QED
      BY <3>1, <3>2, <3>3
  <2> QED
    BY <2>1 DEF Waiting, LoopTypeOK, Overdue
<1>7. CASE Tick
  <2>1. /\ age' \in 0 .. Bound /\ waited' \in 0 .. Bound
        /\ late' = IF deadline = 0 THEN OneMore(late) ELSE late
        /\ UNCHANGED <<pc, outcome>>
        /\ deadline' = IF deadline = None THEN None ELSE Countdown(deadline)
        /\ until' = Countdown(until)
    BY <1>7, OneMoreFacts DEF Tick
  <2>2. \/ lag' = lag /\ pc = "serve" /\ until > 0
        \/ lag' = lag + 1 /\ lag' \in 0 .. MaxLag
    BY <1>7 DEF Tick, Blocked
  <2>3. late' \in 0 .. Bound /\ (deadline # 0 => late' = 0) /\ late' <= late + 1
    BY <2>1, OneMoreFacts DEF Overdue
  <2>4. late' <= lag' /\ (deadline' # 0 => late' = 0)
    BY <2>1, <2>2, <2>3 DEF Overdue, Countdown
  <2>5. pc' = "serve" /\ deadline' # None => until' <= deadline'
    BY <2>1 DEF Overdue, Countdown
  <2> QED
    BY <1>7, <2>1, <2>2, <2>3, <2>4, <2>5 DEF Tick, Waiting, LoopTypeOK, Overdue, Countdown
<1> QED
  BY <1>0, <1>1, <1>2, <1>3, <1>4, <1>5a, <1>5, <1>6, <1>7 DEF LoopMoves

(* They hold throughout.                                                   *)
LEMMA TimingInvariant == Spec => [](LoopTypeOK /\ Overdue)
<1>1. Init => LoopTypeOK /\ Overdue
  BY Periods DEF Init, LoopInit, Waiting, LoopTypeOK, Overdue
<1> QED
  BY <1>1, TimingStep, PTL DEF Spec

(* The call never sleeps past its deadline, and is late by one turn of its *)
(* loop at most.                                                           *)
THEOREM NotLateHolds == Spec => []NotLate
<1>1. LoopTypeOK /\ Overdue => NotLate
  BY Periods, Counts DEF Overdue, NotLate
<1> QED
  BY <1>1, TimingInvariant, PTL

------------------------------------------------------------------------------
(* The names of supplies.                                                  *)

(* What a supply's name begins with, byte by byte.                         *)
LEMMA PrefixShape ==
  ASSUME NEW u \in Seq(Nat)
  PROVE  /\ Prefix(u) \in Seq(Nat) /\ Len(Prefix(u)) = Len(u) + 4 /\ Len(u) \in Nat
         /\ \A i \in 1 .. Len(u) : Prefix(u)[2 + i] = u[i]
         /\ Prefix(u)[Len(Prefix(u))] = 98
<1>1. Prefix(u) \in Seq(Nat)
  BY DEF Prefix, Dash
<1>2. Len(Prefix(u)) = Len(u) + 4
  BY DEF Prefix, Dash
<1>3. ASSUME NEW i \in 1 .. Len(u) PROVE Prefix(u)[2 + i] = u[i]
  BY SMTT(20) DEF Prefix, Dash
<1>4. Prefix(u)[Len(u) + 4] = 98
  BY DEF Prefix, Dash
<1>5. Len(u) \in Nat
  OBVIOUS
<1> QED
  BY <1>1, <1>2, <1>3, <1>4, <1>5

(* Different strings make different beginnings.                            *)
LEMMA PrefixInjective ==
  ASSUME NEW u \in Seq(Nat), NEW v \in Seq(Nat), Len(Prefix(u)) = Len(Prefix(v)),
         \A i \in 1 .. Len(Prefix(u)) : Prefix(u)[i] = Prefix(v)[i]
  PROVE  u = v
<1>1. Len(u) = Len(v) /\ Len(u) \in Nat
  BY PrefixShape
<1>2. \A i \in 1 .. Len(u) : u[i] = v[i]
  <2> SUFFICES ASSUME NEW i \in 1 .. Len(u) PROVE u[i] = v[i]
    OBVIOUS
  <2>1. 2 + i \in 1 .. Len(Prefix(u)) /\ i \in 1 .. Len(v)
    BY <1>1, PrefixShape
  <2>2. Prefix(u)[2 + i] = u[i]
    BY PrefixShape
  <2>3. Prefix(v)[2 + i] = v[i]
    <3>1. \A j \in 1 .. Len(v) : Prefix(v)[2 + j] = v[j]
      BY PrefixShape
    <3> QED
      BY <2>1, <3>1
  <2> QED
    BY <2>1, <2>2, <2>3
<1> QED
  BY <1>1, <1>2, SeqEqual

(* Two bytes put behind a string.                                          *)
LEMMA TwoBehind ==
  ASSUME NEW s \in Seq(Nat), NEW n \in Nat, NEW name, name = s \o <<Dash, n>>
  PROVE  /\ name \in Seq(Nat) /\ Len(name) = Len(s) + 2
         /\ \A i \in 1 .. Len(s) : name[i] = s[i]
         /\ name[Len(name) - 1] = Dash /\ name[Len(name)] = n
<1>1. name \in Seq(Nat)
  BY DEF Dash
<1>2. Len(name) = Len(s) + 2
  BY DEF Dash
<1>3. ASSUME NEW i \in 1 .. Len(s) PROVE name[i] = s[i]
  BY <1>3 DEF Dash
<1>4. name[Len(s) + 1] = Dash /\ name[Len(s) + 2] = n
  BY DEF Dash
<1>5. Len(name) - 1 = Len(s) + 1
  BY <1>2
<1> QED
  BY <1>1, <1>2, <1>3, <1>4, <1>5

(* The two names a supply may have.                                        *)
LEMMA TwoNames ==
  ASSUME NEW u \in Seq(Nat), NEW numbered \in BOOLEAN, NEW report_no \in 1 .. 9
  PROVE  SupplyName(u, numbered, report_no) \in {Prefix(u), Prefix(u) \o <<Dash, 48 + report_no>>}
<1>1. Prefix(u) \o <<>> = Prefix(u)
  BY PrefixShape, ConcatEmptySeq
<1>2. CASE numbered = TRUE
  BY <1>2 DEF SupplyName
<1>3. CASE numbered = FALSE
  BY <1>1, <1>3 DEF SupplyName
<1> QED
  BY <1>2, <1>3

(* A look that knows a battery's supply by its name.                       *)
Knows(u, name) ==
  /\ IsPrefix(Prefix(u), name)
  /\ is_report_suffix(SubSeq(name, Len(Prefix(u)) + 1, Len(name)))

(* A look knows the battery's own supply, whatever the kernel calls it.    *)
LEMMA FindsOwn ==
  ASSUME NEW u \in Seq(Nat), NEW numbered \in BOOLEAN, NEW report_no \in 1 .. 9
  PROVE  Knows(u, SupplyName(u, numbered, report_no))
<1> SUFFICES ASSUME NEW name \in {Prefix(u), Prefix(u) \o <<Dash, 48 + report_no>>}
             PROVE  Knows(u, name)
  BY TwoNames
<1> DEFINE head == Len(Prefix(u))
<1>1. Prefix(u) \in Seq(Nat) /\ head \in Nat \ {0}
  BY PrefixShape
<1>2. CASE name = Prefix(u)
  <2>1. SubSeq(name, head + 1, Len(name)) = <<>>
    BY <1>1, <1>2, SubSeqEmpty
  <2> QED
    BY <1>1, <1>2, <2>1 DEF Knows, IsPrefix, is_report_suffix
<1>3. CASE name = Prefix(u) \o <<Dash, 48 + report_no>>
  <2>1. 48 + report_no \in Nat
    OBVIOUS
  <2>2. /\ name \in Seq(Nat) /\ Len(name) = head + 2
        /\ name[Len(name) - 1] = Dash /\ name[Len(name)] = 48 + report_no
    <3> HIDE DEF head
    <3>1. Prefix(u) \in Seq(Nat)
      BY PrefixShape
    <3>2. name \in Seq(Nat)
      BY <1>3, <2>1, <3>1, TwoBehind
    <3>3. Len(name) = Len(Prefix(u)) + 2
      BY <1>3, <2>1, <3>1, TwoBehind
    <3>4. name[Len(name) - 1] = Dash
      BY <1>3, <2>1, <3>1, TwoBehind
    <3>5. name[Len(name)] = 48 + report_no
      BY <1>3, <2>1, <3>1, TwoBehind
    <3> QED
      BY <3>2, <3>3, <3>4, <3>5 DEF head
  <2>3. SubSeq(name, 1, head) = SubSeq(Prefix(u), 1, head)
    BY <1>1, <1>3 DEF Dash
  <2>4. PICK number : number = SubSeq(name, head + 1, Len(name))
    OBVIOUS
  <2>5. /\ number \in Seq(Nat) /\ Len(number) = 2
        /\ number[1] = Dash /\ number[2] = 48 + report_no
    <3> HIDE DEF head
    <3>1. \A i \in head + 1 .. Len(name) : name[i] \in Nat
      <4> SUFFICES ASSUME NEW i \in head + 1 .. Len(name) PROVE name[i] \in Nat
        OBVIOUS
      <4>1. i \in 1 .. Len(name)
        BY <1>1, <2>2
      <4> QED
        BY <2>2, <4>1, ElementOfSeq
    <3>2. /\ number \in Seq(Nat) /\ Len(number) = Len(name) - (head + 1) + 1
          /\ \A i \in 1 .. Len(name) - (head + 1) + 1 : number[i] = name[head + 1 + i - 1]
      BY <1>1, <2>2, <2>4, <3>1, SubSeqProperties
    <3> QED
      BY <1>1, <2>2, <3>2
  <2>6. is_report_suffix(number)
    <3>1. number \in Seq(Nat) /\ number # <<>>
      BY <2>5, EmptySeq
    <3>2. PICK digit : digit = Tail(number)
      OBVIOUS
    <3>3. digit \in Seq(Nat) /\ Len(digit) = 1 /\ digit[1] = 48 + report_no
      <4>1. /\ digit \in Seq(Nat) /\ Len(digit) = Len(number) - 1
            /\ \A i \in 1 .. Len(digit) : digit[i] = number[i + 1]
        BY <3>1, <3>2, HeadTailProperties
      <4>2. Len(digit) = 1
        BY <2>5, <4>1
      <4>3. 1 \in 1 .. Len(digit) /\ 1 + 1 = 2
        BY <4>2
      <4>4. digit[1] = number[2]
        BY <4>1, <4>3
      <4> QED
        BY <2>5, <4>1, <4>2, <4>4
    <3>4. DOMAIN digit = {1}
      BY <3>3
    <3>5. ToSet(digit) \subseteq Digits
      BY <3>3, <3>4 DEF ToSet, Digits
    <3>6. digit # <<>>
      BY <3>4, 1 \notin DOMAIN <<>>
    <3>7. Head(number) = Dash
      BY <2>5
    <3> QED
      BY <3>2, <3>5, <3>6, <3>7 DEF is_report_suffix
  <2> QED
    BY <1>1, <2>2, <2>3, <2>4, <2>6 DEF Knows, IsPrefix
<1> QED
  BY <1>2, <1>3

(* And nobody else's, even one whose name goes on from the battery's.      *)
LEMMA FindsNoOther ==
  ASSUME NEW u \in Seq(Nat), NEW v \in Seq(Nat), NEW numbered \in BOOLEAN,
         NEW report_no \in 1 .. 9, Knows(u, SupplyName(v, numbered, report_no))
  PROVE  u = v
<1>a. SupplyName(v, numbered, report_no) \in {Prefix(v), Prefix(v) \o <<Dash, 48 + report_no>>}
  BY TwoNames
<1> SUFFICES ASSUME NEW name \in {Prefix(v), Prefix(v) \o <<Dash, 48 + report_no>>},
                    Knows(u, name)
             PROVE  u = v
  BY <1>a
<1>0. PICK head, follow : /\ head = Len(Prefix(u))
                          /\ follow = SubSeq(name, head + 1, Len(name))
  OBVIOUS
<1>1. /\ Prefix(u) \in Seq(Nat) /\ head \in Nat \ {0} /\ Prefix(u)[head] = 98
      /\ Prefix(v) \in Seq(Nat) /\ Len(Prefix(v)) \in Nat \ {0}
      /\ Prefix(v)[Len(Prefix(v))] = 98
  <2>1. Prefix(u) \in Seq(Nat) /\ Len(Prefix(u)) \in Nat \ {0} /\ Prefix(u)[Len(Prefix(u))] = 98
    BY PrefixShape
  <2>2. Prefix(v) \in Seq(Nat) /\ Len(Prefix(v)) \in Nat \ {0} /\ Prefix(v)[Len(Prefix(v))] = 98
    BY PrefixShape
  <2> QED
    BY <1>0, <2>1, <2>2
<1>9. 48 + report_no \in Nat
  OBVIOUS
<1>2. name \in Seq(Nat) /\ Len(name) \in Nat
  <2>1. CASE name = Prefix(v)
    BY <1>1, <2>1
  <2>2. CASE name = Prefix(v) \o <<Dash, 48 + report_no>>
    <3>1. Prefix(v) \in Seq(Nat)
      BY PrefixShape
    <3>2. name \in Seq(Nat)
      BY <1>9, <2>2, <3>1, TwoBehind
    <3> QED
      BY <3>2
  <2> QED
    BY <2>1, <2>2
<1>3. head <= Len(name) /\ \A i \in 1 .. head : name[i] = Prefix(u)[i]
  <2>1. head <= Len(name) /\ SubSeq(Prefix(u), 1, head) = SubSeq(name, 1, head)
    BY <1>0 DEF Knows, IsPrefix
  <2>2. \A i \in 1 .. head : /\ SubSeq(Prefix(u), 1, head)[i] = Prefix(u)[i]
                             /\ SubSeq(name, 1, head)[i] = name[i]
    BY <1>0, <1>1, <1>2, <2>1
  <2> QED
    BY <2>1, <2>2
<1>4. /\ follow \in Seq(Nat) /\ Len(follow) = Len(name) - head
      /\ \A j \in 1 .. Len(follow) : follow[j] = name[head + j]
  <2>1. \A i \in head + 1 .. Len(name) : name[i] \in Nat
    <3> SUFFICES ASSUME NEW i \in head + 1 .. Len(name) PROVE name[i] \in Nat
      OBVIOUS
    <3>1. i \in 1 .. Len(name)
      BY <1>1, <1>2
    <3> QED
      BY <1>2, <3>1, ElementOfSeq
  <2>a. follow = SubSeq(name, head + 1, Len(name)) /\ head + 1 \in Int /\ Len(name) \in Int
    BY <1>0, <1>1, <1>2
  <2>2. follow \in Seq(Nat)
    BY <2>1, <2>a, SubSeqProperties
  <2>3. Len(follow) = IF head + 1 <= Len(name) THEN Len(name) - (head + 1) + 1 ELSE 0
    BY <2>1, <2>a, SubSeqProperties
  <2>4. \A j \in 1 .. Len(name) - (head + 1) + 1 : follow[j] = name[head + 1 + j - 1]
    BY <2>1, <2>a, SubSeqProperties
  <2>5. Len(follow) = Len(name) - head /\ Len(follow) = Len(name) - (head + 1) + 1
    BY <1>1, <1>2, <1>3, <2>3
  <2>6. ASSUME NEW j \in 1 .. Len(follow) PROVE follow[j] = name[head + j]
    <3>1. head + 1 + j - 1 = head + j
      BY <1>1
    <3> QED
      BY <2>4, <2>5, <3>1
  <2> QED
    BY <2>2, <2>5, <2>6
<1>5. \/ Len(name) = head
      \/ /\ Len(name) >= head + 2
         /\ \A i \in head + 2 .. Len(name) : name[i] \in Digits
  <2>1. CASE follow = <<>>
    BY <1>1, <1>2, <1>4, <2>1
  <2>2. CASE follow # <<>> /\ Tail(follow) # <<>> /\ ToSet(Tail(follow)) \subseteq Digits
    <3>1. /\ Tail(follow) \in Seq(Nat) /\ Len(Tail(follow)) = Len(follow) - 1
          /\ \A j \in 1 .. Len(Tail(follow)) : Tail(follow)[j] = follow[j + 1]
      BY <1>4, <2>2, HeadTailProperties
    <3>2. Len(Tail(follow)) \in Nat \ {0}
      BY <2>2, <3>1, EmptySeq
    <3>3. ASSUME NEW j \in 1 .. Len(Tail(follow)) PROVE follow[j + 1] \in Digits
      <4>1. Tail(follow)[j] \in ToSet(Tail(follow))
        <5>1. j \in DOMAIN Tail(follow)
          BY <3>1
        <5> QED
          BY <5>1 DEF ToSet
      <4> QED
        BY <2>2, <3>1, <4>1
    <3>4. ASSUME NEW i \in head + 2 .. Len(name) PROVE name[i] \in Digits
      <4>1. /\ i - head - 1 \in 1 .. Len(Tail(follow))
            /\ i - head \in 1 .. Len(follow) /\ head + (i - head) = i
            /\ (i - head - 1) + 1 = i - head
        BY <1>1, <1>2, <1>4, <3>1, <3>2
      <4> QED
        BY <1>4, <3>3, <4>1
    <3>5. Len(name) >= head + 2
      <4>1. Len(follow) - 1 >= 1 /\ Len(follow) = Len(name) - head
        BY <1>4, <3>1, <3>2
      <4> QED
        BY <1>1, <1>2, <4>1
    <3> QED
      BY <3>4, <3>5
  <2> QED
    BY <1>0, <2>1, <2>2 DEF Knows, is_report_suffix
<1>6. CASE name = Prefix(v)
  <2>1. 98 \notin Digits
    BY DEF Digits
  <2>2. Len(name) = head
    BY <1>1, <1>2, <1>5, <1>6, <2>1
  <2>3. /\ Len(Prefix(u)) = Len(Prefix(v))
        /\ \A i \in 1 .. Len(Prefix(u)) : Prefix(u)[i] = Prefix(v)[i]
    BY <1>0, <1>3, <1>6, <2>2
  <2> QED
    BY <2>3, PrefixInjective
<1>7. CASE name = Prefix(v) \o <<Dash, 48 + report_no>>
  <2>1. /\ Len(name) = Len(Prefix(v)) + 2
        /\ \A i \in 1 .. Len(Prefix(v)) : name[i] = Prefix(v)[i]
        /\ name[Len(name) - 1] = Dash /\ name[Len(name)] = 48 + report_no
    <3>1. PICK start \in Seq(Nat), number \in Nat : start = Prefix(v) /\ number = 48 + report_no
      BY <1>1, <1>9
    <3>2. name = start \o <<Dash, number>>
      BY <1>7, <3>1
    <3>3. /\ Len(name) = Len(start) + 2 /\ \A i \in 1 .. Len(start) : name[i] = start[i]
          /\ name[Len(name) - 1] = Dash /\ name[Len(name)] = number
      <4>1. Len(name) = Len(start) + 2
        BY <3>2, TwoBehind
      <4>2. \A i \in 1 .. Len(start) : name[i] = start[i]
        BY <3>2, TwoBehind
      <4>3. name[Len(name) - 1] = Dash
        BY <3>2, TwoBehind
      <4>4. name[Len(name)] = number
        BY <3>2, TwoBehind
      <4> QED
        BY <4>1, <4>2, <4>3, <4>4
    <3> QED
      BY <3>1, <3>3
  <2>2. Dash \notin Digits /\ 48 + report_no # 98
    BY DEF Digits, Dash
  <2>3. Len(name) # head
    BY <1>1, <1>3, <2>1, <2>2
  <2>4. Len(name) - 1 \notin head + 2 .. Len(name)
    <3>1. \A i \in head + 2 .. Len(name) : name[i] \in Digits
      BY <1>5, <2>3
    <3>2. name[Len(name) - 1] \notin Digits
      BY <2>1, <2>2
    <3> QED
      BY <3>1, <3>2
  <2>5. Len(name) = head + 2
    <3>1. PICK size \in Nat : size = Len(name)
      BY <1>2
    <3>2. size >= head + 2
      BY <1>5, <2>3, <3>1
    <3>3. size - 1 \notin head + 2 .. size
      BY <2>4, <3>1
    <3> QED
      BY <1>1, <3>1, <3>2, <3>3
  <2>6. /\ Len(Prefix(u)) = Len(Prefix(v))
        /\ \A i \in 1 .. Len(Prefix(u)) : Prefix(u)[i] = Prefix(v)[i]
    BY <1>0, <1>1, <1>3, <2>1, <2>5
  <2> QED
    BY <2>6, PrefixInjective
<1> QED
  BY <1>6, <1>7

------------------------------------------------------------------------------
(* The battery and its supply.                                             *)

(* A string is bytes.                                                      *)
LEMMA StringFacts == ASSUME NEW text \in Strings PROVE text \in Seq(Nat)
<1>1. text \in Seq(0 .. 255)
  BY DEF Strings
<1>2. 0 .. 255 \subseteq Nat
  OBVIOUS
<1> QED
  BY <1>1, <1>2, SeqMonotonic

(* An integer of two bytes is one of four.                                 *)
LEMMA U16Fits == ASSUME NEW value \in U16 PROVE IsU32(value)
<1>1. value \in Nat /\ value < 65536
  BY DEF U16
<1>2. value \div 16777216 <= 255
  BY <1>1
<1> QED
  BY <1>1, <1>2 DEF IsU32

(* The descriptors are bytes.                                              *)
LEMMA DescriptorBytes == ASSUME NEW kind PROVE descriptor(kind) \in Seq(Nat)
<1> DEFINE mouse ==
  << UsagePage, 1, Usage, 2, Collection, 1, ReportID, 1, Usage, 1, Collection, 0,
     UsagePage, 9, UsageMinimum, 1, UsageMaximum, 3,
     LogicalMinimum, 0, LogicalMaximum, 1, ReportSize, 1, ReportCount, 3, InputItem, 2,
     ReportSize, 5, ReportCount, 1, InputItem, 3,
     UsagePage, 1, Usage, 48, Usage, 49, LogicalMinimum, 129, LogicalMaximum, 127,
     ReportSize, 8, ReportCount, 2, InputItem, 6, EndCollection, ReportID, 2 >>
<1> USE DEF UsagePage, Usage, UsageMinimum, UsageMaximum, LogicalMinimum, LogicalMaximum,
            ReportSize, ReportCount, ReportID, InputItem, Collection, EndCollection, TwoBytes
<1>1. BATTERY_FIELDS \in Seq(Nat)
  BY DEF BATTERY_FIELDS
<1>2. mouse \in Seq(Nat) /\ <<ReportSize, 7, InputItem, 3, EndCollection>> \in Seq(Nat)
  OBVIOUS
<1>3. MOUSE \in Seq(Nat)
  <2>1. MOUSE = mouse \o BATTERY_FIELDS \o <<ReportSize, 7, InputItem, 3, EndCollection>>
    BY DEF MOUSE
  <2> HIDE DEF mouse
  <2> QED
    BY <1>1, <1>2, <2>1, ConcatProperties
<1>4. GENERIC \in Seq(Nat)
  <2>1. << UsagePage, 12, Usage, 1, Collection, 1, ReportID, 1 >> \in Seq(Nat)
    OBVIOUS
  <2>2. << TwoBytes(UsagePage), 33, 255, Usage, 2, InputItem, 2,
           ReportSize, 6, InputItem, 3, EndCollection >> \in Seq(Nat)
    OBVIOUS
  <2> QED
    BY <1>1, <2>1, <2>2, ConcatProperties DEF GENERIC
<1> QED
  BY <1>3, <1>4 DEF descriptor

(* And so are the reports, which hold the level behind their ID.           *)
IsReport(sent, percent) ==
  sent \in Seq(Nat) /\ Len(sent) = 3 /\ Len(sent) <= DATA_MAX /\ sent[2] = percent

(* A report is an ID, the level and whether the battery charges.           *)
LEMMA ThreeBytes ==
  ASSUME NEW own \in Nat, NEW percent \in 0 .. 100, NEW plugged \in {0, 1}
  PROVE  IsReport(<<own, percent, plugged>>, percent)
<1>1. percent \in Nat /\ plugged \in Nat
  OBVIOUS
<1>2. <<own, percent, plugged>> \in Seq(Nat)
  BY <1>1
<1>3. Len(<<own, percent, plugged>>) = 3 /\ <<own, percent, plugged>>[2] = percent
  BY <1>1
<1> QED
  BY <1>2, <1>3, RegistrationAssumption DEF IsReport

(* So is every kind's, at any level.                                       *)
LEMMA ReportBytes ==
  ASSUME NEW kind, NEW percent \in 0 .. 100, NEW charging \in BOOLEAN
  PROVE  IsReport(Report(kind, [percent |-> percent, charging |-> charging]), percent)
<1>1. PICK own \in Nat : own = report_id(kind)
  BY DEF report_id
<1>2. PICK plugged \in {0, 1} : plugged = IF charging THEN 1 ELSE 0
  OBVIOUS
<1>3. Report(kind, [percent |-> percent, charging |-> charging]) = <<own, percent, plugged>>
  BY <1>1, <1>2 DEF Report
<1>4. IsReport(<<own, percent, plugged>>, percent)
  BY ThreeBytes
<1> QED
  BY <1>3, <1>4

(* What the daemon asks for, by its fields.                                *)
LEMMA DeviceFacts ==
  ASSUME NEW asked_for \in Devices
  PROVE  /\ asked_for.identity \in Identities
         /\ asked_for.identity.name \in Strings /\ asked_for.identity.phys \in Strings
         /\ asked_for.identity.uniq \in Strings
         /\ asked_for.identity.vendor \in U16 /\ asked_for.identity.product \in U16
         /\ asked_for.kind \in Kinds
         /\ clamped(asked_for.percent) \in 0 .. 100 /\ asked_for.charging \in BOOLEAN
<1>1. asked_for \in [identity : Identities, kind : Kinds, percent : 0 .. 255, charging : BOOLEAN]
  BY RegistrationAssumption
<1>2. /\ asked_for.identity \in Identities /\ asked_for.kind \in Kinds
      /\ asked_for.percent \in 0 .. 255 /\ asked_for.charging \in BOOLEAN
  BY <1>1
<1>3. /\ asked_for.identity.name \in Strings /\ asked_for.identity.phys \in Strings
      /\ asked_for.identity.uniq \in Strings
      /\ asked_for.identity.vendor \in U16 /\ asked_for.identity.product \in U16
  BY <1>2 DEF Identities
<1>4. clamped(asked_for.percent) \in 0 .. 100
  BY <1>2 DEF clamped
<1> QED
  BY <1>2, <1>3, <1>4

(* What validate accepts fits, the NUL behind it included.                 *)
LEMMA AcceptedFits ==
  ASSUME NEW id, validate(id)
  PROVE  /\ Len(id.name) < LEN_NAME /\ 0 \notin ToSet(id.name)
         /\ Len(id.phys) < LEN_PHYS /\ 0 \notin ToSet(id.phys)
         /\ Len(id.uniq) < LEN_UNIQ /\ 0 \notin ToSet(id.uniq)
BY DEF validate, fits

(* The kernel has of a device all that the daemon asked for.               *)
LEMMA WrittenIsRead ==
  ASSUME NEW asked_for \in Devices, validate(asked_for.identity), Written(asked_for) # None
  PROVE  /\ KernelReads(Written(asked_for)) =
              [type |-> "Create2", name |-> asked_for.identity.name,
               phys |-> asked_for.identity.phys, uniq |-> asked_for.identity.uniq,
               bus |-> BUS_VIRTUAL, vendor |-> asked_for.identity.vendor,
               product |-> asked_for.identity.product, descriptor |-> descriptor(asked_for.kind)]
         /\ Len(descriptor(asked_for.kind)) <= RD_DATA_MAX
<1>1. PICK id : id = asked_for.identity
  OBVIOUS
<1>2. PICK bytes \in Seq(Nat) : bytes = descriptor(asked_for.kind)
  BY DescriptorBytes
<1>3. /\ id.name \in Strings /\ id.phys \in Strings /\ id.uniq \in Strings
      /\ id.vendor \in U16 /\ id.product \in U16
  BY <1>1, DeviceFacts
<1>4. id.name \in Seq(Nat) /\ id.phys \in Seq(Nat) /\ id.uniq \in Seq(Nat)
  BY <1>3, StringFacts
<1>5. IsU32(id.vendor) /\ IsU32(id.product)
  BY <1>3, U16Fits
<1>6. Written(asked_for) = create2(id.name, id.phys, id.uniq, id.vendor, id.product, bytes)
  BY <1>1, <1>2 DEF Written
<1>7. Len(bytes) <= RD_DATA_MAX
  BY <1>6 DEF create2
<1>8. /\ Len(id.name) < LEN_NAME /\ 0 \notin ToSet(id.name)
      /\ Len(id.phys) < LEN_PHYS /\ 0 \notin ToSet(id.phys)
      /\ Len(id.uniq) < LEN_UNIQ /\ 0 \notin ToSet(id.uniq)
  BY <1>1, AcceptedFits
<1>9. KernelReads(create2(id.name, id.phys, id.uniq, id.vendor, id.product, bytes)) =
        [type |-> "Create2", name |-> id.name, phys |-> id.phys, uniq |-> id.uniq,
         bus |-> BUS_VIRTUAL, vendor |-> id.vendor, product |-> id.product,
         descriptor |-> bytes]
  BY <1>4, <1>5, <1>7, <1>8, KernelReadsCreate
<1> QED
  BY <1>1, <1>2, <1>6, <1>7, <1>9

(* A battery created for it is one.                                        *)
LEMMA CreatedFacts ==
  ASSUME NEW asked_for \in Devices, CreatedFor(asked_for)
  PROVE  /\ battery \in Batteries /\ battery # None
         /\ battery.uniq = asked_for.identity.uniq /\ battery.uniq \in Seq(Nat)
<1>1. battery \in Batteries
  BY DeviceFacts DEF CreatedFor, Batteries
<1> QED
  BY <1>1, DeviceFacts, StringFacts, RegistrationAssumption DEF CreatedFor

(* A step that changes no more of the battery than whether a push is due.  *)
LEMMA StillCreated ==
  ASSUME NEW asked_for \in Devices, CreatedFor(asked_for), UNCHANGED <<identity, device, parsed>>,
         battery' = battery \/ \E due \in BOOLEAN : battery' = [battery EXCEPT !.repush = due]
  PROVE  CreatedFor(asked_for)' /\ battery' # None /\ battery'.uniq = battery.uniq
<1>1. CASE battery' = battery
  BY <1>1, CreatedFacts DEF CreatedFor
<1>2. ASSUME NEW due \in BOOLEAN, battery' = [battery EXCEPT !.repush = due]
      PROVE  CreatedFor(asked_for)' /\ battery' # None /\ battery'.uniq = battery.uniq
  <2>1. battery' \in Batteries /\ battery'.repush = due
    BY <1>2, CreatedFacts DEF Batteries
  <2>2. battery' = [uniq |-> asked_for.identity.uniq, kind |-> asked_for.kind,
                    percent |-> clamped(asked_for.percent),
                    charging |-> asked_for.charging, repush |-> battery'.repush]
    BY <1>2, <2>1 DEF CreatedFor
  <2>3. battery' # None
    BY <2>1, RegistrationAssumption
  <2>4. battery'.uniq = battery.uniq
    BY <1>2, CreatedFacts DEF Batteries
  <2> QED
    BY <2>1, <2>2, <2>3, <2>4 DEF CreatedFor
<1> QED
  BY <1>1, <1>2

(* What the kernel has of a battery created for it.                        *)
LEMMA KernelHas ==
  ASSUME NEW asked_for \in Devices, CreatedFor(asked_for)
  PROVE  /\ device = [type |-> "Create2", name |-> identity.name, phys |-> identity.phys,
                      uniq |-> identity.uniq, bus |-> BUS_VIRTUAL, vendor |-> identity.vendor,
                      product |-> identity.product, descriptor |-> descriptor(battery.kind)]
         /\ device.uniq = battery.uniq
         /\ parsed = Parsed(descriptor(battery.kind))
         /\ battery.kind \in Kinds
<1>1. device = [type |-> "Create2", name |-> asked_for.identity.name,
                phys |-> asked_for.identity.phys, uniq |-> asked_for.identity.uniq,
                bus |-> BUS_VIRTUAL, vendor |-> asked_for.identity.vendor,
                product |-> asked_for.identity.product, descriptor |-> descriptor(asked_for.kind)]
  BY WrittenIsRead DEF CreatedFor
<1>2. /\ battery.uniq = asked_for.identity.uniq /\ battery.kind = asked_for.kind
      /\ battery.kind \in Kinds /\ identity = asked_for.identity
  BY DeviceFacts DEF CreatedFor
<1>3. device.uniq = battery.uniq /\ parsed = Parsed(descriptor(battery.kind))
  BY <1>1, <1>2 DEF CreatedFor
<1> QED
  BY <1>1, <1>2, <1>3

(* The fields it has for the level are of a report with a one-digit ID.    *)
LEMMA LevelFields ==
  ASSUME DescriptorsParsed, NEW asked_for \in Devices, CreatedFor(asked_for)
  PROVE  \A field \in Strengths : field.report \in 1 .. 9
BY KernelHas DEF DescriptorsParsed, Strengths

(* A step with which the battery comes, goes or stays as it is.            *)
LEMMA BatteryStep == BatteryKnown /\ [Next]_vars => BatteryKnown'
<1> SUFFICES ASSUME BatteryKnown, [Next]_vars PROVE BatteryKnown'
  OBVIOUS
<1>1. ASSUME NEW asked_for \in Devices, Create(asked_for) PROVE BatteryKnown'
  <2>1. /\ ours' = None /\ battery = None /\ asked' = asked /\ asked = None /\ ~Waiting'
        /\ shown' = shown /\ shown = Nothing
    BY <1>1 DEF Create, BatteryKnown, Waiting
  <2>2. CASE UNCHANGED <<battery, device, parsed, stage>>
    BY <2>1, <2>2 DEF BatteryKnown
  <2>3. CASE ~UNCHANGED <<battery, device, parsed, stage>>
    <3>1. /\ validate(asked_for.identity) /\ Written(asked_for) # None
          /\ battery' = [uniq |-> asked_for.identity.uniq, kind |-> asked_for.kind,
                         percent |-> clamped(asked_for.percent),
                         charging |-> asked_for.charging, repush |-> FALSE]
          /\ identity' = asked_for.identity
          /\ device' = KernelReads(Written(asked_for))
          /\ parsed' = Parsed(device'.descriptor)
      BY <1>1, <2>3 DEF Create, Written
    <3>2. CreatedFor(asked_for)'
      BY <3>1 DEF CreatedFor
    <3>3. battery' # None
      <4>1. battery' \in Batteries
        BY <3>1, DeviceFacts DEF Batteries
      <4> QED
        BY <4>1, RegistrationAssumption
    <3> QED
      BY <2>1, <3>2, <3>3 DEF BatteryKnown
  <2> QED
    BY <2>2, <2>3
<1>2. CASE Destroy
  BY <1>2 DEF Destroy, BatteryKnown, Waiting
<1>3. ASSUME UNCHANGED <<identity, device, parsed>>, battery # None, stage' = stage \/ ours = None,
             stage' # "ready" => ours' = None,
             battery' = battery \/ \E due \in BOOLEAN : battery' = [battery EXCEPT !.repush = due]
      PROVE  BatteryKnown'
  <2>1. PICK asked_for \in Devices : CreatedFor(asked_for)
    BY <1>3 DEF BatteryKnown
  <2>2. CreatedFor(asked_for)' /\ battery' # None
    BY <1>3, <2>1, StillCreated
  <2> QED
    BY <1>3, <2>2 DEF BatteryKnown
<1>4. CASE \E numbered \in BOOLEAN : Register(numbered)
  BY <1>3, <1>4 DEF Register, BatteryKnown
<1>5. CASE Read \/ PushIfDue
  BY <1>3, <1>5 DEF Read, PushIfDue, ReadStart, ReadIgnored, ReadGetReport, ReadSetReport,
                    Answer, Reading, Servicing, Waiting, rest, BatteryKnown
<1>6. CASE StartProbe \/ Notify \/ AskLevel \/ AskOther
  BY <1>3, <1>6 DEF StartProbe, Notify, AskLevel, AskOther, Ask, Send, BatteryKnown
<1>7. ASSUME UNCHANGED <<battery, ours, rest>>, asked' = None \/ asked' = asked,
             Waiting' => battery # None
      PROVE  BatteryKnown'
  <2>1. UNCHANGED <<battery, ours, identity, device, parsed, stage, shown>>
    BY <1>7 DEF rest
  <2> QED
    BY <1>7, <2>1 DEF BatteryKnown, CreatedFor
<1>8. ASSUME NEW timeout \in Timeouts, Wait(timeout), UNCHANGED rest PROVE BatteryKnown'
  BY <1>7, <1>8 DEF Wait, world
<1>9. CASE Loop \/ (Tick /\ UNCHANGED rest)
  <2>1. Waiting /\ UNCHANGED world /\ UNCHANGED rest
    BY <1>9 DEF Loop, Tick, Service, Look, ReadClock, ServeReturns, ServeInterrupted,
                ServeFails, Waiting
  <2> QED
    BY <1>7, <2>1 DEF world, BatteryKnown
<1>10. CASE GiveUp \/ UNCHANGED vars
  BY <1>7, <1>10 DEF GiveUp, Waiting, BatteryKnown, vars, world
<1> QED
  BY <1>1, <1>2, <1>4, <1>5, <1>6, <1>8, <1>9, <1>10 DEF Next

(* While there is a battery, a step changes no more of it than whether a   *)
(* push is due, until it is destroyed.                                     *)
LEMMA BatteryMoves ==
  ASSUME [Next]_vars, battery # None
  PROVE  \/ Destroy
         \/ /\ battery' = battery \/ \E due \in BOOLEAN : battery' = [battery EXCEPT !.repush = due]
            /\ UNCHANGED <<identity, device, parsed>>
<1>1. CASE (\E asked_for \in Devices : Create(asked_for)) \/ GiveUp
  BY <1>1 DEF Create, GiveUp, rest
<1>2. CASE \/ (\E timeout \in Timeouts : Wait(timeout)) /\ UNCHANGED rest
           \/ \E numbered \in BOOLEAN : Register(numbered)
  BY <1>2 DEF Wait, Register, world, rest
<1>3. CASE Loop \/ (Tick /\ UNCHANGED rest) \/ UNCHANGED vars
  BY <1>3 DEF Loop, Tick, Service, Look, ReadClock, ServeReturns, ServeInterrupted,
              ServeFails, world, vars, rest
<1>4. CASE Read \/ PushIfDue
  BY <1>4 DEF Read, ReadStart, ReadIgnored, ReadGetReport, ReadSetReport, Answer, PushIfDue, rest
<1>5. CASE StartProbe \/ Notify \/ AskLevel \/ AskOther
  BY <1>5 DEF StartProbe, Notify, AskLevel, AskOther, Ask, Send
<1> QED
  BY <1>1, <1>2, <1>3, <1>4, <1>5 DEF Next

(* A supply gets the battery's name when it is registered, and keeps it.   *)
LEMMA NamedStep ==
  DescriptorsParsed /\ BatteryKnown /\ OursNamed /\ [Next]_vars => OursNamed'
<1> SUFFICES ASSUME DescriptorsParsed, BatteryKnown, OursNamed, [Next]_vars PROVE OursNamed'
  OBVIOUS
<1>1. ASSUME NEW numbered \in BOOLEAN, Register(numbered) PROVE OursNamed'
  <2>1. battery # None /\ UNCHANGED battery
    BY <1>1 DEF Register, BatteryKnown
  <2>2. PICK asked_for \in Devices : CreatedFor(asked_for)
    BY <2>1 DEF BatteryKnown
  <2>3. CASE BuildsBattery(parsed.fields)
    <3>1. StrengthField.report \in 1 .. 9
      BY <2>2, <2>3, LevelFields DEF StrengthField, Strengths, BuildsBattery
    <3>2. ours' = SupplyName(battery'.uniq, numbered, StrengthField.report)
      BY <1>1, <2>1, <2>2, <2>3, KernelHas DEF Register
    <3> QED
      BY <3>1, <3>2 DEF OursNamed
  <2>4. CASE ~BuildsBattery(parsed.fields)
    BY <1>1, <2>4 DEF Register, OursNamed
  <2> QED
    BY <2>3, <2>4
<1>2. CASE ours' = None
  BY <1>2 DEF OursNamed
<1>3. CASE ours' = ours /\ ours # None /\ ~Destroy
  <2>1. battery # None
    BY <1>3 DEF BatteryKnown
  <2>2. PICK asked_for \in Devices : CreatedFor(asked_for)
    BY <2>1 DEF BatteryKnown
  <2>3. battery'.uniq = battery.uniq
    BY <1>3, <2>1, <2>2, BatteryMoves, StillCreated
  <2> QED
    BY <1>3, <2>3 DEF OursNamed
<1>4. CASE Destroy
  BY <1>4 DEF Destroy, OursNamed
<1>5. \/ \E numbered \in BOOLEAN : Register(numbered)
      \/ ours' = ours \/ ours' = None
  BY DEF Next, Create, Destroy, GiveUp, Wait, Loop, Tick, Service, Look, ReadClock, ServeReturns,
         ServeInterrupted, ServeFails, Read, PushIfDue, ReadStart, ReadIgnored, ReadGetReport,
         ReadSetReport, Answer, StartProbe, Notify, AskLevel, AskOther, Ask, Send, world, vars
<1> QED
  BY <1>1, <1>2, <1>3, <1>4, <1>5

------------------------------------------------------------------------------
(* The look.                                                               *)

(* While the call waits, sysfs lists the battery's supply under its name.  *)
LEMMA LookFinds ==
  ASSUME BatteryKnown, OursNamed, Waiting, ours # None
  PROVE  ours \in power_supply
<1>1. battery.uniq \in Seq(Nat)
  BY CreatedFacts DEF BatteryKnown
<1>2. Knows(battery.uniq, ours)
  BY <1>1, FindsOwn DEF OursNamed
<1>3. ours \in Class
  BY DEF Class
<1> QED
  BY <1>2, <1>3 DEF power_supply, find_power_supply, Knows

(* And what the look finds is no other device's.                           *)
LEMMA LookIsRight ==
  ASSUME BatteryKnown, Waiting, NEW entry \in power_supply
  PROVE  entry = ours
<1>1. battery.uniq \in Seq(Nat)
  BY CreatedFacts DEF BatteryKnown
<1>2. entry \in Class /\ Knows(battery.uniq, entry)
  BY DEF power_supply, find_power_supply, Knows
<1>3. ASSUME NEW uniq \in OtherUniqs \ {battery.uniq}, NEW numbered \in BOOLEAN,
             entry = SupplyName(uniq, numbered, 1)
      PROVE  FALSE
  <2>1. uniq \in Seq(Nat)
    BY WaitAssumption
  <2>2. Knows(battery.uniq, SupplyName(uniq, numbered, 1))
    BY <1>2, <1>3
  <2>3. battery.uniq = uniq
    BY <1>1, <2>1, <2>2, FindsNoOther
  <2> QED
    BY <2>3
<1> QED
  BY <1>2, <1>3 DEF Class

(* A supply appears where there was none, and goes between two calls.      *)
LEMMA OursMoves == [Next]_vars => ours' = ours \/ pc = "caller" \/ stage # "ready"
<1> SUFFICES ASSUME [Next]_vars PROVE ours' = ours \/ pc = "caller" \/ stage # "ready"
  OBVIOUS
<1>1. CASE (\E asked_for \in Devices : Create(asked_for)) \/ Destroy \/ GiveUp
  BY <1>1 DEF Create, Destroy, GiveUp
<1>2. CASE \E timeout \in Timeouts : Wait(timeout)
  BY <1>2 DEF Wait
<1>3. CASE Loop \/ Tick
  BY <1>3 DEF Loop, Tick, Service, Look, ReadClock, ServeReturns, ServeInterrupted,
              ServeFails, world
<1>4. CASE Read \/ PushIfDue
  BY <1>4 DEF Read, PushIfDue, ReadStart, ReadIgnored, ReadGetReport, ReadSetReport, Answer
<1>5. CASE StartProbe \/ Notify \/ AskLevel \/ AskOther
  BY <1>5 DEF StartProbe, Notify, AskLevel, AskOther, Ask, Send
<1>6. CASE \E numbered \in BOOLEAN : Register(numbered)
  BY <1>6 DEF Register
<1>7. CASE UNCHANGED vars
  BY <1>7 DEF vars, world
<1> QED
  BY <1>1, <1>2, <1>3, <1>4, <1>5, <1>6, <1>7 DEF Next

(* Every step keeps the supply's age within what the call has yet to sleep.*)
LEMMA UnfoundStep ==
  LoopTypeOK /\ BatteryKnown /\ OursNamed /\ Unfound /\ [Next]_vars => Unfound'
<1> SUFFICES ASSUME LoopTypeOK, BatteryKnown, OursNamed, Unfound, [Next]_vars
             PROVE  Unfound'
  OBVIOUS
<1>0. LoopMoves
  BY EveryMove
<1>9. ours' = ours \/ age = 0
  BY OursMoves DEF BatteryKnown, Unfound, Waiting
<1> USE Periods, Counts
<1>1. CASE UNCHANGED <<pc, call, ghosts>>
  <2>1. UNCHANGED <<pc, until, lag, age>>
    BY <1>1 DEF call, ghosts
  <2> QED
    BY <1>9, <2>1 DEF Waiting, Unfound
<1>2. ASSUME NEW timeout \in Timeouts, Wait(timeout) PROVE Unfound'
  <2>1. UNCHANGED <<until, lag, age>> /\ age = 0 /\ pc' = "service"
    BY <1>2 DEF Wait, ghosts, Waiting, Unfound
  <2> QED
    BY <2>1 DEF Waiting, Unfound
<1>3. ASSUME NEW result, NEW entry, Return(result, entry) PROVE Unfound'
  BY <1>3 DEF Return, Waiting, Unfound
<1>4. CASE \/ pc = "service" /\ (Go("look") \/ ReadInterrupted)
           \/ pc = "serve" /\ Go("service")
  <2>1. UNCHANGED <<until, lag, age>> /\ pc' \in {"look", "service"} /\ Waiting
    BY <1>4 DEF Go, ReadInterrupted, call, ghosts, Waiting
  <2> QED
    BY <1>9, <2>1 DEF Waiting, Unfound
<1>5. CASE pc = "look" /\ power_supply = {} /\ Go("clock") /\ UNCHANGED world
  <2>1. ours = None
    BY <1>5, LookFinds DEF Waiting
  <2>2. UNCHANGED <<until, lag, age, ours>> /\ pc' = "clock" /\ age = 0
    BY <1>5, <2>1 DEF Go, call, ghosts, world, Unfound
  <2> QED
    BY <2>1, <2>2 DEF Waiting, Unfound
<1>6. CASE pc = "clock" /\ deadline # 0 /\ Serve
  <2>1. pc' = "serve" /\ until' \in 1 .. REGISTRATION_POLL /\ lag' = 0 /\ age' = age
    BY <1>6, NextLookFacts DEF Serve, ghosts
  <2>2. age <= MaxLag
    BY <1>6 DEF Unfound
  <2> QED
    BY <1>9, <2>1, <2>2 DEF Waiting, Unfound
<1>7. CASE Reading /\ Took /\ UNCHANGED ours
  <2>1. UNCHANGED <<pc, until, age>>
    BY <1>7 DEF Took
  <2>2. lag' = IF pc = "serve" /\ until > 0 /\ inbox' = <<>> THEN 0 ELSE lag
    BY <1>7 DEF Took
  <2>3. pc # "clock" /\ (lag' = lag \/ (lag' = 0 /\ until > 0))
    BY <1>7, <2>2 DEF Reading, Servicing
  <2> QED
    BY <1>7, <2>1, <2>3 DEF Waiting, Unfound
<1>8. CASE Tick
  <2>1. UNCHANGED <<pc, ours>> /\ Waiting
    BY <1>8 DEF Tick, world
  <2>2. /\ until' = Countdown(until)
        /\ age' = IF ours = None THEN age ELSE OneMore(age)
    BY <1>8 DEF Tick
  <2>3. \/ lag' = lag /\ pc = "serve" /\ until > 0
        \/ lag' = lag + 1
    BY <1>8 DEF Tick, Blocked
  <2>4. age' \in Nat /\ age \in Nat /\ age' <= age + 1
    BY <2>2, OneMoreFacts
  <2>7. ours' = None => age' = 0
    BY <2>1, <2>2 DEF Unfound
  <2>5. age' + until' <= REGISTRATION_POLL + MaxLag + (IF until' = 0 THEN lag' ELSE 0)
    <3>1. PICK older : older = age' /\ older \in Nat /\ older <= age + 1
      BY <2>4
    <3>2. CASE until = 0
      <4>1. lag' = lag + 1 /\ until' = 0
        BY <2>2, <2>3, <3>2 DEF Countdown
      <4>2. age <= REGISTRATION_POLL + MaxLag + lag
        BY <3>2 DEF Unfound
      <4>3. older <= REGISTRATION_POLL + MaxLag + (lag + 1)
        BY <3>1, <4>2
      <4>4. older + 0 <= REGISTRATION_POLL + MaxLag + (lag + 1)
        BY <3>1, <4>3
      <4> QED
        BY <3>1, <4>1, <4>4
    <3>3. CASE until # 0
      <4>1. until' = until - 1
        BY <2>2, <3>3 DEF Countdown
      <4>2. age + until <= REGISTRATION_POLL + MaxLag
        BY <3>3 DEF Unfound
      <4>3. older + (until - 1) <= REGISTRATION_POLL + MaxLag
        BY <3>1, <4>2
      <4>4. PICK since \in Nat : since = lag'
        BY <2>3
      <4>5. older + (until - 1) <= REGISTRATION_POLL + MaxLag + since
        BY <3>1, <4>3
      <4> QED
        BY <3>1, <4>1, <4>3, <4>4, <4>5
    <3> QED
      BY <3>2, <3>3
  <2>6. pc' = "clock" => age' <= lag'
    BY <2>1, <2>3, <2>4, <2>2, OneMoreFacts DEF Unfound
  <2> QED
    BY <2>1, <2>5, <2>6, <2>7 DEF Waiting, Unfound
<1> QED
  BY <1>0, <1>1, <1>2, <1>3, <1>4, <1>5, <1>6, <1>7, <1>8 DEF LoopMoves

(* The battery, its supply's name and age, throughout.                     *)
LEMMA SupplyInvariant ==
  ASSUME DescriptorsParsed
  PROVE  Spec => [](LoopTypeOK /\ BatteryKnown /\ OursNamed /\ Unfound)
<1>1. Init => BatteryKnown /\ OursNamed /\ Unfound
  BY Periods DEF Init, LoopInit, Waiting, BatteryKnown, OursNamed, Unfound
<1>2. BatteryKnown /\ OursNamed /\ [Next]_vars => BatteryKnown' /\ OursNamed'
  BY BatteryStep, NamedStep
<1> QED
  BY <1>1, <1>2, UnfoundStep, TimingInvariant, PTL DEF Spec

(* A supply is found by the next look: the loop never sleeps on past one   *)
(* it could have found, whatever the kernel called it.                     *)
THEOREM FoundSoonHolds == ASSUME DescriptorsParsed PROVE Spec => []FoundSoon
<1>1. LoopTypeOK /\ Unfound => FoundSoon
  BY Periods, Counts DEF Unfound, FoundSoon
<1> QED
  BY <1>1, SupplyInvariant, PTL

(* What the call says of the supply is right: "none yet" of a look taken   *)
(* since it woke, and no other device's supply for the battery's.          *)
THEOREM AnswerIsRightHolds == ASSUME DescriptorsParsed PROVE Spec => AnswerIsRight
<1> DEFINE Right ==
  /\ outcome' = "missing" /\ outcome # "missing" =>
       deadline = 0 /\ (ours # None => age <= lag)
  /\ path' # None /\ path' # path => path' = ours
<1>1. ASSUME LoopTypeOK, BatteryKnown, OursNamed, Unfound, [Next]_vars
      PROVE  Right
  <2>0. LoopMoves
    BY <1>1, EveryMove
  <2>1. CASE UNCHANGED <<outcome, path>>
    BY <2>1
  <2>2. CASE \E timeout \in Timeouts : Wait(timeout)
    BY <2>2 DEF Wait
  <2>3. CASE Return("Err", None)
    BY <2>3 DEF Return
  <2>4. CASE pc = "look" /\ \E entry \in power_supply : Return("found", entry)
    BY <1>1, <2>4, LookIsRight DEF Return, Waiting
  <2>5. CASE pc = "clock" /\ deadline = 0 /\ Return("missing", None)
    BY <1>1, <2>5 DEF Return, Unfound
  <2> QED
    BY <2>0, <2>1, <2>2, <2>3, <2>4, <2>5 DEF LoopMoves, call, Took, Tick, Go,
       ReadInterrupted, Serve
<1>2. Spec => [][Right]_<<pc, call, ghosts, world>>
  BY <1>1, SupplyInvariant, PTL DEF Spec
<1> QED
  BY <1>2 DEF AnswerIsRight

------------------------------------------------------------------------------
(* The requests.                                                           *)

(* There is always an ID that no unread request has.                       *)
LEMMA FreeId ==
  ASSUME inbox \in Seq(Sent), Len(inbox) < Queue
  PROVE  (CHOOSE id \in Ids : id \notin Pending) \in Ids
<1> DEFINE IdAt == [i \in 1 .. Len(inbox) |-> inbox[i].id]
<1>1. IdAt \in Surjection(1 .. Len(inbox), Pending)
  BY DEF Surjection, Pending
<1>2. Cardinality(Pending) <= Len(inbox) /\ Len(inbox) \in Nat
  BY <1>1, FS_SurjCardinalityBound DEF ExistsSurjection
<1>3. IsFiniteSet(Pending) /\ Cardinality(Pending) \in Nat
  <2>1. IsFiniteSet(1 .. Len(inbox))
    BY <1>2, FS_Interval
  <2> QED
    BY <1>1, <2>1, FS_Surjection, FS_CardinalityType
<1>4. ~(Ids \subseteq Pending)
  <2> SUFFICES ASSUME Ids \subseteq Pending PROVE FALSE
    OBVIOUS
  <2>1. Cardinality(Ids) <= Cardinality(Pending)
    BY <1>3, FS_Subset
  <2>2. Cardinality(Ids) > Queue /\ Queue \in Nat /\ Cardinality(Ids) \in Nat
    BY RegistrationAssumption, FS_CardinalityType
  <2> QED
    BY <1>2, <1>3, <2>1, <2>2
<1> QED
  BY <1>4

(* What the kernel sends has numbers in it.                                *)
LEMMA SentFacts ==
  ASSUME NEW event \in Sent
  PROVE  \E kind \in {UHID_START, UHID_OPEN, UHID_GET_REPORT, UHID_SET_REPORT},
            id \in Nat, rnum \in Nat, rtype \in Nat :
           /\ event = [kind |-> kind, id |-> id, rnum |-> rnum, rtype |-> rtype]
           /\ IsU32(kind) /\ IsU32(id)
           /\ event \in Requests => kind \in {UHID_GET_REPORT, UHID_SET_REPORT}
<1>1. /\ IsU32(UHID_START) /\ IsU32(UHID_OPEN) /\ IsU32(0)
      /\ IsU32(UHID_GET_REPORT) /\ IsU32(UHID_SET_REPORT)
  BY Kinds32 DEF IsU32, UHID_START, UHID_OPEN
<1>2. \A id \in Ids : id \in Nat /\ IsU32(id)
  BY RegistrationAssumption DEF IsU32
<1>3. CASE event \in Requests
  BY <1>1, <1>2, <1>3 DEF Requests, RTYPE_INPUT
<1>4. ASSUME NEW kind \in {UHID_START, UHID_OPEN}, event = Plain(kind), event \notin Requests
      PROVE  \E id \in Nat, rnum \in Nat, rtype \in Nat :
               event = [kind |-> kind, id |-> id, rnum |-> rnum, rtype |-> rtype] /\ IsU32(id)
  BY <1>1, <1>4 DEF Plain
<1> QED
  BY <1>1, <1>3, <1>4 DEF Sent

(* The daemon reads in an event what the kernel wrote: whether it is a     *)
(* question, and under which ID.                                           *)
LEMMA EventRead ==
  ASSUME NEW event \in Sent
  PROVE  LET seen == decode(KernelWrites(event)) IN
         /\ event \in Requests => seen.type \in {"GetReport", "SetReport"}
         /\ seen.id = event.id /\ IsU32(event.id)
<1>1. PICK kind \in {UHID_START, UHID_OPEN, UHID_GET_REPORT, UHID_SET_REPORT},
           id \in Nat, rnum \in Nat, rtype \in Nat :
        /\ event = [kind |-> kind, id |-> id, rnum |-> rnum, rtype |-> rtype]
        /\ IsU32(kind) /\ IsU32(id)
        /\ event \in Requests => kind \in {UHID_GET_REPORT, UHID_SET_REPORT}
  BY SentFacts
<1>3. PICK seen : seen = decode(KernelWrites([kind |-> kind, id |-> id,
                                              rnum |-> rnum, rtype |-> rtype]))
  OBVIOUS
<1>4. seen = [type |-> CASE kind = UHID_START -> "Start"
                         [] kind = UHID_GET_REPORT -> "GetReport"
                         [] kind = UHID_SET_REPORT -> "SetReport"
                         [] OTHER -> "Ignored",
              id |-> id, rnum |-> rnum, rtype |-> rtype]
  BY <1>1, <1>3, DaemonReadsRequests
<1>5. seen.type = CASE kind = UHID_START -> "Start"
                    [] kind = UHID_GET_REPORT -> "GetReport"
                    [] kind = UHID_SET_REPORT -> "SetReport"
                    [] OTHER -> "Ignored"
  BY <1>4
<1>6. kind \in {UHID_GET_REPORT, UHID_SET_REPORT} => seen.type \in {"GetReport", "SetReport"}
  BY SMT, <1>5 DEF UHID_START, UHID_GET_REPORT, UHID_SET_REPORT
<1>7. seen.id = id /\ event.id = id
  BY <1>1, <1>4
<1> QED
  BY <1>1, <1>3, <1>6, <1>7

(* What the daemon has to say of its battery.                              *)
LEMMA OwnReport ==
  ASSUME NEW asked_for \in Devices, CreatedFor(asked_for)
  PROVE  /\ battery.percent \in 0 .. 100 /\ battery.charging \in BOOLEAN
         /\ report = Report(battery.kind, [percent |-> battery.percent,
                                           charging |-> battery.charging])
         /\ IsReport(report, battery.percent)
<1>1. battery.percent \in 0 .. 100 /\ battery.charging \in BOOLEAN
  BY DeviceFacts DEF CreatedFor
<1>2. report = Report(battery.kind, [percent |-> battery.percent, charging |-> battery.charging])
  BY DEF report, Report
<1> QED
  BY <1>1, <1>2, ReportBytes

(* The daemon's answer reaches whoever waits for it.                       *)
LEMMA AnswerReaches ==
  ASSUME BatteryKnown, AskedQueued, Read, asked # None, Head(inbox) = asked
  PROVE  asked' = None
<1>1. /\ Incoming.type \in {"GetReport", "SetReport"}
      /\ Incoming.id = asked.id /\ IsU32(asked.id)
  <2>1. asked \in Requests
    BY DEF AskedQueued
  <2> QED
    BY <2>1, EventRead DEF Incoming, Sent
<1>2. PICK asked_for \in Devices : CreatedFor(asked_for)
  BY DEF BatteryKnown, Read, ReadStart, ReadIgnored, ReadGetReport, ReadSetReport,
         Reading, Servicing, Waiting
<1>3. report \in Seq(Nat) /\ Len(report) <= DATA_MAX
  BY <1>2, OwnReport DEF IsReport
<1>4. /\ KernelReads(set_report_reply(asked.id)).id = asked.id
      /\ KernelReads(get_report_reply(asked.id, None)).id = asked.id
      /\ KernelReads(get_report_reply(asked.id, report)).id = asked.id
  BY <1>1, <1>3, KernelReadsErrors, KernelReadsReports
<1>5. CASE ReadGetReport
  <2>1. \/ TakeReply(get_report_reply(asked.id, None))
        \/ TakeReply(get_report_reply(asked.id, report))
    BY <1>1, <1>5 DEF ReadGetReport, Answer
  <2> QED
    BY <1>4, <2>1 DEF TakeReply
<1>6. CASE ReadSetReport
  <2>1. TakeReply(set_report_reply(asked.id))
    BY <1>1, <1>6 DEF ReadSetReport, Answer
  <2> QED
    BY <1>4, <2>1 DEF TakeReply
<1> QED
  BY <1>1, <1>5, <1>6 DEF Read, ReadStart, ReadIgnored

(* What is put behind the queue leaves what is in it.                      *)
LEMMA Appended ==
  ASSUME AskedQueued, NEW event \in Sent, inbox' = Append(inbox, event),
         asked' = asked \/ (asked' = event /\ event \in Requests)
  PROVE  AskedQueued'
<1>1. /\ inbox' \in Seq(Sent) /\ Len(inbox') = Len(inbox) + 1 /\ Len(inbox) \in Nat
      /\ \A i \in 1 .. Len(inbox) : inbox'[i] = inbox[i]
      /\ inbox'[Len(inbox) + 1] = event
  BY AppendProperties DEF AskedQueued
<1>2. DOMAIN inbox = 1 .. Len(inbox) /\ DOMAIN inbox' = 1 .. Len(inbox')
  BY <1>1 DEF AskedQueued
<1>3. CASE asked' = asked
  BY <1>1, <1>2, <1>3 DEF AskedQueued
<1>4. CASE asked' = event /\ event \in Requests
  <2>1. Len(inbox) + 1 \in DOMAIN inbox'
    BY <1>1, <1>2
  <2> QED
    BY <1>1, <1>4, <2>1 DEF AskedQueued
<1> QED
  BY <1>3, <1>4

(* What a drain leaves of the queue.                                       *)
LEMMA RestOfQueue ==
  ASSUME inbox \in Seq(Sent), NEW read \in 0 .. Len(inbox)
  PROVE  /\ SubSeq(inbox, read + 1, Len(inbox)) \in Seq(Sent)
         /\ Len(SubSeq(inbox, read + 1, Len(inbox))) <= Len(inbox)
<1>1. Len(inbox) \in Nat
  BY LenProperties
<1>2. \A i \in read + 1 .. Len(inbox) : inbox[i] \in Sent
  BY <1>1, ElementOfSeq
<1> QED
  BY <1>1, <1>2, SubSeqProperties

(* Every step leaves the request the kernel waits on in the queue, until   *)
(* it is answered.                                                         *)
LEMMA QueueStep ==
  DescriptorsParsed /\ BatteryKnown /\ AskedQueued /\ [Next]_vars => AskedQueued'
<1> SUFFICES ASSUME DescriptorsParsed, BatteryKnown, AskedQueued, [Next]_vars
             PROVE  AskedQueued'
  OBVIOUS
<1>1. ASSUME UNCHANGED <<inbox, asked>> PROVE AskedQueued'
  BY <1>1 DEF AskedQueued
<1>2. CASE (\E asked_for \in Devices : Create(asked_for)) \/ PushIfDue \/ UNCHANGED vars
  BY <1>1, <1>2 DEF Create, PushIfDue, vars, world
<1>3. CASE \/ \E timeout \in Timeouts : Wait(timeout)
           \/ \E numbered \in BOOLEAN : Register(numbered)
  BY <1>1, <1>3 DEF Wait, Register, world
<1>4. CASE Loop \/ Tick
  BY <1>1, <1>4 DEF Loop, Tick, Service, Look, ReadClock, ServeReturns, ServeInterrupted,
                    ServeFails, world
<1>5. CASE Destroy \/ GiveUp
  <2>1. inbox' \in Seq(Sent) /\ asked' = None
    BY <1>5, RestOfQueue DEF Destroy, GiveUp, AskedQueued
  <2> QED
    BY <2>1 DEF AskedQueued
<1>6. CASE Read
  <2>1. inbox \in Seq(Sent) /\ inbox # <<>> /\ inbox' = Tail(inbox)
    BY <1>6 DEF Read, ReadStart, ReadIgnored, ReadGetReport, ReadSetReport, Answer,
                Reading, Took, AskedQueued
  <2>2. asked' = asked \/ asked' = None
    BY <1>6 DEF Read, ReadStart, ReadIgnored, ReadGetReport, ReadSetReport, Answer, TakeReply
  <2>3. /\ inbox' \in Seq(Sent) /\ Len(inbox') = Len(inbox) - 1
        /\ \A i \in 1 .. Len(inbox') : inbox'[i] = inbox[i + 1]
    BY <2>1, HeadTailProperties
  <2>4. ASSUME asked' # None PROVE \E i \in DOMAIN inbox' : inbox'[i] = asked'
    <3>1. PICK i \in DOMAIN inbox : inbox[i] = asked
      BY <2>2, <2>4 DEF AskedQueued
    <3>2. i # 1
      BY <1>6, <2>1, <2>2, <2>4, <3>1, AnswerReaches
    <3>3. i - 1 \in 1 .. Len(inbox') /\ (i - 1) + 1 = i
      BY <2>1, <2>3, <3>1, <3>2
    <3>4. i - 1 \in DOMAIN inbox'
      BY <2>3, <3>3
    <3> QED
      BY <2>2, <2>3, <2>4, <3>1, <3>3, <3>4
  <2> QED
    BY <2>2, <2>3, <2>4 DEF AskedQueued
<1>7. CASE StartProbe \/ Notify
  <2>1. PICK kind \in {UHID_START, UHID_OPEN} :
          inbox' = Append(inbox, Plain(kind)) /\ asked' = asked
    BY <1>7 DEF StartProbe, Notify, Send
  <2>2. Plain(kind) \in Sent
    BY DEF Sent
  <2> QED
    BY <2>1, <2>2, Appended
<1>8. ASSUME NEW kind \in {UHID_GET_REPORT, UHID_SET_REPORT}, NEW rnum \in 1 .. 9,
             Ask(kind, rnum)
      PROVE  AskedQueued'
  <2> DEFINE event == [kind |-> kind, id |-> CHOOSE id \in Ids : id \notin Pending,
                       rnum |-> rnum, rtype |-> RTYPE_INPUT]
  <2>1. inbox' = Append(inbox, event) /\ Len(inbox) < Queue /\ asked' = event
    BY <1>8 DEF Ask, Send
  <2>2. (CHOOSE id \in Ids : id \notin Pending) \in Ids
    BY <2>1, FreeId DEF AskedQueued
  <2>3. event \in Requests
    BY <1>8, <2>2 DEF Requests
  <2>5. event \in Sent
    BY <2>3 DEF Sent
  <2> HIDE DEF event
  <2> QED
    BY <2>1, <2>3, <2>5, Appended
<1>9. CASE AskLevel
  <2>1. PICK field \in Strengths : Ask(UHID_GET_REPORT, field.report)
    BY <1>9 DEF AskLevel
  <2>2. PICK asked_for \in Devices : CreatedFor(asked_for)
    BY <2>1 DEF Ask, BatteryKnown
  <2>3. field.report \in 1 .. 9
    BY <2>2, LevelFields
  <2> QED
    BY <1>8, <2>1, <2>3
<1>10. CASE AskOther
  <2>1. 3 \in 1 .. 9 /\ 1 \in 1 .. 9
    OBVIOUS
  <2> QED
    BY <1>8, <1>10, <2>1 DEF AskOther
<1> QED
  BY <1>2, <1>3, <1>4, <1>5, <1>6, <1>7, <1>9, <1>10 DEF Next

(* Nobody waits for an answer before a question, which may come at any     *)
(* time; a question that is withdrawn is withdrawn between two calls.      *)
LEMMA AskedMoves ==
  [Next]_vars => asked' = asked \/ asked = None \/ pc = "caller" \/ Took
<1> SUFFICES ASSUME [Next]_vars
             PROVE  asked' = asked \/ asked = None \/ pc = "caller" \/ Took
  OBVIOUS
<1>1. CASE (\E asked_for \in Devices : Create(asked_for)) \/ Destroy \/ GiveUp \/ PushIfDue
  BY <1>1 DEF Create, Destroy, GiveUp, PushIfDue
<1>2. CASE \/ \E timeout \in Timeouts : Wait(timeout)
           \/ \E numbered \in BOOLEAN : Register(numbered)
  BY <1>2 DEF Wait, Register, world
<1>3. CASE Loop \/ Tick \/ UNCHANGED vars
  BY <1>3 DEF Loop, Tick, Service, Look, ReadClock, ServeReturns, ServeInterrupted,
              ServeFails, world, vars
<1>4. CASE Read
  BY <1>4 DEF Read, ReadStart, ReadIgnored, ReadGetReport, ReadSetReport, Answer
<1>5. CASE StartProbe \/ Notify \/ AskLevel \/ AskOther
  BY <1>5 DEF StartProbe, Notify, AskLevel, AskOther, Ask
<1> QED
  BY <1>1, <1>2, <1>3, <1>4, <1>5 DEF Next

(* Nobody waits for an answer when the queue is empty.                     *)
LEMMA NobodyWaits == ASSUME AskedQueued, inbox = <<>> PROVE asked = None
BY DEF AskedQueued

(* Every step keeps the kernel's wait within the turn of the loop.         *)
LEMMA UnansweredStep ==
  LoopTypeOK /\ AskedQueued /\ AskedQueued' /\ Unanswered /\ [Next]_vars => Unanswered'
<1> SUFFICES ASSUME LoopTypeOK, AskedQueued, AskedQueued', Unanswered, [Next]_vars
             PROVE  Unanswered'
  OBVIOUS
<1>0. LoopMoves
  BY EveryMove
<1> USE Periods, Counts
<1>1. CASE UNCHANGED <<pc, call, ghosts>>
  <2>1. UNCHANGED <<pc, lag, waited>>
    BY <1>1 DEF call, ghosts
  <2>2. CASE Took
    BY <2>1, <2>2 DEF Took, Waiting, Unanswered
  <2>3. CASE ~Took
    <3>1. asked' = asked \/ asked = None \/ pc = "caller"
      BY <2>3, AskedMoves
    <3> QED
      BY <2>1, <3>1 DEF Waiting, Unanswered
  <2> QED
    BY <2>2, <2>3
<1>2. ASSUME NEW timeout \in Timeouts, Wait(timeout) PROVE Unanswered'
  <2>1. UNCHANGED <<lag, waited>> /\ waited = 0 /\ pc' = "service"
    BY <1>2 DEF Wait, ghosts, Waiting, Unanswered
  <2> QED
    BY <2>1 DEF Waiting, Unanswered
<1>3. ASSUME NEW result, NEW entry, Return(result, entry) PROVE Unanswered'
  BY <1>3 DEF Return, Waiting, Unanswered
<1>4. CASE pc = "service" /\ ((inbox = <<>> /\ Go("look")) \/ ReadInterrupted)
  <2>1. inbox = <<>> => waited = 0
    BY NobodyWaits DEF Unanswered
  <2>2. lag' = lag /\ waited' = 0 /\ pc' = "look"
    BY <1>4, <2>1 DEF Go, ReadInterrupted, call, ghosts
  <2> QED
    BY <2>2 DEF Waiting, Unanswered
<1>5. CASE /\ (pc = "look" /\ Go("clock")) \/ (pc = "serve" /\ Go("service"))
           /\ UNCHANGED world
  <2>1. /\ UNCHANGED <<lag, waited, asked>> /\ Waiting
        /\ pc' = "service" \/ (pc = "look" /\ pc' = "clock")
    BY <1>5 DEF Go, call, ghosts, world, Waiting
  <2> QED
    BY <2>1 DEF Waiting, Unanswered
<1>6. CASE pc = "clock" /\ deadline # 0 /\ Serve /\ UNCHANGED world
  <2>1. pc' = "serve" /\ lag' = 0 /\ UNCHANGED <<waited, asked>> /\ Waiting
    BY <1>6 DEF Serve, ghosts, world, Waiting
  <2> QED
    BY <1>6, <2>1 DEF Waiting, Unanswered
<1>7. CASE Reading /\ Took
  <2>1. pc' = pc /\ waited' = IF asked' = None THEN 0 ELSE waited
    BY <1>7 DEF Took
  <2>2. lag' = IF pc = "serve" /\ until > 0 /\ inbox' = <<>> THEN 0 ELSE lag
    BY <1>7 DEF Took
  <2>3. CASE asked' = None
    <3>1. PICK since \in Nat : since = lag'
      BY <2>2
    <3>2. waited' = 0 /\ 0 <= since /\ 0 <= MaxLag + since
      BY <2>1, <2>3
    <3> QED
      BY <3>1, <3>2 DEF Unanswered
  <2>4. CASE asked' # None
    <3>1. inbox' # <<>>
      BY <2>4, NobodyWaits DEF AskedQueued
    <3>2. waited' = waited /\ lag' = lag
      BY <2>1, <2>2, <2>4, <3>1
    <3>3. asked # None \/ waited = 0
      BY DEF Unanswered
    <3> QED
      BY <2>1, <2>4, <3>2 DEF Waiting, Unanswered
  <2> QED
    BY <2>3, <2>4
<1>8. CASE Tick
  <2>1. UNCHANGED <<pc, asked>> /\ Waiting
    BY <1>8 DEF Tick, world
  <2>2. waited' = IF asked = None THEN 0 ELSE OneMore(waited)
    BY <1>8 DEF Tick
  <2>3. lag' = (IF Blocked THEN lag ELSE lag + 1)
    BY <1>8 DEF Tick
  <2>4. CASE asked = None
    <3>1. PICK since \in Nat : since = lag'
      BY <2>3
    <3>2. waited' = 0 /\ 0 <= since /\ 0 <= MaxLag + since
      BY <2>2, <2>4
    <3> QED
      BY <3>1, <3>2 DEF Unanswered
  <2>5. CASE asked # None
    <3>1. lag' = lag + 1
      BY <2>3, <2>5, NobodyWaits DEF Blocked
    <3>2. PICK longer \in Nat : longer = waited' /\ longer <= waited + 1
      BY <2>2, <2>5, OneMoreFacts
    <3>3. longer <= MaxLag + (lag + 1) /\ (pc \in {"look", "clock"} => longer <= lag + 1)
      BY <3>2 DEF Unanswered
    <3> QED
      BY <2>1, <2>5, <3>1, <3>2, <3>3 DEF Waiting, Unanswered
  <2> QED
    BY <2>4, <2>5
<1> QED
  BY <1>0, <1>1, <1>2, <1>3, <1>4, <1>5, <1>6, <1>7, <1>8 DEF LoopMoves

(* The kernel is answered as soon as the call has woken up: the battery it *)
(* probes does not wait for the supply that waits for the probe.           *)
THEOREM AnsweredSoonHolds == ASSUME DescriptorsParsed PROVE Spec => []AnsweredSoon
<1>1. Init => AskedQueued /\ Unanswered
  BY Periods, EmptySeq DEF Init, LoopInit, AskedQueued, Unanswered
<1>2. BatteryKnown /\ AskedQueued /\ [Next]_vars => AskedQueued'
  BY QueueStep
<1>3. LoopTypeOK /\ Unanswered => AnsweredSoon
  BY Periods, Counts DEF Unanswered, AnsweredSoon
<1> QED
  BY <1>1, <1>2, <1>3, UnansweredStep, SupplyInvariant, PTL DEF Spec

------------------------------------------------------------------------------
(* The bytes.                                                              *)

(* The battery, throughout.                                                *)
LEMMA KnownInvariant == Spec => []BatteryKnown
<1>1. Init => BatteryKnown
  BY DEF Init, LoopInit, Waiting, BatteryKnown
<1> QED
  BY <1>1, BatteryStep, PTL DEF Spec

(* The kernel has the whole identity and the descriptor: nothing validate  *)
(* accepts is cut short, and no field is read where another was written.   *)
THEOREM KernelSeesIdentityHolds == Spec => []KernelSeesIdentity
<1>1. BatteryKnown => KernelSeesIdentity
  <2> SUFFICES ASSUME BatteryKnown, device # None
               PROVE  device = [type |-> "Create2", name |-> identity.name,
                                phys |-> identity.phys, uniq |-> identity.uniq,
                                bus |-> BUS_VIRTUAL, vendor |-> identity.vendor,
                                product |-> identity.product,
                                descriptor |-> descriptor(battery.kind)]
    BY DEF KernelSeesIdentity
  <2>1. PICK asked_for \in Devices : CreatedFor(asked_for)
    BY DEF BatteryKnown
  <2> QED
    BY <2>1, KernelHas
<1> QED
  BY <1>1, KnownInvariant, PTL

(* An identity is given by create, and forgotten by destroy.               *)
LEMMA IdentityMoves ==
  ASSUME [Next]_vars
  PROVE  \/ identity' = identity \/ identity' = None
         \/ \E asked_for \in Devices : identity' = asked_for.identity
<1>1. CASE (\E asked_for \in Devices : Create(asked_for)) \/ Destroy \/ GiveUp
  BY <1>1 DEF Create, Destroy, GiveUp, rest
<1>2. CASE \/ (\E timeout \in Timeouts : Wait(timeout)) /\ UNCHANGED rest
           \/ \E numbered \in BOOLEAN : Register(numbered)
  BY <1>2 DEF Register, rest
<1>3. CASE Loop \/ (Tick /\ UNCHANGED rest) \/ UNCHANGED vars
  BY <1>3 DEF Loop, vars, rest
<1>4. CASE Read \/ PushIfDue
  BY <1>4 DEF Read, ReadStart, ReadIgnored, ReadGetReport, ReadSetReport, Answer, PushIfDue, rest
<1>5. CASE StartProbe \/ Notify \/ AskLevel \/ AskOther
  BY <1>5 DEF StartProbe, Notify, AskLevel, AskOther, Ask, Send
<1> QED
  BY <1>1, <1>2, <1>3, <1>4, <1>5 DEF Next

(* A string's characters are whole up to just those places where put_str   *)
(* may cut it.                                                             *)
LEMMA WholeUpTo ==
  ASSUME NEW value \in Strings, NEW end \in 0 .. Len(value)
  PROVE  WholeChars(SubSeq(value, 1, end)) <=> end = 0 \/ is_char_boundary(value, end)
<1> DEFINE head == SubSeq(value, 1, end)
<1>1. value \in Seq(0 .. 255) /\ Utf8(value)
  BY DEF Strings
<1>2. Len(value) \in Nat /\ DOMAIN value = 1 .. Len(value) /\ end \in Nat
  BY <1>1
<1>3. /\ Len(head) = end /\ DOMAIN head = 1 .. end
      /\ \A i \in 1 .. end : head[i] = value[i] /\ i \in DOMAIN value
  BY <1>1, <1>2
<1>4. ASSUME NEW i \in DOMAIN value
      PROVE  CharLen(value[i]) \in 1 .. 4
  BY DEF CharLen
<1> HIDE DEF head
<1>5. CASE end = 0 \/ end = Len(value)
  <2>1. CASE end = 0
    BY <1>3, <2>1 DEF WholeChars
  <2>2. CASE end = Len(value)
    <3>1. \A i \in 1 .. end : value[i] \notin 128 .. 191 => i + CharLen(value[i]) - 1 <= end
      BY <1>1, <1>2, <2>2 DEF Utf8, WholeChars
    <3>2. WholeChars(head)
      BY <1>3, <3>1 DEF WholeChars
    <3> QED
      BY <2>2, <3>2 DEF is_char_boundary, head
  <2> QED
    BY <1>5, <2>1, <2>2 DEF head
<1>6. CASE end # 0 /\ end # Len(value)
  <2>0. PICK length \in Nat : length = Len(value)
    BY <1>2
  <2>a. end \in 0 .. length /\ end # length
    BY <1>6, <2>0
  <2>b. end + 1 \in 1 .. length /\ (end + 1) - 1 = end
    BY <2>a
  <2>1. end + 1 \in DOMAIN value /\ (end + 1) - 1 = end
    BY <1>2, <2>0, <2>b
  <2>2. value[end + 1] \in 128 .. 191 <=>
          \E i \in 1 .. end : /\ value[i] \notin 128 .. 191
                              /\ end + 1 <= i + CharLen(value[i]) - 1
    BY <1>1, <2>1 DEF Utf8
  <2>3. ASSUME NEW i \in 1 .. end
        PROVE  end + 1 <= i + CharLen(value[i]) - 1 <=> ~(i + CharLen(value[i]) - 1 <= end)
    BY <1>2, <1>3, <1>4
  <2>4. WholeChars(head) <=>
          \A i \in 1 .. end : value[i] \notin 128 .. 191 => i + CharLen(value[i]) - 1 <= end
    BY <1>3 DEF WholeChars
  <2>5. WholeChars(head) <=> value[end + 1] \notin 128 .. 191
    BY <2>2, <2>3, <2>4
  <2> QED
    BY <1>6, <2>5 DEF is_char_boundary, head
<1> QED
  BY <1>5, <1>6

(* So put_str keeps as much of a string as fits, in whole characters.      *)
LEMMA FittingIsWhole ==
  ASSUME NEW value \in Strings, NEW field \in Nat \ {0}
  PROVE  fitting(value, field) =
           Max({end \in 0 .. Len(value) : end < field /\ WholeChars(SubSeq(value, 1, end))})
<1>1. Len(value) \in Nat
  BY StringFacts
<1>2. PICK room \in Nat : room = IF Len(value) < field THEN Len(value) ELSE field - 1
  BY <1>1
<1>3. \A end \in Nat : end \in 0 .. room <=> end \in 0 .. Len(value) /\ end < field
  BY <1>1, <1>2
<1>4. {end \in 0 .. room : end = 0 \/ is_char_boundary(value, end)}
        = {end \in 0 .. Len(value) : end < field /\ WholeChars(SubSeq(value, 1, end))}
  BY <1>3, WholeUpTo
<1> QED
  BY <1>2, <1>4 DEF fitting

(* A string is cut at the end of a character, as late as leaves room for   *)
(* the NUL, in whichever characters it ends and however long it is.        *)
THEOREM CutAtACharacterHolds == Spec => CutAtACharacter
<1> DEFINE Cut ==
  identity' # identity /\ identity' # None =>
    \A cut \in { <<identity'.name, LEN_NAME>>, <<identity'.phys, LEN_PHYS>> } :
      LET whole == {end \in 0 .. Len(cut[1]) :
                      end < cut[2] /\ WholeChars(SubSeq(cut[1], 1, end))}
      IN  fitting(cut[1], cut[2]) = Max(whole)
<1>1. ASSUME [Next]_vars PROVE Cut
  <2> SUFFICES ASSUME identity' # identity, identity' # None,
                      NEW cut \in { <<identity'.name, LEN_NAME>>, <<identity'.phys, LEN_PHYS>> }
               PROVE  fitting(cut[1], cut[2]) =
                        Max({end \in 0 .. Len(cut[1]) :
                               end < cut[2] /\ WholeChars(SubSeq(cut[1], 1, end))})
    OBVIOUS
  <2>1. PICK asked_for \in Devices : identity' = asked_for.identity
    BY <1>1, IdentityMoves
  <2>2. identity'.name \in Strings /\ identity'.phys \in Strings
    BY <2>1, DeviceFacts
  <2>3. cut[1] \in Strings /\ cut[2] \in Nat \ {0}
    BY <2>2, Sizes
  <2> QED
    BY <2>3, FittingIsWhole
<1>2. Spec => [][Cut]_vars
  BY <1>1, PTL DEF Spec
<1> QED
  BY <1>2, PTL DEF CutAtACharacter

(* The kernel finds the battery's level in a pushed report, and whether it *)
(* charges, by the fields its parser made of the descriptor.               *)
LEMMA PushShows ==
  ASSUME DescriptorsParsed, NEW asked_for \in Devices, CreatedFor(asked_for), ShownKnown,
         TakeInput(input2(report))
  PROVE  shown' \in [percent : {None, battery.percent}, charging : {None, battery.charging}]
<1>1. /\ battery.percent \in 0 .. 100 /\ battery.charging \in BOOLEAN
      /\ report = Report(battery.kind, [percent |-> battery.percent,
                                        charging |-> battery.charging])
      /\ report \in Seq(Nat) /\ Len(report) <= DATA_MAX
  BY OwnReport DEF IsReport
<1>2. PICK fields : fields = parsed.fields
  OBVIOUS
<1>3. battery.kind \in Kinds /\ Parsed(descriptor(battery.kind)).fields = fields
  BY <1>2, KernelHas
<1>4. /\ BatteryFields(fields) # {}
      /\ \A field \in BatteryFields(fields) : FieldValue(report, field) = battery.percent
      /\ (FieldValue(report, FieldOf(fields, Charging)) = 1) = battery.charging
  <2>1. PICK percent \in 0 .. 100, charging \in BOOLEAN :
          percent = battery.percent /\ charging = battery.charging
    BY <1>1
  <2>2. report = Report(battery.kind, [percent |-> percent, charging |-> charging])
    BY <1>1, <2>1
  <2>3. /\ BatteryFields(fields) # {}
        /\ LET data == Report(battery.kind, [percent |-> percent, charging |-> charging]) IN
           /\ \A field \in BatteryFields(fields) : FieldValue(data, field) = percent
           /\ (FieldValue(data, FieldOf(fields, Charging)) = 1) = charging
    BY <1>3 DEF DescriptorsParsed
  <2> QED
    BY <2>1, <2>2, <2>3
<1>5. FieldValue(report, StrengthField) = battery.percent
  BY <1>2, <1>4 DEF StrengthField, Strengths
<1>6. KernelReads(input2(report)).data = report
  <2>1. IsU32(0)
    BY DEF IsU32
  <2>2. KernelReads(input2(report)) = [type |-> "Input2", data |-> report]
    BY <1>1, <2>1, KernelReadsReports
  <2> QED
    BY <2>2
<1>7. CASE stage = "ready"
  <2>1. shown' = [percent |-> FieldValue(report, StrengthField),
                  charging |-> FieldValue(report, FieldOf(fields, Charging)) = 1]
    BY <1>2, <1>6, <1>7 DEF TakeInput
  <2> QED
    BY <1>4, <1>5, <2>1
<1>8. CASE stage # "ready"
  <2>1. battery # None /\ shown' = shown
    BY <1>8, CreatedFacts DEF TakeInput
  <2> QED
    BY <2>1 DEF ShownKnown
<1> QED
  BY <1>7, <1>8

(* And the level in an answer, which an error does not have.               *)
LEMMA AnswerShows ==
  ASSUME NEW asked_for \in Devices, CreatedFor(asked_for), ShownKnown, NEW id, IsU32(id),
         \/ TakeReply(get_report_reply(id, report))
         \/ TakeReply(get_report_reply(id, None))
         \/ TakeReply(set_report_reply(id))
  PROVE  shown' \in [percent : {None, battery.percent}, charging : {None, battery.charging}]
<1>1. /\ report \in Seq(Nat) /\ Len(report) <= DATA_MAX /\ report[2] = battery.percent
  BY OwnReport DEF IsReport
<1>2. shown \in [percent : {None, battery.percent}, charging : {None, battery.charging}]
  BY CreatedFacts DEF ShownKnown
<1>3. CASE TakeReply(get_report_reply(id, report))
  <2>1. KernelReads(get_report_reply(id, report)).data = report
    BY <1>1, KernelReadsReports
  <2>2. shown' = shown \/ shown' = [shown EXCEPT !.percent = report[2]]
    BY <1>3, <2>1 DEF TakeReply
  <2> QED
    BY <1>1, <1>2, <2>2
<1>4. CASE TakeReply(get_report_reply(id, None))
  <2>1. KernelReads(get_report_reply(id, None)).err # 0
    BY KernelReadsErrors DEF EIO
  <2>2. shown' = shown
    BY <1>4, <2>1 DEF TakeReply
  <2> QED
    BY <1>2, <2>2
<1>5. CASE TakeReply(set_report_reply(id))
  <2>1. KernelReads(set_report_reply(id)).type # "GetReportReply"
    BY KernelReadsErrors
  <2>2. shown' = shown
    BY <1>5, <2>1 DEF TakeReply
  <2> QED
    BY <1>2, <2>2
<1> QED
  BY <1>3, <1>4, <1>5

(* No other step changes what sysfs shows.                                 *)
LEMMA ShownMoves ==
  ASSUME [Next]_vars
  PROVE  \/ Destroy \/ PushIfDue \/ ReadGetReport \/ ReadSetReport
         \/ shown' = shown
<1>1. CASE (\E asked_for \in Devices : Create(asked_for)) \/ GiveUp
  BY <1>1 DEF Create, GiveUp, rest
<1>2. CASE \/ (\E timeout \in Timeouts : Wait(timeout)) /\ UNCHANGED rest
           \/ \E numbered \in BOOLEAN : Register(numbered)
  BY <1>2 DEF Register, rest
<1>3. CASE Loop \/ (Tick /\ UNCHANGED rest) \/ UNCHANGED vars
  BY <1>3 DEF Loop, vars, rest
<1>4. CASE Read
  BY <1>4 DEF Read, ReadStart, ReadIgnored, rest
<1>5. CASE StartProbe \/ Notify \/ AskLevel \/ AskOther
  BY <1>5 DEF StartProbe, Notify, AskLevel, AskOther, Ask, Send
<1> QED
  BY <1>1, <1>2, <1>3, <1>4, <1>5 DEF Next

(* Every step leaves sysfs showing the reading, or nothing yet.            *)
LEMMA ShownStep ==
  DescriptorsParsed /\ BatteryKnown /\ AskedQueued /\ ShownKnown /\ [Next]_vars => ShownKnown'
<1> SUFFICES ASSUME DescriptorsParsed, BatteryKnown, AskedQueued, ShownKnown, [Next]_vars
             PROVE  ShownKnown'
  OBVIOUS
<1>1. CASE battery = None
  <2>1. shown = Nothing
    BY <1>1 DEF BatteryKnown
  <2>2. ~Reading /\ ~Servicing
    BY <1>1 DEF BatteryKnown, Reading, Servicing, Waiting
  <2>3. shown' = shown \/ battery' = None
    BY <2>2, ShownMoves DEF Destroy, PushIfDue, ReadGetReport, ReadSetReport
  <2> QED
    BY <2>1, <2>3 DEF ShownKnown, Nothing
<1>2. CASE battery # None
  <2>1. PICK asked_for \in Devices : CreatedFor(asked_for)
    BY <1>2 DEF BatteryKnown
  <2>2. CASE Destroy
    BY <2>2 DEF Destroy, ShownKnown
  <2>3. ASSUME ~Destroy PROVE ShownKnown'
    <3>1. battery'.percent = battery.percent /\ battery'.charging = battery.charging
      <4>1. battery' = battery \/ \E due \in BOOLEAN : battery' = [battery EXCEPT !.repush = due]
        BY <1>2, <2>3, BatteryMoves
      <4> QED
        BY <2>1, <4>1, CreatedFacts DEF Batteries
    <3>2. shown' \in [percent : {None, battery.percent}, charging : {None, battery.charging}]
      <4>1. CASE PushIfDue
        BY <2>1, <4>1, PushShows DEF PushIfDue
      <4>2. CASE ReadGetReport \/ ReadSetReport
        <5>1. inbox \in Seq(Sent) /\ inbox # <<>>
          BY <4>2 DEF ReadGetReport, ReadSetReport, Reading, AskedQueued
        <5>2. Head(inbox) \in Sent
          BY <5>1, HeadTailProperties
        <5>3. IsU32(Incoming.id)
          BY <5>2, EventRead DEF Incoming
        <5>4. \/ TakeReply(get_report_reply(Incoming.id, report))
              \/ TakeReply(get_report_reply(Incoming.id, None))
              \/ TakeReply(set_report_reply(Incoming.id))
          BY <4>2 DEF ReadGetReport, ReadSetReport, Answer
        <5> QED
          BY <2>1, <5>3, <5>4, AnswerShows
      <4>3. CASE shown' = shown
        BY <1>2, <4>3 DEF ShownKnown
      <4> QED
        BY <1>2, <2>3, <4>1, <4>2, <4>3, ShownMoves
    <3> QED
      BY <3>1, <3>2 DEF ShownKnown
  <2> QED
    BY <2>2, <2>3
<1> QED
  BY <1>1, <1>2

(* What the kernel has of the battery, what it has yet to read, and what   *)
(* it shows, throughout.                                                   *)
LEMMA ShownInvariant ==
  ASSUME DescriptorsParsed
  PROVE  Spec => [](BatteryKnown /\ AskedQueued /\ ShownKnown)
<1>1. Init => AskedQueued /\ ShownKnown
  BY EmptySeq DEF Init, AskedQueued, ShownKnown
<1>2. BatteryKnown /\ AskedQueued /\ [Next]_vars => AskedQueued'
  BY QueueStep
<1>3. BatteryKnown /\ AskedQueued /\ ShownKnown /\ [Next]_vars => ShownKnown'
  BY ShownStep
<1> QED
  BY <1>1, <1>2, <1>3, KnownInvariant, PTL DEF Spec

(* What sysfs shows is the battery's reading, pushed or asked for, and an  *)
(* answer to one question is not taken for another's.                      *)
THEOREM LevelIsReadingHolds == ASSUME DescriptorsParsed PROVE Spec => []LevelIsReading
<1>1. ShownKnown => LevelIsReading
  BY DEF ShownKnown, LevelIsReading
<1> QED
  BY <1>1, ShownInvariant, PTL

------------------------------------------------------------------------------
(* The stand-in for the kernel.                                            *)

(* What it makes of the events a battery writes, and what it sends.        *)
LEMMA FakeAgrees ==
  ASSUME NEW sent \in Seq(Nat), Len(sent) <= DATA_MAX, NEW id \in Ids
  PROVE  /\ decode_sent(input2(sent)) = KernelReads(input2(sent))
         /\ decode_sent(get_report_reply(id, sent)) = KernelReads(get_report_reply(id, sent))
         /\ decode_sent(get_report_reply(id, None)) = KernelReads(get_report_reply(id, None))
         /\ decode_sent(set_report_reply(id)) = KernelReads(set_report_reply(id))
         /\ \A kind \in {UHID_GET_REPORT, UHID_SET_REPORT} :
              request(kind, id, 1, RTYPE_INPUT)
              = KernelWrites([kind |-> kind, id |-> id, rnum |-> 1, rtype |-> RTYPE_INPUT])
<1>1. IsU32(id)
  BY RegistrationAssumption
<1>2. 1 \in Nat /\ RTYPE_INPUT \in Nat
  BY DEF RTYPE_INPUT
<1>3. \A kind \in {UHID_GET_REPORT, UHID_SET_REPORT} : IsU32(kind)
  BY Kinds32
<1> QED
  BY <1>1, <1>2, <1>3, FakeReadsReports, FakeReadsErrors, FakeWritesRequests

(* The stand-in reads of every event what the kernel would read, and       *)
(* writes what the kernel would, so that a unit test that passes with it   *)
(* says something of the kernel.  It reads a descriptor no longer than a   *)
(* report, which is no bound as both arrays have HID_MAX_DESCRIPTOR_SIZE   *)
(* and UHID_DATA_MAX of 4096 bytes.                                        *)
THEOREM FakeIsFaithfulHolds == ASSUME DATA_MAX = RD_DATA_MAX PROVE Spec => FakeIsFaithful
<1> DEFINE Faithful ==
  Created =>
    LET asks == Ids \X {UHID_GET_REPORT, UHID_SET_REPORT}
        written ==
          {create2(identity'.name, identity'.phys, identity'.uniq, identity'.vendor,
                   identity'.product, device'.descriptor),
           input2(report'), destroy}
          \cup {get_report_reply(id, report') : id \in Ids}
          \cup {get_report_reply(id, None) : id \in Ids}
          \cup {set_report_reply(id) : id \in Ids}
    IN  /\ \A event \in written : decode_sent(event) = KernelReads(event)
        /\ \A ask \in asks :
             request(ask[2], ask[1], 1, RTYPE_INPUT)
             = KernelWrites([kind |-> ask[2], id |-> ask[1],
                             rnum |-> 1, rtype |-> RTYPE_INPUT])
<1>1. ASSUME BatteryKnown, [Next]_vars PROVE Faithful
  <2> SUFFICES ASSUME Created PROVE Faithful
    OBVIOUS
  <2>1. PICK asked_for \in Devices : CreatedFor(asked_for)'
    BY <1>1, BatteryStep DEF BatteryKnown, Created
  <2>2. /\ validate(asked_for.identity) /\ Written(asked_for) # None
        /\ identity' = asked_for.identity /\ device' = KernelReads(Written(asked_for))
        /\ report' = Report(asked_for.kind, [percent |-> clamped(asked_for.percent),
                                             charging |-> asked_for.charging])
    BY <2>1 DEF CreatedFor, report, Report
  <2>3. PICK sent \in Seq(Nat) : sent = report' /\ Len(sent) <= DATA_MAX
    <3>1. IsReport(report', clamped(asked_for.percent))
      BY <2>2, DeviceFacts, ReportBytes
    <3> QED
      BY <3>1 DEF IsReport
  <2>4. PICK given : given = asked_for.identity
    OBVIOUS
  <2>5. PICK bytes \in Seq(Nat) : bytes = device'.descriptor /\ Len(bytes) <= DATA_MAX
    BY <2>2, WrittenIsRead, DescriptorBytes
  <2>6. LET event == create2(given.name, given.phys, given.uniq, given.vendor, given.product, bytes)
        IN  decode_sent(event) = KernelReads(event)
    <3>1. /\ given.name \in Seq(Nat) /\ given.phys \in Seq(Nat) /\ given.uniq \in Seq(Nat)
          /\ IsU32(given.vendor) /\ IsU32(given.product)
      BY <2>4, DeviceFacts, StringFacts, U16Fits
    <3>2. /\ Len(given.name) < LEN_NAME /\ 0 \notin ToSet(given.name)
          /\ Len(given.phys) < LEN_PHYS /\ 0 \notin ToSet(given.phys)
          /\ Len(given.uniq) < LEN_UNIQ /\ 0 \notin ToSet(given.uniq)
      BY <2>2, <2>4, AcceptedFits
    <3> QED
      BY <2>5, <3>1, <3>2, FakeReadsCreate
  <2>7. decode_sent(input2(sent)) = KernelReads(input2(sent))
        /\ decode_sent(destroy) = KernelReads(destroy)
    <3>1. IsU32(0)
      BY DEF IsU32
    <3> QED
      BY <2>3, <3>1, FakeReadsReports, FakeReadsErrors
  <2>8. ASSUME NEW ask \in Ids \X {UHID_GET_REPORT, UHID_SET_REPORT}
        PROVE  request(ask[2], ask[1], 1, RTYPE_INPUT)
               = KernelWrites([kind |-> ask[2], id |-> ask[1], rnum |-> 1, rtype |-> RTYPE_INPUT])
    <3>1. ask[1] \in Ids /\ ask[2] \in {UHID_GET_REPORT, UHID_SET_REPORT}
      OBVIOUS
    <3> QED
      BY <2>3, <3>1, FakeAgrees
  <2> DEFINE written ==
        {create2(identity'.name, identity'.phys, identity'.uniq, identity'.vendor,
                 identity'.product, device'.descriptor),
         input2(report'), destroy}
        \cup {get_report_reply(id, report') : id \in Ids}
        \cup {get_report_reply(id, None) : id \in Ids}
        \cup {set_report_reply(id) : id \in Ids}
  <2>9. ASSUME NEW event \in written PROVE decode_sent(event) = KernelReads(event)
    <3>1. \/ event = create2(given.name, given.phys, given.uniq, given.vendor, given.product, bytes)
          \/ event = input2(sent) \/ event = destroy
          \/ \E ask \in Ids : \/ event = get_report_reply(ask, sent)
                              \/ event = get_report_reply(ask, None)
                              \/ event = set_report_reply(ask)
      BY <2>2, <2>3, <2>4, <2>5
    <3> QED
      BY <2>3, <2>6, <2>7, <3>1, FakeAgrees
  <2> QED
    BY <2>8, <2>9
<1>2. Spec => [][Faithful]_vars
  BY <1>1, KnownInvariant, PTL DEF Spec
<1> QED
  BY <1>2, PTL DEF FakeIsFaithful

------------------------------------------------------------------------------
(* The types.                                                              *)

(* The queue stays within its bound: the kernel sends no more, and the     *)
(* daemon takes one event at a time.                                       *)
LEMMA QueueMoves ==
  ASSUME inbox \in Seq(Sent), Len(inbox) <= Queue, [Next]_vars
  PROVE  Len(inbox') <= Queue
<1>1. Queue \in Nat /\ Len(inbox) \in Nat
  BY RegistrationAssumption
<1>2. CASE inbox' = inbox
  BY <1>2
<1>3. CASE Destroy
  BY <1>1, <1>3, RestOfQueue, LenProperties DEF Destroy
<1>4. CASE inbox # <<>> /\ inbox' = Tail(inbox)
  BY <1>1, <1>4, HeadTailProperties
<1>5. ASSUME NEW event, Send(event) PROVE Len(inbox') <= Queue
  BY <1>1, <1>5 DEF Send
<1>6. CASE (\E asked_for \in Devices : Create(asked_for)) \/ GiveUp \/ PushIfDue
  BY <1>2, <1>6 DEF Create, GiveUp, PushIfDue
<1>7. CASE \/ \E timeout \in Timeouts : Wait(timeout)
           \/ \E numbered \in BOOLEAN : Register(numbered)
  BY <1>2, <1>7 DEF Wait, Register, world
<1>8. CASE Loop \/ Tick \/ UNCHANGED vars
  BY <1>2, <1>8 DEF Loop, Tick, Service, Look, ReadClock, ServeReturns, ServeInterrupted,
                    ServeFails, world, vars
<1>9. CASE Read
  BY <1>4, <1>9 DEF Read, ReadStart, ReadIgnored, ReadGetReport, ReadSetReport, Answer,
                    Reading, Took
<1>10. CASE StartProbe \/ Notify \/ AskLevel \/ AskOther
  BY <1>5, <1>10 DEF StartProbe, Notify, AskLevel, AskOther, Ask
<1> QED
  BY <1>3, <1>6, <1>7, <1>8, <1>9, <1>10 DEF Next

(* A device is created, probed and ready, whoever asked for it.            *)
LEMMA StageMoves ==
  ASSUME [Next]_vars
  PROVE  stage' = stage \/ stage' \in {"none", "created", "probing", "ready"}
<1>1. CASE (\E asked_for \in Devices : Create(asked_for)) \/ Destroy \/ GiveUp
  BY <1>1 DEF Create, Destroy, GiveUp, rest
<1>2. CASE \/ (\E timeout \in Timeouts : Wait(timeout)) /\ UNCHANGED rest
           \/ \E numbered \in BOOLEAN : Register(numbered)
  BY <1>2 DEF Register, rest
<1>3. CASE Loop \/ (Tick /\ UNCHANGED rest) \/ UNCHANGED vars
  BY <1>3 DEF Loop, vars, rest
<1>4. CASE Read \/ PushIfDue
  BY <1>4 DEF Read, ReadStart, ReadIgnored, ReadGetReport, ReadSetReport, Answer, PushIfDue, rest
<1>5. CASE StartProbe \/ Notify \/ AskLevel \/ AskOther
  BY <1>5 DEF StartProbe, Notify, AskLevel, AskOther, Ask, Send
<1> QED
  BY <1>1, <1>2, <1>3, <1>4, <1>5 DEF Next

(* What every step leaves as it was made.                                  *)
LEMMA ShapesStep == AskedQueued /\ Shapes /\ [Next]_vars => Shapes'
<1> SUFFICES ASSUME AskedQueued, Shapes, [Next]_vars PROVE Shapes'
  OBVIOUS
<1>1. Len(inbox') <= Queue
  BY QueueMoves DEF AskedQueued, Shapes
<1>2. identity' \in Identities \cup {None}
  BY IdentityMoves, DeviceFacts DEF Shapes
<1>3. stage' \in {"none", "created", "probing", "ready"}
  BY StageMoves DEF Shapes
<1> QED
  BY <1>1, <1>2, <1>3 DEF Shapes

(* What the kernel has of a battery is what it may have of one.            *)
LEMMA DeviceIsDescribed ==
  ASSUME NEW asked_for \in Devices, CreatedFor(asked_for)
  PROVE  device \in Described
<1>1. device = [type |-> "Create2", name |-> identity.name, phys |-> identity.phys,
                uniq |-> identity.uniq, bus |-> BUS_VIRTUAL, vendor |-> identity.vendor,
                product |-> identity.product, descriptor |-> descriptor(battery.kind)]
  BY KernelHas
<1>2. /\ identity.name \in Strings /\ identity.phys \in Strings /\ identity.uniq \in Strings
      /\ identity.vendor \in U16 /\ identity.product \in U16
  BY DeviceFacts DEF CreatedFor
<1>3. descriptor(battery.kind) \in Seq(Nat)
  BY DescriptorBytes
<1> QED
  BY <1>1, <1>2, <1>3 DEF Described

(* A supply's name is a string.                                            *)
LEMMA NameIsBytes ==
  ASSUME BatteryKnown, OursNamed, ours # None
  PROVE  ours \in Seq(Nat)
<1>1. PICK asked_for \in Devices : CreatedFor(asked_for)
  BY DEF BatteryKnown
<1>2. PICK uniq \in Seq(Nat) : uniq = battery.uniq
  BY <1>1, CreatedFacts
<1>3. PICK numbered \in BOOLEAN, report_no \in 1 .. 9 : ours = SupplyName(uniq, numbered, report_no)
  BY <1>2 DEF OursNamed
<1>4. PICK start \in Seq(Nat), number \in Nat : start = Prefix(uniq) /\ number = 48 + report_no
  BY PrefixShape
<1>5. start \o <<Dash, number>> \in Seq(Nat)
  BY TwoBehind
<1>6. SupplyName(uniq, numbered, report_no)
        \in {Prefix(uniq), Prefix(uniq) \o <<Dash, 48 + report_no>>}
  BY TwoNames
<1> QED
  BY <1>3, <1>4, <1>5, <1>6

(* Every variable has its type, whatever the two sides write: in           *)
(* particular the queue holds no event that is not the kernel's, and the   *)
(* kernel shows no level beyond a hundred.                                 *)
THEOREM TypeCorrect == ASSUME DescriptorsParsed PROVE Spec => []TypeOK
<1>1. Init => Shapes
  BY RegistrationAssumption, EmptySeq DEF Init, Shapes
<1>2. ASSUME LoopTypeOK, BatteryKnown, OursNamed, AskedQueued, ShownKnown, Shapes
      PROVE  TypeOK
  <2>1. /\ battery \in Batteries \cup {None}
        /\ device \in Described \cup {None}
        /\ shown \in [percent : 0 .. 100 \cup {None}, charging : BOOLEAN \cup {None}]
    <3>1. CASE battery = None
      BY <1>2, <3>1 DEF BatteryKnown, Nothing
    <3>2. CASE battery # None
      <4>1. PICK asked_for \in Devices : CreatedFor(asked_for)
        BY <1>2, <3>2 DEF BatteryKnown
      <4>2. battery.percent \in 0 .. 100 /\ battery.charging \in BOOLEAN
        BY <4>1, OwnReport
      <4>3. shown \in [percent : {None, battery.percent}, charging : {None, battery.charging}]
        BY <1>2, <3>2 DEF ShownKnown
      <4>4. shown \in [percent : 0 .. 100 \cup {None}, charging : BOOLEAN \cup {None}]
        BY <4>2, <4>3
      <4> QED
        BY <4>1, <4>4, CreatedFacts, DeviceIsDescribed
    <3> QED
      BY <3>1, <3>2
  <2>2. ours \in Seq(Nat) \cup {None}
    BY <1>2, NameIsBytes
  <2> QED
    BY <1>2, <2>1, <2>2 DEF AskedQueued, Shapes, TypeOK
<1>3. AskedQueued /\ Shapes /\ [Next]_vars => Shapes'
  BY ShapesStep
<1> QED
  BY <1>1, <1>2, <1>3, SupplyInvariant, ShownInvariant, PTL DEF Spec

==============================================================================
