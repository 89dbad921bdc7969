----------------------------- MODULE ServeProofs -----------------------------
(***************************************************************************)
(* Theorems about Serve, for every number of batteries, order, length of   *)
(* queue and delay.                                                        *)
(***************************************************************************)
EXTENDS Serve, FiniteSetTheorems, SequenceTheorems, TLAPS

Time == Nat \cup {None}

(* A set of natural numbers that is not empty has a least element: the     *)
(* intervals up to each of its members are finite, and inclusion among     *)
(* finite sets is well-founded.                                            *)
LEMMA MinFacts ==
  ASSUME NEW S \in SUBSET Nat, S # {}
  PROVE  Min(S) \in S /\ \A n \in S : Min(S) <= n
<1> DEFINE Intervals == {0 .. n : n \in S}
           R == StrictSubsetOrdering(Nat)
<1>1. Intervals \subseteq FiniteSubsetsOf(Nat) /\ Intervals # {}
  <2>1. \A n \in S : IsFiniteSet(0 .. n) /\ 0 .. n \subseteq Nat
    BY FS_Interval
  <2> QED BY <2>1 DEF FiniteSubsetsOf
<1>2. PICK least \in Intervals : \A other \in Intervals : <<other, least>> \notin R
  <2> HIDE DEF Intervals, R
  <2>1. IsWellFoundedOn(R, FiniteSubsetsOf(Nat))
    BY FS_StrictSubsetOrderingWellFounded DEF R
  <2> QED BY <1>1, <2>1, WFMin
<1>3. PICK m \in S : least = 0 .. m
  OBVIOUS
<1>4. ASSUME NEW n \in S, n < m
      PROVE  FALSE
  <2>1. 0 .. n \subseteq 0 .. m /\ m \in 0 .. m /\ m \notin 0 .. n
    BY <1>4
  <2>2. 0 .. n \in SUBSET Nat /\ 0 .. m \in SUBSET Nat /\ 0 .. n # 0 .. m
    BY <2>1
  <2>3. <<0 .. n, 0 .. m>> \in R
    BY <2>1, <2>2, Zenon DEF StrictSubsetOrdering
  <2>4. 0 .. n \in Intervals
    OBVIOUS
  <2> QED BY <1>2, <1>3, <2>3, <2>4
<1>5. \A n \in S : m <= n
  BY <1>4
<1> QED BY <1>5 DEF Min

(* The soonest of several points in time, some of which may not be set.    *)
LEMMA SoonestFacts ==
  ASSUME NEW S \in SUBSET Time
  PROVE  /\ Soonest(S) \in Time
         /\ \A t \in S \ {None} : Soonest(S) # None /\ Soonest(S) <= t
<1>1. S \ {None} \in SUBSET Nat /\ None \notin Nat
  BY ServeAssumption DEF Time
<1>2. CASE S \ {None} = {}
  BY <1>2 DEF Soonest, Time
<1>3. CASE S \ {None} # {}
  <2>1. Soonest(S) = Min(S \ {None})
    BY <1>3 DEF Soonest
  <2> QED BY <1>1, <1>3, <2>1, MinFacts DEF Time
<1> QED BY <1>2, <1>3

(* What is left of a time, one tick on.                                    *)
LEMMA LeftFacts ==
  ASSUME NEW t \in Time
  PROVE  /\ LeftOf(t) \in Time
         /\ t = None <=> LeftOf(t) = None
         /\ t = 0 => LeftOf(t) = 0
         /\ t # None => LeftOf(t) <= t /\ t <= LeftOf(t) + 1
BY ServeAssumption DEF Time, LeftOf, Countdown

(* The second of two sequences, put behind the first.                      *)
LEMMA BehindFirst ==
  ASSUME NEW S, NEW s \in Seq(S), NEW t \in Seq(S), NEW j \in 1 .. Len(t)
  PROVE  (s \o t)[Len(s) + j] = t[j]
OBVIOUS

(* What comes after one of its elements in a sequence.                     *)
LEMMA AfterOne ==
  ASSUME NEW S, NEW s \in Seq(S), NEW i \in 1 .. Len(s)
  PROVE  /\ SubSeq(s, i + 1, Len(s)) \in Seq(S)
         /\ Len(SubSeq(s, i + 1, Len(s))) = Len(s) - i
         /\ \A j \in 1 .. Len(s) - i : SubSeq(s, i + 1, Len(s))[j] = s[i + j]
<1>1. SubSeq(s, i + 1, Len(s)) \in Seq(S)
  BY SubSeqProperties
<1>2. Len(SubSeq(s, i + 1, Len(s))) = Len(s) - i
  BY SubSeqProperties
<1>3. \A j \in 1 .. Len(s) - i : SubSeq(s, i + 1, Len(s))[j] = s[i + j]
  OBVIOUS
<1> QED BY <1>1, <1>2, <1>3

(* A sequence without one of its elements.                                 *)
LEMMA RemoveAtFacts ==
  ASSUME NEW S, NEW s \in Seq(S), NEW i \in 1 .. Len(s)
  PROVE  /\ RemoveAt(s, i) \in Seq(S)
         /\ ToSet(RemoveAt(s, i)) \subseteq ToSet(s)
         /\ ToSet(s) \subseteq ToSet(RemoveAt(s, i)) \cup {s[i]}
         /\ IsInjective(s) => IsInjective(RemoveAt(s, i))
<1> DEFINE before == SubSeq(s, 1, i - 1)
           after == SubSeq(s, i + 1, Len(s))
<1>1. /\ Len(s) \in Nat /\ DOMAIN s = 1 .. Len(s) /\ i \in 1 .. Len(s)
      /\ \A j \in 1 .. Len(s) : s[j] \in S
  OBVIOUS
<1>2. /\ before \in Seq(S) /\ Len(before) = i - 1
      /\ \A j \in 1 .. i - 1 : before[j] = s[j]
  BY <1>1
<1>3. /\ after \in Seq(S) /\ Len(after) = Len(s) - i
      /\ \A j \in 1 .. Len(s) - i : after[j] = s[i + j]
  BY <1>1, AfterOne
<1> HIDE DEF before, after
<1>4. RemoveAt(s, i) = before \o after
  BY DEF RemoveAt, before, after
<1> DEFINE rest == before \o after
<1>5. rest \in Seq(S) /\ DOMAIN rest = 1 .. Len(s) - 1
  <2>1. rest \in Seq(S) /\ Len(rest) = Len(before) + Len(after)
    BY <1>2, <1>3, ConcatProperties
  <2> HIDE DEF rest
  <2>2. Len(rest) = Len(s) - 1 /\ DOMAIN rest = 1 .. Len(rest)
    BY <1>1, <1>2, <1>3, <2>1
  <2> QED BY <2>1, <2>2
<1>6. /\ \A j \in 1 .. i - 1 : rest[j] = s[j]
      /\ \A j \in i .. Len(s) - 1 : rest[j] = s[j + 1]
  <2>1. \A j \in 1 .. Len(before) : rest[j] = before[j]
    BY <1>2, <1>3
  <2>2. ASSUME NEW j \in i .. Len(s) - 1
        PROVE  rest[j] = s[j + 1]
    <3> DEFINE n == j - Len(before)
    <3>1. n \in 1 .. Len(after) /\ j = Len(before) + n /\ i + n = j + 1
      BY <1>1, <1>2, <1>3
    <3> HIDE DEF n
    <3>2. (before \o after)[Len(before) + n] = after[n]
      BY <1>2, <1>3, <3>1, BehindFirst
    <3> QED BY <1>3, <3>1, <3>2
  <2> QED BY <1>1, <1>2, <2>1, <2>2
<1> HIDE DEF rest
<1>7. ASSUME NEW j \in DOMAIN s, j # i
      PROVE  \E n \in DOMAIN rest : rest[n] = s[j]
  <2>1. CASE j < i
    BY <1>1, <1>5, <1>6, <2>1
  <2>2. CASE j > i
    <3>1. j - 1 \in DOMAIN rest /\ rest[j - 1] = s[j]
      BY <1>1, <1>5, <1>6, <2>2
    <3> QED BY <3>1
  <2> QED BY <1>1, <1>7, <2>1, <2>2
<1>8. ASSUME NEW j \in DOMAIN rest
      PROVE  \E n \in DOMAIN s : rest[j] = s[n]
  <2>1. CASE j < i
    BY <1>1, <1>5, <1>6, <2>1
  <2>2. CASE j >= i
    <3>1. j + 1 \in DOMAIN s /\ rest[j] = s[j + 1]
      BY <1>1, <1>5, <1>6, <2>2
    <3> QED BY <3>1
  <2> QED BY <1>1, <1>5, <2>1, <2>2
<1>9. RemoveAt(s, i) = rest
  BY <1>4 DEF rest
<1>10. ASSUME IsInjective(s)
       PROVE  IsInjective(rest)
  <2> DEFINE Was(j) == IF j < i THEN j ELSE j + 1
  <2>1. \A j \in DOMAIN rest : Was(j) \in DOMAIN s /\ rest[j] = s[Was(j)]
    BY <1>1, <1>5, <1>6
  <2>2. \A j, n \in DOMAIN rest : Was(j) = Was(n) => j = n
    BY <1>1, <1>5
  <2> HIDE DEF Was
  <2> QED BY <1>10, <2>1, <2>2 DEF IsInjective
<1> QED BY <1>5, <1>7, <1>8, <1>9, <1>10 DEF ToSet

------------------------------------------------------------------------------
(* Type correctness.                                                       *)

(* When the next pushes are due, whatever put them there.                  *)
LEMMA PushesType ==
  ASSUME TypeOK
  PROVE  /\ Pushes \cup {deadline} \subseteq Time
         /\ due \in [Batteries -> Time]
         /\ \A b \in Batteries, delay \in Delays :
              [due EXCEPT ![b] = Soonest({@, delay})] \in [Batteries -> Time]
<1>1. due \in [Batteries -> Time] /\ slice \in Seq(Batteries) /\ deadline \in Time
  BY DEF TypeOK, Time
<1>2. Pushes \subseteq Time
  BY <1>1 DEF Pushes
<1>3. ASSUME NEW b \in Batteries, NEW delay \in Delays
      PROVE  [due EXCEPT ![b] = Soonest({@, delay})] \in [Batteries -> Time]
  <2>1. {due[b], delay} \in SUBSET Time
    BY <1>1, ServeAssumption DEF Time
  <2>2. Soonest({due[b], delay}) \in Time
    BY <2>1, SoonestFacts
  <2> QED BY <1>1, <2>2
<1> QED BY <1>1, <1>2, <1>3

(* Where a pass starts, and what a wait that is over leaves.               *)
LEMMA Beginnings ==
  /\ 0 \in 0 .. MaxQueued /\ 0 \in 0 .. MaxLag
  /\ None \in Time /\ None \notin Nat
  /\ \A s \in Seq(Batteries) : 1 \in 1 .. Len(s) + 1
BY ServeAssumption DEF Time

(* The types at the start.                                                 *)
LEMMA TypeInit ==
  ASSUME Init
  PROVE  TypeOK
<1>1. /\ queued \in [Batteries -> 0 .. MaxQueued] /\ owed \in [Batteries -> 0 .. MaxQueued]
      /\ due \in [Batteries -> Nat \cup {None}] /\ lag \in 0 .. MaxLag
      /\ slice \in Seq(Batteries) /\ turn \in 1 .. Len(slice) + 1
  BY Beginnings, ServeAssumption DEF Init, Time
<1> QED BY <1>1 DEF Init, TypeOK

(* The battery being serviced is one of the daemon's.                      *)
LEMMA ServicedType ==
  ASSUME TypeOK, InTurn
  PROVE  /\ turn \in DOMAIN slice /\ turn + 1 \in 1 .. Len(slice) + 1
         /\ Serviced \in Batteries /\ Serviced \in ToSet(slice)
         /\ queued[Serviced] \in 0 .. MaxQueued /\ owed[Serviced] \in 0 .. MaxQueued
         /\ due[Serviced] \in Time
<1>1. /\ slice \in Seq(Batteries) /\ turn \in 1 .. Len(slice) + 1 /\ turn <= Len(slice)
      /\ queued \in [Batteries -> 0 .. MaxQueued] /\ owed \in [Batteries -> 0 .. MaxQueued]
      /\ due \in [Batteries -> Time]
  BY DEF TypeOK, InTurn, Time
<1>2. turn \in DOMAIN slice /\ slice[turn] \in Batteries /\ turn + 1 \in 1 .. Len(slice) + 1
  BY <1>1
<1> QED BY <1>1, <1>2 DEF Serviced, ToSet

(* What a return leaves behind.                                            *)
LEMMA ReturnType ==
  ASSUME TypeOK, NEW result \in {"Err"} \cup Wakeups, NEW index \in DOMAIN slice \cup {None},
         Return(result, index),
         UNCHANGED <<queued, broken, wake, owed, owing>>,
         due' \in [Batteries -> Time]
  PROVE  TypeOK'
BY Beginnings DEF TypeOK, Return, passVars, NoWait, Time

(* What deciding to return does.                                           *)
LEMMA LastPassType ==
  ASSUME TypeOK, NEW wakeup \in Wakeups, LastPass(wakeup),
         UNCHANGED <<deviceVars, wake, callVars>>
  PROVE  TypeOK'
<1>1. 1 \in 1 .. Len(slice') + 1
  BY Beginnings DEF TypeOK, callVars
<1> QED BY <1>1, Beginnings DEF TypeOK, LastPass, NoWait, deviceVars, callVars

(* Every step keeps them.                                                  *)
LEMMA TypeStep ==
  ASSUME TypeOK, [Next]_vars
  PROVE  TypeOK'
<1> USE DEF deviceVars, callVars, waitVars, ghostVars, passVars
<1>1. ASSUME NEW d \in Deadlines, NEW w \in BOOLEAN, Call(d, w)
      PROVE  TypeOK'
  <2>1. 1 \in 1 .. Len(slice') + 1 /\ owed' \in [Batteries -> 0 .. MaxQueued]
    BY <1>1, Beginnings DEF TypeOK, Call
  <2>2. deadline' \in Nat \cup {None}
    BY <1>1, ServeAssumption DEF Call
  <2> QED BY <1>1, <2>1, <2>2 DEF TypeOK, Call
<1>2. CASE GiveUpOn
  <2>1. culprit \in 1 .. Len(slice) /\ slice \in Seq(Batteries)
    BY <1>2 DEF GiveUpOn, TypeOK
  <2>2. slice' \in Seq(Batteries)
    BY <1>2, <2>1, RemoveAtFacts DEF GiveUpOn
  <2>3. 1 \in 1 .. Len(slice') + 1
    BY <2>2, Beginnings
  <2> QED BY <1>2, <2>2, <2>3 DEF TypeOK, GiveUpOn
<1>3. CASE ReadWake
  BY <1>3 DEF TypeOK, ReadWake
<1>4. ASSUME NEW b \in ToSet(slice), NEW delay \in Delays, Update(b, delay)
      PROVE  TypeOK'
  <2>1. b \in Batteries
    BY DEF TypeOK, ToSet
  <2>2. due' \in [Batteries -> Time]
    BY <1>4, <2>1, PushesType DEF Update
  <2> QED BY <1>4, <2>2 DEF TypeOK, Update, Time
<1>5. CASE Answer
  <2>1. queued' \in [Batteries -> 0 .. MaxQueued] /\ owed' \in [Batteries -> 0 .. MaxQueued]
    <3>1. /\ Serviced \in Batteries /\ queued[Serviced] \in 1 .. MaxQueued
          /\ owed[Serviced] \in 0 .. MaxQueued /\ MaxQueued \in Nat
      BY <1>5, ServicedType, ServeAssumption DEF Answer
    <3>2. queued[Serviced] - 1 \in 0 .. MaxQueued /\ Countdown(owed[Serviced]) \in 0 .. MaxQueued
      BY <3>1 DEF Countdown
    <3> QED BY <1>5, <3>2 DEF TypeOK, Answer
  <2>2. due' \in [Batteries -> Time]
    <3>1. Serviced \in Batteries /\ due \in [Batteries -> Time]
      BY <1>5, ServicedType, PushesType DEF Answer
    <3>2. CASE UNCHANGED due
      BY <3>1, <3>2
    <3>3. ASSUME NEW delay \in Delays, due' = [due EXCEPT ![Serviced] = Soonest({@, delay})]
          PROVE  due' \in [Batteries -> Time]
      <4> HIDE DEF Serviced
      <4> QED BY <3>1, <3>3, PushesType
    <3> QED BY <1>5, <3>2, <3>3 DEF Answer
  <2> QED BY SMTT(20), <1>5, <2>1, <2>2 DEF TypeOK, Answer, Time
<1>6. CASE ReadNothing \/ ReadInterrupted
  BY <1>6 DEF TypeOK, ReadNothing, ReadInterrupted, LooksEmpty
<1>7. CASE Settle
  <2>1. due' \in [Batteries -> Time]
    BY <1>7, ServicedType, PushesType DEF Settle, Time
  <2>2. turn' \in 1 .. Len(slice') + 1
    BY <1>7, ServicedType DEF Settle
  <2>3. owing' \subseteq Batteries /\ settling' \in BOOLEAN
    BY <1>7 DEF TypeOK, Settle
  <2>4. UNCHANGED <<queued, broken, wake, pc, pass, callVars, waitVars, owed>>
    BY <1>7 DEF Settle
  <2> QED BY <2>1, <2>2, <2>3, <2>4 DEF TypeOK, Time
<1>8. CASE Fail
  <2>1. due' \in [Batteries -> Time]
    BY <1>8, ServicedType, PushesType DEF Fail, Time
  <2> QED BY <1>8, <2>1, ServicedType, ReturnType DEF Fail
<1>9. CASE PassDone
  <2>1. CASE pass = "loop"
    BY <1>9, <2>1 DEF TypeOK, PassDone
  <2>2. CASE pass # "loop"
    BY <1>9, <2>2, ReturnType DEF TypeOK, PassDone, Time
  <2> QED BY <2>1, <2>2
<1>10. CASE Plan
  <2>1. timeout' \in Time
    BY <1>10, PushesType, SoonestFacts DEF Plan
  <2> QED BY <1>10, <2>1, ServeAssumption DEF TypeOK, Plan, Time
<1>11. CASE Enter \/ PollDevice
  BY <1>11 DEF TypeOK, Enter, PollDevice
<1>12. CASE PollHungUp \/ PollRefused
  BY <1>12, ReturnType DEF TypeOK, PollHungUp, PollRefused, Time
<1>13. CASE PollWake \/ PollInterrupted
  BY <1>13, LastPassType DEF PollWake, PollInterrupted, Wakeups
<1>14. CASE Check
  <2>1. CASE deadline = 0
    BY <1>14, <2>1, LastPassType DEF Check, Wakeups
  <2>2. CASE deadline # 0
    <3>1. 1 \in 1 .. Len(slice') + 1
      BY <1>14, Beginnings DEF TypeOK, Check
    <3> QED BY <1>14, <2>2, <3>1, Beginnings DEF TypeOK, Check, NoWait
  <2> QED BY <2>1, <2>2
<1>15. ASSUME NEW b \in Batteries, Event(b) \/ Break(b)
       PROVE  TypeOK'
  <2>1. queued' \in [Batteries -> 0 .. MaxQueued]
    <3>1. CASE Event(b)
      <4>1. queued[b] + 1 \in 0 .. MaxQueued
        BY SMTT(20), <3>1, ServeAssumption DEF TypeOK, Event
      <4> QED BY <3>1, <4>1 DEF TypeOK, Event
    <3>2. CASE Break(b)
      BY <3>2 DEF TypeOK, Break
    <3> QED BY <1>15, <3>1, <3>2
  <2> QED BY <1>15, <2>1 DEF TypeOK, Event, Break
<1>16. CASE WriteWake
  BY <1>16 DEF TypeOK, WriteWake
<1>17. CASE Tick
  <2>1. due' \in [Batteries -> Time] /\ deadline' \in Time /\ timeout' \in Time
    BY <1>17, LeftFacts DEF TypeOK, Tick, Time
  <2>2. lag' \in 0 .. MaxLag
    BY <1>17, ServeAssumption DEF TypeOK, Tick
  <2> QED BY <1>17, <2>1, <2>2 DEF TypeOK, Tick, Time
<1>18. CASE UNCHANGED vars
  BY <1>18 DEF TypeOK, vars
<1> QED BY <1>1, <1>2, <1>3, <1>4, <1>5, <1>6, <1>7, <1>8, <1>9, <1>10, <1>11, <1>12,
           <1>13, <1>14, <1>15, <1>16, <1>17, <1>18 DEF Next

(* Every reachable state is well typed.                                    *)
THEOREM TypeCorrect == Spec => []TypeOK
<1>1. Init => TypeOK
  BY TypeInit
<1>2. TypeOK /\ [Next]_vars => TypeOK'
  BY TypeStep
<1> QED BY <1>1, <1>2, PTL DEF Spec

------------------------------------------------------------------------------
(* The wait.                                                               *)

(* From the moment the timeout was worked out, no push and no deadline is  *)
(* nearer than what is left of it, but for the time spent getting there.   *)
Planned ==
  pc \in {"enter", "poll"} =>
    \A t \in (Pushes \cup {deadline}) \ {None} : timeout # None /\ timeout <= t + lag

(* Every step keeps the timeout within what it was worked out from.        *)
LEMMA PlannedStep ==
  ASSUME TypeOK, Planned, [Next]_vars
  PROVE  Planned'
<1> USE DEF deviceVars, callVars, waitVars, ghostVars, passVars
<1> SUFFICES ASSUME pc' \in {"enter", "poll"}
             PROVE  Planned'
  BY DEF Planned
<1>1. /\ timeout \in Time /\ lag \in Nat /\ timeout' \in Time
      /\ Pushes \cup {deadline} \subseteq Time /\ due \in [Batteries -> Time]
      /\ \A i \in DOMAIN slice : slice[i] \in Batteries
  <2>1. TypeOK'
    BY TypeStep
  <2>2. timeout \in Time /\ timeout' \in Time /\ lag \in Nat /\ slice \in Seq(Batteries)
    BY <2>1, ServeAssumption DEF TypeOK, Time
  <2> QED BY <2>2, PushesType
<1>2. CASE Plan
  <2>1. timeout' = Soonest(Pushes \cup {deadline}) /\ Pushes' = Pushes /\ deadline' = deadline
        /\ lag' = 0
    BY <1>2 DEF Plan, Pushes
  <2> QED BY <1>1, <2>1, SoonestFacts DEF Planned, Time
<1>3. CASE Tick
  <2>1. /\ pc' = pc /\ slice' = slice /\ deadline' = LeftOf(deadline)
        /\ \A b \in Batteries : due'[b] = LeftOf(due[b])
        /\ timeout' = IF pc = "poll" THEN LeftOf(timeout) ELSE timeout
        /\ lag' = IF pc = "enter" THEN lag + 1 ELSE lag
    BY <1>3 DEF Tick
  <2>2. ASSUME NEW t \in (Pushes' \cup {deadline'}) \ {None}
        PROVE  \E old \in (Pushes \cup {deadline}) \ {None} : t = LeftOf(old)
    <3>1. \E old \in Pushes \cup {deadline} : t = LeftOf(old)
      BY <1>1, <2>1 DEF Pushes
    <3> QED BY <1>1, <2>2, <3>1, LeftFacts
  <2>3. ASSUME NEW t \in (Pushes' \cup {deadline'}) \ {None}
        PROVE  timeout' # None /\ timeout' <= t + lag'
    <3>1. PICK old \in (Pushes \cup {deadline}) \ {None} : t = LeftOf(old)
      BY <2>2
    <3>2. timeout # None /\ timeout <= old + lag /\ timeout \in Nat
      BY <1>1, <2>1 DEF Planned, Time
    <3>3. /\ old \in Nat /\ t \in Nat /\ old <= t + 1 /\ t <= old
          /\ old = 0 => t = 0
      BY <1>1, <3>1, LeftFacts, ServeAssumption DEF Time
    <3>4. CASE pc = "enter"
      BY <1>1, <2>1, <3>2, <3>3, <3>4
    <3>5. CASE pc = "poll"
      BY <1>1, <2>1, <3>2, <3>3, <3>5, ServeAssumption DEF LeftOf, Countdown
    <3> QED BY <2>1, <3>4, <3>5
  <2> QED BY <2>3 DEF Planned
<1>4. CASE UNCHANGED <<due, slice, deadline, timeout, lag>> /\ pc \in {"enter", "poll"}
  BY <1>4 DEF Planned, Pushes
<1>5. CASE Enter \/ WriteWake \/ \E b \in Batteries : Event(b) \/ Break(b)
  BY <1>4, <1>5 DEF Enter, WriteWake, Event, Break
<1>6. CASE \/ \E d \in Deadlines, w \in BOOLEAN : Call(d, w)
           \/ GiveUpOn \/ ReadWake \/ \E b \in ToSet(slice), delay \in Delays : Update(b, delay)
  BY <1>6 DEF Call, GiveUpOn, ReadWake, Update
<1>7. CASE Answer \/ ReadNothing \/ ReadInterrupted \/ Settle \/ Fail \/ PassDone
  BY <1>7 DEF Answer, ReadNothing, ReadInterrupted, LooksEmpty, Settle, Fail, PassDone, Return,
     InTurn
<1>8. CASE PollWake \/ PollHungUp \/ PollDevice \/ PollInterrupted \/ PollRefused \/ Check
  BY <1>8 DEF PollWake, PollHungUp, PollDevice, PollInterrupted, PollRefused, Check, Return,
     LastPass
<1>9. CASE UNCHANGED vars
  BY <1>4, <1>9 DEF vars
<1> QED BY <1>2, <1>3, <1>5, <1>6, <1>7, <1>8, <1>9 DEF Next

(* The wait never outlasts a push or the deadline.                         *)
THEOREM NoOversleepHolds == Spec => []NoOversleep
<1>1. Init => Planned
  BY DEF Init, Planned
<1>2. TypeOK /\ Planned /\ [Next]_vars => Planned'
  BY PlannedStep
<1>3. Planned => NoOversleep
  BY DEF Planned, NoOversleep
<1> QED BY <1>1, <1>2, <1>3, TypeCorrect, PTL DEF Spec

------------------------------------------------------------------------------
(* The return.                                                             *)

(* The call sets out to return only with its cause in hand.                *)
LEMMA CauseStep ==
  ASSUME ReturnsForCause, [Next]_vars
  PROVE  ReturnsForCause'
<1> USE DEF deviceVars, callVars, waitVars, ghostVars, passVars
<1>1. CASE Tick
  <2>1. deadline = 0 => deadline' = 0
    BY <1>1, ServeAssumption DEF Tick, LeftOf, Countdown
  <2> QED BY <1>1, <2>1 DEF ReturnsForCause, Serving, Tick
<1>2. CASE Check
  BY <1>2 DEF ReturnsForCause, Serving, Check, LastPass
<1>3. CASE PollWake \/ PollInterrupted
  BY <1>3 DEF ReturnsForCause, Serving, PollWake, PollInterrupted, LastPass
<1>4. CASE PassDone \/ Fail \/ PollHungUp \/ PollRefused
  BY <1>4 DEF ReturnsForCause, Serving, PassDone, Fail, PollHungUp, PollRefused, Return
<1>5. CASE WriteWake \/ ReadWake
  BY <1>5 DEF ReturnsForCause, Serving, WriteWake, ReadWake
<1>6. CASE \E d \in Deadlines, w \in BOOLEAN : Call(d, w)
  BY <1>6 DEF ReturnsForCause, Serving, Call
<1>7. CASE UNCHANGED <<wake, pc, pass, deadline, watched>>
  BY <1>7 DEF ReturnsForCause, Serving
<1>8. CASE Plan \/ Enter \/ PollDevice
  BY <1>8 DEF ReturnsForCause, Serving, Plan, Enter, PollDevice
<1> QED
  BY <1>1, <1>2, <1>3, <1>4, <1>5, <1>6, <1>7, <1>8 DEF Next, vars, GiveUpOn, Update, Answer,
     ReadNothing, ReadInterrupted, LooksEmpty, Settle, Event, Break

(* A call returns Wake for a readable wake descriptor and Deadline for a   *)
(* deadline that has passed, whatever else came up.                        *)
THEOREM ReturnsForCauseHolds == Spec => []ReturnsForCause
<1>1. Init => ReturnsForCause
  BY DEF Init, ReturnsForCause, Serving
<1>2. ReturnsForCause /\ [Next]_vars => ReturnsForCause'
  BY CauseStep
<1> QED BY <1>1, <1>2, PTL DEF Spec

------------------------------------------------------------------------------
(* The failing battery.                                                    *)

(* An error names a battery that is broken.                                *)
RightlyBlamed == culprit # None => slice[culprit] \in broken

(* No step blames, or drops, a battery that has not failed.                *)
LEMMA BlameStep ==
  ASSUME TypeOK, RightlyBlamed, HealthyKept, [Next]_vars
  PROVE  RightlyBlamed' /\ HealthyKept'
<1> USE DEF deviceVars, callVars, waitVars, ghostVars, passVars
<1>1. CASE GiveUpOn
  <2>1. /\ culprit \in 1 .. Len(slice) /\ slice \in Seq(Batteries) /\ slice[culprit] \in broken
        /\ slice' = RemoveAt(slice, culprit) /\ culprit' = None /\ broken' = broken
    BY <1>1 DEF GiveUpOn, TypeOK, RightlyBlamed
  <2>2. ToSet(slice) \subseteq ToSet(slice') \cup {slice[culprit]}
    BY <2>1, RemoveAtFacts
  <2> QED BY <2>1, <2>2 DEF RightlyBlamed, HealthyKept
<1>2. CASE Fail
  <2>1. culprit' = turn /\ slice' = slice /\ broken' = broken /\ slice[turn] \in broken
    BY <1>2 DEF Fail, Return, Serviced
  <2> QED BY <2>1 DEF RightlyBlamed, HealthyKept
<1>3. CASE slice' = slice /\ broken \subseteq broken' /\ culprit' \in {culprit, None}
  BY <1>3 DEF RightlyBlamed, HealthyKept
<1>4. CASE PassDone \/ PollHungUp \/ PollRefused
  BY <1>3, <1>4 DEF PassDone, PollHungUp, PollRefused, Return
<1>5. CASE \E b \in Batteries : Event(b) \/ Break(b)
  BY <1>3, <1>5 DEF Event, Break
<1> QED
  BY <1>1, <1>2, <1>3, <1>4, <1>5 DEF Next, vars, Call, ReadWake, Update, Answer, ReadNothing,
     ReadInterrupted, LooksEmpty, Settle, Plan, Enter, LastPass, PollWake, PollDevice,
     PollInterrupted, Check, WriteWake, Tick

(* Whichever batteries break, and in whatever order, a daemon that drops   *)
(* the ones the errors name keeps all that work.                           *)
THEOREM HealthyKeptHolds == Spec => []HealthyKept
<1>1. Init => RightlyBlamed /\ HealthyKept
  BY DEF Init, RightlyBlamed, HealthyKept
<1>2. TypeOK /\ RightlyBlamed /\ HealthyKept /\ [Next]_vars => RightlyBlamed' /\ HealthyKept'
  BY BlameStep
<1> QED BY <1>1, <1>2, TypeCorrect, PTL DEF Spec

------------------------------------------------------------------------------
(* The last pass.                                                          *)

(* Once it was decided to return, the batteries before the one being       *)
(* serviced owe nothing of what was there at the decision, and the one     *)
(* whose queue looked empty nothing but its push.                          *)
LastPassClears ==
  /\ \A b \in Batteries : owed[b] <= queued[b]
  /\ pc = "service" /\ pass # "loop" =>
       /\ \A i \in DOMAIN slice : i < turn => owed[slice[i]] = 0 /\ slice[i] \notin owing
       /\ settling => InTurn /\ owed[Serviced] = 0
  /\ ServicedBeforeReturn

(* The last pass leaves nothing behind it that was owed when it began.     *)
LEMMA ClearsStep ==
  ASSUME "read" \notin Signals, TypeOK, LastPassClears, [Next]_vars
  PROVE  LastPassClears'
<1> USE DEF deviceVars, callVars, waitVars, ghostVars, passVars
<1>1. /\ slice \in Seq(Batteries) /\ turn \in 1 .. Len(slice) + 1 /\ Len(slice) \in Nat
      /\ queued \in [Batteries -> Nat] /\ owed \in [Batteries -> Nat]
      /\ \A i \in DOMAIN slice : slice[i] \in Batteries
  BY ServeAssumption DEF TypeOK
<1>2. CASE \E d \in Deadlines, w \in BOOLEAN : Call(d, w)
  BY <1>1, <1>2 DEF Call, LastPassClears, ServicedBeforeReturn
<1>3. CASE GiveUpOn
  <2>1. culprit \in 1 .. Len(slice) /\ slice' = RemoveAt(slice, culprit)
    BY <1>1, <1>3 DEF GiveUpOn, TypeOK
  <2>2. ToSet(slice') \subseteq ToSet(slice)
    BY <1>1, <2>1, RemoveAtFacts
  <2> QED BY <1>3, <2>2 DEF GiveUpOn, LastPassClears, ServicedBeforeReturn
<1>4. CASE Answer
  <2>1. /\ pc = "service" /\ pc' = "service" /\ ~settling /\ Serviced \in Batteries
        /\ queued[Serviced] > 0
        /\ queued' = [queued EXCEPT ![Serviced] = @ - 1]
        /\ owed' = [owed EXCEPT ![Serviced] = Countdown(@)]
        /\ UNCHANGED <<pass, turn, settling, slice, owing>>
    BY <1>4, ServicedType DEF Answer, InTurn
  <2>2. \A b \in Batteries : owed'[b] <= queued'[b] /\ (owed[b] = 0 => owed'[b] = 0)
    <3> HIDE DEF Serviced
    <3>1. owed[Serviced] <= queued[Serviced]
      BY <2>1 DEF LastPassClears
    <3> QED BY <1>1, <2>1, <3>1 DEF LastPassClears, Countdown
  <2> QED BY <1>1, <2>1, <2>2 DEF LastPassClears, ServicedBeforeReturn
<1>5. CASE ReadNothing
  <2>1. InTurn /\ InTurn' /\ Serviced' = Serviced /\ queued[Serviced] = 0
        /\ pc = "service" /\ pc' = "service"
        /\ UNCHANGED <<pass, turn, slice, queued, owed, owing>>
    BY <1>5 DEF ReadNothing, LooksEmpty, InTurn, Serviced
  <2>2. owed[Serviced] = 0
    BY <1>1, <2>1, ServicedType DEF LastPassClears
  <2> QED BY <1>1, <2>1, <2>2 DEF LastPassClears, ServicedBeforeReturn
<1>6. CASE Settle
  <2>1. /\ pc = "service" /\ pc' = "service" /\ settling /\ ~settling' /\ turn' = turn + 1
        /\ owing' = owing \ {slice[turn]}
        /\ UNCHANGED <<pass, slice, queued, owed>>
    BY <1>6 DEF Settle, InTurn, Serviced
  <2>2. ASSUME pass # "loop", NEW i \in DOMAIN slice, i < turn'
        PROVE  owed'[slice[i]] = 0 /\ slice[i] \notin owing'
    <3>1. CASE i < turn
      BY <2>1, <2>2, <3>1 DEF LastPassClears
    <3>2. CASE i = turn
      BY <2>1, <2>2, <3>2 DEF LastPassClears, Serviced
    <3> QED BY <1>1, <2>1, <2>2, <3>1, <3>2
  <2> QED BY <2>1, <2>2 DEF LastPassClears, ServicedBeforeReturn
<1>7. CASE Fail \/ PollHungUp \/ PollRefused
  BY <1>1, <1>7 DEF Fail, PollHungUp, PollRefused, Return, LastPassClears,
     ServicedBeforeReturn, Wakeups
<1>8. CASE PassDone
  <2>1. CASE pass = "loop"
    BY <1>8, <2>1 DEF PassDone, LastPassClears, ServicedBeforeReturn
  <2>2. CASE pass # "loop"
    <3>1. /\ pc = "service" /\ turn > Len(slice) /\ pc' = "caller"
          /\ UNCHANGED <<queued, slice, owed, owing>>
      BY <1>8, <2>2 DEF PassDone, Return
    <3>2. \A b \in ToSet(slice) : owed[b] = 0 /\ b \notin owing
      BY <1>1, <2>2, <3>1 DEF LastPassClears, ToSet
    <3> QED BY <3>1, <3>2 DEF LastPassClears, ServicedBeforeReturn
  <2> QED BY <2>1, <2>2
<1>9. CASE PollWake \/ PollInterrupted
  BY <1>1, <1>9 DEF PollWake, PollInterrupted, LastPass, LastPassClears, ServicedBeforeReturn
<1>10. CASE Check
  BY <1>1, <1>10 DEF Check, LastPass, LastPassClears, ServicedBeforeReturn
<1>11. ASSUME NEW b \in Batteries, Event(b)
       PROVE  LastPassClears'
  <2>1. /\ \A n \in Batteries : queued'[n] >= queued[n]
        /\ UNCHANGED <<pc, pass, turn, settling, slice, outcome, owed, owing>>
    BY <1>1, <1>11 DEF Event
  <2>2. \A n \in Batteries : queued'[n] \in Nat /\ owed'[n] <= queued'[n]
    BY <1>1, <1>11, <2>1 DEF LastPassClears, Event
  <2> QED BY <2>1, <2>2 DEF LastPassClears, ServicedBeforeReturn, InTurn, Serviced
<1>12. CASE UNCHANGED <<queued, pc, pass, turn, settling, slice, outcome, owed, owing>>
  BY <1>12 DEF LastPassClears, ServicedBeforeReturn, InTurn, Serviced
<1>13. CASE \/ ReadWake \/ WriteWake \/ Tick
            \/ \E b \in ToSet(slice), delay \in Delays : Update(b, delay)
            \/ \E b \in Batteries : Break(b)
  BY <1>12, <1>13 DEF ReadWake, WriteWake, Tick, Update, Break
<1>14. CASE Plan \/ Enter \/ PollDevice
  BY <1>14 DEF Plan, Enter, PollDevice, LastPassClears, ServicedBeforeReturn
<1>15. CASE UNCHANGED vars
  BY <1>12, <1>15 DEF vars
<1> QED
  BY <1>2, <1>3, <1>4, <1>5, <1>6, <1>7, <1>8, <1>9, <1>10, <1>11, <1>13, <1>14, <1>15
     DEF Next, ReadInterrupted

(* Where no signal interrupts a read, whatever was there when serve_all    *)
(* decided to return is done when it does.                                 *)
THEOREM ServicedBeforeReturnHolds ==
  ASSUME "read" \notin Signals
  PROVE  Spec => []ServicedBeforeReturn
<1>1. Init => LastPassClears
  BY ServeAssumption DEF Init, LastPassClears, ServicedBeforeReturn, Wakeups
<1>2. TypeOK /\ LastPassClears /\ [Next]_vars => LastPassClears'
  BY ClearsStep
<1>3. LastPassClears => ServicedBeforeReturn
  BY DEF LastPassClears
<1> QED BY <1>1, <1>2, <1>3, TypeCorrect, PTL DEF Spec

==============================================================================
