--------------------------- MODULE ServeRefinement ---------------------------
(***************************************************************************)
(* Serve takes of every battery the steps of a Servable, and no others.    *)
(***************************************************************************)
EXTENDS ServeProofs

(* No battery is in the slice twice - a daemon that drops one cannot make  *)
(* two of another - and none fails that was not broken.                    *)
Distinct == IsInjective(slice) /\ (broken # {} => Faults)

(* Every step keeps the batteries distinct.                                *)
LEMMA DistinctStep ==
  ASSUME TypeOK, Distinct, [Next]_vars
  PROVE  Distinct'
<1> USE DEF deviceVars, callVars, waitVars, ghostVars, passVars
<1>1. CASE GiveUpOn
  <2>1. culprit \in 1 .. Len(slice) /\ slice \in Seq(Batteries)
    BY <1>1 DEF GiveUpOn, TypeOK
  <2> QED BY <1>1, <2>1, RemoveAtFacts DEF GiveUpOn, Distinct
<1>2. CASE slice' = slice /\ broken' = broken
  BY <1>2 DEF Distinct
<1>3. CASE \E b \in Batteries : Break(b)
  BY <1>3 DEF Break, Distinct
<1> QED
  BY <1>1, <1>2, <1>3 DEF Next, vars, Call, ReadWake, Update, Answer, ReadNothing, ReadInterrupted,
     LooksEmpty, Settle, Fail, PassDone, Return, Plan, Enter, LastPass, PollWake, PollHungUp,
     PollDevice, PollInterrupted, PollRefused, Check, Event, WriteWake, Tick

(* The soonest of a push that may be scheduled and one that is.            *)
LEMMA SoonestOfTwo ==
  ASSUME NEW t \in Time, NEW delay \in Nat
  PROVE  Soonest({t, delay}) = IF t # None /\ t <= delay THEN t ELSE delay
<1>1. /\ {t, delay} \in SUBSET Time /\ delay # None
      /\ {t, delay} \ {None} = IF t = None THEN {delay} ELSE {t, delay}
  BY ServeAssumption DEF Time
<1>2. Soonest({t, delay}) = Min({t, delay} \ {None})
  BY <1>1 DEF Soonest
<1>3. {t, delay} \ {None} \in SUBSET Nat /\ {t, delay} \ {None} # {}
  BY <1>1 DEF Time
<1>4. /\ Soonest({t, delay}) \in {t, delay} \ {None}
      /\ \A n \in {t, delay} \ {None} : Soonest({t, delay}) <= n
  BY <1>2, <1>3, MinFacts
<1> QED BY <1>1, <1>3, <1>4

(* Where a battery is, before and after a step that moves no turn.         *)
LEMMA StageUnchanged ==
  ASSUME UNCHANGED <<pc, turn, settling, slice>>, NEW b
  PROVE  Stage(b)' = Stage(b)
BY DEF Stage, InTurn, Serviced

(* A battery whose turn is not on, and where the next turn leads.          *)
LEMMA StageOutside ==
  ASSUME pc # "service", NEW b
  PROVE  Stage(b) = "rest"
BY DEF Stage, InTurn

(* Unless it is being settled, a battery rests or is being read.           *)
LEMMA StageAfter ==
  ASSUME ~settling', NEW b
  PROVE  Stage(b)' \in {"rest", "reading"}
BY DEF Stage, InTurn, Serviced

(* A step that leaves the battery alone, or comes to it.                   *)
LEMMA AloneOrBegin ==
  ASSUME NEW b \in Batteries, queued'[b] = queued[b], due'[b] = due[b],
         \/ Stage(b)' = Stage(b)
         \/ Stage(b) = "rest" /\ Stage(b)' = "reading"
  PROVE  Seen(b)!ServableNext \/ UNCHANGED Seen(b)!servable
BY DEF Seen!ServableNext, Seen!Begin, Seen!servable

(* Whatever Serve does is, to each battery, a step of Servable or none.    *)
LEMMA ServesStep ==
  ASSUME TypeOK, Distinct, [Next]_vars, NEW b \in Batteries
  PROVE  Seen(b)!ServableNext \/ UNCHANGED Seen(b)!servable
<1> USE DEF deviceVars, callVars, waitVars, ghostVars, passVars
<1>1. /\ queued \in [Batteries -> Nat] /\ due \in [Batteries -> Time]
      /\ slice \in Seq(Batteries) /\ turn \in Nat
  BY ServeAssumption DEF TypeOK, Time
<1>2. ASSUME UNCHANGED <<queued, due, pc, turn, settling, slice>>
      PROVE  Seen(b)!ServableNext \/ UNCHANGED Seen(b)!servable
  BY <1>2, StageUnchanged, AloneOrBegin
<1>3. ASSUME UNCHANGED <<queued, due>>, pc # "service", pc' = "service" => ~settling'
      PROVE  Seen(b)!ServableNext \/ UNCHANGED Seen(b)!servable
  <2>1. Stage(b) = "rest" /\ Stage(b)' \in {"rest", "reading"}
    BY <1>3 DEF Stage, InTurn
  <2> QED BY <1>3, <2>1, AloneOrBegin
<1>4. CASE \/ \E d \in Deadlines, w \in BOOLEAN : Call(d, w)
           \/ GiveUpOn \/ ReadWake \/ Plan \/ Enter
           \/ PollWake \/ PollHungUp \/ PollDevice \/ PollInterrupted \/ PollRefused \/ Check
  BY <1>3, <1>4 DEF Call, GiveUpOn, ReadWake, Plan, Enter, PollWake, PollHungUp, PollDevice,
     PollInterrupted, PollRefused, Check, LastPass, Return
<1>5. ASSUME NEW n \in ToSet(slice), NEW delay \in Delays, Update(n, delay)
      PROVE  Seen(b)!ServableNext \/ UNCHANGED Seen(b)!servable
  <2>1. /\ queued' = queued /\ due' = [due EXCEPT ![n] = Soonest({@, delay})]
        /\ Stage(b)' = Stage(b) /\ Stage(b) = "rest"
    BY <1>5, StageUnchanged, StageOutside DEF Update
  <2>2. CASE n = b
    <3>1. due'[b] = IF due[b] # None /\ due[b] <= delay THEN due[b] ELSE delay
      BY <1>1, <2>1, <2>2, SoonestOfTwo, ServeAssumption
    <3>2. Seen(b)!Update
      BY <2>1, <3>1 DEF Seen!Update, Seen!Scheduled
    <3> QED BY <3>2 DEF Seen!ServableNext
  <2>3. CASE n # b
    BY <1>1, <2>1, <2>3, AloneOrBegin
  <2> QED BY <2>2, <2>3
<1>6. CASE Answer
  <2>1. /\ InTurn /\ ~settling /\ queued[Serviced] > 0
        /\ queued' = [queued EXCEPT ![Serviced] = @ - 1]
        /\ Stage(b)' = Stage(b)
    BY <1>6, StageUnchanged DEF Answer
  <2>2. \/ due' = due
        \/ \E delay \in Delays : due' = [due EXCEPT ![Serviced] = Soonest({@, delay})]
    BY <1>6 DEF Answer
  <2>3. CASE Serviced = b
    <3>1. Stage(b) = "reading" /\ queued'[b] = queued[b] - 1 /\ queued[b] > 0
      BY <1>1, <2>1, <2>3 DEF Stage
    <3>2. \/ due'[b] = due[b]
          \/ \E delay \in Delays :
               due'[b] = IF due[b] # None /\ due[b] <= delay THEN due[b] ELSE delay
      <4>1. CASE due' = due
        BY <4>1
      <4>2. ASSUME NEW delay \in Delays, due' = [due EXCEPT ![Serviced] = Soonest({@, delay})]
            PROVE  due'[b] = IF due[b] # None /\ due[b] <= delay THEN due[b] ELSE delay
        <5>1. due'[b] = Soonest({due[b], delay})
          BY <1>1, <2>3, <4>2
        <5> QED BY <1>1, <5>1, SoonestOfTwo, ServeAssumption
      <4> QED BY <2>2, <4>1, <4>2
    <3>3. Stage(b)' = "reading"
      BY <2>1, <3>1
    <3>4. Seen(b)!Take
      BY <3>1, <3>2, <3>3 DEF Seen!Take, Seen!Scheduled
    <3> QED BY <3>4 DEF Seen!ServableNext
  <2>4. CASE Serviced # b
    <3>1. queued'[b] = queued[b] /\ due'[b] = due[b]
      BY <1>1, <2>1, <2>2, <2>4
    <3> QED BY <2>1, <3>1, AloneOrBegin
  <2> QED BY <2>3, <2>4
<1>7. CASE ReadNothing \/ ReadInterrupted
  <2>1. /\ InTurn /\ ~settling /\ settling' /\ InTurn' /\ Serviced' = Serviced
        /\ queued[Serviced] = 0 \/ "read" \in Signals
        /\ UNCHANGED <<queued, due>>
    BY <1>7 DEF ReadNothing, ReadInterrupted, LooksEmpty, InTurn, Serviced
  <2>2. CASE Serviced = b
    <3>1. Seen(b)!LookEmpty
      BY <2>1, <2>2 DEF Seen!LookEmpty, Stage
    <3> QED BY <3>1 DEF Seen!ServableNext
  <2>3. CASE Serviced # b
    BY <2>1, <2>3, AloneOrBegin DEF Stage
  <2> QED BY <2>2, <2>3
<1>8. ASSUME InTurn, queued' = queued, slice' = slice,
             pc' = "caller" \/ (turn' = turn + 1 /\ ~settling'), \A n \in Batteries : n # Serviced => due'[n] = due[n],
             settling => due'[Serviced] = IF due[Serviced] = 0 THEN None ELSE due[Serviced],
             ~settling => Faults /\ due' = due /\ pc' = "caller"
      PROVE  Seen(b)!ServableNext \/ UNCHANGED Seen(b)!servable
  <2>1. turn \in DOMAIN slice
    BY <1>8, ServicedType
  <2>2. CASE Serviced = b
    <3>1. Stage(b)' = "rest"
      <4>1. turn + 1 \in DOMAIN slice => slice[turn + 1] # slice[turn]
        BY <1>1, <2>1 DEF Distinct, IsInjective
      <4>2. ~(InTurn' /\ Serviced' = b)
        BY <1>1, <1>8, <2>1, <2>2, <4>1 DEF InTurn, Serviced
      <4> QED BY <4>2 DEF Stage
    <3>2. CASE settling
      <4>1. Seen(b)!Settle
        BY <1>8, <2>2, <3>1, <3>2 DEF Seen!Settle, Stage
      <4> QED BY <4>1 DEF Seen!ServableNext
    <3>3. CASE ~settling
      <4>1. Seen(b)!Fail
        BY <1>8, <2>2, <3>1, <3>3 DEF Seen!Fail, Stage
      <4> QED BY <4>1 DEF Seen!ServableNext
    <3> QED BY <3>2, <3>3
  <2>3. CASE Serviced # b
    <3>1. Stage(b) = "rest" /\ Stage(b)' \in {"rest", "reading"}
      BY <1>8, <2>3, StageAfter DEF Stage, InTurn
    <3> QED BY <1>8, <2>3, <3>1, AloneOrBegin
  <2> QED BY <2>2, <2>3
<1>9. CASE Settle
  <2>1. /\ InTurn /\ settling /\ ~settling' /\ turn' = turn + 1
        /\ due' = [due EXCEPT ![Serviced] = IF @ = 0 THEN None ELSE @]
        /\ UNCHANGED <<queued, slice>>
    BY <1>9 DEF Settle
  <2>2. /\ \A n \in Batteries : n # Serviced => due'[n] = due[n]
        /\ due'[Serviced] = IF due[Serviced] = 0 THEN None ELSE due[Serviced]
    BY <1>1, <2>1, ServicedType
  <2> QED BY <1>8, <2>1, <2>2
<1>10. CASE Fail
  <2>1. /\ InTurn /\ Serviced \in broken /\ pc' = "caller" /\ (settling => due[Serviced] = 0)
        /\ due' = IF settling THEN [due EXCEPT ![Serviced] = None] ELSE due
        /\ UNCHANGED <<queued, slice>>
    BY <1>10 DEF Fail, Return
  <2>2. Faults
    BY <2>1 DEF Distinct
  <2>3. /\ \A n \in Batteries : n # Serviced => due'[n] = due[n]
        /\ settling => due'[Serviced] = IF due[Serviced] = 0 THEN None ELSE due[Serviced]
        /\ ~settling => due' = due
    BY <1>1, <2>1, ServicedType
  <2> QED BY <1>8, <2>1, <2>2, <2>3
<1>11. CASE PassDone
  <2>1. ~InTurn /\ pc' # "service" /\ UNCHANGED <<queued, due>>
    BY <1>1, <1>11 DEF PassDone, InTurn, Return, TypeOK
  <2>2. Stage(b) = "rest" /\ Stage(b)' = "rest"
    BY <2>1 DEF Stage, InTurn
  <2> QED BY <2>1, <2>2, AloneOrBegin
<1>12. ASSUME NEW n \in Batteries, Event(n)
       PROVE  Seen(b)!ServableNext \/ UNCHANGED Seen(b)!servable
  <2>1. /\ queued' = [queued EXCEPT ![n] = @ + 1] /\ due' = due /\ Stage(b)' = Stage(b)
    BY <1>12, StageUnchanged DEF Event
  <2>2. CASE n = b
    <3>1. Seen(b)!Arrive
      BY <1>1, <2>1, <2>2 DEF Seen!Arrive, Stage
    <3> QED BY <3>1 DEF Seen!ServableNext
  <2>3. CASE n # b
    BY <1>1, <2>1, <2>3, AloneOrBegin
  <2> QED BY <2>2, <2>3
<1>13. CASE WriteWake \/ \E n \in Batteries : Break(n)
  BY <1>2, <1>13 DEF WriteWake, Break
<1>14. CASE Tick
  <2>1. /\ due'[b] = LeftOf(due[b]) /\ queued' = queued /\ Stage(b)' = Stage(b)
    BY <1>1, <1>14, StageUnchanged DEF Tick
  <2>2. Seen(b)!Elapse
    BY <2>1 DEF Seen!Elapse, Seen!Countdown, Countdown, LeftOf
  <2> QED BY <2>2 DEF Seen!ServableNext
<1>15. CASE UNCHANGED vars
  BY <1>2, <1>15 DEF vars
<1> QED
  BY <1>4, <1>5, <1>6, <1>7, <1>9, <1>10, <1>11, <1>12, <1>13, <1>14, <1>15 DEF Next

(* Serve takes of every battery the steps of a Servable, which are the     *)
(* steps Battery implements, and takes no others.                          *)
THEOREM ServesBatteriesHolds == Spec => ServesBatteries
<1> DEFINE Step == \A b \in Batteries : Seen(b)!ServableNext \/ UNCHANGED Seen(b)!servable
<1>1. ASSUME Init
      PROVE  Distinct /\ \A b \in Batteries : Seen(b)!ServableInit
  BY <1>1, ServeAssumption DEF Init, Distinct, Seen!ServableInit, Stage, InTurn
<1>2. TypeOK /\ Distinct /\ [Next]_vars => Distinct' /\ Step
  BY DistinctStep, ServesStep
<1>3. TypeOK /\ Distinct /\ [Next]_vars => [Step]_vars
  BY <1>2
<1> HIDE DEF Step
<1>4. Spec => []Distinct
  BY <1>1, <1>2, TypeCorrect, PTL DEF Spec
<1>5. Spec => [][Step]_vars
  BY <1>3, <1>4, TypeCorrect, PTL DEF Spec
<1>6. Spec => \A b \in Batteries : Seen(b)!ServableInit
  BY <1>1 DEF Spec
<1> QED BY <1>5, <1>6 DEF ServesBatteries, Step

==============================================================================
