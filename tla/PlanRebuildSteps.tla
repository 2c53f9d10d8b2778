-------------------------- MODULE PlanRebuildSteps -------------------------
(***************************************************************************)
(* What a step of PlanRebuild may never do, and that every step is a step   *)
(* of RebuildPromise, for all constants.  Every proof uses the inductive    *)
(* invariant of PlanRebuildProofs.                                          *)
(***************************************************************************)
EXTENDS PlanRebuildProofs

\* The policy's operators leave the time of the last rebuild alone, and what each of them
\* does to the latch.
LEMMA KeptFields ==
  ASSUME NEW s \in Samples, NEW r \in RebuildStates, NEW short \in BOOLEAN
  PROVE  LET d == ResetLatchWhenRecovered(r, short)
         IN  /\ d.ran = r.ran /\ d.elapsed = r.elapsed /\ (short => d.latch = r.latch)
             /\ AfterStage(s, r, short).ran = r.ran
             /\ AfterStage(s, r, short).elapsed = r.elapsed
             /\ AfterStage(s, r, short).latch = r.latch
             /\ AfterSkip(s, r, short).latch = r.latch
<1>1. LET d == ResetLatchWhenRecovered(r, short)
      IN  d.ran = r.ran /\ d.elapsed = r.elapsed /\ (short => d.latch = r.latch)
  BY DEF ResetLatchWhenRecovered, RebuildStates
<1>2. /\ ResetNoopBackoff(r).ran = r.ran /\ ResetNoopBackoff(r).elapsed = r.elapsed
      /\ ResetNoopBackoff(r).latch = r.latch
  BY DEF ResetNoopBackoff, RebuildStates
<1>3. ResetNoopBackoff(r) \in RebuildStates
  BY PolicyTypes
<1>4. \A q \in RebuildStates : \A v :
        /\ [q EXCEPT !.tightUnactionable = v].ran = q.ran
        /\ [q EXCEPT !.tightUnactionable = v].elapsed = q.elapsed
        /\ [q EXCEPT !.tightUnactionable = v].latch = q.latch
  BY DEF RebuildStates
<1>5. /\ AfterStage(s, r, short).ran = r.ran
      /\ AfterStage(s, r, short).elapsed = r.elapsed
      /\ AfterStage(s, r, short).latch = r.latch
  BY <1>2, <1>3, <1>4 DEF AfterStage
<1>6. AfterSkip(s, r, short).latch = r.latch
  BY <1>2, <1>3 DEF AfterSkip, RebuildStates
<1>7. QED
  BY <1>1, <1>5, <1>6

-----------------------------------------------------------------------------
(* The unwinnable floor                                                      *)

\* A rebuild scheduled at once respects the floor, whatever its kind.
LEMMA ScheduleFloor ==
  ASSUME NEW kind \in Kinds, NEW r \in RebuildStates, NEW st, Fits(kind, st),
         NEW cooldown \in Nat,
         \/ Schedule(kind, r, st, cooldown)
         \/ Start(kind, r, st) /\ DueIn(kind, r, st, cooldown) = 0,
         flight' # None, rs'.tightUnactionable, r.ran
  PROVE  r.elapsed >= UnactionableFloor
<1>1. Start(kind, r, st) /\ DueIn(kind, r, st, cooldown) = 0
  BY DEF Schedule
<1>2. kind \in PowerKinds
  BY <1>1 DEF Start
<1>3. rs' = [r EXCEPT !.ran = TRUE, !.elapsed = 0]
  BY <1>1, <1>2 DEF Start
<1>4. r.tightUnactionable
  BY <1>3 DEF RebuildStates
<1>5. FloorIn(r) = NonNeg(UnactionableFloor - r.elapsed)
  BY <1>4 DEF FloorIn
<1>6. UnactionableFloor \in Nat /\ r.elapsed \in Int
  BY PolicyAssumption DEF RebuildStates
<1>7. (IF st = None THEN 0 ELSE st.due) \in Nat
  BY DEF Fits, Requests
<1>8. NonNeg(UnactionableFloor - r.elapsed) = 0
  <2>1. CASE kind = "hardCap"
    BY <1>1, <1>5, <2>1 DEF DueIn
  <2>2. CASE kind = "signal"
    <3>1. Larger(IF st = None THEN 0 ELSE st.due, FloorIn(r)) = 0
      BY <1>1, <2>2 DEF DueIn
    <3>2. NonNeg(UnactionableFloor - r.elapsed) \in Nat
      BY <1>6 DEF NonNeg
    <3>3. QED
      BY <1>5, <1>7, <3>1, <3>2 DEF Larger
  <2>3. QED
    BY <1>2, <2>1, <2>2 DEF PowerKinds
<1>9. QED
  BY <1>6, <1>8 DEF NonNeg

FloorStep == flight = None /\ flight' # None /\ rs.ran /\ rs'.tightUnactionable
               => rs.elapsed >= UnactionableFloor

\* A sample that is decided on starts a rebuild only past the floor.
LEMMA SampleFloor ==
  ASSUME IInv, loop # "awaiting", NEW s \in Samples, RunSample(s)
  PROVE  FloorStep
<1> SUFFICES ASSUME flight = None, flight' # None, rs.ran, rs'.tightUnactionable
             PROVE  rs.elapsed >= UnactionableFloor
  BY DEF FloorStep
<1> DEFINE r == AfterStage(s, Decided, inShortfall)
           st == [due |-> StagedDue(s, Decided, inShortfall),
                  tight |-> TightReason(s, Decided, inShortfall),
                  deficit |-> s.deficit, short |-> inShortfall]
<1>1. Asks(s)
  BY DEF RunSample, SkipSample
<1>2. Accept(IntentKind(s), r, st)
  BY <1>1 DEF RunSample, RequestRebuild
<1>3. /\ rs \in RebuildStates /\ NoBackoffUnderLatch(rs) /\ inShortfall \in BOOLEAN
      /\ flowCooldown \in Nat
  BY DEF IInv, SlotOK, SlotTypeOK, RestTypeOK
<1>4. Decided \in RebuildStates /\ NoBackoffUnderLatch(Decided)
  BY <1>3, DecisionTypes DEF Decided
<1>5. r \in RebuildStates
  BY <1>3, <1>4, DecisionTypes
<1>6. r.ran = rs.ran /\ r.elapsed = rs.elapsed
  <2>1. Decided.ran = rs.ran /\ Decided.elapsed = rs.elapsed
    BY <1>3, KeptFields DEF Decided
  <2>2. r.ran = Decided.ran /\ r.elapsed = Decided.elapsed
    BY <1>3, <1>4, KeptFields
  <2>3. QED
    BY <2>1, <2>2
<1>7. st \in Requests
  <2>1. StagedDue(s, Decided, inShortfall) \in Nat
    BY <1>3, <1>4, DecisionTypes
  <2>2. TightReason(s, Decided, inShortfall) \in BOOLEAN
    BY <1>3, <1>4 DEF TightReason, Samples, RebuildStates
  <2>3. s.deficit \in 0..MaxDeficit
    BY DEF Samples
  <2>4. QED
    BY <1>3, <2>1, <2>2, <2>3 DEF Requests
<1>8. IntentKind(s) \in Kinds /\ Fits(IntentKind(s), st)
  <2>1. s.deficit \in 0..MaxDeficit /\ st.deficit = s.deficit
    BY DEF Samples
  <2>2. QED
    BY <1>7, <2>1, KindFacts, SchedulerAssumption, PolicyAssumption DEF IntentKind, Fits
<1> HIDE DEF r, st
<1>9. Schedule(IntentKind(s), r, st, flowCooldown)
  BY <1>2 DEF Accept
<1>10. QED
  BY <1>3, <1>5, <1>6, <1>8, <1>9, ScheduleFloor

\* No handler starts a rebuild under the floor.
LEMMA FloorKept == IInv /\ [Next]_vars => FloorStep
<1> SUFFICES ASSUME IInv, [Next]_vars PROVE FloorStep
  OBVIOUS
<1>0. /\ rs \in RebuildStates /\ flowCooldown \in Nat /\ SlotOK
      /\ (pending # NoIntent => pending \in Kinds /\ Fits(pending, staged))
  BY DEF IInv, SlotOK, SlotTypeOK, RestTypeOK, StagedHasIntent, Fits
<1>1. CASE \E s \in Samples : FirstSample(s) \/ RerunSample(s)
  BY <1>1, SampleFloor DEF FirstSample, RerunSample
<1>2. CASE TimerFires
  <2>1. pending # NoIntent
    BY <1>0, <1>2, SchedulerAssumption DEF TimerFires, SlotOK, WakeupArmed
  <2> DEFINE due == DueIn(pending, rs, staged, flowCooldown)
  <2>2. due \in Nat
    BY <1>0, <2>1, DueType
  <2>3. CASE due > 0
    BY <1>2, <2>3 DEF TimerFires, FloorStep
  <2>4. CASE due = 0
    BY <1>0, <1>2, <2>1, <2>4, ScheduleFloor DEF TimerFires, FloorStep
  <2>5. QED
    BY <2>2, <2>3, <2>4
<1>3. CASE FlowRebuildReturns
  <2>1. FlowCooldown \in Nat /\ AfterCompletion(rs, FlowCooldown)
    BY <1>3, SchedulerAssumption DEF FlowRebuildReturns
  <2>2. CASE pending = NoIntent
    BY <2>1, <2>2 DEF AfterCompletion, FloorStep
  <2>3. CASE pending # NoIntent
    BY <1>0, <2>1, <2>3, ScheduleFloor DEF AfterCompletion, FloorStep
  <2>4. QED
    BY <2>2, <2>3
<1>4. CASE FlowRequest
  <2>1. flight = None => flight' = None
    BY <1>4, KindFacts DEF FlowRequest, Accept, Schedule, Start
  <2>2. QED
    BY <2>1 DEF FloorStep
<1>5. CASE DeviceObserved \/ CoalescedSample \/ LoopEnds \/ GuardTransition \/ Uninit
           \/ Tick \/ UNCHANGED vars
  BY <1>5 DEF DeviceObserved, CoalescedSample, LoopEnds, GuardTransition, Uninit, Tick,
              vars, FloorStep
<1>6. CASE (\E o \in Outcomes : PowerRebuildReturns(o)) \/ AlertReturns \/ AlertRejects
  BY <1>6 DEF PowerRebuildReturns, AlertReturns, AlertRejects, FloorStep
<1>7. QED
  BY <1>1, <1>2, <1>3, <1>4, <1>5, <1>6 DEF Next

\* No power rebuild starts within the floor of the previous one while the last decision
\* found the capacity state unwinnable, whichever intent or timer starts it.
THEOREM FloorAlwaysRespected == Spec => FloorRespected
<1>1. IInv /\ [Next]_vars => [FloorStep]_vars
  BY FloorKept
<1>2. QED
  BY <1>1, InductiveInvariant, PTL DEF Spec, FloorRespected, FloorStep

-----------------------------------------------------------------------------
(* The pace of rebuilds that change nothing                                  *)

\* The pause of a streak, capped by the max interval
Pace(n) == Smaller(Pauses[n], MaxInterval)

\* The time since the last rebuild has reached the streak's pace, or will when the backoff
\* has run down.
Paced(r) == r.streak > 0 => r.elapsed >= Pace(r.streak)
WillPace(r) == r.streak > 0 => r.elapsed + r.backoff >= Pace(r.streak)
Keeps(r, st) == IF st = None THEN WillPace(r) ELSE Paced(r)

\* A streak stands only after a rebuild, and not while an overtaken one is in flight: what
\* that one settles would otherwise have no backoff to go with the streak.
PaceInv ==
  /\ flight = None => Keeps(rs, staged)
  /\ flight # None => rs.ran /\ (flight.overtaken => rs.streak = 0)
  /\ rs.streak > 0 => rs.ran

\* The pause of a streak is its backoff (resolveTightNoopBackoffMs).
LEMMA PaceFacts ==
  ASSUME NEW n \in 1..MaxStreak
  PROVE  /\ BackoffOf(n) \in Nat /\ Pace(n) \in Nat
         /\ Pace(n) <= BackoffOf(n) /\ Pace(n) <= MaxInterval
<1>1. BackoffOf(n) \in Nat /\ MaxInterval \in Nat
  BY BackoffType, PolicyAssumption
<1>2. Pauses[n] = BackoffOf(n)
  BY PolicyAssumption DEF Pauses, BackoffOf, MaxStreak
<1>3. QED
  BY <1>1, <1>2 DEF Pace, Smaller

\* Where no streak stands there is nothing to keep; a pace that is kept stays kept.
LEMMA PaceTypes ==
  ASSUME NEW r \in RebuildStates
  PROVE  /\ r.streak > 0 => Pace(r.streak) \in Nat /\ Pace(r.streak) <= MaxInterval
         /\ r.streak = 0 => Paced(r) /\ WillPace(r)
         /\ Paced(r) => WillPace(r)
<1>1. /\ r.streak \in 0..MaxStreak /\ r.elapsed \in Nat /\ r.backoff \in Nat
      /\ MaxStreak \in Nat
  BY StreakBound, PolicyAssumption DEF RebuildStates
<1>2. r.streak > 0 => Pace(r.streak) \in Nat /\ Pace(r.streak) <= MaxInterval
  BY <1>1, PaceFacts
<1>3. QED
  BY <1>1, <1>2 DEF Paced, WillPace

\* Nothing but the streak, the elapsed time and the backoff matters to the pace.
LEMMA PaceDepends ==
  ASSUME NEW r, NEW q, q.streak = r.streak, q.elapsed = r.elapsed, q.backoff = r.backoff
  PROVE  (Paced(q) <=> Paced(r)) /\ (WillPace(q) <=> WillPace(r))
BY DEF Paced, WillPace

\* A sample that asks for a rebuild has waited for the streak's pace, or ends the streak.
LEMMA AskedPaced ==
  ASSUME NEW s \in Samples, NEW r \in RebuildStates, NEW short \in BOOLEAN,
         WillPace(r), r.streak > 0 => r.ran, ShouldRebuild(s, r, short)
  PROVE  Paced(AfterStage(s, r, short))
<1> DEFINE q == AfterStage(s, r, short)
<1>1. /\ r.streak \in 0..MaxStreak /\ r.elapsed \in Nat /\ r.backoff \in Nat /\ r.holdoff \in Nat
      /\ MaxStreak \in Nat /\ MaxInterval \in Nat /\ s.deficit \in Nat
  BY StreakBound, PolicyAssumption DEF RebuildStates, Samples
<1>2. CASE s.delta \/ s.deficit > 0
  <2>1. ResetNoopBackoff(r) \in RebuildStates /\ ResetNoopBackoff(r).streak = 0
    BY PolicyTypes
  <2>2. q.streak = 0
    BY <1>2, <2>1 DEF AfterStage, RebuildStates
  <2>3. QED
    BY <2>2 DEF Paced
<1>3. CASE ~(s.delta \/ s.deficit > 0) /\ r.streak > 0
  <2>1. q.streak = r.streak /\ q.elapsed = r.elapsed /\ q.backoff = r.backoff
    BY <1>3 DEF AfterStage, RebuildStates
  <2>2. ~HardCapShouldRebuild(s, r)
    BY <1>3 DEF HardCapShouldRebuild
  <2>3. MaxIntervalExceeded(r) \/ ((s.tight \/ short) /\ ~BackoffActive(s, r, short))
    BY <1>3, <2>2 DEF ShouldRebuild
  <2>4. Pace(r.streak) \in Nat /\ Pace(r.streak) <= MaxInterval
    BY <1>3, PaceTypes
  <2>5. CASE MaxIntervalExceeded(r)
    BY <1>1, <2>1, <2>4, <2>5 DEF MaxIntervalExceeded, Paced
  <2>6. CASE (s.tight \/ short) /\ ~BackoffActive(s, r, short)
    <3>1. r.backoff = 0
      BY <1>1, <1>3, <2>6 DEF BackoffActive
    <3>2. QED
      BY <1>1, <1>3, <2>1, <2>4, <3>1 DEF WillPace, Paced
  <2>7. QED
    BY <2>3, <2>5, <2>6
<1>4. CASE ~(s.delta \/ s.deficit > 0) /\ ~(r.streak > 0)
  <2>1. q.streak = r.streak
    BY <1>4 DEF AfterStage, RebuildStates
  <2>2. QED
    BY <1>4, <2>1 DEF Paced
<1>5. QED
  BY <1>2, <1>3, <1>4

\* A sample passed over leaves the streak with its backoff, or neither.
LEMMA SkippedPace ==
  ASSUME NEW s \in Samples, NEW r \in RebuildStates, NEW short \in BOOLEAN,
         WillPace(r)
  PROVE  /\ WillPace(AfterSkip(s, r, short))
         /\ AfterSkip(s, r, short).ran = r.ran
         /\ AfterSkip(s, r, short).streak \in {0, r.streak}
<1> DEFINE q == AfterSkip(s, r, short)
           calm == IF ~s.tight /\ ~short /\ s.deficit = 0 THEN ResetNoopBackoff(r) ELSE r
<1>1. /\ ResetNoopBackoff(r) \in RebuildStates /\ ResetNoopBackoff(r).streak = 0
      /\ ResetNoopBackoff(r).ran = r.ran
  BY PolicyTypes DEF ResetNoopBackoff, RebuildStates
<1>2. calm \in RebuildStates /\ WillPace(calm) /\ calm.ran = r.ran /\ calm.streak \in {0, r.streak}
  BY <1>1, PaceTypes
<1>3. q.streak = calm.streak /\ q.elapsed = calm.elapsed /\ q.backoff = calm.backoff
      /\ q.ran = calm.ran
  <2> HIDE DEF calm
  <2>1. \A a, b : LET p == [calm EXCEPT !.lastDeficit = a, !.tightUnactionable = b]
                  IN  /\ p.streak = calm.streak /\ p.elapsed = calm.elapsed
                      /\ p.backoff = calm.backoff /\ p.ran = calm.ran
    BY <1>2 DEF RebuildStates
  <2>2. q = [calm EXCEPT !.lastDeficit = IF s.deficit = 0 THEN 0 ELSE calm.lastDeficit,
                         !.tightUnactionable = TightUnactionable(s, short)]
    BY DEF AfterSkip, calm
  <2>3. QED
    BY <2>1, <2>2
<1> HIDE DEF calm, q
<1>4. WillPace(q)
  BY <1>2, <1>3, PaceDepends
<1>5. QED
  BY <1>2, <1>3, <1>4 DEF q

\* A verdict sets the streak together with its backoff, or ends it.
LEMMA VerdictPace ==
  ASSUME NEW r \in RebuildStates, NEW tight \in BOOLEAN, NEW outcome \in Outcomes
  PROVE  /\ WillPace([AfterOutcome(r, tight, outcome) EXCEPT !.latch = FALSE])
         /\ [AfterOutcome(r, tight, outcome) EXCEPT !.latch = FALSE].ran = r.ran
         /\ WillPace([AfterError(r, tight) EXCEPT !.latch = FALSE])
         /\ [AfterError(r, tight) EXCEPT !.latch = FALSE].ran = r.ran
         /\ AfterOvertaken(r, tight, outcome).streak = r.streak
         /\ AfterOvertaken(r, tight, outcome).ran = r.ran
<1>0. /\ r.streak \in 0..MaxStreak /\ r.elapsed \in Nat /\ MaxStreak \in Nat /\ MaxStreak >= 1
      /\ MitigationHoldoff \in Nat
  BY StreakBound, PolicyAssumption DEF RebuildStates
<1>1. ASSUME NEW n \in 1..MaxStreak
      PROVE  WillPace(WithNoopBackoff(r, n)) /\ WithNoopBackoff(r, n).ran = r.ran
  <2>1. /\ WithNoopBackoff(r, n).streak = n /\ WithNoopBackoff(r, n).backoff = BackoffOf(n)
        /\ WithNoopBackoff(r, n).elapsed = r.elapsed /\ WithNoopBackoff(r, n).ran = r.ran
    BY DEF WithNoopBackoff, RebuildStates
  <2>2. /\ BackoffOf(n) \in Nat /\ Pace(n) \in Nat /\ Pace(n) <= BackoffOf(n)
    BY PaceFacts
  <2>3. QED
    BY <1>0, <2>1, <2>2 DEF WillPace
<1>2. /\ ResetNoopBackoff(r) \in RebuildStates /\ ResetNoopBackoff(r).streak = 0
      /\ ResetNoopBackoff(r).ran = r.ran
  BY PolicyTypes DEF ResetNoopBackoff, RebuildStates
<1>3. WillPace(ResetNoopBackoff(r))
  BY <1>2, PaceTypes
<1>4. LET h == [ResetNoopBackoff(r) EXCEPT !.holdoff = MitigationHoldoff]
      IN  h \in RebuildStates /\ h.streak = 0 /\ h.ran = r.ran /\ WillPace(h)
  <2> DEFINE z == ResetNoopBackoff(r)
             h == [z EXCEPT !.holdoff = MitigationHoldoff]
  <2> HIDE DEF z
  <2>1. h \in RebuildStates /\ h.streak = z.streak /\ h.ran = z.ran
    BY <1>0, <1>2, FieldTypes DEF z, RebuildStates
  <2>2. h.streak = 0 /\ h.ran = r.ran
    BY <1>2, <2>1 DEF z
  <2>3. WillPace(h)
    BY <2>1, <2>2, PaceTypes
  <2>4. QED
    BY <2>1, <2>2, <2>3 DEF z
<1>5. WillPace(AfterOutcome(r, tight, outcome)) /\ AfterOutcome(r, tight, outcome).ran = r.ran
  <2>1. (IF r.streak < MaxStreak THEN r.streak + 1 ELSE MaxStreak) \in 1..MaxStreak
    BY <1>0
  <2>2. QED
    BY <1>1, <1>2, <1>3, <1>4, <2>1 DEF AfterOutcome
<1>6. WillPace(AfterError(r, tight)) /\ AfterError(r, tight).ran = r.ran
  <2>1. (IF r.streak = 0 THEN 1 ELSE r.streak) \in 1..MaxStreak
    BY <1>0
  <2>2. QED
    BY <1>1, <1>2, <1>3, <2>1 DEF AfterError
<1>7. \A q \in RebuildStates :
        LET p == [q EXCEPT !.latch = FALSE]
        IN  p.streak = q.streak /\ p.elapsed = q.elapsed /\ p.backoff = q.backoff /\ p.ran = q.ran
  BY DEF RebuildStates
<1>8. AfterOutcome(r, tight, outcome) \in RebuildStates /\ AfterError(r, tight) \in RebuildStates
  <2>1. (IF r.streak < MaxStreak THEN r.streak + 1 ELSE MaxStreak) \in 1..MaxStreak
    BY <1>0
  <2>2. (IF r.streak = 0 THEN 1 ELSE r.streak) \in 1..MaxStreak
    BY <1>0
  <2>3. QED
    BY <1>4, <2>1, <2>2, PolicyTypes DEF AfterOutcome, AfterError
<1>9. /\ AfterOvertaken(r, tight, outcome).streak = r.streak
      /\ AfterOvertaken(r, tight, outcome).ran = r.ran
  BY DEF AfterOvertaken, RebuildStates
<1>10. QED
  BY <1>5, <1>6, <1>7, <1>8, <1>9, PaceDepends

\* What is scheduled keeps the pace, as a new flight or as a wait.
LEMMA SchedulePace ==
  ASSUME NEW kind \in Kinds, NEW r \in RebuildStates, NEW st, NEW c,
         Schedule(kind, r, st, c) \/ Start(kind, r, st),
         Keeps(r, st), kind \notin PowerKinds => st = None, r.streak > 0 => r.ran,
         flight' # None <=> active' \in PowerKinds
  PROVE  PaceInv'
<1>1. CASE Start(kind, r, st) /\ kind \in PowerKinds
  <2>1. flight' # None /\ ~flight'.overtaken
    BY <1>1 DEF Start
  <2>2. rs'.ran
    BY <1>1 DEF Start, RebuildStates
  <2>3. QED
    BY <2>1, <2>2 DEF PaceInv
<1>2. CASE Start(kind, r, st) /\ kind \notin PowerKinds
  <2>1. flight' = None /\ staged' = None /\ rs' = r /\ st = None
    BY <1>2 DEF Start
  <2>2. QED
    BY <2>1 DEF PaceInv, Keeps, Paced, WillPace, Pace
<1>3. CASE ~Start(kind, r, st)
  <2>1. flight' = None /\ staged' = st /\ rs' = r
    BY <1>3 DEF Schedule
  <2>2. QED
    BY <2>1 DEF PaceInv, Keeps, Paced, WillPace, Pace
<1>4. QED
  BY <1>1, <1>2, <1>3

\* What starts at once has kept its pace.
LEMMA StartPaced ==
  ASSUME NEW kind \in Kinds, NEW r \in RebuildStates, NEW st, NEW c,
         Schedule(kind, r, st, c) \/ Start(kind, r, st),
         Keeps(r, st), kind \in PowerKinds => st # None,
         flight' # None, rs'.streak > 0
  PROVE  r.elapsed >= Pace(rs'.streak)
<1>1. Start(kind, r, st) /\ kind \in PowerKinds
  BY DEF Schedule, Start
<1>2. rs' = [r EXCEPT !.ran = TRUE, !.elapsed = 0] /\ st # None
  BY <1>1 DEF Start
<1>3. rs'.streak = r.streak
  BY <1>2 DEF RebuildStates
<1>4. QED
  BY <1>2, <1>3 DEF Keeps, Paced

PaceStep == flight = None /\ flight' # None /\ rs'.streak > 0
              => rs.elapsed >= Pace(rs'.streak)

\* A sample that is decided on keeps the pace.
LEMMA SamplePace ==
  ASSUME IInv, IInv', PaceInv, loop # "awaiting", NEW s \in Samples, RunSample(s)
  PROVE  PaceInv' /\ PaceStep
<1> DEFINE r == AfterStage(s, Decided, inShortfall)
           st == [due |-> StagedDue(s, Decided, inShortfall),
                  tight |-> TightReason(s, Decided, inShortfall),
                  deficit |-> s.deficit, short |-> inShortfall]
<1>1. /\ rs \in RebuildStates /\ NoBackoffUnderLatch(rs) /\ inShortfall \in BOOLEAN
      /\ staged = None /\ flight = None
      /\ (flight' # None <=> active' \in PowerKinds)
  BY DEF IInv, SlotOK, SlotTypeOK, RestTypeOK, Outstanding
<1>2. /\ Decided \in RebuildStates /\ NoBackoffUnderLatch(Decided)
      /\ Decided.streak = rs.streak /\ Decided.elapsed = rs.elapsed
      /\ Decided.backoff = rs.backoff /\ Decided.ran = rs.ran
  <2>1. Decided \in RebuildStates /\ NoBackoffUnderLatch(Decided)
    BY <1>1, DecisionTypes DEF Decided
  <2>2. /\ Decided.streak = rs.streak /\ Decided.elapsed = rs.elapsed
        /\ Decided.backoff = rs.backoff /\ Decided.ran = rs.ran
    BY <1>1 DEF Decided, ResetLatchWhenRecovered, RebuildStates
  <2>3. QED
    BY <2>1, <2>2
<1>3. WillPace(Decided) /\ (Decided.streak > 0 => Decided.ran)
  <2>1. WillPace(rs) /\ (rs.streak > 0 => rs.ran)
    BY <1>1 DEF PaceInv, Keeps
  <2>2. QED
    BY <1>2, <2>1, PaceDepends
<1>4. CASE Asks(s)
  <2>1. Accept(IntentKind(s), r, st)
    BY <1>4 DEF RunSample, RequestRebuild
  <2>2. r \in RebuildStates /\ r.elapsed = rs.elapsed /\ r.ran = rs.ran
    BY <1>1, <1>2, DecisionTypes, KeptFields
  <2>3. Paced(r)
    BY <1>1, <1>2, <1>3, <1>4, AskedPaced DEF Asks
  <2>4. IntentKind(s) \in Kinds /\ IntentKind(s) \in PowerKinds
    BY DEF IntentKind, Kinds, PowerKinds
  <2>5. r.streak > 0 => r.ran
    <3>1. r.streak \in {0, Decided.streak}
      <4>1. ResetNoopBackoff(Decided).streak = 0 /\ ResetNoopBackoff(Decided) \in RebuildStates
        BY <1>2, PolicyTypes
      <4>2. QED
        BY <1>2, <4>1 DEF AfterStage, RebuildStates
    <3>2. QED
      BY <1>2, <1>3, <2>2, <3>1
  <2>6. st # None
    <3>1. StagedDue(s, Decided, inShortfall) \in Nat
      BY <1>1, <1>2, DecisionTypes
    <3>2. TightReason(s, Decided, inShortfall) \in BOOLEAN
      BY <1>1, <1>2 DEF TightReason, Samples, RebuildStates
    <3>3. s.deficit \in 0..MaxDeficit
      BY DEF Samples
    <3>4. QED
      BY <1>1, <3>1, <3>2, <3>3, SchedulerAssumption DEF Requests
  <2>7. Keeps(r, st)
    BY <2>3, <2>6 DEF Keeps
  <2> HIDE DEF r, st
  <2>8. CASE active = NoIntent
    <3>1. Schedule(IntentKind(s), r, st, flowCooldown)
      BY <2>1, <2>8 DEF Accept
    <3>2. PaceInv'
      BY <1>1, <2>2, <2>4, <2>5, <2>7, <3>1, SchedulePace
    <3>3. PaceStep
      BY <2>2, <2>4, <2>6, <2>7, <3>1, StartPaced DEF PaceStep
    <3>4. QED
      BY <3>2, <3>3
  <2>9. CASE active # NoIntent
    <3>1. rs' = r /\ staged' = st /\ flight' = None
      BY <1>1, <2>1, <2>9 DEF Accept
    <3>2. QED
      BY <2>3, <2>5, <2>6, <3>1 DEF PaceInv, PaceStep, Keeps, Paced, Pace
  <2>10. QED
    BY <2>8, <2>9
<1>5. CASE ~Asks(s)
  <2> DEFINE q == AfterSkip(s, Decided, inShortfall)
  <2>1. rs' \in {Decided, q} /\ staged' = None /\ flight' = None
    BY <1>1, <1>5 DEF RunSample, SkipSample
  <2>2. WillPace(q) /\ q.ran = Decided.ran /\ q.streak \in {0, Decided.streak}
    BY <1>1, <1>2, <1>3, SkippedPace
  <2> HIDE DEF q
  <2>3. WillPace(rs') /\ (rs'.streak > 0 => rs'.ran)
    BY <1>3, <2>1, <2>2
  <2>4. QED
    BY <2>1, <2>3 DEF PaceInv, PaceStep, Keeps, WillPace, Pace
<1>6. QED
  BY <1>4, <1>5

\* A finished power rebuild leaves the streak with its backoff.
LEMMA SettledPace ==
  ASSUME IInv, IInv', PaceInv, flight # None, (\E o \in Outcomes : Settle(o)) \/ Reject
  PROVE  PaceInv'
<1> DEFINE completed == [rs EXCEPT !.lastDeficit = flight.deficit]
<1>1. /\ rs \in RebuildStates /\ flight \in Flights /\ staged = None /\ rs.ran
      /\ pending \in {NoIntent, "flow"}
      /\ (flight.overtaken => rs.streak = 0)
      /\ (flight' # None <=> active' \in PowerKinds)
  BY KindFacts DEF IInv, SlotOK, SlotTypeOK, StagedHasIntent, PaceInv
<1>2. flight.deficit \in 0..MaxDeficit /\ flight.tight \in BOOLEAN
  BY <1>1 DEF Flights
<1>3. completed \in RebuildStates /\ completed.ran /\ completed.streak = rs.streak
  <2>1. completed \in RebuildStates
    BY <1>1, <1>2, FieldTypes
  <2>2. completed.ran /\ completed.streak = rs.streak
    BY <1>1 DEF RebuildStates
  <2>3. QED
    BY <2>1, <2>2
<1>4. \A r \in RebuildStates : WillPace(r) /\ r.ran /\ AfterCompletion(r, flowCooldown) => PaceInv'
  <2> SUFFICES ASSUME NEW r \in RebuildStates, WillPace(r), r.ran,
                      AfterCompletion(r, flowCooldown)
               PROVE  PaceInv'
    OBVIOUS
  <2>1. CASE pending = NoIntent
    <3>1. flight' = None /\ staged' = None /\ rs' = r
      BY <1>1, <2>1 DEF AfterCompletion
    <3>2. QED
      BY <3>1 DEF PaceInv, Keeps, WillPace, Pace
  <2>2. CASE pending # NoIntent
    <3>1. pending = "flow" /\ Schedule(pending, r, None, flowCooldown)
      BY <1>1, <2>2 DEF AfterCompletion
    <3>2. pending \in Kinds /\ pending \notin PowerKinds
      BY <3>1, KindFacts
    <3>3. Keeps(r, None)
      BY DEF Keeps
    <3>4. QED
      BY <1>1, <3>1, <3>2, <3>3, SchedulePace
  <2>3. QED
    BY <2>1, <2>2
<1>5. ASSUME NEW o \in Outcomes, Settle(o)
      PROVE  PaceInv'
  <2> DEFINE r == IF flight.overtaken
                  THEN AfterOvertaken(completed, flight.tight, o)
                  ELSE [AfterOutcome(completed, flight.tight, o) EXCEPT !.latch = FALSE]
  <2>1. AfterCompletion(r, flowCooldown)
    BY <1>5 DEF Settle
  <2> HIDE DEF completed
  <2>2. r \in RebuildStates
    BY <1>2, <1>3, OutcomeTypes
  <2>3. CASE flight.overtaken
    <3>1. r.streak = 0 /\ r.ran
      BY <1>1, <1>2, <1>3, <2>3, VerdictPace
    <3>2. WillPace(r)
      BY <2>2, <3>1, PaceTypes
    <3>3. QED
      BY <1>4, <2>1, <2>2, <3>1, <3>2
  <2>4. CASE ~flight.overtaken
    <3>1. WillPace(r) /\ r.ran
      BY <1>2, <1>3, <2>4, VerdictPace
    <3>2. QED
      BY <1>4, <2>1, <2>2, <3>1
  <2>5. QED
    BY <2>3, <2>4
<1>6. ASSUME Reject
      PROVE  PaceInv'
  <2>1. CASE flight.overtaken
    <3>1. AfterCompletion(rs, flowCooldown) /\ WillPace(rs)
      BY <1>1, <1>6, <2>1, PaceTypes DEF Reject
    <3>2. QED
      BY <1>1, <1>4, <3>1
  <2>2. CASE ~flight.overtaken
    <3> DEFINE r == [AfterError(rs, flight.tight) EXCEPT !.latch = FALSE]
    <3>1. AfterCompletion(r, flowCooldown)
      BY <1>6, <2>2 DEF Reject
    <3>2. "failed" \in Outcomes
      BY DEF Outcomes
    <3>3. r \in RebuildStates /\ WillPace(r) /\ r.ran
      BY <1>1, <1>2, <3>2, OutcomeTypes, VerdictPace
    <3>4. QED
      BY <1>4, <3>1, <3>3
  <2>3. QED
    BY <2>1, <2>2
<1>7. QED
  BY <1>5, <1>6

\* Time keeps the pace: what it takes from the backoff it adds to the elapsed time, which
\* saturates past every pace.
LEMMA AgedPace ==
  ASSUME NEW r \in RebuildStates
  PROVE  /\ Paced(r) => Paced(Aged(r))
         /\ WillPace(r) => WillPace(Aged(r))
         /\ Aged(r).streak = r.streak /\ Aged(r).ran = r.ran
<1>1. /\ r.streak \in 0..MaxStreak /\ r.elapsed \in 0..MaxInterval /\ r.backoff \in Nat
      /\ MaxInterval \in Nat
  BY PolicyAssumption DEF RebuildStates
<1>2. /\ Aged(r).elapsed = IF r.elapsed < MaxInterval THEN r.elapsed + 1 ELSE MaxInterval
      /\ Aged(r).backoff = NonNeg(r.backoff - 1)
      /\ Aged(r).streak = r.streak /\ Aged(r).ran = r.ran
  BY DEF Aged, RebuildStates
<1>3. r.streak > 0 => Pace(r.streak) \in Nat /\ Pace(r.streak) <= MaxInterval
  BY PaceTypes
<1> HIDE DEF Pace
<1>4. Paced(r) => Paced(Aged(r))
  BY <1>1, <1>2, <1>3 DEF Paced
<1>5. WillPace(r) => WillPace(Aged(r))
  BY <1>1, <1>2, <1>3 DEF WillPace, NonNeg
<1>6. QED
  BY <1>2, <1>4, <1>5

\* Every handler keeps the pace.
LEMMA PaceKept == IInv /\ IInv' /\ PaceInv /\ [Next]_vars => PaceInv' /\ PaceStep
<1> SUFFICES ASSUME IInv, IInv', PaceInv, [Next]_vars PROVE PaceInv' /\ PaceStep
  OBVIOUS
<1>0. /\ rs \in RebuildStates /\ flowCooldown \in Nat
      /\ (flight # None <=> active \in PowerKinds)
      /\ (flight' # None <=> active' \in PowerKinds)
      /\ (staged # None <=> pending \in PowerKinds)
      /\ (staged' # None <=> pending' \in PowerKinds)
      /\ (rs.streak > 0 => rs.ran)
      /\ (pending # NoIntent => pending \in Kinds)
  BY DEF IInv, SlotOK, SlotTypeOK, RestTypeOK, StagedHasIntent, PaceInv
<1>1. CASE \E s \in Samples : FirstSample(s) \/ RerunSample(s)
  BY <1>1, SamplePace DEF FirstSample, RerunSample
<1>2. CASE (\E o \in Outcomes : PowerRebuildReturns(o)) \/ AlertReturns \/ AlertRejects
  <2>1. flight # None
    BY <1>2 DEF PowerRebuildReturns, AlertReturns, AlertRejects
  <2>2. CASE (\E o \in Outcomes : Settle(o)) \/ Reject
    BY <2>1, <2>2, SettledPace DEF PaceStep
  <2>3. CASE flight' = [flight EXCEPT !.phase = "alerting"] /\ UNCHANGED <<active, rs>>
    <3>1. flight \in Flights
      BY <2>1 DEF IInv, SlotOK, SlotTypeOK
    <3>2. flight'.overtaken = flight.overtaken
      BY <2>3, <3>1 DEF Flights
    <3>3. QED
      BY <1>0, <2>1, <2>3, <3>2 DEF PaceInv, PaceStep
  <2>4. QED
    BY <1>2, <2>2, <2>3 DEF PowerRebuildReturns, AlertReturns, AlertRejects, Outcomes
<1>3. CASE TimerFires
  <2>1. pending # NoIntent /\ active = NoIntent
    BY <1>3, SchedulerAssumption DEF TimerFires, IInv, SlotOK, WakeupArmed
  <2>2. flight = None /\ pending \in Kinds /\ Keeps(rs, staged)
    BY <1>0, <2>1, KindFacts DEF PaceInv
  <2>3. CASE UNCHANGED <<active, pending, rs, staged, flight>>
    BY <2>2, <2>3 DEF PaceInv, PaceStep, Keeps, Paced, WillPace, Pace
  <2>4. CASE Start(pending, rs, staged)
    <3>1. PaceInv'
      BY <1>0, <2>2, <2>4, SchedulePace
    <3>2. PaceStep
      BY <1>0, <2>2, <2>4, StartPaced DEF PaceStep
    <3>3. QED
      BY <3>1, <3>2
  <2>5. QED
    BY <1>3, <2>3, <2>4 DEF TimerFires
<1>4. CASE FlowRebuildReturns
  <2>1. flight = None /\ Keeps(rs, staged) /\ AfterCompletion(rs, FlowCooldown)
    BY <1>0, <1>4, KindFacts DEF FlowRebuildReturns, PaceInv
  <2>2. CASE pending = NoIntent
    BY <2>1, <2>2, <1>0 DEF AfterCompletion, PaceInv, PaceStep, Keeps, Paced, WillPace, Pace
  <2>3. CASE pending # NoIntent
    <3>1. Schedule(pending, rs, staged, FlowCooldown) /\ pending \in Kinds
      BY <1>0, <2>1, <2>3 DEF AfterCompletion
    <3>2. PaceInv'
      BY <1>0, <2>1, <3>1, SchedulePace
    <3>3. PaceStep
      BY <1>0, <2>1, <3>1, StartPaced DEF PaceStep
    <3>4. QED
      BY <3>2, <3>3
  <2>4. QED
    BY <2>2, <2>3
<1>5. CASE FlowRequest
  <2>1. Accept("flow", rs, staged) /\ "flow" \in Kinds /\ "flow" \notin PowerKinds
    BY <1>5, KindFacts DEF FlowRequest
  <2>2. pending \notin PowerKinds
    BY <1>5 DEF FlowRequest, Drops, Priority, NoIntent, PowerKinds
  <2>3. staged = None
    BY <1>0, <2>2
  <2>4. CASE active = NoIntent
    <3>1. Schedule("flow", rs, staged, flowCooldown)
      BY <2>1, <2>4 DEF Accept
    <3>2. Keeps(rs, staged)
      BY <1>0, <2>4, KindFacts DEF PaceInv
    <3>3. PaceInv'
      BY <1>0, <2>1, <2>3, <3>1, <3>2, SchedulePace
    <3>4. flight' = None
      BY <2>1, <3>1 DEF Schedule, Start
    <3>5. QED
      BY <3>3, <3>4 DEF PaceStep
  <2>5. CASE active # NoIntent
    <3>1. rs' = rs /\ staged' = staged /\ flight' = flight
      BY <2>1, <2>5 DEF Accept
    <3>2. QED
      BY <3>1 DEF PaceInv, PaceStep, Keeps, Paced, WillPace, Pace
  <2>6. QED
    BY <2>4, <2>5
<1>6. CASE DeviceObserved
  <2>1. /\ rs'.streak = 0 /\ rs'.ran = rs.ran /\ rs' \in RebuildStates
        /\ (flight' # None => flight # None)
    BY <1>0, <1>6, PassiveTypes DEF DeviceObserved, AfterObservation, RebuildStates
  <2>2. Keeps(rs', staged')
    BY <2>1, PaceTypes DEF Keeps
  <2>3. PaceInv'
    BY <2>1, <2>2 DEF PaceInv, Keeps, Paced, WillPace, Pace
  <2>4. QED
    BY <2>1, <2>3 DEF PaceStep
<1>7. CASE Tick
  <2>1. rs' = Aged(rs) /\ flight' = flight /\ (staged' = None <=> staged = None)
    BY <1>0, <1>7 DEF Tick
  <2>2. flight = None => Keeps(rs', staged')
    BY <1>0, <2>1, AgedPace DEF PaceInv, Keeps
  <2>3. rs'.streak = rs.streak /\ rs'.ran = rs.ran
    BY <1>0, <2>1, AgedPace
  <2>4. QED
    BY <2>1, <2>2, <2>3 DEF PaceInv, PaceStep, Keeps, Paced, WillPace, Pace
<1>8. CASE Uninit
  <2>1. rs' = rs /\ flight' = flight /\ staged' \in {None, staged}
    BY <1>8 DEF Uninit
  <2>2. flight = None => Keeps(rs, staged')
    BY <1>0, <2>1, PaceTypes DEF PaceInv, Keeps
  <2>3. QED
    BY <2>1, <2>2 DEF PaceInv, PaceStep, Keeps, Paced, WillPace, Pace
<1>9. CASE CoalescedSample \/ LoopEnds \/ GuardTransition \/ UNCHANGED vars
  BY <1>9 DEF CoalescedSample, LoopEnds, GuardTransition, vars, PaceInv, PaceStep, Keeps,
              Paced, WillPace, Pace
<1>10. QED
  BY <1>1, <1>2, <1>3, <1>4, <1>5, <1>6, <1>7, <1>8, <1>9 DEF Next

\* Whatever comes between them, a streak of rebuilds that change nothing thins out: the
\* streak and its backoff are set and cleared together, so a streak that still stands has
\* waited for its pause.
THEOREM NoopsKeepPace == Spec => NoopsPaced
<1>1. Init => PaceInv
  BY DEF Init, PaceInv, Keeps, Paced, WillPace
<1>2. IInv /\ IInv' /\ PaceInv /\ [Next]_vars => PaceInv'
  BY PaceKept
<1>3. Spec => []PaceInv
  BY <1>1, <1>2, InductiveInvariant, PTL DEF Spec
<1>4. IInv /\ IInv' /\ PaceInv /\ [Next]_vars => [PaceStep]_vars
  BY PaceKept
<1>5. QED
  BY <1>3, <1>4, InductiveInvariant, PTL DEF Spec, NoopsPaced, PaceStep, Pace

-----------------------------------------------------------------------------
(* The hard-cap intent                                                       *)

HardCapStep ==
  pending = "hardCap" => pending' = "hardCap" \/ active' = "hardCap" \/ ~up'

\* No handler takes a waiting hard-cap intent out of the slot but to execute it.
LEMMA HardCapStays == IInv /\ [Next]_vars => HardCapStep
<1> SUFFICES ASSUME IInv, [Next]_vars, pending = "hardCap"
             PROVE  pending' = "hardCap" \/ active' = "hardCap" \/ ~up'
  BY DEF HardCapStep
<1>1. staged # None /\ loop = "awaiting" /\ flight = None
  BY KindFacts DEF IInv, SlotOK, StagedHasIntent, Outstanding
<1>2. \A c : Schedule(pending, rs, staged, c) =>
               pending' = "hardCap" \/ active' = "hardCap"
  BY DEF Schedule, Start
<1>3. CASE TimerFires
  BY <1>3 DEF TimerFires, Start
<1>4. CASE FlowRebuildReturns
  BY <1>2, <1>4 DEF FlowRebuildReturns, AfterCompletion, NoIntent
<1>5. CASE FlowRequest
  BY <1>5 DEF FlowRequest, Drops, Priority, NoIntent
<1>6. CASE (\E s \in Samples : FirstSample(s) \/ RerunSample(s)) \/ LoopEnds
  BY <1>1, <1>6 DEF FirstSample, RerunSample, LoopEnds
<1>7. CASE (\E o \in Outcomes : PowerRebuildReturns(o)) \/ AlertReturns \/ AlertRejects
  BY <1>1, <1>7 DEF PowerRebuildReturns, AlertReturns, AlertRejects
<1>8. CASE DeviceObserved \/ CoalescedSample \/ GuardTransition \/ Uninit \/ Tick
           \/ UNCHANGED vars
  BY <1>8 DEF DeviceObserved, CoalescedSample, GuardTransition, Uninit, Tick, vars
<1>9. QED
  BY <1>3, <1>4, <1>5, <1>6, <1>7, <1>8 DEF Next

\* A waiting hard-cap intent leaves the slot only by being executed or at shutdown.
THEOREM HardCapNeverLost == Spec => HardCapKept
<1>1. IInv /\ [Next]_vars => [HardCapStep]_vars
  BY HardCapStays
<1>2. QED
  BY <1>1, InductiveInvariant, PTL DEF Spec, HardCapKept, HardCapStep

-----------------------------------------------------------------------------
(* The time a power intent waits                                             *)

\* The timer of a waiting power intent stands at its due time as the intent would be given
\* it now, so a timer that fires finds its intent due.
TimerDue ==
  active = NoIntent /\ pending \in PowerKinds
    => timer = DueIn(pending, rs, staged, flowCooldown)

\* One unit of time takes one from whichever of two times is the larger.
LEMMA LargerAges ==
  ASSUME NEW a \in Nat, NEW b \in Nat
  PROVE  Larger(NonNeg(a - 1), NonNeg(b - 1)) = NonNeg(Larger(a, b) - 1)
BY DEF Larger, NonNeg

\* The unwinnable floor comes one unit nearer: elapsed saturates past it.
LEMMA FloorAges ==
  ASSUME NEW r \in RebuildStates
  PROVE  FloorIn(r) \in Nat /\ FloorIn(Aged(r)) = NonNeg(FloorIn(r) - 1)
<1>1. /\ r.elapsed \in 0..MaxInterval /\ UnactionableFloor \in Nat /\ MaxInterval \in Nat
      /\ UnactionableFloor < MaxInterval
  BY PolicyAssumption DEF RebuildStates
<1>2. /\ Aged(r).elapsed = IF r.elapsed < MaxInterval THEN r.elapsed + 1 ELSE MaxInterval
      /\ Aged(r).tightUnactionable = r.tightUnactionable /\ Aged(r).ran = r.ran
  BY DEF Aged, RebuildStates
<1>3. /\ NonNeg(UnactionableFloor - r.elapsed) \in Nat
      /\ NonNeg(UnactionableFloor - Aged(r).elapsed)
           = NonNeg(NonNeg(UnactionableFloor - r.elapsed) - 1)
  BY <1>1, <1>2 DEF NonNeg
<1>4. NonNeg(0 - 1) = 0
  BY DEF NonNeg
<1>5. CASE r.tightUnactionable /\ r.ran
  BY <1>2, <1>3, <1>5 DEF FloorIn
<1>6. CASE ~(r.tightUnactionable /\ r.ran)
  BY <1>2, <1>4, <1>6 DEF FloorIn
<1>7. QED
  BY <1>5, <1>6

\* What is scheduled starts, or has its timer at its due time.
LEMMA ScheduleDue ==
  ASSUME NEW kind, NEW r, NEW st, NEW c, Schedule(kind, r, st, c) \/ Start(kind, r, st)
  PROVE  TimerDue'
<1>1. CASE pending' = NoIntent
  BY <1>1, KindFacts DEF TimerDue
<1>2. CASE pending' # NoIntent
  <2>1. pending' = kind /\ timer' = DueIn(kind, r, st, c) /\ rs' = r /\ staged' = st
    BY <1>2 DEF Schedule, Start
  <2>2. \A d : kind \in PowerKinds => DueIn(kind, r, st, c) = DueIn(kind, r, st, d)
    BY DEF DueIn, PowerKinds
  <2>3. QED
    BY <2>1, <2>2 DEF TimerDue
<1>3. QED
  BY <1>1, <1>2

\* The end of an intent schedules what waited.
LEMMA CompletionDue ==
  ASSUME NEW r, NEW c, AfterCompletion(r, c)
  PROVE  TimerDue'
BY ScheduleDue, KindFacts DEF AfterCompletion, TimerDue

\* Time brings the timer and the due time of a waiting power intent down together.
LEMMA TickDue ==
  ASSUME IInv, TimerDue, Tick
  PROVE  TimerDue'
<1> SUFFICES ASSUME active = NoIntent, pending \in PowerKinds
             PROVE  timer' = DueIn(pending, rs', staged', flowCooldown')
  BY DEF Tick, TimerDue
<1> DEFINE floor == FloorIn(rs)
<1>1. rs' = Aged(rs) /\ rs \in RebuildStates
  BY DEF Tick, IInv, SlotOK, SlotTypeOK
<1>2. floor \in Nat /\ FloorIn(rs') = NonNeg(floor - 1)
  BY <1>1, FloorAges
<1>3. staged \in Requests /\ staged # None
  BY DEF IInv, SlotOK, SlotTypeOK, StagedHasIntent
<1>4. staged' = [staged EXCEPT !.due = NonNeg(staged.due - 1)]
  BY <1>3 DEF Tick
<1>5. /\ staged.due \in Nat /\ staged'.due = NonNeg(staged.due - 1)
      /\ staged' # None
  <2>1. staged.due \in Nat /\ staged'.due = NonNeg(staged.due - 1)
    BY <1>3, <1>4 DEF Requests
  <2>2. NonNeg(staged.due - 1) \in Nat
    BY <2>1 DEF NonNeg
  <2>3. staged' \in Requests
    BY <1>3, <1>4, <2>2 DEF Requests
  <2>4. QED
    BY <2>1, <2>3, SchedulerAssumption
<1>6. timer = DueIn(pending, rs, staged, flowCooldown) /\ timer # None
  BY DEF TimerDue, IInv, SlotOK, WakeupArmed, PowerKinds, NoIntent
<1>7. timer' = NonNeg(timer - 1)
  BY <1>6 DEF Tick
<1> HIDE DEF floor
<1>8. CASE pending = "hardCap"
  <2>1. timer = floor /\ DueIn(pending, rs', staged', flowCooldown') = FloorIn(rs')
    BY <1>6, <1>8 DEF DueIn, floor
  <2>2. QED
    BY <1>2, <1>7, <2>1
<1>9. CASE pending = "signal"
  <2>1. /\ timer = Larger(staged.due, floor)
        /\ DueIn(pending, rs', staged', flowCooldown') = Larger(staged'.due, FloorIn(rs'))
    BY <1>3, <1>5, <1>6, <1>9 DEF DueIn, floor
  <2>2. Larger(NonNeg(staged.due - 1), NonNeg(floor - 1)) = NonNeg(Larger(staged.due, floor) - 1)
    BY <1>2, <1>5, LargerAges
  <2>3. QED
    BY <1>2, <1>5, <1>7, <2>1, <2>2
<1>10. QED
  BY <1>8, <1>9 DEF PowerKinds

\* Every handler keeps the timer of a waiting power intent at its due time.
LEMMA TimerDueStep == IInv /\ TimerDue /\ [Next]_vars => TimerDue'
<1> SUFFICES ASSUME IInv, TimerDue, [Next]_vars PROVE TimerDue'
  OBVIOUS
<1>1. CASE \E s \in Samples : FirstSample(s) \/ RerunSample(s)
  <2>1. PICK s \in Samples : RunSample(s) /\ loop # "awaiting"
    BY <1>1 DEF FirstSample, RerunSample
  <2>2. pending \notin PowerKinds
    BY <2>1 DEF IInv, SlotOK, StagedHasIntent, Outstanding
  <2>3. CASE Asks(s)
    <3>1. PICK r, st : Accept(IntentKind(s), r, st)
      BY <2>1, <2>3 DEF RunSample, RequestRebuild
    <3>2. CASE active = NoIntent
      BY <3>1, <3>2, ScheduleDue DEF Accept
    <3>3. CASE active # NoIntent
      BY <3>1, <3>3 DEF Accept, TimerDue
    <3>4. QED
      BY <3>2, <3>3
  <2>4. CASE ~Asks(s)
    BY <2>1, <2>2, <2>4 DEF RunSample, SkipSample, TimerDue
  <2>5. QED
    BY <2>3, <2>4
<1>2. CASE (\E o \in Outcomes : PowerRebuildReturns(o)) \/ AlertReturns \/ AlertRejects
  <2>1. active # NoIntent
    BY <1>2, KindFacts DEF PowerRebuildReturns, AlertReturns, AlertRejects, IInv, SlotOK
  <2>2. active' = active \/ (\E r, c : AfterCompletion(r, c))
    BY <1>2 DEF PowerRebuildReturns, AlertReturns, AlertRejects, Settle, Reject
  <2>3. QED
    BY <2>1, <2>2, CompletionDue DEF TimerDue
<1>3. CASE FlowRebuildReturns
  BY <1>3, CompletionDue DEF FlowRebuildReturns
<1>4. CASE TimerFires
  <2>1. CASE DueIn(pending, rs, staged, flowCooldown) > 0
    BY <1>4, <2>1 DEF TimerFires, TimerDue
  <2>2. CASE ~(DueIn(pending, rs, staged, flowCooldown) > 0)
    BY <1>4, <2>2, ScheduleDue DEF TimerFires
  <2>3. QED
    BY <2>1, <2>2
<1>5. CASE FlowRequest
  <2>1. CASE active = NoIntent
    BY <1>5, <2>1, ScheduleDue DEF FlowRequest, Accept
  <2>2. CASE active # NoIntent
    BY <1>5, <2>2 DEF FlowRequest, Accept, TimerDue
  <2>3. QED
    BY <2>1, <2>2
<1>6. CASE DeviceObserved
  <2>1. rs \in RebuildStates /\ rs' = AfterObservation(rs)
    BY <1>6 DEF DeviceObserved, IInv, SlotOK, SlotTypeOK
  <2>2. /\ rs'.tightUnactionable = rs.tightUnactionable /\ rs'.ran = rs.ran
        /\ rs'.elapsed = rs.elapsed
    BY <2>1 DEF AfterObservation, RebuildStates
  <2>3. FloorIn(rs') = FloorIn(rs)
    BY <2>2 DEF FloorIn
  <2>4. DueIn(pending, rs', staged, flowCooldown) = DueIn(pending, rs, staged, flowCooldown)
    BY <2>3 DEF DueIn
  <2>5. QED
    BY <1>6, <2>4 DEF DeviceObserved, TimerDue
<1>7. CASE Uninit
  BY <1>7, KindFacts DEF Uninit, TimerDue
<1>8. CASE Tick
  BY <1>8, TickDue
<1>9. CASE CoalescedSample \/ LoopEnds \/ GuardTransition \/ UNCHANGED vars
  BY <1>9 DEF CoalescedSample, LoopEnds, GuardTransition, vars, TimerDue
<1>10. QED
  BY <1>1, <1>2, <1>3, <1>4, <1>5, <1>6, <1>7, <1>8, <1>9 DEF Next

WaitStep ==
  active = NoIntent /\ pending \in PowerKinds /\ pending' = pending => timer' <= timer

\* No handler moves the timer of a waiting power intent away from now.
LEMMA WaitKept == IInv /\ TimerDue /\ [Next]_vars => WaitStep
<1> SUFFICES ASSUME IInv, TimerDue, [Next]_vars, active = NoIntent, pending \in PowerKinds,
                    pending' = pending
             PROVE  timer' <= timer
  BY DEF WaitStep
<1>1. /\ timer \in Nat /\ loop = "awaiting" /\ flight = None
      /\ timer = DueIn(pending, rs, staged, flowCooldown)
  BY KindFacts DEF IInv, SlotOK, SlotTypeOK, WakeupArmed, StagedHasIntent, Outstanding, TimerDue
<1>2. CASE TimerFires
  <2>1. Start(pending, rs, staged)
    BY <1>1, <1>2 DEF TimerFires
  <2>2. QED
    BY <2>1, KindFacts DEF Start
<1>3. CASE FlowRequest
  BY <1>3 DEF FlowRequest, Drops, Priority, NoIntent, PowerKinds
<1>4. CASE Tick
  BY <1>1, <1>4, SchedulerAssumption DEF Tick, NonNeg
<1>5. CASE (\E s \in Samples : FirstSample(s) \/ RerunSample(s)) \/ LoopEnds
  BY <1>1, <1>5 DEF FirstSample, RerunSample, LoopEnds
<1>6. CASE (\E o \in Outcomes : PowerRebuildReturns(o)) \/ AlertReturns \/ AlertRejects
           \/ FlowRebuildReturns
  BY <1>1, <1>6 DEF PowerRebuildReturns, AlertReturns, AlertRejects, FlowRebuildReturns, NoIntent
<1>7. CASE Uninit
  BY <1>7, KindFacts DEF Uninit
<1>8. CASE DeviceObserved \/ CoalescedSample \/ GuardTransition \/ UNCHANGED vars
  BY <1>1, <1>8 DEF DeviceObserved, CoalescedSample, GuardTransition, vars
<1>9. QED
  BY <1>2, <1>3, <1>4, <1>5, <1>6, <1>7, <1>8 DEF Next

\* A power intent that waits with nothing active runs when its timer first fires: nothing
\* that arrives meanwhile puts it off.
THEOREM PowerWaitsOnce == Spec => PowerWaitNeverExtended
<1>1. Init => TimerDue
  BY KindFacts DEF Init, TimerDue
<1>2. Spec => []TimerDue
  BY <1>1, TimerDueStep, InductiveInvariant, PTL DEF Spec
<1>3. IInv /\ TimerDue /\ [Next]_vars => [WaitStep]_vars
  BY WaitKept
<1>4. QED
  BY <1>2, <1>3, InductiveInvariant, PTL DEF Spec, PowerWaitNeverExtended, WaitStep

-----------------------------------------------------------------------------
(* A breach that appears or grows                                            *)

\* On a breach that appears or grows the policy asks for a rebuild, whatever its backoffs.
LEMMA BreachAsks ==
  ASSUME IInv, NEW s \in Samples, s.deficit > rs.lastDeficit, ~s.noShed, RunSample(s)
  PROVE  pending' = "hardCap" \/ active' = "hardCap"
<1>1. rs \in RebuildStates /\ s.deficit \in 0..MaxDeficit /\ ~s.unactionable
  BY DEF IInv, SlotOK, SlotTypeOK, Samples
<1>2. s.deficit > 0 /\ rs.lastDeficit \in 0..MaxDeficit
  BY <1>1, PolicyAssumption DEF RebuildStates
<1>3. Decided.lastDeficit = rs.lastDeficit
  BY <1>1 DEF Decided, ResetLatchWhenRecovered, RebuildStates
<1>4. Asks(s)
  <2>1. ~SkipUnrecoverable(s, rs, inShortfall)
    BY DEF SkipUnrecoverable
  <2>2. ~ThrottleActive(s, Decided)
    BY <1>1 DEF ThrottleActive
  <2>3. HardCapShouldRebuild(s, Decided)
    BY <1>2, <1>3 DEF HardCapShouldRebuild
  <2>4. QED
    BY <2>1, <2>2, <2>3 DEF Asks, ShouldRebuild
<1>5. IntentKind(s) = "hardCap"
  BY <1>2 DEF IntentKind
<1>6. PICK r, st : Accept("hardCap", r, st)
  BY <1>4, <1>5 DEF RunSample, RequestRebuild
<1>7. QED
  BY <1>6 DEF Accept, Schedule, Start

BreachStep ==
  \A s \in {x \in Samples : x.deficit > rs.lastDeficit /\ ~x.noShed} :
    Decides(s) => pending' = "hardCap" \/ active' = "hardCap"

\* A sample with such a breach puts a hard-cap intent in the slot or starts it.
LEMMA BreachStepHolds == IInv => BreachStep
BY BreachAsks DEF BreachStep, Decides, FirstSample, RerunSample

\* The first sample decided on after a breach appears or grows asks for a hard-cap
\* rebuild, whatever suppression is running.
THEOREM BreachAlwaysAnswered == Spec => BreachAnswered
<1>1. IInv /\ [Next]_vars => [BreachStep]_vars
  BY BreachStepHolds
<1>2. QED
  BY <1>1, InductiveInvariant, PTL DEF Spec, BreachAnswered, BreachStep

-----------------------------------------------------------------------------
(* The observation's re-check                                                *)

LatchStep ==
  inShortfall /\ rs.latch /\ ~rs'.latch => flight # None /\ ~flight.overtaken

\* What is scheduled after a rebuild keeps the latch it finds.
LEMMA ScheduleLatch ==
  ASSUME NEW kind, NEW r \in RebuildStates, NEW st, NEW c,
         Schedule(kind, r, st, c) \/ Start(kind, r, st)
  PROVE  rs'.latch = r.latch
BY DEF Schedule, Start, RebuildStates

\* A sample decided on in shortfall leaves the observation's latch alone.
LEMMA SampleLatch ==
  ASSUME IInv, loop # "awaiting", NEW s \in Samples, RunSample(s)
  PROVE  LatchStep
<1> SUFFICES ASSUME inShortfall, rs.latch PROVE rs'.latch
  BY DEF LatchStep
<1>1. /\ rs \in RebuildStates /\ NoBackoffUnderLatch(rs) /\ inShortfall \in BOOLEAN
  BY DEF IInv, SlotOK, SlotTypeOK, RestTypeOK
<1>2. Decided \in RebuildStates /\ NoBackoffUnderLatch(Decided) /\ Decided.latch = rs.latch
  BY <1>1, DecisionTypes, KeptFields DEF Decided
<1>3. CASE Asks(s)
  <2> DEFINE r == AfterStage(s, Decided, inShortfall)
  <2>1. PICK st : Accept(IntentKind(s), r, st)
    BY <1>3 DEF RunSample, RequestRebuild
  <2>2. r \in RebuildStates /\ r.latch = rs.latch
    BY <1>1, <1>2, DecisionTypes, KeptFields
  <2> HIDE DEF r
  <2>3. rs'.latch = r.latch
    BY <2>1, <2>2, ScheduleLatch DEF Accept
  <2>4. QED
    BY <2>2, <2>3
<1>4. CASE ~Asks(s)
  <2>1. rs' = IF SkipUnrecoverable(s, rs, inShortfall)
              THEN Decided ELSE AfterSkip(s, Decided, inShortfall)
    BY <1>4 DEF RunSample, SkipSample
  <2>2. AfterSkip(s, Decided, inShortfall).latch = Decided.latch
    BY <1>1, <1>2, KeptFields
  <2>3. QED
    BY <1>2, <2>1, <2>2
<1>5. QED
  BY <1>3, <1>4

\* A rebuild that an observation overtook settles without touching the latch.
LEMMA OvertakenLatch ==
  ASSUME IInv, flight # None, flight.overtaken, rs.latch,
         (\E o \in Outcomes : Settle(o)) \/ Reject
  PROVE  rs'.latch
<1> DEFINE completed == [rs EXCEPT !.lastDeficit = flight.deficit]
<1>1. /\ rs \in RebuildStates /\ flight \in Flights /\ staged = None
  BY DEF IInv, SlotOK, SlotTypeOK
<1>2. completed \in RebuildStates /\ completed.latch
  <2>1. flight.deficit \in 0..MaxDeficit
    BY <1>1 DEF Flights
  <2>2. completed \in RebuildStates
    BY <1>1, <2>1, FieldTypes
  <2>3. completed.latch
    BY <1>1 DEF RebuildStates
  <2>4. QED
    BY <2>2, <2>3
<1>3. \A r \in RebuildStates : AfterCompletion(r, flowCooldown) /\ r.latch => rs'.latch
  BY ScheduleLatch DEF AfterCompletion
<1>4. ASSUME NEW o \in Outcomes, Settle(o)
      PROVE  rs'.latch
  <2> HIDE DEF completed
  <2> DEFINE r == AfterOvertaken(completed, flight.tight, o)
  <2>1. AfterCompletion(r, flowCooldown)
    BY <1>4 DEF Settle, completed
  <2>2. r \in RebuildStates
    BY <1>1, <1>2, OutcomeTypes DEF Flights
  <2>3. r.latch
    BY <1>2 DEF AfterOvertaken, RebuildStates
  <2>4. QED
    BY <1>3, <2>1, <2>2, <2>3
<1>5. ASSUME Reject
      PROVE  rs'.latch
  BY <1>1, <1>3, <1>5 DEF Reject
<1>6. QED
  BY <1>4, <1>5

\* No handler clears the latch in shortfall but a rebuild the observation did not overtake.
LEMMA LatchKept == IInv /\ [Next]_vars => LatchStep
<1> SUFFICES ASSUME IInv, [Next]_vars PROVE LatchStep
  OBVIOUS
<1>0. rs \in RebuildStates /\ flight \in Flights \cup {None} /\ SlotOK
  BY DEF IInv, SlotOK, SlotTypeOK
<1>1. CASE \E s \in Samples : FirstSample(s) \/ RerunSample(s)
  BY <1>1, SampleLatch DEF FirstSample, RerunSample
<1>2. CASE (\E o \in Outcomes : PowerRebuildReturns(o)) \/ AlertReturns \/ AlertRejects
  <2>1. flight # None
    BY <1>2 DEF PowerRebuildReturns, AlertReturns, AlertRejects
  <2>2. rs' = rs \/ (\E o \in Outcomes : Settle(o)) \/ Reject
    BY <1>2 DEF PowerRebuildReturns, AlertReturns, AlertRejects, Outcomes
  <2>3. flight.overtaken \in BOOLEAN
    BY <1>0, <2>1 DEF Flights
  <2>4. QED
    BY <2>1, <2>2, <2>3, OvertakenLatch DEF LatchStep
<1>3. CASE TimerFires
  BY <1>0, <1>3, ScheduleLatch DEF TimerFires, LatchStep
<1>4. CASE FlowRebuildReturns
  BY <1>0, <1>4, ScheduleLatch DEF FlowRebuildReturns, AfterCompletion, LatchStep
<1>5. CASE FlowRequest
  BY <1>0, <1>5, ScheduleLatch DEF FlowRequest, Accept, LatchStep
<1>6. CASE DeviceObserved \/ Tick
  <2>1. AfterObservation(rs).latch /\ Aged(rs).latch = rs.latch
    BY <1>0 DEF AfterObservation, Aged, RebuildStates
  <2>2. QED
    BY <1>6, <2>1 DEF DeviceObserved, Tick, LatchStep
<1>7. CASE CoalescedSample \/ LoopEnds \/ GuardTransition \/ Uninit \/ UNCHANGED vars
  BY <1>7 DEF CoalescedSample, LoopEnds, GuardTransition, Uninit, vars, LatchStep
<1>8. QED
  BY <1>1, <1>2, <1>3, <1>4, <1>5, <1>6, <1>7 DEF Next

\* In shortfall only a rebuild dispatched after the observation spends the re-check it
\* bought.
THEOREM ObservationNotSpent == Spec => ObservationOutlivesFlight
<1>1. IInv /\ [Next]_vars => [LatchStep]_vars
  BY LatchKept
<1>2. QED
  BY <1>1, InductiveInvariant, PTL DEF Spec, ObservationOutlivesFlight, LatchStep

-----------------------------------------------------------------------------
(* The promise to a caller of recordPowerSample                              *)

\* A sample decided on is a step of the promise to its caller.
LEMMA SamplePromise ==
  ASSUME IInv, IInv', loop \in {"idle", "resumed"}, NEW s \in Samples, RunSample(s)
  PROVE  Promise!Decide
<1>1. Call \in {"none", "answered"}
  BY DEF IInv, Outstanding, Call
<1>2. loop' \in {"awaiting", "resumed", "failed"}
  BY DEF RunSample, RequestRebuild, SkipSample
<1>3. Call' \in {"answered", "asked", "running"}
  BY <1>2 DEF Call
<1>4. QED
  BY <1>1, <1>3 DEF Promise!Decide

\* A settled rebuild answers its caller.
LEMMA SettledPromise ==
  ASSUME IInv, IInv', flight # None, loop' \in {"resumed", "failed"}
  PROVE  Promise!Answer
<1>1. Call = "running"
  BY DEF IInv, SlotOK, Call
<1>2. Call' = "answered"
  BY DEF IInv, Outstanding, Call
<1>3. QED
  BY <1>1, <1>2 DEF Promise!Answer

\* A waiting intent that is looked at again, by its timer or after another one, leaves
\* the call waiting or begins its rebuild.
LEMMA PendingPromise ==
  ASSUME IInv, IInv', flight = None, loop' = loop,
         \/ UNCHANGED <<staged, flight>>
         \/ staged # None /\ staged' = None /\ flight' # None
         \/ staged = None /\ staged' = None /\ flight' = None
  PROVE  Promise!Begin \/ UNCHANGED Call
BY DEF IInv, Outstanding, Call, Promise!Begin

\* Every handler maps to a step, or a stutter, of the promise to the caller.
LEMMA PromiseStep == IInv /\ IInv' /\ [Next]_vars => [Promise!Next]_Call
<1> SUFFICES ASSUME IInv, IInv', [Next]_vars
             PROVE  Promise!Next \/ UNCHANGED Call
  OBVIOUS
<1>0. SlotOK /\ SlotOK'
  BY DEF IInv
<1>1. CASE \E s \in Samples : FirstSample(s) \/ RerunSample(s)
  BY <1>1, SamplePromise DEF FirstSample, RerunSample, Promise!Next
<1>2. CASE (\E o \in Outcomes : PowerRebuildReturns(o)) \/ AlertReturns \/ AlertRejects
  <2>1. flight # None
    BY <1>2 DEF PowerRebuildReturns, AlertReturns, AlertRejects
  <2>2. \/ loop' \in {"resumed", "failed"}
        \/ loop' = loop /\ staged' = staged /\ flight' = [flight EXCEPT !.phase = "alerting"]
    BY <1>2 DEF PowerRebuildReturns, AlertReturns, AlertRejects, Settle, Reject
  <2>3. CASE loop' \in {"resumed", "failed"}
    BY <2>1, <2>3, SettledPromise DEF Promise!Next
  <2>4. CASE loop' = loop /\ staged' = staged /\ flight' = [flight EXCEPT !.phase = "alerting"]
    <3>1. Outstanding' /\ staged = None
      BY <1>0, <2>1, <2>4 DEF IInv, SlotOK, Outstanding
    <3>2. QED
      BY <2>1, <2>4, <3>1 DEF Outstanding, Call
  <2>5. QED
    BY <2>2, <2>3, <2>4
<1>3. CASE TimerFires
  <2>1. pending # NoIntent /\ active = NoIntent /\ flight = None /\ loop' = loop
    BY <1>0, <1>3, SchedulerAssumption, KindFacts
       DEF TimerFires, SlotOK, WakeupArmed
  <2>2. \/ UNCHANGED <<staged, flight>>
        \/ Start(pending, rs, staged)
    BY <1>3 DEF TimerFires
  <2>3. CASE Start(pending, rs, staged)
    <3>1. active' = pending /\ staged' = None
      BY <2>3 DEF Start
    <3>2. (staged # None <=> pending \in PowerKinds) /\ (flight' # None <=> pending \in PowerKinds)
      BY <1>0, <3>1 DEF SlotOK, StagedHasIntent
    <3>3. QED
      BY <2>1, <3>1, <3>2, PendingPromise DEF Promise!Next
  <2>4. QED
    BY <2>1, <2>2, <2>3, PendingPromise DEF Promise!Next
<1>4. CASE FlowRebuildReturns
  <2>1. flight = None /\ loop' = loop
    BY <1>0, <1>4, KindFacts DEF FlowRebuildReturns, SlotOK
  <2>2. \/ staged' = staged /\ flight' = None
        \/ Start(pending, rs, staged)
    BY <1>4 DEF FlowRebuildReturns, AfterCompletion, Schedule
  <2>3. CASE Start(pending, rs, staged)
    <3>1. active' = pending /\ staged' = None
      BY <2>3 DEF Start
    <3>2. (staged # None <=> pending \in PowerKinds) /\ (flight' # None <=> pending \in PowerKinds)
      BY <1>0, <3>1 DEF SlotOK, StagedHasIntent
    <3>3. QED
      BY <2>1, <3>1, <3>2, PendingPromise DEF Promise!Next
  <2>4. QED
    BY <2>1, <2>2, <2>3, PendingPromise DEF Promise!Next
<1>5. CASE FlowRequest
  <2>1. loop' = loop /\ staged' = staged /\ flight' = flight
    <3>1. staged = None
      BY <1>0, <1>5 DEF FlowRequest, Drops, Priority, SlotOK, StagedHasIntent, PowerKinds, NoIntent
    <3>2. active = NoIntent => flight = None
      BY <1>0, KindFacts DEF SlotOK
    <3>3. QED
      BY <1>5, <3>1, <3>2, KindFacts DEF FlowRequest, Accept, Schedule, Start
  <2>2. QED
    BY <2>1 DEF Call
<1>6. CASE DeviceObserved
  BY <1>6 DEF DeviceObserved, Call, IInv, Outstanding
<1>7. CASE LoopEnds
  <2>1. Call = "answered" /\ Call' = "none"
    BY <1>7 DEF LoopEnds, IInv, Outstanding, Call
  <2>2. QED
    BY <2>1 DEF Promise!Next, Promise!Return
<1>8. CASE Uninit
  <2>1. staged' = None /\ flight' = flight /\ loop' = IF staged = None THEN loop ELSE "resumed"
    BY <1>0, <1>8 DEF Uninit, SlotOK, StagedHasIntent
  <2>2. CASE staged = None
    BY <2>1, <2>2 DEF Call
  <2>3. CASE staged # None
    <3>1. Call = "asked" /\ Call' = "answered"
      BY <1>0, <2>1, <2>3 DEF Call, SlotOK
    <3>2. QED
      BY <3>1 DEF Promise!Next, Promise!Answer
  <2>4. QED
    BY <2>2, <2>3
<1>9. CASE Tick
  <2>1. staged' = None <=> staged = None
    BY <1>9 DEF Tick, IInv, SlotOK, Outstanding
  <2>2. QED
    BY <1>9, <2>1 DEF Tick, Call
<1>10. CASE CoalescedSample \/ GuardTransition \/ UNCHANGED vars
  BY <1>10 DEF CoalescedSample, GuardTransition, vars, Call
<1>11. QED
  BY <1>1, <1>2, <1>3, <1>4, <1>5, <1>6, <1>7, <1>8, <1>9, <1>10 DEF Next

\* The detailed loop implements the promise: calls are served one at a time, a call that
\* asked for a rebuild waits for one that starts after it, and every ending answers it.
THEOREM KeepsPromise == Spec => PromiseSpec
<1>1. Init => Promise!Init
  BY DEF Init, Promise!Init, Call
<1>2. QED
  BY <1>1, PromiseStep, InductiveInvariant, PTL DEF Spec, PromiseSpec, Promise!Spec
=============================================================================
