------------------------- MODULE PlanRebuildProofs -------------------------
(***************************************************************************)
(* Proofs about PlanRebuild for all interval constants, deficit levels and  *)
(* backoff tables.  The scheduler's slot and the rebuild state are two      *)
(* copies of one fact kept by two modules of the code; SlotOK says how they *)
(* agree, and is what makes the invariants inductive.                       *)
(***************************************************************************)
EXTENDS PlanRebuild, RebuildPolicyProofs

SlotTypeOK ==
  /\ active \in Kinds \cup {NoIntent}
  /\ pending \in Kinds \cup {NoIntent}
  /\ timer \in Nat \cup {None}
  /\ rs \in RebuildStates
  /\ staged \in Requests \cup {None}
  /\ flight \in Flights \cup {None}

\* The scheduler, the staged request and the rebuild in flight agree.
SlotOK ==
  /\ SlotTypeOK
  /\ WakeupArmed
  /\ StagedHasIntent
  /\ staged = None \/ flight = None
  /\ flight # None <=> active \in PowerKinds
  /\ NoBackoffUnderLatch(rs)

RestTypeOK ==
  /\ flowCooldown \in Nat
  /\ loop \in {"idle", "awaiting", "resumed", "failed"}
  /\ rerun \in BOOLEAN /\ inShortfall \in BOOLEAN /\ up \in BOOLEAN

Outstanding == staged # None \/ flight # None

IInv ==
  /\ SlotOK
  /\ RestTypeOK
  /\ loop = "awaiting" <=> Outstanding

\* A request st that may stand for a waiting intent of this kind
Fits(kind, st) ==
  /\ st \in Requests \cup {None}
  /\ st # None <=> kind \in PowerKinds
  /\ st # None => (st.deficit > 0 <=> kind = "hardCap")

\* The kinds of intent and their priorities, spelled out.
LEMMA KindFacts ==
  /\ NoIntent \notin Kinds /\ "flow" \notin PowerKinds /\ PowerKinds \subseteq Kinds
  /\ "flow" \in Kinds /\ "hardCap" \in PowerKinds /\ "signal" \in PowerKinds
  /\ NoIntent \notin PowerKinds
  /\ \A k \in Kinds : k # "flow" => k \in PowerKinds
BY DEF NoIntent, Kinds, PowerKinds

-----------------------------------------------------------------------------
(* The scheduler's steps                                                     *)

\* A due time is a natural number: every request waits a finite time (resolveDueAtMs).
LEMMA DueType ==
  ASSUME NEW kind \in Kinds, NEW r \in RebuildStates, NEW st, Fits(kind, st),
         NEW cooldown \in Nat
  PROVE  DueIn(kind, r, st, cooldown) \in Nat
<1>1. FloorIn(r) \in Nat
  <2>1. UnactionableFloor - r.elapsed \in Int
    BY PolicyAssumption DEF RebuildStates
  <2>2. QED
    BY <2>1, NumberTypes DEF FloorIn
<1>2. CASE kind = "hardCap"
  BY <1>1, <1>2 DEF DueIn
<1>3. CASE kind = "signal"
  <2>1. (IF st = None THEN 0 ELSE st.due) \in Nat
    BY DEF Fits, Requests
  <2>2. QED
    BY <1>1, <1>3, <2>1, NumberTypes DEF DueIn
<1>4. CASE kind = "flow"
  BY <1>4, SchedulerAssumption, NumberTypes DEF DueIn
<1>5. QED
  BY <1>2, <1>3, <1>4 DEF Kinds, PowerKinds

\* An intent that starts leaves the slot empty, and is in flight if it is a power intent.
LEMMA StartOK ==
  ASSUME NEW kind \in Kinds, NEW r \in RebuildStates, NoBackoffUnderLatch(r),
         NEW st, Fits(kind, st), Start(kind, r, st)
  PROVE  SlotOK' /\ (Outstanding' <=> kind \in PowerKinds)
<1>1. /\ active' = kind /\ pending' = NoIntent /\ timer' = None /\ staged' = None
  BY DEF Start
<1>2. CASE kind \in PowerKinds
  <2>1. st \in Requests
    BY <1>2 DEF Fits
  <2>2. rs' = [r EXCEPT !.ran = TRUE, !.elapsed = 0]
    BY <1>2 DEF Start
  <2>3. rs' \in RebuildStates
    <3> DEFINE q == [r EXCEPT !.ran = TRUE]
    <3>1. q \in RebuildStates
      BY FieldTypes
    <3>2. 0 \in 0..MaxInterval
      BY PolicyAssumption
    <3>3. [q EXCEPT !.elapsed = 0] \in RebuildStates
      BY <3>1, <3>2, FieldTypes
    <3>4. QED
      BY <2>2, <3>3
  <2>4. NoBackoffUnderLatch(rs')
    BY <2>2 DEF NoBackoffUnderLatch, RebuildStates
  <2>5. flight' \in Flights
    <3>1. flight' = [tight |-> st.tight, deficit |-> st.deficit, short |-> st.short,
                     overtaken |-> FALSE, phase |-> "building"]
      BY <1>2 DEF Start
    <3>2. st.tight \in BOOLEAN /\ st.deficit \in 0..MaxDeficit /\ st.short \in BOOLEAN
      BY <2>1 DEF Requests
    <3>3. QED
      BY <3>1, <3>2 DEF Flights
  <2>6. flight' # None
    BY <2>5, SchedulerAssumption
  <2>7. QED
    BY <1>1, <1>2, <2>3, <2>4, <2>5, <2>6, KindFacts
       DEF SlotOK, SlotTypeOK, WakeupArmed, StagedHasIntent, Outstanding
<1>3. CASE kind \notin PowerKinds
  BY <1>1, <1>3, KindFacts
     DEF Start, SlotOK, SlotTypeOK, WakeupArmed, StagedHasIntent, Outstanding
<1>4. QED
  BY <1>2, <1>3

\* refreshPendingSchedule keeps the slot, its timer, the staged request and the rebuild in
\* flight consistent, whether it starts the waiting intent or arms the timer for it.
LEMMA ScheduleOK ==
  ASSUME NEW kind \in Kinds, NEW r \in RebuildStates, NoBackoffUnderLatch(r),
         NEW st, Fits(kind, st), NEW cooldown \in Nat, Schedule(kind, r, st, cooldown)
  PROVE  SlotOK' /\ (Outstanding' <=> kind \in PowerKinds)
<1> DEFINE due == DueIn(kind, r, st, cooldown)
<1>1. CASE due = 0 /\ kind # "flow"
  BY <1>1, StartOK DEF Schedule
<1>2. CASE ~(due = 0 /\ kind # "flow")
  <2>1. /\ pending' = kind /\ timer' = due /\ active' = NoIntent
        /\ rs' = r /\ staged' = st /\ flight' = None
    BY <1>2 DEF Schedule
  <2>2. due \in Nat
    BY DueType
  <2>3. timer' # None
    BY <2>1, <2>2, SchedulerAssumption
  <2> HIDE DEF due
  <2>4. SlotTypeOK'
    BY <2>1, <2>2 DEF SlotTypeOK, Fits
  <2>5. QED
    BY <2>1, <2>3, <2>4, KindFacts
       DEF SlotOK, WakeupArmed, StagedHasIntent, Fits, Outstanding
<1>3. QED
  BY <1>1, <1>2

\* A request that reaches the scheduler: of a power kind when no request is staged and no
\* rebuild is in flight, or of a flow card when no power intent waits.
LEMMA AcceptOK ==
  ASSUME SlotOK, RestTypeOK, NEW kind \in Kinds, NEW r \in RebuildStates,
         NoBackoffUnderLatch(r), NEW st, Fits(kind, st), st = None \/ flight = None,
         Accept(kind, r, st)
  PROVE  SlotOK' /\ (Outstanding' <=> st # None \/ flight # None)
<1>1. CASE active = NoIntent
  <2>1. Schedule(kind, r, st, flowCooldown)
    BY <1>1 DEF Accept
  <2>2. flight = None
    BY <1>1, KindFacts DEF SlotOK
  <2>3. QED
    BY <2>1, <2>2, ScheduleOK DEF RestTypeOK, Fits
<1>2. CASE active # NoIntent
  <2>1. /\ pending' = kind /\ timer' = None /\ rs' = r /\ staged' = st
        /\ active' = active /\ flight' = flight
    BY <1>2 DEF Accept
  <2>2. SlotTypeOK'
    BY <2>1 DEF SlotOK, SlotTypeOK, Fits
  <2>3. QED
    BY <1>2, <2>1, <2>2, KindFacts
       DEF SlotOK, WakeupArmed, StagedHasIntent, Fits, Outstanding
<1>3. QED
  BY <1>1, <1>2

\* The end of an intent: what waited is scheduled or started.
LEMMA CompletionOK ==
  ASSUME SlotOK, active # NoIntent, NEW r \in RebuildStates, NoBackoffUnderLatch(r),
         NEW cooldown \in Nat, AfterCompletion(r, cooldown)
  PROVE  SlotOK' /\ (Outstanding' <=> staged # None)
<1>1. CASE pending = NoIntent
  <2>1. /\ active' = NoIntent /\ flight' = None /\ rs' = r
        /\ pending' = pending /\ timer' = timer /\ staged' = staged
    BY <1>1 DEF AfterCompletion
  <2>2. SlotTypeOK'
    BY <2>1 DEF SlotOK, SlotTypeOK
  <2>3. QED
    BY <1>1, <2>1, <2>2, KindFacts
       DEF SlotOK, WakeupArmed, StagedHasIntent, Outstanding
<1>2. CASE pending # NoIntent
  <2>1. Schedule(pending, r, staged, cooldown)
    BY <1>2 DEF AfterCompletion
  <2>2. pending \in Kinds /\ Fits(pending, staged)
    BY <1>2 DEF SlotOK, SlotTypeOK, StagedHasIntent, Fits
  <2>3. QED
    BY <2>1, <2>2, ScheduleOK DEF Fits
<1>3. QED
  BY <1>1, <1>2

-----------------------------------------------------------------------------
(* The inductive invariant                                                   *)

\* The inductive invariant holds when the app starts.
LEMMA InitIInv == Init => IInv
<1> SUFFICES ASSUME Init PROVE IInv
  OBVIOUS
<1>1. rs \in RebuildStates /\ NoBackoffUnderLatch(rs)
  BY PolicyAssumption, StreakBound DEF Init, RebuildStates, NoBackoffUnderLatch
<1>2. QED
  BY <1>1, KindFacts
     DEF Init, IInv, SlotOK, SlotTypeOK, RestTypeOK, WakeupArmed, StagedHasIntent,
         Outstanding, NoIntent

\* One sample decided on, with no request outstanding
LEMMA SampleStep ==
  ASSUME IInv, loop # "awaiting", NEW s \in Samples, RunSample(s), rerun' \in BOOLEAN,
         up' \in BOOLEAN
  PROVE  IInv'
<1>1. staged = None /\ flight = None
  BY DEF IInv, Outstanding
<1>2. rs \in RebuildStates /\ NoBackoffUnderLatch(rs) /\ inShortfall \in BOOLEAN
  BY DEF IInv, SlotOK, SlotTypeOK, RestTypeOK
<1>3. Decided \in RebuildStates /\ NoBackoffUnderLatch(Decided)
  BY <1>2, DecisionTypes DEF Decided
<1>4. flowCooldown' = flowCooldown /\ inShortfall' = inShortfall
  BY DEF RunSample
<1>5. CASE Asks(s)
  <2> DEFINE kind == IntentKind(s)
             r == AfterStage(s, Decided, inShortfall)
             st == [due |-> StagedDue(s, Decided, inShortfall),
                    tight |-> TightReason(s, Decided, inShortfall),
                    deficit |-> s.deficit, short |-> inShortfall]
  <2>1. Accept(kind, r, st) /\ loop' = "awaiting"
    BY <1>5 DEF RunSample, RequestRebuild
  <2>2. r \in RebuildStates /\ NoBackoffUnderLatch(r)
    BY <1>2, <1>3, DecisionTypes
  <2>3. st \in Requests
    <3>1. StagedDue(s, Decided, inShortfall) \in Nat
      BY <1>2, <1>3, DecisionTypes
    <3>2. TightReason(s, Decided, inShortfall) \in BOOLEAN
      BY <1>2, <1>3 DEF TightReason, Samples, RebuildStates
    <3>3. s.deficit \in 0..MaxDeficit
      BY DEF Samples
    <3>4. QED
      BY <1>2, <3>1, <3>2, <3>3 DEF Requests
  <2>4. st # None
    BY <2>3, SchedulerAssumption
  <2>5. kind \in Kinds /\ Fits(kind, st)
    <3>1. s.deficit \in 0..MaxDeficit /\ st.deficit = s.deficit
      BY DEF Samples
    <3>2. QED
      BY <2>3, <2>4, <3>1, KindFacts, PolicyAssumption DEF IntentKind, Fits
  <2> HIDE DEF kind, r, st
  <2>6. SlotOK' /\ Outstanding'
    BY <1>1, <2>1, <2>2, <2>4, <2>5, AcceptOK DEF IInv
  <2>7. QED
    BY <1>4, <2>1, <2>6 DEF IInv, RestTypeOK
<1>6. CASE ~Asks(s)
  <2>1. /\ active' = active /\ pending' = pending /\ timer' = timer
        /\ staged' = staged /\ flight' = flight /\ loop' \in {"resumed", "failed"}
        /\ rs' = IF SkipUnrecoverable(s, rs, inShortfall)
                 THEN Decided ELSE AfterSkip(s, Decided, inShortfall)
    BY <1>6 DEF RunSample, SkipSample
  <2>2. rs' \in RebuildStates /\ NoBackoffUnderLatch(rs')
    BY <1>2, <1>3, <2>1, DecisionTypes
  <2>3. SlotOK'
    BY <2>1, <2>2 DEF IInv, SlotOK, SlotTypeOK, WakeupArmed, StagedHasIntent
  <2>4. QED
    BY <1>1, <1>4, <2>1, <2>3 DEF IInv, RestTypeOK, Outstanding
<1>7. QED
  BY <1>5, <1>6

\* A power rebuild that settled: nothing is outstanding any more.
LEMMA SettledStep ==
  ASSUME IInv, flight # None, NEW r \in RebuildStates, NoBackoffUnderLatch(r),
         AfterCompletion(r, flowCooldown), loop' \in {"resumed", "failed"},
         inShortfall' \in BOOLEAN, UNCHANGED <<flowCooldown, rerun, up>>
  PROVE  IInv'
<1>1. active # NoIntent /\ staged = None /\ flowCooldown \in Nat
  BY KindFacts DEF IInv, SlotOK, RestTypeOK
<1>2. SlotOK' /\ ~Outstanding'
  BY <1>1, CompletionOK DEF IInv
<1>3. QED
  BY <1>2 DEF IInv, RestTypeOK

\* A finished power rebuild keeps the inductive invariant, whatever verdict it settles.
LEMMA SettleStep ==
  ASSUME IInv, flight # None, NEW o \in Outcomes, Settle(o), inShortfall' \in BOOLEAN,
         UNCHANGED <<flowCooldown, rerun, up>>
  PROVE  IInv'
<1> DEFINE completed == [rs EXCEPT !.lastDeficit = flight.deficit]
           r == IF flight.overtaken
                THEN AfterOvertaken(completed, flight.tight, o)
                ELSE [AfterOutcome(completed, flight.tight, o) EXCEPT !.latch = FALSE]
<1>1. rs \in RebuildStates /\ NoBackoffUnderLatch(rs) /\ flight \in Flights
  BY DEF IInv, SlotOK, SlotTypeOK
<1>2. flight.deficit \in 0..MaxDeficit /\ flight.tight \in BOOLEAN
  BY <1>1 DEF Flights
<1>3. completed \in RebuildStates
  BY <1>1, <1>2, FieldTypes
<1>4. NoBackoffUnderLatch(completed)
  BY <1>1 DEF NoBackoffUnderLatch, RebuildStates
<1> HIDE DEF completed
<1>5. r \in RebuildStates /\ NoBackoffUnderLatch(r)
  BY <1>2, <1>3, <1>4, OutcomeTypes
<1>6. AfterCompletion(r, flowCooldown) /\ loop' = "resumed"
  BY DEF Settle, completed
<1>7. QED
  BY <1>5, <1>6, SettledStep

\* Every handler of the rebuild loop keeps the inductive invariant.
THEOREM IInvStep == IInv /\ [Next]_vars => IInv'
<1> SUFFICES ASSUME IInv, [Next]_vars PROVE IInv'
  OBVIOUS
<1>0. /\ rs \in RebuildStates /\ NoBackoffUnderLatch(rs) /\ flight \in Flights \cup {None}
      /\ flowCooldown \in Nat /\ RestTypeOK /\ SlotOK
  BY DEF IInv, SlotOK, SlotTypeOK, RestTypeOK
<1>1. CASE \E s \in Samples : FirstSample(s)
  BY <1>0, <1>1, SampleStep DEF FirstSample, RestTypeOK, RunSample
<1>2. CASE CoalescedSample
  BY <1>2 DEF CoalescedSample, IInv, SlotOK, SlotTypeOK, RestTypeOK, WakeupArmed,
              StagedHasIntent, Outstanding
<1>3. CASE \E s \in Samples : RerunSample(s)
  BY <1>0, <1>3, SampleStep DEF RerunSample, RestTypeOK, RunSample
<1>4. CASE LoopEnds
  BY <1>4 DEF LoopEnds, IInv, SlotOK, SlotTypeOK, RestTypeOK, WakeupArmed,
              StagedHasIntent, Outstanding
<1>5. CASE \E o \in Outcomes : PowerRebuildReturns(o)
  <2>1. PICK o \in Outcomes : PowerRebuildReturns(o)
    BY <1>5
  <2>2. CASE Alerts(o)
    <3>1. /\ flight' = [flight EXCEPT !.phase = "alerting"] /\ inShortfall' = TRUE
          /\ UNCHANGED <<active, pending, timer, rs, staged, loop, flowCooldown, rerun, up>>
          /\ flight # None
      BY <2>1, <2>2 DEF PowerRebuildReturns
    <3>2. flight' \in Flights
      BY <1>0, <3>1 DEF Flights
    <3>3. flight' # None
      BY <3>2, SchedulerAssumption
    <3>4. SlotOK'
      BY <1>0, <3>1, <3>2, <3>3
         DEF SlotOK, SlotTypeOK, WakeupArmed, StagedHasIntent
    <3>5. QED
      BY <3>1, <3>3, <3>4 DEF IInv, RestTypeOK, Outstanding
  <2>3. CASE ~Alerts(o)
    BY <1>0, <2>1, <2>3, SettleStep DEF PowerRebuildReturns, RestTypeOK
  <2>4. QED
    BY <2>2, <2>3
<1>6. CASE AlertReturns
  BY <1>0, <1>6, SettleStep DEF AlertReturns, RestTypeOK, Outcomes
<1>7. CASE AlertRejects
  <2> DEFINE r == IF flight.overtaken THEN rs
                  ELSE [AfterError(rs, flight.tight) EXCEPT !.latch = FALSE]
  <2>1. /\ AfterCompletion(r, flowCooldown) /\ loop' = "failed" /\ flight # None
        /\ UNCHANGED <<flowCooldown, rerun, inShortfall, up>>
    BY <1>7 DEF AlertRejects, Reject
  <2>2. flight.tight \in BOOLEAN
    BY <1>0, <2>1 DEF Flights
  <2>3. "failed" \in Outcomes
    BY DEF Outcomes
  <2>4. r \in RebuildStates /\ NoBackoffUnderLatch(r)
    BY <1>0, <2>2, <2>3, OutcomeTypes
  <2> HIDE DEF r
  <2>5. QED
    BY <1>0, <2>1, <2>4, SettledStep DEF RestTypeOK
<1>8. CASE FlowRebuildReturns
  <2>1. active # NoIntent /\ flight = None /\ FlowCooldown \in Nat
    BY <1>0, <1>8, KindFacts, SchedulerAssumption DEF FlowRebuildReturns, SlotOK, NoIntent
  <2>2. SlotOK' /\ (Outstanding' <=> staged # None)
    BY <1>0, <1>8, <2>1, CompletionOK DEF FlowRebuildReturns
  <2>3. QED
    BY <1>8, <2>1, <2>2 DEF FlowRebuildReturns, IInv, RestTypeOK, Outstanding
<1>9. CASE TimerFires
  <2>1. pending \in Kinds /\ active = NoIntent /\ timer \in Nat
    BY <1>0, <1>9, SchedulerAssumption DEF TimerFires, SlotOK, SlotTypeOK, WakeupArmed
  <2>2. Fits(pending, staged) /\ flight = None
    BY <1>0, <2>1, KindFacts DEF SlotOK, SlotTypeOK, StagedHasIntent, Fits
  <2> DEFINE due == DueIn(pending, rs, staged, flowCooldown)
  <2>3. due \in Nat
    BY <1>0, <2>1, <2>2, DueType
  <2>4. CASE due > 0
    <3>1. timer' = due /\ UNCHANGED <<active, pending, rs, staged, flight>>
      BY <1>9, <2>4 DEF TimerFires
    <3> HIDE DEF due
    <3>2. timer' # None
      BY <2>3, <3>1, SchedulerAssumption
    <3>3. timer # None
      BY <2>1, SchedulerAssumption
    <3>4. SlotOK'
      BY <1>0, <2>3, <3>1, <3>2, <3>3
         DEF SlotOK, SlotTypeOK, WakeupArmed, StagedHasIntent
    <3>5. QED
      BY <1>9, <3>1, <3>4 DEF TimerFires, IInv, RestTypeOK, Outstanding
  <2>5. CASE ~(due > 0)
    <3>1. Start(pending, rs, staged)
      BY <1>9, <2>5 DEF TimerFires
    <3>2. SlotOK' /\ (Outstanding' <=> pending \in PowerKinds)
      BY <1>0, <2>1, <2>2, <3>1, StartOK
    <3>3. QED
      BY <1>9, <2>2, <3>2 DEF TimerFires, IInv, RestTypeOK, Outstanding, Fits
  <2>6. QED
    BY <2>4, <2>5
<1>10. CASE FlowRequest
  <2>1. staged = None
    BY <1>0, <1>10 DEF FlowRequest, Drops, Priority, SlotOK, StagedHasIntent, PowerKinds, NoIntent
  <2>2. Fits("flow", staged)
    BY <2>1, KindFacts DEF Fits
  <2>3. SlotOK' /\ (Outstanding' <=> Outstanding)
    BY <1>0, <1>10, <2>1, <2>2, KindFacts, AcceptOK DEF FlowRequest, Outstanding
  <2>4. QED
    BY <1>10, <2>3 DEF FlowRequest, IInv, RestTypeOK
<1>11. CASE DeviceObserved
  <2>1. /\ rs' = AfterObservation(rs)
        /\ flight' = IF flight = None THEN None ELSE [flight EXCEPT !.overtaken = TRUE]
        /\ UNCHANGED <<active, pending, timer, flowCooldown, staged, loop, rerun,
                       inShortfall, up>>
    BY <1>11 DEF DeviceObserved
  <2>2. rs' \in RebuildStates /\ NoBackoffUnderLatch(rs')
    BY <1>0, <2>1, PassiveTypes
  <2>3. flight' \in Flights \cup {None} /\ (flight' = None <=> flight = None)
    <3>1. CASE flight = None
      BY <2>1, <3>1
    <3>2. CASE flight # None
      <4>1. flight' \in Flights
        BY <1>0, <2>1, <3>2 DEF Flights
      <4>2. QED
        BY <3>2, <4>1, SchedulerAssumption
    <3>3. QED
      BY <3>1, <3>2
  <2>4. SlotOK'
    BY <1>0, <2>1, <2>2, <2>3 DEF SlotOK, SlotTypeOK, WakeupArmed, StagedHasIntent
  <2>5. QED
    BY <2>1, <2>3, <2>4 DEF IInv, RestTypeOK, Outstanding
<1>12. CASE GuardTransition
  BY <1>12 DEF GuardTransition, IInv, SlotOK, SlotTypeOK, RestTypeOK, WakeupArmed,
               StagedHasIntent, Outstanding
<1>13. CASE Uninit
  <2>1. /\ up' = FALSE /\ pending' = NoIntent /\ timer' = None
        /\ UNCHANGED <<active, flowCooldown, rs, flight, rerun, inShortfall>>
    BY <1>13 DEF Uninit
  <2>2. staged' = None
    BY <1>0, <1>13 DEF Uninit, SlotOK, StagedHasIntent
  <2>3. loop' = IF staged = None THEN loop ELSE "resumed"
    BY <1>0, <1>13 DEF Uninit, SlotOK, StagedHasIntent
  <2>4. SlotOK'
    BY <1>0, <2>1, <2>2, KindFacts DEF SlotOK, SlotTypeOK, WakeupArmed, StagedHasIntent
  <2>5. QED
    BY <1>0, <2>1, <2>2, <2>3, <2>4 DEF IInv, RestTypeOK, SlotOK, Outstanding
<1>14. CASE Tick
  <2>1. /\ timer' = (IF timer = None THEN None ELSE NonNeg(timer - 1))
        /\ staged' = (IF staged = None THEN None ELSE [staged EXCEPT !.due = NonNeg(@ - 1)])
        /\ flowCooldown' = NonNeg(flowCooldown - 1)
        /\ rs' = Aged(rs)
        /\ UNCHANGED <<active, pending, flight, loop, rerun, inShortfall, up>>
    BY <1>14 DEF Tick
  <2>2. rs' \in RebuildStates /\ NoBackoffUnderLatch(rs')
    BY <1>0, <2>1, PassiveTypes
  <2>3. flowCooldown' \in Nat
    <3>1. flowCooldown - 1 \in Int
      BY <1>0
    <3>2. QED
      BY <2>1, <3>1, NumberTypes
  <2>4. timer' \in Nat \cup {None} /\ (timer' = None <=> timer = None)
    <3>1. CASE timer = None
      BY <2>1, <3>1
    <3>2. CASE timer # None
      <4>1. timer - 1 \in Int
        BY <1>0, <3>2 DEF SlotOK, SlotTypeOK
      <4>2. timer' \in Nat
        BY <2>1, <3>2, <4>1, NumberTypes
      <4>3. QED
        BY <3>2, <4>2, SchedulerAssumption
    <3>3. QED
      BY <3>1, <3>2
  <2>5. /\ staged' \in Requests \cup {None} /\ (staged' = None <=> staged = None)
        /\ staged # None => staged'.deficit = staged.deficit
    <3>1. CASE staged = None
      BY <2>1, <3>1
    <3>2. CASE staged # None
      <4>1. staged \in Requests
        BY <1>0, <3>2 DEF SlotOK, SlotTypeOK
      <4>2. staged.due - 1 \in Int
        BY <4>1 DEF Requests
      <4>3. NonNeg(staged.due - 1) \in Nat
        BY <4>2, NumberTypes
      <4>4. staged' = [staged EXCEPT !.due = NonNeg(staged.due - 1)]
        BY <2>1, <3>2
      <4>5. staged' \in Requests /\ staged'.deficit = staged.deficit
        BY <4>1, <4>3, <4>4 DEF Requests
      <4>6. QED
        BY <3>2, <4>5, SchedulerAssumption
    <3>3. QED
      BY <3>1, <3>2
  <2>6. SlotOK'
    BY <1>0, <2>1, <2>2, <2>4, <2>5 DEF SlotOK, SlotTypeOK, WakeupArmed, StagedHasIntent
  <2>7. QED
    BY <2>1, <2>3, <2>5, <2>6 DEF IInv, RestTypeOK, Outstanding
<1>15. CASE UNCHANGED vars
  BY <1>15 DEF vars, IInv, SlotOK, SlotTypeOK, RestTypeOK, WakeupArmed,
               StagedHasIntent, Outstanding
<1>16. QED
  BY <1>1, <1>2, <1>3, <1>4, <1>5, <1>6, <1>7, <1>8, <1>9, <1>10, <1>11, <1>12,
     <1>13, <1>14, <1>15 DEF Next

\* In every reachable state the slot, the staged request, the rebuild in flight and the
\* sample loop agree.
THEOREM InductiveInvariant == Spec => []IInv
BY InitIInv, IInvStep, PTL DEF Spec

\* The loop's state keeps its types, for all constants.
THEOREM TypeCorrect == Spec => []TypeOK
<1>1. IInv => TypeOK
  BY DEF IInv, SlotOK, SlotTypeOK, RestTypeOK, TypeOK
<1>2. QED
  BY <1>1, InductiveInvariant, PTL

\* No wakeup is lost: a waiting intent always has its timer, and no timer is orphaned.
THEOREM WakeupsArmed == Spec => []WakeupArmed
<1>1. IInv => WakeupArmed
  BY DEF IInv, SlotOK
<1>2. QED
  BY <1>1, InductiveInvariant, PTL

\* One outstanding power rebuild per home: the sample loop waits exactly for it, and while it
\* waits to begin it has its intent in the scheduler's slot.
THEOREM OneRebuildOutstanding == Spec => []RequestAgrees
<1>1. IInv => RequestAgrees
  BY DEF IInv, SlotOK, RequestAgrees, LoopOwnsRebuild, Outstanding
<1>2. QED
  BY <1>1, InductiveInvariant, PTL

\* An observation's re-check never meets a tight-noop backoff.
THEOREM LatchNeverBackedOff == Spec => []LatchExcludesBackoff
<1>1. IInv => LatchExcludesBackoff
  BY DEF IInv, SlotOK, NoBackoffUnderLatch, LatchExcludesBackoff
<1>2. QED
  BY <1>1, InductiveInvariant, PTL
=============================================================================
