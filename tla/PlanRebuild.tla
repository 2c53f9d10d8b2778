---------------------------- MODULE PlanRebuild ----------------------------
(***************************************************************************)
(* The power-driven rebuild loop of one home: the coalescing sample loop    *)
(* (setup/powerSamplePipeline.ts), the decision each sample takes           *)
(* (RebuildPolicy), the single-slot scheduler                               *)
(* (lib/plan/rebuildScheduler/scheduler.ts) with the due times              *)
(* setup/planRebuildIntentPolicy.ts gives it, and the power-driven rebuild  *)
(* with the suppressions it settles (powerDrivenScheduling.ts).             *)
(*                                                                         *)
(* JavaScript runs one handler at a time, so an action is one synchronous   *)
(* stretch of code up to its next await.  What runs concurrently: samples   *)
(* and flow cards arriving, the timer, the rebuild being built, the         *)
(* capacity guard's alert, device observations, and shutdown.               *)
(***************************************************************************)
EXTENDS RebuildPolicy

CONSTANTS
  FlowCoalesce,   \* FLOW_REBUILD_COALESCE_MS: 1 s, and 0 under NODE_ENV=test
  FlowCooldown,   \* FLOW_REBUILD_COOLDOWN_MS
  None            \* undefined: no timer, no staged request, no rebuild in flight

VARIABLES
  active,       \* activeIntent: the kind of the intent being executed
  pending,      \* pendingIntent: the kind of the one intent waiting
  timer,        \* time until the armed timer fires
  flowCooldown, \* time until lastCompletedAtMsByKind.flow + cooldown
  rs,           \* PowerSampleRebuildState, the suppressions
  staged,       \* PowerSampleRebuildState.pending*: the request its promise stands for
  flight,       \* PowerSampleRebuildState.inFlight: the rebuild that took the request
  loop,         \* the sample loop's program counter
  rerun,        \* powerSampleRerunRequested
  inShortfall,  \* CapacityGuard.inShortfall
  up            \* onUninit has not run

vars == <<active, pending, timer, flowCooldown, rs, staged, flight, loop, rerun,
          inShortfall, up>>

NoIntent == "none"
PowerKinds == {"hardCap", "signal"}
Kinds == PowerKinds \cup {"flow"}
Priority == [hardCap |-> 0, signal |-> 1, flow |-> 2]

Requests == [due : Nat, tight : BOOLEAN, deficit : 0..MaxDeficit, short : BOOLEAN]
Flights == [tight : BOOLEAN, deficit : 0..MaxDeficit, short : BOOLEAN,
            overtaken : BOOLEAN, phase : {"building", "alerting"}]

ASSUME SchedulerAssumption ==
  /\ FlowCoalesce \in Nat /\ FlowCooldown \in Nat
  /\ None \notin Nat /\ None \notin Requests /\ None \notin Flights

TypeOK ==
  /\ active \in Kinds \cup {NoIntent}
  /\ pending \in Kinds \cup {NoIntent}
  /\ timer \in Nat \cup {None}
  /\ flowCooldown \in Nat
  /\ rs \in RebuildStates
  /\ staged \in Requests \cup {None}
  /\ flight \in Flights \cup {None}
  /\ loop \in {"idle", "awaiting", "resumed", "failed"}
  /\ rerun \in BOOLEAN /\ inShortfall \in BOOLEAN /\ up \in BOOLEAN

Init ==
  /\ active = NoIntent /\ pending = NoIntent /\ timer = None /\ flowCooldown = 0
  /\ rs = [ran |-> FALSE, elapsed |-> 0, lastDeficit |-> 0, latch |-> FALSE,
           tightUnactionable |-> FALSE, streak |-> 0, backoff |-> 0, holdoff |-> 0]
  /\ staged = None /\ flight = None
  /\ loop = "idle" /\ rerun = FALSE
  /\ inShortfall = FALSE /\ up = TRUE
-----------------------------------------------------------------------------
(* The scheduler.  r and st are the rebuild state the caller has just set.   *)

\* Mutant of FloorIn: counted from now at every call instead of from the last execution
FloorInSliding(r) == IF r.tightUnactionable /\ r.ran THEN UnactionableFloor ELSE 0

FloorIn(r) ==
  IF r.tightUnactionable /\ r.ran THEN NonNeg(UnactionableFloor - r.elapsed) ELSE 0

\* Mutant of DueIn: the floor binds signal intents only
DueInHardCapUnfloored(kind, r, st, cooldown) ==
  CASE kind = "hardCap" -> 0
    [] kind = "signal"  -> Larger(IF st = None THEN 0 ELSE st.due, FloorIn(r))
    [] kind = "flow"    -> Larger(FlowCoalesce, cooldown)

\* resolveDueAtMs, from now.  A flow intent's time is counted from the moment of the
\* call, at every call.  (Its infinite answer, while a flow intent is active, is never
\* used: both callers have returned by then.)
DueIn(kind, r, st, cooldown) ==
  CASE kind = "hardCap" -> FloorIn(r)
    [] kind = "signal"  -> Larger(IF st = None THEN 0 ELSE st.due, FloorIn(r))
    [] kind = "flow"    -> Larger(FlowCoalesce, cooldown)

\* dispatchPendingIntent past its guards; for a power kind, executePendingPowerRebuild
\* up to its await
Start(kind, r, st) ==
  /\ active' = kind /\ pending' = NoIntent /\ timer' = None /\ staged' = None
  /\ IF kind \in PowerKinds
     THEN /\ rs' = [r EXCEPT !.ran = TRUE, !.elapsed = 0]
          /\ flight' = [tight |-> st.tight, deficit |-> st.deficit, short |-> st.short,
                        overtaken |-> FALSE, phase |-> "building"]
     ELSE rs' = r /\ flight' = None

\* refreshPendingSchedule with nothing active
Schedule(kind, r, st, cooldown) ==
  LET due == DueIn(kind, r, st, cooldown)
  IN  IF due = 0 /\ kind # "flow"       \* shouldExecuteImmediately
      THEN Start(kind, r, st)
      ELSE /\ pending' = kind /\ timer' = due /\ active' = NoIntent
           /\ rs' = r /\ staged' = st /\ flight' = None

\* request, for an intent that is not dropped
Accept(kind, r, st) ==
  IF active = NoIntent
  THEN Schedule(kind, r, st, flowCooldown)
  ELSE /\ pending' = kind /\ timer' = None /\ rs' = r /\ staged' = st
       /\ UNCHANGED <<active, flight>>

\* Mutant of Drops: the newest intent always takes the slot
DropsNothing(kind) == FALSE

Drops(kind) == pending # NoIntent /\ Priority[kind] > Priority[pending]

\* Mutant of AfterCompletion: the waiting intent is not rescheduled
AfterCompletionForgets(r, cooldown) ==
  /\ active' = NoIntent /\ flight' = None /\ rs' = r
  /\ UNCHANGED <<pending, timer, staged>>

\* The finally of an executed intent
AfterCompletion(r, cooldown) ==
  IF pending = NoIntent
  THEN /\ active' = NoIntent /\ flight' = None /\ rs' = r
       /\ UNCHANGED <<pending, timer, staged>>
  ELSE Schedule(pending, r, staged, cooldown)

TimerFires ==
  /\ timer = 0
  /\ LET due == DueIn(pending, rs, staged, flowCooldown)
     IN  IF due > 0
         THEN timer' = due /\ UNCHANGED <<active, pending, rs, staged, flight>>
         ELSE Start(pending, rs, staged)
  /\ UNCHANGED <<flowCooldown, loop, rerun, inShortfall, up>>
-----------------------------------------------------------------------------
(* One sample: schedulePlanRebuildFromSignal                                 *)

Decided == ResetLatchWhenRecovered(rs, inShortfall)

\* No rebuild; the call returns a resolved promise, or the checkShortfall of the
\* unrecoverable skip, which rejects when a shortfall callback fails.
SkipSample(s) ==
  /\ rs' = IF SkipUnrecoverable(s, rs, inShortfall)
           THEN Decided
           ELSE AfterSkip(s, Decided, inShortfall)
  /\ loop' \in {"resumed", IF SkipUnrecoverable(s, rs, inShortfall) THEN "failed" ELSE "resumed"}
  /\ UNCHANGED <<active, pending, timer, staged, flight>>

\* requestPowerSampleRebuild: stage the request, hand the intent to the scheduler and
\* await the promise.  An earlier request is never staged here (LoopOwnsRebuild), so a
\* new promise is created and the scheduler never drops the intent.
RequestRebuild(s) ==
  /\ Accept(IntentKind(s), AfterStage(s, Decided, inShortfall),
            [due |-> StagedDue(s, Decided, inShortfall),
             tight |-> TightReason(s, Decided, inShortfall),
             deficit |-> s.deficit, short |-> inShortfall])
  /\ loop' = "awaiting"

Asks(s) == /\ ~SkipUnrecoverable(s, rs, inShortfall)
           /\ ShouldRebuild(s, Decided, inShortfall)

\* Before the first rebuild there is no power to compare a sample with.
RunSample(s) ==
  /\ s.delta => rs.ran
  /\ IF Asks(s) THEN RequestRebuild(s) ELSE SkipSample(s)
  /\ UNCHANGED <<flowCooldown, inShortfall, up>>

\* Mutant of FirstSample: a sample is decided on while another is being served
FirstSampleConcurrent(s) ==
  /\ up
  /\ RunSample(s)
  /\ UNCHANGED rerun

\* recordPowerSample with no loop running
FirstSample(s) ==
  /\ up /\ loop = "idle"
  /\ RunSample(s)
  /\ UNCHANGED rerun

\* recordPowerSample while the loop runs: the newest sample waits for the rerun
CoalescedSample ==
  /\ up /\ loop # "idle" /\ ~rerun
  /\ rerun' = TRUE
  /\ UNCHANGED <<active, pending, timer, flowCooldown, rs, staged, flight, loop,
                 inShortfall, up>>

\* runCoalescedPowerSamples after the await
RerunSample(s) ==
  /\ loop = "resumed" /\ rerun
  /\ rerun' = FALSE
  /\ RunSample(s)

LoopEnds ==
  /\ \/ loop = "resumed" /\ ~rerun /\ UNCHANGED rerun
     \/ loop = "failed" /\ rerun' = FALSE
  /\ loop' = "idle"
  /\ UNCHANGED <<active, pending, timer, flowCooldown, rs, staged, flight,
                 inShortfall, up>>
-----------------------------------------------------------------------------
(* The rebuild in flight                                                     *)

\* Mutant of Settle: the verdict stands even if an observation overtook the rebuild
SettleBlind(outcome) ==
  LET completed == [rs EXCEPT !.lastDeficit = flight.deficit]
  IN  /\ AfterCompletion(
           [AfterOutcome(completed, flight.tight, outcome) EXCEPT !.latch = FALSE],
           flowCooldown)
      /\ loop' = "resumed"

\* The then of executePendingPowerRebuild, followed by the scheduler's finally (no other
\* handler runs between the two) and the resolution of the callers' promise
Settle(outcome) ==
  LET completed == [rs EXCEPT !.lastDeficit = flight.deficit]
  IN  /\ AfterCompletion(
           IF flight.overtaken
           THEN AfterOvertaken(completed, flight.tight, outcome)
           ELSE [AfterOutcome(completed, flight.tight, outcome) EXCEPT !.latch = FALSE],
           flowCooldown)
      /\ loop' = "resumed"

\* Its catch
Reject ==
  /\ AfterCompletion(
       IF flight.overtaken THEN rs ELSE [AfterError(rs, flight.tight) EXCEPT !.latch = FALSE],
       flowCooldown)
  /\ loop' = "failed"

Alerts(outcome) ==
  flight.tight /\ outcome = "noop" /\ flight.deficit > 0 /\ ~flight.short

\* The plan service answers; it turns a throwing build into the outcome "failed".
PowerRebuildReturns(outcome) ==
  /\ flight # None /\ flight.phase = "building"
  /\ IF Alerts(outcome)
     THEN /\ flight' = [flight EXCEPT !.phase = "alerting"]
          /\ inShortfall' = TRUE          \* onTightNoopHardCapBreach: checkShortfall
          /\ UNCHANGED <<active, pending, timer, rs, staged, loop>>
     ELSE Settle(outcome) /\ UNCHANGED inShortfall
  /\ UNCHANGED <<flowCooldown, rerun, up>>

\* The shortfall callback checkShortfall awaits resolves, or rejects.
AlertReturns ==
  /\ flight # None /\ flight.phase = "alerting"
  /\ Settle("noop")
  /\ UNCHANGED <<flowCooldown, rerun, inShortfall, up>>

AlertRejects ==
  /\ flight # None /\ flight.phase = "alerting"
  /\ Reject
  /\ UNCHANGED <<flowCooldown, rerun, inShortfall, up>>

FlowRebuildReturns ==
  /\ active = "flow"
  /\ flowCooldown' = FlowCooldown
  /\ AfterCompletion(rs, FlowCooldown)
  /\ UNCHANGED <<loop, rerun, inShortfall, up>>
-----------------------------------------------------------------------------
(* The rest of the app                                                       *)

\* requestFlowPlanRebuild; dropped behind a power intent
FlowRequest ==
  /\ up /\ ~Drops("flow")
  /\ Accept("flow", rs, staged)
  /\ UNCHANGED <<flowCooldown, loop, rerun, inShortfall, up>>

\* invalidateRebuildSuppressionForObservation.  The sequence number matters only as
\* "moved since the rebuild in flight was dispatched".
DeviceObserved ==
  /\ up
  /\ rs' = AfterObservation(rs)
  /\ flight' = IF flight = None THEN None ELSE [flight EXCEPT !.overtaken = TRUE]
  /\ UNCHANGED <<active, pending, timer, flowCooldown, staged, loop, rerun,
                 inShortfall, up>>

\* The guard enters or leaves shortfall (module Shortfall): on the checkShortfall of a plan
\* build, or of a skipped sample, whose outcome no later line of the skip reads.
GuardTransition ==
  /\ inShortfall' = ~inShortfall
  /\ UNCHANGED <<active, pending, timer, flowCooldown, rs, staged, flight, loop, rerun, up>>

\* Mutant of Uninit: cancelAll without the callback that resolves the promise
UninitSilent ==
  /\ up /\ up' = FALSE
  /\ pending' = NoIntent /\ timer' = None
  /\ UNCHANGED <<active, flowCooldown, rs, staged, flight, loop, rerun, inShortfall>>

\* runUninit: cancelAll, whose onIntentCancelled resolves the promise of a power intent
Uninit ==
  /\ up /\ up' = FALSE
  /\ pending' = NoIntent /\ timer' = None
  /\ IF pending \in PowerKinds
     THEN /\ staged' = None
          /\ loop' = IF staged = None THEN loop ELSE "resumed"
     ELSE UNCHANGED <<staged, loop>>
  /\ UNCHANGED <<active, flowCooldown, rs, flight, rerun, inShortfall>>

Tick ==
  /\ timer' = IF timer = None THEN None ELSE NonNeg(timer - 1)
  /\ staged' = IF staged = None THEN None ELSE [staged EXCEPT !.due = NonNeg(@ - 1)]
  /\ flowCooldown' = NonNeg(flowCooldown - 1)
  /\ rs' = Aged(rs)
  /\ UNCHANGED <<active, pending, flight, loop, rerun, inShortfall, up>>

Next ==
  \/ \E s \in Samples : FirstSample(s)
  \/ CoalescedSample
  \/ \E s \in Samples : RerunSample(s)
  \/ LoopEnds
  \/ \E o \in Outcomes : PowerRebuildReturns(o)
  \/ AlertReturns
  \/ AlertRejects
  \/ FlowRebuildReturns
  \/ TimerFires
  \/ FlowRequest
  \/ DeviceObserved
  \/ GuardTransition
  \/ Uninit
  \/ Tick

Spec == Init /\ [][Next]_vars

\* Time passes, due timers fire, a plan build and the shortfall callback return, and the
\* microtasks of the sample loop run.  Nothing obliges samples, flow cards or
\* observations to arrive.
Fairness ==
  /\ WF_vars(Tick)
  /\ WF_vars(TimerFires)
  /\ WF_vars(\E o \in Outcomes : PowerRebuildReturns(o))
  /\ WF_vars(AlertReturns \/ AlertRejects)
  /\ WF_vars(FlowRebuildReturns)
  /\ WF_vars(LoopEnds \/ \E s \in Samples : RerunSample(s))

FairSpec == Spec /\ Fairness
-----------------------------------------------------------------------------
(* What must hold                                                            *)

\* A waiting intent with nothing active has an armed timer, and a timer is armed for
\* nothing else: no wakeup is lost between request, dispatch, completion and cancelAll.
WakeupArmed == (pending # NoIntent /\ active = NoIntent) <=> timer # None

\* The staged request and the scheduler's slot are two copies of one fact, kept by two
\* modules: a promise nobody will execute would hold the sample loop for good.
StagedHasIntent ==
  /\ staged # None <=> pending \in PowerKinds
  /\ staged # None => (staged.deficit > 0 <=> pending = "hardCap")

\* The sample loop waits exactly while a request is staged or its rebuild is in flight,
\* and no sample is decided on meanwhile: one outstanding power rebuild per home.
LoopOwnsRebuild ==
  /\ loop = "awaiting" <=> staged # None \/ flight # None
  /\ staged = None \/ flight = None
  /\ flight # None <=> active \in PowerKinds

\* One request stands in three places - the sample loop, the staged request, the slot of the
\* scheduler - and no sample, timer, card, completion or shutdown moves one without the others.
RequestAgrees == StagedHasIntent /\ LoopOwnsRebuild

\* A device observation's invalidation and a tight-noop backoff never coexist: the
\* backoff would throttle away the very sample the observation asked to decide on.
LatchExcludesBackoff == rs.latch => rs.streak = 0 /\ rs.backoff = 0

\* A decision on a sample: the two ways a sample is decided on
Decides(s) == FirstSample(s) \/ RerunSample(s)
Requested == staged # None \/ flight # None

\* "No trigger can rebuild faster than the floor while the state is unwinnable"
\* (policy.ts): whoever starts a power rebuild, by whatever path.
FloorRespected ==
  [][flight = None /\ flight' # None /\ rs.ran /\ rs'.tightUnactionable
       => rs.elapsed >= UnactionableFloor]_vars

\* The pause each streak of tight rebuilds that changed nothing is to buy, the streaks past
\* the table included
Pauses == Append(NoopBackoff, NoopBackoffMax)

\* While such a streak stands, a power rebuild comes no sooner after the last one than the
\* streak's pause, or the max interval: each rebuild that changes nothing makes the next
\* one rarer, whatever samples, requests, cards and timers come between them.
NoopsPaced ==
  [][flight = None /\ flight' # None /\ rs'.streak > 0
       => rs.elapsed >= Smaller(Pauses[rs'.streak], MaxInterval)]_vars

\* A waiting hard-cap intent leaves the slot only by being executed or at shutdown: no
\* flow card, timer or completed rebuild displaces it.
HardCapKept ==
  [][pending = "hardCap" => pending' = "hardCap" \/ active' = "hardCap" \/ ~up']_vars

\* A power intent that waits with nothing active is never put off: no sample, flow card,
\* observation, shortfall or timer that finds it not yet due moves its timer away from now.
PowerWaitNeverExtended ==
  [][active = NoIntent /\ pending \in PowerKinds /\ pending' = pending
       => timer' <= timer]_vars

\* In shortfall, the re-check an observation bought is not spent by a rebuild that read
\* its devices before the observation, nor by a decision that started none.
ObservationOutlivesFlight ==
  [][inShortfall /\ rs.latch /\ ~rs'.latch => flight # None /\ ~flight.overtaken]_vars

\* A hard-cap breach that appears or grows is answered with a hard-cap rebuild request by
\* the first sample decided on, whatever backoff or holdoff is running; only the
\* unactionable throttle and the unrecoverable-shortfall skip may pass it over.
BreachAnswered ==
  [][\A s \in {x \in Samples : x.deficit > rs.lastDeficit /\ ~x.noShed} :
       Decides(s) => pending' = "hardCap" \/ active' = "hardCap"]_vars

\* While samples keep coming, rebuilds keep running: no combination of throttle, skip,
\* backoff, holdoff and floor suppresses them for good.
NeverSilenced ==
  WF_vars(up /\ \E s \in Samples : FirstSample(s)) => <>~up \/ []<>(flight # None)

\* The call of recordPowerSample being served, as its caller sees it
Call == IF staged # None THEN "asked"
        ELSE IF flight # None THEN "running"
        ELSE IF loop = "idle" THEN "none" ELSE "answered"

Promise == INSTANCE RebuildPromise WITH call <- Call

\* The loop keeps the promise RebuildPromise makes to a caller of recordPowerSample.
PromiseSpec == Promise!Spec

\* Every caller is answered: no path leaves the sample loop waiting for ever.
PromiseAnswered == Promise!Answered
-----------------------------------------------------------------------------
(* What the code's comments say and the code does not do                     *)

\* planRebuildIntentPolicy.ts: the leading window "holds the first rebuild a beat so a
\* multi-card flow collapses into one re-solve".  A waiting flow rebuild eventually runs.
FlowRebuildRuns == pending = "flow" ~> pending # "flow"
=============================================================================
