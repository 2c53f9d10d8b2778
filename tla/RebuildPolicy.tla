--------------------------- MODULE RebuildPolicy ---------------------------
(***************************************************************************)
(* The rebuild decision policy: the pure functions that decide whether one *)
(* power sample asks for a plan rebuild, under which kind of intent, and    *)
(* which suppressions a finished rebuild installs                           *)
(* (lib/plan/rebuildScheduler/policy.ts and the pure helpers of             *)
(* powerDrivenScheduling.ts and signalDriven.ts).                           *)
(*                                                                         *)
(* Times are relative: an absolute stamp of the code (lastMs, backoffUntil, *)
(* holdoffUntil, pendingDueMs) becomes the time since or until it, so the   *)
(* state space is finite without a clock bound.                             *)
(*                                                                         *)
(* A sample carries what the policy can tell apart in it:                   *)
(*   tight         soft headroom <= 0                                       *)
(*   deficit       kW above the hard-cap threshold, by level; 0 = no breach *)
(*   delta         power moved meaningfully since the last rebuild          *)
(*   converging    isPlanActivelyConverging                                 *)
(*   noShed        the last plan has no sheddable load left                 *)
(*   unactionable  isPlanUnactionable: nothing to shed nor to reduce        *)
(***************************************************************************)
EXTENDS Integers, Sequences

CONSTANTS
  MinInterval,        \* POWER_SAMPLE_REBUILD_MIN_INTERVAL_MS
  StableInterval,     \* POWER_SAMPLE_REBUILD_STABLE_INTERVAL_MS
  MaxInterval,        \* POWER_SAMPLE_REBUILD_MAX_INTERVAL_MS
  UnactionableFloor,  \* TIGHT_UNACTIONABLE_MIN_REBUILD_INTERVAL_MS
  MitigationHoldoff,  \* TIGHT_MITIGATION_HOLDOFF_MS
  NoopBackoff,        \* TIGHT_NOOP_BACKOFF_MS, by streak
  NoopBackoffMax,     \* TIGHT_NOOP_BACKOFF_MAX_MS
  MaxDeficit          \* bound: hard-cap deficit levels

ASSUME PolicyAssumption ==
  /\ MinInterval \in Nat /\ StableInterval \in Nat /\ MaxInterval \in Nat
  /\ UnactionableFloor \in Nat /\ MitigationHoldoff \in Nat /\ MaxDeficit \in Nat
  /\ NoopBackoff \in Seq(Nat) /\ NoopBackoffMax \in Nat
  /\ \A n \in DOMAIN NoopBackoff : NoopBackoff[n] <= NoopBackoffMax
  /\ MinInterval <= StableInterval /\ StableInterval < MaxInterval
  /\ UnactionableFloor < MaxInterval

\* The first streak past the table; every later one has the same backoff.
MaxStreak == Len(NoopBackoff) + 1

Samples ==
  {s \in [tight : BOOLEAN, deficit : 0..MaxDeficit, delta : BOOLEAN,
          converging : BOOLEAN, noShed : BOOLEAN, unactionable : BOOLEAN] :
     /\ s.deficit > 0 => s.tight        \* the pace is never above the hard-cap threshold
     /\ s.unactionable => s.noShed}

Outcomes == {"acted", "noop", "failed"}

\* The part of PowerSampleRebuildState the policy reads and writes.
RebuildStates ==
  [ran : BOOLEAN,                       \* lastMs # 0
   elapsed : 0..MaxInterval,            \* now - lastMs, saturated
   lastDeficit : 0..MaxDeficit,         \* lastHardCapDeficitKw; 0 = lastHardCapBreached false
   latch : BOOLEAN,                     \* shortfallSuppressionInvalidated
   tightUnactionable : BOOLEAN,
   streak : 0..MaxStreak,               \* tightNoopStreak, saturated where the delay is
   backoff : Nat,                       \* backoffUntilMs - now, 0 = not in the future
   holdoff : Nat]                       \* mitigationHoldoffUntilMs - now

NonNeg(n) == IF n > 0 THEN n ELSE 0
Larger(a, b) == IF a >= b THEN a ELSE b
Smaller(a, b) == IF a <= b THEN a ELSE b

MaxIntervalExceeded(r) == r.elapsed >= MaxInterval

\* policy.ts isUnactionableThrottleActive
ThrottleActive(s, r) == s.unactionable /\ ~s.converging /\ ~r.latch

\* policy.ts resolveTightUnactionable
TightUnactionable(s, short) ==
  s.unactionable /\ ~s.converging /\ (s.tight \/ short \/ s.deficit > 0)

HardCapShouldRebuild(s, r) ==
  /\ s.deficit > 0
  /\ \/ r.lastDeficit = 0
     \/ s.delta
     \/ s.deficit > r.lastDeficit
     \/ MaxIntervalExceeded(r)

BackoffActive(s, r, short) ==
  (s.tight \/ short) /\ ~s.delta /\ (r.backoff > 0 \/ r.holdoff > 0)

\* Mutant of ShouldRebuild: the backoff gate is asked before the hard-cap gate
ShouldRebuildBackoffFirst(s, r, short) ==
  \/ ~r.ran
  \/ ThrottleActive(s, r) /\ MaxIntervalExceeded(r)
  \/ /\ ~ThrottleActive(s, r) /\ ~BackoffActive(s, r, short)
     /\ \/ HardCapShouldRebuild(s, r)
        \/ s.tight \/ short \/ (s.converging /\ s.delta) \/ MaxIntervalExceeded(r)

\* policy.ts shouldRebuildFromDecision, on the facts resolveRebuildDecision derives
ShouldRebuild(s, r, short) ==
  \/ ~r.ran
  \/ ThrottleActive(s, r) /\ MaxIntervalExceeded(r)
  \/ /\ ~ThrottleActive(s, r)
     /\ \/ HardCapShouldRebuild(s, r)
        \/ /\ ~BackoffActive(s, r, short)
           /\ s.tight \/ short \/ (s.converging /\ s.delta) \/ MaxIntervalExceeded(r)

IntentKind(s) == IF s.deficit > 0 THEN "hardCap" ELSE "signal"

\* resolveRebuildReason, as far as isTightReason tells reasons apart
TightReason(s, r, short) == r.ran /\ (short \/ s.deficit > 0 \/ s.tight)

\* signalDriven.ts resolveEffectiveSignalMinIntervalMs
EffectiveMinInterval(s, short) ==
  IF s.converging \/ s.tight \/ short \/ s.deficit > 0 THEN MinInterval ELSE StableInterval

\* Mutant of SkipUnrecoverable: the skip does not yield at the max interval
SkipUnrecoverableForever(s, r, short) == s.noShed /\ ~r.latch /\ short /\ ~s.converging

\* shortfallSuppression.ts shouldSkipUnrecoverableShortfallRebuild, with the flag
\* powerSamplePipeline.ts passes it (shouldSkipShortfallRebuildFromPlanSummary)
SkipUnrecoverable(s, r, short) ==
  s.noShed /\ ~r.latch /\ short /\ ~s.converging /\ ~MaxIntervalExceeded(r)

ResetNoopBackoff(r) == [r EXCEPT !.streak = 0, !.backoff = 0, !.holdoff = 0]

\* shortfallSuppression.ts resetShortfallSuppressionInvalidationWhenRecovered
ResetLatchWhenRecovered(r, short) == IF short THEN r ELSE [r EXCEPT !.latch = FALSE]

\* powerDrivenScheduling.ts handleSkippedRebuildDecision
AfterSkip(s, r, short) ==
  LET calm == IF ~s.tight /\ ~short /\ s.deficit = 0 THEN ResetNoopBackoff(r) ELSE r
  IN  [calm EXCEPT
         !.lastDeficit = IF s.deficit = 0 THEN 0 ELSE @,
         !.tightUnactionable = TightUnactionable(s, short)]

\* The suppression part of stagePendingRebuildRequest
AfterStage(s, r, short) ==
  LET calm == IF s.delta \/ s.deficit > 0 THEN ResetNoopBackoff(r) ELSE r
  IN  [calm EXCEPT !.tightUnactionable = TightUnactionable(s, short)]

\* The due time stagePendingRebuildRequest gives a request, from now
StagedDue(s, r, short) ==
  IF s.deficit > 0 THEN 0 ELSE NonNeg(EffectiveMinInterval(s, short) - r.elapsed)

\* Mutant of BackoffOf: no fallback past the end of the table, so the stamp is no number
\* and never in the future
BackoffOfUnfilled(n) == IF n \in DOMAIN NoopBackoff THEN NoopBackoff[n] ELSE 0

\* policy.ts resolveTightNoopBackoffMs
BackoffOf(n) == IF n \in DOMAIN NoopBackoff THEN NoopBackoff[n] ELSE NoopBackoffMax

WithNoopBackoff(r, n) ==
  [r EXCEPT !.streak = n, !.backoff = BackoffOf(n), !.holdoff = 0]

\* powerDrivenScheduling.ts updateTightRebuildSuppression
AfterOutcome(r, tight, outcome) ==
  IF tight /\ outcome = "acted"
  THEN [ResetNoopBackoff(r) EXCEPT !.holdoff = MitigationHoldoff]
  ELSE IF tight /\ outcome = "noop"
  THEN WithNoopBackoff(r, IF r.streak < MaxStreak THEN r.streak + 1 ELSE MaxStreak)
  ELSE ResetNoopBackoff(r)

\* powerDrivenScheduling.ts settleAfterOvertakenRebuild
AfterOvertaken(r, tight, outcome) ==
  IF tight /\ outcome = "acted" THEN [r EXCEPT !.holdoff = MitigationHoldoff] ELSE r

\* powerDrivenScheduling.ts updateTightRebuildSuppressionAfterError
AfterError(r, tight) ==
  IF tight THEN WithNoopBackoff(r, IF r.streak = 0 THEN 1 ELSE r.streak)
  ELSE ResetNoopBackoff(r)

\* observationSuppression.ts invalidateRebuildSuppressionForObservation, but for the
\* sequence number (the module of the rebuilds keeps it)
AfterObservation(r) == [r EXCEPT !.latch = TRUE, !.streak = 0, !.backoff = 0]

\* One unit of time
Aged(r) ==
  [r EXCEPT !.elapsed = IF @ < MaxInterval THEN @ + 1 ELSE MaxInterval,
            !.backoff = NonNeg(@ - 1),
            !.holdoff = NonNeg(@ - 1)]
=============================================================================
