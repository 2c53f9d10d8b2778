----------------------------- MODULE AreaBundle -----------------------------
(***************************************************************************)
(* The capacity bundle of one area (setup/homeRuntime/), as the queue of    *)
(* plan rebuilds its plan service serves one at a time                      *)
(* (lib/plan/planService.ts, lib/plan/planServiceRebuild.ts).  Rebuilds are *)
(* asked for by the settings and the power lane ("other"), the clock of a   *)
(* silent meter ("heartbeat"), the edge on which membership becomes ready   *)
(* ("edge"), the recovery of the power source ("recovery") and the two      *)
(* steps of an ownership generation ("prepare", "generation").              *)
(*                                                                         *)
(* Between a rebuild's begin, the end of its build and its write, samples   *)
(* arrive, the ownership map changes, the power source becomes unreadable,  *)
(* devices are observed, other rebuilds are queued and the bundle is torn   *)
(* down.  The signature of a plan is committed whether or not the plan is   *)
(* applied, so a write that a fence refused is applied by a later rebuild   *)
(* or by none.  One device stands for those of the area, the user has       *)
(* turned dry run off, and a promise of the queue settles together with its *)
(* continuation.                                                            *)
(***************************************************************************)
EXTENDS Integers, Sequences

CONSTANTS
  MaxRev,    \* bound: samples that arrive
  MaxQueue,  \* bound: rebuilds in the queue
  None       \* no reading yet

ASSUME BundleAssumption == MaxRev \in Nat /\ MaxQueue \in Nat \ {0} /\ None \notin Nat

\* The rebuilds that hold the prepared-sample fence
Prepared == {"edge", "recovery", "generation"}

VARIABLES
  queue,          \* planOperationQueue: [by, rev], the head is served
  run,            \* the head's progress: [phase, dry, moved, blind]
  outstanding,    \* why the last plan's write is not done: "none", "fenced", "declined", "failed"
  sample,         \* sampleRevision, completedSampleRevision, and the revision being ingested or 0
  reading,        \* the revision of the reading the tracker serves; 0 is one from before the start
  tree,           \* a zone tree is committed
  gen,            \* the ownership generation: "settled", "pending", "preparing", "applying"
  authorized,     \* the power source reads as homey_energy
  torn,           \* tornDown
  seen,           \* membershipReadySeen
  edgeTimer,      \* membershipReadyApplyRetry is armed
  recoveryTimer,  \* sourceActuationRetry is armed
  stale,          \* the reading is older than POWER_SAMPLE_STALE_SHED_TIMEOUT_MS
  escalated,      \* escalatedForTs is the reading's
  shed            \* history: a plan that may be applied was built on the stale reading

gates     == <<tree, gen, authorized, torn>>
timers    == <<seen, edgeTimer, recoveryTimer>>
freshness == <<stale, escalated, shed>>
vars      == <<queue, run, outstanding, sample, reading, gates, timers, freshness>>

Op ==
  [by : {"other"}, rev : {0}]
  \cup [by : Prepared \cup {"heartbeat", "prepare"}, rev : 0..MaxRev]

Idle == [phase |-> "idle", dry |-> FALSE, moved |-> FALSE, blind |-> FALSE]

TypeOK ==
  /\ queue \in Seq(Op) /\ Len(queue) <= MaxQueue
  /\ run \in [phase : {"idle", "build", "apply"}, dry : BOOLEAN, moved : BOOLEAN, blind : BOOLEAN]
  /\ run # Idle => queue # <<>>
  /\ outstanding \in {"none", "fenced", "declined", "failed"}
  /\ sample \in [rev : 0..MaxRev, done : 0..MaxRev, loop : 0..MaxRev]
  /\ sample.done <= sample.rev /\ sample.loop <= sample.rev
  /\ reading \in {None} \cup 0..MaxRev
  /\ tree \in BOOLEAN /\ gen \in {"settled", "pending", "preparing", "applying"}
  /\ authorized \in BOOLEAN /\ torn \in BOOLEAN
  /\ seen \in BOOLEAN /\ edgeTimer \in BOOLEAN /\ recoveryTimer \in BOOLEAN
  /\ stale \in BOOLEAN /\ escalated \in BOOLEAN /\ shed \in BOOLEAN

\* isSubHomeExecutionReady
Ready == tree /\ gen \in {"settled", "applying"}

\* getStableSampleRevision
Pending(s) == s.done # s.rev
Stable(rev) == ~Pending(sample) /\ sample.rev = rev

Init ==
  /\ queue = <<>> /\ run = Idle /\ outstanding = "none"
  /\ sample = [rev |-> 0, done |-> 0, loop |-> 0] /\ reading \in {None, 0}
  /\ tree \in BOOLEAN /\ gen \in {"settled", "pending"}
  /\ authorized = TRUE /\ torn = FALSE
  /\ seen = Ready /\ edgeTimer = FALSE /\ recoveryTimer = FALSE
  /\ stale = FALSE /\ escalated = FALSE /\ shed = FALSE
-----------------------------------------------------------------------------
(* Gates and fences                                                          *)

\* Mutant of Superseded: one slot, which the last prepared rebuild takes over
SupersededLast ==
  LET begun == {i \in DOMAIN queue : queue[i].by \in Prepared}
  IN \E i \in begun : (\A j \in begun : j <= i) /\ ~Stable(queue[i].rev)

\* preparedSampleFence.isSuperseded: any prepared rebuild in the queue keeps the fence
Superseded == \E i \in DOMAIN queue : queue[i].by \in Prepared /\ ~Stable(queue[i].rev)

\* getCapacityDryRun of the bundle's scope
DryRun == torn \/ ~Ready \/ ~authorized

\* isActuationFenced, asked at every write
Fenced == DryRun \/ Superseded

\* isMeterSourceAuthorizedForExecution schedules the recovery when it is asked in vain
ArmsAtRead == ~torn /\ Ready /\ ~authorized
ArmsAtWrite == ArmsAtRead /\ ~Superseded

\* shouldAbort of a prepared rebuild, or isSourceRecoveryCurrent
Current(op) ==
  /\ ~torn /\ Stable(op.rev)
  /\ op.by = "recovery" => Ready /\ authorized

\* rebuildPlanFromCache: with no reading the rebuild is gated and never queued
Gated == reading = None

Enqueued(op) == queue' = Append(queue, op) /\ Len(queue') <= MaxQueue
-----------------------------------------------------------------------------
(* The end of a rebuild and what its client makes of the outcome             *)

\* Mutant of Recovered: an aborted rebuild has applied nothing
RecoveredUnlessFailed(op, outcome, flush) == outcome # "failed" /\ flush

\* applySourceRecovery
Recovered(op, outcome, flush) == outcome = "built" /\ Current(op) /\ flush

\* applyMembershipReadyPlan: "complete"
Complete(op, outcome, flush) == outcome = "built" /\ Stable(op.rev) /\ flush

\* Mutant of Latches: a dry run sheds nothing
LatchesDry(op, outcome) == outcome = "built" /\ reading = op.rev

\* maybeEscalate: this stale period is served
Latches(op, outcome) == outcome = "built" /\ ~run.dry /\ reading = op.rev

\* beginPreparedOwnershipGenerationApplication, once prepareOwnershipGeneration and Main's
\* own rebuild are done
MayApply(op, outcome) ==
  gen = "preparing" /\ outcome = "built" /\ ~torn /\ Stable(op.rev)

\* The head ends with an outcome; arms says whether the rebuild armed the source recovery.
\* flush is the answer of flushDeferredShortfallSideEffect, and others whether Main and the
\* other areas let the generation go on.
Ends(outcome, arms) ==
  \E flush, others \in IF Head(queue).by \in {"other", "heartbeat"} THEN {TRUE} ELSE BOOLEAN :
    LET op == Head(queue)
        applies == op.by = "prepare" /\ others /\ MayApply(op, outcome)
        applied == op.by = "generation" /\ ~torn /\ Complete(op, outcome, flush)
        retries == op.by = "edge" /\ ~torn /\ ~Complete(op, outcome, flush)
    IN /\ run' = Idle
       /\ queue' = IF applies THEN Append(Tail(queue), [by |-> "generation", rev |-> op.rev])
                   ELSE Tail(queue)
       /\ gen' = IF op.by = "prepare" /\ gen = "preparing"
                 THEN IF applies THEN "applying" ELSE "pending"
                 ELSE IF op.by = "generation" /\ gen = "applying"
                 THEN IF applied /\ others THEN "settled" ELSE "pending"
                 ELSE gen
       /\ seen' = IF retries THEN FALSE ELSE (seen \/ (applied /\ Ready))
       /\ edgeTimer' = (edgeTimer \/ (retries /\ Ready))
       /\ recoveryTimer' =
            \/ recoveryTimer \/ arms
            \/ applies /\ ~authorized
            \/ op.by = "recovery" /\ ~torn /\ ~Recovered(op, outcome, flush)
       /\ escalated' = (escalated \/ (op.by = "heartbeat" /\ Latches(op, outcome)))
       /\ UNCHANGED <<sample, reading, tree, authorized, torn, stale>>
-----------------------------------------------------------------------------
(* The steps of a rebuild                                                    *)

\* performPlanRebuild reads the dry run and captures the observation revision.
Begin ==
  /\ run = Idle /\ queue # <<>>
  /\ Head(queue).by \in Prepared => Current(Head(queue))
  /\ run' = [phase |-> "build", dry |-> DryRun, moved |-> FALSE, blind |-> stale /\ ~DryRun]
  /\ recoveryTimer' = (recoveryTimer \/ ArmsAtRead)
  /\ UNCHANGED <<queue, outstanding, sample, reading, gates, seen, edgeTimer, freshness>>

\* shouldAbort at the point of use; the outcome reads the dry run
Abort ==
  /\ run = Idle /\ queue # <<>>
  /\ Head(queue).by \in Prepared /\ ~Current(Head(queue))
  /\ Ends("aborted", ArmsAtRead)
  /\ UNCHANGED <<outstanding, shed>>

\* A rebuild throws, before its plan is committed or after.
BuildFails ==
  /\ run.phase = "build"
  /\ outstanding' \in {outstanding, "failed"}
  /\ Ends("failed", FALSE)
  /\ UNCHANGED shed

\* executePlanRebuild once the plan is built: changed says whether its signature differs
\* from the last plan's, or it has stable actions, and wants whether a device then differs
\* from it.  shouldApplyPlan
Wants(changed, wants) == IF changed THEN wants ELSE outstanding # "none"
Applies(changed) == ~run.dry /\ (changed \/ ~run.moved)

\* The plan is committed and applied, by the write that follows.
BuildApplies(changed, wants) ==
  /\ run.phase = "build"
  /\ Wants(changed, wants) /\ Applies(changed)
  /\ run' = [run EXCEPT !.phase = "apply"]
  /\ shed' = (shed \/ run.blind)
  /\ UNCHANGED <<queue, outstanding, sample, reading, gates, timers, stale, escalated>>

\* The plan is committed, and nothing is to be done or it is not applied.
BuildCommits(changed, wants) ==
  /\ run.phase = "build"
  /\ ~(Wants(changed, wants) /\ Applies(changed))
  /\ outstanding' = IF ~Wants(changed, wants) THEN "none"
                    ELSE IF run.dry THEN "fenced" ELSE "declined"
  /\ shed' = (shed \/ run.blind)
  /\ Ends("built", FALSE)

\* applyPlanActions: the actuator refuses what is fenced, and the executor logs a write
\* that fails.
Write(succeeds) ==
  /\ run.phase = "apply"
  /\ outstanding' = IF Fenced THEN "fenced" ELSE IF succeeds THEN "none" ELSE "failed"
  /\ Ends("built", ArmsAtWrite)
  /\ UNCHANGED shed

\* A device is observed while a plan that a write may be left for is built.
Observe ==
  /\ run.phase = "build" /\ ~run.dry /\ outstanding # "none"
  /\ run' = [run EXCEPT !.moved = TRUE]
  /\ UNCHANGED <<queue, outstanding, sample, reading, gates, timers, freshness>>
-----------------------------------------------------------------------------
(* The clients                                                               *)

\* Mutant of ApplyEdge: the sample that is pending will try the edge when it settles
ApplyEdgeWaits(timer, ready, s) ==
  IF torn \/ seen \/ ~ready \/ Pending(s)
  THEN edgeTimer' = timer /\ UNCHANGED <<queue, seen, recoveryTimer>>
  ELSE /\ recoveryTimer' = (recoveryTimer \/ ~authorized)
       /\ seen' = ~Gated /\ edgeTimer' = Gated
       /\ IF Gated THEN UNCHANGED queue ELSE Enqueued([by |-> "edge", rev |-> s.rev])

\* applyMembershipReadyEdge, once ready and sample are s; timer says whether a retry is armed
ApplyEdge(timer, ready, s) ==
  IF torn \/ seen \/ ~ready
  THEN edgeTimer' = timer /\ UNCHANGED <<queue, seen, recoveryTimer>>
  ELSE IF Pending(s)
  THEN edgeTimer' = TRUE /\ UNCHANGED <<queue, seen, recoveryTimer>>
  ELSE /\ recoveryTimer' = (recoveryTimer \/ ~authorized)
       /\ seen' = ~Gated /\ edgeTimer' = Gated
       /\ IF Gated THEN UNCHANGED queue ELSE Enqueued([by |-> "edge", rev |-> s.rev])

\* The membership-ready retry fires.
EdgeRetries ==
  /\ edgeTimer
  /\ ApplyEdge(FALSE, Ready, sample)
  /\ UNCHANGED <<run, outstanding, sample, reading, gates, freshness>>

\* recompute commits the first zone tree: onMembershipReady.
TreeCommits ==
  /\ ~tree /\ tree' = TRUE
  /\ ApplyEdge(edgeTimer, gen = "settled", sample)
  /\ UNCHANGED <<run, outstanding, sample, reading, gen, authorized, torn, freshness>>

\* installHomeCapacityBundleSourceRecovery: apply; until it can, it schedules itself again
Recover ==
  /\ recoveryTimer /\ Ready /\ authorized /\ ~Pending(sample) /\ ~Gated
  /\ recoveryTimer' = FALSE
  /\ Enqueued([by |-> "recovery", rev |-> sample.rev])
  /\ UNCHANGED <<run, outstanding, sample, reading, gates, seen, edgeTimer, freshness>>

\* maybeEscalate: a tick of the clock
Escalate ==
  /\ stale /\ ~escalated /\ authorized /\ ~torn
  /\ \A i \in DOMAIN queue : queue[i].by # "heartbeat"
  /\ Enqueued([by |-> "heartbeat", rev |-> reading])
  /\ UNCHANGED <<run, outstanding, sample, reading, gates, timers, freshness>>

\* A rebuild after a settings change, a sample, or the bundle's creation
Request ==
  /\ ~torn
  /\ \A i \in DOMAIN queue : queue[i].by # "other"
  /\ IF Gated THEN UNCHANGED queue ELSE Enqueued([by |-> "other", rev |-> 0])
  /\ recoveryTimer' = (recoveryTimer \/ ArmsAtRead)
  /\ UNCHANGED <<run, outstanding, sample, reading, gates, seen, edgeTimer, freshness>>

\* observeOwnershipConfigurationChanged
OwnershipChanges ==
  /\ ~torn /\ gen # "pending" /\ gen' = "pending"
  /\ UNCHANGED <<queue, run, outstanding, sample, reading, tree, authorized, torn, timers, freshness>>

\* prepareOwnershipGeneration.  The next attempt waits for the last one.
Prepare ==
  /\ ~torn /\ tree /\ gen = "pending" /\ ~Pending(sample) /\ ~Gated
  /\ \A i \in DOMAIN queue : queue[i].by \notin {"prepare", "generation"}
  /\ gen' = "preparing"
  /\ Enqueued([by |-> "prepare", rev |-> sample.rev])
  /\ UNCHANGED <<run, outstanding, sample, reading, tree, authorized, torn, timers, freshness>>

\* With no reading both rebuilds are gated, and the generation goes on all the same.
PrepareGated ==
  /\ ~torn /\ tree /\ gen = "pending" /\ ~Pending(sample) /\ Gated
  /\ seen' = TRUE /\ gen' \in {"settled", "pending"}
  /\ recoveryTimer' = (recoveryTimer \/ ~authorized)
  /\ UNCHANGED <<queue, run, outstanding, sample, reading, tree, authorized, torn,
                 edgeTimer, freshness>>
-----------------------------------------------------------------------------
(* Samples, the source, the clock and the teardown                           *)

\* The tracker serves a newer reading.
Ingested(rev) ==
  /\ reading' = rev
  /\ stale' = FALSE /\ escalated' = FALSE /\ shed' = FALSE
  /\ run' = [run EXCEPT !.blind = FALSE]

\* Mutant of Requested: the revision is bumped when the ingest is done
RequestedLate(s) == [s EXCEPT !.loop = IF @ = 0 THEN s.rev + 1 ELSE @]

\* recordPowerSample bumps the revision before the sample can wait.
Requested(s) == [s EXCEPT !.rev = @ + 1, !.loop = IF @ = 0 THEN s.rev + 1 ELSE @]

\* recordMeterSample: ingested at once, or when the sample before it is done
SampleArrives ==
  /\ ~torn /\ authorized /\ sample.rev < MaxRev
  /\ sample' = Requested(sample)
  /\ IF sample.loop = 0 THEN Ingested(sample.rev + 1) ELSE UNCHANGED <<run, reading, freshness>>
  /\ UNCHANGED <<queue, outstanding, gates, timers>>

\* runCoalescedPowerSamples: the ingest is done, and a request that came meanwhile is next
SampleCoalesces ==
  /\ sample.loop \in 1..(sample.rev - 1)
  /\ sample' = [sample EXCEPT !.done = sample.loop, !.loop = sample.rev]
  /\ Ingested(sample.rev)
  /\ UNCHANGED <<queue, outstanding, gates, timers>>

\* The last one is done, and recordMeterSample tries the edge again.
SampleSettles ==
  /\ sample.loop > 0 /\ sample.loop = sample.rev
  /\ sample' = [sample EXCEPT !.done = sample.loop, !.loop = 0]
  /\ ApplyEdge(edgeTimer, Ready, sample')
  /\ UNCHANGED <<run, outstanding, reading, gates, freshness>>

\* An ingest throws: the requests that wait are dropped, and no revision completes.
SampleFails ==
  /\ sample.loop > 0 /\ ~torn
  /\ sample' = [sample EXCEPT !.loop = 0]
  /\ UNCHANGED <<queue, run, outstanding, reading, gates, timers, freshness>>

\* A read of the power source begins or ceases to fail.
SourceChanges ==
  /\ ~torn /\ authorized' = ~authorized
  /\ UNCHANGED <<queue, run, outstanding, sample, reading, tree, gen, torn, timers, freshness>>

\* Ten minutes pass without a sample.
GoesStale ==
  /\ ~Gated /\ ~stale /\ ~torn /\ stale' = TRUE
  /\ UNCHANGED <<queue, run, outstanding, sample, reading, gates, timers, escalated, shed>>

\* teardown
TearDown ==
  /\ ~torn /\ torn' = TRUE
  /\ edgeTimer' = FALSE /\ recoveryTimer' = FALSE
  /\ UNCHANGED <<queue, run, outstanding, sample, reading, tree, gen, authorized, seen, freshness>>

Serve ==
  \/ Begin \/ Abort \/ BuildFails
  \/ \E changed, wants \in BOOLEAN : BuildApplies(changed, wants) \/ BuildCommits(changed, wants)
  \/ \E succeeds \in BOOLEAN : Write(succeeds)

Next ==
  \/ Serve
  \/ Observe \/ EdgeRetries \/ TreeCommits \/ Recover \/ Escalate \/ Request
  \/ OwnershipChanges \/ Prepare \/ PrepareGated
  \/ SampleArrives \/ SampleCoalesces \/ SampleSettles \/ SampleFails
  \/ SourceChanges \/ GoesStale \/ TearDown

Spec == Init /\ [][Next]_vars

\* The queue is served and the timers fire.  MaxQueue may close a timer's step for a while,
\* which the code does not.
FairSpec == Spec /\ WF_vars(Serve) /\ SF_vars(EdgeRetries) /\ SF_vars(Recover) /\ SF_vars(Escalate)
-----------------------------------------------------------------------------
(* What must hold                                                            *)

\* A write of a prepared rebuild follows a plan built from the newest sample: none has
\* arrived since the rebuild was prepared, however the prepared rebuilds overlap.
PreparedWritesCurrent ==
  [][run.phase = "apply" /\ run'.phase = "idle" /\ outstanding' # "fenced"
       /\ Head(queue).by \in Prepared
     => Stable(Head(queue).rev)]_vars

\* A write that a gate or a fence refused is not forgotten.  Its signature is committed, so
\* no later plan need bring it back: once the queue is empty and the area may be
\* controlled, a retry is armed.
RefusedHasRetry ==
  outstanding = "fenced" /\ queue = <<>> /\ Ready /\ ~torn => edgeTimer \/ recoveryTimer

\* No area waits for a step that nobody will take.  A generation that is prepared or applied
\* has its rebuild in the queue, and an area whose gates are open has seen its first plan
\* asked for or will try again, however samples, ownership changes and failed rebuilds meet.
AreaIsServed ==
  ~torn =>
    /\ gen = "preparing" => \E i \in DOMAIN queue : queue[i].by = "prepare"
    /\ gen = "applying" => \E i \in DOMAIN queue : queue[i].by = "generation"
    /\ tree /\ gen = "settled" => seen \/ edgeTimer

\* The clock of a silent meter rests only after a plan that may be applied was built on
\* that very silence, whichever rebuilds fail, run dry or are overtaken by a sample.
EscalatedIsShed == escalated => stale /\ shed

\* composedPlanEngine.ts:121: a rebuild declines because the observer moved, and the
\* observation's own rebuild decides again.
DeclinedIsRedecided == outstanding = "declined" ~> (outstanding # "declined" \/ torn)
=============================================================================
