# A TLA+ model of PELS capacity control

PELS runs on a Homey hub. It watches the whole-home power reading and limits managed devices so that the hourly
consumption stays under a hard cap. The specifications here model the part of the app that decides *when* a plan
is rebuilt, how the rebuilds of one area wait, abort and write behind its fences, what happens when nothing is
left to limit (the shortfall incident, its persisted copies and its Flow alerts), how the on and off commands of
one device are issued and confirmed, and how a device the user turned off is left off. They are checked with TLC
on small instances; the central safety properties are also proved with TLAPS for every value of the constants.

Contents: [the system](#the-system), [the modules](#the-modules-and-the-code), [the runs](#the-runs),
[fairness](#fairness), [proofs](#proofs), [disagreements](#disagreements-between-the-code-and-its-words),
[what is not modelled](#what-is-not-modelled), [plan](#plan).

## The system

The app is one Node.js process. One handler runs at a time; what makes it concurrent is that handlers
suspend at every `await`, and that timers, device observations, flow cards, polls and settings changes run
in between. A home with sub-homes has one control loop per meter, sharing the process.

| Part | State it keeps | Operations | Talks to |
| --- | --- | --- | --- |
| Power sources (`lib/power/sources`) | poll generation, interval, retry | start, stop, poll | sample loop |
| Sample loop (`setup/powerSamplePipeline.ts`) | running loop, rerun flag, newest request, revisions | `recordPowerSample` | tracker, rebuild policy, membership |
| Tracker and ingest (`lib/power`) | latched total, hourly buckets, freshness | record, persist, escalate when stale | everyone, by reading |
| Rebuild policy (`lib/plan/rebuildScheduler/policy.ts` and neighbours) | `PowerSampleRebuildState`: last rebuild, backoff, holdoff, latch, streak | decide, skip, stage, settle, invalidate | scheduler, guard |
| Rebuild scheduler (`scheduler.ts`, `setup/planRebuildIntentPolicy.ts`) | active intent, one waiting intent, timer | `request`, dispatch, completion, `cancelAll` | plan service |
| Plan service, builder, shedding, restore, swaps (`lib/plan`) | operation queue, plan state, latches per device | rebuild, abort, apply | guard, executor, gate |
| Capacity guard (`lib/power/capacityGuard.ts`) | `inShortfall`, incident, recovery clock | `checkShortfall` by plan builds and by samples | gate, alerts |
| Shortfall gate and executor (`setup/capacityShortfallSideEffectGate.ts`, `lib/executor/shortfallExecutor.ts`) | deferred transition, hold, retry, side-effect latch, the setting `capacity_in_shortfall` | enter, clear, flush, hold | settings, plan state |
| Shortfall alerts (`setup/capacityShortfallAlertDispatch.ts`) | put-off alert; run, steps, high-water mark | candidate, condition cleared, incident cleared, retry, tick | Flow cards |
| Membership and authority (`setup/homeMembership.ts`, `setup/appInit/wireHomeMembership.ts`) | ownership generation, fences, prepared attempts | recompute, prepare, apply, abort | gate, alerts, plan service |
| Area bundles (`setup/homeRuntime`, `powerSampleFreshnessEscalation.ts`) | teardown, readiness edge, source recovery, prepared-sample fence, stale period served | create, sample, apply edge, recover, prepare, escalate, tear down | sample loop, plan service, membership |
| Observer (`lib/observer`) | pending commands, observed state | dispatch, accept, confirm, time out | executor, rebuild policy |
| External-off holds (`lib/observer/externalOffHold.ts`, its adapter and detection in `setup`) | holds and tombstones, windows, the settings `external_off_holds` and its marker, last good opt-in map | start, clear, ask, sweep, reload, save | settings, observer, planner |
| Binary lane (`lib/executor/binaryCommandClaim.ts`, `binaryControlDispatch.ts`, `lifecycleFallbackDispatcher.ts`) | claim and waiter per device, authority tokens, released opposing commands | claim, dispatch, release, converge, abandon | observer, transport, smart tasks |
| Executor, actuator, device transport | commands, snapshots | apply a plan, refresh | Homey devices |
| Daily budget, smart tasks, prices, solar, weather, diagnostics, UI | models, histories | numeric planning, presentation | plan builder |

`PROJECT.json` lists every part with its files and status.

What is hard here, and what correctness means:

* **The rebuild loop.** Samples arrive every few seconds and a build takes over a second, so there are
  five suppressions (unactionable throttle, unrecoverable-shortfall skip, noop backoff, mitigation holdoff,
  execution floor), each installed and lifted by different events. The request a caller waits on lives in
  one module and the intent that stands for it in another. A device observation may land while a build
  reads the devices. *Correct*: no wakeup lost, slot and request agree, one power rebuild at a time, every
  caller answered, an unwinnable home never rebuilt faster than its floor, rebuilds that change nothing
  further and further apart, a growing breach never passed over by a backoff, an observation never spent by a rebuild that did not see it, rebuilding never
  suppressed for good.
* **The shortfall incident.** The guard latches and emits a transition once. Between it and the persisted
  setting are a fence that may close at any time, a failing setting write, a flush that ends late, a
  prepared attempt that takes the transition away from the retry, a plan builder that writes the same
  latch from an older reading, and shutdown. Two callers check the guard and interleave at its await.
  *Correct*: no transition lost, none past a fence, an incident ended only by a measured sustained
  recovery, and the setting following in the end.
* **The alerts.** Flow triggers stay pending across the end of their run or incident, are rejected, and are
  put off by a fence. *Correct*: one immediate alert per incident, no threshold reported before its time,
  none marked as reported that was not, all of them reported in a breach that lasts.
* **The rebuilds of an area.** A rebuild is asked for on one state, waits in a queue, reads the gates at its
  begin, builds over an await and writes over more; samples, ownership generations, the power source, devices
  and teardown move in between. Three prepared clients put the same fence around their rebuilds and overlap.
  The signature of a plan is committed although a fence refuses its write. *Correct*: a prepared rebuild
  writes only on the newest sample, a refused write keeps someone who will retry it, the clock of a silent
  meter does not rest before a plan was built on the silence.
* **Devices left off.** A hold must outlive restarts, while the settings service throws, answers empty or
  takes half a save, and while the user and PELS turn devices on and off. *Correct*: what was stored stays
  held until it ends, what has ended does not come back, what was started is stored at last.
* **The commands of a device.** A command, its answer by the transport and its confirmation by telemetry are
  three events in any order: the echo may come before the acceptance, be contradicted in between, or not
  come at all. The plan executor and the fallback that turns a device off at the end of its smart task write
  the same device. *Correct*: a command is credited only on evidence about itself, and an on command that is
  on its way when the fallback takes over is followed by an off command.

## The modules and the code

An action is one synchronous stretch of code, up to its next `await`. Times are relative, so no clock
bounds the state space: where the code keeps an absolute stamp and compares it with now, the model keeps
the time since or until it, saturated where the code stops telling values apart. That saturation is the
model's own and no bug of the code could break it, so the type invariants of `PlanRebuild`, `Shortfall`,
`ExternalOffHold` and `BinaryCommands`, which say little else, are proved (`TypeCorrect`) and in no run.

| Module | Models | Extends / uses |
| --- | --- | --- |
| `RebuildPolicy` | the pure decisions: `policy.ts`, `shortfallSuppression.ts`, `observationSuppression.ts`, the state updates of `powerDrivenScheduling.ts`, the interval of `signalDriven.ts` | |
| `PlanRebuild` | the sample loop, the scheduler and its due times, the power-driven rebuild, flow cards, observations, shutdown | extends `RebuildPolicy`, instantiates `RebuildPromise` |
| `RebuildPromise` | what a caller of `recordPowerSample` is promised: the abstract specification | |
| `MCPlanRebuild` | the backoff table for TLC | extends `PlanRebuild` |
| `Shortfall` | guard, gate, executor, builder synchronisation, fences, prepared attempts, restart | instantiates `IncidentPromise` |
| `IncidentPromise` | what the readers of an incident are promised: abstract | |
| `ShortfallAlert` | both alert lanes | instantiates `AlertPromise` |
| `AlertPromise` | what a Flow listener is promised: abstract | |
| `BinaryCommands` | the binary command of one device: claim, dispatch, pending entry and its confirmation, the fallback lane | instantiates `CommandPromise` |
| `TimedCommands` | the same behind a transport that times out before the confirmation window ends | extends `BinaryCommands` |
| `CommandPromise` | what those who count on a command are promised: abstract | |
| `ExternalOffHold` | the hold policy, the settings it is kept in, the observations, plan cycles and restarts around it | |
| `AreaBundle` | the queue of rebuilds of one area with its gates, fences, prepared clients, samples and teardown | |
| `BinaryCommandProofs`, `RebuildPolicyProofs`, `PlanRebuildProofs`, `PlanRebuildSteps`, `ShortfallProofs`, `ShortfallAlertProofs`, `ExternalOffHoldProofs`, `AreaBundleProofs` | theorems | extend the module they prove about |

**`RebuildPolicy`.** A sample is a record of the facts the policy compares: headroom tight, level of the
hard-cap deficit (0 is no breach), meaningful delta, converging, no sheddable load left, unactionable.
Watts, ratios and trigger names are gone: `resolveRebuildReason` survives as `TightReason`, the only thing
anyone asks of it. `RebuildStates` is the part of `PowerSampleRebuildState` that outlives a request;
`elapsed`, `backoff` and `holdoff` stand for `lastMs`, `backoffUntilMs` and `mitigationHoldoffUntilMs`. The
streak saturates at the first one past the table, where `BackoffOf` answers the maximum for good.

**`PlanRebuild`.** `active`, `pending` and `timer` are the scheduler's fields, `staged` the `pending*`
fields with their promise, `flight` the rebuild that took them, `loop` the position of
`runCoalescedPowerSamples`. `FirstSample`/`RerunSample` decide on a sample: `SkipSample` or `RequestRebuild`,
which stages and calls the scheduler's `request` (`Accept`, `Schedule`, `Start`). `TimerFires` asks for the
due time again, as `dispatchPendingIntent` does. `PowerRebuildReturns`, `AlertReturns` and `AlertRejects`
settle a rebuild and run the scheduler's `finally`; no other handler runs between those two. Shutdown
(`Uninit`) is `cancelAll` with the callback that resolves the waiting promise. The guard's latch is a
variable here that may move at any time (`GuardTransition`); `Shortfall` says how it moves.

**`Shortfall`.** `call` holds where each of the two callers of `checkShortfall` is and the total it came with.
`gate` is the gate's closure: the deferred transition, whether a flush has applied that object and has yet to
drop it (`landing`: the code's `deferred === entry` is false once another object took its place), and
whether the retry timer is armed. `planLatch`, `effect` and `persisted` are the three copies of the latch.
`calm` and `wrote` are history. `IncidentPromise` keeps only the incident, whether recovery was sustained, the authority
and what is shown. Time passes only between calls, because awaits of the guard's callbacks end
within a turn of the event loop, and the clock is read in seconds.

**`ShortfallAlert`.** The unit of time is one 10 s step of the sustained lane. A crossing is the window
`(from, to]` that the card's listener matches thresholds against. The run token of the code becomes `live`: a
pending call knows whether its run is still the newest. `alerts`, `unbroken`, `served` and `twice` are
history. `AlertPromise` has no timers, runs, retries or pending triggers: an immediate alert per incident and a mark that
climbs. What the guard publishes (`Candidate`, `ConditionClears`, `IncidentClears`) comes in any order the
guard's two callers can produce.

**`BinaryCommands`.** One device, TRUE for on. `entry` is the store's record with the time since `startedMs`,
`confirmation` the closure `deferConfirmation` keeps, and `write` the claim together with the promise of the
transport: both begin and end in one stretch of code. A write that times out counts as answered, as
`dispatchBinaryControlDecision` treats it. `Sweep` is one `syncPendingBinaryCommands` and may come at any time
after an observation; `Evict` is any reader of `get`. `authority`, `waiter` and `opposing` are the fallback's
token, its registration with the claim and `releasedOpposingCommands`. A release of the claim calls the waiter,
which converges at once: `WriteReturns` holds both. `OrdinaryRequest` is a command the planner asks for; whether
it asks is free. `GivesUp` stands for every ending of the fallback other than settled, with or without disarming
the task. `current` says that the observation is not older than the entry; `seen`, `confirmed` and `owed` are
history. `Phase` and `Value` are what `CommandPromise` sees of the store: the entry whose write is on its way, or the
accepted one.

**`ExternalOffHold`.** Holds are sets of devices. One synchronous call of the policy is one action, because the
code drives the reload of an unreadable state and the retry of a failed save from every read and write:
`Call` is `settleState`, the opt-out reconciliation, the change the call makes and its flush, and
`TurnedOff`, `TurnedOn`, `Ask`, `Sweep` and `Restart` are its callers. A call sees one answer of each kind from the
settings service: the holds are `read`, `unreadable` or `missing`; a save is `ok`, fails, or fails on the
`marker` after the holds were written. `grace` and `retry` are the times until `persistBlockedUntilMs` and
`nextReloadAtMs`. Whether a device is on is an input: `TurnedOn` and `Sweep` are what observing it on causes,
`TurnedOff` what an on-to-off push causes that no command of PELS accounts for. `begun`, `kept` and `ended`
are history.

**`AreaBundle`.** `queue` holds the rebuilds in the plan service's queue, each with the client that asked and the
sample revision it was prepared on; `run` is the progress of the head: the dry run it read at its begin and
whether the observer moved since. `Begin`, `Abort`, `BuildFails`, `BuildApplies`, `BuildCommits` and `Write` are
`rebuildPlanFromCache` and `performPlanRebuild` cut at their awaits. `Ends` is the end of a rebuild with the
continuation of the client that awaits it: the readiness edge re-arms, the recovery schedules itself again,
the generation is applied, settled or aborted, the clock of a silent meter latches. The prepared-sample fence is no
variable: a handle is held exactly while a prepared rebuild is queued, so `Superseded` reads the queue.
`outstanding` says why the write of the last committed plan is not done. `sample` is the pipeline's two
revisions and its loop. One device stands for the area's, `shouldApplyStablePlanActions` is part of a changed
plan, and Main's own rebuild and flush of a generation are the input `others`.

Each property a run checks has a mutant: an operator next to the original, named for the bug it has (a dropped guard, a
missing reset, a wrong order), that TLC must reject for that property.

## The runs

| Run | Instance | Shows |
| --- | --- | --- |
| `PlanRebuild` | unit 5 s: intervals 1/3/6, floor and holdoff 3, backoffs 3/6/12 and 24 past them, two deficit levels, flow window and cooldown 1; 52 k states | all invariants, step properties and liveness of the loop, that a waiting power rebuild is never put off, that rebuilds that change nothing are paced by their streak, and that it implements `RebuildPromise` |
| `FlowWindowZero` | the same with the flow window 0, as the tests have it; 100 k states | flow rebuilds execute, power requests wait behind them, and both are served |
| `FlowRebuild` | the instance of `PlanRebuild` | a sentence of the code's comments that it does not keep |
| `Shortfall` | sustain 2; 36 k states | no transition lost, fences respected, recovery sustained, the setting follows; it implements `IncidentPromise` |
| `ShortfallReading` | the same | the persisted reading after a restart |
| `ShortfallAlert` | 2 steps, stale after 1, 2 incidents, 1 pending trigger; 121 k states | one immediate alert, no threshold burnt, none early, all in the end, no lane without a timer; it implements `AlertPromise` |
| `ThresholdOnce` | the same | a threshold alerted twice |
| `BinaryCommands` | `TimedCommands`; unit 30 s: transport timeout 1, window 3; 360 states | commands credited on their own evidence only, an off command after an on command the fallback waited for, no task settled between the two; it implements `CommandPromise` |
| `FallbackEndsOff` | the same | a task that ends as settled while an on command is unconfirmed |
| `ExternalOffHold` | two devices, grace 3, retry 2; 38 k states | stored holds held, ended holds over, new holds stored, no change without a save to come, over failing reads and saves and restarts |
| `AreaBundle` | 2 samples, 2 queued rebuilds; 790 k states | prepared writes current, refused writes retried, silence escalated until it is planned on, no area with a reading left unserved |
| `DeclinedRedecided` | the same, 1 sample | a declined write that nothing decides again |

Why the bounds are enough:

* `PlanRebuild` keeps the order and, up to the unit, the ratios of the code's times (5 s minimum, 15 s
  stable, 30 s maximum interval, 15 s floor and holdoff, backoffs of 15, 30, 60 and 120 s), so that the first backoff ends before the maximum
  interval, the second with it, and the others, the one past the table among them, outlast it. Flow windows
  of 1 s are one unit: the shortest time that is not zero. Two deficit levels give a breach that grows. No
  counter is bounded other than by saturation.
* With the production window a flow rebuild never starts (disagreement 1), so `FlowRebuildReturns` is
  unreachable there; `FlowWindowZero` is the instance in which a flow rebuild is the active intent.
* `Shortfall` has no bound but the sustain; 2 units suffice for a clock that starts, runs and completes
  with a relapse, a missing reading or another incident in between. The safety theorems hold for any.
* In `ShortfallAlert` two steps are the fewest for a window that spans two thresholds, and two incidents the
  fewest for a call left over from another one. The safety properties also hold with three steps, evidence
  stale after two, and two pending triggers (7.5 M states, too long to run every time).
* `BinaryCommands` has the code's ratio of timeout and window (30 s and 90 s) and no bound but the window, at
  which ages saturate. One device suffices: claims, entries and tokens are keyed by device.

* In `ExternalOffHold` two devices are the fewest for a save about one that could erase the hold of the other.
  The code's grace is 5 minutes and its retry 10 s; 3 and 2 give a reload before the grace is over and one after it. The
  safety theorems hold for any.
* In `AreaBundle` two samples give a loop with a request waiting behind the one being ingested, and a queue of two a
  prepared rebuild behind another, which is all the fence's reference count tells apart. The theorems hold for any
  number of samples and queued rebuilds.

Deadlock is checked in every run but `AreaBundle`, whose samples are bounded and whose area may be torn down for
good; the other systems do not stop, since time passes.

## Fairness

* Timers that are due fire and time passes: `setTimeout`.
* A plan build returns: `rebuildPlanFromCache` turns a failing build into an outcome. A guard callback
  resolves or rejects. The microtasks of the sample loop run.
* `PlanRebuild` obliges no sample, card or observation to arrive; `NeverSilenced` assumes samples in its own
  premise.
* In `Shortfall` plan builds continue (the periodic rebuild), a setting write that is tried for ever
  succeeds at last (strong fairness), and the ownership recovery prepares again while a transition is held,
  as `wireHomeMembership.ts` reschedules after each failed attempt. That the membership fence stays open is
  a premise of the property and not assumed: nothing in the code forces zone data or a meter to appear.
* In `ShortfallAlert` Homey answers every trigger, and accepts at last a crossing to a step it is offered for
  ever. The code has no timeout on a trigger. Candidates keep being offered to the lanes while an incident
  may open; that a breach lasts, and that no run of it goes unevidenced, is in the premise of `LadderServed`.
* In `BinaryCommands` the lifecycle clock ticks, the transport answers within its timeout (which `TimedCommands` has below the window), and an off command
  of the fallback that is repeated for ever is accepted at last (strong fairness). That the task's fallback
  gives up is allowed and ends the obligation.

* In `ExternalOffHold` time passes, and plan cycles recur while a save is pending (every plan sweeps the holds); one of
  them at last can read and write the settings. That the holds become readable is not assumed: the grace window ends.
* In `AreaBundle` the safety properties need no fairness. `DeclinedRedecided` assumes that the queue is served and
  timers fire; no sample, setting or escalation is owed to an area, which is what the run is about.

## Proofs

The constants are assumed only to be natural numbers in the order the code gives them (`PolicyAssumption`),
windows to be natural numbers and `None` not to be a time or a request (`SchedulerAssumption`), and the
sustain to be at least one unit (`ShortfallAssumption`; the code's is 60 s). `AlertAssumption` has a ladder of at least one
step and `None` not to be a time or an incident, `NoCallAssumption` `None` not to be a pending trigger. `CommandAssumption` says only that the times
of a write and of the window are natural numbers and `None` no value; `TransportAssumption`, in `TimedCommands`, has the transport time
out before the window ends, as the comment at `binaryControlDispatch.ts:189` says. `HoldAssumption` has a retry
that takes time and `None` not to be an opt-in map; `BundleAssumption` has a queue with room for one rebuild and `None` not to
be a revision. TLC evaluates these assumptions in the runs.

**The rebuild loop** (`PlanRebuildProofs`, `PlanRebuildSteps`). None of the invariants is inductive by itself:
that the timer is armed exactly while an intent waits (`WakeupArmed`) needs the slot to agree with the
staged request, which needs a rebuild in flight to exclude a staged one, and so on round. The inductive
invariant is their conjunction with the types: `SlotOK` (types of the scheduler's side, `WakeupArmed`,
`StagedHasIntent`, and the agreement of flight and active intent), `RestTypeOK` (the rest, with no noop
backoff under the latch), and that the loop waits exactly while a request is outstanding. The lemmas
`StartOK`, `ScheduleOK`, `AcceptOK` and `CompletionOK` say once what each scheduler operation preserves;
each action then cites the ones it calls. `RebuildPolicyProofs` does the same for the policy's operators.

From that invariant `PlanRebuildSteps` proves the step properties and the refinement:
`FloorAlwaysRespected`, `HardCapNeverLost`, `BreachAlwaysAnswered`, `ObservationNotSpent` and `KeepsPromise`
(every step of the loop is a step of `RebuildPromise` or a stutter). `PowerWaitsOnce`, that nothing moves the timer of a
waiting power intent away from now, needs a second invariant, `TimerDue`: the timer stands at the due time the intent
would be given if it were asked for again. It is inductive because the unwinnable floor, the only part of that due time
that ages, loses one unit with each unit that passes (`FloorAges`, `LargerAges`), and because no event outside a request or
a completion touches what the due time is computed from.

`NoopsKeepPace` needs a third, `PaceInv`: while a streak stands, the time since the last rebuild and what is left of the backoff
together reach the streak's pause, and a waiting request was staged when that pause, or the maximum interval, was over.
It is inductive because whatever resets the backoff before its end resets the streak with it, an observation that overtakes a
rebuild in flight included.

**The incident** (`ShortfallProofs`). The inductive invariant is the type invariant, `IncidentMirrored`,
`DeferredHasWakeup`, and two facts that make them inductive: while a flush is landing the executor already
shows the transition it will drop (`LandingOK`), and the recovery clock never runs ahead of the calm it
measures (`ClockOK`). `FlushOK` and `EmitOK` say once what a flush and an emission preserve. From it follow
`IncidentAlwaysMirrored`, `DeferredAlwaysWakes`, `RecoveryAlwaysSustained` (for a sustain of any length) and
`AuthorityAlwaysRespected`. `KeepsIncidentPromise` maps the guard's latch to `incident`, a whole sustain of calm to `rested`,
the executor's latch to `shown`, and the absence of a fence, a prepared attempt and shutdown to `open`. An emission and a
flush are a step each of the gate and a change of `shown`; that the change is to the incident of that moment is
`IncidentMirrored`, and that a transition taken up late is never an older one is why the invariant is needed at all.

**The alerts** (`ShortfallAlertProofs`). `AlertInv`: the immediate lane's two memories are about the open incident, and an
open incident it does not remember has had no alert, whence `AlertOnce`. `RunInv`: a run counts no more steps than the breach
has lasted, and one fewer when its tick is due, whence `CrossingAlwaysSustained`. `CallInv`: only one pending call belongs to
the newest run, which waits for it, and its window begins at the mark or below, so that the mark it moves passes over
thresholds alerted in the same step or before (`MarksServed`). A candidate that begins a run makes all pending calls an older run's.
`LaneInv`: no lane rests on a timer that is not armed, whence `LanesWake`. `KeepsAlertPromise` maps the run's incident and mark to
`ladder` and `mark`. A crossing answered for the newest run is a `Climb`, and it alerts all between the marks because
`CallInv` puts the window of the live call at the mark or below; one answered for an older run is a `ClimbLate`, which
alerts without marking and is the source of disagreement 3.

**Commands** (`BinaryCommandProofs`). That a confirmation is about its own command is not inductive: the deferred
closure outlives an eviction, a time-out or a later dispatch. The invariant rules those out: a write on its way
has its own entry, unaccepted and of its age (`EntryOfWrite`), so the entry's window is running until the answer,
and a deferred confirmation is the newest evidence about that write (`DeferredEvidence`). `EvidenceAlwaysHolds`
follows. `Opposed` adds the two sides of the device's claim: a write of the fallback asks for off, the fallback waits for an
ordinary write it met, and an on command it waited for is remembered until an off command was accepted; whence
`AlwaysSettlesAfterOff`. `KeepsCommandPromise` needs all of it: a claim refuses an ordinary command while a write is on its
way, so an entry that is being sent is not overwritten, and the answer credits exactly when the evidence of the meantime
ended on the command's value. All three need `TransportAssumption`: the trigger of a flow-backed device has no timeout
(`buildDeviceActuator.ts:21`), and for a write slower than 90 s `EvidenceHolds` fails (see below).

**Holds** (`ExternalOffHoldProofs`). `KeptIsHeld` says what a question would be answered, so the invariant adds what
makes the answers right (`KeptInv`): a kept hold is stored under a set marker, so that an empty read cannot pass for a
fresh install; it is opted in as far as the adapter knows; and it is in memory or, while the holds are unreadable, not
released. `EndedInv` gives every hold that ended while the holds are unreadable a tombstone, and `BegunInv` says what the
process knows of a hold it began. The callers all go through lemmas about `Call`. `HoldHasSave` is inductive beside them: a
change of the holds marks them dirty, and only a save of both settings makes them clean (`HoldsSaved`). That the save
succeeds in the end is `HoldIsStored`, which TLC checks.

**The area** (`AreaBundleProofs`). `GateInv` says that nothing is queued before the first reading and that one step of an
ownership generation at a time is; `ClockInv` what the clock's rebuild and the one being served have seen of the present
reading; `OwedInv` who owes the retry of a refused write: an armed timer, or a prepared rebuild still queued, whose client
will answer for it, and for a rebuild that runs dry in an area that has become ready, one other than itself. From them
follow `RefusedRetried` and `EscalatedShed`. `AreaIsServed` joins them for `AreaServed`: every end of a rebuild either leaves another
that stands for the same step, closes the step, or arms a timer (`EndsServed`). `PreparedCurrent` follows from the fence being read from the queue.

A property that every behaviour of an abstract specification has is not given to TLC beside the refinement: `AlertOncePerIncident`
and `MarkServed` (of `AlertPromise`) and `EvidenceHolds` (of `CommandPromise`) are theorems of their own, and so is
`LatchExcludesBackoff`, a part of the loop's inductive invariant. `RecoverySustained` is checked beside `IncidentPromise`, which
cannot tell an incident that ends too early from one that a crash of the process forgets.

The four abstract specifications are small enough to be read as what each part is for; each refinement is proved as
`Init` implying its `Init` and every step under the invariant being a step of it or a stutter, one lemma or step per action.

Only model-checked: liveness (`NeverSilenced`, `PromiseAnswered`, `PersistedFollows`, `DeferralEnds`,
`LadderServed`, `FallbackFollows`, `HoldIsStored`, `FlowRebuildRuns`), which is out of the prover's reach
under fairness.

## Disagreements between the code and its words

1. `FlowRebuild`: a flow card's rebuild is due one second after the moment the question is asked, and it is
   asked again when the timer fires. The timer is armed again each second and the rebuild never runs unless
   a power-driven one displaces it. Tests run with a window of zero (`planRebuildIntentPolicy.ts:13,76`), and
   with that window the same property holds (`FlowWindowZero`).
2. `ShortfallReading`: a restart inside an incident that does not come back leaves the persisted shortfall,
   and the capability that shows it, set (`planState.ts:288`, `planBuilder.ts:528`).
3. `ThresholdOnce`: a trigger still pending when its run ends is delivered but not marked, and the next run
   of the incident alerts the same thresholds again (`capacityShortfallAlertDispatch.ts:404`).
4. `FallbackEndsOff`: the fallback takes a device that telemetry shows off for settled, and the task is disarmed,
   although an on command accepted just before is still unconfirmed. It remembers only commands it had to wait
   for; the pending store, which the dispatcher's own equality skip consults, is not asked
   (`lifecycleFallbackDispatcher.ts:153`, `notes/state-management/README.md:119`).
5. `DeclinedRedecided`: a rebuild declines its write when the observer moved while it was built, because "the
   observation that moved is itself a rebuild trigger" (`composedPlanEngine.ts:121`). No observation asks for a rebuild
   (`planObservedStateSubscription.ts:46`, `planRebuildTrigger.ts:4`), and the readiness edge, the recovery and the generation
   take the declined rebuild for a completed one. With samples coming the next one decides again; with a silent
   meter the write is left undone until the ten-minute escalation.

Met while modelling and not given a run:

* "Acceptance must never replay stale evidence" (`pendingBinaryCommands.ts:360`), but `get` evicts an entry whose window is over
  and leaves its deferred confirmation, keyed by the device (line 217). When an off command of a flow-backed device has been
  seen to act but its trigger answers only after 90 s, the acceptance of the next command, an on, runs that confirmation: the
  off command, already given up, is credited and the entry of the on command is cleared unconfirmed. TLC finds it in 11 states
  of `BinaryCommands` with `WriteTime = 4` and `Window = 3`, as a violation of `EvidenceHolds`. "The 90 s window comfortably outlasts
  the transport's own timeout" (`binaryControlDispatch.ts:189`) holds for HTTP; with it (`TimedCommands`) the property is proved.
  How long a trigger takes is Homey's to say, which is why the behaviour is told here and not counted among the five above.
* Within the first interval after process start the initial sample waits behind a timer, although the comment rules
  that out for the floor beside it (`powerDrivenScheduling.ts:242`, `planRebuildIntentPolicy.ts:58`).
* Outside shortfall the latch an observation sets is cleared before the decision that should yield to it
  (`signalDriven.ts:112`, `policy.ts:77`).
* The clock of a silent meter latches its period on a rebuild "that both SUCCEEDED and actually ACTUATED"
  (`powerSampleFreshnessEscalation.ts:76`), but a rebuild whose writes failed or were refused is reported as built
  (`planServiceRebuild.ts:337`, `planExecutorDispatch.ts:469`); `EscalatedIsShed` therefore speaks of the plan, not of its write.
* The reconciles of a prepared generation do not look at `gated` (`wireHomeMembership.ts:153`,
  `homeCapacityBundleApi.ts:171`), although the readiness edge and the recovery do: the generation of an area without a
  reading is settled with no plan built (`PrepareGated`).

## What is not modelled

* Power quantities, prices, energy and temperatures: floating-point data. The models keep what is compared.
* The planner's choice of devices, restore gating, restore swaps, target and stepped commands and device transport. A
  rebuild is an outcome: acted, no-op or failed.
* In `BinaryCommands`: the memory of confirmed off commands and external-off holds, activation backoff and
  cooldown stamps, a dry run of capacity control, timestamps that are equal to the millisecond, and the microtasks
  between the acceptance and the release of the claim, which are one step.
* The plan service's operation queue in `PlanRebuild` (a rebuild runs when it is started and returns later); `AreaBundle`
  has it, with the power lane as one of its clients.
* Zone rules, meter collisions and retry delays of membership: an ownership generation is pending, preparing, applying or
  settled.
* In `AreaBundle`: the warm-up gate, the user's own dry run (off), a power-source epoch discarded for good, the
  sessions of the area's devices, and drift that an observation itself causes. That the escalation comes at last is not
  checked, only that it does not rest too early.
* In `ExternalOffHold`: the attribution of an off to PELS, a marker that reads absent for once, and an opt-in map that
  does. Tombstones are not persisted, so a release that was never saved may come back across a restart: `ended` is
  about one process. Holds that stay unreadable are given up when the grace window lapses, as the code does.
* The clocks are exact: no event-loop stall or wall-clock correction. Time does not pass during a guard check.
* A breach whose evidence goes stale and comes back while one trigger is pending (`ShortfallAlert` counts the
  breaks the guard publishes), and a trigger that never settles.
* A sub-home's scheduler has no cancellation callback, so the sample promises of a bundle that is torn down may never be
  answered; `PlanRebuild` is the main home's.
* Overlapping polls of a power source: their readings arrive as samples in any order.
* Budgets, smart tasks, forecasts, diagnostics and user interfaces: numeric or presentational.

## Plan

What the models above leave open, in order of what matters most for control of the home:

1. `BinaryCommands` extended: the memory of confirmed off commands and what may be attributed to PELS (which then
   becomes the input of `ExternalOffHold`), what is left of `CommandPromise` for writes without a timeout, the target and stepped lanes of the fallback.
   `CommandPromise` then has to say who may be credited with an off.
2. Power sources: overlapping polls and invalidated generations, composed with `PlanRebuild` through `recordPowerSample`.
3. Restore swaps and activation backoff: reservations across rebuilds.
4. The sub-home loop: `PlanRebuild` with a cancellation that leaves promises unanswered, under `AreaBundle`'s teardown.
5. Proofs: abstract specifications of `ExternalOffHold` (a hold lasts from its cause to its end) and of `AreaBundle` (one rebuild
   at a time, each decision written, retried or superseded), with their refinements.
