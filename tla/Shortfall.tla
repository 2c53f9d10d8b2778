----------------------------- MODULE Shortfall -----------------------------
(***************************************************************************)
(* The hard-cap shortfall incident of one home and the copies made of it:   *)
(* the latch in CapacityGuard with its recovery clock                       *)
(* (lib/power/capacityGuard.ts), the gate that defers its enter and clear   *)
(* callbacks while the home's authority is fenced                           *)
(* (setup/capacityShortfallSideEffectGate.ts), the executor that            *)
(* materialises them (lib/executor/shortfallExecutor.ts), the plan builder  *)
(* that writes the same latch from its own reading of the guard             *)
(* (lib/plan/planBuilder.ts), and the persisted capacity_in_shortfall.      *)
(*                                                                         *)
(* Two callers check the guard, a plan build and the power sample path, and *)
(* interleave at every await.  Their awaits settle within one turn of the   *)
(* event loop, so time passes only while no call is under way.              *)
(***************************************************************************)
EXTENDS Integers

CONSTANTS
  Sustain,   \* SHORTFALL_CLEAR_SUSTAIN_MS
  None       \* null

Transitions == [to : BOOLEAN, held : BOOLEAN]

ASSUME ShortfallAssumption ==
  Sustain \in Nat \ {0} /\ None \notin Nat /\ None \notin Transitions

VARIABLES
  inShortfall,  \* CapacityGuard.inShortfall
  clearFor,     \* time since shortfallClearStartTime, saturated at Sustain
  gate,         \* the gate: its deferred transition, landing when a flush has applied that
                \* very object and is about to drop it, and whether its retry is armed
  fenced,       \* the membership fence is closed
  prepared,     \* a prepared reconcile owns the fence
  up,           \* the runtime is not discarded (mainActuationStopped, torn down)
  call,         \* where each caller of checkShortfall is
  planLatch,    \* PlanEngineState.inShortfall
  effect,       \* ShortfallExecutor.stateSideEffectActive
  persisted,    \* the setting capacity_in_shortfall
  calm,         \* history: time since a reading out of recovery was acted on
  wrote         \* history: this process has written the setting

guardVars == <<inShortfall, clearFor, calm>>
latches   == <<planLatch, effect, persisted, wrote>>
authority == <<fenced, prepared, up>>
vars == <<guardVars, gate, latches, authority, call>>

Callers == {"build", "sample"}

\* A whole-home total against the threshold: no trustworthy reading, above it, below it
\* but within SHORTFALL_CLEAR_MARGIN_KW, at least that margin below.
Totals == {"none", "over", "near", "clear"}

Gates == [deferred : Transitions \cup {None}, landing : BOOLEAN, retry : BOOLEAN]
Idle == [at |-> "idle", total |-> "none", read |-> FALSE]

TypeOK ==
  /\ inShortfall \in BOOLEAN /\ clearFor \in 0..Sustain \cup {None}
  /\ gate \in Gates
  /\ fenced \in BOOLEAN /\ prepared \in BOOLEAN /\ up \in BOOLEAN
  /\ call \in [Callers -> [at : {"idle", "awaiting", "checked", "syncing"},
                           total : Totals, read : BOOLEAN]]
  /\ planLatch \in BOOLEAN /\ effect \in BOOLEAN /\ persisted \in BOOLEAN
  /\ calm \in 0..Sustain /\ wrote \in BOOLEAN

EmptyGate == [deferred |-> None, landing |-> FALSE, retry |-> FALSE]

Init ==
  /\ inShortfall = FALSE /\ clearFor = None /\ calm = 0
  /\ gate = EmptyGate
  /\ fenced = FALSE /\ prepared = FALSE /\ up = TRUE
  /\ call = [c \in Callers |-> Idle]
  /\ planLatch = FALSE /\ effect = FALSE /\ persisted = FALSE /\ wrote = FALSE
-----------------------------------------------------------------------------
(* The executor and the gate                                                *)

\* Whether materialising a transition takes a setting write, which may throw
Writes(to) == IF to THEN ~effect /\ ~planLatch ELSE planLatch

\* handleShortfall, handleShortfallCleared: the setting is written before any latch is set.
Materialise(to) ==
  IF to /\ effect THEN UNCHANGED latches
  ELSE /\ effect' = to /\ planLatch' = to
       /\ persisted' = IF Writes(to) THEN to ELSE persisted
       /\ wrote' = (wrote \/ Writes(to))

\* Mutant of Scheduled: no retry
ScheduledNever(g) == g

Scheduled(g) == [g EXCEPT !.retry = TRUE]

Fenced == fenced \/ prepared
Fails(to, ok) == Writes(to) /\ ~ok

\* Mutant of Flush: any flush may take a transition held for a prepared attempt
FlushUnheld(g, closed, allowPrepared, ok) ==
  IF ~up
  THEN gate' = [g EXCEPT !.deferred = None, !.landing = FALSE] /\ UNCHANGED latches
  ELSE IF closed
  THEN gate' = Scheduled(g) /\ UNCHANGED latches
  ELSE IF g.deferred = None
  THEN gate' = g /\ UNCHANGED latches
  ELSE IF Fails(g.deferred.to, ok)
  THEN gate' = Scheduled(g) /\ UNCHANGED latches
  ELSE gate' = [g EXCEPT !.landing = TRUE] /\ Materialise(g.deferred.to)

\* flushDeferred up to its await, on the gate g behind a fence that is closed or not; ok
\* says whether a setting write succeeds.  The executor runs to its end within the call.
Flush(g, closed, allowPrepared, ok) ==
  LET waits == closed \/ (g.deferred # None /\ g.deferred.held /\ ~allowPrepared)
  IN  IF ~up
      THEN gate' = [g EXCEPT !.deferred = None, !.landing = FALSE] /\ UNCHANGED latches
      ELSE IF waits
      THEN gate' = Scheduled(g) /\ UNCHANGED latches
      ELSE IF g.deferred = None
      THEN gate' = g /\ UNCHANGED latches
      ELSE IF Fails(g.deferred.to, ok)
      THEN gate' = Scheduled(g) /\ UNCHANGED latches
      ELSE gate' = [g EXCEPT !.landing = TRUE] /\ Materialise(g.deferred.to)

\* Mutant of Superseding: a flush still landing will drop the newer object
SupersedingBlind(to) ==
  [gate EXCEPT !.deferred = [to |-> to, held |-> prepared]]

\* A new transition takes the place of a deferred one; a flush of the old object that is
\* still landing finds another object and drops nothing.
Superseding(to) ==
  [gate EXCEPT !.deferred = [to |-> to, held |-> prepared], !.landing = FALSE]

\* Mutant of Emit: a transition that is already deferred is not replaced
EmitFirst(to, ok) ==
  Flush(IF gate.deferred = None THEN Superseding(to) ELSE gate, Fenced, FALSE, ok)

\* onShortfall, onShortfallCleared
Emit(to, ok) == Flush(Superseding(to), Fenced, FALSE, ok)

\* The callback rejects, and with it the checkShortfall that awaits it.
Rejects(to, ok) == up /\ ~Fenced /\ Fails(to, ok)

\* flushDeferred after its await
Lands ==
  /\ gate.landing
  /\ gate' = [gate EXCEPT !.deferred = None, !.landing = FALSE]
  /\ UNCHANGED <<guardVars, latches, authority, call>>

RetryFires(ok) ==
  /\ gate.retry
  /\ Flush([gate EXCEPT !.retry = FALSE], Fenced, FALSE, ok)
  /\ UNCHANGED <<guardVars, authority, call>>
-----------------------------------------------------------------------------
(* The guard                                                                *)

Answered(c) == [call EXCEPT ![c] = IF c = "build" THEN [Idle EXCEPT !.at = "checked"] ELSE Idle]
Rejected(c) == [call EXCEPT ![c] = Idle]

\* checkShortfall up to its await.  breach: above the threshold with no candidate left.
Check(c, total, breach, ok) ==
  /\ call[c].at = "idle"
  /\ breach => total = "over"
  /\ IF total = "none"
     THEN /\ call' = Answered(c)
          /\ UNCHANGED <<guardVars, gate, latches>>
     ELSE IF breach /\ ~inShortfall
     THEN /\ inShortfall' = TRUE /\ clearFor' = None /\ calm' = 0
          /\ Emit(TRUE, ok)
          /\ call' = IF Rejects(TRUE, ok) THEN Rejected(c)
                     ELSE [call EXCEPT ![c] = [Idle EXCEPT !.at = "awaiting", !.total = total]]
     ELSE /\ call' = [call EXCEPT ![c] = [Idle EXCEPT !.at = "awaiting", !.total = total]]
          /\ UNCHANGED <<guardVars, gate, latches>>
  /\ UNCHANGED authority

\* Mutant of Recovered: the clock alone clears, whatever the reading
RecoveredByClock(total) == clearFor = Sustain

\* A reading at the clear margin, and the clock started a sustain ago
Recovered(total) == total = "clear" /\ clearFor = Sustain

\* checkShortfall after its await: maybeClearShortfall with the reading the call came with
Resume(c, ok) ==
  /\ call[c].at = "awaiting"
  /\ LET total == call[c].total
     IN  IF ~inShortfall
         THEN call' = Answered(c) /\ UNCHANGED <<guardVars, gate, latches>>
         ELSE IF Recovered(total)
         THEN /\ inShortfall' = FALSE /\ clearFor' = None
              /\ Emit(FALSE, ok)
              /\ call' = IF Rejects(FALSE, ok) THEN Rejected(c) ELSE Answered(c)
              /\ UNCHANGED calm
         ELSE /\ clearFor' = IF total # "clear" THEN None
                             ELSE IF clearFor = None THEN 0 ELSE clearFor
              /\ calm' = IF total # "clear" THEN 0 ELSE calm
              /\ call' = Answered(c)
              /\ UNCHANGED <<inShortfall, gate, latches>>
  /\ UNCHANGED authority

\* The plan builder checks the guard once in every build: updateGuardState says there are
\* candidates left whenever the total is not over the threshold.
BuildChecks(total, breach, ok) == Check("build", total, breach, ok)

\* The sample path checks it where it skips a rebuild in shortfall, and where a tight no-op
\* rebuild leaves a breach standing, with the total the sample came with.
SampleChecks(total, ok) ==
  /\ inShortfall \/ total \in {"over", "none"}
  /\ Check("sample", total, total = "over", ok)

\* buildSheddingPlan reads the guard ...
BuildReads ==
  /\ call["build"].at = "checked"
  /\ call' = [call EXCEPT !["build"].at = "syncing", !["build"].read = inShortfall]
  /\ UNCHANGED <<guardVars, gate, latches, authority>>

\* Mutant of BuildSyncs: the latch is set before the setting is written
BuildSyncsLatchFirst(ok) ==
  /\ call["build"].at = "syncing"
  /\ LET read == call["build"].read
     IN  /\ planLatch' = read
         /\ persisted' = IF read # planLatch /\ ok THEN read ELSE persisted
         /\ wrote' = TRUE
  /\ call' = [call EXCEPT !["build"] = Idle]
  /\ UNCHANGED <<guardVars, gate, effect, authority>>

\* ... and applySheddingUpdates, after further awaits, writes what was read.
BuildSyncs(ok) ==
  /\ call["build"].at = "syncing"
  /\ LET read == call["build"].read
     IN  IF read # planLatch /\ ok
         THEN planLatch' = read /\ persisted' = read /\ wrote' = TRUE
         ELSE UNCHANGED <<planLatch, persisted, wrote>>
  /\ call' = [call EXCEPT !["build"] = Idle]
  /\ UNCHANGED <<guardVars, gate, effect, authority>>
-----------------------------------------------------------------------------
(* Authority, time, shutdown and restart                                    *)

MembershipFence(closed) ==
  /\ fenced # closed /\ fenced' = closed
  /\ UNCHANGED <<guardVars, gate, latches, call, prepared, up>>

\* beginMainPreparedReconcile: holdDeferredUntilPreparedApply replaces the object.
PreparedBegins ==
  /\ ~prepared /\ prepared' = TRUE
  /\ gate' = IF gate.deferred = None THEN gate
             ELSE [gate EXCEPT !.deferred = [@ EXCEPT !.held = TRUE], !.landing = FALSE]
  /\ UNCHANGED <<guardVars, latches, call, fenced, up>>

\* The prepared plan was superseded or failed; the recovery will try again.
PreparedAborts ==
  /\ prepared /\ prepared' = FALSE
  /\ UNCHANGED <<guardVars, gate, latches, call, fenced, up>>

\* The prepared plan is current and applied: its fence ends and flushAfterPreparedApply
\* follows in the same turn.
PreparedEnds(ok) ==
  /\ prepared /\ prepared' = FALSE
  /\ Flush(gate, fenced, TRUE, ok)
  /\ UNCHANGED <<guardVars, call, fenced, up>>

\* The gate's timer is cleared with all others.
Discard ==
  /\ up /\ up' = FALSE
  /\ gate' = [gate EXCEPT !.retry = FALSE]
  /\ UNCHANGED <<guardVars, latches, call, fenced, prepared>>

\* A new process: everything but the setting starts over.
Restart ==
  /\ inShortfall' = FALSE /\ clearFor' = None /\ calm' = 0
  /\ gate' = EmptyGate
  /\ fenced' = FALSE /\ prepared' = FALSE /\ up' = TRUE
  /\ call' = [c \in Callers |-> Idle]
  /\ planLatch' = FALSE /\ effect' = FALSE /\ wrote' = FALSE
  /\ UNCHANGED persisted

Tick ==
  /\ \A c \in Callers : call[c].at = "idle"
  /\ ~gate.landing
  /\ clearFor' = IF clearFor \in {None, Sustain} THEN clearFor ELSE clearFor + 1
  /\ calm' = IF calm = Sustain THEN calm ELSE calm + 1
  /\ UNCHANGED <<inShortfall, gate, latches, authority, call>>

Next ==
  \/ \E total \in Totals, breach \in BOOLEAN, ok \in BOOLEAN : BuildChecks(total, breach, ok)
  \/ \E total \in Totals, ok \in BOOLEAN : SampleChecks(total, ok)
  \/ \E c \in Callers, ok \in BOOLEAN : Resume(c, ok)
  \/ BuildReads
  \/ \E ok \in BOOLEAN : BuildSyncs(ok)
  \/ Lands
  \/ \E ok \in BOOLEAN : RetryFires(ok)
  \/ \E closed \in BOOLEAN : MembershipFence(closed)
  \/ PreparedBegins
  \/ PreparedAborts
  \/ \E ok \in BOOLEAN : PreparedEnds(ok)
  \/ Discard
  \/ Restart
  \/ Tick

Spec == Init /\ [][Next]_vars

\* The turns of the event loop run and plans go on being built; a setting write that is
\* tried for ever succeeds at last; and the ownership recovery prepares again for as long
\* as a transition is held, and succeeds at last if the membership fence lets it.
Fairness ==
  /\ WF_vars(Lands) /\ WF_vars(BuildReads)
  /\ \A c \in Callers : WF_vars(\E ok \in BOOLEAN : Resume(c, ok))
  /\ WF_vars(\E total \in Totals, breach \in BOOLEAN, ok \in BOOLEAN :
               BuildChecks(total, breach, ok))
  /\ WF_vars(\E ok \in BOOLEAN : BuildSyncs(ok)) /\ SF_vars(BuildSyncs(TRUE))
  /\ WF_vars(\E ok \in BOOLEAN : RetryFires(ok)) /\ SF_vars(~Fenced /\ RetryFires(TRUE))
  /\ WF_vars(gate.deferred # None /\ PreparedBegins)
  /\ WF_vars(PreparedAborts \/ \E ok \in BOOLEAN : PreparedEnds(ok))
  /\ SF_vars(~fenced /\ PreparedEnds(TRUE))

FairSpec == Spec /\ Fairness
-----------------------------------------------------------------------------
(* What must hold                                                            *)

\* The guard emits each transition once, so the copy outside it is right only if the gate
\* loses none: the executor shows the guard's latch, or the gate still holds the newest
\* transition, through fences, failing writes, prepared attempts and late flushes.
IncidentMirrored ==
  up => IF gate.deferred = None THEN effect = inShortfall
        ELSE gate.deferred.to = inShortfall

\* A deferred transition always has someone to take it up: the flush about to drop it,
\* the retry, or the prepared attempt it is held for.
DeferredHasWakeup ==
  up /\ gate.deferred # None => gate.landing \/ gate.retry \/ gate.deferred.held

\* The executor's side effect changes only while the home's authority is open, and a
\* transition that met a prepared attempt waits for one to be applied, whatever timer or
\* callback comes first.
AuthorityRespected ==
  [][effect' # effect /\ ~Restart =>
       /\ ~fenced /\ ~prepared'
       /\ gate.deferred # None /\ gate'.deferred = gate.deferred /\ gate.deferred.held
            => prepared]_vars

\* The incident ends only on a measured reading at the clear margin, and only when no
\* reading out of it was acted on for the sustain: not on a missing reading, and not on a
\* clock started in an earlier incident or before a relapse.
RecoverySustained ==
  [][inShortfall /\ ~inShortfall' =>
       \/ \E c \in Callers : call[c].at = "awaiting" /\ call[c].total = "clear" /\ calm = Sustain
       \/ Restart]_vars

Promise == INSTANCE IncidentPromise
  WITH incident <- inShortfall, rested <- calm = Sustain,
       open <- up /\ ~fenced /\ ~prepared, shown <- effect

\* Guard, gate and executor together keep the promise IncidentPromise makes of an incident:
\* each recovery is earned anew, and a transition taken up late shows what the incident is by
\* then, whatever was deferred, retried or held in between.
PromiseSpec == Promise!Spec

\* Once the membership fence stays open, the persisted latch follows an incident that lasts
\* and one that has ended (if this process wrote it), although the plan builder may write a reading the guard has
\* already left behind and prepared attempts keep taking transitions away from the retry.
PersistedFollows ==
  /\ <>[](up /\ ~fenced /\ inShortfall) => <>[](persisted /\ effect)
  /\ <>[](up /\ ~fenced /\ ~inShortfall /\ wrote) => <>[](~persisted /\ ~effect)
-----------------------------------------------------------------------------
(* What the product says and the code does not do                           *)

\* .homeycompose/capabilities/pels_shortfall.json: the reading tells "whether PELS projects
\* an hourly hard cap breach and has no managed devices left to limit".  Out of shortfall
\* for good in a process that keeps running, it ends up off.
ReadingRecovers ==
  <>[](up /\ ~fenced /\ ~inShortfall) /\ <>[][~Restart]_vars => <>[]~persisted
=============================================================================
