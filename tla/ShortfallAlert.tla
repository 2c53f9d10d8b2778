--------------------------- MODULE ShortfallAlert ---------------------------
(***************************************************************************)
(* The two Flow alerts of a hard-cap shortfall                              *)
(* (setup/capacityShortfallAlertDispatch.ts): the immediate lane, one alert *)
(* per incident, put off while the home's authority is fenced; and the      *)
(* sustained lane, which counts unbroken steps of a breach and emits a      *)
(* crossing (from, to] at each, from being the mark below which every       *)
(* threshold of the incident has been alerted                               *)
(* (flowCards/capacityShortfallCards.ts matches from < threshold <= to).    *)
(*                                                                         *)
(* The unit of time is one step of the sustained lane.  An action is a      *)
(* handler up to its await: the trigger of a crossing returns later, in any *)
(* order with whatever the guard publishes meanwhile.                       *)
(***************************************************************************)
EXTENDS Integers, FiniteSets

CONSTANTS
  MaxSteps,      \* MAX_STEPS_PER_RUN
  Stale,         \* POWER_SAMPLE_STALE_THRESHOLD_MS, in steps
  MaxIncidents,  \* bound: incidents of one process
  MaxCalls,      \* bound: trigger calls pending at once
  None           \* no timer, no call

ASSUME AlertAssumption ==
  /\ MaxSteps \in Nat \ {0} /\ Stale \in Nat
  /\ MaxIncidents \in Nat \ {0} /\ MaxCalls \in Nat \ {0} /\ None \notin Nat

VARIABLES
  incident,   \* the guard's newest incident id, 0 before the first
  open,       \* that incident is not over
  over,       \* isConditionActive: the latched total is above the threshold, no candidate
  fenced,     \* isTemporarilyFenced
  up,         \* not isDiscarded
  deferred,   \* immediate lane: the incident put off, 0 if none
  delivered,  \* immediate lane: deliveredIncidentId, 0 if none
  retry,      \* immediate lane: its timer is armed
  run,        \* sustained lane: incidentId, running, stepsThisRun, highWaterSeconds (in
              \* steps) and budgetExhausted
  silent,     \* steps since lastCandidateAtMs, saturated past Stale
  timer,      \* steps until the sustained lane's timer fires
  calls,      \* pending triggers: the crossing, its incident, and whether the run that
              \* emitted it is still the newest (runToken = myRun)
  alerts,     \* history: immediate triggers by incident
  unbroken,   \* history: steps since the candidate that began the stretch without a published
              \* break, None between stretches
  served,     \* history: thresholds (in steps) alerted in the sustained lane's incident
  twice       \* history: one of them was alerted again

guardVars == <<incident, open, over, fenced, up>>
immediate == <<deferred, delivered, retry, alerts>>
sustained == <<run, timer, calls, served, twice>>
evidence  == <<silent, unbroken>>
vars == <<guardVars, immediate, sustained, evidence>>

Incidents == 1..MaxIncidents
Slots == 1..MaxCalls
Steps == 0..MaxSteps

Calls == [incident : Incidents, from : Steps, to : 1..MaxSteps, live : BOOLEAN]
ASSUME NoCallAssumption == None \notin Calls

Deliveries == {"delivered", "rejected", "unavailable"}

TypeOK ==
  /\ incident \in 0..MaxIncidents /\ open \in BOOLEAN /\ over \in BOOLEAN
  /\ fenced \in BOOLEAN /\ up \in BOOLEAN
  /\ deferred \in 0..MaxIncidents /\ delivered \in 0..MaxIncidents /\ retry \in BOOLEAN
  /\ run \in [incident : 0..MaxIncidents, running : BOOLEAN, steps : Steps, mark : Steps,
              exhausted : BOOLEAN]
  /\ silent \in 0..Stale + 1 /\ timer \in {0, 1, None}
  /\ calls \in [Slots -> Calls \cup {None}]
  /\ alerts \in [Incidents -> 0..2] /\ unbroken \in Steps \cup {None}
  /\ served \subseteq 1..MaxSteps /\ twice \in BOOLEAN

Init ==
  /\ incident = 0 /\ open = FALSE /\ over = FALSE /\ fenced = FALSE /\ up = TRUE
  /\ deferred = 0 /\ delivered = 0 /\ retry = FALSE /\ alerts = [i \in Incidents |-> 0]
  /\ run = [incident |-> 0, running |-> FALSE, steps |-> 0, mark |-> 0, exhausted |-> FALSE]
  /\ silent = 0 /\ timer = None
  /\ calls = [c \in Slots |-> None]
  /\ unbroken = None /\ served = {} /\ twice = FALSE
-----------------------------------------------------------------------------
(* The immediate lane                                                        *)

\* The trigger is called; the lane does not look at its answer.
Fire(i) == alerts' = [alerts EXCEPT ![i] = IF @ < 2 THEN @ + 1 ELSE 2]

\* onCandidate
ImmediateCandidate(i) ==
  IF delivered = i \/ deferred = i
  THEN UNCHANGED immediate
  ELSE IF fenced
  THEN deferred' = i /\ retry' = TRUE /\ UNCHANGED <<delivered, alerts>>
  ELSE deferred' = 0 /\ retry' = (retry /\ deferred = 0) /\ delivered' = i /\ Fire(i)

\* onConditionCleared, and onIncidentCleared but for deliveredIncidentId
DropDeferred == deferred' = 0 /\ retry' = (retry /\ deferred = 0)

\* Mutant of ReleaseDeferred: a fenced release does not arm the timer again
ReleaseDeferredOnce ==
  /\ retry /\ retry' = FALSE
  /\ deferred' = IF up /\ over /\ fenced THEN deferred ELSE 0
  /\ IF deferred # 0 /\ up /\ over /\ ~fenced
     THEN delivered' = deferred /\ Fire(deferred)
     ELSE UNCHANGED <<delivered, alerts>>
  /\ UNCHANGED <<guardVars, sustained, evidence>>

\* releaseDeferred, from its timer
ReleaseDeferred ==
  /\ retry
  /\ retry' = (deferred # 0 /\ up /\ over /\ fenced)
  /\ deferred' = IF retry' THEN deferred ELSE 0
  /\ IF deferred # 0 /\ up /\ over /\ ~fenced
     THEN delivered' = deferred /\ Fire(deferred)
     ELSE UNCHANGED <<delivered, alerts>>
  /\ UNCHANGED <<guardVars, sustained, evidence>>
-----------------------------------------------------------------------------
(* The sustained lane                                                        *)

\* Mutant of Begun: the steps of the run before are kept
BegunWithSteps(r) == [r EXCEPT !.running = TRUE]

\* A run starts from no steps.
Begun(r) == [r EXCEPT !.running = TRUE, !.steps = 0]

\* A candidate of another incident takes the lane over.
Adopted(i) ==
  IF run.incident = i THEN run
  ELSE [run EXCEPT !.incident = i, !.mark = 0, !.exhausted = FALSE]

\* onCandidate; beginning a run makes every pending call's run an older one.
SustainedCandidate(i) ==
  LET r == Adopted(i)
  IN  /\ served' = IF run.incident = i THEN served ELSE {}
      /\ IF (run.incident = i /\ run.running) \/ r.exhausted
         THEN run' = r /\ UNCHANGED <<timer, calls>>
         ELSE /\ run' = Begun(r) /\ timer' = 1
              /\ calls' = [c \in Slots |->
                             IF calls[c] = None THEN None ELSE [calls[c] EXCEPT !.live = FALSE]]
      /\ UNCHANGED twice

\* stop
Stopped(r) == [r EXCEPT !.running = FALSE]
StopTimer == timer' = IF up THEN None ELSE timer

\* Mutant of Exhausted: the final step always bars another run
ExhaustedAlways(r) == TRUE

\* Whether the final step of a run bars another in the incident
Exhausted(r) == fenced \/ r.mark >= MaxSteps

\* Mutant of Continue: a run that goes on does not arm its timer
ContinueUntimed(r) ==
  IF ~up
  THEN run' = Stopped(r) /\ timer' = None
  ELSE IF r.steps >= MaxSteps
  THEN run' = [Stopped(r) EXCEPT !.exhausted = Exhausted(r)] /\ timer' = None
  ELSE run' = r /\ timer' = None

\* runTick from the end of its await, for a run r that is still the newest
Continue(r) ==
  IF ~up
  THEN run' = Stopped(r) /\ timer' = None
  ELSE IF r.steps >= MaxSteps
  THEN run' = [Stopped(r) EXCEPT !.exhausted = Exhausted(r)] /\ timer' = None
  ELSE run' = r /\ timer' = 1

FreeSlot == CHOOSE c \in Slots : calls[c] = None

Emits == up /\ over /\ silent <= Stale /\ ~fenced /\ run.steps + 1 > run.mark

\* runTick up to its await.  A tick that emits nothing goes on to its end.
RunTick ==
  /\ timer = 0
  /\ IF ~run.running
     THEN timer' = None /\ UNCHANGED <<run, calls>>
     ELSE IF ~up \/ ~over \/ silent > Stale
     THEN run' = Stopped(run) /\ timer' = None /\ UNCHANGED calls
     ELSE LET r == [run EXCEPT !.steps = @ + 1]
          IN  IF Emits
              THEN /\ \E c \in Slots : calls[c] = None
                   /\ calls' = [calls EXCEPT ![FreeSlot] =
                        [incident |-> r.incident, from |-> r.mark, to |-> r.steps, live |-> TRUE]]
                   /\ run' = r /\ timer' = None
              ELSE Continue(r) /\ UNCHANGED calls
  /\ UNCHANGED <<guardVars, immediate, served, twice, evidence>>

\* Mutant of Current: the incident and the run a call came from are not compared
CurrentUnchecked(call) == run.running

\* Whether the run that emitted the call is still the live one
Current(call) == run.running /\ call.live /\ run.incident = call.incident

\* The mark after a call: an unregistered card counts as delivered.
Marked(call, delivery) ==
  IF delivery = "rejected" THEN run ELSE [run EXCEPT !.mark = call.to]

\* The trigger of a crossing answers.
TriggerReturns(c, delivery) ==
  /\ calls[c] # None
  /\ LET call == calls[c]
         window == (call.from + 1)..call.to
         counts == delivery # "rejected" /\ run.incident = call.incident
     IN  /\ calls' = [calls EXCEPT ![c] = None]
         /\ served' = IF counts THEN served \cup window ELSE served
         /\ twice' = (twice \/ (counts /\ delivery = "delivered" /\ served \cap window # {}))
         /\ IF Current(call) THEN Continue(Marked(call, delivery)) ELSE UNCHANGED <<run, timer>>
  /\ UNCHANGED <<guardVars, immediate, evidence>>
-----------------------------------------------------------------------------
(* What the capacity guard publishes, and the rest of the app                *)

\* checkShortfall finds the condition active; it may open an incident.
Candidate ==
  LET i == IF open THEN incident ELSE incident + 1
  IN  /\ i <= MaxIncidents
      /\ incident' = i /\ open' = TRUE /\ over' = TRUE
      /\ unbroken' = IF unbroken = None THEN 0 ELSE unbroken
      /\ IF up
         THEN ImmediateCandidate(i) /\ SustainedCandidate(i) /\ silent' = 0
         ELSE UNCHANGED <<immediate, sustained, silent>>
      /\ UNCHANGED <<fenced, up>>

\* checkShortfall finds the condition inactive.
ConditionClears ==
  /\ over' = FALSE /\ unbroken' = None
  /\ DropDeferred
  /\ run' = Stopped(run) /\ StopTimer
  /\ UNCHANGED <<incident, open, fenced, up, delivered, alerts, calls, served, twice, silent>>

\* The guard ends the incident.  Another caller may have published a candidate since the
\* reading that ends it, so the condition may be active.
IncidentClears ==
  /\ open /\ open' = FALSE /\ unbroken' = None
  /\ DropDeferred /\ delivered' = 0
  /\ run' = [Stopped(run) EXCEPT !.incident = 0, !.mark = 0, !.exhausted = FALSE]
  /\ StopTimer /\ served' = {}
  /\ UNCHANGED <<incident, over, fenced, up, alerts, calls, twice, silent>>

\* A sample moves the latched total across the threshold; the check comes later.
TotalMoves ==
  /\ over' = ~over
  /\ UNCHANGED <<incident, open, fenced, up, immediate, sustained, evidence>>

FenceMoves ==
  /\ fenced' = ~fenced
  /\ UNCHANGED <<incident, open, over, up, immediate, sustained, evidence>>

\* The runtime is discarded; its timers may still be armed.
Discard ==
  /\ up /\ up' = FALSE
  /\ UNCHANGED <<incident, open, over, fenced, immediate, sustained, evidence>>

\* One step of time; a due timer fires first.
Tick ==
  /\ timer # 0
  /\ timer' = IF timer = None THEN None ELSE 0
  /\ silent' = IF silent > Stale THEN silent ELSE silent + 1
  /\ unbroken' = IF unbroken \in {None, MaxSteps} THEN unbroken ELSE unbroken + 1
  /\ UNCHANGED <<guardVars, immediate, run, calls, served, twice>>

Next ==
  \/ Candidate
  \/ ConditionClears
  \/ IncidentClears
  \/ ReleaseDeferred
  \/ RunTick
  \/ \E c \in Slots, delivery \in Deliveries : TriggerReturns(c, delivery)
  \/ TotalMoves
  \/ FenceMoves
  \/ Discard
  \/ Tick

Spec == Init /\ [][Next]_vars

\* Time passes and due timers fire; Homey answers a trigger, and accepts at last a crossing
\* to a step it is offered for ever.
Fairness ==
  /\ WF_vars(Tick) /\ WF_vars(RunTick) /\ WF_vars(ReleaseDeferred) /\ WF_vars(Candidate)
  /\ WF_vars(\E c \in Slots, delivery \in Deliveries : TriggerReturns(c, delivery))
  /\ \A s \in 1..MaxSteps :
       SF_vars(\E c \in Slots : /\ calls[c] # None /\ calls[c].to = s
                                /\ TriggerReturns(c, "delivered"))

FairSpec == Spec /\ Fairness
-----------------------------------------------------------------------------
(* What must hold                                                            *)

\* One immediate alert per incident, through fences, retries, candidates of the incident
\* published again, and an incident that ends while its alert is put off.
AlertOncePerIncident == \A i \in Incidents : alerts[i] <= 1

\* Every threshold at or below the mark was alerted in this incident (or its card is not
\* registered): a rejected crossing, a fenced step and a call left over from an earlier
\* run or incident burn no threshold.
MarkServed == 1..run.mark \subseteq served

\* Neither lane waits for nothing: a run has its timer armed or waits for the answer of the
\* call it emitted, and an alert put off has a timer, which goes with it.
AlertsHaveWakeup ==
  /\ run.running => timer # None \/ \E c \in Slots : calls[c] # None /\ Current(calls[c])
  /\ deferred # 0 <=> retry

\* A crossing to s steps is emitted only after s steps without a published break: no run
\* inherits steps counted before a dip below the threshold or in an earlier incident.
CrossingSustained ==
  [][\A c \in Slots : calls[c] = None /\ calls'[c] # None =>
       unbroken # None /\ unbroken >= calls'[c].to]_vars

\* An alert put off by the fence is decided once the fence stays open.
DeferralEnds == <>[](~fenced /\ up) => <>[](deferred = 0)

\* A breach that lasts and is evidenced at every step, with the fence open throughout, is
\* alerted at every threshold of the range, whatever crossings Homey rejects on the way.
LadderServed ==
  []~fenced /\ <>[](open /\ over /\ up /\ silent <= 1) => <>[](served = 1..MaxSteps)
Promise == INSTANCE AlertPromise WITH ladder <- run.incident, mark <- run.mark

\* The lanes keep the promise AlertPromise makes to a listener: the immediate alert is given
\* in the open, the marks of an incident only grow, each over the thresholds alerted with
\* it, and nothing of an incident is carried into the next.  AlertOncePerIncident and
\* MarkServed hold of every behaviour of AlertPromise.
PromiseSpec == Promise!Spec
-----------------------------------------------------------------------------
(* What the code's comments say and the code does not do                     *)

\* "a listener fires exactly once per threshold per incident"
ThresholdOncePerIncident == ~twice
=============================================================================
