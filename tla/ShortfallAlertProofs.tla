------------------------ MODULE ShortfallAlertProofs ------------------------
(***************************************************************************)
(* Theorems about ShortfallAlert, for every length of the ladder, bound of  *)
(* staleness and number of incidents and pending triggers: the type         *)
(* invariant, one immediate alert per incident, no threshold marked that    *)
(* was not alerted, none reported before its time, no lane that waits for   *)
(* nothing, and the refinement of AlertPromise.                             *)
(***************************************************************************)
EXTENDS ShortfallAlert, TLAPS

\* The two memories of the immediate lane are about the open incident, and an incident that
\* neither remembers as delivered has had no alert.
AlertInv ==
  /\ open => incident # 0
  /\ delivered # 0 => open /\ delivered = incident
  /\ deferred # 0 => open /\ deferred = incident /\ delivered = 0
  /\ \A i \in Incidents :
       /\ alerts[i] <= 1
       /\ alerts[i] = 1 => i <= incident
       /\ open /\ delivered = 0 /\ i = incident => alerts[i] = 0

\* A run counts no more steps than the breach has lasted, and one fewer when its tick is due;
\* its timer is armed only with steps left.
RunInv ==
  /\ run.running => run.incident # 0 /\ unbroken # None /\ run.steps <= unbroken
  /\ run.running /\ timer # None => run.steps < MaxSteps
  /\ run.running /\ timer = 0 => run.steps < unbroken

\* The call of the newest run is the only one of it, is about the run's incident and holds
\* the timer back; its window begins at the mark and is not empty.
Live(c) == calls[c] # None /\ calls[c].live
CallInv ==
  /\ \A c, d \in Slots : Live(c) /\ Live(d) => c = d
  /\ \A c \in Slots : Live(c) =>
       /\ run.running => timer = None /\ calls[c].incident = run.incident
       /\ calls[c].incident = run.incident => calls[c].from = run.mark
       /\ calls[c].from < calls[c].to

\* The sustained lane is about the open incident, and neither lane waits for nothing.
LaneInv ==
  /\ run.incident # 0 => open /\ run.incident = incident
  /\ run.running => timer # None \/ \E c \in Slots : Live(c)
  /\ deferred # 0 <=> retry

IInv == TypeOK /\ AlertInv /\ RunInv /\ CallInv /\ LaneInv /\ MarkServed
-----------------------------------------------------------------------------
(* What the operators return                                                 *)

Runs == [incident : 0..MaxIncidents, running : BOOLEAN, steps : Steps, mark : Steps,
         exhausted : BOOLEAN]

\* A stopped run keeps its incident, steps and mark.
LEMMA StoppedFacts ==
  ASSUME NEW r \in Runs
  PROVE  /\ Stopped(r) \in Runs /\ ~Stopped(r).running
         /\ Stopped(r).incident = r.incident /\ Stopped(r).mark = r.mark
BY DEF Runs, Stopped

\* A run that begins has no steps.
LEMMA BegunFacts ==
  ASSUME NEW r \in Runs
  PROVE  /\ Begun(r) \in Runs /\ Begun(r).running /\ Begun(r).steps = 0
         /\ Begun(r).incident = r.incident /\ Begun(r).mark = r.mark
<1>1. 0 \in Steps
  BY AlertAssumption DEF Steps
<1>2. Begun(r) = [[r EXCEPT !.running = TRUE] EXCEPT !.steps = 0]
  BY DEF Begun, Runs
<1> QED
  BY <1>1, <1>2 DEF Runs

\* The lane is an incident's own, without the mark of another.
LEMMA AdoptedFacts ==
  ASSUME run \in Runs, NEW i \in Incidents
  PROVE  /\ Adopted(i) \in Runs /\ Adopted(i).incident = i
         /\ run.incident = i => Adopted(i) = run
         /\ run.incident # i => Adopted(i).mark = 0 /\ ~Adopted(i).exhausted
<1>1. CASE run.incident = i
  BY <1>1 DEF Adopted
<1>2. CASE run.incident # i
  <2>1. Adopted(i) = [[[run EXCEPT !.incident = i] EXCEPT !.mark = 0] EXCEPT !.exhausted = FALSE]
    BY <1>2 DEF Adopted, Runs
  <2>2. 0 \in Steps /\ i \in 0..MaxIncidents
    BY AlertAssumption DEF Incidents, Steps
  <2> QED
    BY <1>2, <2>1, <2>2 DEF Runs
<1> QED
  BY <1>1, <1>2

\* What a tick or an answered trigger leaves of a run: the timer is armed only with steps left.
LEMMA ContinueFacts ==
  ASSUME NEW r \in Runs, Continue(r)
  PROVE  /\ run' \in Runs /\ timer' \in {1, None}
         /\ run'.incident = r.incident /\ run'.steps = r.steps /\ run'.mark = r.mark
         /\ run'.running => r.running /\ r.steps < MaxSteps /\ timer' = 1
<1>1. Exhausted(r) \in BOOLEAN
  BY DEF Exhausted
<1>2. CASE ~up
  BY AlertAssumption, <1>2 DEF Continue, Stopped, Runs, Steps
<1>3. CASE up /\ r.steps >= MaxSteps
  <2>1. /\ run' = [Stopped(r) EXCEPT !.exhausted = Exhausted(r)] /\ timer' = None
    BY <1>3 DEF Continue
  <2> QED
    BY <1>1, <2>1 DEF Stopped, Runs, Steps
<1>4. CASE up /\ ~(r.steps >= MaxSteps)
  BY AlertAssumption, <1>4 DEF Continue, Runs, Steps
<1> QED
  BY <1>2, <1>3, <1>4

\* A candidate leaves a running or exhausted run of its incident alone, or begins one and
\* makes every pending call an older run's.
LEMMA SustainedFacts ==
  ASSUME TypeOK, NEW i \in Incidents, SustainedCandidate(i)
  PROVE  /\ twice' = twice /\ run' \in Runs /\ calls' \in [Slots -> Calls \cup {None}]
         /\ served' = (IF run.incident = i THEN served ELSE {})
         /\ run'.incident = i /\ run'.mark = (IF run.incident = i THEN run.mark ELSE 0)
         /\ \/ run' = run /\ timer' = timer /\ calls' = calls
            \/ /\ run'.running /\ run'.steps = 0 /\ timer' = 1
               /\ \A c \in Slots : calls'[c] # None => calls[c] # None /\ ~calls'[c].live
<1>1. run \in Runs /\ calls \in [Slots -> Calls \cup {None}]
  BY DEF TypeOK, Runs
<1>2. /\ Adopted(i) \in Runs /\ Adopted(i).incident = i
      /\ run.incident = i => Adopted(i) = run
      /\ run.incident # i => Adopted(i).mark = 0 /\ ~Adopted(i).exhausted
  BY <1>1, AdoptedFacts
<1>3. CASE (run.incident = i /\ run.running) \/ Adopted(i).exhausted
  <2>1. run' = Adopted(i) /\ timer' = timer /\ calls' = calls
    BY <1>3 DEF SustainedCandidate
  <2>2. run.incident = i
    BY <1>2, <1>3
  <2> QED
    BY <1>1, <1>2, <2>1, <2>2 DEF SustainedCandidate
<1>4. CASE ~((run.incident = i /\ run.running) \/ Adopted(i).exhausted)
  <2>1. /\ run' = Begun(Adopted(i)) /\ timer' = 1
        /\ calls' = [c \in Slots |->
                       IF calls[c] = None THEN None ELSE [calls[c] EXCEPT !.live = FALSE]]
    BY <1>4 DEF SustainedCandidate
  <2>2. /\ run' \in Runs /\ run'.running /\ run'.steps = 0
        /\ run'.incident = Adopted(i).incident /\ run'.mark = Adopted(i).mark
    BY <1>2, <2>1, BegunFacts
  <2>3. ASSUME NEW c \in Slots
        PROVE  /\ calls'[c] \in Calls \cup {None}
               /\ calls'[c] # None => calls[c] # None /\ ~calls'[c].live
    <3>1. CASE calls[c] = None
      BY <2>1, <3>1
    <3>2. CASE calls[c] # None
      <4>1. calls[c] \in Calls /\ calls'[c] = [calls[c] EXCEPT !.live = FALSE]
        BY <1>1, <2>1, <3>2
      <4> QED
        BY <3>2, <4>1 DEF Calls
    <3> QED
      BY <3>1, <3>2
  <2>4. calls' \in [Slots -> Calls \cup {None}]
    BY <2>1, <2>3
  <2> QED
    BY <1>2, <2>1, <2>2, <2>3, <2>4 DEF SustainedCandidate
<1> QED
  BY <1>3, <1>4

\* A due tick ends the run, counts a step, or counts one and emits a crossing from the mark.
LEMMA TickFacts ==
  ASSUME TypeOK, RunInv, RunTick
  PROVE  /\ run' \in Runs /\ timer' \in {1, None} /\ calls' \in [Slots -> Calls \cup {None}]
         /\ run'.incident = run.incident /\ run'.mark = run.mark
         /\ run'.running => run.running /\ run'.steps = run.steps + 1
         /\ run'.running /\ timer' = 1 => run'.steps < MaxSteps
         /\ \/ calls' = calls
            \/ /\ run.running /\ timer' = None
               /\ \A c \in Slots :
                    \/ calls'[c] = calls[c]
                    \/ /\ c = FreeSlot /\ calls'[c].incident = run.incident
                       /\ calls'[c].from = run.mark /\ calls'[c].to = run.steps + 1
               /\ run.mark < run.steps + 1
<1>1. run \in Runs /\ calls \in [Slots -> Calls \cup {None}] /\ timer = 0 /\ 0 # None /\ 1 # None
  BY AlertAssumption DEF TypeOK, Runs, RunTick
<1>2. CASE ~run.running
  BY <1>1, <1>2 DEF RunTick
<1>3. CASE run.running /\ (~up \/ ~over \/ silent > Stale)
  <2>1. run' = Stopped(run) /\ timer' = None /\ calls' = calls
    BY <1>3 DEF RunTick
  <2> QED
    BY <1>1, <2>1, StoppedFacts
<1>4. CASE run.running /\ ~(~up \/ ~over \/ silent > Stale)
  <2> DEFINE r == [run EXCEPT !.steps = @ + 1]
  <2>1. /\ r \in Runs /\ r.incident = run.incident /\ r.mark = run.mark /\ r.running
        /\ r.steps = run.steps + 1 /\ r.steps \in 1..MaxSteps
    BY <1>1, <1>4, AlertAssumption DEF RunInv, Runs, Steps
  <2> HIDE DEF r
  <2>2. CASE Emits
    <3> DEFINE call == [incident |-> r.incident, from |-> r.mark, to |-> r.steps, live |-> TRUE]
    <3>1. /\ calls' = [calls EXCEPT ![FreeSlot] = call] /\ run' = r /\ timer' = None
      BY <1>4, <2>2 DEF RunTick, r
    <3>2. call \in Calls
      <4>1. r.incident \in Incidents
        BY <1>1, <1>4, <2>1, AlertAssumption DEF RunInv, Runs, Incidents
      <4> QED
        BY <2>1, <4>1 DEF Calls, Runs
    <3>3. /\ call.incident = run.incident /\ call.from = run.mark /\ call.to = run.steps + 1
      BY <2>1
    <3> HIDE DEF call
    <3>4. calls' \in [Slots -> Calls \cup {None}]
      BY <1>1, <3>1, <3>2
    <3>5. ASSUME NEW c \in Slots
          PROVE  calls'[c] = calls[c] \/ (c = FreeSlot /\ calls'[c] = call)
      BY <1>1, <3>1
    <3>6. run.mark < run.steps + 1
      BY <1>1, <2>2 DEF Emits, Runs, Steps
    <3> QED
      BY <1>1, <1>4, <2>1, <3>1, <3>3, <3>4, <3>5, <3>6
  <2>3. CASE ~Emits
    <3>1. Continue(r) /\ calls' = calls
      BY <1>4, <2>3 DEF RunTick, r
    <3>2. /\ run' \in Runs /\ timer' \in {1, None}
          /\ run'.incident = r.incident /\ run'.steps = r.steps /\ run'.mark = r.mark
          /\ run'.running => r.running /\ r.steps < MaxSteps /\ timer' = 1
      BY <2>1, <3>1, ContinueFacts
    <3> QED
      BY <1>1, <1>4, <2>1, <3>1, <3>2
  <2> QED
    BY <2>2, <2>3
<1> QED
  BY <1>2, <1>3, <1>4

\* A run that a tick leaves running has its timer armed or its call out.
LEMMA TickWaits ==
  ASSUME TypeOK, RunInv, RunTick, run'.running
  PROVE  timer' # None \/ \E c \in Slots : Live(c)'
<1>1. /\ run \in Runs /\ calls \in [Slots -> Calls \cup {None}] /\ None # 1 /\ timer = 0
  BY AlertAssumption DEF TypeOK, Runs, RunTick
<1>2. run.running /\ run.steps + 1 \in Steps
  BY <1>1, AlertAssumption, TickFacts DEF RunInv, Runs, Steps
<1>3. CASE Emits
  <2>1. ~(~up \/ ~over \/ silent > Stale)
    BY AlertAssumption, <1>3 DEF Emits, TypeOK
  <2> DEFINE r == [run EXCEPT !.steps = @ + 1]
             call == [incident |-> r.incident, from |-> r.mark, to |-> r.steps, live |-> TRUE]
  <2>2. /\ calls' = [calls EXCEPT ![FreeSlot] = call] /\ \E c \in Slots : calls[c] = None
    BY <1>2, <1>3, <2>1 DEF RunTick
  <2>3. FreeSlot \in Slots
    BY <2>2 DEF FreeSlot
  <2>4. call.live /\ call # None
    <3>1. r \in Runs /\ r.steps = run.steps + 1 /\ r.incident = run.incident /\ r.mark = run.mark
      BY <1>1, <1>2 DEF Runs
    <3>2. run.incident \in Incidents /\ run.steps + 1 \in 1..MaxSteps /\ run.mark \in Steps
      BY <1>1, <1>2, AlertAssumption DEF RunInv, Runs, Incidents, Steps
    <3> HIDE DEF r
    <3>3. call \in Calls
      BY <3>1, <3>2 DEF Calls
    <3> QED
      BY <3>3, NoCallAssumption
  <2> HIDE DEF call
  <2>5. calls'[FreeSlot] = call
    BY <1>1, <2>2, <2>3
  <2> QED
    BY <2>3, <2>4, <2>5 DEF Live
<1>4. CASE ~Emits
  <2> DEFINE r == [run EXCEPT !.steps = @ + 1]
  <2>1. r \in Runs
    BY <1>1, <1>2 DEF Runs
  <2>2. ~(~up \/ ~over \/ silent > Stale) => Continue(r)
    BY <1>2, <1>4 DEF RunTick
  <2>3. ~up \/ ~over \/ silent > Stale => run' = Stopped(run)
    BY <1>2 DEF RunTick
  <2>4. ~Stopped(run).running
    BY <1>1, StoppedFacts
  <2> HIDE DEF r
  <2>5. timer' = 1
    BY <2>1, <2>2, <2>3, <2>4, ContinueFacts
  <2> QED
    BY <1>1, <2>5
<1> QED
  BY <1>3, <1>4

\* An answer frees its slot; only that of the newest run moves the mark, to the end of its
\* window, and the run goes on.
LEMMA ReturnFacts ==
  ASSUME TypeOK, NEW c \in Slots, NEW delivery \in Deliveries, TriggerReturns(c, delivery)
  PROVE  /\ calls[c] \in Calls /\ calls' = [calls EXCEPT ![c] = None]
         /\ calls' \in [Slots -> Calls \cup {None}]
         /\ run' \in Runs /\ run'.incident = run.incident /\ run'.steps = run.steps
         /\ \/ /\ run' = run /\ timer' = timer /\ ~Current(calls[c])
               /\ \/ served' = served
                  \/ /\ run.incident = calls[c].incident
                     /\ served' = served \cup ((calls[c].from + 1)..calls[c].to)
            \/ /\ run.running /\ calls[c].live /\ calls[c].incident = run.incident
               /\ timer' \in {1, None}
               /\ run'.running => run.steps < MaxSteps /\ timer' = 1
               /\ \/ run'.mark = run.mark /\ served' = served
                  \/ /\ run'.mark = calls[c].to
                     /\ served' = served \cup ((calls[c].from + 1)..calls[c].to)
<1>1. /\ run \in Runs /\ calls \in [Slots -> Calls \cup {None}]
      /\ calls[c] \in Calls /\ calls' = [calls EXCEPT ![c] = None]
  BY DEF TypeOK, Runs, TriggerReturns
<1>2. calls' \in [Slots -> Calls \cup {None}]
  BY <1>1
<1>3. CASE ~Current(calls[c])
  <2>1. /\ run' = run /\ timer' = timer
        /\ \/ served' = served
           \/ /\ run.incident = calls[c].incident
              /\ served' = served \cup ((calls[c].from + 1)..calls[c].to)
    BY <1>3 DEF TriggerReturns
  <2> QED
    BY <1>1, <1>2, <1>3, <2>1
<1>4. CASE Current(calls[c])
  <2> DEFINE r == Marked(calls[c], delivery)
  <2>1. /\ r \in Runs /\ r.incident = run.incident /\ r.steps = run.steps
        /\ r.running = run.running
        /\ r.mark = IF delivery = "rejected" THEN run.mark ELSE calls[c].to
    <3>1. CASE delivery = "rejected"
      BY <1>1, <3>1 DEF Marked
    <3>2. CASE delivery # "rejected"
      <4>1. calls[c].to \in Steps
        BY <1>1, AlertAssumption DEF Calls, Steps
      <4> QED
        BY <1>1, <3>2, <4>1 DEF Marked, Runs
    <3> QED
      BY <3>1, <3>2
  <2>2. Continue(r)
    BY <1>4 DEF TriggerReturns
  <2>3. /\ delivery = "rejected" => served' = served
        /\ delivery # "rejected" =>
             served' = served \cup ((calls[c].from + 1)..calls[c].to)
    BY <1>4 DEF TriggerReturns, Current
  <2> HIDE DEF r
  <2>4. /\ run' \in Runs /\ timer' \in {1, None}
        /\ run'.incident = r.incident /\ run'.steps = r.steps /\ run'.mark = r.mark
        /\ run'.running => r.running /\ r.steps < MaxSteps /\ timer' = 1
    BY <2>1, <2>2, ContinueFacts
  <2>5. run.running /\ calls[c].live /\ calls[c].incident = run.incident
    BY <1>4 DEF Current
  <2> QED
    BY <1>1, <1>2, <2>1, <2>3, <2>4, <2>5
<1> QED
  BY <1>3, <1>4

\* The end of an incident stops the run and forgets its incident and mark.
LEMMA EndFacts ==
  ASSUME TypeOK, IncidentClears
  PROVE  /\ run' \in Runs /\ ~run'.running /\ run'.incident = 0 /\ run'.mark = 0
<1>1. run \in Runs
  BY DEF TypeOK, Runs
<1>2. Stopped(run) \in Runs /\ ~Stopped(run).running
  BY <1>1, StoppedFacts
<1>3. run' = [[[Stopped(run) EXCEPT !.incident = 0] EXCEPT !.mark = 0] EXCEPT !.exhausted = FALSE]
  BY <1>2 DEF IncidentClears, Runs
<1>4. 0 \in Steps /\ 0 \in 0..MaxIncidents
  BY AlertAssumption DEF Steps
<1> QED
  BY <1>2, <1>3, <1>4 DEF Runs
-----------------------------------------------------------------------------
(* The steps                                                                 *)

LEMMA InitIInv == Init => IInv
<1> SUFFICES ASSUME Init PROVE IInv
  OBVIOUS
<1>1. 0 \in Steps /\ 0 \in 0..MaxIncidents /\ 0 \in 0..Stale + 1 /\ 0 \in 0..2
  BY AlertAssumption DEF Steps
<1>2. TypeOK
  BY <1>1 DEF Init, TypeOK
<1>3. AlertInv
  BY DEF Init, AlertInv
<1>4. RunInv
  BY DEF Init, RunInv
<1>5. CallInv
  BY DEF Init, CallInv, Live
<1>6. MarkServed
  BY DEF Init, MarkServed
<1>7. LaneInv
  BY DEF Init, LaneInv
<1> QED
  BY <1>2, <1>3, <1>4, <1>5, <1>6, <1>7 DEF IInv

\* Every step keeps the types.
LEMMA TypeStep == TypeOK /\ RunInv /\ AlertInv /\ [Next]_vars => TypeOK'
<1> SUFFICES ASSUME TypeOK, RunInv, AlertInv, [Next]_vars PROVE TypeOK'
  OBVIOUS
<1>0. /\ run \in Runs /\ calls \in [Slots -> Calls \cup {None}]
      /\ 0 \in Steps /\ 0 \in 0..MaxIncidents /\ 0 \in 0..Stale + 1
  BY AlertAssumption DEF TypeOK, Runs, Steps
<1>1. CASE Candidate
  <2> DEFINE i == IF open THEN incident ELSE incident + 1
  <2>1. i \in Incidents /\ i \in 0..MaxIncidents
    <3>1. i <= MaxIncidents
      BY <1>1 DEF Candidate
    <3>2. open => incident # 0
      BY DEF AlertInv
    <3> QED
      BY <3>1, <3>2, AlertAssumption DEF TypeOK, Incidents
  <2>2. /\ incident' = i /\ open' = TRUE /\ over' = TRUE /\ fenced' = fenced /\ up' = up
        /\ unbroken' = IF unbroken = None THEN 0 ELSE unbroken
    BY <1>1 DEF Candidate
  <2>3. CASE up
    <3>1. ImmediateCandidate(i) /\ SustainedCandidate(i) /\ silent' = 0
      BY <1>1, <2>3 DEF Candidate
    <3> HIDE DEF i
    <3>2. /\ deferred' \in 0..MaxIncidents /\ delivered' \in 0..MaxIncidents /\ retry' \in BOOLEAN
          /\ alerts' \in [Incidents -> 0..2]
      <4>1. /\ alerts \in [Incidents -> 0..2] /\ deferred \in 0..MaxIncidents
            /\ delivered \in 0..MaxIncidents /\ retry \in BOOLEAN
        BY DEF TypeOK
      <4>2. CASE delivered = i \/ deferred = i
        BY <3>1, <4>1, <4>2 DEF ImmediateCandidate, immediate
      <4>3. CASE ~(delivered = i \/ deferred = i) /\ fenced
        BY <2>1, <3>1, <4>1, <4>3 DEF ImmediateCandidate
      <4>4. CASE ~(delivered = i \/ deferred = i) /\ ~fenced
        <5>1. /\ deferred' = 0 /\ retry' = (retry /\ deferred = 0) /\ delivered' = i /\ Fire(i)
          BY <3>1, <4>4 DEF ImmediateCandidate
        <5>2. alerts' \in [Incidents -> 0..2]
          BY <2>1, <4>1, <5>1 DEF Fire
        <5> QED
          BY <1>0, <2>1, <4>1, <5>1, <5>2
      <4> QED
        BY <4>2, <4>3, <4>4
    <3>3. /\ twice' = twice /\ run' \in Runs /\ calls' \in [Slots -> Calls \cup {None}]
          /\ served' = (IF run.incident = i THEN served ELSE {})
          /\ timer' = timer \/ timer' = 1
      BY <2>1, <3>1, SustainedFacts
    <3> QED
      BY <1>0, <2>1, <2>2, <3>1, <3>2, <3>3 DEF TypeOK, Runs
  <2>4. CASE ~up
    <3>1. UNCHANGED <<immediate, sustained, silent>>
      BY <1>1, <2>4 DEF Candidate
    <3> QED
      BY <1>0, <2>1, <2>2, <3>1 DEF TypeOK, immediate, sustained
  <2> QED
    BY <2>3, <2>4
<1>2. CASE ConditionClears
  <2>1. run' \in Runs
    BY <1>0, <1>2, StoppedFacts DEF ConditionClears
  <2> QED
    BY <1>0, <1>2, <2>1 DEF ConditionClears, DropDeferred, StopTimer, TypeOK, Runs
<1>3. CASE IncidentClears
  <2>1. run' \in Runs
    BY <1>3, EndFacts
  <2> QED
    BY <1>0, <1>3, <2>1 DEF IncidentClears, DropDeferred, StopTimer, TypeOK, Runs
<1>4. CASE ReleaseDeferred
  BY <1>0, <1>4 DEF ReleaseDeferred, Fire, TypeOK, guardVars, sustained, evidence
<1>5. CASE RunTick
  <2>1. /\ run' \in Runs /\ timer' \in {1, None} /\ calls' \in [Slots -> Calls \cup {None}]
    BY <1>5, TickFacts
  <2>2. UNCHANGED <<guardVars, immediate, served, twice, evidence>>
    BY <1>5 DEF RunTick
  <2> QED
    BY <2>1, <2>2 DEF TypeOK, Runs, guardVars, immediate, evidence
<1>6. ASSUME NEW c \in Slots, NEW delivery \in Deliveries, TriggerReturns(c, delivery)
      PROVE  TypeOK'
  <2>1. /\ calls' \in [Slots -> Calls \cup {None}] /\ run' \in Runs /\ calls[c] \in Calls
        /\ timer' = timer \/ timer' \in {1, None}
    BY <1>6, ReturnFacts
  <2>2. (calls[c].from + 1)..calls[c].to \subseteq 1..MaxSteps
    BY <2>1, AlertAssumption DEF Calls, Steps
  <2>3. served' \subseteq 1..MaxSteps /\ twice' \in BOOLEAN
    BY <1>6, <2>2 DEF TriggerReturns, TypeOK
  <2>4. UNCHANGED <<guardVars, immediate, evidence>>
    BY <1>6 DEF TriggerReturns
  <2> QED
    BY <2>1, <2>3, <2>4 DEF TypeOK, Runs, guardVars, immediate, evidence
<1>7. CASE TotalMoves
  BY <1>7 DEF TotalMoves, TypeOK, immediate, sustained, evidence
<1>8. CASE FenceMoves
  BY <1>8 DEF FenceMoves, TypeOK, immediate, sustained, evidence
<1>9. CASE Discard
  BY <1>9 DEF Discard, TypeOK, immediate, sustained, evidence
<1>10. CASE Tick
  <2>1. timer' \in {0, 1, None} /\ silent' \in 0..Stale + 1
    BY <1>0, <1>10, AlertAssumption DEF Tick, TypeOK
  <2>2. unbroken' \in Steps \cup {None}
    BY <1>10, AlertAssumption DEF Tick, TypeOK, Steps
  <2>3. UNCHANGED <<guardVars, immediate, run, calls, served, twice>>
    BY <1>10 DEF Tick
  <2> QED
    BY <2>1, <2>2, <2>3 DEF TypeOK, guardVars, immediate
<1>11. CASE UNCHANGED vars
  BY <1>11 DEF TypeOK, vars, guardVars, immediate, sustained, evidence
<1> QED
  BY <1>1, <1>2, <1>3, <1>4, <1>5, <1>6, <1>7, <1>8, <1>9, <1>10, <1>11 DEF Next

\* The immediate lane remembers the open incident, or has not alerted it.
LEMMA AlertStep == TypeOK /\ AlertInv /\ [Next]_vars => AlertInv'
<1> SUFFICES ASSUME TypeOK, AlertInv, [Next]_vars PROVE AlertInv'
  OBVIOUS
<1>0. /\ incident \in 0..MaxIncidents /\ delivered \in 0..MaxIncidents
      /\ deferred \in 0..MaxIncidents /\ alerts \in [Incidents -> 0..2]
  BY DEF TypeOK
<1>1. CASE Candidate
  <2> DEFINE i == IF open THEN incident ELSE incident + 1
  <2>1. i \in Incidents /\ i # 0 /\ i <= MaxIncidents
    BY <1>0, <1>1, AlertAssumption DEF Candidate, AlertInv, Incidents
  <2>2. incident' = i /\ open' = TRUE
    BY <1>1 DEF Candidate
  <2>3. /\ delivered # 0 => delivered = i
        /\ deferred # 0 => deferred = i /\ delivered = 0
        /\ delivered = 0 => alerts[i] = 0
    <3>1. CASE open
      BY <2>1, <3>1 DEF AlertInv
    <3>2. CASE ~open
      BY <1>0, <2>1, <3>2 DEF AlertInv, Incidents
    <3> QED
      BY <3>1, <3>2
  <2>4. \A j \in Incidents : alerts[j] <= 1 /\ (alerts[j] = 1 => j <= i)
    BY <1>0, <2>1 DEF AlertInv, Incidents
  <2>5. CASE UNCHANGED immediate
    BY <2>1, <2>2, <2>3, <2>4, <2>5 DEF AlertInv, immediate
  <2>6. CASE ~UNCHANGED immediate
    <3>1. ImmediateCandidate(i)
      BY <1>1, <2>6 DEF Candidate
    <3> HIDE DEF i
    <3>2. delivered # i /\ delivered = 0 /\ alerts[i] = 0
      BY <2>3, <2>6, <3>1 DEF ImmediateCandidate
    <3>3. CASE fenced
      <4>1. deferred' = i /\ delivered' = delivered /\ alerts' = alerts
        BY <2>6, <3>1, <3>3 DEF ImmediateCandidate
      <4> QED
        BY <2>1, <2>2, <2>4, <3>2, <4>1 DEF AlertInv
    <3>4. CASE ~fenced
      <4>1. deferred' = 0 /\ delivered' = i /\ Fire(i)
        BY <2>6, <3>1, <3>4 DEF ImmediateCandidate
      <4>2. \A j \in Incidents : alerts'[j] <= 1 /\ (alerts'[j] = 1 => j <= i)
        BY <1>0, <2>1, <2>4, <3>2, <4>1 DEF Fire, Incidents
      <4> QED
        BY <2>1, <2>2, <4>1, <4>2 DEF AlertInv
    <3> QED
      BY <3>3, <3>4
  <2> QED
    BY <2>5, <2>6
<1>2. CASE ConditionClears
  BY <1>2 DEF ConditionClears, DropDeferred, AlertInv
<1>3. CASE IncidentClears
  BY <1>3 DEF IncidentClears, DropDeferred, AlertInv
<1>4. CASE ReleaseDeferred
  <2>1. CASE deferred # 0 /\ up /\ over /\ ~fenced
    <3>1. /\ deferred' = 0 /\ delivered' = deferred /\ Fire(deferred)
          /\ incident' = incident /\ open' = open
      BY <1>4, <2>1 DEF ReleaseDeferred, guardVars
    <3>2. /\ open /\ deferred = incident /\ deferred \in Incidents /\ alerts[deferred] = 0
      BY <1>0, <2>1 DEF AlertInv, Incidents
    <3>3. \A j \in Incidents : alerts'[j] <= 1 /\ (alerts'[j] = 1 => j <= incident)
      BY <1>0, <3>1, <3>2 DEF Fire, AlertInv, Incidents
    <3> QED
      BY <2>1, <3>1, <3>2, <3>3 DEF AlertInv
  <2>2. CASE ~(deferred # 0 /\ up /\ over /\ ~fenced)
    <3>1. /\ delivered' = delivered /\ alerts' = alerts /\ deferred' \in {0, deferred}
          /\ incident' = incident /\ open' = open
      BY <1>4, <2>2 DEF ReleaseDeferred, guardVars
    <3> QED
      BY <3>1 DEF AlertInv
  <2> QED
    BY <2>1, <2>2
<1>5. CASE RunTick
  BY <1>5 DEF RunTick, AlertInv, guardVars, immediate
<1>6. ASSUME NEW c \in Slots, NEW delivery \in Deliveries, TriggerReturns(c, delivery)
      PROVE  AlertInv'
  BY <1>6 DEF TriggerReturns, AlertInv, guardVars, immediate
<1>7. CASE TotalMoves
  BY <1>7 DEF TotalMoves, AlertInv, immediate
<1>8. CASE FenceMoves
  BY <1>8 DEF FenceMoves, AlertInv, immediate
<1>9. CASE Discard
  BY <1>9 DEF Discard, AlertInv, immediate
<1>10. CASE Tick
  BY <1>10 DEF Tick, AlertInv, guardVars, immediate
<1>11. CASE UNCHANGED vars
  BY <1>11 DEF AlertInv, vars, guardVars, immediate
<1> QED
  BY <1>1, <1>2, <1>3, <1>4, <1>5, <1>6, <1>7, <1>8, <1>9, <1>10, <1>11 DEF Next

\* A run never gets ahead of the breach.
LEMMA RunStep == TypeOK /\ AlertInv /\ RunInv /\ [Next]_vars => RunInv'
<1> SUFFICES ASSUME TypeOK, AlertInv, RunInv, [Next]_vars PROVE RunInv'
  OBVIOUS
<1>0. /\ run \in Runs /\ unbroken \in Steps \cup {None} /\ 0 \in Steps
      /\ timer \in {0, 1, None} /\ None # 0 /\ None # 1
  BY AlertAssumption DEF TypeOK, Runs, Steps
<1>1. CASE Candidate
  <2> DEFINE i == IF open THEN incident ELSE incident + 1
  <2>1. i \in Incidents /\ i # 0
    BY <1>1, AlertAssumption DEF Candidate, AlertInv, Incidents, TypeOK
  <2>2. unbroken' = IF unbroken = None THEN 0 ELSE unbroken
    BY <1>1 DEF Candidate
  <2>3. unbroken' \in Steps /\ unbroken' # None /\ (unbroken # None => unbroken' = unbroken)
    BY <1>0, <2>2, AlertAssumption DEF Steps
  <2>4. CASE run' = run /\ timer' = timer
    BY <1>0, <2>3, <2>4 DEF RunInv
  <2>5. CASE ~(run' = run /\ timer' = timer)
    <3>1. SustainedCandidate(i)
      BY <1>1, <2>5 DEF Candidate, sustained
    <3> HIDE DEF i
    <3>2. run'.incident = i /\ run'.running /\ run'.steps = 0 /\ timer' = 1
      BY <2>1, <2>5, <3>1, SustainedFacts
    <3> QED
      BY <1>0, <2>1, <2>3, <3>2, AlertAssumption DEF RunInv, Steps
  <2> QED
    BY <2>4, <2>5
<1>2. CASE ConditionClears
  <2>1. ~run'.running
    BY <1>0, <1>2, StoppedFacts DEF ConditionClears
  <2> QED
    BY <2>1 DEF RunInv
<1>3. CASE IncidentClears
  <2>1. ~run'.running
    BY <1>3, EndFacts
  <2> QED
    BY <2>1 DEF RunInv
<1>4. CASE ReleaseDeferred
  BY <1>4 DEF ReleaseDeferred, RunInv, sustained, evidence
<1>5. CASE RunTick
  <2>1. /\ run' \in Runs /\ timer' \in {1, None} /\ run'.incident = run.incident
        /\ run'.running => run.running /\ run'.steps = run.steps + 1
        /\ run'.running /\ timer' = 1 => run'.steps < MaxSteps
    BY <1>5, TickFacts
  <2>2. timer = 0 /\ unbroken' = unbroken
    BY <1>5 DEF RunTick, evidence
  <2>3. run.running => unbroken # None /\ run.steps + 1 <= unbroken /\ run.incident # 0
    BY <1>0, <2>2, AlertAssumption DEF RunInv, Runs, Steps
  <2> QED
    BY <1>0, <2>1, <2>2, <2>3 DEF RunInv
<1>6. ASSUME NEW c \in Slots, NEW delivery \in Deliveries, TriggerReturns(c, delivery)
      PROVE  RunInv'
  <2>1. /\ run'.incident = run.incident /\ run'.steps = run.steps
        /\ \/ run' = run /\ timer' = timer
           \/ /\ run.running /\ timer' \in {1, None}
              /\ run'.running => run.steps < MaxSteps /\ timer' = 1
    BY <1>6, ReturnFacts
  <2>2. unbroken' = unbroken
    BY <1>6 DEF TriggerReturns, evidence
  <2> QED
    BY <1>0, <2>1, <2>2 DEF RunInv
<1>7. CASE TotalMoves
  BY <1>7 DEF TotalMoves, RunInv, sustained, evidence
<1>8. CASE FenceMoves
  BY <1>8 DEF FenceMoves, RunInv, sustained, evidence
<1>9. CASE Discard
  BY <1>9 DEF Discard, RunInv, sustained, evidence
<1>10. CASE Tick
  <2>1. /\ run' = run /\ timer # 0 /\ timer' = (IF timer = None THEN None ELSE 0)
        /\ unbroken' = IF unbroken \in {None, MaxSteps} THEN unbroken ELSE unbroken + 1
    BY <1>10 DEF Tick
  <2>2. unbroken # None =>
          /\ unbroken' # None /\ unbroken <= unbroken'
          /\ unbroken < unbroken' \/ unbroken' = MaxSteps
    BY <1>0, <2>1, AlertAssumption DEF Steps
  <2>3. run.running => run.incident # 0 /\ unbroken' # None /\ run.steps <= unbroken'
    BY <1>0, <2>1, <2>2, AlertAssumption DEF RunInv, Runs, Steps
  <2>4. run.running /\ timer # None => run.steps < MaxSteps /\ run.steps < unbroken'
    BY <1>0, <2>1, <2>2, AlertAssumption DEF RunInv, Runs, Steps
  <2> QED
    BY <1>0, <2>1, <2>3, <2>4 DEF RunInv
<1>11. CASE UNCHANGED vars
  BY <1>11 DEF RunInv, vars, sustained, evidence
<1> QED
  BY <1>1, <1>2, <1>3, <1>4, <1>5, <1>6, <1>7, <1>8, <1>9, <1>10, <1>11 DEF Next

\* One call at most is the newest run's, and the run waits for it.
LEMMA CallStep == TypeOK /\ AlertInv /\ RunInv /\ CallInv /\ [Next]_vars => CallInv'
<1> SUFFICES ASSUME TypeOK, AlertInv, RunInv, CallInv, [Next]_vars PROVE CallInv'
  OBVIOUS
<1>0. /\ run \in Runs /\ calls \in [Slots -> Calls \cup {None}] /\ None # 0
  BY AlertAssumption DEF TypeOK, Runs
<1>1. CASE Candidate
  <2> DEFINE i == IF open THEN incident ELSE incident + 1
  <2>1. i \in Incidents
    BY <1>1, AlertAssumption DEF Candidate, AlertInv, Incidents, TypeOK
  <2>2. CASE run' = run /\ timer' = timer /\ calls' = calls
    BY <2>2 DEF CallInv, Live
  <2>3. CASE ~(run' = run /\ timer' = timer /\ calls' = calls)
    <3>1. SustainedCandidate(i)
      BY <1>1, <2>3 DEF Candidate, sustained
    <3> HIDE DEF i
    <3>2. \A c \in Slots : calls'[c] # None => ~calls'[c].live
      BY <2>1, <2>3, <3>1, SustainedFacts
    <3> QED
      BY <3>2 DEF CallInv, Live
  <2> QED
    BY <2>2, <2>3
<1>2. CASE ConditionClears
  <2>1. /\ ~run'.running /\ run'.incident = run.incident /\ run'.mark = run.mark
        /\ calls' = calls
    BY <1>0, <1>2, StoppedFacts DEF ConditionClears
  <2> QED
    BY <2>1 DEF CallInv, Live
<1>3. CASE IncidentClears
  <2>1. ~run'.running /\ run'.incident = 0 /\ calls' = calls
    BY <1>3, EndFacts DEF IncidentClears
  <2>2. \A c \in Slots : calls[c] # None => calls[c].incident # 0
    BY <1>0 DEF Calls, Incidents
  <2> QED
    BY <2>1, <2>2 DEF CallInv, Live
<1>4. CASE ReleaseDeferred
  BY <1>4 DEF ReleaseDeferred, CallInv, Live, sustained
<1>5. CASE RunTick
  <2>1. timer = 0
    BY <1>5 DEF RunTick
  <2>2. /\ run'.incident = run.incident /\ run'.mark = run.mark
        /\ run'.running => run.running
    BY <1>5, TickFacts
  <2>3. CASE calls' = calls
    <3>1. \A c \in Slots : Live(c)' <=> Live(c)
      BY <2>3 DEF Live
    <3>2. \A c \in Slots : Live(c) => ~run.running
      BY <1>0, <2>1 DEF CallInv
    <3> QED
      BY <2>2, <2>3, <3>2 DEF CallInv, Live
  <2>4. CASE calls' # calls
    <3>1. /\ run.running /\ timer' = None
          /\ \A c \in Slots :
               \/ calls'[c] = calls[c]
               \/ /\ c = FreeSlot /\ calls'[c].incident = run.incident
                  /\ calls'[c].from = run.mark /\ calls'[c].from < calls'[c].to
      BY <1>5, <2>4, TickFacts
    <3>2. \A c \in Slots : ~Live(c)
      BY <1>0, <2>1, <3>1 DEF CallInv
    <3>3. \A c \in Slots : Live(c)' =>
            /\ c = FreeSlot /\ calls'[c].incident = run.incident
            /\ calls'[c].from = run.mark /\ calls'[c].from < calls'[c].to
      BY <3>1, <3>2 DEF Live
    <3>5. \A c, d \in Slots : Live(c)' /\ Live(d)' => c = d
      BY <3>3
    <3>6. ASSUME NEW c \in Slots, Live(c)'
          PROVE  /\ run'.running => timer' = None /\ calls'[c].incident = run'.incident
                 /\ calls'[c].incident = run'.incident => calls'[c].from = run'.mark
                 /\ calls'[c].from < calls'[c].to
      BY <2>2, <3>1, <3>3, <3>6
    <3> QED
      BY <3>5, <3>6 DEF CallInv, Live
  <2> QED
    BY <2>3, <2>4
<1>6. ASSUME NEW c \in Slots, NEW delivery \in Deliveries, TriggerReturns(c, delivery)
      PROVE  CallInv'
  <2>1. \A d \in Slots : Live(d)' => Live(d) /\ d # c /\ calls'[d] = calls[d]
    BY <1>0, <1>6, ReturnFacts DEF Live
  <2>2. CASE run' = run /\ timer' = timer
    BY <2>1, <2>2 DEF CallInv
  <2>3. CASE ~(run' = run /\ timer' = timer)
    <3>1. Live(c)
      BY <1>6, <2>3, ReturnFacts DEF Live, TriggerReturns
    <3>2. \A d \in Slots : ~Live(d)'
      BY <2>1, <3>1 DEF CallInv
    <3> QED
      BY <3>2 DEF CallInv
  <2> QED
    BY <2>2, <2>3
<1>7. CASE TotalMoves
  BY <1>7 DEF TotalMoves, CallInv, Live, sustained
<1>8. CASE FenceMoves
  BY <1>8 DEF FenceMoves, CallInv, Live, sustained
<1>9. CASE Discard
  BY <1>9 DEF Discard, CallInv, Live, sustained
<1>10. CASE Tick
  BY <1>10 DEF Tick, CallInv, Live
<1>11. CASE UNCHANGED vars
  BY <1>11 DEF CallInv, Live, vars, sustained
<1> QED
  BY <1>1, <1>2, <1>3, <1>4, <1>5, <1>6, <1>7, <1>8, <1>9, <1>10, <1>11 DEF Next

\* A run that goes on arms its timer or has just emitted a call; an answer it waits for is of
\* its own incident, so it goes on or ends.
LEMMA LaneStep == TypeOK /\ AlertInv /\ RunInv /\ CallInv /\ LaneInv /\ [Next]_vars => LaneInv'
<1> SUFFICES ASSUME TypeOK, AlertInv, RunInv, CallInv, LaneInv, [Next]_vars PROVE LaneInv'
  OBVIOUS
<1>0. /\ run \in Runs /\ calls \in [Slots -> Calls \cup {None}]
      /\ None # 0 /\ None # 1
  BY AlertAssumption DEF TypeOK, Runs
<1> DEFINE i == IF open THEN incident ELSE incident + 1
           Waits == \E c \in Slots : Live(c)
<1>1. CASE Candidate
  <2>1. i \in Incidents /\ i # 0 /\ incident' = i /\ open'
    BY <1>1, AlertAssumption DEF Candidate, AlertInv, Incidents, TypeOK
  <2>2. CASE up
    <3>1. ImmediateCandidate(i) /\ SustainedCandidate(i)
      BY <1>1, <2>2 DEF Candidate
    <3> HIDE DEF i
    <3>2. /\ run'.incident = i
          /\ \/ run' = run /\ timer' = timer /\ calls' = calls
             \/ run'.running /\ timer' = 1
      BY <2>1, <3>1, SustainedFacts
    <3>3. run'.running => timer' # None \/ Waits'
      BY <1>0, <3>2 DEF LaneInv, Live
    <3>4. deferred' # 0 <=> retry'
      BY <2>1, <3>1 DEF ImmediateCandidate, LaneInv, immediate
    <3> QED
      BY <2>1, <3>2, <3>3, <3>4 DEF LaneInv
  <2>3. CASE ~up
    <3>1. /\ run' = run /\ timer' = timer /\ calls' = calls
          /\ deferred' = deferred /\ retry' = retry
      BY <1>1, <2>3 DEF Candidate, immediate, sustained
    <3> QED
      BY <2>1, <3>1 DEF LaneInv, Live
  <2> QED
    BY <2>2, <2>3
<1>2. CASE ConditionClears
  <2>1. ~run'.running /\ run'.incident = run.incident
    BY <1>0, <1>2, StoppedFacts DEF ConditionClears
  <2>2. incident' = incident /\ open' = open /\ DropDeferred
    BY <1>2 DEF ConditionClears
  <2> QED
    BY <2>1, <2>2 DEF LaneInv, DropDeferred
<1>3. CASE IncidentClears
  <2>1. ~run'.running /\ run'.incident = 0
    BY <1>3, EndFacts
  <2>2. DropDeferred
    BY <1>3 DEF IncidentClears
  <2> QED
    BY <2>1, <2>2 DEF LaneInv, DropDeferred
<1>4. CASE ReleaseDeferred
  <2>1. deferred' # 0 <=> retry'
    BY <1>4 DEF ReleaseDeferred
  <2> QED
    BY <1>4, <2>1 DEF ReleaseDeferred, LaneInv, Live, sustained, guardVars
<1>5. CASE RunTick
  <2>1. /\ run'.incident = run.incident /\ incident' = incident /\ open' = open
        /\ deferred' = deferred /\ retry' = retry
    BY <1>5, TickFacts DEF RunTick, guardVars, immediate
  <2>2. run'.running => timer' # None \/ Waits'
    BY <1>5, TickWaits
  <2> QED
    BY <2>1, <2>2 DEF LaneInv
<1>6. ASSUME NEW c \in Slots, NEW delivery \in Deliveries, TriggerReturns(c, delivery)
      PROVE  LaneInv'
  <2>1. /\ run'.incident = run.incident /\ incident' = incident /\ open' = open
        /\ deferred' = deferred /\ retry' = retry
    BY <1>6, ReturnFacts DEF TriggerReturns, guardVars, immediate
  <2>2. CASE run' = run /\ timer' = timer /\ ~Current(calls[c])
    <3>1. calls[c] # None /\ calls' = [calls EXCEPT ![c] = None]
      BY <1>6 DEF TriggerReturns
    <3>2. run.running => ~Live(c)
      BY <2>2 DEF CallInv, Current, Live
    <3>3. \A d \in Slots : d # c => calls'[d] = calls[d]
      BY <1>0, <3>1
    <3>4. run'.running => timer' # None \/ Waits'
      BY <2>2, <3>2, <3>3 DEF LaneInv, Live
    <3> QED
      BY <2>1, <3>4 DEF LaneInv
  <2>3. CASE run'.running => timer' = 1
    BY <1>0, <2>1, <2>3 DEF LaneInv
  <2> QED
    BY <1>6, <2>2, <2>3, ReturnFacts
<1>7. CASE TotalMoves
  BY <1>7 DEF TotalMoves, LaneInv, Live, immediate, sustained
<1>8. CASE FenceMoves
  BY <1>8 DEF FenceMoves, LaneInv, Live, immediate, sustained
<1>9. CASE Discard
  BY <1>9 DEF Discard, LaneInv, Live, immediate, sustained
<1>10. CASE Tick
  BY <1>0, <1>10 DEF Tick, LaneInv, Live, guardVars, immediate
<1>11. CASE UNCHANGED vars
  BY <1>11 DEF LaneInv, Live, vars, guardVars, immediate, sustained
<1> QED
  BY <1>1, <1>2, <1>3, <1>4, <1>5, <1>6, <1>7, <1>8, <1>9, <1>10, <1>11 DEF Next

\* The mark moves only over thresholds alerted by the same step.
LEMMA MarkStep == TypeOK /\ AlertInv /\ RunInv /\ CallInv /\ MarkServed /\ [Next]_vars => MarkServed'
<1> SUFFICES ASSUME TypeOK, AlertInv, RunInv, CallInv, MarkServed, [Next]_vars
             PROVE  MarkServed'
  OBVIOUS
<1>0. /\ run \in Runs /\ 1..0 = {}
  BY DEF TypeOK, Runs
<1>1. CASE Candidate
  <2> DEFINE i == IF open THEN incident ELSE incident + 1
  <2>1. i \in Incidents
    BY <1>1, AlertAssumption DEF Candidate, AlertInv, Incidents, TypeOK
  <2>2. CASE run' = run /\ served' = served
    BY <2>2 DEF MarkServed
  <2>3. CASE ~(run' = run /\ served' = served)
    <3>1. SustainedCandidate(i)
      BY <1>1, <2>3 DEF Candidate, sustained
    <3> HIDE DEF i
    <3>2. /\ served' = (IF run.incident = i THEN served ELSE {})
          /\ run'.mark = (IF run.incident = i THEN run.mark ELSE 0)
      BY <2>1, <3>1, SustainedFacts
    <3> QED
      BY <1>0, <3>2 DEF MarkServed
  <2> QED
    BY <2>2, <2>3
<1>2. CASE ConditionClears
  <2>1. run'.mark = run.mark /\ served' = served
    BY <1>0, <1>2, StoppedFacts DEF ConditionClears
  <2> QED
    BY <2>1 DEF MarkServed
<1>3. CASE IncidentClears
  <2>1. run'.mark = 0
    BY <1>3, EndFacts
  <2> QED
    BY <1>0, <2>1 DEF MarkServed
<1>4. CASE ReleaseDeferred
  BY <1>4 DEF ReleaseDeferred, MarkServed, sustained
<1>5. CASE RunTick
  <2>1. run'.mark = run.mark /\ served' = served
    BY <1>5, TickFacts DEF RunTick
  <2> QED
    BY <2>1 DEF MarkServed
<1>6. ASSUME NEW c \in Slots, NEW delivery \in Deliveries, TriggerReturns(c, delivery)
      PROVE  MarkServed'
  <2>1. \/ run'.mark = run.mark /\ served \subseteq served'
        \/ /\ calls[c].live /\ calls[c].incident = run.incident
           /\ run'.mark = calls[c].to
           /\ served' = served \cup ((calls[c].from + 1)..calls[c].to)
    BY <1>6, ReturnFacts
  <2>2. CASE run'.mark = run.mark /\ served \subseteq served'
    BY <2>2 DEF MarkServed
  <2>3. CASE /\ calls[c].live /\ calls[c].incident = run.incident
             /\ run'.mark = calls[c].to
             /\ served' = served \cup ((calls[c].from + 1)..calls[c].to)
    <3>1. calls[c] # None /\ calls[c] \in Calls
      BY <1>6, ReturnFacts DEF TriggerReturns
    <3>2. calls[c].from = run.mark
      BY <2>3, <3>1 DEF CallInv, Live
    <3>3. calls[c].from \in Nat /\ calls[c].to \in Nat /\ run.mark \in Nat
      BY <1>0, <3>1 DEF Calls, Runs, Steps
    <3>4. 1..calls[c].to \subseteq (1..run.mark) \cup ((calls[c].from + 1)..calls[c].to)
      BY <3>2, <3>3
    <3> QED
      BY <2>3, <3>4 DEF MarkServed
  <2> QED
    BY <2>1, <2>2, <2>3
<1>7. CASE TotalMoves
  BY <1>7 DEF TotalMoves, MarkServed, sustained
<1>8. CASE FenceMoves
  BY <1>8 DEF FenceMoves, MarkServed, sustained
<1>9. CASE Discard
  BY <1>9 DEF Discard, MarkServed, sustained
<1>10. CASE Tick
  BY <1>10 DEF Tick, MarkServed
<1>11. CASE UNCHANGED vars
  BY <1>11 DEF MarkServed, vars, sustained
<1> QED
  BY <1>1, <1>2, <1>3, <1>4, <1>5, <1>6, <1>7, <1>8, <1>9, <1>10, <1>11 DEF Next

\* A new call is a due tick of a run, one step further, which the breach has lasted.
LEMMA CrossingStep ==
  ASSUME TypeOK, AlertInv, RunInv, [Next]_vars, NEW c \in Slots, calls[c] = None, calls'[c] # None
  PROVE  unbroken # None /\ unbroken >= calls'[c].to
<1>1. CASE RunTick
  <2>1. timer = 0
    BY <1>1 DEF RunTick
  <2>2. run.running /\ calls'[c].to = run.steps + 1
    BY <1>1, TickFacts
  <2>3. /\ run.steps \in Nat /\ unbroken \in Nat \cup {None} /\ None # 0
    BY AlertAssumption DEF TypeOK, Steps
  <2>4. unbroken # None /\ run.steps < unbroken
    BY <2>1, <2>2, <2>3 DEF RunInv
  <2> QED
    BY <2>2, <2>3, <2>4
<1>2. CASE Candidate
  <2> DEFINE i == IF open THEN incident ELSE incident + 1
  <2>1. i \in Incidents
    BY <1>2, AlertAssumption DEF Candidate, AlertInv, Incidents, TypeOK
  <2>2. SustainedCandidate(i)
    BY <1>2 DEF Candidate, sustained
  <2> HIDE DEF i
  <2> QED
    BY <2>1, <2>2, SustainedFacts
<1>3. ASSUME NEW d \in Slots, NEW delivery \in Deliveries, TriggerReturns(d, delivery)
      PROVE  FALSE
  BY <1>3, ReturnFacts DEF TypeOK
<1>4. CASE calls' = calls
  BY <1>4
<1> QED
  BY <1>1, <1>2, <1>3, <1>4
     DEF Next, ConditionClears, IncidentClears, ReleaseDeferred, TotalMoves, FenceMoves, Discard,
         Tick, vars, sustained
-----------------------------------------------------------------------------
(* The promise to a listener                                                 *)

\* The immediate alert of an incident is its first.
LEMMA FirePromise ==
  ASSUME TypeOK, AlertInv, NEW i \in Incidents, alerts[i] = 0, ~fenced, Fire(i)
  PROVE  Promise!Alert(i)
BY DEF TypeOK, Fire, Promise!Alert

\* A published candidate is a breach: either lane takes it up afresh, or has it already.
LEMMA CandidatePromise == IInv /\ Candidate => Promise!Breach
<1> SUFFICES ASSUME IInv, Candidate PROVE Promise!Breach
  OBVIOUS
<1> DEFINE i == IF open THEN incident ELSE incident + 1
<1>0. TypeOK /\ AlertInv
  BY DEF IInv
<1>1. i \in Incidents /\ i # 0 /\ incident' = i /\ open' = TRUE /\ fenced' = fenced
  BY <1>0, AlertAssumption DEF Candidate, AlertInv, Incidents, TypeOK
<1>2. i \in Promise!Incidents
  BY <1>1 DEF Incidents, Promise!Incidents
<1>3. CASE ~up
  <2>1. alerts' = alerts /\ run' = run /\ served' = served
    BY <1>3 DEF Candidate, immediate, sustained
  <2> QED
    BY <1>1, <1>2, <2>1 DEF Promise!Breach
<1>4. CASE up
  <2>1. ImmediateCandidate(i) /\ SustainedCandidate(i)
    BY <1>4 DEF Candidate
  <2>2. alerts[i] = 0 \/ delivered = i \/ deferred = i
    <3>1. CASE open
      BY <1>0, <1>1, <3>1 DEF AlertInv
    <3>2. CASE ~open
      <4>1. i = incident + 1 /\ incident \in Nat
        BY <1>0, <3>2 DEF TypeOK
      <4>2. alerts[i] \in 0..2 /\ alerts[i] <= 1 /\ (alerts[i] = 1 => i <= incident)
        BY <1>0, <1>1 DEF AlertInv, TypeOK
      <4> QED
        BY <4>1, <4>2
    <3> QED
      BY <3>1, <3>2
  <2>3. Promise!Alert(i) \/ alerts' = alerts
    BY <1>0, <1>1, <2>1, <2>2, FirePromise DEF ImmediateCandidate, immediate
  <2>4. incident' = (IF open THEN incident ELSE incident + 1)
    BY <1>1
  <2> HIDE DEF i
  <2>5. /\ run'.incident = i
        /\ run'.mark = (IF run.incident = i THEN run.mark ELSE 0)
        /\ served' = (IF run.incident = i THEN served ELSE {})
    BY <1>0, <1>1, <2>1, SustainedFacts
  <2>6. Promise!Ladder(i)
    BY <2>5 DEF Promise!Ladder
  <2> QED
    BY <1>1, <1>2, <2>3, <2>4, <2>6 DEF Promise!Breach
<1> QED
  BY <1>3, <1>4

\* An answer climbs from the mark, adds a window of the incident, or changes nothing.
LEMMA ReturnPromise ==
  ASSUME IInv, NEW c \in Slots, NEW delivery \in Deliveries, TriggerReturns(c, delivery)
  PROVE  Promise!Climb \/ Promise!ClimbLate \/ UNCHANGED Promise!promised
<1>0. TypeOK /\ CallInv /\ LaneInv
  BY DEF IInv
<1>1. /\ incident' = incident /\ open' = open /\ fenced' = fenced /\ alerts' = alerts
      /\ run'.incident = run.incident /\ calls[c] \in Calls /\ calls[c] # None
  BY <1>0, ReturnFacts DEF TriggerReturns, guardVars, immediate
<1>2. calls[c].incident = run.incident => open /\ run.incident = incident
  BY <1>0, <1>1 DEF LaneInv, Calls, Incidents
<1>3. /\ calls[c].from \in 0..MaxSteps /\ calls[c].to \in 1..MaxSteps
  BY <1>1 DEF Calls, Steps
<1>4. CASE run'.mark = run.mark /\ served' = served
  BY <1>1, <1>4 DEF Promise!promised
<1>5. CASE /\ run' = run /\ run.incident = calls[c].incident
           /\ served' = served \cup ((calls[c].from + 1)..calls[c].to)
  BY <1>1, <1>2, <1>3, <1>5 DEF Promise!ClimbLate
<1>6. CASE /\ run.running /\ calls[c].live /\ calls[c].incident = run.incident
           /\ run'.mark = calls[c].to
           /\ served' = served \cup ((calls[c].from + 1)..calls[c].to)
  <2>1. calls[c].from = run.mark /\ calls[c].from < calls[c].to
    BY <1>0, <1>1, <1>6 DEF CallInv, Live
  <2>2. run'.mark \in (run.mark + 1)..MaxSteps
    BY <1>3, <1>6, <2>1, AlertAssumption
  <2> QED
    BY <1>1, <1>2, <1>6, <2>1, <2>2 DEF Promise!Climb
<1> QED
  BY <1>0, <1>4, <1>5, <1>6, ReturnFacts

\* Every step of the lanes is a step of the promise, or changes nothing of it.
LEMMA PromiseStep == IInv /\ [Next]_vars => [Promise!Next]_Promise!promised
<1> SUFFICES ASSUME IInv, [Next]_vars PROVE Promise!Next \/ UNCHANGED Promise!promised
  OBVIOUS
<1>0. TypeOK /\ AlertInv /\ RunInv /\ LaneInv /\ run \in Runs
  BY DEF IInv, TypeOK, Runs
<1>1. CASE Candidate
  BY <1>1, CandidatePromise DEF Promise!Next
<1>2. CASE ConditionClears
  <2>1. run'.incident = run.incident /\ run'.mark = run.mark
    BY <1>0, <1>2, StoppedFacts DEF ConditionClears
  <2> QED
    BY <1>2, <2>1 DEF ConditionClears, Promise!promised
<1>3. CASE IncidentClears
  <2>1. run'.incident = 0 /\ run'.mark = 0
    BY <1>0, <1>3, EndFacts
  <2> QED
    BY <1>3, <2>1 DEF IncidentClears, Promise!Close, Promise!Next
<1>4. CASE ReleaseDeferred
  <2>1. incident' = incident /\ open' = open /\ fenced' = fenced /\ run' = run /\ served' = served
    BY <1>4 DEF ReleaseDeferred, guardVars, sustained
  <2>2. CASE deferred # 0 /\ up /\ over /\ ~fenced
    <3>1. Fire(deferred)
      BY <1>4, <2>2 DEF ReleaseDeferred
    <3>2. /\ open /\ deferred = incident /\ deferred \in Incidents /\ alerts[incident] = 0
      BY <1>0, <2>2, AlertAssumption DEF AlertInv, Incidents, TypeOK
    <3>3. Promise!Alert(incident)
      BY <1>0, <2>2, <3>1, <3>2, FirePromise
    <3> QED
      BY <2>1, <3>2, <3>3 DEF Promise!AlertLate, Promise!Next
  <2>3. CASE ~(deferred # 0 /\ up /\ over /\ ~fenced)
    BY <1>4, <2>1, <2>3 DEF ReleaseDeferred, Promise!promised
  <2> QED
    BY <2>2, <2>3
<1>5. CASE RunTick
  <2>1. run'.incident = run.incident /\ run'.mark = run.mark
    BY <1>0, <1>5, TickFacts
  <2> QED
    BY <1>5, <2>1 DEF RunTick, guardVars, immediate, Promise!promised
<1>6. ASSUME NEW c \in Slots, NEW delivery \in Deliveries, TriggerReturns(c, delivery)
      PROVE  Promise!Next \/ UNCHANGED Promise!promised
  BY <1>6, ReturnPromise DEF Promise!Next
<1>7. CASE TotalMoves
  BY <1>7 DEF TotalMoves, immediate, sustained, Promise!promised
<1>8. CASE FenceMoves
  BY <1>8 DEF FenceMoves, immediate, sustained, Promise!Fence, Promise!Next
<1>9. CASE Discard
  BY <1>9 DEF Discard, immediate, sustained, Promise!promised
<1>10. CASE Tick
  BY <1>10 DEF Tick, guardVars, immediate, Promise!promised
<1>11. CASE UNCHANGED vars
  BY <1>11 DEF vars, guardVars, immediate, sustained, Promise!promised
<1> QED
  BY <1>1, <1>2, <1>3, <1>4, <1>5, <1>6, <1>7, <1>8, <1>9, <1>10, <1>11 DEF Next
-----------------------------------------------------------------------------
(* The theorems                                                              *)

\* The inductive invariant holds in every reachable state.
THEOREM Inductive == Spec => []IInv
<1>1. IInv /\ [Next]_vars => IInv'
  BY TypeStep, AlertStep, RunStep, CallStep, LaneStep, MarkStep DEF IInv
<1> QED
  BY InitIInv, <1>1, PTL DEF Spec

\* Every variable keeps its type (capacityShortfallAlertDispatch.ts).
THEOREM TypeCorrect == Spec => []TypeOK
<1>1. IInv => TypeOK
  BY DEF IInv
<1> QED
  BY Inductive, <1>1, PTL

\* The immediate lane alerts an incident once at most, however its fence moves and however
\* often the guard publishes it (onCandidate, releaseDeferred).
THEOREM AlertOnce == Spec => []AlertOncePerIncident
<1>1. IInv => AlertOncePerIncident
  BY DEF IInv, AlertInv, AlertOncePerIncident
<1> QED
  BY Inductive, <1>1, PTL

\* The sustained lane marks no threshold that was not alerted in the incident, whatever
\* calls of older runs and incidents answer, and in what order (runTick).
THEOREM MarksServed == Spec => []MarkServed
<1>1. IInv => MarkServed
  BY DEF IInv
<1> QED
  BY Inductive, <1>1, PTL

\* No crossing is emitted before the breach has lasted its steps (onCandidate, runTick, stop).
THEOREM CrossingAlwaysSustained == Spec => CrossingSustained
<1>1. IInv /\ [Next]_vars =>
        [\A c \in Slots : calls[c] = None /\ calls'[c] # None =>
           unbroken # None /\ unbroken >= calls'[c].to]_vars
  BY CrossingStep DEF IInv
<1> QED
  BY Inductive, <1>1, PTL DEF Spec, CrossingSustained

\* Neither lane is left without its timer or an answer to wait for (onCandidate, runTick,
\* releaseDeferred).
THEOREM LanesWake == Spec => []AlertsHaveWakeup
<1>1. IInv => AlertsHaveWakeup
  BY DEF IInv, LaneInv, CallInv, AlertsHaveWakeup, Live, Current
<1> QED
  BY Inductive, <1>1, PTL

\* The two lanes implement AlertPromise (setup/capacityShortfallAlertDispatch.ts).
THEOREM KeepsAlertPromise == Spec => PromiseSpec
<1>1. Init => Promise!Init
  BY DEF Init, Promise!Init, Incidents, Promise!Incidents
<1> QED
  BY <1>1, PromiseStep, Inductive, PTL DEF Spec, PromiseSpec, Promise!Spec
=============================================================================
