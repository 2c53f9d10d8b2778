---------------------------- MODULE AlertPromise ----------------------------
(***************************************************************************)
(* What the two Flow alerts of a shortfall promise a listener, with timers, *)
(* runs, retries and pending triggers left out: an incident gets one        *)
(* immediate alert, while it is open and the fence is; the sustained lane   *)
(* climbs the thresholds of the incident it is about, each climb alerting   *)
(* every threshold above the mark up to the new one, and starts from        *)
(* nothing with the next incident.                                          *)
(***************************************************************************)
EXTENDS Naturals

CONSTANTS MaxSteps, MaxIncidents

VARIABLES
  incident, open,   \* the newest incident, and whether it lasts
  fenced,           \* the home's authority is fenced
  alerts,           \* immediate alerts by incident
  ladder,           \* the incident the sustained lane is about, 0 if none
  mark, served      \* its highest threshold served, and those alerted

promised == <<incident, open, fenced, alerts, ladder, mark, served>>

Incidents == 1..MaxIncidents

Init ==
  /\ incident = 0 /\ open = FALSE /\ fenced = FALSE
  /\ alerts = [i \in Incidents |-> 0]
  /\ ladder = 0 /\ mark = 0 /\ served = {}

\* The immediate alert of incident i.
Alert(i) == ~fenced /\ alerts[i] = 0 /\ alerts' = [alerts EXCEPT ![i] = 1]

\* The ladder of incident i, from nothing unless it is climbed already.
Ladder(i) ==
  /\ ladder' = i
  /\ IF ladder = i THEN UNCHANGED <<mark, served>> ELSE mark' = 0 /\ served' = {}

\* The breach goes on, or a new incident opens; the lanes may be gone.
Breach ==
  /\ incident' = (IF open THEN incident ELSE incident + 1) /\ incident' \in Incidents
  /\ open' = TRUE
  /\ Alert(incident') \/ UNCHANGED alerts
  /\ Ladder(incident') \/ UNCHANGED <<ladder, mark, served>>
  /\ UNCHANGED fenced

\* An alert put off is given once the fence is open.
AlertLate ==
  /\ open /\ Alert(incident)
  /\ UNCHANGED <<incident, open, fenced, ladder, mark, served>>

\* A crossing is delivered: all thresholds above the mark up to another one.
Climb ==
  /\ open /\ ladder = incident
  /\ mark' \in (mark + 1)..MaxSteps
  /\ served' = served \cup ((mark + 1)..mark')
  /\ UNCHANGED <<incident, open, fenced, alerts, ladder>>

\* A crossing of a run given up is delivered after all: it alerts, and marks nothing.
ClimbLate ==
  /\ open /\ ladder = incident
  /\ \E from \in 0..MaxSteps, to \in 1..MaxSteps : served' = served \cup ((from + 1)..to)
  /\ UNCHANGED <<incident, open, fenced, alerts, ladder, mark>>

Close ==
  /\ open /\ open' = FALSE
  /\ ladder' = 0 /\ mark' = 0 /\ served' = {}
  /\ UNCHANGED <<incident, fenced, alerts>>

Fence == fenced' = ~fenced /\ UNCHANGED <<incident, open, alerts, ladder, mark, served>>

Next == Breach \/ AlertLate \/ Climb \/ ClimbLate \/ Close \/ Fence

Spec == Init /\ [][Next]_promised
=============================================================================
