-------------------------- MODULE ShortfallProofs --------------------------
(***************************************************************************)
(* The incident, its copy outside the guard and its recovery clock, for all *)
(* constants.  The inductive invariant adds two facts to the properties: a  *)
(* flush that is landing has materialised the very transition it will drop, *)
(* and the recovery clock never runs ahead of the calm it measures.         *)
(***************************************************************************)
EXTENDS Shortfall, TLAPS

LandingOK ==
  gate.landing => gate.deferred # None /\ effect = gate.deferred.to

ClockOK == clearFor # None => clearFor <= calm

IInv == TypeOK /\ IncidentMirrored /\ DeferredHasWakeup /\ LandingOK /\ ClockOK

GateTypes == gate \in Gates /\ planLatch \in BOOLEAN /\ effect \in BOOLEAN
               /\ persisted \in BOOLEAN /\ wrote \in BOOLEAN
GateInv == DeferredHasWakeup /\ LandingOK
Mirror(g, e, short) ==
  up => IF g.deferred = None THEN e = short ELSE g.deferred.to = short

-----------------------------------------------------------------------------
(* The gate                                                                 *)

\* What materialising a transition leaves: the executor shows it.
LEMMA MaterialiseShows ==
  ASSUME GateTypes, NEW to \in BOOLEAN, Materialise(to)
  PROVE  effect' = to /\ planLatch' \in BOOLEAN /\ persisted' \in BOOLEAN /\ wrote' \in BOOLEAN
<1>1. CASE to /\ effect
  BY <1>1 DEF Materialise, GateTypes, latches
<1>2. CASE ~(to /\ effect)
  <2>1. effect' = to /\ planLatch' = to
    BY <1>2 DEF Materialise
  <2>2. persisted' = IF Writes(to) THEN to ELSE persisted
    BY <1>2 DEF Materialise
  <2>3. wrote' = (wrote \/ Writes(to))
    BY <1>2 DEF Materialise
  <2>4. QED
    BY <2>1, <2>2, <2>3 DEF GateTypes
<1>3. QED
  BY <1>1, <1>2

\* The gate after a flush: typed, awake, and landing only on what it has materialised.
LEMMA FlushOK ==
  ASSUME GateTypes, NEW g \in Gates, NEW closed \in BOOLEAN, NEW allow \in BOOLEAN,
         NEW ok \in BOOLEAN, up \in BOOLEAN, up' = up,
         g.landing => g.deferred # None /\ effect = g.deferred.to,
         Flush(g, closed, allow, ok)
  PROVE  /\ GateTypes' /\ GateInv'
         /\ up => gate'.deferred = g.deferred
         /\ g.deferred = None => effect' = effect
<1>1. CASE ~up
  <2>1. gate' = [g EXCEPT !.deferred = None, !.landing = FALSE] /\ UNCHANGED latches
    BY <1>1 DEF Flush
  <2>2. gate' \in Gates /\ ~gate'.landing
    BY <2>1 DEF Gates
  <2>3. QED
    BY <1>1, <2>1, <2>2 DEF GateTypes, GateInv, DeferredHasWakeup, LandingOK, latches
<1>2. CASE gate' = Scheduled(g) /\ UNCHANGED latches
  <2>1. /\ gate' \in Gates /\ gate'.retry
        /\ gate'.deferred = g.deferred /\ gate'.landing = g.landing
    BY <1>2 DEF Scheduled, Gates
  <2>2. QED
    BY <1>2, <2>1 DEF GateTypes, GateInv, DeferredHasWakeup, LandingOK, latches
<1>3. CASE gate' = g /\ UNCHANGED latches /\ g.deferred = None
  BY <1>3 DEF GateTypes, GateInv, DeferredHasWakeup, LandingOK, latches
<1>4. CASE /\ up /\ g.deferred # None
           /\ gate' = [g EXCEPT !.landing = TRUE] /\ Materialise(g.deferred.to)
  <2>1. /\ gate' \in Gates /\ gate'.landing /\ gate'.deferred = g.deferred
    BY <1>4 DEF Gates
  <2>2. g.deferred.to \in BOOLEAN
    BY <1>4 DEF Gates, Transitions
  <2>3. effect' = g.deferred.to /\ planLatch' \in BOOLEAN /\ persisted' \in BOOLEAN
        /\ wrote' \in BOOLEAN
    BY <1>4, <2>2, MaterialiseShows
  <2>4. QED
    BY <1>4, <2>1, <2>2, <2>3 DEF GateTypes, GateInv, DeferredHasWakeup, LandingOK
<1>5. QED
  BY <1>1, <1>2, <1>3, <1>4 DEF Flush

\* A transition handed to the gate takes the place of the one before and is shown or held.
LEMMA EmitOK ==
  ASSUME GateTypes, NEW to \in BOOLEAN, NEW ok \in BOOLEAN, up \in BOOLEAN, up' = up,
         fenced \in BOOLEAN, prepared \in BOOLEAN, Emit(to, ok)
  PROVE  GateTypes' /\ GateInv' /\ Mirror(gate', effect', to)
<1> DEFINE g == Superseding(to)
<1>1. /\ g \in Gates /\ ~g.landing /\ g.deferred = [to |-> to, held |-> prepared]
  BY DEF GateTypes, Gates, Superseding, Transitions
<1>2. g.deferred # None /\ g.deferred.to = to
  BY <1>1, ShortfallAssumption DEF Transitions
<1>3. Flush(g, Fenced, FALSE, ok)
  BY DEF Emit
<1>4. Fenced \in BOOLEAN
  BY DEF Fenced
<1> HIDE DEF g
<1>5. GateTypes' /\ GateInv' /\ (up => gate'.deferred = g.deferred)
  BY <1>1, <1>3, <1>4, FlushOK
<1>6. QED
  BY <1>2, <1>5 DEF Mirror

-----------------------------------------------------------------------------
(* The inductive invariant                                                  *)

\* The inductive invariant holds in a new process.
LEMMA InitIInv == Init => IInv
<1> SUFFICES ASSUME Init PROVE IInv
  OBVIOUS
<1>1. gate \in Gates /\ gate.deferred = None /\ ~gate.landing
  BY DEF Init, EmptyGate, Gates
<1>2. call \in [Callers -> [at : {"idle", "awaiting", "checked", "syncing"},
                            total : Totals, read : BOOLEAN]]
  BY DEF Init, Idle, Totals
<1>3. 0 \in 0..Sustain
  BY ShortfallAssumption
<1>4. TypeOK
  BY <1>1, <1>2, <1>3 DEF Init, TypeOK
<1>5. QED
  BY <1>1, <1>4 DEF Init, IInv, IncidentMirrored, DeferredHasWakeup, LandingOK, ClockOK

CallPlaces == [Callers -> [at : {"idle", "awaiting", "checked", "syncing"},
                           total : Totals, read : BOOLEAN]]
CallTypes == call \in CallPlaces
ClockTypes == inShortfall \in BOOLEAN /\ clearFor \in 0..Sustain \cup {None} /\ calm \in 0..Sustain
AuthorityTypes == fenced \in BOOLEAN /\ prepared \in BOOLEAN /\ up \in BOOLEAN

\* The invariant in the parts an action can disturb one by one.
LEMMA Parts ==
  IInv <=> /\ GateTypes /\ GateInv /\ Mirror(gate, effect, inShortfall)
           /\ ClockTypes /\ ClockOK /\ CallTypes /\ AuthorityTypes
BY DEF IInv, TypeOK, GateTypes, GateInv, Mirror, IncidentMirrored, ClockTypes, CallTypes,
       CallPlaces, AuthorityTypes

\* The same in the next state.
LEMMA PartsNext ==
  IInv' <=> /\ GateTypes' /\ GateInv' /\ Mirror(gate, effect, inShortfall)'
            /\ ClockTypes' /\ ClockOK' /\ CallTypes' /\ AuthorityTypes'
BY DEF IInv, TypeOK, GateTypes, GateInv, Mirror, IncidentMirrored, ClockTypes, CallTypes,
       CallPlaces, AuthorityTypes

\* A caller's next place is a typed one.
LEMMA CallSteps ==
  ASSUME CallTypes, NEW c \in Callers, NEW total \in Totals
  PROVE  /\ Answered(c) \in CallPlaces /\ Rejected(c) \in CallPlaces
         /\ [call EXCEPT ![c] = [Idle EXCEPT !.at = "awaiting", !.total = total]] \in CallPlaces
<1> DEFINE Places == [at : {"idle", "awaiting", "checked", "syncing"},
                      total : Totals, read : BOOLEAN]
<1>1. Idle \in Places /\ [Idle EXCEPT !.at = "checked"] \in Places
      /\ [Idle EXCEPT !.at = "awaiting", !.total = total] \in Places
  BY DEF Idle, Totals
<1>2. \A p \in Places : [call EXCEPT ![c] = p] \in [Callers -> Places]
  BY DEF CallTypes, CallPlaces
<1>3. Answered(c) \in [Callers -> Places]
  <2>1. CASE c = "build"
    BY <1>1, <1>2, <2>1 DEF Answered
  <2>2. CASE c # "build"
    BY <1>1, <1>2, <2>2 DEF Answered
  <2>3. QED
    BY <2>1, <2>2
<1>4. Rejected(c) \in [Callers -> Places]
  BY <1>1, <1>2 DEF Rejected
<1>5. [call EXCEPT ![c] = [Idle EXCEPT !.at = "awaiting", !.total = total]]
        \in [Callers -> Places]
  BY <1>1, <1>2
<1>6. QED
  BY <1>3, <1>4, <1>5 DEF CallPlaces

\* checkShortfall up to its await keeps the invariant.
LEMMA CheckStep ==
  ASSUME IInv, NEW c \in Callers, NEW total \in Totals, NEW breach \in BOOLEAN,
         NEW ok \in BOOLEAN, Check(c, total, breach, ok)
  PROVE  IInv'
<1>1. /\ GateTypes /\ GateInv /\ Mirror(gate, effect, inShortfall)
      /\ ClockTypes /\ ClockOK /\ CallTypes /\ AuthorityTypes
  BY Parts
<1>2. AuthorityTypes' /\ up' = up
  BY <1>1 DEF Check, AuthorityTypes, authority
<1>3. CallTypes'
  <2>1. call' \in {Answered(c), Rejected(c),
                  [call EXCEPT ![c] = [Idle EXCEPT !.at = "awaiting", !.total = total]]}
    BY DEF Check
  <2>2. QED
    BY <1>1, <2>1, CallSteps DEF CallTypes
<1>4. CASE UNCHANGED <<guardVars, gate, latches>>
  BY <1>1, <1>2, <1>3, <1>4, PartsNext
     DEF GateTypes, GateInv, DeferredHasWakeup, LandingOK, Mirror, ClockTypes, ClockOK,
         guardVars, latches
<1>5. CASE inShortfall' = TRUE /\ clearFor' = None /\ calm' = 0 /\ Emit(TRUE, ok)
  <2>1. GateTypes' /\ GateInv' /\ Mirror(gate', effect', TRUE)
    BY <1>1, <1>2, <1>5, EmitOK DEF AuthorityTypes
  <2>2. Mirror(gate, effect, inShortfall)'
    BY <1>2, <2>1, <1>5 DEF Mirror
  <2>3. 0 \in 0..Sustain
    BY ShortfallAssumption
  <2>4. ClockTypes' /\ ClockOK'
    BY <1>5, <2>3 DEF ClockTypes, ClockOK
  <2>5. QED
    BY <1>2, <1>3, <2>1, <2>2, <2>4, PartsNext
<1>6. QED
  BY <1>4, <1>5 DEF Check

\* checkShortfall after its await keeps the invariant.
LEMMA ResumeStep ==
  ASSUME IInv, NEW c \in Callers, NEW ok \in BOOLEAN, Resume(c, ok)
  PROVE  IInv'
<1>1. /\ GateTypes /\ GateInv /\ Mirror(gate, effect, inShortfall)
      /\ ClockTypes /\ ClockOK /\ CallTypes /\ AuthorityTypes
  BY Parts
<1>2. AuthorityTypes' /\ up' = up
  BY <1>1 DEF Resume, AuthorityTypes, authority
<1> DEFINE total == call[c].total
<1>3. total \in Totals
  BY <1>1 DEF CallTypes, CallPlaces
<1>4. CallTypes'
  <2>1. call' \in {Answered(c), Rejected(c)}
    BY DEF Resume
  <2>2. QED
    BY <1>1, <1>3, <2>1, CallSteps DEF CallTypes
<1>5. CASE UNCHANGED <<guardVars, gate, latches>>
  BY <1>1, <1>2, <1>4, <1>5, PartsNext
     DEF GateTypes, GateInv, DeferredHasWakeup, LandingOK, Mirror, ClockTypes, ClockOK,
         guardVars, latches
<1>6. CASE inShortfall' = FALSE /\ clearFor' = None /\ Emit(FALSE, ok) /\ UNCHANGED calm
  <2>1. GateTypes' /\ GateInv' /\ Mirror(gate', effect', FALSE)
    BY <1>1, <1>2, <1>6, EmitOK DEF AuthorityTypes
  <2>2. Mirror(gate, effect, inShortfall)'
    BY <1>2, <2>1, <1>6 DEF Mirror
  <2>3. ClockTypes' /\ ClockOK'
    BY <1>1, <1>6 DEF ClockTypes, ClockOK
  <2>4. QED
    BY <1>2, <1>4, <2>1, <2>2, <2>3, PartsNext
<1>7. CASE /\ clearFor' = IF total # "clear" THEN None
                          ELSE IF clearFor = None THEN 0 ELSE clearFor
           /\ calm' = IF total # "clear" THEN 0 ELSE calm
           /\ UNCHANGED <<inShortfall, gate, latches>>
  <2>1. 0 \in 0..Sustain
    BY ShortfallAssumption
  <2>2. ClockTypes' /\ ClockOK'
    BY <1>1, <1>7, <2>1, ShortfallAssumption DEF ClockTypes, ClockOK
  <2>3. GateTypes' /\ GateInv' /\ Mirror(gate, effect, inShortfall)'
    BY <1>1, <1>2, <1>7
       DEF GateTypes, GateInv, DeferredHasWakeup, LandingOK, Mirror, latches
  <2>4. QED
    BY <1>2, <1>4, <2>2, <2>3, PartsNext
<1>8. QED
  BY <1>5, <1>6, <1>7 DEF Resume

\* A step that moves only what the guard and the gate do not hold keeps their parts.
LEMMA Untouched ==
  ASSUME IInv, UNCHANGED <<guardVars, gate, latches, up>>
  PROVE  GateTypes' /\ GateInv' /\ Mirror(gate, effect, inShortfall)' /\ ClockTypes' /\ ClockOK'
BY Parts DEF GateTypes, GateInv, DeferredHasWakeup, LandingOK, Mirror, ClockTypes, ClockOK,
             guardVars, latches

\* Every handler, timer and await of the incident keeps the inductive invariant.
LEMMA IInvStep == IInv /\ [Next]_vars => IInv'
<1> SUFFICES ASSUME IInv, [Next]_vars PROVE IInv'
  OBVIOUS
<1>0. /\ GateTypes /\ GateInv /\ Mirror(gate, effect, inShortfall)
      /\ ClockTypes /\ ClockOK /\ CallTypes /\ AuthorityTypes
  BY Parts
<1>1. CASE \E total \in Totals, breach \in BOOLEAN, ok \in BOOLEAN : BuildChecks(total, breach, ok)
  BY <1>1, CheckStep DEF BuildChecks, Callers
<1>2. CASE \E total \in Totals, ok \in BOOLEAN : SampleChecks(total, ok)
  <2>1. PICK total \in Totals, ok \in BOOLEAN : Check("sample", total, total = "over", ok)
    BY <1>2 DEF SampleChecks
  <2>2. (total = "over") \in BOOLEAN
    OBVIOUS
  <2>3. QED
    BY <2>1, <2>2, CheckStep DEF Callers
<1>3. CASE \E c \in Callers, ok \in BOOLEAN : Resume(c, ok)
  BY <1>3, ResumeStep
<1>4. CASE BuildReads
  <2>1. UNCHANGED <<guardVars, gate, latches, up>> /\ AuthorityTypes'
    BY <1>0, <1>4 DEF BuildReads, authority, AuthorityTypes
  <2>2. CallTypes'
    <3>1. [call["build"] EXCEPT !.at = "syncing", !.read = inShortfall]
            \in [at : {"idle", "awaiting", "checked", "syncing"}, total : Totals, read : BOOLEAN]
      BY <1>0 DEF CallTypes, CallPlaces, ClockTypes, Callers
    <3>2. call' = [call EXCEPT !["build"] =
                     [call["build"] EXCEPT !.at = "syncing", !.read = inShortfall]]
      BY <1>0, <1>4 DEF BuildReads, CallTypes, CallPlaces, Callers
    <3>3. QED
      BY <1>0, <3>1, <3>2 DEF CallTypes, CallPlaces
  <2>3. QED
    BY <2>1, <2>2, Untouched, PartsNext
<1>5. CASE \E ok \in BOOLEAN : BuildSyncs(ok)
  <2>1. PICK ok \in BOOLEAN : BuildSyncs(ok)
    BY <1>5
  <2>2. UNCHANGED <<guardVars, gate, effect, authority>>
    BY <2>1 DEF BuildSyncs
  <2>3. CallTypes'
    <3>1. call' = Rejected("build")
      BY <2>1 DEF BuildSyncs, Rejected
    <3>2. QED
      BY <1>0, <3>1, CallSteps DEF CallTypes, Callers, Totals
  <2>4. planLatch' \in BOOLEAN /\ persisted' \in BOOLEAN /\ wrote' \in BOOLEAN
    <3>1. call["build"].read \in BOOLEAN
      BY <1>0 DEF CallTypes, CallPlaces, Callers
    <3>2. QED
      BY <1>0, <2>1, <3>1 DEF BuildSyncs, GateTypes
  <2>5. QED
    BY <1>0, <2>2, <2>3, <2>4, PartsNext
       DEF GateTypes, GateInv, DeferredHasWakeup, LandingOK, Mirror, ClockTypes, ClockOK,
           AuthorityTypes, guardVars, authority
<1>6. CASE Lands
  <2>1. /\ UNCHANGED <<guardVars, latches, authority, call>>
        /\ gate' = [gate EXCEPT !.deferred = None, !.landing = FALSE] /\ gate.landing
    BY <1>6 DEF Lands
  <2>2. gate' \in Gates /\ gate'.deferred = None /\ ~gate'.landing
    BY <1>0, <2>1 DEF GateTypes, Gates
  <2>3. up => effect = inShortfall
    BY <1>0, <2>1 DEF GateInv, LandingOK, Mirror
  <2>4. GateTypes' /\ GateInv' /\ Mirror(gate, effect, inShortfall)'
    BY <1>0, <2>1, <2>2, <2>3
       DEF GateTypes, GateInv, DeferredHasWakeup, LandingOK, Mirror, guardVars, latches, authority
  <2>5. QED
    BY <1>0, <2>1, <2>4, PartsNext
       DEF ClockTypes, ClockOK, CallTypes, AuthorityTypes, guardVars, authority
<1>7. CASE \E ok \in BOOLEAN : RetryFires(ok)
  <2> DEFINE g == [gate EXCEPT !.retry = FALSE]
  <2>1. PICK ok \in BOOLEAN : /\ Flush(g, Fenced, FALSE, ok)
                              /\ UNCHANGED <<guardVars, authority, call>>
    BY <1>7 DEF RetryFires
  <2>2. g \in Gates /\ g.deferred = gate.deferred /\ g.landing = gate.landing
    BY <1>0 DEF GateTypes, Gates
  <2>3. Fenced \in BOOLEAN
    BY <1>0 DEF Fenced, AuthorityTypes
  <2> HIDE DEF g
  <2>4. /\ GateTypes' /\ GateInv' /\ (up => gate'.deferred = gate.deferred)
        /\ (gate.deferred = None => effect' = effect)
    BY <1>0, <2>1, <2>2, <2>3, FlushOK DEF AuthorityTypes, authority, GateInv, LandingOK
  <2>5. Mirror(gate, effect, inShortfall)'
    BY <1>0, <2>1, <2>4 DEF Mirror, guardVars, authority
  <2>6. QED
    BY <1>0, <2>1, <2>4, <2>5, PartsNext
       DEF ClockTypes, ClockOK, CallTypes, AuthorityTypes, guardVars, authority
<1>8. CASE \E closed \in BOOLEAN : MembershipFence(closed)
  BY <1>0, <1>8, Untouched, PartsNext DEF MembershipFence, AuthorityTypes, CallTypes
<1>9. CASE PreparedBegins
  <2>1. /\ UNCHANGED <<guardVars, latches, call, fenced, up>> /\ prepared' = TRUE
        /\ gate' = IF gate.deferred = None THEN gate
                   ELSE [gate EXCEPT !.deferred = [@ EXCEPT !.held = TRUE], !.landing = FALSE]
    BY <1>9 DEF PreparedBegins
  <2>2. CASE gate.deferred = None
    BY <1>0, <2>1, <2>2, Untouched, PartsNext DEF AuthorityTypes, CallTypes
  <2>3. CASE gate.deferred # None
    <3>1. /\ gate.deferred \in Transitions
          /\ [gate.deferred EXCEPT !.held = TRUE] \in Transitions
          /\ [gate.deferred EXCEPT !.held = TRUE].to = gate.deferred.to
          /\ [gate.deferred EXCEPT !.held = TRUE].held
      BY <1>0, <2>3 DEF GateTypes, Gates, Transitions
    <3>2. /\ gate' \in Gates /\ ~gate'.landing
          /\ gate'.deferred = [gate.deferred EXCEPT !.held = TRUE]
      BY <1>0, <2>1, <2>3, <3>1 DEF GateTypes, Gates
    <3>3. gate'.deferred # None /\ gate'.deferred.to = gate.deferred.to /\ gate'.deferred.held
      BY <3>1, <3>2, ShortfallAssumption
    <3>4. GateTypes' /\ GateInv' /\ Mirror(gate, effect, inShortfall)'
      BY <1>0, <2>1, <2>3, <3>2, <3>3
         DEF GateTypes, GateInv, DeferredHasWakeup, LandingOK, Mirror, guardVars, latches
    <3>5. QED
      BY <1>0, <2>1, <3>4, PartsNext
         DEF ClockTypes, ClockOK, CallTypes, AuthorityTypes, guardVars
  <2>4. QED
    BY <2>2, <2>3
<1>10. CASE PreparedAborts
  BY <1>0, <1>10, Untouched, PartsNext DEF PreparedAborts, AuthorityTypes, CallTypes
<1>11. CASE \E ok \in BOOLEAN : PreparedEnds(ok)
  <2>1. PICK ok \in BOOLEAN : /\ Flush(gate, fenced, TRUE, ok) /\ prepared' = FALSE
                              /\ UNCHANGED <<guardVars, call, fenced, up>>
    BY <1>11 DEF PreparedEnds
  <2>2. /\ GateTypes' /\ GateInv' /\ (up => gate'.deferred = gate.deferred)
        /\ (gate.deferred = None => effect' = effect)
    BY <1>0, <2>1, FlushOK DEF AuthorityTypes, GateTypes, GateInv, LandingOK
  <2>3. Mirror(gate, effect, inShortfall)'
    BY <1>0, <2>1, <2>2 DEF Mirror, guardVars
  <2>4. QED
    BY <1>0, <2>1, <2>2, <2>3, PartsNext
       DEF ClockTypes, ClockOK, CallTypes, AuthorityTypes, guardVars
<1>12. CASE Discard
  <2>1. /\ UNCHANGED <<guardVars, latches, call, fenced, prepared>> /\ up' = FALSE
        /\ gate' = [gate EXCEPT !.retry = FALSE]
    BY <1>12 DEF Discard
  <2>2. gate' \in Gates /\ gate'.deferred = gate.deferred /\ gate'.landing = gate.landing
    BY <1>0, <2>1 DEF GateTypes, Gates
  <2>3. GateTypes' /\ GateInv' /\ Mirror(gate, effect, inShortfall)'
    BY <1>0, <2>1, <2>2
       DEF GateTypes, GateInv, DeferredHasWakeup, LandingOK, Mirror, latches
  <2>4. QED
    BY <1>0, <2>1, <2>3, PartsNext
       DEF ClockTypes, ClockOK, CallTypes, AuthorityTypes, guardVars
<1>13. CASE Restart
  <2>1. /\ gate' = EmptyGate /\ inShortfall' = FALSE /\ effect' = FALSE
        /\ clearFor' = None /\ calm' = 0 /\ persisted' = persisted
        /\ planLatch' = FALSE /\ wrote' = FALSE
        /\ fenced' = FALSE /\ prepared' = FALSE /\ up' = TRUE
        /\ call' = [c \in Callers |-> Idle]
    BY <1>13 DEF Restart
  <2>2. EmptyGate \in Gates /\ EmptyGate.deferred = None /\ ~EmptyGate.landing
    BY DEF EmptyGate, Gates
  <2>3. GateTypes' /\ GateInv' /\ Mirror(gate, effect, inShortfall)'
    BY <1>0, <2>1, <2>2 DEF GateTypes, GateInv, DeferredHasWakeup, LandingOK, Mirror
  <2>4. 0 \in 0..Sustain
    BY ShortfallAssumption
  <2>5. CallTypes'
    BY <2>1 DEF CallTypes, CallPlaces, Idle, Totals
  <2>6. QED
    BY <2>1, <2>3, <2>4, <2>5, PartsNext DEF ClockTypes, ClockOK, AuthorityTypes
<1>14. CASE Tick
  <2>1. /\ UNCHANGED <<inShortfall, gate, latches, authority, call>>
        /\ clearFor' = IF clearFor \in {None, Sustain} THEN clearFor ELSE clearFor + 1
        /\ calm' = IF calm = Sustain THEN calm ELSE calm + 1
    BY <1>14 DEF Tick
  <2>2. ClockTypes' /\ ClockOK'
    BY <1>0, <2>1, ShortfallAssumption DEF ClockTypes, ClockOK
  <2>3. QED
    BY <1>0, <2>1, <2>2, PartsNext
       DEF GateTypes, GateInv, DeferredHasWakeup, LandingOK, Mirror, CallTypes, AuthorityTypes,
           latches, authority
<1>15. CASE UNCHANGED vars
  BY <1>0, <1>15, Untouched, PartsNext DEF vars, authority, AuthorityTypes, CallTypes
<1>16. QED
  BY <1>1, <1>2, <1>3, <1>4, <1>5, <1>6, <1>7, <1>8, <1>9, <1>10, <1>11, <1>12, <1>13,
     <1>14, <1>15 DEF Next

\* The inductive invariant holds in every state of every run of the process, whatever the
\* order of checks, flushes, prepared attempts, shutdowns and restarts.
THEOREM InductiveInvariant == Spec => []IInv
BY InitIInv, IInvStep, PTL DEF Spec

\* Every state is well typed: in particular the recovery clock stays within the sustain.
THEOREM TypeCorrect == Spec => []TypeOK
<1>1. IInv => TypeOK
  BY DEF IInv
<1>2. QED
  BY <1>1, InductiveInvariant, PTL

\* The gate loses no transition of the guard: the executor shows the guard's latch, or the
\* gate still holds the newest transition.
THEOREM IncidentAlwaysMirrored == Spec => []IncidentMirrored
<1>1. IInv => IncidentMirrored
  BY DEF IInv
<1>2. QED
  BY <1>1, InductiveInvariant, PTL

\* A deferred transition is never stranded without a flush, a retry or a prepared attempt.
THEOREM DeferredAlwaysWakes == Spec => []DeferredHasWakeup
<1>1. IInv => DeferredHasWakeup
  BY DEF IInv
<1>2. QED
  BY <1>1, InductiveInvariant, PTL

-----------------------------------------------------------------------------
(* What a step may never do                                                 *)

RecoveryStep ==
  inShortfall /\ ~inShortfall' =>
    \/ \E c \in Callers : call[c].at = "awaiting" /\ call[c].total = "clear" /\ calm = Sustain
    \/ Restart

\* Only a resumed check at the clear margin ends the incident, and only after the sustain.
LEMMA RecoveryKept == IInv /\ [Next]_vars => RecoveryStep
<1> SUFFICES ASSUME IInv, [Next]_vars, inShortfall, ~inShortfall', ~Restart
             PROVE  \E c \in Callers : /\ call[c].at = "awaiting" /\ call[c].total = "clear"
                                      /\ calm = Sustain
  BY DEF RecoveryStep
<1>1. \E c \in Callers, ok \in BOOLEAN : Resume(c, ok)
  BY DEF Next, vars, BuildChecks, SampleChecks, Check, BuildReads, BuildSyncs, Lands, RetryFires,
         MembershipFence, PreparedBegins, PreparedAborts, PreparedEnds, Discard, Tick, guardVars
<1>2. PICK c \in Callers : /\ call[c].at = "awaiting" /\ call[c].total = "clear"
                           /\ clearFor = Sustain
  BY <1>1 DEF Resume, Recovered
<1>3. calm = Sustain
  BY <1>2, ShortfallAssumption DEF IInv, TypeOK, ClockOK
<1>4. QED
  BY <1>2, <1>3

\* "Requires sustained positive headroom" (capacityGuard.ts), for any length of sustain.
THEOREM RecoveryAlwaysSustained == Spec => RecoverySustained
<1>1. IInv /\ [Next]_vars => [RecoveryStep]_vars
  BY RecoveryKept
<1>2. QED
  BY <1>1, InductiveInvariant, PTL DEF Spec, RecoverySustained, RecoveryStep

\* A flush changes the executor's side effect only with the fence open and a transition it
\* may take.
LEMMA FlushTakes ==
  ASSUME NEW g \in Gates, NEW closed \in BOOLEAN, NEW allow \in BOOLEAN, NEW ok \in BOOLEAN,
         Flush(g, closed, allow, ok), effect' # effect
  PROVE  /\ ~closed /\ g.deferred # None /\ (g.deferred.held => allow)
         /\ gate'.deferred = g.deferred /\ gate'.landing /\ up
<1>1. ~ UNCHANGED latches
  BY DEF latches
<1>2. /\ ~closed /\ g.deferred # None /\ (g.deferred.held => allow)
      /\ gate' = [g EXCEPT !.landing = TRUE] /\ up
  BY <1>1 DEF Flush
<1>3. QED
  BY <1>2 DEF Gates

AuthorityStep ==
  effect' # effect /\ ~Restart =>
    /\ ~fenced /\ ~prepared'
    /\ gate.deferred # None /\ gate'.deferred = gate.deferred /\ gate.deferred.held => prepared

\* A transition just handed to the gate is taken only with no fence at all.
LEMMA EmitTakes ==
  ASSUME GateTypes, AuthorityTypes, NEW to \in BOOLEAN, NEW ok \in BOOLEAN, Emit(to, ok),
         UNCHANGED authority, effect' # effect
  PROVE  /\ ~fenced /\ ~prepared' /\ (gate'.deferred = gate.deferred => ~gate.deferred.held)
         /\ gate'.landing /\ up' /\ ~fenced'
<1> DEFINE g == Superseding(to)
<1>1. g \in Gates /\ g.deferred = [to |-> to, held |-> prepared]
  BY DEF GateTypes, AuthorityTypes, Gates, Superseding, Transitions
<1>2. Flush(g, Fenced, FALSE, ok)
  BY DEF Emit
<1>3. Fenced \in BOOLEAN
  BY DEF Fenced, AuthorityTypes
<1> HIDE DEF g
<1>4. ~Fenced /\ gate'.deferred = g.deferred /\ gate'.landing /\ up
  BY <1>1, <1>2, <1>3, FlushTakes
<1>5. QED
  BY <1>1, <1>4 DEF Fenced, authority

\* The side effect changes by a flush that is landing, with the fences open, and a held
\* transition only as a prepared attempt ends.
LEMMA Taken ==
  ASSUME IInv, [Next]_vars, effect' # effect, ~Restart
  PROVE  /\ ~fenced /\ ~prepared'
         /\ gate.deferred # None /\ gate'.deferred = gate.deferred /\ gate.deferred.held => prepared
         /\ gate'.landing /\ up' /\ ~fenced'
<1>0. GateTypes /\ AuthorityTypes
  BY Parts
<1>1. \/ \E c \in Callers, total \in Totals, breach \in BOOLEAN, ok \in BOOLEAN :
           Check(c, total, breach, ok)
      \/ \E c \in Callers, ok \in BOOLEAN : Resume(c, ok)
      \/ \E ok \in BOOLEAN : RetryFires(ok)
      \/ \E ok \in BOOLEAN : PreparedEnds(ok)
  BY DEF Next, vars, BuildChecks, SampleChecks, BuildReads, BuildSyncs, Lands, MembershipFence,
         PreparedBegins, PreparedAborts, Discard, Tick, latches, Callers
<1>2. CASE \E c \in Callers, total \in Totals, breach \in BOOLEAN, ok \in BOOLEAN :
             Check(c, total, breach, ok)
  <2>1. PICK ok \in BOOLEAN : Emit(TRUE, ok) /\ UNCHANGED authority
    BY <1>2 DEF Check, latches
  <2>2. QED
    BY <1>0, <2>1, EmitTakes
<1>3. CASE \E c \in Callers, ok \in BOOLEAN : Resume(c, ok)
  <2>1. PICK ok \in BOOLEAN : Emit(FALSE, ok) /\ UNCHANGED authority
    BY <1>3 DEF Resume, latches
  <2>2. QED
    BY <1>0, <2>1, EmitTakes
<1>4. CASE \E ok \in BOOLEAN : RetryFires(ok)
  <2> DEFINE g == [gate EXCEPT !.retry = FALSE]
  <2>1. PICK ok \in BOOLEAN : Flush(g, Fenced, FALSE, ok) /\ UNCHANGED authority
    BY <1>4 DEF RetryFires
  <2>2. g \in Gates /\ g.deferred = gate.deferred
    BY <1>0 DEF GateTypes, Gates
  <2>3. Fenced \in BOOLEAN
    BY <1>0 DEF Fenced, AuthorityTypes
  <2> HIDE DEF g
  <2>4. ~Fenced /\ ~g.deferred.held /\ gate'.landing /\ up
    BY <2>1, <2>2, <2>3, FlushTakes
  <2>5. QED
    BY <2>1, <2>2, <2>4 DEF Fenced, authority
<1>5. CASE \E ok \in BOOLEAN : PreparedEnds(ok)
  <2>1. PICK ok \in BOOLEAN : /\ Flush(gate, fenced, TRUE, ok) /\ prepared /\ prepared' = FALSE
                              /\ up' = up /\ fenced' = fenced
    BY <1>5 DEF PreparedEnds
  <2>2. ~fenced /\ gate'.landing /\ up
    BY <1>0, <2>1, FlushTakes DEF GateTypes, AuthorityTypes
  <2>3. QED
    BY <2>1, <2>2
<1>6. QED
  BY <1>1, <1>2, <1>3, <1>4, <1>5

\* No handler, timer or callback takes a transition past a fence or a prepared attempt.
LEMMA AuthorityKept == IInv /\ [Next]_vars => AuthorityStep
BY Taken DEF AuthorityStep

\* The membership and prepared-reconcile fences hold back every side effect of the incident.
THEOREM AuthorityAlwaysRespected == Spec => AuthorityRespected
<1>1. IInv /\ [Next]_vars => [AuthorityStep]_vars
  BY AuthorityKept
<1>2. QED
  BY <1>1, InductiveInvariant, PTL DEF Spec, AuthorityRespected, AuthorityStep

-----------------------------------------------------------------------------
(* The promise of an incident                                               *)

\* What is shown is what the incident is at that moment.
LEMMA ShownIsCurrent ==
  ASSUME IInv, IInv', [Next]_vars, effect' # effect, ~Restart
  PROVE  effect' = inShortfall' /\ (up /\ ~fenced /\ ~prepared)'
<1>1. gate'.landing /\ up' /\ ~fenced' /\ ~prepared'
  BY Taken
<1>2. gate'.deferred # None /\ effect' = gate'.deferred.to
  BY <1>1 DEF IInv, LandingOK
<1>3. gate'.deferred.to = inShortfall'
  BY <1>1, <1>2 DEF IInv, IncidentMirrored
<1>4. QED
  BY <1>1, <1>2, <1>3

\* An incident begins with the recovery clock at nothing; it ends through a resumed check.
LEMMA IncidentMoves ==
  ASSUME IInv, [Next]_vars, inShortfall' # inShortfall, ~Restart
  PROVE  /\ UNCHANGED authority
         /\ inShortfall' => calm' = 0
         /\ ~inShortfall' => calm = Sustain /\ calm' = calm
<1>1. \/ \E c \in Callers, total \in Totals, breach \in BOOLEAN, ok \in BOOLEAN :
           Check(c, total, breach, ok)
      \/ \E c \in Callers, ok \in BOOLEAN : Resume(c, ok)
  BY DEF Next, vars, BuildChecks, SampleChecks, BuildReads, BuildSyncs, Lands, RetryFires,
         MembershipFence, PreparedBegins, PreparedAborts, PreparedEnds, Discard, Tick, guardVars,
         Callers
<1>2. CASE \E c \in Callers, total \in Totals, breach \in BOOLEAN, ok \in BOOLEAN :
             Check(c, total, breach, ok)
  BY <1>2 DEF Check, guardVars
<1>3. CASE \E c \in Callers, ok \in BOOLEAN : Resume(c, ok)
  <2>1. /\ UNCHANGED authority /\ inShortfall' = FALSE /\ calm' = calm /\ clearFor = Sustain
    BY <1>3 DEF Resume, Recovered, guardVars
  <2>2. calm = Sustain
    BY <2>1, ShortfallAssumption DEF IInv, TypeOK, ClockOK
  <2>3. QED
    BY <2>1, <2>2
<1>4. QED
  BY <1>1, <1>2, <1>3

\* A step that moves the authority leaves the recovery clock alone.
LEMMA AuthorityMoves ==
  ASSUME [Next]_vars, ~Restart, calm' # calm
  PROVE  UNCHANGED authority
BY DEF Next, vars, BuildChecks, SampleChecks, Check, Resume, BuildReads, BuildSyncs, Lands,
       RetryFires, MembershipFence, PreparedBegins, PreparedAborts, PreparedEnds, Discard, Tick,
       guardVars

\* A step that moves the recovery clock and not the incident shows nothing.
LEMMA CalmMoves ==
  ASSUME [Next]_vars, ~Restart, calm' # calm, inShortfall' = inShortfall, inShortfall \in BOOLEAN
  PROVE  effect' = effect
BY DEF Next, vars, BuildChecks, SampleChecks, Check, Resume, BuildReads, BuildSyncs, Lands,
       RetryFires, MembershipFence, PreparedBegins, PreparedAborts, PreparedEnds, Discard, Tick,
       guardVars, latches

\* Every step of guard, gate and executor is a step of the promise.
LEMMA PromiseStep == IInv /\ IInv' /\ [Next]_vars => [Promise!Next]_Promise!promised
<1> SUFFICES ASSUME IInv, IInv', [Next]_vars
             PROVE  Promise!Next \/ UNCHANGED Promise!promised
  OBVIOUS
<1>0. /\ inShortfall \in BOOLEAN /\ inShortfall' \in BOOLEAN /\ 0 # Sustain
      /\ fenced' \in BOOLEAN /\ prepared' \in BOOLEAN /\ up' \in BOOLEAN
  BY ShortfallAssumption DEF IInv, TypeOK
<1>1. CASE Restart
  <2>1. /\ ~inShortfall' /\ calm' = 0 /\ ~effect' /\ up' /\ ~fenced' /\ ~prepared'
    BY <1>1 DEF Restart
  <2>2. Promise!Restart
    BY <1>0, <2>1 DEF Promise!Restart
  <2>3. QED
    BY <2>2 DEF Promise!Next
<1>2. CASE ~Restart
  <2>1. Promise!Follows
    BY <1>2, ShownIsCurrent DEF Promise!Follows
  <2>2. CASE inShortfall' # inShortfall
    <3>1. /\ UNCHANGED authority
          /\ inShortfall' => calm' = 0
          /\ ~inShortfall' => calm = Sustain /\ calm' = calm
      BY <1>2, <2>2, IncidentMoves
    <3>2. (up /\ ~fenced /\ ~prepared)' = (up /\ ~fenced /\ ~prepared)
      BY <3>1 DEF authority
    <3>3. CASE inShortfall'
      BY <1>0, <2>1, <2>2, <3>1, <3>2, <3>3 DEF Promise!Begin, Promise!Next
    <3>4. CASE ~inShortfall'
      BY <1>0, <2>1, <2>2, <3>1, <3>2, <3>4 DEF Promise!End, Promise!Next
    <3>5. QED
      BY <3>3, <3>4
  <2>3. CASE inShortfall' = inShortfall /\ calm' # calm
    <3>1. UNCHANGED authority /\ effect' = effect
      BY <1>0, <1>2, <2>3, AuthorityMoves, CalmMoves
    <3>2. (up /\ ~fenced /\ ~prepared)' = (up /\ ~fenced /\ ~prepared)
      BY <3>1 DEF authority
    <3>3. Promise!Rest
      BY <2>3, <3>1, <3>2 DEF Promise!Rest
    <3>4. QED
      BY <3>3 DEF Promise!Next
  <2>4. CASE inShortfall' = inShortfall /\ calm' = calm
    <3>1. Promise!Authority
      BY <1>0, <2>1, <2>4 DEF Promise!Authority
    <3>2. QED
      BY <3>1 DEF Promise!Next
  <2>5. QED
    BY <2>2, <2>3, <2>4
<1>3. QED
  BY <1>1, <1>2

\* Guard, gate and executor implement IncidentPromise (lib/power/capacityGuard.ts,
\* setup/capacityShortfallSideEffectGate.ts, lib/executor/shortfallExecutor.ts).
THEOREM KeepsIncidentPromise == Spec => PromiseSpec
<1>1. Init => Promise!Init
  BY ShortfallAssumption DEF Init, Promise!Init
<1>2. QED
  BY <1>1, PromiseStep, InductiveInvariant, PTL DEF Spec, PromiseSpec, Promise!Spec
=============================================================================
