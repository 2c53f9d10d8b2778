-------------------------- MODULE ExternalOffHold --------------------------
(***************************************************************************)
(* "Leave off until turned on again": the devices that were turned off      *)
(* outside PELS and must stay off (lib/observer/externalOffHold.ts), the    *)
(* settings they are kept in (setup/externalOffHoldAdapter.ts), and the     *)
(* observations and plan cycles that start and end a hold                   *)
(* (setup/externalOffHoldDetection.ts).                                     *)
(*                                                                         *)
(* The settings service is unreliable.  A read of the holds gives the       *)
(* stored ones ("read"), throws or is malformed ("unreadable"), or comes    *)
(* back empty for once ("missing"); a read of the opt-in map may fail; a    *)
(* save may fail, or write the holds and fail on the marker beside them     *)
(* ("marker").  The app may crash between any two calls.  One synchronous   *)
(* call of the policy sees one answer of each kind.  Devices may be seen on *)
(* or off at any time, so an observation is an input of the call it causes. *)
(***************************************************************************)
EXTENDS Integers

CONSTANTS
  Device,
  Grace,   \* EXTERNAL_OFF_HOLD_LOAD_GRACE_MS
  Retry,   \* EXTERNAL_OFF_HOLD_RELOAD_RETRY_MS
  None     \* null

Loads == {"read", "unreadable", "missing"}
\* "marker": the holds are written, then reading or setting the marker throws
Saves == {"ok", "marker", "fails"}

ASSUME HoldAssumption ==
  /\ Grace \in Nat /\ Retry \in Nat \ {0}
  /\ \A S \in SUBSET Device : S # None

VARIABLES
  optIn,        \* respect_external_off_devices
  stored,       \* external_off_holds
  marker,       \* external_off_holds_initialized
  held,         \* holdsByDeviceId
  unavailable,  \* stateUnavailable
  grace,        \* the time until persistBlockedUntilMs
  retry,        \* the time until nextReloadAtMs
  dirty,        \* unpersistedMutation
  released,     \* releasedWhileUnavailable
  lastGood,     \* lastGoodOptIn of the adapter
  begun,        \* history: the holds this process has started and the user not undone
  kept,         \* history: the holds a completed save has stored since they were begun
  ended         \* history: the holds this process has ended, and not started since

settings == <<stored, marker>>
policy   == <<held, unavailable, grace, retry, dirty, released, lastGood>>
history  == <<begun, kept, ended>>
vars     == <<optIn, settings, policy, history>>

TypeOK ==
  /\ optIn \subseteq Device
  /\ stored \subseteq Device /\ marker \in BOOLEAN
  /\ held \subseteq Device /\ unavailable \in BOOLEAN
  /\ grace \in 0..Grace /\ retry \in 0..Retry /\ dirty \in BOOLEAN
  /\ released \subseteq Device /\ (lastGood # None => lastGood \subseteq Device)
  /\ begun \subseteq Device /\ kept \subseteq Device /\ ended \subseteq Device

\* A fresh install
Init ==
  /\ optIn = {}
  /\ stored = {} /\ marker = FALSE
  /\ held = {} /\ unavailable = FALSE /\ grace = 0 /\ retry = Retry
  /\ dirty = FALSE /\ released = {} /\ lastGood = None
  /\ begun = {} /\ kept = {} /\ ended = {}
-----------------------------------------------------------------------------
(* Reads                                                                     *)

\* readOptInMap: readable says whether the settings service answers
OptInRead(readable) == IF readable THEN optIn ELSE lastGood

\* loadPersistedHolds: holds
Loaded(load) == IF load = "read" THEN stored ELSE {}

\* loadPersistedHolds: ~unavailable; an absent blob is a fresh install without the marker
Resolves(load) == load = "read" \/ (load = "missing" /\ ~marker)

\* settleState: the read is attempted again
Reloads == unavailable /\ retry = 0
Adopts(load) == Reloads /\ Resolves(load)
Abandons(load) == Reloads /\ ~Resolves(load) /\ grace = 0

\* stateUnavailable once the call has settled the state
StillUnavailable(load) == unavailable /\ ~Adopts(load) /\ ~Abandons(load)

\* Mutant of Reloaded: no tombstones
ReloadedAll(load) == IF Adopts(load) THEN held \cup Loaded(load) ELSE held

\* adoptReloadedHolds: a hold released meanwhile does not come back
Reloaded(load) == IF Adopts(load) THEN held \cup (Loaded(load) \ released) ELSE held

\* dropDeOptedHolds runs on a recovered read, and where the call reconciles opt-outs
Reconciles(load, reconciles) == (reconciles \/ Adopts(load)) /\ Reloaded(load) # {}

\* holdsByDeviceId after settleState and dropDeOptedHolds
Settled(load, readable, reconciles) ==
  IF Reconciles(load, reconciles) /\ OptInRead(readable) # None
  THEN Reloaded(load) \cap OptInRead(readable)
  ELSE Reloaded(load)

\* isHeld after it has settled the state
Answers(d, load, readable) ==
  \/ d \in Settled(load, readable, FALSE)
  \/ /\ StillUnavailable(load) /\ d \notin released
     /\ OptInRead(readable) # None => d \in OptInRead(readable)

\* isEnabledForDevice
Enabled(d, readable) == OptInRead(readable) # None /\ d \in OptInRead(readable)
-----------------------------------------------------------------------------
(* Writes                                                                    *)

\* Mutant of Withheld: the grace window does not hold a write back
WithheldNever(load) == FALSE

\* flushPendingWrite: the state is unknown and the grace window is open
Withheld(load) == StillUnavailable(load) /\ grace > 0

\* unpersistedMutation before the last flush of a call that leaves the holds final
Changed(load, before, final) ==
  \/ dirty
  \/ Adopts(load) /\ (held # {} \/ released # {})
  \/ before # final \/ before # Reloaded(load)

\* Mutant of Pending: a failed save is not tried again
PendingOnce(changed, completed, load) == changed /\ Withheld(load)

\* unpersistedMutation after the flush: the holds and the marker are one save
Pending(changed, completed, load) == changed /\ ~completed

\* A call of the policy that reconciles opt-outs or not, ends the holds of some devices
\* and starts those of others; asks says whether it reads the opt-in map besides
Call(load, readable, save, reconciles, asks, ends, starts) ==
  LET before == Settled(load, readable, reconciles)
      final == (before \ ends) \cup starts
      open == StillUnavailable(load)
      changed == Changed(load, before, final)
      writes == changed /\ ~Withheld(load) /\ save # "fails"
      completed == writes /\ save = "ok"
      lapses == Abandons(load) \/ (open /\ writes /\ grace = 0)
  IN /\ held' = final
     /\ unavailable' = open
     /\ grace' = IF open THEN grace ELSE 0
     /\ retry' = IF Reloads THEN Retry ELSE retry
     /\ released' = IF Adopts(load) THEN {} ELSE IF open THEN released \cup ends ELSE released
     /\ lastGood' = IF readable /\ (asks \/ Reconciles(load, reconciles)) THEN optIn ELSE lastGood
     /\ stored' = IF writes THEN final ELSE stored
     /\ marker' = (marker \/ completed)
     /\ dirty' = Pending(changed, completed, load)
     /\ begun' = (begun \ ends) \cup (starts \cap optIn)
     /\ kept' = (IF lapses THEN kept \cap final ELSE kept \ ends)
                \cup (IF completed THEN begun' \cap final ELSE {})
     /\ ended' = (ended \cup ends) \ starts
     /\ UNCHANGED optIn
-----------------------------------------------------------------------------
(* Observations, plan cycles, settings and restarts                          *)

\* syncExternalOffHoldForDevice: an on-to-off transition is pushed that no command of PELS
\* accounts for, and the opt-in map has the device
TurnedOff(d, load, readable, save) ==
  Enabled(d, readable) /\ Call(load, readable, save, FALSE, TRUE, {}, {d})

\* syncExternalOffHoldForDevice: PELS turned the device off, or it is not opted in
OtherOff ==
  /\ lastGood' = optIn
  /\ UNCHANGED <<optIn, settings, held, unavailable, grace, retry, dirty, released, history>>

\* isHeld reads the opt-in map
AsksOptIn(d, load) == StillUnavailable(load) /\ d \notin held \cup released

\* syncExternalOffHoldForDevice: the device is pushed as on
TurnedOn(d, load, readable, save) ==
  Call(load, readable, save, FALSE, AsksOptIn(d, load),
       IF Answers(d, load, readable) THEN {d} ELSE {}, {})

\* isHeld for a device that is off, by the planner or the executor
Ask(d, load, readable, save) ==
  Call(load, readable, save, FALSE, AsksOptIn(d, load), {}, {})

\* releaseExternalOffHoldsForObservedOn before every plan: heldDeviceIds, then a clearHold
\* for each device that is on.  With none on it is releaseDeOptedHolds.
Sweep(on, load, readable, save) == Call(load, readable, save, TRUE, FALSE, on, {})

\* The user changes the opt-in map; the handler, releaseDeOptedHolds, runs later.
SetOptIn(S) ==
  /\ S # optIn /\ optIn' = S
  /\ begun' = begun \cap S /\ kept' = kept \cap S
  /\ UNCHANGED <<settings, policy, ended>>

\* createExternalOffHoldPolicy after a crash or a stop: only the settings survive
Restart(load, readable, save) ==
  LET loaded == Loaded(load)
      final == IF readable THEN loaded \cap optIn ELSE loaded
      writes == final # loaded /\ save # "fails"
  IN /\ held' = final
     /\ unavailable' = ~Resolves(load)
     /\ grace' = IF Resolves(load) THEN 0 ELSE Grace
     /\ retry' = Retry
     /\ released' = {}
     /\ lastGood' = IF readable /\ loaded # {} THEN optIn ELSE None
     /\ stored' = IF writes THEN final ELSE stored
     /\ marker' = (marker \/ (writes /\ save = "ok"))
     /\ dirty' = (final # loaded /\ ~(writes /\ save = "ok"))
     /\ begun' = {} /\ ended' = {}
     /\ UNCHANGED <<optIn, kept>>

\* The two windows only matter while the state is unavailable.
Tick ==
  /\ unavailable /\ (grace > 0 \/ retry > 0)
  /\ grace' = IF grace > 0 THEN grace - 1 ELSE 0
  /\ retry' = IF retry > 0 THEN retry - 1 ELSE 0
  /\ UNCHANGED <<optIn, settings, held, unavailable, dirty, released, lastGood, history>>

\* Only a call that reloads reads the holds.
Answering == IF Reloads THEN Loads ELSE {"read"}

Next ==
  \/ \E load \in Answering, readable \in BOOLEAN, save \in Saves :
       \/ \E d \in Device : TurnedOff(d, load, readable, save)
       \/ \E d \in Device : TurnedOn(d, load, readable, save)
       \/ \E d \in Device : Ask(d, load, readable, save)
       \/ \E on \in SUBSET Device : Sweep(on, load, readable, save)
  \/ \E load \in Loads, readable \in BOOLEAN, save \in Saves : Restart(load, readable, save)
  \/ OtherOff
  \/ \E S \in SUBSET Device : SetOptIn(S)
  \/ Tick

Spec == Init /\ [][Next]_vars

\* Time passes, and plan cycles recur while a save is pending; one of them at last can read
\* and write the settings.
FairSpec ==
  /\ Spec
  /\ WF_vars(Tick)
  /\ WF_vars(dirty /\ \E load \in Answering, on \in SUBSET Device : Sweep(on, load, TRUE, "ok"))
-----------------------------------------------------------------------------
(* What must hold                                                            *)

\* isHeld may answer that the device is not held, whatever the settings service does
MayDeny(d) ==
  /\ d \notin held
  /\ unavailable => d \in released \/ d \notin optIn \/ (lastGood # None /\ d \notin lastGood)

\* isHeld may answer that the device is held
MayHold(d) ==
  \/ d \in held
  \/ unavailable /\ d \notin released /\ (d \in optIn \/ lastGood = None \/ d \in lastGood)

\* A hold that a completed save has stored is in the settings, and every question about
\* the device finds it held, through failed reads and saves, other devices' writes and
\* restarts, until the device is seen on, the user opts it out, or the grace window ends
\* with the holds still unreadable.
KeptIsHeld == \A d \in kept : d \in stored /\ ~MayDeny(d)

\* A hold this process has ended is over: no recovered read and no failed one revives it.
EndedStaysEnded == \A d \in ended : ~MayHold(d)

\* No hold lives in memory alone: the settings have it, or a save is pending that the next
\* calls will try.  A hold adopted from a recovered read, narrowed by opt-outs and merged with
\* holds begun meanwhile, or carried over a restart, is no exception.
HoldHasSave == dirty \/ held \subseteq stored

\* A hold reaches the settings, although a save fails or the grace window withholds it,
\* unless it ends first.
HoldIsStored == \A d \in Device : (d \in held) ~> (d \in stored \/ d \notin held)
=============================================================================
