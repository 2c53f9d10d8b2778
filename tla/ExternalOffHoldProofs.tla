----------------------- MODULE ExternalOffHoldProofs -----------------------
(***************************************************************************)
(* Proofs about ExternalOffHold: for every set of devices and all windows,  *)
(* a stored hold is honoured and an ended one stays ended, whatever the     *)
(* settings service answers and however often the app restarts.            *)
(***************************************************************************)
EXTENDS ExternalOffHold, TLAPS

\* What the process knows of a hold it has begun: the adapter has seen its opt-in.
BegunInv == \A d \in begun : d \in optIn /\ lastGood # None /\ d \in lastGood

\* What makes KeptIsHeld inductive: a kept hold is opted in as far as the adapter knows, and
\* is in memory or, while the holds are unavailable, not marked as released.
KeptInv ==
  \A d \in kept : /\ d \in stored /\ marker /\ d \in optIn
                  /\ lastGood # None => d \in lastGood
                  /\ d \in held \/ (unavailable /\ d \notin released)

\* What makes EndedStaysEnded inductive: a hold ended while the holds are unavailable has
\* its tombstone.
EndedInv == \A d \in ended : d \notin held /\ (unavailable => d \in released)

HoldInv == TypeOK /\ BegunInv /\ KeptInv /\ EndedInv
IInv == HoldInv /\ HoldHasSave

USE HoldAssumption

-----------------------------------------------------------------------------
(* What the operators return                                                 *)

\* The read of the opt-in map gives a set of devices or nothing.
LEMMA OptInReadType ==
  ASSUME TypeOK, NEW readable \in BOOLEAN
  PROVE  OptInRead(readable) # None => OptInRead(readable) \subseteq Device
BY DEF OptInRead, TypeOK

\* A kept or begun hold is opted in for every read that has an answer.
LEMMA OptInReadHas ==
  ASSUME TypeOK, BegunInv, KeptInv, NEW readable \in BOOLEAN, OptInRead(readable) # None,
         NEW d \in kept \cup begun
  PROVE  d \in OptInRead(readable)
BY DEF OptInRead, BegunInv, KeptInv

\* The holds after the state is settled: a kept hold is among them unless the state stays
\* unavailable or is given up, an ended one never is.
LEMMA SettledHolds ==
  ASSUME HoldInv, NEW load \in Loads, NEW readable \in BOOLEAN, NEW reconciles \in BOOLEAN
  PROVE  /\ Settled(load, readable, reconciles) \subseteq Device
         /\ \A d \in kept : \/ d \in Settled(load, readable, reconciles)
                            \/ Abandons(load)
                            \/ StillUnavailable(load) /\ d \notin released
         /\ ended \cap Settled(load, readable, reconciles) = {}
<1> DEFINE S == Settled(load, readable, reconciles)
<1>1. Reloaded(load) \subseteq Device
  BY DEF HoldInv, TypeOK, Reloaded, Loaded
<1>2. S \subseteq Reloaded(load)
  BY DEF Settled
<1>3. \A d \in ended : d \notin Reloaded(load)
  BY DEF HoldInv, EndedInv, Reloaded, Adopts, Reloads
<1>4. ASSUME NEW d \in kept, d \in Reloaded(load)
      PROVE  d \in S
  BY <1>4, OptInReadHas DEF Settled, HoldInv
<1>5. ASSUME NEW d \in kept
      PROVE  d \in Reloaded(load) \/ Abandons(load) \/ (StillUnavailable(load) /\ d \notin released)
  <2>1. CASE d \in held
    BY <2>1 DEF Reloaded
  <2>2. CASE d \notin held /\ Adopts(load)
    <3>1. marker /\ d \in stored /\ d \notin released
      BY <2>2 DEF HoldInv, KeptInv
    <3>2. load = "read"
      BY <2>2, <3>1 DEF Adopts, Resolves
    <3>3. QED
      BY <2>2, <3>1, <3>2 DEF Reloaded, Loaded
  <2>3. CASE d \notin held /\ ~Adopts(load)
    BY <2>3 DEF HoldInv, KeptInv, StillUnavailable
  <2>4. QED
    BY <2>1, <2>2, <2>3
<1>6. QED
  BY <1>1, <1>2, <1>3, <1>4, <1>5
-----------------------------------------------------------------------------
(* The steps                                                                 *)

LEMMA InitOK == Init => HoldInv
<1> SUFFICES ASSUME Init PROVE HoldInv
  OBVIOUS
<1>1. TypeOK
  <2>1. grace \in 0..Grace /\ retry \in 0..Retry
    BY DEF Init
  <2>2. marker \in BOOLEAN /\ unavailable \in BOOLEAN /\ dirty \in BOOLEAN
    BY DEF Init
  <2>3. QED
    BY <2>1, <2>2 DEF Init, TypeOK
<1>2. BegunInv /\ KeptInv /\ EndedInv
  BY DEF Init, BegunInv, KeptInv, EndedInv
<1>3. QED
  BY <1>1, <1>2 DEF HoldInv

\* A call keeps the invariant when it does not both end and start holds, and starts only
\* those of devices it has just found opted in.
LEMMA CallOK ==
  ASSUME HoldInv, NEW load \in Loads, NEW readable \in BOOLEAN, NEW save \in Saves,
         NEW reconciles \in BOOLEAN, NEW asks,
         NEW ends \in SUBSET Device, NEW starts \in SUBSET Device,
         ends = {} \/ starts = {},
         \A d \in starts : asks /\ Enabled(d, readable),
         Call(load, readable, save, reconciles, asks, ends, starts)
  PROVE  HoldInv'
<1> DEFINE before == Settled(load, readable, reconciles)
           final == (before \ ends) \cup starts
           open == StillUnavailable(load)
           changed == Changed(load, before, final)
           writes == changed /\ ~Withheld(load) /\ save # "fails"
           completed == writes /\ save = "ok"
           lapses == Abandons(load) \/ (open /\ writes /\ grace = 0)
<1>1. /\ held' = final
      /\ unavailable' = open
      /\ grace' = IF open THEN grace ELSE 0
      /\ retry' = IF Reloads THEN Retry ELSE retry
      /\ released' = IF Adopts(load) THEN {} ELSE IF open THEN released \cup ends ELSE released
      /\ lastGood' = IF readable /\ (asks \/ Reconciles(load, reconciles)) THEN optIn ELSE lastGood
      /\ stored' = IF writes THEN final ELSE stored
      /\ marker' = (marker \/ completed)
      /\ dirty' = Pending(changed, completed, load)
      /\ begun' = (begun \ ends) \cup (starts \cap optIn)
      /\ kept' = (IF lapses THEN kept \cap final ELSE kept \ ends)
                 \cup (IF completed THEN begun' \cap final ELSE {})
      /\ ended' = (ended \cup ends) \ starts
      /\ optIn' = optIn
  BY DEF Call
<1>2. /\ before \subseteq Device
      /\ \A d \in kept : d \in before \/ Abandons(load) \/ (open /\ d \notin released)
      /\ ended \cap before = {}
  BY SettledHolds
<1> HIDE DEF before
<1>3. open \in BOOLEAN /\ changed \in BOOLEAN /\ completed \in BOOLEAN /\ dirty' \in BOOLEAN
  <2>1. open \in BOOLEAN
    BY DEF StillUnavailable, HoldInv, TypeOK
  <2>2. changed \in BOOLEAN
    BY DEF Changed, HoldInv, TypeOK
  <2>3. QED
    BY <1>1, <2>1, <2>2 DEF Pending
<1>4. TypeOK'
  <2>1. held' \subseteq Device /\ stored' \subseteq Device /\ released' \subseteq Device
    BY <1>1, <1>2 DEF HoldInv, TypeOK
  <2>2. begun' \subseteq Device /\ kept' \subseteq Device /\ ended' \subseteq Device
    BY <1>1, <1>2 DEF HoldInv, TypeOK
  <2>3. lastGood' # None => lastGood' \subseteq Device
    BY <1>1 DEF HoldInv, TypeOK
  <2>4. grace' \in 0..Grace /\ retry' \in 0..Retry
    BY <1>1 DEF HoldInv, TypeOK
  <2>5. unavailable' \in BOOLEAN /\ marker' \in BOOLEAN /\ dirty' \in BOOLEAN
    BY <1>1, <1>3 DEF HoldInv, TypeOK
  <2>6. QED
    BY <1>1, <2>1, <2>2, <2>3, <2>4, <2>5 DEF HoldInv, TypeOK
<1>5. optIn # None
  BY DEF HoldInv, TypeOK
<1>6. BegunInv'
  <2>1. ASSUME NEW d \in begun
        PROVE  d \in optIn /\ lastGood' # None /\ d \in lastGood'
    BY <1>1, <1>5 DEF HoldInv, BegunInv
  <2>2. ASSUME NEW d \in starts \cap optIn
        PROVE  lastGood' # None /\ d \in lastGood'
    BY <1>1, <1>5 DEF Enabled, OptInRead
  <2>3. QED
    BY <1>1, <2>1, <2>2 DEF BegunInv
<1>7. ASSUME NEW d \in kept'
      PROVE  d \in kept \/ (completed /\ d \in begun' /\ d \in final)
  BY <1>1
<1>8. ASSUME NEW d \in kept'
      PROVE  d \in optIn' /\ (lastGood' # None => d \in lastGood')
  <2>1. CASE d \in kept
    BY <1>1, <2>1 DEF HoldInv, KeptInv
  <2>2. CASE d \in begun'
    BY <1>6, <2>2 DEF BegunInv
  <2>3. QED
    BY <1>7, <2>1, <2>2
<1>9. ASSUME NEW d \in kept'
      PROVE  d \in stored' /\ marker' /\ (d \in held' \/ (unavailable' /\ d \notin released'))
  <2>1. CASE completed /\ d \in final
    BY <1>1, <2>1
  <2>2. CASE ~(completed /\ d \in final) /\ lapses
    <3>1. d \in kept /\ d \in final
      BY <1>1, <1>7, <2>2
    <3>2. QED
      BY <1>1, <2>2, <3>1 DEF HoldInv, KeptInv
  <2>3. CASE ~(completed /\ d \in final) /\ ~lapses
    <3>1. d \in kept /\ d \notin ends
      BY <1>1, <1>7, <2>3
    <3>2. d \in stored /\ marker
      BY <3>1 DEF HoldInv, KeptInv
    <3>3. d \in before \/ (open /\ d \notin released)
      BY <1>2, <2>3, <3>1
    <3>4. CASE d \in before
      BY <1>1, <3>1, <3>2, <3>4
    <3>5. CASE d \notin before /\ open /\ d \notin released
      <4>1. ~Adopts(load)
        BY <3>5 DEF StillUnavailable
      <4>2. ~writes
        BY <2>3, <3>5 DEF Withheld, HoldInv, TypeOK
      <4>3. QED
        BY <1>1, <3>1, <3>2, <3>5, <4>1, <4>2
    <3>6. QED
      BY <3>3, <3>4, <3>5
  <2>4. QED
    BY <2>1, <2>2, <2>3
<1>10. KeptInv'
  BY <1>8, <1>9 DEF KeptInv
<1>11. EndedInv'
  <2>1. ASSUME NEW d \in ended'
        PROVE  d \notin held' /\ (unavailable' => d \in released')
    <3>1. d \notin starts /\ (d \in ended \/ d \in ends)
      BY <1>1
    <3>2. d \notin final
      BY <1>2, <3>1
    <3>3. open => d \in released'
      <4>1. open => unavailable /\ ~Adopts(load)
        BY DEF StillUnavailable
      <4>2. QED
        BY <1>1, <3>1, <4>1 DEF HoldInv, EndedInv
    <3>4. QED
      BY <1>1, <3>2, <3>3
  <2>2. QED
    BY <2>1 DEF EndedInv
<1>12. QED
  BY <1>4, <1>6, <1>10, <1>11 DEF HoldInv

LEMMA TurnedOffOK ==
  ASSUME HoldInv, NEW d \in Device, NEW load \in Loads, NEW readable \in BOOLEAN, NEW save \in Saves,
         TurnedOff(d, load, readable, save)
  PROVE  HoldInv'
<1>1. Enabled(d, readable) /\ Call(load, readable, save, FALSE, TRUE, {}, {d})
  BY DEF TurnedOff
<1>2. {} \in SUBSET Device /\ {d} \in SUBSET Device /\ TRUE \in BOOLEAN /\ FALSE \in BOOLEAN
  OBVIOUS
<1>3. \A e \in {d} : TRUE /\ Enabled(e, readable)
  BY <1>1
<1>4. QED
  BY <1>1, <1>2, <1>3, CallOK

LEMMA TurnedOnOK ==
  ASSUME HoldInv, NEW d \in Device, NEW load \in Loads, NEW readable \in BOOLEAN, NEW save \in Saves,
         TurnedOn(d, load, readable, save)
  PROVE  HoldInv'
<1> DEFINE ends == IF Answers(d, load, readable) THEN {d} ELSE {}
<1>1. Call(load, readable, save, FALSE, AsksOptIn(d, load), ends, {})
  BY DEF TurnedOn
<1>2. AsksOptIn(d, load) \in BOOLEAN /\ ends \in SUBSET Device
  BY DEF AsksOptIn, StillUnavailable, HoldInv, TypeOK
<1>3. {} \in SUBSET Device /\ FALSE \in BOOLEAN
  OBVIOUS
<1> HIDE DEF ends
<1>4. QED
  BY <1>1, <1>2, <1>3, CallOK

LEMMA AskOK ==
  ASSUME HoldInv, NEW d \in Device, NEW load \in Loads, NEW readable \in BOOLEAN, NEW save \in Saves,
         Ask(d, load, readable, save)
  PROVE  HoldInv'
<1>1. AsksOptIn(d, load) \in BOOLEAN
  BY DEF AsksOptIn, StillUnavailable, HoldInv, TypeOK
<1>2. Call(load, readable, save, FALSE, AsksOptIn(d, load), {}, {})
  BY DEF Ask
<1>3. {} \in SUBSET Device /\ FALSE \in BOOLEAN
  OBVIOUS
<1>4. QED
  BY <1>1, <1>2, <1>3, CallOK

LEMMA SweepOK ==
  ASSUME HoldInv, NEW on \in SUBSET Device, NEW load \in Loads, NEW readable \in BOOLEAN,
         NEW save \in Saves, Sweep(on, load, readable, save)
  PROVE  HoldInv'
<1>1. Call(load, readable, save, TRUE, FALSE, on, {})
  BY DEF Sweep
<1>2. {} \in SUBSET Device /\ TRUE \in BOOLEAN /\ FALSE \in BOOLEAN
  OBVIOUS
<1>3. QED
  BY <1>1, <1>2, CallOK

LEMMA OtherOffOK == HoldInv /\ OtherOff => HoldInv'
<1> SUFFICES ASSUME HoldInv, OtherOff PROVE HoldInv'
  OBVIOUS
<1>1. optIn # None
  BY DEF HoldInv, TypeOK
<1>2. QED
  BY <1>1 DEF OtherOff, settings, history, HoldInv, TypeOK, BegunInv, KeptInv, EndedInv

LEMMA SetOptInOK ==
  ASSUME HoldInv, NEW S \in SUBSET Device, SetOptIn(S)
  PROVE  HoldInv'
BY DEF SetOptIn, settings, policy, HoldInv, TypeOK, BegunInv, KeptInv, EndedInv

LEMMA RestartOK ==
  ASSUME HoldInv, NEW load \in Loads, NEW readable \in BOOLEAN, NEW save \in Saves,
         Restart(load, readable, save)
  PROVE  HoldInv'
<1> DEFINE loaded == Loaded(load)
           final == IF readable THEN loaded \cap optIn ELSE loaded
           writes == final # loaded /\ save # "fails"
<1>1. /\ held' = final /\ unavailable' = ~Resolves(load)
      /\ grace' = IF Resolves(load) THEN 0 ELSE Grace
      /\ retry' = Retry /\ released' = {}
      /\ lastGood' = IF readable /\ loaded # {} THEN optIn ELSE None
      /\ stored' = IF writes THEN final ELSE stored
      /\ marker' = (marker \/ (writes /\ save = "ok"))
      /\ dirty' = (final # loaded /\ ~(writes /\ save = "ok"))
      /\ begun' = {} /\ ended' = {} /\ optIn' = optIn /\ kept' = kept
  BY DEF Restart
<1>2. loaded \subseteq Device
  BY DEF Loaded, HoldInv, TypeOK
<1>3. TypeOK'
  BY <1>1, <1>2 DEF HoldInv, TypeOK, Resolves
<1>4. ASSUME NEW d \in kept
      PROVE  /\ d \in stored' /\ marker' /\ d \in optIn'
             /\ lastGood' # None => d \in lastGood'
             /\ d \in held' \/ (unavailable' /\ d \notin released')
  <2>1. d \in stored /\ marker /\ d \in optIn
    BY <1>4 DEF HoldInv, KeptInv
  <2>2. CASE load = "read"
    BY <1>1, <2>1, <2>2 DEF Loaded
  <2>3. CASE load # "read"
    BY <1>1, <2>1, <2>3 DEF Loaded, Resolves
  <2>4. QED
    BY <2>2, <2>3
<1>5. BegunInv' /\ KeptInv' /\ EndedInv'
  BY <1>1, <1>4 DEF BegunInv, KeptInv, EndedInv
<1>6. QED
  BY <1>3, <1>5 DEF HoldInv

LEMMA TickOK == HoldInv /\ Tick => HoldInv'
<1> SUFFICES ASSUME HoldInv, Tick PROVE HoldInv'
  OBVIOUS
<1>1. grace' \in 0..Grace /\ retry' \in 0..Retry
  BY DEF Tick, HoldInv, TypeOK
<1>2. QED
  BY <1>1 DEF Tick, settings, history, HoldInv, TypeOK, BegunInv, KeptInv, EndedInv

LEMMA HoldInvOK == HoldInv /\ [Next]_vars => HoldInv'
<1> SUFFICES ASSUME HoldInv, [Next]_vars PROVE HoldInv'
  OBVIOUS
<1>1. ASSUME NEW load \in Loads, NEW readable \in BOOLEAN, NEW save \in Saves,
             \/ \E d \in Device : TurnedOff(d, load, readable, save)
             \/ \E d \in Device : TurnedOn(d, load, readable, save)
             \/ \E d \in Device : Ask(d, load, readable, save)
             \/ \E on \in SUBSET Device : Sweep(on, load, readable, save)
             \/ Restart(load, readable, save)
      PROVE  HoldInv'
  BY <1>1, TurnedOffOK, TurnedOnOK, AskOK, SweepOK, RestartOK
<1>2. Answering \subseteq Loads
  BY DEF Answering, Loads
<1>3. CASE OtherOff
  BY <1>3, OtherOffOK
<1>4. CASE \E S \in SUBSET Device : SetOptIn(S)
  BY <1>4, SetOptInOK
<1>5. CASE Tick
  BY <1>5, TickOK
<1>6. CASE UNCHANGED vars
  BY <1>6 DEF vars, settings, policy, history, HoldInv, TypeOK, BegunInv, KeptInv, EndedInv
<1>7. QED
  BY <1>1, <1>2, <1>3, <1>4, <1>5, <1>6 DEF Next

\* A call that leaves its holds unwritten remembers to write them; one that changes nothing
\* holds what it held, or what it has just read.
LEMMA CallSaves ==
  ASSUME TypeOK, HoldHasSave, NEW load \in Loads, NEW readable, NEW save, NEW reconciles,
         NEW asks, NEW ends, NEW starts,
         Call(load, readable, save, reconciles, asks, ends, starts)
  PROVE  HoldHasSave'
<1> DEFINE before == Settled(load, readable, reconciles)
           final == (before \ ends) \cup starts
           changed == Changed(load, before, final)
           writes == changed /\ ~Withheld(load) /\ save # "fails"
           completed == writes /\ save = "ok"
<1>1. /\ held' = final /\ stored' = IF writes THEN final ELSE stored
      /\ dirty' = Pending(changed, completed, load)
  BY DEF Call
<1>2. CASE writes
  BY <1>1, <1>2 DEF HoldHasSave
<1>3. CASE changed /\ ~writes
  BY <1>1, <1>3 DEF HoldHasSave, Pending
<1>4. CASE ~changed
  <2>1. ~dirty /\ final = Reloaded(load) /\ (Adopts(load) => held = {})
    BY <1>4 DEF Changed
  <2>2. held \subseteq stored
    BY <2>1 DEF HoldHasSave
  <2>3. Reloaded(load) \subseteq stored
    BY <2>2 DEF Reloaded, Loaded
  <2>4. held' \subseteq stored /\ stored' = stored
    BY <1>1, <1>4, <2>1, <2>3
  <2>5. QED
    BY <2>4 DEF HoldHasSave
<1>5. QED
  BY <1>2, <1>3, <1>4

LEMMA SavesOK == IInv /\ [Next]_vars => HoldHasSave'
<1> SUFFICES ASSUME IInv, [Next]_vars PROVE HoldHasSave'
  OBVIOUS
<1>0. TypeOK /\ HoldHasSave
  BY DEF IInv, HoldInv
<1>1. ASSUME NEW load \in Loads, NEW readable \in BOOLEAN, NEW save \in Saves,
             \/ \E d \in Device : TurnedOff(d, load, readable, save)
             \/ \E d \in Device : TurnedOn(d, load, readable, save)
             \/ \E d \in Device : Ask(d, load, readable, save)
             \/ \E on \in SUBSET Device : Sweep(on, load, readable, save)
      PROVE  HoldHasSave'
  BY <1>0, <1>1, CallSaves DEF TurnedOff, TurnedOn, Ask, Sweep
<1>2. ASSUME NEW load \in Loads, NEW readable \in BOOLEAN, NEW save \in Saves,
             Restart(load, readable, save)
      PROVE  HoldHasSave'
  <2> DEFINE loaded == Loaded(load)
             final == IF readable THEN loaded \cap optIn ELSE loaded
             writes == final # loaded /\ save # "fails"
  <2>1. /\ held' = final /\ stored' = IF writes THEN final ELSE stored
        /\ dirty' = (final # loaded /\ ~(writes /\ save = "ok"))
    BY <1>2 DEF Restart
  <2>2. loaded \subseteq stored
    BY DEF Loaded
  <2>3. QED
    BY <2>1, <2>2 DEF HoldHasSave
<1>3. Answering \subseteq Loads
  BY DEF Answering, Loads
<1>4. CASE UNCHANGED <<held, stored, dirty>>
  BY <1>0, <1>4 DEF HoldHasSave
<1>5. QED
  BY <1>1, <1>2, <1>3, <1>4 DEF Next, OtherOff, SetOptIn, Tick, vars, settings, policy

LEMMA NextOK == IInv /\ [Next]_vars => IInv'
BY HoldInvOK, SavesOK DEF IInv
-----------------------------------------------------------------------------
(* The theorems                                                              *)

THEOREM Inductive == Spec => []IInv
<1>1. Init => IInv
  BY InitOK DEF IInv, Init, HoldHasSave
<1>2. IInv /\ [Next]_vars => IInv'
  BY NextOK
<1>3. QED
  BY <1>1, <1>2, PTL DEF Spec

\* The state has its types.
THEOREM TypeCorrect == Spec => []TypeOK
<1>1. IInv => TypeOK
  BY DEF IInv, HoldInv
<1>2. QED
  BY <1>1, Inductive, PTL

\* A stored hold is honoured: no read, no save and no restart makes PELS turn the device on.
THEOREM KeptHeld == Spec => []KeptIsHeld
<1>1. IInv => KeptIsHeld
  BY DEF IInv, HoldInv, KeptInv, KeptIsHeld, MayDeny
<1>2. QED
  BY <1>1, Inductive, PTL

\* A hold that was ended stays ended: no recovered read strands the device.
THEOREM EndedStays == Spec => []EndedStaysEnded
<1>1. IInv => EndedStaysEnded
  BY DEF IInv, HoldInv, EndedInv, EndedStaysEnded, MayHold
<1>2. QED
  BY <1>1, Inductive, PTL

\* No hold is kept in memory alone without a save that is tried again (flushPendingWrite).
THEOREM HoldsSaved == Spec => []HoldHasSave
<1>1. IInv => HoldHasSave
  BY DEF IInv
<1>2. QED
  BY <1>1, Inductive, PTL
=============================================================================
