------------------------ MODULE RebuildPolicyProofs ------------------------
(***************************************************************************)
(* Lemmas about the policy's operators, for all intervals, deficit levels   *)
(* and backoff tables: each of them keeps the type of the rebuild state,    *)
(* and none returns a state with an observation's latch and a backoff both. *)
(***************************************************************************)
EXTENDS RebuildPolicy, TLAPS

\* A device observation's invalidation clears the tight-noop backoff, and whatever
\* installs a backoff spends the invalidation.
NoBackoffUnderLatch(r) == r.latch => r.streak = 0 /\ r.backoff = 0

\* The noop streak ranges over the backoff table and one streak past it.
LEMMA StreakBound == MaxStreak \in Nat /\ MaxStreak >= 1 /\ 0 \in 0..MaxStreak
BY PolicyAssumption DEF MaxStreak

\* The backoff of every streak is a natural number.
LEMMA BackoffType == \A n \in 1..MaxStreak : BackoffOf(n) \in Nat
BY PolicyAssumption DEF MaxStreak, BackoffOf

\* The intervals of the policy are natural numbers.
LEMMA NumberTypes ==
  /\ \A n \in Int : NonNeg(n) \in Nat
  /\ \A a, b \in Nat : Larger(a, b) \in Nat
BY DEF NonNeg, Larger

\* Setting one field of a rebuild state to a value of its type leaves a rebuild state.
LEMMA FieldTypes ==
  ASSUME NEW r \in RebuildStates
  PROVE  /\ \A b \in BOOLEAN : /\ [r EXCEPT !.ran = b] \in RebuildStates
                               /\ [r EXCEPT !.latch = b] \in RebuildStates
                               /\ [r EXCEPT !.tightUnactionable = b] \in RebuildStates
         /\ \A n \in 0..MaxInterval : [r EXCEPT !.elapsed = n] \in RebuildStates
         /\ \A n \in 0..MaxStreak : [r EXCEPT !.streak = n] \in RebuildStates
         /\ \A n \in Nat : /\ [r EXCEPT !.backoff = n] \in RebuildStates
                           /\ [r EXCEPT !.holdoff = n] \in RebuildStates
         /\ \A d \in 0..MaxDeficit : [r EXCEPT !.lastDeficit = d] \in RebuildStates
BY DEF RebuildStates

\* The three fields of a tight-noop suppression, set together
LEMMA SuppressionTypes ==
  ASSUME NEW r \in RebuildStates, NEW n \in 0..MaxStreak, NEW b \in Nat, NEW h \in Nat
  PROVE  LET q == [r EXCEPT !.streak = n, !.backoff = b, !.holdoff = h]
         IN  /\ q \in RebuildStates
             /\ q.streak = n /\ q.backoff = b /\ q.holdoff = h
             /\ q.latch = r.latch
<1> DEFINE q1 == [r EXCEPT !.streak = n]
           q2 == [q1 EXCEPT !.backoff = b]
           q3 == [q2 EXCEPT !.holdoff = h]
           q  == [r EXCEPT !.streak = n, !.backoff = b, !.holdoff = h]
<1>1. q1 \in RebuildStates
  BY FieldTypes
<1>2. q2 \in RebuildStates
  BY <1>1, FieldTypes
<1>3. q3 \in RebuildStates
  BY <1>2, FieldTypes
<1>4. q = q3
  OBVIOUS
<1>5. q.streak = n /\ q.backoff = b /\ q.holdoff = h /\ q.latch = r.latch
  BY DEF RebuildStates
<1>6. QED
  BY <1>3, <1>4, <1>5

\* The record operators of the policy, by the two lemmas above
LEMMA PolicyTypes ==
  ASSUME NEW r \in RebuildStates
  PROVE  /\ ResetNoopBackoff(r) \in RebuildStates
         /\ ResetNoopBackoff(r).streak = 0 /\ ResetNoopBackoff(r).backoff = 0
         /\ \A n \in 1..MaxStreak : WithNoopBackoff(r, n) \in RebuildStates
<1>1. /\ ResetNoopBackoff(r) \in RebuildStates
      /\ ResetNoopBackoff(r).streak = 0 /\ ResetNoopBackoff(r).backoff = 0
  <2>1. ResetNoopBackoff(r) \in RebuildStates
    BY SuppressionTypes, StreakBound DEF ResetNoopBackoff
  <2>2. ResetNoopBackoff(r).streak = 0 /\ ResetNoopBackoff(r).backoff = 0
    BY DEF ResetNoopBackoff, RebuildStates
  <2>3. QED
    BY <2>1, <2>2
<1>2. ASSUME NEW n \in 1..MaxStreak
      PROVE  WithNoopBackoff(r, n) \in RebuildStates
  <2>1. n \in 0..MaxStreak /\ BackoffOf(n) \in Nat
    BY StreakBound, BackoffType
  <2>2. QED
    BY <2>1, SuppressionTypes DEF WithNoopBackoff
<1>3. QED
  BY <1>1, <1>2

\* The state a decision leaves, whether it skips the sample or stages a request
LEMMA DecisionTypes ==
  ASSUME NEW s \in Samples, NEW r \in RebuildStates, NEW short \in BOOLEAN,
         NoBackoffUnderLatch(r)
  PROVE  /\ ResetLatchWhenRecovered(r, short) \in RebuildStates
         /\ NoBackoffUnderLatch(ResetLatchWhenRecovered(r, short))
         /\ AfterSkip(s, r, short) \in RebuildStates
         /\ NoBackoffUnderLatch(AfterSkip(s, r, short))
         /\ AfterStage(s, r, short) \in RebuildStates
         /\ NoBackoffUnderLatch(AfterStage(s, r, short))
         /\ StagedDue(s, r, short) \in Nat
<1> DEFINE t == TightUnactionable(s, short)
<1>1. t \in BOOLEAN
  BY DEF TightUnactionable, Samples
<1>2. \A q \in RebuildStates :
        /\ [q EXCEPT !.tightUnactionable = t] \in RebuildStates
        /\ NoBackoffUnderLatch(q) =>
             NoBackoffUnderLatch([q EXCEPT !.tightUnactionable = t])
  BY <1>1, FieldTypes DEF NoBackoffUnderLatch, RebuildStates
<1>3. /\ ResetLatchWhenRecovered(r, short) \in RebuildStates
      /\ NoBackoffUnderLatch(ResetLatchWhenRecovered(r, short))
  BY FieldTypes DEF ResetLatchWhenRecovered, NoBackoffUnderLatch, RebuildStates
<1>4. ResetNoopBackoff(r) \in RebuildStates /\ NoBackoffUnderLatch(ResetNoopBackoff(r))
  BY PolicyTypes DEF NoBackoffUnderLatch
<1>5. AfterSkip(s, r, short) \in RebuildStates /\ NoBackoffUnderLatch(AfterSkip(s, r, short))
  <2> DEFINE calm == IF ~s.tight /\ ~short /\ s.deficit = 0 THEN ResetNoopBackoff(r) ELSE r
             d == IF s.deficit = 0 THEN 0 ELSE calm.lastDeficit
             q == [calm EXCEPT !.lastDeficit = d]
  <2>1. calm \in RebuildStates /\ NoBackoffUnderLatch(calm)
    BY <1>4
  <2>2. d \in 0..MaxDeficit
    BY <2>1, PolicyAssumption DEF RebuildStates
  <2>3. q \in RebuildStates
    BY <2>1, <2>2, FieldTypes
  <2>4. NoBackoffUnderLatch(q)
    BY <2>1 DEF NoBackoffUnderLatch, RebuildStates
  <2>5. AfterSkip(s, r, short) = [q EXCEPT !.tightUnactionable = t]
    BY DEF AfterSkip
  <2>6. QED
    BY <1>2, <2>3, <2>4, <2>5
<1>6. AfterStage(s, r, short) \in RebuildStates /\ NoBackoffUnderLatch(AfterStage(s, r, short))
  BY <1>2, <1>4 DEF AfterStage
<1>7. StagedDue(s, r, short) \in Nat
  <2>1. EffectiveMinInterval(s, short) - r.elapsed \in Int
    BY PolicyAssumption DEF EffectiveMinInterval, RebuildStates
  <2>2. QED
    BY <2>1, NumberTypes DEF StagedDue
<1>8. QED
  BY <1>3, <1>5, <1>6, <1>7

\* The state a finished rebuild leaves.  A verdict that installs a backoff spends the
\* latch in the same assignment.
LEMMA OutcomeTypes ==
  ASSUME NEW r \in RebuildStates, NEW tight \in BOOLEAN, NEW outcome \in Outcomes
  PROVE  /\ [AfterOutcome(r, tight, outcome) EXCEPT !.latch = FALSE] \in RebuildStates
         /\ NoBackoffUnderLatch([AfterOutcome(r, tight, outcome) EXCEPT !.latch = FALSE])
         /\ [AfterError(r, tight) EXCEPT !.latch = FALSE] \in RebuildStates
         /\ NoBackoffUnderLatch([AfterError(r, tight) EXCEPT !.latch = FALSE])
         /\ AfterOvertaken(r, tight, outcome) \in RebuildStates
         /\ NoBackoffUnderLatch(r) => NoBackoffUnderLatch(AfterOvertaken(r, tight, outcome))
<1>1. MitigationHoldoff \in Nat /\ r.streak \in 0..MaxStreak
  BY PolicyAssumption DEF RebuildStates
<1>2. AfterOvertaken(r, tight, outcome) \in RebuildStates
  BY <1>1, FieldTypes DEF AfterOvertaken
<1>3. NoBackoffUnderLatch(r) => NoBackoffUnderLatch(AfterOvertaken(r, tight, outcome))
  BY DEF AfterOvertaken, NoBackoffUnderLatch, RebuildStates
<1>4. AfterOutcome(r, tight, outcome) \in RebuildStates
  <2>1. (IF r.streak < MaxStreak THEN r.streak + 1 ELSE MaxStreak) \in 1..MaxStreak
    BY <1>1, StreakBound
  <2>2. [ResetNoopBackoff(r) EXCEPT !.holdoff = MitigationHoldoff] \in RebuildStates
    BY <1>1, FieldTypes, PolicyTypes
  <2>3. QED
    BY <2>1, <2>2, PolicyTypes DEF AfterOutcome
<1>5. AfterError(r, tight) \in RebuildStates
  <2>1. (IF r.streak = 0 THEN 1 ELSE r.streak) \in 1..MaxStreak
    BY <1>1, StreakBound
  <2>2. QED
    BY <2>1, PolicyTypes DEF AfterError
<1>6. \A q \in RebuildStates : /\ [q EXCEPT !.latch = FALSE] \in RebuildStates
                               /\ NoBackoffUnderLatch([q EXCEPT !.latch = FALSE])
  BY FieldTypes DEF RebuildStates, NoBackoffUnderLatch
<1>7. QED
  BY <1>2, <1>3, <1>4, <1>5, <1>6

\* The state after an observation, and after a unit of time
LEMMA PassiveTypes ==
  ASSUME NEW r \in RebuildStates
  PROVE  /\ AfterObservation(r) \in RebuildStates
         /\ NoBackoffUnderLatch(AfterObservation(r))
         /\ Aged(r) \in RebuildStates
         /\ NoBackoffUnderLatch(r) => NoBackoffUnderLatch(Aged(r))
<1>1. AfterObservation(r) \in RebuildStates
  <2> DEFINE q1 == [r EXCEPT !.latch = TRUE]
             q2 == [q1 EXCEPT !.streak = 0]
             q3 == [q2 EXCEPT !.backoff = 0]
  <2>1. q1 \in RebuildStates
    BY FieldTypes
  <2>2. q2 \in RebuildStates
    BY <2>1, FieldTypes, StreakBound
  <2>3. q3 \in RebuildStates
    BY <2>2, FieldTypes
  <2>4. QED
    BY <2>3 DEF AfterObservation
<1>2. NoBackoffUnderLatch(AfterObservation(r))
  BY DEF AfterObservation, NoBackoffUnderLatch, RebuildStates
<1>3. Aged(r) \in RebuildStates
  <2> DEFINE e == IF r.elapsed < MaxInterval THEN r.elapsed + 1 ELSE MaxInterval
             q1 == [r EXCEPT !.elapsed = e]
             q2 == [q1 EXCEPT !.backoff = NonNeg(@ - 1)]
             q3 == [q2 EXCEPT !.holdoff = NonNeg(@ - 1)]
  <2>1. e \in 0..MaxInterval
    BY PolicyAssumption DEF RebuildStates
  <2>2. q1 \in RebuildStates
    BY <2>1, FieldTypes
  <2>3. NonNeg(q1.backoff - 1) \in Nat
    BY <2>2, NumberTypes DEF RebuildStates
  <2>4. q2 \in RebuildStates
    BY <2>2, <2>3, FieldTypes
  <2>5. NonNeg(q2.holdoff - 1) \in Nat
    BY <2>4, NumberTypes DEF RebuildStates
  <2>6. q3 \in RebuildStates
    BY <2>4, <2>5, FieldTypes
  <2>7. Aged(r) = q3
    BY DEF Aged
  <2>8. QED
    BY <2>6, <2>7
<1>4. NoBackoffUnderLatch(r) => NoBackoffUnderLatch(Aged(r))
  BY DEF Aged, NoBackoffUnderLatch, RebuildStates, NonNeg
<1>5. QED
  BY <1>1, <1>2, <1>3, <1>4
=============================================================================
