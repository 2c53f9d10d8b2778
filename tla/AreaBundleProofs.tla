-------------------------- MODULE AreaBundleProofs --------------------------
(***************************************************************************)
(* Theorems about AreaBundle, for every bound on samples and rebuilds: the  *)
(* type invariant, that a refused write keeps a retry, that no area waits   *)
(* for a step nobody will take, that the clock of a silent meter rests only *)
(* after the silence was planned for, and that a prepared rebuild writes    *)
(* from the newest sample only.                                             *)
(***************************************************************************)
EXTENDS AreaBundle, TLAPS

\* The two steps of an ownership generation
Steps == {"prepare", "generation"}

\* No rebuild is queued before the first reading, the membership edge needs a zone tree, and
\* one step of an ownership generation at a time is in the queue.
GateInv ==
  /\ stale => reading # None
  /\ reading = None => queue = <<>> /\ outstanding = "none"
  /\ seen \/ gen \in {"preparing", "applying"} => tree
  /\ \A i \in DOMAIN queue : queue[i].by \in Steps => tree
  /\ \A i \in DOMAIN queue : queue[i].by = "generation" => gen \in {"applying", "pending"}
  /\ \A i, j \in DOMAIN queue : queue[i].by \in Steps /\ queue[j].by \in Steps => i = j

\* A newer reading has a greater revision than any the clock's rebuild was asked for, and
\* the rebuild of the current silence was begun in it.
ClockInv ==
  /\ sample.loop > 0 => reading = sample.loop
  /\ reading # None => reading <= sample.rev
  /\ \A i \in DOMAIN queue : queue[i].by = "heartbeat" =>
       queue[i].rev <= reading /\ (queue[i].rev = reading => stale)
  /\ run.blind => stale /\ ~run.dry
  /\ run.phase = "apply" => ~run.dry /\ (run.blind => shed)
  /\ run # Idle =>
       /\ run.phase # "idle"
       /\ ~run.dry /\ queue[1].by = "heartbeat" /\ queue[1].rev = reading => run.blind
  /\ escalated => stale /\ shed

\* The membership edge will be tried again.
EdgeArmed == edgeTimer /\ ~seen

\* A refused write is followed by a timer or a prepared rebuild in the queue, and a rebuild
\* that runs dry in an area now ready by one other than itself.
OwedInv ==
  /\ outstanding = "fenced" /\ Ready /\ ~torn =>
       recoveryTimer \/ EdgeArmed \/ \E i \in DOMAIN queue : queue[i].by \in Prepared
  /\ run.dry /\ Ready /\ ~torn =>
       \/ recoveryTimer
       \/ \E i \in DOMAIN queue : i > 1 /\ queue[i].by \in Prepared
       \/ EdgeArmed /\ queue[1].by # "generation"

IInv == TypeOK /\ GateInv /\ ClockInv /\ OwedInv /\ AreaIsServed
-----------------------------------------------------------------------------
(* Records                                                                   *)

Runs == [phase : {"idle", "build", "apply"}, dry : BOOLEAN, moved : BOOLEAN, blind : BOOLEAN]
Samples == [rev : 0..MaxRev, done : 0..MaxRev, loop : 0..MaxRev]

\* A newer reading or an observation leaves the rebuild where it is.
LEMMA RunFacts ==
  ASSUME NEW r \in Runs, NEW n, n = [r EXCEPT !.blind = FALSE]
  PROVE  /\ n \in Runs /\ n.phase = r.phase /\ n.dry = r.dry /\ n.moved = r.moved
         /\ n.blind = FALSE
         /\ r = Idle => n = Idle
<1>1. n \in Runs /\ n.phase = r.phase /\ n.dry = r.dry /\ n.moved = r.moved /\ n.blind = FALSE
  BY DEF Runs
<1>2. n = [phase |-> n.phase, dry |-> n.dry, moved |-> n.moved, blind |-> n.blind]
  BY <1>1 DEF Runs
<1>3. r = Idle => r.phase = "idle" /\ r.dry = FALSE /\ r.moved = FALSE
  BY DEF Idle
<1> QED
  BY <1>1, <1>2, <1>3 DEF Idle

LEMMA MovedFacts ==
  ASSUME NEW r \in Runs, NEW n, n = [r EXCEPT !.moved = TRUE]
  PROVE  n \in Runs /\ n.phase = r.phase /\ n.dry = r.dry /\ n.blind = r.blind
BY DEF Runs

LEMMA PhaseFacts ==
  ASSUME NEW r \in Runs, NEW n, n = [r EXCEPT !.phase = "apply"]
  PROVE  n \in Runs /\ n.phase = "apply" /\ n.dry = r.dry /\ n.blind = r.blind
BY DEF Runs

\* A sample that arrives takes the next revision.
LEMMA RequestedFacts ==
  ASSUME NEW s \in Samples, s.rev < MaxRev
  PROVE  /\ Requested(s) \in Samples /\ Requested(s).rev = s.rev + 1 /\ Requested(s).done = s.done
         /\ Requested(s).loop = IF s.loop = 0 THEN s.rev + 1 ELSE s.loop
<1>1. s.rev + 1 \in 0..MaxRev /\ s.loop \in 0..MaxRev
  BY BundleAssumption DEF Samples
<1> DEFINE n == IF s.loop = 0 THEN s.rev + 1 ELSE s.loop
<1>2. n \in 0..MaxRev
  BY <1>1
<1> HIDE DEF n
<1>3. Requested(s) = [s EXCEPT !.rev = s.rev + 1, !.loop = n]
  BY DEF Requested, n, Samples
<1> QED
  BY <1>1, <1>2, <1>3 DEF Samples, n
-----------------------------------------------------------------------------
(* The queue                                                                 *)

\* The generation's rebuild that follows the prepared one at the head
Follows == [by |-> "generation", rev |-> queue[1].rev]

\* What a rebuild appended to the queue leaves
LEMMA AppendFacts ==
  ASSUME NEW q \in Seq(Op), NEW op \in Op
  PROVE  /\ Append(q, op) \in Seq(Op)
         /\ Len(Append(q, op)) = Len(q) + 1
         /\ DOMAIN Append(q, op) = 1..(Len(q) + 1)
         /\ \A i \in DOMAIN q : i \in DOMAIN Append(q, op) /\ Append(q, op)[i] = q[i]
         /\ \A i \in DOMAIN Append(q, op) :
              (i \in DOMAIN q /\ Append(q, op)[i] = q[i]) \/ (i = Len(q) + 1 /\ Append(q, op)[i] = op)
         /\ Append(q, op)[Len(q) + 1] = op
OBVIOUS

\* What the head leaves when it is popped
LEMMA TailFacts ==
  ASSUME NEW q \in Seq(Op), q # <<>>
  PROVE  /\ Len(q) \in Nat \ {0} /\ Head(q) = q[1] /\ q[1] \in Op
         /\ Tail(q) \in Seq(Op) /\ Len(Tail(q)) = Len(q) - 1
         /\ \A i \in DOMAIN Tail(q) : i + 1 \in DOMAIN q /\ Tail(q)[i] = q[i + 1]
         /\ \A i \in DOMAIN q : i > 1 => i - 1 \in DOMAIN Tail(q) /\ Tail(q)[i - 1] = q[i]
OBVIOUS

\* The queue once its head has ended: the rest, and perhaps the generation's rebuild.
LEMMA EndsQueue ==
  ASSUME TypeOK, queue # <<>>, NEW outcome, NEW arms, Ends(outcome, arms)
  PROVE  /\ queue' \in Seq(Op) /\ Len(queue') <= MaxQueue
         /\ \A i \in DOMAIN queue' :
              \/ i + 1 \in DOMAIN queue /\ queue'[i] = queue[i + 1]
              \/ /\ i = Len(queue) /\ queue'[i] = Follows
                 /\ queue[1].by = "prepare" /\ gen = "preparing" /\ gen' = "applying"
                 /\ outcome = "built" /\ Stable(queue[1].rev)
         /\ \A i \in DOMAIN queue : i > 1 => i - 1 \in DOMAIN queue' /\ queue'[i - 1] = queue[i]
<1>1. /\ queue \in Seq(Op) /\ Len(queue) <= MaxQueue /\ MaxQueue \in Nat /\ MaxRev \in Nat
  BY BundleAssumption DEF TypeOK
<1>2. /\ Len(queue) \in Nat \ {0} /\ Head(queue) = queue[1] /\ queue[1] \in Op
      /\ Tail(queue) \in Seq(Op) /\ Len(Tail(queue)) = Len(queue) - 1
      /\ \A i \in DOMAIN Tail(queue) : i + 1 \in DOMAIN queue /\ Tail(queue)[i] = queue[i + 1]
      /\ \A i \in DOMAIN queue : i > 1 => i - 1 \in DOMAIN Tail(queue) /\ Tail(queue)[i - 1] = queue[i]
  BY <1>1, TailFacts
<1>3. CASE queue' = Tail(queue)
  BY <1>1, <1>2, <1>3
<1>4. CASE queue' # Tail(queue)
  <2>1. /\ queue' = Append(Tail(queue), [by |-> "generation", rev |-> Head(queue).rev])
        /\ Head(queue).by = "prepare" /\ MayApply(Head(queue), outcome)
        /\ gen' = "applying"
    BY <1>4 DEF Ends, MayApply
  <2>2. queue[1].rev \in 0..MaxRev /\ Follows \in Op
    BY <1>2, <2>1 DEF Op, Prepared, Follows
  <2>3. queue' = Append(Tail(queue), Follows)
    BY <1>2, <2>1 DEF Follows
  <2>4. /\ queue' \in Seq(Op) /\ Len(queue') = Len(queue)
        /\ \A i \in DOMAIN Tail(queue) : i \in DOMAIN queue' /\ queue'[i] = Tail(queue)[i]
        /\ \A i \in DOMAIN queue' :
             \/ i \in DOMAIN Tail(queue) /\ queue'[i] = Tail(queue)[i]
             \/ i = Len(queue) /\ queue'[i] = Follows
    BY <1>2, <2>2, <2>3, AppendFacts
  <2>5. gen = "preparing" /\ outcome = "built" /\ Stable(queue[1].rev) /\ queue[1].by = "prepare"
    BY <1>2, <2>1 DEF MayApply
  <2> QED
    BY <1>1, <1>2, <2>1, <2>4, <2>5
<1> QED
  BY <1>3, <1>4

\* What else the end of a rebuild changes
LEMMA EndsRest ==
  ASSUME TypeOK, queue # <<>>, NEW outcome, NEW arms, Ends(outcome, arms)
  PROVE  /\ run' = Idle
         /\ gen' \in {"settled", "pending", "preparing", "applying"}
         /\ seen' \in BOOLEAN /\ edgeTimer' \in BOOLEAN /\ recoveryTimer' \in BOOLEAN
         /\ escalated' \in BOOLEAN
         /\ escalated' => escalated \/ (queue[1].by = "heartbeat" /\ Latches(queue[1], outcome))
         /\ seen' => seen \/ Ready
         /\ \/ gen' = gen
            \/ queue[1].by = "prepare" /\ gen = "preparing" /\ gen' \in {"applying", "pending"}
            \/ queue[1].by = "generation" /\ gen = "applying" /\ gen' \in {"settled", "pending"}
         /\ UNCHANGED <<sample, reading, tree, authorized, torn, stale>>
<1>1. Head(queue) = queue[1]
  BY TailFacts DEF TypeOK
<1>2. /\ seen' => seen \/ Ready
      /\ \/ gen' = gen
         \/ queue[1].by = "prepare" /\ gen = "preparing" /\ gen' \in {"applying", "pending"}
         \/ queue[1].by = "generation" /\ gen = "applying" /\ gen' \in {"settled", "pending"}
  BY <1>1 DEF Ends, TypeOK
<1> QED
  BY <1>1, <1>2 DEF Ends, TypeOK, Idle

\* A client queues a rebuild.
LEMMA EnqueuedFacts ==
  ASSUME TypeOK, NEW op \in Op, Enqueued(op)
  PROVE  /\ queue' \in Seq(Op) /\ Len(queue') <= MaxQueue /\ queue' # <<>>
         /\ \A i \in DOMAIN queue : i \in DOMAIN queue' /\ queue'[i] = queue[i]
         /\ \A i \in DOMAIN queue' :
              (i \in DOMAIN queue /\ queue'[i] = queue[i]) \/ (i = Len(queue) + 1 /\ queue'[i] = op)
         /\ Len(queue) + 1 \in DOMAIN queue' /\ queue'[Len(queue) + 1] = op
         /\ queue # <<>> => Head(queue') = Head(queue)
<1>1. queue \in Seq(Op)
  BY DEF TypeOK
<1>2. queue' = Append(queue, op) /\ Len(queue') <= MaxQueue
  BY DEF Enqueued
<1>3. /\ queue' \in Seq(Op) /\ Len(queue') = Len(queue) + 1 /\ Len(queue) \in Nat
      /\ DOMAIN queue' = 1..(Len(queue) + 1)
      /\ \A i \in DOMAIN queue : i \in DOMAIN queue' /\ queue'[i] = queue[i]
      /\ \A i \in DOMAIN queue' :
           (i \in DOMAIN queue /\ queue'[i] = queue[i]) \/ (i = Len(queue) + 1 /\ queue'[i] = op)
      /\ queue'[Len(queue) + 1] = op
  BY <1>1, <1>2, AppendFacts
<1>4. queue' # <<>>
  BY <1>3
<1>5. ASSUME queue # <<>> PROVE Head(queue') = Head(queue)
  BY <1>1, <1>3, <1>4, <1>5, TailFacts
<1> QED
  BY <1>2, <1>3, <1>4, <1>5

\* A try of the membership edge queues at most its own rebuild.
LEMMA EdgeFacts ==
  ASSUME TypeOK, NEW rev \in 0..MaxRev,
         queue' = queue \/ Enqueued([by |-> "edge", rev |-> rev])
  PROVE  /\ queue' \in Seq(Op) /\ Len(queue') <= MaxQueue /\ (queue # <<>> => queue' # <<>>)
         /\ \A i \in DOMAIN queue : i \in DOMAIN queue' /\ queue'[i] = queue[i]
         /\ \A i \in DOMAIN queue' :
              \/ i \in DOMAIN queue /\ queue'[i] = queue[i]
              \/ i = Len(queue) + 1 /\ queue'[i].by = "edge"
<1>1. [by |-> "edge", rev |-> rev] \in Op
  BY DEF Op, Prepared
<1>2. queue \in Seq(Op) /\ Len(queue) <= MaxQueue
  BY DEF TypeOK
<1>3. CASE queue' = queue
  BY <1>2, <1>3
<1>4. CASE Enqueued([by |-> "edge", rev |-> rev])
  BY <1>1, <1>4, EnqueuedFacts
<1> QED
  BY <1>3, <1>4
-----------------------------------------------------------------------------
(* The type invariant                                                        *)

\* Every step keeps the types.
LEMMA TypeStep ==
  ASSUME TypeOK, GateInv, [Next]_vars
  PROVE  TypeOK'
<1> USE BundleAssumption
<1>t. /\ queue \in Seq(Op) /\ Len(queue) <= MaxQueue
      /\ run \in Runs /\ sample \in Samples
      /\ sample.rev \in 0..MaxRev /\ sample.done \in 0..MaxRev /\ sample.loop \in 0..MaxRev
  BY DEF TypeOK, Runs, Samples
<1>e. ASSUME queue # <<>>, NEW outcome, NEW arms, Ends(outcome, arms),
             outstanding' \in {"none", "fenced", "declined", "failed"}, shed' \in BOOLEAN
      PROVE  TypeOK'
  <2>1. queue' \in Seq(Op) /\ Len(queue') <= MaxQueue
    BY <1>e, EndsQueue
  <2>2. /\ run' = Idle
        /\ gen' \in {"settled", "pending", "preparing", "applying"}
        /\ seen' \in BOOLEAN /\ edgeTimer' \in BOOLEAN /\ recoveryTimer' \in BOOLEAN
        /\ escalated' \in BOOLEAN
        /\ UNCHANGED <<sample, reading, tree, authorized, torn, stale>>
    BY <1>e, EndsRest
  <2> QED
    BY <1>e, <2>1, <2>2 DEF TypeOK, Idle
<1>b. ASSUME run' = run \/ run' = [run EXCEPT !.blind = FALSE]
      PROVE  run' \in Runs /\ (run' # Idle => queue # <<>>)
  BY <1>b, <1>t, RunFacts DEF TypeOK
<1>n. run.phase # "idle" => queue # <<>>
  BY DEF TypeOK, Idle
<1>1. CASE Begin
  BY <1>1 DEF Begin, TypeOK, Idle, DryRun, Ready, gates, freshness
<1>2. CASE Abort
  BY <1>2, <1>e DEF Abort, TypeOK
<1>3. CASE BuildFails
  BY <1>3, <1>e, <1>n DEF BuildFails, TypeOK
<1>4. ASSUME NEW changed \in BOOLEAN, NEW wants \in BOOLEAN, BuildApplies(changed, wants)
      PROVE  TypeOK'
  <2>1. run' \in Runs
    BY <1>4, <1>t, PhaseFacts DEF BuildApplies
  <2> QED
    BY <1>4, <2>1, <1>n DEF BuildApplies, TypeOK, Runs, gates, timers
<1>5. ASSUME NEW changed \in BOOLEAN, NEW wants \in BOOLEAN, BuildCommits(changed, wants)
      PROVE  TypeOK'
  BY <1>5, <1>e, <1>n DEF BuildCommits, TypeOK
<1>6. ASSUME NEW succeeds \in BOOLEAN, Write(succeeds)
      PROVE  TypeOK'
  BY <1>6, <1>e, <1>n DEF Write, TypeOK
<1>7. CASE Observe
  <2>1. run' \in Runs
    BY <1>7, <1>t, MovedFacts DEF Observe
  <2> QED
    BY <1>7, <2>1, <1>n DEF Observe, TypeOK, Runs, gates, timers, freshness
<1>8. CASE EdgeRetries
  <2>1. /\ seen' \in BOOLEAN /\ edgeTimer' \in BOOLEAN /\ recoveryTimer' \in BOOLEAN
        /\ queue' = queue \/ Enqueued([by |-> "edge", rev |-> sample.rev])
    <3>1. seen' \in BOOLEAN
      BY <1>8 DEF EdgeRetries, ApplyEdge, TypeOK, Gated
    <3>2. edgeTimer' \in BOOLEAN
      BY <1>8 DEF EdgeRetries, ApplyEdge, TypeOK, Gated
    <3>3. recoveryTimer' \in BOOLEAN
      BY <1>8 DEF EdgeRetries, ApplyEdge, TypeOK
    <3>4. queue' = queue \/ Enqueued([by |-> "edge", rev |-> sample.rev])
      BY <1>8 DEF EdgeRetries, ApplyEdge
    <3> QED
      BY <3>1, <3>2, <3>3, <3>4
  <2> QED
    BY <1>8, <2>1, <1>t, EdgeFacts DEF EdgeRetries, TypeOK, gates, freshness
<1>9. CASE TreeCommits
  <2>1. /\ seen' \in BOOLEAN /\ edgeTimer' \in BOOLEAN /\ recoveryTimer' \in BOOLEAN
        /\ queue' = queue \/ Enqueued([by |-> "edge", rev |-> sample.rev])
    <3>1. seen' \in BOOLEAN
      BY <1>9 DEF TreeCommits, ApplyEdge, TypeOK, Gated
    <3>2. edgeTimer' \in BOOLEAN
      BY <1>9 DEF TreeCommits, ApplyEdge, TypeOK, Gated
    <3>3. recoveryTimer' \in BOOLEAN
      BY <1>9 DEF TreeCommits, ApplyEdge, TypeOK
    <3>4. queue' = queue \/ Enqueued([by |-> "edge", rev |-> sample.rev])
      BY <1>9 DEF TreeCommits, ApplyEdge
    <3> QED
      BY <3>1, <3>2, <3>3, <3>4
  <2> QED
    BY <1>9, <2>1, <1>t, EdgeFacts DEF TreeCommits, TypeOK, freshness
<1>q. ASSUME NEW op \in Op, Enqueued(op)
      PROVE  queue' \in Seq(Op) /\ Len(queue') <= MaxQueue /\ queue' # <<>>
  BY <1>q, EnqueuedFacts
<1>10. CASE Recover
  <2>1. [by |-> "recovery", rev |-> sample.rev] \in Op
    BY <1>t DEF Op, Prepared
  <2>2. recoveryTimer' \in BOOLEAN
    BY <1>10 DEF Recover
  <2>3. queue' \in Seq(Op) /\ Len(queue') <= MaxQueue /\ queue' # <<>>
    BY <1>10, <2>1, <1>q DEF Recover
  <2> QED
    BY <1>10, <2>2, <2>3 DEF Recover, TypeOK, gates, freshness
<1>11. CASE Escalate
  <2>1. reading \in 0..MaxRev
    BY <1>11 DEF Escalate, GateInv, TypeOK
  <2>2. [by |-> "heartbeat", rev |-> reading] \in Op
    BY <2>1 DEF Op, Prepared
  <2>3. queue' \in Seq(Op) /\ Len(queue') <= MaxQueue /\ queue' # <<>>
    BY <1>11, <2>2, <1>q DEF Escalate
  <2> QED
    BY <1>11, <2>3 DEF Escalate, TypeOK, gates, timers, freshness
<1>12. CASE Request
  <2>1. [by |-> "other", rev |-> 0] \in Op
    BY DEF Op, Prepared
  <2> QED
    BY <1>12, <2>1, <1>q DEF Request, TypeOK, gates, freshness
<1>13. CASE OwnershipChanges
  BY <1>13 DEF OwnershipChanges, TypeOK, timers, freshness
<1>14. CASE Prepare
  <2>1. [by |-> "prepare", rev |-> sample.rev] \in Op
    BY <1>t DEF Op, Prepared
  <2> QED
    BY <1>14, <2>1, <1>q DEF Prepare, TypeOK, timers, freshness
<1>15. CASE PrepareGated
  BY <1>15 DEF PrepareGated, TypeOK, freshness
<1>16. CASE SampleArrives
  <2>1. sample' = Requested(sample) /\ sample.rev < MaxRev
    BY <1>16 DEF SampleArrives
  <2>2. sample' \in Samples /\ sample'.done <= sample'.rev /\ sample'.loop <= sample'.rev
    BY <2>1, <1>t, RequestedFacts DEF TypeOK
  <2>3. sample.rev + 1 \in 0..MaxRev
    BY <2>1, <1>t
  <2>4. /\ reading' \in {None} \cup 0..MaxRev
        /\ stale' \in BOOLEAN /\ escalated' \in BOOLEAN /\ shed' \in BOOLEAN
        /\ run' = run \/ run' = [run EXCEPT !.blind = FALSE]
    BY <1>16, <2>3 DEF SampleArrives, Ingested, TypeOK, freshness
  <2> QED
    BY <1>16, <2>2, <2>4, <1>b DEF SampleArrives, TypeOK, Runs, Samples, gates, timers
<1>17. CASE SampleCoalesces
  <2>1. sample' \in Samples /\ sample'.done <= sample'.rev /\ sample'.loop <= sample'.rev
    <3>1. sample' = [sample EXCEPT !.done = sample.loop, !.loop = sample.rev]
      BY <1>17 DEF SampleCoalesces
    <3>2. sample' \in Samples /\ sample'.rev = sample.rev /\ sample'.done = sample.loop
          /\ sample'.loop = sample.rev
      BY <3>1, <1>t DEF Samples
    <3> QED
      BY <3>2, <1>t DEF TypeOK
  <2>2. /\ reading' \in {None} \cup 0..MaxRev
        /\ stale' \in BOOLEAN /\ escalated' \in BOOLEAN /\ shed' \in BOOLEAN
        /\ run' = [run EXCEPT !.blind = FALSE]
    BY <1>17, <1>t DEF SampleCoalesces, Ingested
  <2> QED
    BY <1>17, <2>1, <2>2, <1>b DEF SampleCoalesces, TypeOK, Runs, Samples, gates, timers
<1>18. CASE SampleSettles
  <2>1. 0 \in 0..MaxRev
    OBVIOUS
  <2>2. /\ sample' \in Samples /\ sample'.rev \in 0..MaxRev
        /\ sample'.done <= sample'.rev /\ sample'.loop <= sample'.rev
    <3>1. sample' = [sample EXCEPT !.done = sample.loop, !.loop = 0]
      BY <1>18 DEF SampleSettles
    <3>2. sample' \in Samples /\ sample'.rev = sample.rev /\ sample'.done = sample.loop
          /\ sample'.loop = 0
      BY <2>1, <3>1, <1>t DEF Samples
    <3> QED
      BY <3>2, <1>t DEF TypeOK
  <2>3. /\ seen' \in BOOLEAN /\ edgeTimer' \in BOOLEAN /\ recoveryTimer' \in BOOLEAN
        /\ queue' = queue \/ Enqueued([by |-> "edge", rev |-> sample'.rev])
    <3>1. seen' \in BOOLEAN
      BY <1>18 DEF SampleSettles, ApplyEdge, TypeOK, Gated
    <3>2. edgeTimer' \in BOOLEAN
      BY <1>18 DEF SampleSettles, ApplyEdge, TypeOK, Gated
    <3>3. recoveryTimer' \in BOOLEAN
      BY <1>18 DEF SampleSettles, ApplyEdge, TypeOK
    <3>4. queue' = queue \/ Enqueued([by |-> "edge", rev |-> sample'.rev])
      BY <1>18 DEF SampleSettles, ApplyEdge
    <3> QED
      BY <3>1, <3>2, <3>3, <3>4
  <2> QED
    BY <1>18, <2>2, <2>3, EdgeFacts DEF SampleSettles, TypeOK, Samples, gates, freshness
<1>19. CASE SampleFails
  <2>1. sample' \in Samples /\ sample'.rev = sample.rev /\ sample'.done = sample.done /\ sample'.loop = 0
    BY <1>19, <1>t DEF SampleFails, Samples
  <2> QED
    BY <1>19, <2>1, <1>t DEF SampleFails, TypeOK, Samples, gates, timers, freshness
<1>20. CASE SourceChanges
  BY <1>20 DEF SourceChanges, TypeOK, timers, freshness
<1>21. CASE GoesStale
  BY <1>21 DEF GoesStale, TypeOK, gates, timers
<1>22. CASE TearDown
  <2>1. torn' \in BOOLEAN /\ edgeTimer' \in BOOLEAN /\ recoveryTimer' \in BOOLEAN
    BY <1>22 DEF TearDown
  <2> QED
    BY <1>22, <2>1 DEF TearDown, TypeOK, freshness
<1>23. CASE UNCHANGED vars
  BY <1>23 DEF vars, gates, timers, freshness, TypeOK
<1> QED
  BY <1>1, <1>2, <1>3, <1>4, <1>5, <1>6, <1>7, <1>8, <1>9, <1>10, <1>11, <1>12, <1>13, <1>14,
     <1>15, <1>16, <1>17, <1>18, <1>19, <1>20, <1>21, <1>22, <1>23 DEF Next, Serve
-----------------------------------------------------------------------------
(* The gates                                                                 *)

\* The end of a rebuild keeps the steps of a generation in order.
LEMMA EndsGate ==
  ASSUME TypeOK, GateInv, queue # <<>>, NEW outcome, NEW arms, Ends(outcome, arms)
  PROVE  GateInv'
<1>1. queue \in Seq(Op) /\ Len(queue) \in Nat \ {0} /\ 1 \in DOMAIN queue
  BY TailFacts DEF TypeOK
<1>2. /\ \A i \in DOMAIN queue' :
           \/ i + 1 \in DOMAIN queue /\ queue'[i] = queue[i + 1]
           \/ /\ i = Len(queue) /\ queue'[i] = Follows
              /\ queue[1].by = "prepare" /\ gen = "preparing" /\ gen' = "applying"
      /\ queue' \in Seq(Op)
  BY EndsQueue
<1>3. /\ seen' => seen \/ Ready
      /\ \/ gen' = gen
         \/ queue[1].by = "prepare" /\ gen = "preparing" /\ gen' \in {"applying", "pending"}
         \/ queue[1].by = "generation" /\ gen = "applying" /\ gen' \in {"settled", "pending"}
      /\ UNCHANGED <<sample, reading, tree, authorized, torn, stale>>
  BY EndsRest
<1>4. /\ (stale => reading # None)'
      /\ (reading = None => queue = <<>> /\ outstanding = "none")'
  BY <1>3 DEF GateInv
<1>5. (seen \/ gen \in {"preparing", "applying"} => tree)'
  BY <1>3 DEF GateInv, Ready
<1>6. (\A i \in DOMAIN queue : queue[i].by \in Steps => tree)'
  BY <1>2, <1>3 DEF GateInv
<1>7. ASSUME NEW i \in DOMAIN queue', queue'[i].by = "generation"
      PROVE  gen' \in {"applying", "pending"}
  <2>1. CASE i + 1 \in DOMAIN queue /\ queue'[i] = queue[i + 1]
    <3>1. queue[i + 1].by = "generation" /\ gen \in {"applying", "pending"} /\ i + 1 # 1
      BY <1>1, <1>2, <1>7, <2>1 DEF GateInv
    <3>2. queue[1].by # "generation"
      BY <1>1, <2>1, <3>1 DEF GateInv, Steps
    <3> QED
      BY <1>3, <3>1, <3>2
  <2> QED
    BY <1>2, <2>1
<1>8. ASSUME NEW i \in DOMAIN queue', NEW j \in DOMAIN queue',
             queue'[i].by \in Steps, queue'[j].by \in Steps
      PROVE  i = j
  <2>1. CASE i + 1 \in DOMAIN queue /\ queue'[i] = queue[i + 1]
             /\ j + 1 \in DOMAIN queue /\ queue'[j] = queue[j + 1]
    <3>1. i + 1 = j + 1
      BY <1>8, <2>1 DEF GateInv
    <3> QED
      BY <1>2, <3>1
  <2>2. ASSUME queue[1].by = "prepare",
               NEW k \in DOMAIN queue', queue'[k].by \in Steps, k + 1 \in DOMAIN queue,
               queue'[k] = queue[k + 1]
        PROVE  FALSE
    <3>1. queue[k + 1].by \in Steps /\ queue[1].by \in Steps
      BY <2>2 DEF Steps
    <3>2. k + 1 = 1
      BY <1>1, <2>2, <3>1 DEF GateInv
    <3> QED
      BY <1>2, <2>2, <3>2
  <2> QED
    BY <1>2, <1>8, <2>1, <2>2
<1> QED
  BY <1>4, <1>5, <1>6, <1>7, <1>8 DEF GateInv

\* So does a rebuild that is queued, when it is not a second step of a generation.
LEMMA EnqueuedGate ==
  ASSUME TypeOK, GateInv, queue' \in Seq(Op), reading # None, tree' = tree \/ tree' = TRUE, NEW op,
         \A i \in DOMAIN queue' :
           \/ i \in DOMAIN queue /\ queue'[i] = queue[i]
           \/ i = Len(queue) + 1 /\ queue'[i].by = op,
         op \notin Steps \/ (op = "prepare" /\ tree /\ \A i \in DOMAIN queue : queue[i].by \notin Steps),
         op = "prepare" \/ gen' = gen
  PROVE  /\ (\A i \in DOMAIN queue : queue[i].by \in Steps => tree)'
         /\ (\A i \in DOMAIN queue : queue[i].by = "generation" => gen \in {"applying", "pending"})'
         /\ (\A i, j \in DOMAIN queue : queue[i].by \in Steps /\ queue[j].by \in Steps => i = j)'
<1>1. (\A i \in DOMAIN queue : queue[i].by \in Steps => tree)'
  BY DEF GateInv
<1>2. (\A i \in DOMAIN queue : queue[i].by = "generation" => gen \in {"applying", "pending"})'
  BY DEF GateInv, Steps
<1>3. (\A i, j \in DOMAIN queue : queue[i].by \in Steps /\ queue[j].by \in Steps => i = j)'
  BY DEF GateInv
<1> QED
  BY <1>1, <1>2, <1>3

\* Every step keeps the gates.
LEMMA GateStep ==
  ASSUME TypeOK, GateInv, ClockInv, [Next]_vars
  PROVE  GateInv'
<1> USE BundleAssumption
<1>t. /\ queue \in Seq(Op) /\ run \in Runs /\ sample \in Samples
      /\ sample.rev \in 0..MaxRev /\ sample.loop \in 0..MaxRev
      /\ reading \in {None} \cup 0..MaxRev
  BY DEF TypeOK, Runs, Samples
<1>n. run.phase # "idle" => queue # <<>>
  BY DEF TypeOK, Idle
<1>1. CASE Begin
  BY <1>1 DEF Begin, GateInv, gates, freshness
<1>2. CASE Abort
  BY <1>2, EndsGate DEF Abort
<1>3. CASE BuildFails
  BY <1>3, <1>n, EndsGate DEF BuildFails
<1>4. ASSUME NEW changed \in BOOLEAN, NEW wants \in BOOLEAN, BuildApplies(changed, wants)
      PROVE  GateInv'
  BY <1>4 DEF BuildApplies, GateInv, gates, timers
<1>5. ASSUME NEW changed \in BOOLEAN, NEW wants \in BOOLEAN, BuildCommits(changed, wants)
      PROVE  GateInv'
  BY <1>5, <1>n, EndsGate DEF BuildCommits
<1>6. ASSUME NEW succeeds \in BOOLEAN, Write(succeeds)
      PROVE  GateInv'
  BY <1>6, <1>n, EndsGate DEF Write
<1>7. CASE Observe
  BY <1>7 DEF Observe, GateInv, gates, timers, freshness
<1>8. CASE EdgeRetries
  <2>1. /\ queue' = queue \/ (reading # None /\ Enqueued([by |-> "edge", rev |-> sample.rev]))
        /\ seen' => seen \/ Ready
        /\ UNCHANGED <<reading, stale, outstanding, tree, gen>>
    BY <1>8 DEF EdgeRetries, ApplyEdge, Gated, gates, freshness
  <2>2. CASE queue' = queue
    BY <2>1, <2>2 DEF GateInv, Ready
  <2>3. CASE queue' # queue
    <3>1. /\ queue' \in Seq(Op)
          /\ \A i \in DOMAIN queue' :
               \/ i \in DOMAIN queue /\ queue'[i] = queue[i]
               \/ i = Len(queue) + 1 /\ queue'[i].by = "edge"
      BY <2>1, <2>3, <1>t, EdgeFacts
    <3> QED
      BY <2>1, <2>3, <3>1, EnqueuedGate DEF GateInv, Ready, Steps
  <2> QED
    BY <2>2, <2>3
<1>9. CASE TreeCommits
  <2>1. /\ queue' = queue \/ (reading # None /\ Enqueued([by |-> "edge", rev |-> sample.rev]))
        /\ tree' = TRUE /\ UNCHANGED <<reading, stale, outstanding, gen>>
    BY <1>9 DEF TreeCommits, ApplyEdge, Gated, freshness
  <2>2. CASE queue' = queue
    BY <2>1, <2>2 DEF GateInv
  <2>3. CASE queue' # queue
    <3>1. /\ queue' \in Seq(Op)
          /\ \A i \in DOMAIN queue' :
               \/ i \in DOMAIN queue /\ queue'[i] = queue[i]
               \/ i = Len(queue) + 1 /\ queue'[i].by = "edge"
      BY <2>1, <2>3, <1>t, EdgeFacts
    <3> QED
      BY <2>1, <2>3, <3>1, EnqueuedGate DEF GateInv, Steps
  <2> QED
    BY <2>2, <2>3
<1>q. ASSUME NEW op \in Op, Enqueued(op)
      PROVE  /\ queue' \in Seq(Op)
             /\ \A i \in DOMAIN queue' :
                  \/ i \in DOMAIN queue /\ queue'[i] = queue[i]
                  \/ i = Len(queue) + 1 /\ queue'[i].by = op.by
  BY <1>q, EnqueuedFacts
<1>10. CASE Recover
  <2>1. [by |-> "recovery", rev |-> sample.rev] \in Op
    BY <1>t DEF Op, Prepared
  <2>2. /\ queue' \in Seq(Op)
        /\ \A i \in DOMAIN queue' :
             \/ i \in DOMAIN queue /\ queue'[i] = queue[i]
             \/ i = Len(queue) + 1 /\ queue'[i].by = "recovery"
        /\ reading # None /\ UNCHANGED <<reading, stale, outstanding, tree, gen, seen>>
    BY <1>10, <2>1, <1>q DEF Recover, Gated, gates, freshness
  <2> QED
    BY <2>2, EnqueuedGate DEF GateInv, Steps
<1>11. CASE Escalate
  <2>1. reading \in 0..MaxRev
    BY <1>11, <1>t DEF Escalate, GateInv
  <2>2. [by |-> "heartbeat", rev |-> reading] \in Op
    BY <2>1 DEF Op, Prepared
  <2>3. /\ queue' \in Seq(Op)
        /\ \A i \in DOMAIN queue' :
             \/ i \in DOMAIN queue /\ queue'[i] = queue[i]
             \/ i = Len(queue) + 1 /\ queue'[i].by = "heartbeat"
        /\ reading # None /\ UNCHANGED <<reading, stale, outstanding, tree, gen, seen>>
    BY <1>11, <2>1, <2>2, <1>q DEF Escalate, gates, timers, freshness
  <2> QED
    BY <2>3, EnqueuedGate DEF GateInv, Steps
<1>12. CASE Request
  <2>1. [by |-> "other", rev |-> 0] \in Op
    BY DEF Op
  <2>2. /\ queue' = queue \/ (reading # None /\ Enqueued([by |-> "other", rev |-> 0]))
        /\ UNCHANGED <<reading, stale, outstanding, tree, gen, seen>>
    BY <1>12 DEF Request, Gated, gates, freshness
  <2>3. CASE queue' = queue
    BY <2>2, <2>3 DEF GateInv
  <2>4. CASE queue' # queue
    <3>1. /\ queue' \in Seq(Op)
          /\ \A i \in DOMAIN queue' :
               \/ i \in DOMAIN queue /\ queue'[i] = queue[i]
               \/ i = Len(queue) + 1 /\ queue'[i].by = "other"
      BY <2>1, <2>2, <2>4, <1>q
    <3> QED
      BY <2>2, <2>4, <3>1, EnqueuedGate DEF GateInv, Steps
  <2> QED
    BY <2>3, <2>4
<1>13. CASE OwnershipChanges
  BY <1>13 DEF OwnershipChanges, GateInv, timers, freshness
<1>14. CASE Prepare
  <2>1. [by |-> "prepare", rev |-> sample.rev] \in Op
    BY <1>t DEF Op, Prepared
  <2>2. /\ queue' \in Seq(Op)
        /\ \A i \in DOMAIN queue' :
             \/ i \in DOMAIN queue /\ queue'[i] = queue[i]
             \/ i = Len(queue) + 1 /\ queue'[i].by = "prepare"
        /\ reading # None /\ tree /\ UNCHANGED <<reading, stale, outstanding, tree, seen>>
        /\ \A i \in DOMAIN queue : queue[i].by \notin Steps
    BY <1>14, <2>1, <1>q DEF Prepare, Gated, timers, freshness, Steps
  <2> QED
    BY <2>2, EnqueuedGate DEF GateInv
<1>15. CASE PrepareGated
  BY <1>15 DEF PrepareGated, GateInv, Gated, freshness
<1>16. CASE SampleArrives
  <2>1. sample.rev + 1 # None
    BY <1>t, <1>16
  <2>2. reading' = reading \/ (reading' # None /\ stale' = FALSE)
    BY <1>16, <2>1 DEF SampleArrives, Ingested
  <2> QED
    BY <1>16, <2>2 DEF SampleArrives, Ingested, GateInv, gates, timers, freshness
<1>17. CASE SampleCoalesces
  BY <1>17, <1>t DEF SampleCoalesces, Ingested, GateInv, gates, timers
<1>18. CASE SampleSettles
  <2>1. sample' = [sample EXCEPT !.done = sample.loop, !.loop = 0]
    BY <1>18 DEF SampleSettles
  <2>2. sample'.rev \in 0..MaxRev
    BY <2>1, <1>t DEF Samples
  <2>3. /\ queue' = queue \/ (reading # None /\ Enqueued([by |-> "edge", rev |-> sample'.rev]))
        /\ seen' => seen \/ Ready
        /\ UNCHANGED <<reading, stale, outstanding, tree, gen>>
    BY <1>18 DEF SampleSettles, ApplyEdge, Gated, gates, freshness
  <2>4. CASE queue' = queue
    BY <2>3, <2>4 DEF GateInv, Ready
  <2>5. CASE queue' # queue
    <3>1. /\ queue' \in Seq(Op)
          /\ \A i \in DOMAIN queue' :
               \/ i \in DOMAIN queue /\ queue'[i] = queue[i]
               \/ i = Len(queue) + 1 /\ queue'[i].by = "edge"
      BY <2>2, <2>3, <2>5, EdgeFacts
    <3> QED
      BY <2>3, <2>5, <3>1, EnqueuedGate DEF GateInv, Ready, Steps
  <2> QED
    BY <2>4, <2>5
<1>19. CASE SampleFails
  BY <1>19 DEF SampleFails, GateInv, gates, timers, freshness
<1>20. CASE SourceChanges
  BY <1>20 DEF SourceChanges, GateInv, timers, freshness
<1>21. CASE GoesStale
  BY <1>21 DEF GoesStale, GateInv, Gated, gates, timers
<1>22. CASE TearDown
  BY <1>22 DEF TearDown, GateInv, freshness
<1>23. CASE UNCHANGED vars
  BY <1>23 DEF vars, gates, timers, freshness, GateInv
<1> QED
  BY <1>1, <1>2, <1>3, <1>4, <1>5, <1>6, <1>7, <1>8, <1>9, <1>10, <1>11, <1>12, <1>13, <1>14,
     <1>15, <1>16, <1>17, <1>18, <1>19, <1>20, <1>21, <1>22, <1>23 DEF Next, Serve
-----------------------------------------------------------------------------
(* The clock of a silent meter                                               *)

\* The end of a rebuild keeps the clock: a period it serves was planned for.
LEMMA EndsClock ==
  ASSUME TypeOK, GateInv, ClockInv, queue # <<>>, NEW outcome, NEW arms, Ends(outcome, arms),
         shed => shed',
         outcome = "built" => run # Idle /\ (run.blind => shed')
  PROVE  ClockInv'
<1>1. /\ queue \in Seq(Op) /\ 1 \in DOMAIN queue
  BY TailFacts DEF TypeOK
<1>2. \A i \in DOMAIN queue' :
        \/ i + 1 \in DOMAIN queue /\ queue'[i] = queue[i + 1]
        \/ queue'[i] = Follows
  BY EndsQueue
<1>3. /\ run' = Idle
      /\ escalated' => escalated \/ (queue[1].by = "heartbeat" /\ Latches(queue[1], outcome))
      /\ UNCHANGED <<sample, reading, stale>>
  BY EndsRest
<1>4. (\A i \in DOMAIN queue : queue[i].by = "heartbeat" =>
         queue[i].rev <= reading /\ (queue[i].rev = reading => stale))'
  BY <1>2, <1>3 DEF ClockInv, Follows
<1>5. escalated' => stale' /\ shed'
  <2>1. ASSUME queue[1].by = "heartbeat", Latches(queue[1], outcome)
        PROVE  stale /\ shed'
    BY <2>1 DEF Latches, ClockInv
  <2> QED
    BY <1>3, <2>1 DEF ClockInv
<1>6. /\ run'.phase = "idle" /\ ~run'.blind /\ run' = Idle'
  BY <1>3 DEF Idle
<1> QED
  BY <1>3, <1>4, <1>5, <1>6 DEF ClockInv

\* So does a newer reading: no rebuild of the clock was asked for it.
LEMMA IngestedClock ==
  ASSUME TypeOK, GateInv, ClockInv, queue' = queue, NEW rev \in 0..MaxRev, Ingested(rev),
         reading # None => reading < rev,
         sample'.loop > 0 => rev = sample'.loop, rev <= sample'.rev
  PROVE  ClockInv'
<1>1. /\ run \in Runs /\ queue \in Seq(Op) /\ reading \in {None} \cup 0..MaxRev
      /\ \A i \in DOMAIN queue : queue[i].by = "heartbeat" => queue[i].rev \in 0..MaxRev
  BY DEF TypeOK, Runs, Op, Prepared
<1>2. /\ run' \in Runs /\ run'.phase = run.phase /\ run'.dry = run.dry /\ run'.blind = FALSE
      /\ run = Idle => run' = Idle
  BY <1>1, RunFacts DEF Ingested
<1>3. reading' = rev /\ stale' = FALSE /\ escalated' = FALSE
  BY DEF Ingested
<1>4. \A i \in DOMAIN queue : queue[i].by = "heartbeat" => queue[i].rev < rev
  BY <1>1, BundleAssumption DEF ClockInv, GateInv
<1>5. (\A i \in DOMAIN queue : queue[i].by = "heartbeat" =>
         queue[i].rev <= reading /\ (queue[i].rev = reading => stale))'
  BY <1>1, <1>3, <1>4
<1>6. ASSUME run' # Idle
      PROVE  run'.phase # "idle" /\ ~(queue[1].by = "heartbeat" /\ queue[1].rev = rev)
  <2>1. run # Idle /\ queue # <<>>
    BY <1>2, <1>6 DEF TypeOK
  <2>2. 1 \in DOMAIN queue
    BY <1>1, <2>1, TailFacts
  <2> QED
    BY <1>1, <1>2, <1>4, <2>1, <2>2 DEF ClockInv
<1>7. (run # Idle => /\ run.phase # "idle"
                     /\ ~run.dry /\ queue[1].by = "heartbeat" /\ queue[1].rev = reading => run.blind)'
  BY <1>3, <1>6
<1>8. (run.phase = "apply" => ~run.dry /\ (run.blind => shed))' /\ (run.blind => stale /\ ~run.dry)'
  BY <1>2 DEF ClockInv
<1> QED
  BY <1>3, <1>5, <1>7, <1>8 DEF ClockInv

\* And a rebuild that is queued: the clock asks for it in the silence it is to serve.
LEMMA QueuedClock ==
  ASSUME TypeOK, ClockInv, queue' \in Seq(Op),
         \A i \in DOMAIN queue' :
           \/ i \in DOMAIN queue /\ queue'[i] = queue[i]
           \/ queue'[i].by = "heartbeat" => queue'[i].rev = reading /\ reading \in 0..MaxRev /\ stale,
         \A i \in DOMAIN queue : i \in DOMAIN queue' /\ queue'[i] = queue[i],
         sample'.loop > 0 => sample'.loop = sample.loop /\ sample.loop > 0,
         sample'.rev = sample.rev,
         UNCHANGED <<run, reading, stale, escalated, shed>>
  PROVE  ClockInv'
<1>1. (\A i \in DOMAIN queue : queue[i].by = "heartbeat" =>
         queue[i].rev <= reading /\ (queue[i].rev = reading => stale))'
  BY BundleAssumption DEF ClockInv
<1>2. run # Idle => 1 \in DOMAIN queue /\ queue'[1] = queue[1]
  BY TailFacts DEF TypeOK
<1> QED
  BY <1>1, <1>2 DEF ClockInv

\* Every step keeps the clock.
LEMMA ClockStep ==
  ASSUME TypeOK, GateInv, ClockInv, [Next]_vars
  PROVE  ClockInv'
<1> USE BundleAssumption
<1>t. /\ queue \in Seq(Op) /\ run \in Runs /\ sample \in Samples
      /\ sample.rev \in 0..MaxRev /\ sample.loop \in 0..MaxRev /\ sample.done \in 0..MaxRev
      /\ reading \in {None} \cup 0..MaxRev
  BY DEF TypeOK, Runs, Samples
<1>n. run.phase # "idle" => queue # <<>> /\ run # Idle
  BY DEF TypeOK, Idle
<1>1. CASE Begin
  <2>1. /\ queue # <<>> /\ queue' = queue /\ UNCHANGED <<sample, reading, stale, escalated, shed>>
        /\ run'.phase = "build" /\ run'.dry = DryRun /\ run'.blind = (stale /\ ~DryRun)
    BY <1>1 DEF Begin, freshness
  <2>2. 1 \in DOMAIN queue
    BY <1>t, <2>1, TailFacts
  <2>3. queue[1].by = "heartbeat" /\ queue[1].rev = reading => stale
    BY <2>2 DEF ClockInv
  <2> QED
    BY <2>1, <2>3 DEF ClockInv
<1>2. CASE Abort
  BY <1>2, EndsClock DEF Abort
<1>3. CASE BuildFails
  BY <1>3, <1>n, EndsClock DEF BuildFails
<1>4. ASSUME NEW changed \in BOOLEAN, NEW wants \in BOOLEAN, BuildApplies(changed, wants)
      PROVE  ClockInv'
  <2>1. /\ run'.phase = "apply" /\ run'.dry = run.dry /\ run'.blind = run.blind /\ ~run.dry
        /\ run # Idle /\ shed' = (shed \/ run.blind)
    BY <1>4, <1>t, <1>n, PhaseFacts DEF BuildApplies, Applies
  <2>2. UNCHANGED <<queue, sample, reading, stale, escalated>>
    BY <1>4 DEF BuildApplies
  <2> QED
    BY <2>1, <2>2 DEF ClockInv
<1>5. ASSUME NEW changed \in BOOLEAN, NEW wants \in BOOLEAN, BuildCommits(changed, wants)
      PROVE  ClockInv'
  BY <1>5, <1>n, EndsClock DEF BuildCommits
<1>6. ASSUME NEW succeeds \in BOOLEAN, Write(succeeds)
      PROVE  ClockInv'
  <2>1. queue # <<>> /\ run # Idle /\ Ends("built", ArmsAtWrite) /\ shed' = shed
    BY <1>6, <1>n DEF Write
  <2>2. run.blind => shed
    BY <1>6 DEF Write, ClockInv
  <2> QED
    BY <2>1, <2>2, EndsClock
<1>7. CASE Observe
  <2>1. run'.phase = run.phase /\ run'.dry = run.dry /\ run'.blind = run.blind /\ run # Idle
    BY <1>7, <1>t, <1>n, MovedFacts DEF Observe
  <2>2. UNCHANGED <<queue, sample, reading, stale, escalated, shed>>
    BY <1>7 DEF Observe, freshness
  <2> QED
    BY <2>1, <2>2 DEF ClockInv
<1>8. CASE EdgeRetries
  <2>1. /\ queue' = queue \/ Enqueued([by |-> "edge", rev |-> sample.rev])
        /\ UNCHANGED <<run, sample, reading, stale, escalated, shed>>
    BY <1>8 DEF EdgeRetries, ApplyEdge, freshness
  <2>2. /\ queue' \in Seq(Op)
        /\ \A i \in DOMAIN queue : i \in DOMAIN queue' /\ queue'[i] = queue[i]
        /\ \A i \in DOMAIN queue' : (i \in DOMAIN queue /\ queue'[i] = queue[i]) \/ queue'[i].by = "edge"
    BY <2>1, <1>t, EdgeFacts
  <2> QED
    BY <2>1, <2>2, QueuedClock
<1>9. CASE TreeCommits
  <2>1. /\ queue' = queue \/ Enqueued([by |-> "edge", rev |-> sample.rev])
        /\ UNCHANGED <<run, sample, reading, stale, escalated, shed>>
    BY <1>9 DEF TreeCommits, ApplyEdge, freshness
  <2>2. /\ queue' \in Seq(Op)
        /\ \A i \in DOMAIN queue : i \in DOMAIN queue' /\ queue'[i] = queue[i]
        /\ \A i \in DOMAIN queue' : (i \in DOMAIN queue /\ queue'[i] = queue[i]) \/ queue'[i].by = "edge"
    BY <2>1, <1>t, EdgeFacts
  <2> QED
    BY <2>1, <2>2, QueuedClock
<1>q. ASSUME NEW op \in Op, Enqueued(op)
      PROVE  /\ queue' \in Seq(Op)
             /\ \A i \in DOMAIN queue : i \in DOMAIN queue' /\ queue'[i] = queue[i]
             /\ \A i \in DOMAIN queue' : (i \in DOMAIN queue /\ queue'[i] = queue[i]) \/ queue'[i] = op
  BY <1>q, EnqueuedFacts
<1>10. CASE Recover
  <2>1. [by |-> "recovery", rev |-> sample.rev] \in Op
    BY <1>t DEF Op, Prepared
  <2>2. /\ queue' = queue \/ Enqueued([by |-> "recovery", rev |-> sample.rev])
        /\ UNCHANGED <<run, sample, reading, stale, escalated, shed>>
    BY <1>10 DEF Recover, freshness
  <2>3. /\ queue' \in Seq(Op)
        /\ \A i \in DOMAIN queue : i \in DOMAIN queue' /\ queue'[i] = queue[i]
        /\ \A i \in DOMAIN queue' : (i \in DOMAIN queue /\ queue'[i] = queue[i]) \/ queue'[i].by = "recovery"
    BY <2>1, <2>2, <1>q, <1>t
  <2> QED
    BY <2>2, <2>3, QueuedClock
<1>11. CASE Escalate
  <2>1. reading \in 0..MaxRev
    BY <1>11, <1>t DEF Escalate, GateInv
  <2>2. [by |-> "heartbeat", rev |-> reading] \in Op
    BY <2>1 DEF Op, Prepared
  <2>3. /\ stale /\ Enqueued([by |-> "heartbeat", rev |-> reading])
        /\ UNCHANGED <<run, sample, reading, stale, escalated, shed>>
    BY <1>11 DEF Escalate, freshness
  <2>4. /\ queue' \in Seq(Op)
        /\ \A i \in DOMAIN queue : i \in DOMAIN queue' /\ queue'[i] = queue[i]
        /\ \A i \in DOMAIN queue' : (i \in DOMAIN queue /\ queue'[i] = queue[i]) \/ queue'[i].rev = reading
    BY <2>2, <2>3, <1>q
  <2> QED
    BY <2>1, <2>3, <2>4, QueuedClock
<1>12. CASE Request
  <2>1. [by |-> "other", rev |-> 0] \in Op
    BY <1>t DEF Op
  <2>2. /\ queue' = queue \/ Enqueued([by |-> "other", rev |-> 0])
        /\ UNCHANGED <<run, sample, reading, stale, escalated, shed>>
    BY <1>12 DEF Request, freshness
  <2>3. /\ queue' \in Seq(Op)
        /\ \A i \in DOMAIN queue : i \in DOMAIN queue' /\ queue'[i] = queue[i]
        /\ \A i \in DOMAIN queue' : (i \in DOMAIN queue /\ queue'[i] = queue[i]) \/ queue'[i].by = "other"
    BY <2>1, <2>2, <1>q, <1>t
  <2> QED
    BY <2>2, <2>3, QueuedClock
<1>13. CASE OwnershipChanges
  BY <1>13 DEF OwnershipChanges, ClockInv, timers, freshness
<1>14. CASE Prepare
  <2>1. [by |-> "prepare", rev |-> sample.rev] \in Op
    BY <1>t DEF Op, Prepared
  <2>2. /\ queue' = queue \/ Enqueued([by |-> "prepare", rev |-> sample.rev])
        /\ UNCHANGED <<run, sample, reading, stale, escalated, shed>>
    BY <1>14 DEF Prepare, freshness
  <2>3. /\ queue' \in Seq(Op)
        /\ \A i \in DOMAIN queue : i \in DOMAIN queue' /\ queue'[i] = queue[i]
        /\ \A i \in DOMAIN queue' : (i \in DOMAIN queue /\ queue'[i] = queue[i]) \/ queue'[i].by = "prepare"
    BY <2>1, <2>2, <1>q, <1>t
  <2> QED
    BY <2>2, <2>3, QueuedClock
<1>15. CASE PrepareGated
  BY <1>15 DEF PrepareGated, ClockInv, freshness
<1>16. CASE SampleArrives
  <2>1. /\ sample' \in Samples /\ sample'.rev = sample.rev + 1
        /\ sample'.loop = IF sample.loop = 0 THEN sample.rev + 1 ELSE sample.loop
        /\ sample.rev + 1 \in 0..MaxRev
    BY <1>16, <1>t, RequestedFacts DEF SampleArrives
  <2>2. CASE sample.loop = 0
    <3>1. Ingested(sample.rev + 1) /\ queue' = queue
      BY <1>16, <2>2 DEF SampleArrives
    <3>2. reading # None => reading < sample.rev + 1
      BY <1>t DEF ClockInv
    <3> QED
      BY <2>1, <2>2, <3>1, <3>2, <1>t, IngestedClock
  <2>3. CASE sample.loop # 0
    <3>1. UNCHANGED <<queue, run, reading, stale, escalated, shed>>
      BY <1>16, <2>3 DEF SampleArrives, freshness
    <3> QED
      BY <2>1, <2>3, <3>1, <1>t DEF ClockInv
  <2> QED
    BY <2>2, <2>3
<1>17. CASE SampleCoalesces
  <2>1. sample' = [sample EXCEPT !.done = sample.loop, !.loop = sample.rev]
    BY <1>17 DEF SampleCoalesces
  <2>2. sample'.rev = sample.rev /\ sample'.loop = sample.rev
    BY <2>1, <1>t DEF Samples
  <2>3. reading # None => reading < sample.rev
    BY <1>17, <1>t DEF SampleCoalesces, ClockInv
  <2>4. Ingested(sample.rev) /\ queue' = queue
    BY <1>17 DEF SampleCoalesces
  <2> QED
    BY <2>2, <2>3, <2>4, <1>t, IngestedClock
<1>18. CASE SampleSettles
  <2>1. sample' = [sample EXCEPT !.done = sample.loop, !.loop = 0]
    BY <1>18 DEF SampleSettles
  <2>2. sample'.rev = sample.rev /\ sample'.loop = 0
    BY <2>1, <1>t DEF Samples
  <2>3. /\ queue' = queue \/ Enqueued([by |-> "edge", rev |-> sample'.rev])
        /\ UNCHANGED <<run, reading, stale, escalated, shed>>
    BY <1>18 DEF SampleSettles, ApplyEdge, freshness
  <2>4. /\ queue' \in Seq(Op)
        /\ \A i \in DOMAIN queue : i \in DOMAIN queue' /\ queue'[i] = queue[i]
        /\ \A i \in DOMAIN queue' : (i \in DOMAIN queue /\ queue'[i] = queue[i]) \/ queue'[i].by = "edge"
    BY <2>2, <2>3, <1>t, EdgeFacts
  <2> QED
    BY <2>2, <2>3, <2>4, QueuedClock
<1>19. CASE SampleFails
  <2>1. sample'.rev = sample.rev /\ sample'.loop = 0
    BY <1>19, <1>t DEF SampleFails, Samples
  <2> QED
    BY <1>19, <2>1 DEF SampleFails, ClockInv, gates, timers, freshness
<1>20. CASE SourceChanges
  BY <1>20 DEF SourceChanges, ClockInv, timers, freshness
<1>21. CASE GoesStale
  BY <1>21 DEF GoesStale, ClockInv, gates, timers
<1>22. CASE TearDown
  BY <1>22 DEF TearDown, ClockInv, freshness
<1>23. CASE UNCHANGED vars
  BY <1>23 DEF vars, gates, timers, freshness, ClockInv
<1> QED
  BY <1>1, <1>2, <1>3, <1>4, <1>5, <1>6, <1>7, <1>8, <1>9, <1>10, <1>11, <1>12, <1>13, <1>14,
     <1>15, <1>16, <1>17, <1>18, <1>19, <1>20, <1>21, <1>22, <1>23 DEF Next, Serve
-----------------------------------------------------------------------------
(* A refused write                                                           *)

\* What the end of a rebuild leaves armed
LEMMA EndsArms ==
  ASSUME TypeOK, queue # <<>>, NEW outcome, NEW arms, Ends(outcome, arms), ~torn
  PROVE  /\ recoveryTimer => recoveryTimer'
         /\ edgeTimer => edgeTimer'
         /\ ~seen /\ (queue[1].by # "generation" \/ outcome # "built") => ~seen'
         /\ outcome # "built" \/ ~Stable(queue[1].rev) =>
              /\ queue[1].by = "edge" => ~seen' /\ (Ready => edgeTimer')
              /\ queue[1].by = "recovery" => recoveryTimer'
              /\ queue[1].by = "generation" => gen' \in {gen, "pending"} /\ gen' # "applying"
         /\ gen' = "applying" => gen = "applying" \/ \E i \in DOMAIN queue' : queue'[i] = Follows
<1>1. Head(queue) = queue[1] /\ Tail(queue) \in Seq(Op) /\ queue[1] \in Op
  BY TailFacts DEF TypeOK
<1>2. recoveryTimer => recoveryTimer'
  BY DEF Ends
<1>3. edgeTimer => edgeTimer'
  BY DEF Ends
<1>4. ~seen /\ (queue[1].by # "generation" \/ outcome # "built") => ~seen'
  BY <1>1 DEF Ends, Complete
<1>5. ASSUME outcome # "built" \/ ~Stable(queue[1].rev)
      PROVE  /\ queue[1].by = "edge" => ~seen' /\ (Ready => edgeTimer')
             /\ queue[1].by = "recovery" => recoveryTimer'
             /\ queue[1].by = "generation" => gen' \in {gen, "pending"} /\ gen' # "applying"
  <2>1. \A flush : ~Complete(queue[1], outcome, flush) /\ ~Recovered(queue[1], outcome, flush)
    BY <1>5 DEF Complete, Recovered, Current
  <2> QED
    BY <1>1, <2>1 DEF Ends
<1>6. ASSUME gen' = "applying", gen # "applying"
      PROVE  \E i \in DOMAIN queue' : queue'[i] = Follows
  <2>1. queue' = Append(Tail(queue), Follows) /\ queue[1].by = "prepare"
    BY <1>1, <1>6 DEF Ends, Follows
  <2>2. Follows \in Op
    BY <1>1, <2>1 DEF Op, Prepared, Follows
  <2>3. queue'[Len(Tail(queue)) + 1] = Follows /\ Len(Tail(queue)) + 1 \in DOMAIN queue'
    BY <1>1, <2>1, <2>2, AppendFacts
  <2> QED
    BY <2>3
<1> QED
  BY <1>2, <1>3, <1>4, <1>5, <1>6

\* The end of a rebuild leaves a refused write a timer or a prepared rebuild: one that ran
\* dry has others, and one whose fence refused it retries.
LEMMA EndsOwed ==
  ASSUME TypeOK, GateInv, OwedInv, queue # <<>>, NEW outcome, NEW arms, Ends(outcome, arms),
         outstanding' = "fenced" =>
           \/ run.dry
           \/ outcome # "built" /\ outstanding = "fenced"
           \/ Fenced /\ (ArmsAtWrite => recoveryTimer')
  PROVE  OwedInv'
<1>1. queue \in Seq(Op) /\ 1 \in DOMAIN queue
  BY TailFacts DEF TypeOK
<1>2. \A i \in DOMAIN queue : i > 1 => i - 1 \in DOMAIN queue' /\ queue'[i - 1] = queue[i]
  BY EndsQueue
<1>3. run' = Idle /\ UNCHANGED <<sample, reading, tree, authorized, torn>>
  BY EndsRest
<1>4. ~run'.dry
  BY <1>3 DEF Idle
<1>5. SUFFICES ASSUME outstanding' = "fenced", Ready', ~torn
               PROVE  \/ recoveryTimer' \/ EdgeArmed'
                      \/ \E i \in DOMAIN queue' : queue'[i].by \in Prepared
  BY <1>3, <1>4 DEF OwedInv
<1>6. /\ recoveryTimer => recoveryTimer'
      /\ edgeTimer => edgeTimer'
      /\ ~seen /\ (queue[1].by # "generation" \/ outcome # "built") => ~seen'
      /\ outcome # "built" \/ ~Stable(queue[1].rev) =>
           /\ queue[1].by = "edge" => ~seen' /\ (Ready => edgeTimer')
           /\ queue[1].by = "recovery" => recoveryTimer'
           /\ queue[1].by = "generation" => gen' \in {gen, "pending"} /\ gen' # "applying"
      /\ gen' = "applying" => gen = "applying" \/ \E i \in DOMAIN queue' : queue'[i] = Follows
  BY <1>5, EndsArms
<1>7. CASE \E i \in DOMAIN queue' : queue'[i] = Follows
  BY <1>7 DEF Follows, Prepared
<1>8. ASSUME ~ \E i \in DOMAIN queue' : queue'[i] = Follows
      PROVE  Ready
  <2>1. \/ gen' = gen
        \/ queue[1].by = "prepare" /\ gen = "preparing" /\ gen' \in {"applying", "pending"}
        \/ queue[1].by = "generation" /\ gen = "applying" /\ gen' \in {"settled", "pending"}
    BY EndsRest
  <2> QED
    BY <1>3, <1>5, <1>6, <1>8, <2>1 DEF Ready
<1>9. ASSUME Ready, NEW i \in DOMAIN queue, i > 1, queue[i].by \in Prepared
      PROVE  \E j \in DOMAIN queue' : queue'[j].by \in Prepared
  BY <1>2, <1>9
<1>10. ASSUME Ready, queue[1].by \in Prepared, outcome # "built" \/ ~Stable(queue[1].rev)
       PROVE  recoveryTimer' \/ EdgeArmed'
  <2>1. CASE queue[1].by = "generation"
    <3>1. gen \in {"applying", "pending"} /\ gen' \in {gen, "pending"} /\ gen' # "applying"
      BY <1>1, <1>6, <1>10, <2>1 DEF GateInv
    <3> QED
      BY <1>5, <3>1 DEF Ready
  <2> QED
    BY <1>6, <1>10, <2>1 DEF Prepared, EdgeArmed
<1>11. CASE Ready /\ run.dry
  <2>1. \/ recoveryTimer
        \/ \E i \in DOMAIN queue : i > 1 /\ queue[i].by \in Prepared
        \/ EdgeArmed /\ queue[1].by # "generation"
    BY <1>5, <1>11 DEF OwedInv
  <2> QED
    BY <1>6, <1>9, <1>11, <2>1 DEF EdgeArmed
<1>12. CASE Ready /\ outcome # "built" /\ outstanding = "fenced"
  <2>1. recoveryTimer \/ EdgeArmed \/ \E i \in DOMAIN queue : queue[i].by \in Prepared
    BY <1>5, <1>12 DEF OwedInv
  <2>2. CASE recoveryTimer \/ EdgeArmed
    BY <1>6, <1>12, <2>2 DEF EdgeArmed
  <2>3. ASSUME NEW i \in DOMAIN queue, queue[i].by \in Prepared
        PROVE  \/ recoveryTimer' \/ EdgeArmed'
               \/ \E j \in DOMAIN queue' : queue'[j].by \in Prepared
    BY <1>1, <1>9, <1>10, <1>12, <2>3
  <2> QED
    BY <2>1, <2>2, <2>3
<1>13. CASE Ready /\ Fenced /\ (ArmsAtWrite => recoveryTimer')
  <2>1. CASE Superseded
    <3>1. PICK i \in DOMAIN queue : queue[i].by \in Prepared /\ ~Stable(queue[i].rev)
      BY <2>1 DEF Superseded
    <3> QED
      BY <1>1, <1>9, <1>10, <1>13, <3>1
  <2>2. CASE ~Superseded
    <3>1. ArmsAtWrite
      BY <1>5, <1>13, <2>2 DEF Fenced, DryRun, ArmsAtWrite, ArmsAtRead
    <3> QED
      BY <1>13, <3>1
  <2> QED
    BY <2>1, <2>2
<1> QED
  BY <1>5, <1>7, <1>8, <1>11, <1>12, <1>13

\* A queued rebuild takes nothing away, and may stand for the recovery's timer.
LEMMA QueuedOwed ==
  ASSUME TypeOK, OwedInv, queue' \in Seq(Op),
         \A i \in DOMAIN queue : i \in DOMAIN queue' /\ queue'[i] = queue[i],
         recoveryTimer => \/ recoveryTimer'
                          \/ Len(queue) + 1 \in DOMAIN queue' /\ queue'[Len(queue) + 1].by \in Prepared,
         edgeTimer => edgeTimer', seen' = seen,
         Ready' => Ready,
         UNCHANGED <<run, outstanding, torn>>
  PROVE  OwedInv'
<1>1. run.dry => 1 \in DOMAIN queue /\ queue'[1] = queue[1] /\ Len(queue) + 1 > 1
  BY TailFacts DEF TypeOK, Idle
<1> QED
  BY <1>1 DEF OwedInv, EdgeArmed

\* A try of the membership edge leaves its timer armed or its rebuild queued, unless the edge
\* was seen before.
LEMMA TriedOwed ==
  ASSUME TypeOK, GateInv, OwedInv, queue' \in Seq(Op),
         \A i \in DOMAIN queue : i \in DOMAIN queue' /\ queue'[i] = queue[i],
         recoveryTimer => recoveryTimer',
         UNCHANGED <<run, outstanding, torn>>,
         Ready' /\ ~torn =>
           \/ EdgeArmed' /\ queue' = queue
           \/ Len(queue) + 1 \in DOMAIN queue' /\ queue'[Len(queue) + 1].by \in Prepared
           \/ seen,
         tree' # tree => ~tree, Ready' => Ready \/ tree' # tree,
         seen => tree
  PROVE  OwedInv'
<1>1. run.dry => 1 \in DOMAIN queue /\ queue'[1] = queue[1] /\ Len(queue) + 1 > 1
  BY TailFacts DEF TypeOK, Idle
<1>2. ~tree => \A i \in DOMAIN queue : queue[i].by # "generation"
  BY DEF GateInv, Steps
<1>3. SUFFICES ASSUME Ready', ~torn
               PROVE  OwedInv'
  BY DEF OwedInv
<1>4. CASE EdgeArmed' /\ queue' = queue
  BY <1>1, <1>2, <1>3, <1>4 DEF OwedInv, EdgeArmed
<1>5. CASE Len(queue) + 1 \in DOMAIN queue' /\ queue'[Len(queue) + 1].by \in Prepared
  BY <1>1, <1>5 DEF OwedInv
<1>6. CASE seen
  BY <1>1, <1>3, <1>6 DEF OwedInv, EdgeArmed
<1> QED
  BY <1>3, <1>4, <1>5, <1>6

\* Every step keeps a refused write owed.
LEMMA OwedStep ==
  ASSUME TypeOK, GateInv, ClockInv, OwedInv, [Next]_vars
  PROVE  OwedInv'
<1> USE BundleAssumption
<1>t. /\ queue \in Seq(Op) /\ run \in Runs /\ sample \in Samples
      /\ sample.rev \in 0..MaxRev /\ sample.loop \in 0..MaxRev
      /\ reading \in {None} \cup 0..MaxRev
  BY DEF TypeOK, Runs, Samples
<1>n. run.phase # "idle" => queue # <<>>
  BY DEF TypeOK, Idle
<1>g. (seen \/ gen \in {"preparing", "applying"} => tree) /\ tree \in BOOLEAN
      /\ gen \in {"settled", "pending", "preparing", "applying"}
  BY DEF GateInv, TypeOK
<1>q. \A rev \in 0..MaxRev : [by |-> "edge", rev |-> rev] \in Op
  BY DEF Op, Prepared
<1>r. ASSUME UNCHANGED <<queue, outstanding, gates, timers>>, run'.dry = run.dry
      PROVE  OwedInv'
  BY <1>r DEF OwedInv, EdgeArmed, Ready, gates, timers
<1>1. CASE Begin
  <2>1. run'.dry = DryRun /\ recoveryTimer' = (recoveryTimer \/ ArmsAtRead)
        /\ UNCHANGED <<queue, outstanding, gates, seen, edgeTimer>>
    BY <1>1 DEF Begin
  <2>2. DryRun /\ Ready /\ ~torn => ArmsAtRead
    BY DEF DryRun, ArmsAtRead
  <2> QED
    BY <2>1, <2>2 DEF OwedInv, EdgeArmed, Ready, gates
<1>2. CASE Abort
  <2>1. Ends("aborted", ArmsAtRead) /\ queue # <<>> /\ outstanding' = outstanding
    BY <1>2 DEF Abort
  <2> QED
    BY <2>1, EndsOwed
<1>3. CASE BuildFails
  <2>1. Ends("failed", FALSE) /\ queue # <<>> /\ outstanding' \in {outstanding, "failed"}
    BY <1>3, <1>n DEF BuildFails
  <2> QED
    BY <2>1, EndsOwed
<1>4. ASSUME NEW changed \in BOOLEAN, NEW wants \in BOOLEAN, BuildApplies(changed, wants)
      PROVE  OwedInv'
  <2>1. run'.dry = run.dry
    BY <1>4, <1>t, PhaseFacts DEF BuildApplies
  <2> QED
    BY <1>4, <1>r, <2>1 DEF BuildApplies
<1>5. ASSUME NEW changed \in BOOLEAN, NEW wants \in BOOLEAN, BuildCommits(changed, wants)
      PROVE  OwedInv'
  <2>1. Ends("built", FALSE) /\ queue # <<>> /\ (outstanding' = "fenced" => run.dry)
    BY <1>5, <1>n DEF BuildCommits
  <2> QED
    BY <2>1, EndsOwed
<1>6. ASSUME NEW succeeds \in BOOLEAN, Write(succeeds)
      PROVE  OwedInv'
  <2>1. Ends("built", ArmsAtWrite) /\ queue # <<>> /\ (outstanding' = "fenced" => Fenced)
    BY <1>6, <1>n DEF Write
  <2>2. ArmsAtWrite => recoveryTimer'
    BY <2>1 DEF Ends
  <2> QED
    BY <2>1, <2>2, EndsOwed
<1>7. CASE Observe
  <2>1. run'.dry = run.dry
    BY <1>7, <1>t, MovedFacts DEF Observe
  <2> QED
    BY <1>7, <1>r, <2>1 DEF Observe
<1>8. CASE EdgeRetries
  <2>1. sample.rev \in 0..MaxRev
    BY <1>t
  <2>2. /\ queue' = queue \/ Enqueued([by |-> "edge", rev |-> sample.rev])
        /\ recoveryTimer => recoveryTimer'
        /\ UNCHANGED <<run, outstanding, torn>>
        /\ tree' = tree /\ gen' = gen
    BY <1>8 DEF EdgeRetries, ApplyEdge, Ready, gates, freshness
  <2>3. /\ queue' \in Seq(Op)
        /\ \A i \in DOMAIN queue : i \in DOMAIN queue' /\ queue'[i] = queue[i]
    BY <2>1, <2>2, <1>t, EdgeFacts
  <2>4. Enqueued([by |-> "edge", rev |-> sample.rev]) =>
          Len(queue) + 1 \in DOMAIN queue' /\ queue'[Len(queue) + 1].by \in Prepared
    BY <2>1, <1>t, <1>q, EnqueuedFacts DEF Prepared
  <2>5. Ready' /\ ~torn =>
          \/ EdgeArmed' /\ queue' = queue
          \/ Enqueued([by |-> "edge", rev |-> sample.rev])
          \/ seen
    BY <1>8, <1>g DEF EdgeRetries, ApplyEdge, EdgeArmed, Ready, Gated, gates, freshness
  <2> QED
    BY <2>2, <2>3, <2>4, <2>5, <1>g, TriedOwed DEF Ready
<1>9. CASE TreeCommits
  <2>1. sample.rev \in 0..MaxRev
    BY <1>t
  <2>2. /\ queue' = queue \/ Enqueued([by |-> "edge", rev |-> sample.rev])
        /\ recoveryTimer => recoveryTimer'
        /\ UNCHANGED <<run, outstanding, torn>>
        /\ ~tree /\ tree' = TRUE /\ gen' = gen
    BY <1>9 DEF TreeCommits, ApplyEdge, Ready, gates, freshness
  <2>3. /\ queue' \in Seq(Op)
        /\ \A i \in DOMAIN queue : i \in DOMAIN queue' /\ queue'[i] = queue[i]
    BY <2>1, <2>2, <1>t, EdgeFacts
  <2>4. Enqueued([by |-> "edge", rev |-> sample.rev]) =>
          Len(queue) + 1 \in DOMAIN queue' /\ queue'[Len(queue) + 1].by \in Prepared
    BY <2>1, <1>t, <1>q, EnqueuedFacts DEF Prepared
  <2>5. Ready' /\ ~torn =>
          \/ EdgeArmed' /\ queue' = queue
          \/ Enqueued([by |-> "edge", rev |-> sample.rev])
          \/ seen
    BY <1>9, <1>g DEF TreeCommits, ApplyEdge, EdgeArmed, Ready, Gated, gates, freshness
  <2> QED
    BY <2>2, <2>3, <2>4, <2>5, <1>g, TriedOwed DEF Ready
<1>10. CASE Recover
  <2>1. [by |-> "recovery", rev |-> sample.rev] \in Op
    BY <1>t DEF Op, Prepared
  <2>2. /\ Enqueued([by |-> "recovery", rev |-> sample.rev])
        /\ UNCHANGED <<run, outstanding, torn, tree, gen, seen, edgeTimer>>
    BY <1>10 DEF Recover, gates
  <2>3. /\ queue' \in Seq(Op)
        /\ \A i \in DOMAIN queue : i \in DOMAIN queue' /\ queue'[i] = queue[i]
        /\ Len(queue) + 1 \in DOMAIN queue' /\ queue'[Len(queue) + 1].by \in Prepared
    BY <2>1, <2>2, EnqueuedFacts DEF Prepared
  <2> QED
    BY <2>2, <2>3, QueuedOwed DEF Ready
<1>k. ASSUME NEW op \in Op, queue' = queue \/ Enqueued(op)
      PROVE  /\ queue' \in Seq(Op)
             /\ \A i \in DOMAIN queue : i \in DOMAIN queue' /\ queue'[i] = queue[i]
  BY <1>k, <1>t, EnqueuedFacts
<1>11. CASE Escalate
  <2>1. reading \in 0..MaxRev
    BY <1>11, <1>t DEF Escalate, GateInv
  <2>2. [by |-> "heartbeat", rev |-> reading] \in Op
    BY <2>1 DEF Op, Prepared
  <2>3. /\ Enqueued([by |-> "heartbeat", rev |-> reading])
        /\ UNCHANGED <<run, outstanding, torn, tree, gen, seen, edgeTimer, recoveryTimer>>
    BY <1>11 DEF Escalate, gates, timers
  <2> QED
    BY <2>2, <2>3, <1>k, QueuedOwed DEF Ready
<1>12. CASE Request
  <2>1. [by |-> "other", rev |-> 0] \in Op
    BY <1>t DEF Op
  <2>2. /\ queue' = queue \/ Enqueued([by |-> "other", rev |-> 0])
        /\ recoveryTimer => recoveryTimer'
        /\ UNCHANGED <<run, outstanding, torn, tree, gen, seen, edgeTimer>>
    BY <1>12 DEF Request, gates
  <2> QED
    BY <2>1, <2>2, <1>k, QueuedOwed DEF Ready
<1>13. CASE OwnershipChanges
  BY <1>13 DEF OwnershipChanges, OwedInv, Ready
<1>14. CASE Prepare
  <2>1. [by |-> "prepare", rev |-> sample.rev] \in Op
    BY <1>t DEF Op, Prepared
  <2>2. gen' = "preparing"
    BY <1>14 DEF Prepare
  <2> QED
    BY <2>2 DEF OwedInv, Ready
<1>15. CASE PrepareGated
  <2>1. queue = <<>> /\ outstanding = "none"
    BY <1>15 DEF PrepareGated, Gated, GateInv
  <2>2. ~run.dry
    BY <2>1 DEF TypeOK, Idle
  <2> QED
    BY <1>15, <2>1, <2>2 DEF PrepareGated, OwedInv
<1>i. ASSUME run' = run \/ run' = [run EXCEPT !.blind = FALSE]
      PROVE  run'.dry = run.dry
  BY <1>i, <1>t, RunFacts
<1>16. CASE SampleArrives
  <2>1. run' = run \/ run' = [run EXCEPT !.blind = FALSE]
    BY <1>16 DEF SampleArrives, Ingested
  <2> QED
    BY <1>16, <1>i, <1>r, <2>1 DEF SampleArrives
<1>17. CASE SampleCoalesces
  <2>1. run' = [run EXCEPT !.blind = FALSE]
    BY <1>17 DEF SampleCoalesces, Ingested
  <2> QED
    BY <1>17, <1>i, <1>r, <2>1 DEF SampleCoalesces
<1>18. CASE SampleSettles
  <2>1. sample'.rev \in 0..MaxRev
    <3>1. sample' = [sample EXCEPT !.done = sample.loop, !.loop = 0]
      BY <1>18 DEF SampleSettles
    <3> QED
      BY <3>1, <1>t DEF Samples
  <2>2. /\ queue' = queue \/ Enqueued([by |-> "edge", rev |-> sample'.rev])
        /\ recoveryTimer => recoveryTimer'
        /\ UNCHANGED <<run, outstanding, torn>>
        /\ tree' = tree /\ gen' = gen
    BY <1>18 DEF SampleSettles, ApplyEdge, Ready, gates, freshness
  <2>3. /\ queue' \in Seq(Op)
        /\ \A i \in DOMAIN queue : i \in DOMAIN queue' /\ queue'[i] = queue[i]
    BY <2>1, <2>2, <1>t, EdgeFacts
  <2>4. Enqueued([by |-> "edge", rev |-> sample'.rev]) =>
          Len(queue) + 1 \in DOMAIN queue' /\ queue'[Len(queue) + 1].by \in Prepared
    BY <2>1, <1>t, <1>q, EnqueuedFacts DEF Prepared
  <2>5. Ready' /\ ~torn =>
          \/ EdgeArmed' /\ queue' = queue
          \/ Enqueued([by |-> "edge", rev |-> sample'.rev])
          \/ seen
    BY <1>18, <1>g DEF SampleSettles, ApplyEdge, EdgeArmed, Ready, Gated, gates, freshness
  <2> QED
    BY <2>2, <2>3, <2>4, <2>5, <1>g, TriedOwed DEF Ready
<1>19. CASE SampleFails
  BY <1>19, <1>r DEF SampleFails
<1>20. CASE SourceChanges
  BY <1>20 DEF SourceChanges, OwedInv, EdgeArmed, Ready, timers
<1>21. CASE GoesStale
  BY <1>21, <1>r DEF GoesStale
<1>22. CASE TearDown
  BY <1>22 DEF TearDown, OwedInv
<1>23. CASE UNCHANGED vars
  BY <1>23, <1>r DEF vars
<1> QED
  BY <1>1, <1>2, <1>3, <1>4, <1>5, <1>6, <1>7, <1>8, <1>9, <1>10, <1>11, <1>12, <1>13, <1>14,
     <1>15, <1>16, <1>17, <1>18, <1>19, <1>20, <1>21, <1>22, <1>23 DEF Next, Serve
-----------------------------------------------------------------------------
(* What an area waits for                                                    *)

\* The end of a rebuild takes its generation a step on, or leaves it to the rebuild that it
\* was already waiting for; an edge that could not be applied arms its timer.
LEMMA EndsServed ==
  ASSUME TypeOK, GateInv, AreaIsServed, queue # <<>>, NEW outcome, NEW arms, Ends(outcome, arms)
  PROVE  AreaIsServed'
<1>1. /\ queue \in Seq(Op) /\ 1 \in DOMAIN queue /\ Head(queue) = queue[1] /\ queue[1] \in Op
      /\ Tail(queue) \in Seq(Op) /\ \A i \in DOMAIN queue : i = 1 \/ i > 1
  BY TailFacts DEF TypeOK
<1>2. /\ \/ gen' = gen
         \/ queue[1].by = "prepare" /\ gen = "preparing" /\ gen' \in {"applying", "pending"}
         \/ queue[1].by = "generation" /\ gen = "applying" /\ gen' \in {"settled", "pending"}
      /\ UNCHANGED <<tree, torn>>
  BY EndsRest
<1>3. /\ queue[1].by = "prepare" /\ gen = "preparing" => gen' # "preparing"
      /\ queue[1].by = "generation" /\ gen = "applying" => gen' # "applying"
  BY <1>1 DEF Ends
<1>4. \A i \in DOMAIN queue : i > 1 => i - 1 \in DOMAIN queue' /\ queue'[i - 1] = queue[i]
  BY EndsQueue
<1>5. SUFFICES ASSUME ~torn
               PROVE  AreaIsServed'
  BY <1>2 DEF AreaIsServed
<1>6. ASSUME gen' = "preparing"
      PROVE  \E i \in DOMAIN queue' : queue'[i].by = "prepare"
  <2>1. gen = "preparing" /\ queue[1].by # "prepare"
    BY <1>2, <1>3, <1>6
  <2>2. PICK i \in DOMAIN queue : queue[i].by = "prepare"
    BY <1>5, <2>1 DEF AreaIsServed
  <2>3. i > 1
    BY <1>1, <2>1, <2>2
  <2> QED
    BY <1>4, <2>2, <2>3
<1>7. ASSUME gen' = "applying"
      PROVE  \E i \in DOMAIN queue' : queue'[i].by = "generation"
  <2>1. CASE gen = "applying"
    <3>1. queue[1].by # "generation"
      BY <1>3, <1>7, <2>1
    <3>2. PICK i \in DOMAIN queue : queue[i].by = "generation"
      BY <1>5, <2>1 DEF AreaIsServed
    <3>3. i > 1
      BY <1>1, <3>1, <3>2
    <3> QED
      BY <1>4, <3>2, <3>3
  <2>2. CASE gen # "applying"
    <3>1. queue[1].by = "prepare" /\ gen = "preparing"
      BY <1>2, <1>7, <2>2
    <3>2. queue' = Append(Tail(queue), [by |-> "generation", rev |-> queue[1].rev])
      BY <1>1, <1>7, <3>1 DEF Ends
    <3>3. [by |-> "generation", rev |-> queue[1].rev] \in Op
      BY <1>1, <3>1 DEF Op, Prepared
    <3>4. /\ DOMAIN queue' = 1..(Len(Tail(queue)) + 1)
          /\ queue'[Len(Tail(queue)) + 1] = [by |-> "generation", rev |-> queue[1].rev]
      BY <1>1, <3>2, <3>3, AppendFacts
    <3>5. Len(Tail(queue)) + 1 \in DOMAIN queue'
      BY <1>1, <3>4
    <3> QED
      BY <3>4, <3>5
  <2> QED
    BY <2>1, <2>2
<1>8. ASSUME tree', gen' = "settled"
      PROVE  seen' \/ edgeTimer'
  <2>1. CASE gen = "settled"
    <3>1. Ready /\ (seen \/ edgeTimer)
      BY <1>2, <1>5, <1>8, <2>1 DEF Ready, AreaIsServed
    <3>2. (edgeTimer => edgeTimer') /\ (seen => seen' \/ (Ready => edgeTimer'))
      BY DEF Ends
    <3> QED
      BY <3>1, <3>2
  <2>2. CASE gen # "settled"
    <3>1. queue[1].by = "generation" /\ gen = "applying" /\ Ready
      BY <1>2, <1>8, <2>2 DEF Ready
    <3>2. seen'
      BY <1>1, <1>8, <3>1 DEF Ends
    <3> QED
      BY <3>2
  <2> QED
    BY <2>1, <2>2
<1> QED
  BY <1>6, <1>7, <1>8 DEF AreaIsServed

\* A try of the membership edge sees it, once ready, or arms its timer.
LEMMA TriesEdge ==
  ASSUME NEW timer, NEW ready, NEW s, ApplyEdge(timer, ready, s), ready, ~torn
  PROVE  seen' \/ edgeTimer'
<1>1. CASE seen
  <2>1. seen' = seen
    BY <1>1 DEF ApplyEdge
  <2> QED
    BY <1>1, <2>1
<1>2. CASE ~seen /\ Pending(s)
  <2>1. edgeTimer' = TRUE
    BY <1>2 DEF ApplyEdge
  <2> QED
    BY <2>1
<1>3. CASE ~seen /\ ~Pending(s)
  <2>1. seen' = ~Gated /\ edgeTimer' = Gated
    BY <1>3 DEF ApplyEdge
  <2> QED
    BY <2>1, Zenon
<1> QED
  BY <1>1, <1>2, <1>3

\* A try of the membership edge in an area whose gates are open keeps the area served.
LEMMA TriedServed ==
  ASSUME TypeOK, AreaIsServed, NEW rev \in 0..MaxRev,
         queue' = queue \/ Enqueued([by |-> "edge", rev |-> rev]),
         UNCHANGED <<gen, torn>>,
         tree' /\ gen = "settled" /\ ~torn => seen' \/ edgeTimer'
  PROVE  AreaIsServed'
<1>1. \A i \in DOMAIN queue : i \in DOMAIN queue' /\ queue'[i] = queue[i]
  BY EdgeFacts
<1> QED
  BY <1>1 DEF AreaIsServed

\* A rebuild that another client queues leaves every other one where it is.
LEMMA QueuedServed ==
  ASSUME TypeOK, AreaIsServed, NEW op \in Op, queue' = queue \/ Enqueued(op),
         UNCHANGED <<gen, torn, tree, seen, edgeTimer>>
  PROVE  AreaIsServed'
<1>1. \A i \in DOMAIN queue : i \in DOMAIN queue' /\ queue'[i] = queue[i]
  BY EnqueuedFacts DEF TypeOK
<1> QED
  BY <1>1 DEF AreaIsServed

\* Every step keeps every area served.
LEMMA ServedStep ==
  ASSUME TypeOK, GateInv, AreaIsServed, [Next]_vars
  PROVE  AreaIsServed'
<1> USE BundleAssumption
<1>t. /\ queue \in Seq(Op) /\ sample \in Samples
      /\ sample.rev \in 0..MaxRev /\ sample.loop \in 0..MaxRev
      /\ reading \in {None} \cup 0..MaxRev
  BY DEF TypeOK, Samples
<1>n. run.phase # "idle" => queue # <<>>
  BY DEF TypeOK, Idle
<1>r. ASSUME UNCHANGED <<queue, tree, gen, torn, seen, edgeTimer>>
      PROVE  AreaIsServed'
  BY <1>r DEF AreaIsServed
<1>1. CASE Begin
  BY <1>1, <1>r DEF Begin, gates
<1>2. CASE Abort
  BY <1>2, EndsServed DEF Abort
<1>3. CASE BuildFails
  BY <1>3, <1>n, EndsServed DEF BuildFails
<1>4. ASSUME NEW changed \in BOOLEAN, NEW wants \in BOOLEAN, BuildApplies(changed, wants)
      PROVE  AreaIsServed'
  BY <1>4, <1>r DEF BuildApplies, gates, timers
<1>5. ASSUME NEW changed \in BOOLEAN, NEW wants \in BOOLEAN, BuildCommits(changed, wants)
      PROVE  AreaIsServed'
  BY <1>5, <1>n, EndsServed DEF BuildCommits
<1>6. ASSUME NEW succeeds \in BOOLEAN, Write(succeeds)
      PROVE  AreaIsServed'
  BY <1>6, <1>n, EndsServed DEF Write
<1>7. CASE Observe
  BY <1>7, <1>r DEF Observe, gates, timers
<1>8. CASE EdgeRetries
  <2>1. /\ queue' = queue \/ Enqueued([by |-> "edge", rev |-> sample.rev])
        /\ UNCHANGED <<gen, torn, tree>>
    BY <1>8 DEF EdgeRetries, ApplyEdge, gates
  <2>2. Ready /\ ~torn => seen' \/ edgeTimer'
    BY <1>8, TriesEdge DEF EdgeRetries
  <2> QED
    BY <2>1, <2>2, <1>t, TriedServed DEF Ready
<1>9. CASE TreeCommits
  <2>1. /\ queue' = queue \/ Enqueued([by |-> "edge", rev |-> sample.rev])
        /\ UNCHANGED <<gen, torn>>
    BY <1>9 DEF TreeCommits, ApplyEdge
  <2>2. gen = "settled" /\ ~torn => seen' \/ edgeTimer'
    BY <1>9, TriesEdge DEF TreeCommits
  <2> QED
    BY <2>1, <2>2, <1>t, TriedServed
<1>10. CASE Recover
  <2>1. [by |-> "recovery", rev |-> sample.rev] \in Op
    BY <1>t DEF Op, Prepared
  <2> QED
    BY <1>10, <2>1, QueuedServed DEF Recover, gates
<1>11. CASE Escalate
  <2>1. reading \in 0..MaxRev
    BY <1>11, <1>t DEF Escalate, GateInv
  <2>2. [by |-> "heartbeat", rev |-> reading] \in Op
    BY <2>1 DEF Op, Prepared
  <2> QED
    BY <1>11, <2>2, QueuedServed DEF Escalate, gates, timers
<1>12. CASE Request
  <2>1. [by |-> "other", rev |-> 0] \in Op
    BY DEF Op
  <2>2. queue' = queue \/ Enqueued([by |-> "other", rev |-> 0])
    BY <1>12 DEF Request
  <2> QED
    BY <1>12, <2>1, <2>2, QueuedServed DEF Request, gates
<1>13. CASE OwnershipChanges
  BY <1>13 DEF OwnershipChanges, AreaIsServed
<1>14. CASE Prepare
  <2>1. [by |-> "prepare", rev |-> sample.rev] \in Op
    BY <1>t DEF Op, Prepared
  <2>2. Len(queue) + 1 \in DOMAIN queue' /\ queue'[Len(queue) + 1].by = "prepare"
    BY <1>14, <2>1, EnqueuedFacts DEF Prepare
  <2> QED
    BY <1>14, <2>2 DEF Prepare, AreaIsServed
<1>15. CASE PrepareGated
  BY <1>15 DEF PrepareGated, AreaIsServed
<1>16. CASE SampleArrives
  BY <1>16, <1>r DEF SampleArrives, gates, timers
<1>17. CASE SampleCoalesces
  BY <1>17, <1>r DEF SampleCoalesces, gates, timers
<1>18. CASE SampleSettles
  <2>1. sample'.rev \in 0..MaxRev
    <3>1. sample' = [sample EXCEPT !.done = sample.loop, !.loop = 0]
      BY <1>18 DEF SampleSettles
    <3> QED
      BY <3>1, <1>t DEF Samples
  <2>2. /\ queue' = queue \/ Enqueued([by |-> "edge", rev |-> sample'.rev])
        /\ UNCHANGED <<gen, torn, tree>>
    BY <1>18 DEF SampleSettles, ApplyEdge, gates
  <2>3. Ready /\ ~torn => seen' \/ edgeTimer'
    BY <1>18, TriesEdge DEF SampleSettles
  <2> QED
    BY <2>1, <2>2, <2>3, TriedServed DEF Ready
<1>19. CASE SampleFails
  BY <1>19, <1>r DEF SampleFails, gates, timers
<1>20. CASE SourceChanges
  BY <1>20, <1>r DEF SourceChanges, timers
<1>21. CASE GoesStale
  BY <1>21, <1>r DEF GoesStale, gates, timers
<1>22. CASE TearDown
  BY <1>22 DEF TearDown, AreaIsServed
<1>23. CASE UNCHANGED vars
  BY <1>23, <1>r DEF vars, gates, timers
<1> QED
  BY <1>1, <1>2, <1>3, <1>4, <1>5, <1>6, <1>7, <1>8, <1>9, <1>10, <1>11, <1>12, <1>13, <1>14,
     <1>15, <1>16, <1>17, <1>18, <1>19, <1>20, <1>21, <1>22, <1>23 DEF Next, Serve
-----------------------------------------------------------------------------
(* The theorems                                                              *)

\* IInv is inductive.
THEOREM Inductive == Spec => []IInv
<1>1. Init => IInv
  <2> SUFFICES ASSUME Init PROVE IInv
    OBVIOUS
  <2>1. /\ queue = <<>> /\ queue \in Seq(Op) /\ Len(queue) = 0 /\ DOMAIN queue = {}
    BY DEF Init
  <2>2. /\ 0 \in 0..MaxRev /\ sample \in [rev : 0..MaxRev, done : 0..MaxRev, loop : 0..MaxRev]
        /\ sample.rev = 0 /\ sample.done = 0 /\ sample.loop = 0
    BY BundleAssumption DEF Init
  <2>3. /\ run = Idle /\ run.phase = "idle" /\ run.dry = FALSE /\ run.blind = FALSE
        /\ run \in [phase : {"idle", "build", "apply"}, dry : BOOLEAN, moved : BOOLEAN, blind : BOOLEAN]
    BY DEF Init, Idle
  <2>4. /\ authorized \in BOOLEAN /\ torn \in BOOLEAN /\ seen \in BOOLEAN /\ edgeTimer \in BOOLEAN
        /\ recoveryTimer \in BOOLEAN /\ stale \in BOOLEAN /\ escalated \in BOOLEAN /\ shed \in BOOLEAN
    BY DEF Init, Ready
  <2>5. TypeOK
    BY <2>1, <2>2, <2>3, <2>4, BundleAssumption DEF Init, TypeOK
  <2>6. GateInv
    BY <2>1 DEF Init, GateInv, Ready
  <2>7. ClockInv
    BY <2>1, <2>2, <2>3, BundleAssumption DEF Init, ClockInv
  <2>8. OwedInv
    BY <2>3 DEF Init, OwedInv
  <2>9. AreaIsServed
    BY DEF Init, AreaIsServed, Ready
  <2> QED
    BY <2>5, <2>6, <2>7, <2>8, <2>9 DEF IInv
<1>2. IInv /\ [Next]_vars => IInv'
  BY TypeStep, GateStep, ClockStep, OwedStep, ServedStep DEF IInv
<1> QED
  BY <1>1, <1>2, PTL DEF Spec

\* The queue, the rebuild it serves and every gate, timer and revision keep their types, and
\* a rebuild that runs is at the head of the queue.
THEOREM TypeCorrect == Spec => []TypeOK
<1>1. IInv => TypeOK
  BY DEF IInv
<1> QED
  BY <1>1, Inductive, PTL

\* A write a gate refused keeps a retry, whatever the source, the ownership map, the samples
\* and the other rebuilds do.
THEOREM RefusedRetried == Spec => []RefusedHasRetry
<1>1. IInv => RefusedHasRetry
  BY DEF IInv, OwedInv, RefusedHasRetry, EdgeArmed
<1> QED
  BY <1>1, Inductive, PTL

\* No ownership generation and no membership edge is left to a rebuild or a timer that is
\* not there.
THEOREM AreaServed == Spec => []AreaIsServed
<1>1. IInv => AreaIsServed
  BY DEF IInv
<1> QED
  BY <1>1, Inductive, PTL

\* The clock of a silent meter rests only once the silence was planned for.
THEOREM EscalatedShed == Spec => []EscalatedIsShed
<1>1. IInv => EscalatedIsShed
  BY DEF IInv, ClockInv, EscalatedIsShed
<1> QED
  BY <1>1, Inductive, PTL

\* A prepared rebuild that the fence lets write was prepared at the newest sample, however
\* the prepared rebuilds of several clients overlap in the queue.
THEOREM PreparedCurrent == Spec => PreparedWritesCurrent
<1> DEFINE Right == run.phase = "apply" /\ run'.phase = "idle" /\ outstanding' # "fenced"
                      /\ Head(queue).by \in Prepared
                    => Stable(Head(queue).rev)
<1>1. TypeOK /\ [Next]_vars => [Right]_vars
  <2> SUFFICES ASSUME TypeOK, Next, run.phase = "apply", run'.phase = "idle",
                      outstanding' # "fenced", Head(queue).by \in Prepared
               PROVE  Stable(Head(queue).rev)
    BY DEF Right
  <2>1. run \in Runs /\ queue # <<>> /\ 1 \in DOMAIN queue /\ Head(queue) = queue[1]
    BY TailFacts DEF TypeOK, Runs, Idle
  <2>2. \E succeeds \in BOOLEAN : Write(succeeds)
    <3>1. ~(\E succeeds \in BOOLEAN : Write(succeeds)) => run' = run \/ run'.phase = run.phase
      <4>1. Begin \/ Abort => run = Idle
        BY DEF Begin, Abort
      <4>2. Idle.phase = "idle"
        BY DEF Idle
      <4>3. run' = [run EXCEPT !.moved = TRUE] => run'.phase = run.phase
        BY <2>1, MovedFacts
      <4>4. run' = [run EXCEPT !.blind = FALSE] => run'.phase = run.phase
        BY <2>1, RunFacts
      <4> QED
        BY <4>1, <4>2, <4>3, <4>4
        DEF Next, Serve, BuildFails, BuildApplies, BuildCommits, Observe, EdgeRetries, TreeCommits,
            Recover, Escalate, Request, OwnershipChanges, Prepare, PrepareGated, SampleArrives,
            SampleCoalesces, SampleSettles, SampleFails, Ingested, SourceChanges, GoesStale, TearDown
    <3> QED
      BY <3>1
  <2>3. ~Superseded
    BY <2>2 DEF Write, Fenced
  <2> QED
    BY <2>1, <2>3 DEF Superseded
<1> QED
  BY <1>1, TypeCorrect, PTL DEF Spec, PreparedWritesCurrent
=============================================================================
