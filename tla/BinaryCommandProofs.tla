------------------------ MODULE BinaryCommandProofs ------------------------
(***************************************************************************)
(* Proofs about BinaryCommands: a command is confirmed only by evidence     *)
(* about itself, whatever the timeout and the window, as long as the        *)
(* transport answers before the window ends (TransportAssumption); a task   *)
(* does not end with an on command unanswered; CommandPromise is            *)
(* implemented.                                                             *)
(***************************************************************************)
EXTENDS TimedCommands, TLAPS

\* A write on its way has its entry, of its value and its age, and only then an entry is
\* not yet accepted.  So the entry is neither evicted nor timed out nor confirmed before the
\* answer.
EntryOfWrite ==
  IF write # None
  THEN entry # None /\ entry.desired = write.desired /\ entry.age = write.age /\ ~entry.accepted
  ELSE entry = None \/ entry.accepted

\* A confirmation waits only while a write is on its way, and the last sweep gave it; a match
\* of that sweep has its confirmation waiting.
DeferredEvidence ==
  /\ confirmation # None => write # None /\ confirmation = write.desired /\ seen = confirmation
  /\ write # None /\ seen = write.desired => confirmation # None

\* Under authority the fallback waits for a write of the plan executor and remembers that an
\* accepted on command is to be opposed; its own commands are off.
Opposed ==
  /\ write # None /\ write.owner = "lifecycle" => ~write.desired
  /\ write # None /\ write.owner = "ordinary" /\ authority => waiter
  /\ owed => authority /\ opposing

EntryInv == TypeOK /\ EntryOfWrite /\ DeferredEvidence
IInv == EntryInv /\ Opposed

USE CommandAssumption, TransportAssumption

-----------------------------------------------------------------------------
(* What the operations preserve                                              *)

\* Ages stay within their cap.
LEMMA OlderOK ==
  ASSUME NEW cap \in Nat, NEW age \in 0..cap
  PROVE  /\ Older(age, cap) \in 0..cap
         /\ age < cap => Older(age, cap) = age + 1
BY DEF Older

\* While a write is on its way the window of its entry runs.
LEMMA InFlightActive ==
  ASSUME TypeOK, EntryOfWrite, write # None
  PROVE  entry \in Entries /\ Active(entry)
<1>1. entry \in Entries /\ entry.age = write.age
  BY DEF TypeOK, EntryOfWrite
<1>2. write.age \in 0..WriteTime
  BY DEF TypeOK, Writes
<1>3. entry.age < Window
  BY <1>1, <1>2
<1>4. QED
  BY <1>1, <1>3 DEF Active, EntryOfWrite

\* A dispatch establishes what the invariant says of the entry and the write.
LEMMA DispatchOK ==
  ASSUME NEW owner \in Owners, NEW v \in BOOLEAN, Dispatch(owner, v)
  PROVE  /\ entry' \in Entries /\ write' \in Writes /\ current' = FALSE /\ seen' = None
         /\ EntryOfWrite' /\ write'.owner = owner /\ write'.desired = v
         /\ entry'.desired = v /\ ~entry'.accepted
<1>1. entry' = [desired |-> v, accepted |-> FALSE, age |-> 0] /\ entry' \in Entries
  BY DEF Dispatch, Entries
<1>2. /\ write' = [owner |-> owner, desired |-> v, authorized |-> TRUE, age |-> 0]
      /\ write' \in Writes
  BY DEF Dispatch, Writes
<1>3. entry' # None /\ write' # None
  BY <1>1, <1>2
<1>4. entry'.desired = write'.desired /\ entry'.age = write'.age /\ ~entry'.accepted
  BY <1>1, <1>2
<1>5. EntryOfWrite'
  BY <1>3, <1>4 DEF EntryOfWrite
<1>6. QED
  BY <1>1, <1>2, <1>5 DEF Dispatch
-----------------------------------------------------------------------------
(* The steps                                                                 *)

LEMMA InitOK == Init => EntryInv /\ Opposed
BY DEF Init, EntryInv, TypeOK, EntryOfWrite, DeferredEvidence, Opposed

LEMMA SweepOK ==
  ASSUME EntryInv, Sweep
  PROVE  EntryInv'
<1> USE DEF EntryInv
<1>1. CASE SweepTimesOut
  <2>1. write = None
    BY <1>1, InFlightActive DEF SweepTimesOut
  <2>2. QED
    BY <1>1, <2>1 DEF Sweep, SweepTimesOut, Clear, TypeOK, EntryOfWrite, DeferredEvidence, lane
<1>2. CASE SweepMatches
  <2>1. entry \in Entries /\ entry.desired \in BOOLEAN
    BY <1>2 DEF SweepMatches, Active, TypeOK, Entries
  <2>2. CASE entry.accepted
    <3>1. write = None
      BY <2>2 DEF EntryOfWrite
    <3>2. QED
      BY <1>2, <2>1, <2>2, <3>1
      DEF Sweep, SweepMatches, Clear, TypeOK, EntryOfWrite, DeferredEvidence, lane
  <2>3. CASE ~entry.accepted
    <3>1. confirmation' = observed /\ seen' = observed /\ confirmed' = None /\ entry' = entry
          /\ observed = entry.desired
      BY <1>2, <2>3 DEF SweepMatches
    <3>2. TypeOK' /\ EntryOfWrite'
      BY <3>1 DEF Sweep, TypeOK, EntryOfWrite, lane
    <3>3. write # None /\ entry.desired = write.desired
      BY <1>2, <2>1, <2>3 DEF EntryOfWrite
    <3>4. DeferredEvidence'
      BY <3>1, <3>3 DEF Sweep, DeferredEvidence, TypeOK
    <3>5. QED
      BY <3>2, <3>4
  <2>4. QED
    BY <2>2, <2>3
<1>3. CASE SweepContradicts
  BY <1>3 DEF Sweep, SweepContradicts, TypeOK, EntryOfWrite, DeferredEvidence, lane
<1>4. QED
  BY <1>1, <1>2, <1>3 DEF Sweep

\* A reader evicts an entry only after its write was answered.
LEMMA EvictOK ==
  ASSUME EntryInv, Evict
  PROVE  EntryInv'
<1> USE DEF EntryInv
<1>1. write = None
  BY InFlightActive DEF Evict
<1>2. QED
  BY <1>1 DEF Evict, TypeOK, EntryOfWrite, DeferredEvidence, evidence, lane

LEMMA OrdinaryRequestOK ==
  ASSUME EntryInv, NEW v \in BOOLEAN, OrdinaryRequest(v)
  PROVE  EntryInv'
<1> USE DEF EntryInv
<1>1. Dispatch("ordinary", v) /\ "ordinary" \in Owners
  BY DEF OrdinaryRequest, Owners
<1>2. /\ entry' \in Entries /\ write' \in Writes /\ current' = FALSE /\ seen' = None
      /\ EntryOfWrite'
  BY <1>1, DispatchOK
<1>3. confirmation' = None /\ confirmed' = None
  BY DEF OrdinaryRequest, DeferredEvidence
<1>4. TypeOK'
  BY <1>2, <1>3 DEF OrdinaryRequest, TypeOK, lane
<1>5. QED
  BY <1>2, <1>3, <1>4 DEF DeferredEvidence, Writes

\* The answer takes the deferred confirmation with it, whatever it is; what follows is an
\* accepted entry, none, or the dispatch of the waiter.
LEMMA WriteReturnsOK ==
  ASSUME EntryInv, NEW answered \in BOOLEAN, WriteReturns(answered)
  PROVE  EntryInv'
<1> USE DEF EntryInv
<1> DEFINE applied == answered /\ write.authorized
           settles == applied /\ entry # None /\ confirmation # None
           left == IF applied /\ entry # None /\ ~settles
                   THEN [entry EXCEPT !.accepted = TRUE] ELSE None
<1>1. write \in Writes /\ entry \in Entries /\ entry # None
  BY DEF WriteReturns, TypeOK, EntryOfWrite
<1>2. confirmation' = None
  BY <1>1 DEF WriteReturns
<1>3. confirmed' \in BOOLEAN \cup {None}
  BY DEF WriteReturns, TypeOK
<1>4. opposing' \in BOOLEAN /\ owed' \in BOOLEAN
  <2>1. write.authorized \in BOOLEAN /\ write.desired \in BOOLEAN
    BY <1>1 DEF Writes
  <2>2. applied \in BOOLEAN
    BY <2>1
  <2>3. opposing' \in BOOLEAN
    BY <2>1, <2>2 DEF WriteReturns, OpposingAfter, TypeOK
  <2>4. owed' \in BOOLEAN
    BY <2>1, <2>2 DEF WriteReturns, TypeOK
  <2>5. QED
    BY <2>3, <2>4
<1>5. /\ entry' \in Entries \cup {None} /\ write' \in Writes \cup {None}
      /\ current' \in BOOLEAN /\ seen' \in BOOLEAN \cup {None} /\ EntryOfWrite'
      /\ write' = None \/ seen' = None
  <2>1. CASE Dispatch("lifecycle", FALSE)
    BY <2>1, DispatchOK DEF Owners
  <2>2. CASE entry' = left /\ write' = None /\ UNCHANGED <<current, seen>>
    <3>1. left = None \/ left = [entry EXCEPT !.accepted = TRUE]
      OBVIOUS
    <3>2. left = None \/ (left \in Entries /\ left.accepted)
      BY <1>1, <3>1 DEF Entries
    <3>3. QED
      BY <2>2, <3>2 DEF TypeOK, EntryOfWrite
  <2>3. QED
    BY <2>1, <2>2 DEF WriteReturns
<1>6. TypeOK'
  BY <1>2, <1>3, <1>4, <1>5 DEF WriteReturns, TypeOK
<1>7. QED
  BY <1>2, <1>5, <1>6 DEF DeferredEvidence, Writes

LEMMA ConvergeOK ==
  ASSUME EntryInv, Converge
  PROVE  EntryInv'
<1> USE DEF EntryInv
<1>1. CASE write = None /\ Dispatch("lifecycle", FALSE)
  <2>1. /\ entry' \in Entries /\ write' \in Writes /\ current' = FALSE /\ seen' = None
        /\ EntryOfWrite'
    BY <1>1, DispatchOK DEF Owners
  <2>2. confirmation' = None
    BY <1>1 DEF Converge, DeferredEvidence
  <2>3. QED
    BY <2>1, <2>2 DEF Converge, TypeOK, DeferredEvidence, Writes
<1>2. CASE UNCHANGED <<entry, write, current, seen>>
  BY <1>2 DEF Converge, TypeOK, EntryOfWrite, DeferredEvidence
<1>3. QED
  BY <1>1, <1>2 DEF Converge

\* The fallback lets go: a write of its own that is on its way keeps its entry.
LEMMA AbandonOK ==
  ASSUME EntryInv, Abandon, task' \in BOOLEAN
  PROVE  EntryInv'
<1> USE DEF EntryInv
<1>1. write' = write \/ (write \in Writes /\ write' = [write EXCEPT !.authorized = FALSE])
  BY DEF Abandon, TypeOK
<1>2. /\ write' \in Writes \cup {None} /\ (write' = None <=> write = None)
      /\ write # None => write'.desired = write.desired /\ write'.age = write.age
  BY <1>1 DEF Writes, TypeOK
<1>3. TypeOK'
  BY <1>2 DEF Abandon, TypeOK, store, evidence
<1>4. EntryOfWrite' /\ DeferredEvidence'
  BY <1>2 DEF Abandon, EntryOfWrite, DeferredEvidence, store, evidence
<1>5. QED
  BY <1>3, <1>4

LEMMA TickOK ==
  ASSUME EntryInv, Tick
  PROVE  EntryInv'
<1> USE DEF EntryInv
<1>1. CASE entry # None
  <2>1. /\ entry' \in Entries /\ entry'.desired = entry.desired
        /\ entry'.accepted = entry.accepted /\ entry'.age = Older(entry.age, Window)
    BY <1>1, OlderOK DEF Tick, TypeOK, Entries
  <2>2. CASE write # None
    <3>1. /\ write' \in Writes /\ write'.desired = write.desired
          /\ write'.age = Older(write.age, WriteTime)
      BY <2>2, OlderOK DEF Tick, TypeOK, Writes
    <3>2. write'.age = entry'.age
      <4>1. entry.age = write.age /\ write.age \in 0..WriteTime /\ write.age < WriteTime
        BY <2>2 DEF Tick, TypeOK, Writes, EntryOfWrite
      <4>2. QED
        BY <2>1, <3>1, <4>1 DEF Older
    <3>3. QED
      BY <1>1, <2>1, <2>2, <3>1, <3>2
      DEF Tick, TypeOK, EntryOfWrite, DeferredEvidence, evidence, lane
  <2>3. CASE write = None
    BY <1>1, <2>1, <2>3 DEF Tick, TypeOK, EntryOfWrite, DeferredEvidence, evidence, lane
  <2>4. QED
    BY <2>2, <2>3
<1>2. CASE entry = None
  BY <1>2 DEF Tick, TypeOK, EntryOfWrite, DeferredEvidence, evidence, lane
<1>3. QED
  BY <1>1, <1>2

LEMMA EntryOK == EntryInv /\ [Next]_vars => EntryInv'
<1> SUFFICES ASSUME EntryInv, [Next]_vars PROVE EntryInv'
  OBVIOUS
<1>1. ASSUME NEW v \in BOOLEAN, Observe(v) PROVE EntryInv'
  BY <1>1 DEF EntryInv, Observe, TypeOK, EntryOfWrite, DeferredEvidence, store, lane
<1>2. CASE TaskStarts
  BY <1>2 DEF EntryInv, TaskStarts, TypeOK, EntryOfWrite, DeferredEvidence, store, evidence
<1>3. CASE DeadlineSettles
  BY <1>3, AbandonOK DEF DeadlineSettles
<1>4. CASE GivesUp
  BY <1>4, AbandonOK DEF GivesUp
<1>5. CASE UNCHANGED vars
  BY <1>5 DEF EntryInv, vars, store, evidence, lane, TypeOK, EntryOfWrite, DeferredEvidence
<1>6. QED
  BY <1>1, <1>2, <1>3, <1>4, <1>5, SweepOK, EvictOK, OrdinaryRequestOK, WriteReturnsOK,
     ConvergeOK, TickOK DEF Next

\* An on command accepted under authority was waited for, so it is remembered, until an
\* accepted off command or the end of the authority.
LEMMA OpposedOK == IInv /\ [Next]_vars => Opposed'
<1> SUFFICES ASSUME IInv, [Next]_vars PROVE Opposed'
  OBVIOUS
<1>0. TypeOK /\ EntryOfWrite /\ Opposed
  BY DEF IInv, EntryInv
<1>1. ASSUME NEW v \in BOOLEAN, OrdinaryRequest(v) PROVE Opposed'
  <2>1. Dispatch("ordinary", v) /\ ~authority /\ authority' = authority /\ owed' = owed
    BY <1>1 DEF OrdinaryRequest, lane
  <2>2. write'.owner = "ordinary"
    BY <2>1, DispatchOK DEF Owners
  <2>3. QED
    BY <1>0, <2>1, <2>2 DEF Opposed
<1>2. ASSUME NEW answered \in BOOLEAN, WriteReturns(answered) PROVE Opposed'
  <2> DEFINE applied == answered /\ write.authorized
  <2>1. write # None /\ write \in Writes /\ write.owner \in {"ordinary", "lifecycle"}
    BY <1>0, <1>2 DEF WriteReturns, TypeOK, Writes, Owners
  <2>2. /\ opposing' = OpposingAfter(applied) /\ authority' = authority
        /\ owed' = IF applied THEN authority /\ write.desired ELSE owed
    BY <1>2 DEF WriteReturns
  <2>3. write' = None \/ (write'.owner = "lifecycle" /\ ~write'.desired)
    BY <1>2, DispatchOK DEF WriteReturns, Owners
  <2> HIDE DEF applied
  <2>4. owed' => authority' /\ opposing'
    <3>1. CASE write.owner = "lifecycle"
      BY <1>0, <2>1, <2>2, <3>1 DEF Opposed, OpposingAfter
    <3>2. CASE write.owner = "ordinary"
      BY <1>0, <2>1, <2>2, <3>2 DEF Opposed, OpposingAfter
    <3>3. QED
      BY <2>1, <3>1, <3>2
  <2>5. QED
    BY <2>3, <2>4 DEF Opposed
<1>3. CASE Converge
  <2>1. /\ authority' /\ opposing' = opposing /\ owed' = owed
        /\ waiter' = (waiter \/ (write # None /\ write.owner = "ordinary"))
    BY <1>3 DEF Converge
  <2>2. write' = write \/ (write'.owner = "lifecycle" /\ ~write'.desired)
    BY <1>3, DispatchOK DEF Converge, Owners
  <2>3. QED
    BY <1>0, <2>1, <2>2 DEF Opposed
<1>4. CASE Abandon
  <2>1. ~owed' /\ ~authority'
    BY <1>4 DEF Abandon
  <2>2. write # None /\ write.owner = "lifecycle" =>
          write'.owner = write.owner /\ write'.desired = write.desired
    BY <1>0, <1>4 DEF Abandon, TypeOK, Writes
  <2>3. ~(write # None /\ write.owner = "lifecycle") => write' = write
    BY <1>4 DEF Abandon
  <2>4. QED
    BY <1>0, <2>1, <2>2, <2>3 DEF Opposed
<1>5. CASE Tick
  <2>1. authority' = authority /\ opposing' = opposing /\ owed' = owed /\ waiter' = waiter
    BY <1>5 DEF Tick, lane
  <2>2. write' = IF write = None THEN None ELSE [write EXCEPT !.age = Older(@, WriteTime)]
    BY <1>5 DEF Tick
  <2>3. write # None => write'.owner = write.owner /\ write'.desired = write.desired
    BY <1>0, <2>2 DEF TypeOK, Writes
  <2>4. QED
    BY <1>0, <2>1, <2>2, <2>3 DEF Opposed
<1>6. CASE UNCHANGED <<write, waiter, authority, opposing, owed>>
  BY <1>0, <1>6 DEF Opposed
<1>7. QED
  BY <1>1, <1>2, <1>3, <1>4, <1>5, <1>6
     DEF Next, Observe, Sweep, Evict, TaskStarts, DeadlineSettles, GivesUp, lane, vars

LEMMA NextOK == IInv /\ [Next]_vars => IInv'
BY EntryOK, OpposedOK DEF IInv
-----------------------------------------------------------------------------
(* The promise of a command                                                  *)

\* What a dispatch does, seen from outside
LEMMA DispatchPromise ==
  ASSUME NEW owner \in Owners, NEW v \in BOOLEAN, Dispatch(owner, v)
  PROVE  Promise!Sent(v)
<1>1. /\ entry' \in Entries /\ entry'.desired = v /\ ~entry'.accepted /\ seen' = None
  BY DispatchOK
<1>2. entry' # None
  BY <1>1
<1>3. QED
  BY <1>1, <1>2 DEF Promise!Sent, Phase, Value

\* A command is on its way exactly while a write is.
LEMMA SentIsWrite ==
  ASSUME EntryInv
  PROVE  /\ Phase = "sent" <=> write # None
         /\ Phase = "none" <=> entry = None
BY DEF EntryInv, EntryOfWrite, Phase

\* A sweep reports, credits or lets lapse.
LEMMA SweepPromise == ASSUME EntryInv, Sweep PROVE Promise!Next
<1>1. CASE SweepTimesOut
  <2>1. write = None /\ entry # None
    BY <1>1, InFlightActive DEF SweepTimesOut, EntryInv
  <2>2. QED
    BY <1>1, <2>1, SentIsWrite
       DEF SweepTimesOut, Clear, Phase, Value, Promise!Lapse, Promise!NoCommand, Promise!Next
<1>2. CASE SweepMatches
  <2>1. entry # None /\ observed \in BOOLEAN /\ seen' = observed /\ observed = Value
    BY <1>2 DEF SweepMatches, Active, EntryInv, TypeOK, Value
  <2>2. CASE entry.accepted
    BY <1>2, <2>1, <2>2
       DEF SweepMatches, Clear, Phase, Value, Promise!Credit, Promise!NoCommand, Promise!Next
  <2>3. CASE ~entry.accepted
    <3>1. Phase = "sent" /\ entry' = entry /\ confirmed' = None
      BY <1>2, <2>1, <2>3 DEF SweepMatches, Phase
    <3>2. Promise!Report(observed)
      BY <2>1, <3>1 DEF Promise!Report, Phase, Value
    <3>3. QED
      BY <2>1, <3>2 DEF Promise!Next
  <2>4. QED
    BY <2>2, <2>3
<1>3. CASE SweepContradicts
  <2>1. /\ entry # None /\ observed \in BOOLEAN /\ observed # entry.desired
        /\ seen' = observed /\ confirmed' = None /\ entry' = entry
    BY <1>3 DEF SweepContradicts, Active, EntryInv, TypeOK
  <2>2. Promise!Report(observed)
    BY <2>1 DEF Promise!Report, Phase, Value
  <2>3. QED
    BY <2>1, <2>2 DEF Promise!Next
<1>4. QED
  BY <1>1, <1>2, <1>3 DEF Sweep

\* The answer: what it makes of the command, then perhaps the off command of the waiter.
LEMMA ReturnPromise ==
  ASSUME EntryInv, NEW answered \in BOOLEAN, WriteReturns(answered)
  PROVE  Promise!Answer
<1> DEFINE applied == answered /\ write.authorized
           settles == applied /\ entry # None /\ confirmation # None
           left == IF applied /\ entry # None /\ ~settles
                   THEN [entry EXCEPT !.accepted = TRUE] ELSE None
           p == IF left = None THEN "none" ELSE "accepted"
<1>1. /\ write # None /\ write \in Writes /\ entry \in Entries /\ entry # None
      /\ entry.desired = write.desired
  BY DEF WriteReturns, EntryInv, TypeOK, EntryOfWrite
<1>2. Phase = "sent" /\ Value = entry.desired
  BY <1>1, SentIsWrite DEF Value
<1>3. left # None => applied /\ ~settles /\ left.accepted /\ left.desired = entry.desired
  BY <1>1 DEF Entries
<1>4. applied /\ ~settles => left # None
  BY <1>1 DEF Entries
<1>5. confirmed' = IF settles THEN confirmation ELSE None
  BY DEF WriteReturns
<1>6. confirmation # None <=> seen = write.desired
  BY <1>1 DEF EntryInv, DeferredEvidence
<1>7. confirmation # None => confirmation = write.desired
  BY DEF EntryInv, DeferredEvidence
<1> HIDE DEF left
<1>8. Promise!Outcome(p, confirmed')
  <2>1. CASE settles
    BY <1>1, <1>2, <1>3, <1>5, <1>6, <1>7, <2>1 DEF Promise!Outcome
  <2>2. CASE applied /\ ~settles
    BY <1>1, <1>2, <1>4, <1>5, <1>6, <2>2 DEF Promise!Outcome
  <2>3. CASE ~applied
    BY <1>3, <1>5, <2>3 DEF Promise!Outcome
  <2>4. QED
    BY <2>1, <2>2, <2>3
<1>9. \/ /\ Phase' = p /\ Value' = (IF p = "none" THEN None ELSE Value) /\ seen' = seen
      \/ Promise!Sent(FALSE)
  <2>1. CASE Dispatch("lifecycle", FALSE)
    BY <2>1, DispatchPromise DEF Owners
  <2>2. CASE entry' = left /\ UNCHANGED <<current, seen>>
    BY <1>2, <1>3, <2>2 DEF Phase, Value
  <2>3. QED
    BY <2>1, <2>2 DEF WriteReturns, left
<1>10. QED
  BY <1>2, <1>8, <1>9 DEF Promise!Answer

\* Every step of the command path is a step of the promise.
LEMMA PromiseStep == EntryInv /\ EntryInv' /\ [Next]_vars => [Promise!Next]_Promise!promised
<1> SUFFICES ASSUME EntryInv, EntryInv', [Next]_vars
             PROVE  Promise!Next \/ UNCHANGED Promise!promised
  OBVIOUS
<1>1. CASE Sweep
  BY <1>1, SweepPromise
<1>2. ASSUME NEW answered \in BOOLEAN, WriteReturns(answered) PROVE Promise!Next
  BY <1>2, ReturnPromise DEF Promise!Next
<1>3. CASE Evict
  <2>1. write = None /\ entry # None
    BY <1>3, InFlightActive DEF Evict, EntryInv
  <2>2. QED
    BY <1>3, <2>1, SentIsWrite
       DEF Evict, evidence, Phase, Value, Promise!Lapse, Promise!NoCommand, Promise!Next
<1>4. ASSUME NEW v \in BOOLEAN, OrdinaryRequest(v) PROVE Promise!Next
  <2>1. write = None /\ Dispatch("ordinary", v) /\ confirmed' = None
    BY <1>4 DEF OrdinaryRequest
  <2>2. Promise!Issue(v)
    BY <2>1, DispatchPromise, SentIsWrite DEF Promise!Issue, Owners
  <2>3. QED
    BY <2>2 DEF Promise!Next
<1>5. CASE Converge /\ write = None /\ Dispatch("lifecycle", FALSE)
  <2>1. Promise!Issue(FALSE)
    BY <1>5, DispatchPromise, SentIsWrite DEF Converge, Promise!Issue, Owners
  <2>2. QED
    BY <2>1 DEF Promise!Next
<1>6. CASE confirmed' = None /\ UNCHANGED <<entry, seen>>
  <2>1. Promise!Quiet
    BY <1>6 DEF Promise!Quiet, Phase, Value
  <2>2. QED
    BY <2>1 DEF Promise!Next
<1>7. CASE Tick
  <2>1. /\ entry = None => entry' = None
        /\ entry # None => entry \in Entries /\ entry' = [entry EXCEPT !.age = Older(@, Window)]
    BY <1>7 DEF Tick, EntryInv, TypeOK
  <2>2. entry # None => /\ entry' # None /\ entry'.desired = entry.desired
                        /\ entry'.accepted = entry.accepted
    <3>1. ASSUME entry # None PROVE entry' \in Entries
      BY <2>1, <3>1, OlderOK DEF Entries
    <3>2. QED
      BY <2>1, <3>1 DEF Entries
  <2>3. Phase' = Phase /\ Value' = Value
    BY <2>1, <2>2 DEF Phase, Value
  <2>4. Promise!Quiet
    BY <1>7, <2>3 DEF Tick, evidence, Promise!Quiet
  <2>5. QED
    BY <2>4 DEF Promise!Next
<1>8. CASE UNCHANGED vars
  BY <1>8 DEF vars, store, evidence, Phase, Value, Promise!promised
<1>9. QED
  BY <1>1, <1>2, <1>3, <1>4, <1>5, <1>6, <1>7, <1>8
     DEF Next, Observe, TaskStarts, Converge, DeadlineSettles, GivesUp, Abandon, store, evidence
-----------------------------------------------------------------------------
(* The theorems                                                              *)

\* Entry, write and deferred confirmation agree in every reachable state
\* (lib/observer/pendingBinaryCommands.ts, lib/executor/binaryControlDispatch.ts).
THEOREM InductiveInvariant == Spec => []IInv
<1>1. QED
  BY InitOK, NextOK, PTL DEF Spec, IInv

\* Every reachable state is well typed, for every timeout and window.
THEOREM TypeCorrect == Spec => []TypeOK
<1>1. IInv => TypeOK
  BY DEF IInv, EntryInv
<1>2. QED
  BY <1>1, InductiveInvariant, PTL

\* A command is credited to the device only on the newest evidence about itself: a match
\* deferred until the acceptance (recordDispatchAccepted) is neither one that a later
\* observation contradicted nor one of an earlier command.
THEOREM EvidenceAlwaysHolds == Spec => EvidenceHolds
<1> DEFINE Step == confirmed' # None =>
             entry # None /\ entry.desired = confirmed' /\ confirmed' \in {seen, seen'}
<1>1. ASSUME IInv, Next PROVE Step
  <2>1. CASE Sweep
    BY <2>1 DEF Sweep, SweepTimesOut, SweepMatches, SweepContradicts, Active
  <2>2. ASSUME NEW answered \in BOOLEAN, WriteReturns(answered) PROVE Step
    <3>1. confirmed' # None => confirmed' = confirmation /\ write # None
      BY <2>2 DEF WriteReturns
    <3>2. QED
      BY <1>1, <3>1 DEF IInv, EntryInv, EntryOfWrite, DeferredEvidence
  <2>3. CASE ~(Sweep \/ \E answered \in BOOLEAN : WriteReturns(answered))
    BY <1>1, <2>3
    DEF Next, Observe, Evict, OrdinaryRequest, TaskStarts, Converge, DeadlineSettles,
        GivesUp, Abandon, Tick
  <2>4. QED
    BY <2>1, <2>2, <2>3
<1>2. IInv /\ [Next]_vars => [Step]_vars
  BY <1>1
<1>3. QED
  BY <1>2, InductiveInvariant, PTL DEF Spec, EvidenceHolds

\* The fallback of a task does not settle with an accepted on command left unanswered
\* (lib/executor/lifecycleFallbackDispatcher.ts: releasedOpposingCommands).
THEOREM AlwaysSettlesAfterOff == Spec => SettlesAfterOff
<1>1. IInv /\ [Next]_vars => [DeadlineSettles => ~owed]_vars
  BY DEF IInv, Opposed, DeadlineSettles
<1>2. QED
  BY <1>1, InductiveInvariant, PTL DEF Spec, SettlesAfterOff

\* Claims, writes, entries and sweeps implement CommandPromise
\* (lib/observer/pendingBinaryCommands.ts, lib/executor/binaryControlDispatch.ts).
THEOREM KeepsCommandPromise == Spec => PromiseSpec
<1>1. Init => Promise!Init
  BY DEF Init, Promise!Init, Phase, Value
<1>2. IInv /\ IInv' /\ [Next]_vars => [Promise!Next]_Promise!promised
  BY PromiseStep DEF IInv
<1>3. QED
  BY <1>1, <1>2, InductiveInvariant, PTL DEF Spec, PromiseSpec, Promise!Spec
=============================================================================
