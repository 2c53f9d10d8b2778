--------------------------- MODULE BinaryCommands ---------------------------
(***************************************************************************)
(* The binary command of one device: the claim under which the plan         *)
(* executor and the fallback of a smart task write it                       *)
(* (lib/executor/binaryCommandClaim.ts, binaryControlShared.ts), the        *)
(* dispatch around the transport's answer (binaryControlDispatch.ts), the   *)
(* observer's entry for the command in flight with its confirmation by      *)
(* telemetry (lib/observer/pendingBinaryCommands.ts), and the fallback lane *)
(* that turns the device off when its task ends                             *)
(* (lib/executor/lifecycleFallbackDispatcher.ts).                           *)
(*                                                                         *)
(* Values: TRUE is on, FALSE is off.                                        *)
(***************************************************************************)
EXTENDS Integers

CONSTANTS
  WriteTime,   \* bound: the longest a write is on its way
  Window,      \* confirmation window of a command (LOCAL_CONTROL_COMMAND_CONFIRMATION_MS)
  None         \* undefined

Owners == {"ordinary", "lifecycle"}
Entries == [desired : BOOLEAN, accepted : BOOLEAN, age : 0..Window]
Writes == [owner : Owners, desired : BOOLEAN, authorized : BOOLEAN, age : 0..WriteTime]

ASSUME CommandAssumption ==
  /\ WriteTime \in Nat /\ Window \in Nat
  /\ None \notin BOOLEAN /\ None \notin Entries /\ None \notin Writes

VARIABLES
  observed,      \* the value the observer last accepted for the device
  current,       \* that observation is not older than the entry's startedMs
  entry,         \* the store's entry for the device, age being the time since startedMs
  confirmation,  \* the value of the confirmation deferred until acceptance
  write,         \* the claim and the transport's promise; authorized says whether the
                 \* authority token it began with still stands
  waiter,        \* the fallback lane waits for the claim's release
  authority,     \* the fallback lane holds an authority token
  opposing,      \* releasedOpposingCommands: an on command was accepted under the token
  task,          \* the smart task is enabled, and its clock ticks
  seen,          \* history: the last observation a sweep took as evidence on the entry
  confirmed,     \* history: the value the last step confirmed
  owed           \* history: an on command was accepted under authority, none off since

store    == <<entry, confirmation>>
evidence == <<observed, current, seen>>
lane     == <<waiter, authority, opposing, task, owed>>
vars     == <<store, evidence, write, lane, confirmed>>

TypeOK ==
  /\ observed \in BOOLEAN /\ current \in BOOLEAN
  /\ entry \in Entries \cup {None} /\ confirmation \in BOOLEAN \cup {None}
  /\ write \in Writes \cup {None}
  /\ waiter \in BOOLEAN /\ authority \in BOOLEAN /\ opposing \in BOOLEAN /\ task \in BOOLEAN
  /\ seen \in BOOLEAN \cup {None} /\ confirmed \in BOOLEAN \cup {None} /\ owed \in BOOLEAN

Init ==
  /\ observed \in BOOLEAN /\ current = FALSE
  /\ entry = None /\ confirmation = None /\ write = None
  /\ waiter = FALSE /\ authority = FALSE /\ opposing = FALSE /\ task = FALSE
  /\ seen = None /\ confirmed = None /\ owed = FALSE
-----------------------------------------------------------------------------
(* The store                                                                 *)

\* isPendingBinaryCommandActive
Active(e) == e # None /\ e.age < Window

\* clear
Clear == entry' = None /\ confirmation' = None

\* The device reports a value, of its own, by a user or by a command; the sweep is queued.
Observe(v) ==
  /\ observed' = v /\ current' = TRUE /\ confirmed' = None
  /\ UNCHANGED <<store, seen, write, lane>>

\* reconcilePendingEntry: the window ended without confirmation
SweepTimesOut ==
  /\ entry # None /\ ~Active(entry)
  /\ Clear /\ confirmed' = None /\ UNCHANGED seen

\* reconcilePendingEntry: telemetry has the desired value; before acceptance that is kept
\* for the acceptance to use, as the closure confirm
SweepMatches ==
  /\ Active(entry) /\ current /\ observed = entry.desired
  /\ seen' = observed
  /\ IF entry.accepted
     THEN Clear /\ confirmed' = entry.desired
     ELSE confirmation' = observed /\ confirmed' = None /\ UNCHANGED entry

\* Mutant of SweepContradicts: an earlier match stays deferred
SweepContradictsKeeps ==
  /\ Active(entry) /\ current /\ observed # entry.desired
  /\ seen' = observed /\ confirmed' = None /\ UNCHANGED store

\* reconcilePendingEntry: telemetry disagrees
SweepContradicts ==
  /\ Active(entry) /\ current /\ observed # entry.desired
  /\ seen' = observed /\ confirmation' = None /\ confirmed' = None /\ UNCHANGED entry

\* syncPendingBinaryCommands
Sweep ==
  /\ SweepTimesOut \/ SweepMatches \/ SweepContradicts
  /\ UNCHANGED <<observed, current, write, lane>>

\* get: a reader evicts an entry whose window ended, and leaves the deferred confirmation
Evict ==
  /\ entry # None /\ ~Active(entry)
  /\ entry' = None /\ confirmed' = None
  /\ UNCHANGED <<confirmation, evidence, write, lane>>
-----------------------------------------------------------------------------
(* Dispatch                                                                  *)

\* runBinaryControl with decideBinaryControl's consent: the claim, the entry, the write
Dispatch(owner, v) ==
  /\ entry' = [desired |-> v, accepted |-> FALSE, age |-> 0]
  /\ write' = [owner |-> owner, desired |-> v, authorized |-> TRUE, age |-> 0]
  /\ current' = FALSE /\ seen' = None

\* shouldSkipBinaryControl: the observation matches and no opposite command is in its way,
\* or the same command is in flight
Skips(v) ==
  \/ observed = v /\ (entry = None \/ entry.desired = v)
  \/ Active(entry) /\ entry.desired = v

\* The plan executor turns the device on or off; the fallback lane keeps it out.
OrdinaryRequest(v) ==
  /\ ~authority /\ write = None /\ ~Skips(v)
  /\ Dispatch("ordinary", v) /\ confirmed' = None
  /\ UNCHANGED <<confirmation, observed, lane>>

\* Mutant of WantsOff: converge does not look at releasedOpposingCommands
WantsOffObserved(e, forced) == observed /\ ~(Active(e) /\ ~e.desired)

\* converge and applyDeferredBinaryCommand, the claim being free: e is the entry and
\* forced whether an opposing command was released
WantsOff(e, forced) == (observed \/ forced) /\ ~(Active(e) /\ ~e.desired)

\* Mutant of OpposingAfter: the fallback's own write deletes it, applied or not
OpposingAfterAny(applied) ==
  IF write.owner = "lifecycle" THEN FALSE
  ELSE opposing \/ (waiter /\ applied /\ write.desired)

\* What releasedOpposingCommands holds after a write is over: the fallback's own accepted
\* write deletes it, an accepted on command the fallback waited for sets it
OpposingAfter(applied) ==
  IF write.owner = "lifecycle" THEN opposing /\ ~applied
  ELSE opposing \/ (waiter /\ applied /\ write.desired)

\* dispatchBinaryControlDecision from the transport's answer on, the claim's release and
\* the waiter it calls.  A timeout of the transport counts as an answer.
WriteReturns(answered) ==
  LET applied == answered /\ write.authorized
      settles == applied /\ entry # None /\ confirmation # None
      left == IF applied /\ entry # None /\ ~settles
              THEN [entry EXCEPT !.accepted = TRUE] ELSE None
  IN /\ write # None
     /\ confirmed' = IF settles THEN confirmation ELSE None
     /\ confirmation' = IF applied /\ entry = None THEN confirmation ELSE None
     /\ opposing' = OpposingAfter(applied)
     /\ waiter' = FALSE
     /\ IF waiter /\ WantsOff(left, opposing')
        THEN Dispatch("lifecycle", FALSE)
        ELSE entry' = left /\ write' = None /\ UNCHANGED <<current, seen>>
     /\ owed' = IF applied THEN authority /\ write.desired ELSE owed
     /\ UNCHANGED <<observed, authority, task>>
-----------------------------------------------------------------------------
(* The fallback lane                                                         *)

TaskStarts ==
  /\ ~task /\ task' = TRUE /\ confirmed' = None
  /\ UNCHANGED <<store, evidence, write, waiter, authority, opposing, owed>>

\* converge, when it does not end the task: it waits for the plan executor's claim, or
\* writes; a write of its own still under way makes it skip
Converge ==
  /\ task /\ authority' = TRUE /\ confirmed' = None
  /\ waiter' = (waiter \/ (write # None /\ write.owner = "ordinary"))
  /\ IF write = None /\ WantsOff(entry, opposing)
     THEN Dispatch("lifecycle", FALSE)
     ELSE UNCHANGED <<entry, write, current, seen>>
  /\ UNCHANGED <<confirmation, observed, opposing, task, owed>>

\* abandon
Abandon ==
  /\ authority' = FALSE /\ opposing' = FALSE /\ waiter' = FALSE /\ owed' = FALSE
  /\ write' = IF write # None /\ write.owner = "lifecycle"
              THEN [write EXCEPT !.authorized = FALSE] ELSE write
  /\ confirmed' = None /\ UNCHANGED <<store, evidence>>

\* handleDeferredTerminalFallback after the deadline, converge having answered settled
DeadlineSettles ==
  /\ task /\ task' = FALSE
  /\ ~observed /\ ~opposing /\ ~(write # None /\ write.owner = "ordinary")
  /\ Abandon

\* handleDeferredTerminalFallback gives up for another reason: out of scope, capacity
\* control back on, unavailable, or the grace elapsed; it may disarm the task
GivesUp ==
  /\ task /\ task' \in BOOLEAN
  /\ Abandon

\* Ages grow; the entry's saturates at the window and a write ends within its timeout.
Older(age, cap) == IF age < cap THEN age + 1 ELSE cap

Tick ==
  /\ write # None => write.age < WriteTime
  /\ entry' = IF entry = None THEN None ELSE [entry EXCEPT !.age = Older(@, Window)]
  /\ write' = IF write = None THEN None ELSE [write EXCEPT !.age = Older(@, WriteTime)]
  /\ confirmed' = None /\ UNCHANGED <<confirmation, evidence, lane>>

Next ==
  \/ \E v \in BOOLEAN : Observe(v)
  \/ Sweep
  \/ Evict
  \/ \E v \in BOOLEAN : OrdinaryRequest(v)
  \/ \E answered \in BOOLEAN : WriteReturns(answered)
  \/ TaskStarts
  \/ Converge
  \/ DeadlineSettles
  \/ GivesUp
  \/ Tick

Spec == Init /\ [][Next]_vars

\* The lifecycle clock ticks while the task is enabled, a write is answered, and a write
\* that is repeated for ever is accepted at last.
FairSpec ==
  /\ Spec
  /\ WF_vars(Converge)
  /\ WF_vars(\E answered \in BOOLEAN : WriteReturns(answered))
  /\ SF_vars(write # None /\ write.owner = "lifecycle" /\ WriteReturns(TRUE))
-----------------------------------------------------------------------------
(* What must hold                                                            *)

\* A command is credited to the device (its shed or restore recorded, its reachability
\* cleared) only if its own entry is still in the store and the last observation swept
\* since it was issued has its value.  A match deferred while the request was on its way
\* must not outlive a contradiction, the entry, or the write it belongs to: "Acceptance must
\* never replay stale evidence" (pendingBinaryCommands.ts).
EvidenceHolds ==
  [][confirmed' # None =>
       entry # None /\ entry.desired = confirmed' /\ confirmed' \in {seen, seen'}]_vars

\* A task whose fallback is off does not end as settled while an on command accepted after
\* the fallback took the device over has had no accepted off command after it, however often
\* the fallback's own writes fail and whatever telemetry shows meanwhile.
SettlesAfterOff == [][DeadlineSettles => ~owed]_vars

\* The command the store holds, seen from outside
Phase == IF entry = None THEN "none" ELSE IF entry.accepted THEN "accepted" ELSE "sent"
Value == IF entry = None THEN None ELSE entry.desired

Promise == INSTANCE CommandPromise WITH phase <- Phase, value <- Value, credit <- confirmed

\* Claims, writes, entries, sweeps and the fallback together keep the promise CommandPromise
\* makes of a command: nothing overtakes one on its way, and a match before its acceptance is
\* neither lost nor credited after a contradiction.  EvidenceHolds holds of every behaviour
\* of CommandPromise.
PromiseSpec == Promise!Spec

\* An on command of the plan executor that was on its way when a task's fallback took the
\* device over is followed by an accepted off command, although telemetry may still show
\* the device off, unless the fallback gives the device up.
FallbackFollows == owed ~> ~owed

\* notes/state-management/README.md: an opposite pending command always wins over the
\* equality skip.  Then a task whose fallback is off does not end as settled while an on
\* command is inside its confirmation window.
EndsOff == [][DeadlineSettles => ~(Active(entry) /\ entry.desired)]_vars
=============================================================================
