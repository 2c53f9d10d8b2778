-------------------------- MODULE RebuildPromise ---------------------------
(***************************************************************************)
(* What the power-driven rebuild loop promises a caller of                  *)
(* recordPowerSample, with the scheduler, the timers and the suppressions   *)
(* left out: a call is answered without a rebuild, or it waits for one      *)
(* rebuild, which starts after the call was made, and is answered when that *)
(* rebuild ends.  Calls of one home are served one at a time.               *)
(***************************************************************************)
VARIABLE call   \* "none", "asked" (waits), "running" (its rebuild runs), "answered"

Init == call = "none"

\* A sample is decided on: no rebuild, a rebuild later, or a rebuild at once.
Decide == call \in {"none", "answered"} /\ call' \in {"answered", "asked", "running"}

Begin == call = "asked" /\ call' = "running"

\* The rebuild ends; a call that still waits is answered only by shutdown.
Answer == call \in {"asked", "running"} /\ call' = "answered"

Return == call = "answered" /\ call' = "none"

Next == Decide \/ Begin \/ Answer \/ Return

Spec == Init /\ [][Next]_call

\* Every call gets its answer.
Answered == (call \in {"asked", "running"}) ~> (call = "answered")
=============================================================================
