-------------------------- MODULE IncidentPromise ---------------------------
(***************************************************************************)
(* What a home's hard-cap incident promises whoever reads it, with callers, *)
(* gate, retries and setting writes left out: it begins with its recovery   *)
(* to be earned from nothing, it ends only once recovery was sustained, and *)
(* what is shown of it changes only while the home's authority is open and  *)
(* only to what the incident is at that moment, never to what it was.       *)
(***************************************************************************)
VARIABLES
  incident,   \* the home is in shortfall
  rested,     \* no reading out of recovery was acted on for the sustain
  open,       \* the home's authority: the runtime lives, no fence, no prepared attempt
  shown       \* the side effect outside the guard

promised == <<incident, rested, open, shown>>

Init == incident = FALSE /\ rested = FALSE /\ open = TRUE /\ shown = FALSE

\* What is shown catches up, or stays.
Follows == (open' /\ shown' = incident') \/ UNCHANGED shown

Begin == ~incident /\ incident' /\ ~rested' /\ Follows /\ UNCHANGED open

End == incident /\ ~incident' /\ rested /\ Follows /\ UNCHANGED <<rested, open>>

\* Time passes, or a reading out of recovery is acted on.
Rest == rested' \in BOOLEAN /\ UNCHANGED <<incident, open, shown>>

\* A fence or an attempt begins or ends, or what was put off is taken up.
Authority == open' \in BOOLEAN /\ Follows /\ UNCHANGED <<incident, rested>>

\* A new process remembers nothing.
Restart == ~incident' /\ ~rested' /\ open' /\ ~shown'

Next == Begin \/ End \/ Rest \/ Authority \/ Restart

Spec == Init /\ [][Next]_promised
=============================================================================
