--------------------------- MODULE CommandPromise ---------------------------
(***************************************************************************)
(* What the command path of a device promises those who count on a command, *)
(* with claims, writes, ages and the fallback's bookkeeping left out: a     *)
(* command is sent, then accepted or refused; it is credited to the device  *)
(* once, at its acceptance if the telemetry of the meantime ended on its    *)
(* value, and otherwise when telemetry shows it later; an accepted command  *)
(* may lapse or give way to a new one, one on its way may not.              *)
(***************************************************************************)
CONSTANT None

VARIABLES
  phase,    \* "none", "sent" or "accepted"
  value,    \* what the command asks for
  seen,     \* the last telemetry taken as evidence on it
  credit    \* the value the last step credited, or None

promised == <<phase, value, seen, credit>>

Init == phase = "none" /\ value = None /\ seen = None /\ credit = None

NoCommand == phase' = "none" /\ value' = None
Sent(v) == phase' = "sent" /\ value' = v /\ seen' = None

\* Nothing of the command changes.
Quiet == credit' = None /\ UNCHANGED <<phase, value, seen>>

\* A command is issued, unless one is on its way.
Issue(v) == phase # "sent" /\ Sent(v) /\ credit' = None

\* Telemetry that credits nothing: the command is on its way, or asks for something else.
Report(v) ==
  /\ phase = "sent" \/ (phase = "accepted" /\ v # value)
  /\ seen' = v /\ credit' = None /\ UNCHANGED <<phase, value>>

\* What the answer makes of the command on its way, as a new phase and a credit
Outcome(p, c) ==
  \/ p = "none" /\ c = value /\ seen = value
  \/ p = "accepted" /\ c = None /\ seen # value
  \/ p = "none" /\ c = None

\* The answer, which may let a waiting off command go at once.
Answer ==
  /\ phase = "sent"
  /\ \E p \in {"none", "accepted"} :
       /\ Outcome(p, credit')
       /\ \/ phase' = p /\ value' = (IF p = "none" THEN None ELSE value) /\ UNCHANGED seen
          \/ Sent(FALSE)

\* Telemetry shows what an accepted command asks for.
Credit == phase = "accepted" /\ seen' = value /\ credit' = value /\ NoCommand

\* The window of an accepted command ends.
Lapse == phase = "accepted" /\ NoCommand /\ credit' = None /\ UNCHANGED seen

Next ==
  \/ Quiet \/ Answer \/ Credit \/ Lapse
  \/ \E v \in BOOLEAN : Issue(v) \/ Report(v)

Spec == Init /\ [][Next]_promised
=============================================================================
