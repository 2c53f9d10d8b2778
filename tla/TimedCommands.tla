---------------------------- MODULE TimedCommands ----------------------------
(***************************************************************************)
(* The binary commands of a device behind Homey's HTTP transport, which      *)
(* times out after 30 s (HTTP_TIMEOUT_MS) and so within the confirmation     *)
(* window of 90 s: "The 90 s window comfortably outlasts the transport's own *)
(* timeout" (lib/executor/binaryControlDispatch.ts).  The trigger of a       *)
(* flow-backed device (setup/appInit/buildDeviceActuator.ts) has no timeout, *)
(* and BinaryCommands alone is its module.                                   *)
(***************************************************************************)
EXTENDS BinaryCommands

ASSUME TransportAssumption == WriteTime < Window
=============================================================================
