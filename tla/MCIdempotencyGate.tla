-------------------------- MODULE MCIdempotencyGate --------------------------
(* Three HTTP requests race for one key with two commands, and two faults   *)
(* fall between them.  Keys share nothing, so one shows all there is.       *)
EXTENDS IdempotencyGate

=============================================================================
