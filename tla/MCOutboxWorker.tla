--------------------------- MODULE MCOutboxWorker ---------------------------
(* Three events, two overlapping passes that claim two at a time, and the   *)
(* two consumers the server composes.                                       *)
EXTENDS OutboxWorker

MCEvents == 1..3

=============================================================================
