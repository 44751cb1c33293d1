--------------------------- MODULE EventDelivery ---------------------------
(* What the parts of a consumer may rely on, whatever carries the events:    *)
(* an event is handed out only once it is committed, part after part, and    *)
(* is acknowledged only when the last part has it.  How often a part sees    *)
(* an event before that is left open, and so is whether it ever does.        *)
EXTENDS Naturals

CONSTANTS
  Events,     \* what can be committed
  NConsumers  \* parts of the consumer, in the order they are called

VARIABLES
  committed,    \* events a command has committed
  delivered,    \* which part has the effects of which event
  acknowledged  \* events the consumer is through with

dvars == <<committed, delivered, acknowledged>>

DInit == committed = {} /\ delivered = {} /\ acknowledged = {}

Commit(e) ==
  /\ committed' = committed \cup {e}
  /\ UNCHANGED <<delivered, acknowledged>>

Deliver(e, c) ==
  /\ e \in committed \ acknowledged
  /\ \A b \in 1..NConsumers : b < c => <<e, b>> \in delivered
  /\ delivered' = delivered \cup {<<e, c>>}
  /\ UNCHANGED <<committed, acknowledged>>

Acknowledge(e) ==
  /\ e \in committed
  /\ \A c \in 1..NConsumers : <<e, c>> \in delivered
  /\ acknowledged' = acknowledged \cup {e}
  /\ UNCHANGED <<committed, delivered>>

DNext == \E e \in Events :
  Commit(e) \/ Acknowledge(e) \/ \E c \in 1..NConsumers : Deliver(e, c)

DSpec == DInit /\ [][DNext]_dvars

=============================================================================
