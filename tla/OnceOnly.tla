------------------------------ MODULE OnceOnly ------------------------------
(* What a client may rely on who sends a command again because no answer    *)
(* came: under one key at most one command takes effect, and whoever gets   *)
(* an answer gets that command's, for the request it was executed with.     *)

CONSTANTS Keys, Requests, Responses

VARIABLES
  executed,  \* commands that took effect: key, request, response
  told       \* answers a client has received

ovars == <<executed, told>>

OInit == executed = {} /\ told = {}

\* The command takes effect; its answer may be lost on the way.
Execute(k, q, v) ==
  /\ \A x \in executed : x.key # k
  /\ executed' = executed \cup {[key |-> k, request |-> q, response |-> v]}
  /\ told' \in {told, told \cup {[key |-> k, request |-> q, response |-> v]}}

Tell(x) == told' = told \cup {x} /\ UNCHANGED executed

ONext ==
  \/ \E k \in Keys, q \in Requests, v \in Responses : Execute(k, q, v)
  \/ \E x \in executed : Tell(x)

OSpec == OInit /\ [][ONext]_ovars

=============================================================================
