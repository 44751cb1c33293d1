-------------------------- MODULE IdempotencyGate --------------------------
(***************************************************************************)
(* PostgresIdempotencyGate.execute: every mutating command runs inside the *)
(* transaction that stores its key, request fingerprint and response.  The *)
(* transaction looks the key up with SELECT ... FOR UPDATE, which locks    *)
(* nothing while the row does not exist; so several callers can find no    *)
(* row, and the primary key decides between them: an INSERT waits for an   *)
(* uncommitted row with its key and fails if that row is committed.        *)
(*                                                                         *)
(* A request stands for actor, command type and body hash together.  Each  *)
(* run of an operation answers with a response of its own, so a replay can *)
(* be told from a second execution.  Keys are never deleted.               *)
(***************************************************************************)
EXTENDS Naturals

CONSTANTS
  Callers,    \* HTTP requests in progress
  Keys,       \* idempotency keys clients choose
  Requests,   \* fingerprints of commands
  Responses,  \* bound: what runs answer, one for each fault and each key
  MaxFaults,  \* bound: operations that fail and connections that break
  Nil         \* no row, no caller

Row         == [request : Requests, response : Responses]
Effect      == [key : Keys, request : Requests, response : Responses]
Transaction == [at : {"IDLE", "SELECT", "INSERT", "RUN", "COMMIT"},
                key : Keys \cup {Nil}, request : Requests \cup {Nil},
                response : Responses \cup {Nil}]

ASSUME GateAssumption ==
  /\ Nil \notin Callers /\ Nil \notin Row
  /\ MaxFaults \in Nat

VARIABLES
  row,        \* idempotency_keys, the committed rows
  inserting,  \* the caller whose uncommitted row holds a key
  tx,         \* the transaction of each caller
  effects,    \* commands whose effects are committed
  told,       \* answers that reached a client
  given,      \* responses of the runs so far
  faults

vars == <<row, inserting, tx, effects, told, given, faults>>

-----------------------------------------------------------------------------

Idle == [at |-> "IDLE", key |-> Nil, request |-> Nil, response |-> Nil]

Move(c, at) == [tx EXCEPT ![c].at = at]

Key(c) == tx[c].key

Answer(c, response) == [key |-> Key(c), request |-> tx[c].request, response |-> response]

\* The answer reaches the client, or the connection breaks before it does.
Reply(answer) == told' = told \/ told' = told \cup {answer}

\* Mutant: the fingerprint is not compared.
AnyCommand(c) == TRUE

SameCommand(c) == row[Key(c)].request = tx[c].request

KeyIsFree(k) == row[k] = Nil

\* Mutant: the connection goes back to the pool without a rollback.
KeepKey(c) == inserting

\* The row a transaction has inserted is decided with it.
ReleaseKey(c) == [k \in Keys |-> IF inserting[k] = c THEN Nil ELSE inserting[k]]

\* Mutant: the operation writes outside the transaction of the gate.
EffectsEscape(c) ==
  IF tx[c].at = "COMMIT" THEN effects \cup {Answer(c, tx[c].response)} ELSE effects

EffectsAfterRollback(c) == effects

-----------------------------------------------------------------------------

Init ==
  /\ row = [k \in Keys |-> Nil]
  /\ inserting = [k \in Keys |-> Nil]
  /\ tx = [c \in Callers |-> Idle]
  /\ effects = {} /\ told = {}
  /\ given = {} /\ faults = 0

\* A client sends a command, for the first time, again, or under a key it has
\* used for another one.
Call(c, k, q) ==
  /\ tx[c].at = "IDLE"
  /\ tx' = [tx EXCEPT ![c] = [at |-> "SELECT", key |-> k, request |-> q, response |-> Nil]]
  /\ UNCHANGED <<row, inserting, effects, told, given, faults>>

SelectNothing(c) ==
  /\ tx[c].at = "SELECT"
  /\ row[Key(c)] = Nil
  /\ tx' = Move(c, "INSERT")
  /\ UNCHANGED <<row, inserting, effects, told, given, faults>>

Conflict(c) ==
  /\ tx[c].at = "SELECT"
  /\ row[Key(c)] # Nil /\ ~ SameCommand(c)
  /\ tx' = [tx EXCEPT ![c] = Idle]
  /\ UNCHANGED <<row, inserting, effects, told, given, faults>>

\* A row that others can see has its response: the code's branch for a row
\* without one is never taken.
Replay(c) ==
  /\ tx[c].at = "SELECT"
  /\ row[Key(c)] # Nil /\ SameCommand(c)
  /\ Reply(Answer(c, row[Key(c)].response))
  /\ tx' = [tx EXCEPT ![c] = Idle]
  /\ UNCHANGED <<row, inserting, effects, given, faults>>

InsertKey(c) ==
  /\ tx[c].at = "INSERT"
  /\ inserting[Key(c)] = Nil
  /\ KeyIsFree(Key(c))
  /\ inserting' = [inserting EXCEPT ![Key(c)] = c]
  /\ tx' = Move(c, "RUN")
  /\ UNCHANGED <<row, effects, told, given, faults>>

\* Another caller has committed the key meanwhile: the primary key rejects the
\* insertion and the caller gets an error, not the stored answer.
RejectDuplicate(c) ==
  /\ tx[c].at = "INSERT"
  /\ inserting[Key(c)] = Nil
  /\ ~ KeyIsFree(Key(c))
  /\ tx' = [tx EXCEPT ![c] = Idle]
  /\ UNCHANGED <<row, inserting, effects, told, given, faults>>

RunOperation(c) ==
  /\ tx[c].at = "RUN"
  /\ \E v \in Responses \ given :
       /\ given' = given \cup {v}
       /\ tx' = [tx EXCEPT ![c] = [@ EXCEPT !.at = "COMMIT", !.response = v]]
  /\ UNCHANGED <<row, inserting, effects, told, faults>>

\* The operation throws, or the connection breaks before the commit.
Rollback(c) ==
  /\ tx[c].at \in {"RUN", "COMMIT"}
  /\ faults < MaxFaults
  /\ faults' = faults + 1
  /\ inserting' = ReleaseKey(c)
  /\ effects' = EffectsAfterRollback(c)
  /\ tx' = [tx EXCEPT ![c] = Idle]
  /\ UNCHANGED <<row, told, given>>

\* Effects, fingerprint and response become visible together.
Commit(c) ==
  /\ tx[c].at = "COMMIT"
  /\ row' = [row EXCEPT ![Key(c)] = [request |-> tx[c].request, response |-> tx[c].response]]
  /\ effects' = effects \cup {Answer(c, tx[c].response)}
  /\ Reply(Answer(c, tx[c].response))
  /\ inserting' = ReleaseKey(c)
  /\ tx' = [tx EXCEPT ![c] = Idle]
  /\ UNCHANGED <<given, faults>>

-----------------------------------------------------------------------------

\* What the server does for a caller by itself.
Serve(c) ==
  \/ SelectNothing(c) \/ Conflict(c) \/ Replay(c)
  \/ InsertKey(c) \/ RejectDuplicate(c) \/ RunOperation(c) \/ Commit(c)

Next ==
  \E c \in Callers :
    \/ \E k \in Keys, q \in Requests : Call(c, k, q)
    \/ Serve(c)
    \/ Rollback(c)

Spec == Init /\ [][Next]_vars

\* A statement that can run is run.
FairSpec == Spec /\ \A c \in Callers : WF_vars(Serve(c))

-----------------------------------------------------------------------------
(* What the gate promises. *)

TypeOK ==
  /\ row \in [Keys -> Row \cup {Nil}]
  /\ inserting \in [Keys -> Callers \cup {Nil}]
  /\ tx \in [Callers -> Transaction]
  /\ \A k \in Keys : inserting[k] # Nil =>
       tx[inserting[k]].key = k /\ tx[inserting[k]].at \in {"RUN", "COMMIT"}
  /\ effects \subseteq Effect /\ told \subseteq Effect
  /\ given \subseteq Responses /\ faults \in Nat

\* However many callers present a key, at once or again after a lost answer,
\* one command at most takes effect under it.
OnePerKey == \A x, y \in effects : x.key = y.key => x = y

\* A key is answered for good exactly when its command has taken effect: no
\* effect is left without a stored answer and no answer stored without effect.
AnswerIsStoredWithEffect ==
  \A k \in Keys : row[k] # Nil <=> \E x \in effects : x.key = k

Once == INSTANCE OnceOnly WITH executed <- effects

\* The gate implements OnceOnly: a replay tells what the one execution told,
\* and only to a caller who sent the very request that was executed.
RepeatsAreReplays == Once!OSpec

\* Whoever waits for another caller's key gets on, and every call ends.
CallsEnd == \A c \in Callers : tx[c].at # "IDLE" ~> tx[c].at = "IDLE"

=============================================================================
