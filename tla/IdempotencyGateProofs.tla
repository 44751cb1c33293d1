----------------------- MODULE IdempotencyGateProofs -----------------------
(* Theorems about the idempotency gate, for any number of concurrent        *)
(* requests, keys, commands and faults.                                     *)
EXTENDS IdempotencyGate, TLAPS

\* A transaction that has started knows its command, and one that has run its
\* operation knows the response.
Begun ==
  \A c \in Callers :
    /\ tx[c].at # "IDLE" => tx[c].key \in Keys /\ tx[c].request \in Requests
    /\ tx[c].at = "COMMIT" => tx[c].response \in Responses

\* A transaction past its insertion holds its key alone, and a key that is held
\* has no committed row.
Exclusive ==
  /\ \A c \in Callers : tx[c].at \in {"RUN", "COMMIT"} => inserting[tx[c].key] = c
  /\ \A k \in Keys : inserting[k] # Nil => row[k] = Nil

\* Stored rows and committed effects say the same, and clients were told no more.
Agreement ==
  /\ \A x \in effects :
       row[x.key] = [request |-> x.request, response |-> x.response]
  /\ \A k \in Keys : row[k] # Nil =>
       [key |-> k, request |-> row[k].request, response |-> row[k].response] \in effects
  /\ told \subseteq effects

\* The inductive invariant.
IInv == TypeOK /\ Begun /\ Exclusive /\ Agreement

\* The key of a committed effect has a row.
LEMMA EffectHasRow ==
  ASSUME TypeOK, Agreement, NEW x \in effects
  PROVE  row[x.key] # Nil
<1>1. x \in Effect
  BY DEF TypeOK
<1>2. [request |-> x.request, response |-> x.response] \in Row
  BY <1>1 DEF Effect, Row
<1>3. row[x.key] = [request |-> x.request, response |-> x.response]
  BY DEF Agreement
<1>4. QED
  BY <1>2, <1>3, GateAssumption

-----------------------------------------------------------------------------

\* The gate starts without keys.
LEMMA InitIInv == Init => IInv
  BY GateAssumption
  DEF Init, IInv, TypeOK, Transaction, Begun, Exclusive, Agreement, Idle

\* The invariant survives every step of every caller.
LEMMA IInvStep == IInv /\ [Next]_vars => IInv'
<1> SUFFICES ASSUME IInv, [Next]_vars PROVE IInv'
  OBVIOUS
<1> USE GateAssumption
<1>1. ASSUME NEW c \in Callers, NEW k \in Keys, NEW q \in Requests, Call(c, k, q) PROVE IInv'
  <2>1. TypeOK'
    BY <1>1 DEF Call, IInv, TypeOK, Transaction
  <2>2. Begun'
    BY <1>1 DEF Call, IInv, TypeOK, Begun
  <2>3. Exclusive'
    BY <1>1 DEF Call, IInv, TypeOK, Exclusive
  <2>4. Agreement'
    BY <1>1 DEF Call, IInv, Agreement
  <2>5. QED
    BY <2>1, <2>2, <2>3, <2>4 DEF IInv
<1>2. ASSUME NEW c \in Callers, SelectNothing(c) PROVE IInv'
  <2>1. TypeOK'
    BY <1>2 DEF SelectNothing, Move, IInv, TypeOK, Transaction
  <2>2. Begun'
    BY <1>2 DEF SelectNothing, Move, IInv, TypeOK, Begun
  <2>3. Exclusive'
    BY <1>2 DEF SelectNothing, Move, IInv, TypeOK, Exclusive
  <2>4. Agreement'
    BY <1>2 DEF SelectNothing, IInv, Agreement
  <2>5. QED
    BY <2>1, <2>2, <2>3, <2>4 DEF IInv
<1>3. ASSUME NEW c \in Callers, Conflict(c) \/ RejectDuplicate(c) PROVE IInv'
  <2>0. /\ tx[c].at \in {"SELECT", "INSERT"} /\ tx' = [tx EXCEPT ![c] = Idle]
        /\ UNCHANGED <<row, inserting, effects, told, given, faults>>
    BY <1>3 DEF Conflict, RejectDuplicate
  <2>1. TypeOK'
    BY <2>0 DEF Idle, IInv, TypeOK, Transaction
  <2>2. Begun'
    BY <2>0 DEF Idle, IInv, TypeOK, Begun
  <2>3. Exclusive'
    BY <2>0 DEF Idle, IInv, TypeOK, Exclusive
  <2>4. Agreement'
    BY <2>0 DEF IInv, Agreement
  <2>5. QED
    BY <2>1, <2>2, <2>3, <2>4 DEF IInv
<1>4. ASSUME NEW c \in Callers, Replay(c) PROVE IInv'
  <2>1. Answer(c, row[Key(c)].response) \in effects
    BY <1>4 DEF Replay, Answer, SameCommand, Key, IInv, Begun, Agreement
  <2>2. /\ tx[c].at = "SELECT" /\ tx' = [tx EXCEPT ![c] = Idle]
        /\ told' \subseteq effects
        /\ UNCHANGED <<row, inserting, effects, given, faults>>
    BY <1>4, <2>1 DEF Replay, Reply, IInv, Agreement
  <2>3. TypeOK'
    BY <2>2 DEF Idle, IInv, TypeOK, Transaction
  <2>4. Begun'
    BY <2>2 DEF Idle, IInv, TypeOK, Begun
  <2>5. Exclusive'
    BY <2>2 DEF Idle, IInv, TypeOK, Exclusive
  <2>6. Agreement'
    BY <2>2 DEF IInv, Agreement
  <2>7. QED
    BY <2>3, <2>4, <2>5, <2>6 DEF IInv
<1>5. ASSUME NEW c \in Callers, InsertKey(c) PROVE IInv'
  <2>1. TypeOK'
    BY <1>5 DEF InsertKey, Move, Key, IInv, TypeOK, Transaction, Begun
  <2>2. Begun'
    BY <1>5 DEF InsertKey, Move, IInv, TypeOK, Begun
  <2>3. Exclusive'
    BY <1>5 DEF InsertKey, KeyIsFree, Move, Key, IInv, TypeOK, Begun, Exclusive
  <2>4. Agreement'
    BY <1>5 DEF InsertKey, IInv, Agreement
  <2>5. QED
    BY <2>1, <2>2, <2>3, <2>4 DEF IInv
<1>6. ASSUME NEW c \in Callers, RunOperation(c) PROVE IInv'
  <2>1. TypeOK'
    <3>1. PICK v \in Responses :
            /\ given' = given \cup {v}
            /\ tx' = [tx EXCEPT ![c] = [tx[c] EXCEPT !.at = "COMMIT", !.response = v]]
      BY <1>6 DEF RunOperation
    <3>2. tx[c].at = "RUN" /\ UNCHANGED <<row, inserting, effects, told, faults>>
      BY <1>6 DEF RunOperation
    <3>3. tx \in [Callers -> Transaction]
      BY DEF IInv, TypeOK
    <3>4. [tx[c] EXCEPT !.at = "COMMIT", !.response = v] \in Transaction
      BY <3>3 DEF Transaction
    <3>5. tx' \in [Callers -> Transaction]
      BY <3>1, <3>3, <3>4
    <3>6. /\ tx'[c].at = "COMMIT" /\ tx'[c].key = tx[c].key
          /\ \A d \in Callers : d # c => tx'[d] = tx[d]
      BY <3>1, <3>3 DEF Transaction
    <3>7. QED
      BY <3>1, <3>2, <3>5, <3>6 DEF IInv, TypeOK
  <2>2. Begun'
    BY <1>6 DEF RunOperation, IInv, TypeOK, Begun
  <2>3. Exclusive'
    BY <1>6 DEF RunOperation, IInv, TypeOK, Exclusive
  <2>4. Agreement'
    BY <1>6 DEF RunOperation, IInv, Agreement
  <2>5. QED
    BY <2>1, <2>2, <2>3, <2>4 DEF IInv
<1>7. ASSUME NEW c \in Callers, Rollback(c) PROVE IInv'
  <2>1. TypeOK'
    BY <1>7 DEF Rollback, ReleaseKey, EffectsAfterRollback, Idle, IInv, TypeOK, Transaction
  <2>2. Begun'
    BY <1>7 DEF Rollback, Idle, IInv, TypeOK, Begun
  <2>3. Exclusive'
    BY <1>7 DEF Rollback, ReleaseKey, Idle, IInv, TypeOK, Begun, Exclusive
  <2>4. Agreement'
    BY <1>7 DEF Rollback, EffectsAfterRollback, IInv, Agreement
  <2>5. QED
    BY <2>1, <2>2, <2>3, <2>4 DEF IInv
<1>8. ASSUME NEW c \in Callers, Commit(c) PROVE IInv'
  <2> DEFINE k == tx[c].key
             a == [key |-> k, request |-> tx[c].request, response |-> tx[c].response]
  <2>1. /\ k \in Keys /\ tx[c].request \in Requests /\ tx[c].response \in Responses
        /\ inserting[k] = c /\ row[k] = Nil
    BY <1>8 DEF Commit, IInv, TypeOK, Begun, Exclusive
  <2>2. /\ row' = [row EXCEPT ![k] = [request |-> tx[c].request,
                                      response |-> tx[c].response]]
        /\ effects' = effects \cup {a}
        /\ told' \subseteq told \cup {a}
        /\ inserting' = [j \in Keys |-> IF inserting[j] = c THEN Nil ELSE inserting[j]]
        /\ tx' = [tx EXCEPT ![c] = Idle]
        /\ UNCHANGED <<given, faults>>
    BY <1>8 DEF Commit, Key, Answer, Reply, ReleaseKey
  <2>3. TypeOK'
    BY <2>1, <2>2 DEF Idle, IInv, TypeOK, Row, Effect, Transaction
  <2>4. Begun'
    BY <2>2 DEF Idle, IInv, TypeOK, Begun
  <2>5. Exclusive'
    BY <2>1, <2>2 DEF Idle, IInv, TypeOK, Begun, Exclusive
  <2>6. \A x \in effects : x.key # k
    BY <2>1, EffectHasRow DEF IInv
  <2>7. Agreement'
    BY <2>1, <2>2, <2>6 DEF IInv, TypeOK, Agreement
  <2>8. QED
    BY <2>3, <2>4, <2>5, <2>7 DEF IInv
<1>9. CASE UNCHANGED vars
  BY <1>9 DEF vars, IInv, TypeOK, Begun, Exclusive, Agreement
<1>10. QED
  BY <1>1, <1>2, <1>3, <1>4, <1>5, <1>6, <1>7, <1>8, <1>9 DEF Next, Serve

\* Every reachable state of the gate satisfies the invariant.
THEOREM Invariant == Spec => []IInv
  BY InitIInv, IInvStep, PTL DEF Spec

\* Rows, transactions and answers are well typed, and only the transaction that
\* runs under a key holds it.
THEOREM TypeCorrect == Spec => []TypeOK
<1>1. IInv => TypeOK
  BY DEF IInv
<1>2. QED
  BY <1>1, Invariant, PTL

\* At most one command takes effect under a key.
THEOREM OneEffectPerKey == Spec => []OnePerKey
<1>1. ASSUME IInv PROVE OnePerKey
  <2> SUFFICES ASSUME NEW x \in effects, NEW y \in effects, x.key = y.key PROVE x = y
    BY DEF OnePerKey
  <2>1. [request |-> x.request, response |-> x.response] =
        [request |-> y.request, response |-> y.response]
    BY <1>1 DEF IInv, Agreement
  <2>2. QED
    <3>1. x.request = y.request /\ x.response = y.response
      BY <2>1
    <3>2. QED
      BY <1>1, <3>1 DEF IInv, TypeOK, Effect
<1>2. QED
  BY <1>1, Invariant, PTL

\* Effects and stored answers come together or not at all.
THEOREM EffectAndAnswer == Spec => []AnswerIsStoredWithEffect
<1>1. ASSUME IInv PROVE AnswerIsStoredWithEffect
  <2>1. ASSUME NEW k \in Keys, row[k] # Nil PROVE \E x \in effects : x.key = k
    BY <1>1, <2>1 DEF IInv, Agreement
  <2>2. ASSUME NEW k \in Keys, NEW x \in effects, x.key = k PROVE row[k] # Nil
    BY <1>1, <2>2, EffectHasRow DEF IInv
  <2>3. QED
    BY <2>1, <2>2 DEF AnswerIsStoredWithEffect
<1>2. QED
  BY <1>1, Invariant, PTL

-----------------------------------------------------------------------------

\* Every step of the gate is a step of OnceOnly or leaves effects and answers
\* alone.
LEMMA OnceStep ==
  ASSUME IInv, [Next]_vars
  PROVE  [Once!ONext]_Once!ovars
<1> USE GateAssumption
<1>1. ASSUME NEW c \in Callers, Replay(c) PROVE [Once!ONext]_Once!ovars
  <2>1. Answer(c, row[Key(c)].response) \in effects
    BY <1>1 DEF Replay, Answer, SameCommand, Key, IInv, Begun, Agreement
  <2>2. UNCHANGED effects /\ Reply(Answer(c, row[Key(c)].response))
    BY <1>1 DEF Replay
  <2>3. QED
    BY <2>1, <2>2 DEF Reply, Once!ONext, Once!Tell, Once!ovars
<1>2. ASSUME NEW c \in Callers, Commit(c) PROVE Once!ONext
  <2> DEFINE k == tx[c].key
  <2>1. /\ k \in Keys /\ tx[c].request \in Requests /\ tx[c].response \in Responses
        /\ row[k] = Nil
    BY <1>2 DEF Commit, IInv, TypeOK, Begun, Exclusive
  <2>2. \A x \in effects : x.key # k
    BY <2>1, EffectHasRow DEF IInv
  <2>3. Once!Execute(k, tx[c].request, tx[c].response)
    BY <1>2, <2>2 DEF Commit, Key, Answer, Reply, Once!Execute
  <2>4. QED
    BY <2>1, <2>3 DEF Once!ONext
<1>3. ASSUME NEW c \in Callers, Rollback(c) PROVE UNCHANGED Once!ovars
  BY <1>3 DEF Rollback, EffectsAfterRollback, Once!ovars
<1>4. ASSUME NEW c \in Callers,
             \/ \E k \in Keys, q \in Requests : Call(c, k, q)
             \/ SelectNothing(c) \/ Conflict(c)
             \/ InsertKey(c) \/ RejectDuplicate(c) \/ RunOperation(c)
      PROVE  UNCHANGED Once!ovars
  BY <1>4 DEF Call, SelectNothing, Conflict, InsertKey, RejectDuplicate, RunOperation, Once!ovars
<1>5. CASE UNCHANGED vars
  BY <1>5 DEF vars, Once!ovars
<1>6. QED
  BY <1>1, <1>2, <1>3, <1>4, <1>5 DEF Next, Serve

\* The gate implements the once-only execution clients rely on.
THEOREM GateImplementsOnceOnly == Spec => RepeatsAreReplays
<1>1. Init => Once!OInit
  BY DEF Init, Once!OInit
<1>2. Spec => Once!OInit /\ [][Once!ONext]_Once!ovars
  BY <1>1, Invariant, OnceStep, PTL DEF Spec
<1>3. QED
  BY <1>2 DEF RepeatsAreReplays, Once!OSpec

=============================================================================
