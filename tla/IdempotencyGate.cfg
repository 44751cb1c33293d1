SPECIFICATION FairSpec
CONSTANTS
  Callers = {c1, c2, c3}
  Keys = {k1}
  Requests = {q1, q2}
  Responses = {v1, v2, v3}
  MaxFaults = 2
  Nil = Nil
INVARIANTS
  AnswerIsStoredWithEffect
PROPERTIES
  RepeatsAreReplays
  CallsEnd
