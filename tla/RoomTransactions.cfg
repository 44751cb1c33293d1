CONSTANTS
  s1 = s1  s2 = s2  r1 = r1  r2 = r2  g = g  a1 = a1  a2 = a2
  Sessions = {s1, s2}
  Rooms = {r1, r2}
  Users = {1, 2}
  Owner = 1
  Party = Party
  Singles = {2}
  Guests = {g}
  Apps = {a1, a2}
  Slots = 2
  MaxCancelled = 1
  Nil = Nil
SPECIFICATION Spec
INVARIANTS FrozenComposition SeatsFollowAnswers AcceptedSchedulesAreDisjoint DeadlocksAreInversions
PROPERTIES CommandsTakeEffectAtOnce
SYMMETRY MCSymmetry
CHECK_DEADLOCK FALSE
