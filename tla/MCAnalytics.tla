----------------------------- MODULE MCAnalytics -----------------------------
(* One place, for the owner of an account or for a guest who may be claimed.  *)
EXTENDS Analytics, TLC

CONSTANTS p1, host, owner, claimer, w1, w2

MCSeatings == [{p1} -> {owner, Nil}]

\* One pass is like the other.
MCSymmetry == Permutations({w1, w2})

=============================================================================
