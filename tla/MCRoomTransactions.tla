-------------------------- MODULE MCRoomTransactions -------------------------
EXTENDS RoomCommands, TLC

CONSTANTS s1, s2, r1, r2, g, a1, a2

MCSymmetry == Permutations({s1, s2}) \cup Permutations({r1, r2}) \cup Permutations({a1, a2})
=============================================================================
