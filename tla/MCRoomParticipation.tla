------------------------ MODULE MCRoomParticipation ------------------------
(* Two rooms of one host, who may also play, a player, and the party that  *)
(* player owns, which brings a guest.  The two windows do not overlap, so  *)
(* moving a room is what makes two rooms collide; one shape is invalid.    *)
EXTENDS Reconciliation, Search, TLC

CONSTANTS ann, bob, guest

MCHost == [r \in Rooms |-> bob]
MCPartyOwner == [p \in Parties |-> ann]
MCRosters == {{ann, guest}}
MCShapes == {[capacity |-> 2, hostPlays |-> FALSE, reserved |-> 0],
             [capacity |-> 3, hostPlays |-> TRUE, reserved |-> 1],
             [capacity |-> 2, hostPlays |-> TRUE, reserved |-> -1]}
MCWindows == {[start |-> 0, end |-> 2]}
MCMovedWindows == {[start |-> 2, end |-> 4]}
MCSymmetry == Permutations(Rooms) \cup Permutations(Apps)

=============================================================================
