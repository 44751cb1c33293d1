---------------------------- MODULE MCReliability ----------------------------
EXTENDS Reliability

CONSTANTS ann, bob, guest, r1, r2, duo, again, solo

\* Both rooms are bob's.  ann comes to the first with a guest or on her own, and
\* to the second, later one on her own.
MCHost      == [r \in Rooms |-> bob]
MCVenue     == [a \in Apps |-> IF a = solo THEN r2 ELSE r1]
MCRequester == [a \in Apps |-> ann]
MCMembers   == [a \in Apps |-> IF a = duo THEN {ann} \cup Guests ELSE {ann}]
MCStart     == [r \in Rooms |-> IF r = r1 THEN 1 ELSE 2]

=============================================================================
