------------------------------ MODULE MCRoomStore ------------------------------
(* RoomStore on small instances. *)
EXTENDS RoomStore, TLC

Symmetry == Permutations(Rooms) \cup Permutations(Guests)

\* Two slices of one instance: the turns of a room that has no guest and keeps its first
\* invite while it is open; and the guests of two rooms that have had no turn. A step out
\* of both is checked and not followed.
TurnsOrGuests ==
  \/ /\ now = 0
     /\ \A g \in Guests : guest[g].state = "absent"
     /\ \A r \in Rooms : invite[r].secret <= 1 /\ (invite[r].revoked => status[r] = "closed")
     /\ \E r \in Rooms : \A s \in Rooms \ {r} : status[s] = "absent"
  \/ \A n \in RunIds : run[n].status = "absent"
================================================================================
