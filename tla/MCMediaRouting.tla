--------------------------- MODULE MCMediaRouting ---------------------------
(***************************************************************************)
(* Instances of MediaRouting for TLC.                                      *)
(***************************************************************************)
EXTENDS MediaRouting, TLC

CONSTANTS a, b, r, s

\* Logins bring two rooms with both users.
TwoRooms == {<<r, {a, b}>>, <<s, {a, b}>>}

\* Logins bring r, with a alone or with both users.
OneRoom == {<<r, {a}>>, <<r, {a, b}>>}

\* Nothing tells the two rooms of TwoRooms from one another.
RoomSymmetry == Permutations(Rooms)

=============================================================================
