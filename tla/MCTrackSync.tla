---------------------------- MODULE MCTrackSync ----------------------------
(***************************************************************************)
(* The instance of TrackSync for TLC: two users, one login each.           *)
(***************************************************************************)
EXTENDS TrackSync, TLC

CONSTANTS c1, c2, u1, u2

OwnerTwo == c1 :> u1 @@ c2 :> u2

=============================================================================
