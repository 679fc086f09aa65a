----------------------------- MODULE MCSession -----------------------------
(***************************************************************************)
(* Instances of SessionLifecycle for TLC.                                  *)
(***************************************************************************)
EXTENDS SessionInvariant, TLC

CONSTANTS c1, c2, c3, u1, u2, u3

\* Two users, one user that logs in twice, three users.
OwnerTwo     == c1 :> u1 @@ c2 :> u2
OwnerRelogin == c1 :> u1 @@ c2 :> u1
OwnerThree   == c1 :> u1 @@ c2 :> u2 @@ c3 :> u3

\* A bound for departed_tracks: c1 comes when c2 is connected.  A counterexample
\* inside the bound is one of the unbounded system, too.
OneAfterTheOther == at.auth[c1] # "idle" => pc[c2] = "connected"

=============================================================================
