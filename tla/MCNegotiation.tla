--------------------------- MODULE MCNegotiation ---------------------------
(***************************************************************************)
(* Instances of Negotiation for TLC.                                       *)
(***************************************************************************)
EXTENDS Negotiation

CONSTANTS x, y, j1, j2

=============================================================================
