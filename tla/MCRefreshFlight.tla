-------------------------- MODULE MCRefreshFlight --------------------------
(* Small instance of RefreshFlight for TLC. *)
EXTENDS RefreshFlight

CONSTANTS p1, p2, p3, k1, k2, renewed, refused

MCProcs == {p1, p2, p3}
MCKeys == {k1, k2}
MCOutcomes == {renewed, refused}

=============================================================================
