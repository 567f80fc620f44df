----------------------------- MODULE MCAuthFile -----------------------------
(* Small instances of AuthFile for TLC. *)
EXTENDS AuthFile

CONSTANTS p1, p2

OneProc == {p1}
TwoProcs == {p1, p2}
=============================================================================
