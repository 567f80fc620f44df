---------------------------- MODULE MCCredential ----------------------------
(* Small instances of Credential for TLC. *)
EXTENDS Credential

CONSTANTS p1, p2

OneProc == {p1}
TwoProcs == {p1, p2}
OneRefresher == {p1}

\* A credential written by an earlier login: valid, due, or of unknown expiry.
Doc(exp, id) == [at |-> 1, rt |-> 1, exp |-> exp, id |-> id]
KnownAccount == {Doc(3, TRUE), Doc(1, TRUE), Doc(0, TRUE)}
DueAccount == {Doc(1, TRUE)}
FreshAccount == {Doc(4, TRUE)}
NamelessAccount == {Doc(1, FALSE)}

AllOperations == {"execute", "refresh", "models"}
ExecuteOnly == {"execute"}
UserAndHost == {"execute", "refresh"}
=============================================================================
