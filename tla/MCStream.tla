------------------------------ MODULE MCStream ------------------------------
(* Small instance of Stream for TLC. *)
EXTENDS Stream

CONSTANTS r1, r2

TwoRequests == {r1, r2}
\* One of any kind beside a stream.
MCWays == [r \in TwoRequests |-> IF r = r1 THEN {"execute", "collect", "stream"} ELSE {"stream"}]
=============================================================================
