------------------------------- MODULE MCAuth -------------------------------
(* A small instance of the auth server for TLC.                            *)
EXTENDS Auth
CONSTANTS patient, eager, u1, u2, p1, p2

(* A user without keys, and another who has keys and the same password, or *)
(* is not there yet.                                                       *)
Tables == {[u \in Users |-> IF u = u1 THEN Row(p1, 0) ELSE r] : r \in {NoRow, Row(p1, 1)}}
=============================================================================
