----------------------------- MODULE MCDatabase -----------------------------
(* Small instances of the database layer for TLC.                          *)
EXTENDS Database, TLC

CONSTANTS game, margin

ServerThreads == {game, margin}
ThreadSymmetry == Permutations(ServerThreads)
=============================================================================
