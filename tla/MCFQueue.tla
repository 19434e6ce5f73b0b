------------------------------ MODULE MCFQueue ------------------------------
(* A small instance of the executor's queue for TLC.                       *)
EXTENDS FQueue
CONSTANTS game, h1, h2
=============================================================================
