-------------------------- MODULE ReliableCommands --------------------------
(***************************************************************************)
(* What the guaranteed half of the channel promises to the world logic: a  *)
(* command that was issued reaches the client, perhaps out of order, and   *)
(* the server forgets it only after that.                                  *)
(***************************************************************************)
EXTENDS Naturals

VARIABLES
  issued,     \* how many commands were issued: 0 .. issued - 1
  delivered,  \* the commands the client has
  released    \* the commands the server has forgotten

Init == issued = 0 /\ delivered = {} /\ released = {}

Issue == issued' = issued + 1 /\ UNCHANGED <<delivered, released>>

Deliver ==
  /\ \E cmds \in SUBSET (0 .. issued - 1) : delivered' = delivered \cup cmds
  /\ UNCHANGED <<issued, released>>

Release ==
  /\ \E cmds \in SUBSET delivered : released' = released \cup cmds
  /\ UNCHANGED <<issued, delivered>>

Next == Issue \/ Deliver \/ Release

vars == <<issued, delivered, released>>

Spec == Init /\ [][Next]_vars
=============================================================================
