---------------------------- MODULE AsyncWrites ----------------------------
(***************************************************************************)
(* What Database::Execute promises its callers: a statement it accepts is  *)
(* written behind every statement accepted before it, and a statement it   *)
(* executes on the spot never overtakes an accepted one that will still be *)
(* written.  The writer goes only when it is done with all it was given;   *)
(* what is accepted after that is never written.                           *)
(***************************************************************************)
EXTENDS Sequences, Naturals

CONSTANT Statements  \* records with a field kind, "execute" or "direct"

VARIABLES
  pending,  \* accepted and not yet done with, oldest first
  log,      \* every execution the database server has made, in its order
  open      \* FALSE once the writer has gone

vars == <<pending, log, open>>

Init == pending = <<>> /\ log = <<>> /\ open = TRUE

Accept ==
  /\ \E s \in Statements : s.kind = "execute" /\ pending' = Append(pending, s)
  /\ UNCHANGED <<log, open>>

(* The oldest one is written; after a lost connection it may be again.     *)
Write ==
  /\ open /\ pending # <<>>
  /\ log' = Append(log, Head(pending))
  /\ UNCHANGED <<pending, open>>

Finish ==
  /\ open /\ pending # <<>>
  /\ pending' = Tail(pending)
  /\ UNCHANGED <<log, open>>

Direct ==
  /\ \E s \in Statements : /\ s.kind = "direct" \/ ~open
                           /\ log' = Append(log, s)
  /\ UNCHANGED <<pending, open>>

Close == open /\ pending = <<>> /\ open' = FALSE /\ UNCHANGED <<pending, log>>

Next == Accept \/ Write \/ Finish \/ Direct \/ Close

Spec == Init /\ [][Next]_vars
=============================================================================
