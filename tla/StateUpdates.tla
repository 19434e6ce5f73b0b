---------------------------- MODULE StateUpdates ----------------------------
(***************************************************************************)
(* What the channel promises to the world logic for a state update: it is  *)
(* sent only while it waits, an acknowledgement takes it out of the queue  *)
(* only if the client has it, and its callBack, if it has one, is run then *)
(* and at no other time.  It does not promise that an update arrives.      *)
(***************************************************************************)
EXTENDS Integers

CONSTANT Ids  \* what an update can be called

VARIABLES
  queued,    \* how many updates were queued: 0 .. queued - 1
  waiting,   \* those that are still to be sent, or to be sent again
  sent,      \* those that went out
  received,  \* those the client has
  called     \* how often the callBack of each was run

vars == <<queued, waiting, sent, received, called>>

Entry(id, callBack) == [id |-> id, callBack |-> callBack]

Init ==
  /\ queued = 0 /\ waiting = {} /\ sent = {} /\ received = {}
  /\ called = [id \in Ids |-> 0]

Queue ==
  /\ \E callBack \in BOOLEAN : waiting' = waiting \cup {Entry(queued, callBack)}
  /\ queued' = queued + 1
  /\ UNCHANGED <<sent, received, called>>

(* Some of what waits goes out, and some of it is not kept: it is no       *)
(* longer valid, or has been sent as often as it is to be.                 *)
Send(entries) ==
  /\ \E going \in SUBSET entries : sent' = sent \cup {e.id : e \in going}
  /\ waiting' \subseteq entries

Flush == Send(waiting) /\ UNCHANGED <<queued, received, called>>

(* The updates acknowledged are done with; their callBacks may queue more. *)
Acknowledge ==
  \E acked \in SUBSET waiting :
    LET calling == {e \in acked : e.callBack}
        more == {Entry(id, FALSE) : id \in queued .. queued' - 1}
    IN  /\ {e.id : e \in acked} \subseteq received
        /\ queued' = queued \/ (queued' > queued /\ calling # {})
        /\ called' = [id \in Ids |->
             called[id] + (IF \E e \in calling : e.id = id THEN 1 ELSE 0)]
        /\ Send((waiting \ acked) \cup more)
        /\ UNCHANGED received

Deliver ==
  /\ \E ids \in SUBSET sent : received' = received \cup ids
  /\ UNCHANGED <<queued, waiting, sent, called>>

Next == Queue \/ Flush \/ Acknowledge \/ Deliver

Spec == Init /\ [][Next]_vars
=============================================================================
