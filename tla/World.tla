-------------------------------- MODULE World --------------------------------
(***************************************************************************)
(* What the clients of the game server are told about each other           *)
(* (PlayerObject.cpp, ObjectMgr.cpp, MessageTypes.cpp and the queue of     *)
(* state updates in GameClient.cpp).                                       *)
(*                                                                         *)
(* A player's object is built with the first packet of its client and      *)
(* destroyed with the client; in between it spawns.  A spawn is announced  *)
(* to every client, and a client that has acknowledged its own spawn is    *)
(* populated: it is told of every object there is.  Each state update      *)
(* waits in m_queuedStates, is sent, sent again, and leaves the queue when *)
(* it is acknowledged, no longer valid, or given up.  It is turned into    *)
(* bytes each time it is sent, and may then be about an object that is no  *)
(* longer there.                                                           *)
(*                                                                         *)
(* All this runs on the game thread: a packet is handled whole, and ends   *)
(* in FlushQueue for its sender only.  RCC has the packets themselves; how *)
(* often an update was sent is left to it.  A packet with several commands *)
(* is here as many packets.                                                *)
(***************************************************************************)
CONSTANTS
  Players,  \* the player objects there will ever be: ids are not reused
  Updaters  \* bound: those who use the command "update", once each

ASSUME WorldAssumption == Updaters \subseteq Players

VARIABLES
  status,          \* "absent", then "connected", then "spawned" once
                   \* m_spawnedInWorld; "left" or, if it never was, "dropped"
  worldPopulated,  \* m_worldPopulated
  sendAfterSpawn,  \* m_sendAfterSpawn: who its spawn messages are about
  queuedStates,    \* m_queuedStates of each client
  shown,           \* the updates each client was sent, as far as it goes
  got,             \* those of its queue that it has received
  receiver,        \* m_toWho of the message each SpawnSelf shares out
  updated,         \* who has used "update"
  fault            \* how FlushQueue ended the game thread, or "none"

vars == <<status, worldPopulated, sendAfterSpawn, queuedStates, shown, got,
          receiver, updated, fault>>

(* PlayerSpawnMsg ("self", "announced": the one of SpawnSelf; "populated": *)
(* one of getCurrentStatePackets), PlayerAppearanceMsg, DeletePlayerMsg.   *)
Shared == {"self", "announced"}
Spawns == Shared \cup {"populated"}
Updates == [kind : Spawns \cup {"appearance", "delete"}, about : Players]
Update(kind, p) == [kind |-> kind, about |-> p]

(* The objects of ObjectMgr; each has its client, and no client is without *)
(* one for longer than a packet unless it is to be removed (Session).      *)
InWorld == {p \in Players : status[p] \in {"connected", "spawned"}}

Init ==
  /\ status = [p \in Players |-> "absent"]
  /\ worldPopulated = [p \in Players |-> FALSE]
  /\ sendAfterSpawn = [p \in Players |-> {}]
  /\ queuedStates = [p \in Players |-> {}]
  /\ shown = [p \in Players |-> {}] /\ got = [p \in Players |-> {}]
  /\ receiver = [p \in Players |-> p]
  /\ updated = {} /\ fault = "none"

-----------------------------------------------------------------------------
(* FlushQueue, the part for the state updates.                             *)

(* PlayerSpawnMsg::toBuf throws PacketNoLongerValid: erase and carry on.   *)
Stale(due) == {u \in due : u.kind \in Spawns /\ u.about \notin InWorld}

(* PlayerAppearanceMsg::toBuf asks for the view id first: getViewForGO     *)
(* throws ObjectNotAvailable, which neither of them catches.               *)
Stray(due) == {u \in due : u.kind = "appearance" /\ u.about \notin InWorld}

(* PlayerSpawnMsg::toBuf asks m_toWho for its address.  The message of     *)
(* SpawnSelf is shared by all queues and m_toWho is the client that was    *)
(* given it last, which may be deleted by now.                             *)
Dangling(due) ==
  {u \in due : /\ u.kind \in Shared /\ u.about \in InWorld
               /\ receiver'[u.about] \notin InWorld}

(* An uncaught exception ends the thread; the use of a deleted client may  *)
(* or may not.  What else the flush did is then no longer seen.            *)
Faults(due) ==
  \/ Stray(due) # {} /\ fault' = "exception"
  \/ Dangling(due) # {} /\ fault' = "dangling"
  \/ Stray(due) = {} /\ fault' = "none"

(* Client p, whose queue is queue[p], is sent what is due; rejected: sent  *)
(* too often already.                                                      *)
Flush(p, queue, due, rejected) ==
  LET dropped == Stale(due) \cup rejected
  IN  /\ queuedStates' = [queue EXCEPT ![p] = @ \ dropped]
      /\ shown' = [shown EXCEPT ![p] = @ \cup (due \ dropped)]
      /\ got' = [got EXCEPT ![p] = @ \cap (queue[p] \ dropped)]
      /\ Faults(due)

(* On the timer: those never sent and any of the others.                   *)
DueOnTimer(p) ==
  {(queuedStates[p] \ shown[p]) \cup old : old \in SUBSET (queuedStates[p] \cap shown[p])}

(* Mutant of Resend: an update that was never sent waits for its timer.    *)
ResendOld(p, due) ==
  /\ p \in InWorld
  /\ UNCHANGED <<status, worldPopulated, sendAfterSpawn, receiver, updated>>
  /\ \E rejected \in SUBSET (due \cap shown[p]) :
       Flush(p, queuedStates, due \cap shown[p], rejected)

Resend(p, due) ==
  /\ p \in InWorld
  /\ UNCHANGED <<status, worldPopulated, sendAfterSpawn, receiver, updated>>
  /\ \E rejected \in SUBSET (due \cap shown[p]) : Flush(p, queuedStates, due, rejected)

CheckAndResend(p) == \E due \in DueOnTimer(p) : Resend(p, due)

-----------------------------------------------------------------------------
(* HandlePacket: AcknowledgePacket, Update, one command, FlushQueue.       *)

(* Whose PopulateWorld is called: that of p as the callBack of its own     *)
(* spawn, and that of every object by the administrator's "bringAll".      *)
Called(p, acks, command) ==
  {x \in InWorld : (x = p /\ Update("self", p) \in acks) \/ command = "bringAll"}

Populating(p, acks, command) == {x \in Called(p, acks, command) : ~worldPopulated[x]}

(* Mutant of Deferred: PopulateWorld does not ask whether we have spawned. *)
DeferredNever(x) == FALSE

(* PopulateWorld puts the messages into m_sendAfterSpawn.                  *)
Deferred(x) == status[x] = "connected"

(* Update empties m_sendAfterSpawn into the queue.                         *)
Ready(p) == status[p] = "spawned"

Spawning(p, command) == command = "spawn" /\ status[p] = "connected"

(* Mutants of Recipients: clients stay in the list when they are deleted;  *)
(* a client that has not spawned is not told.                              *)
RecipientsGone(p) == {q \in Players : status[q] # "absent"} \ {p}
RecipientsSpawned(p) == {q \in Players : status[q] = "spawned"} \ {p}

(* AnnounceStateUpdate from p: everybody else.                             *)
Recipients(p) == InWorld \ {p}

(* What SpawnSelf and UpdateAppearance put into the queue of x.            *)
Announced(p, command, x) ==
  {u \in Updates :
     /\ u.about = p
     /\ \/ Spawning(p, command) /\ u.kind = "self" /\ x = p
        \/ Spawning(p, command) /\ u.kind = "announced" /\ x \in Recipients(p)
        \/ command = "update" /\ u.kind = "appearance" /\ x \in InWorld}

(* What PopulateWorld and Update put there; who is populated is told of    *)
(* every other object, spawned or not (getCurrentStatePackets).            *)
Told(p, populating, x) ==
  {Update("populated", q) :
     q \in {r \in InWorld : x \in populating /\ ~Deferred(x) /\ r # x}
           \cup {r \in sendAfterSpawn[x] : x = p /\ Ready(p)}}

QueueWith(p, acks, command, populating) ==
  [x \in Players |-> (queuedStates[x] \ (IF x = p THEN acks ELSE {}))
                     \cup Told(p, populating, x) \cup Announced(p, command, x)]

(* QueueState enters each receiver in turn: our own client, then the       *)
(* others in the order of m_clients.                                       *)
SetReceiver(p, command) ==
  IF Spawning(p, command)
    THEN \E last \in (IF Recipients(p) = {} THEN {p} ELSE Recipients(p)) :
           receiver' = [receiver EXCEPT ![p] = last]
    ELSE UNCHANGED receiver

Commands == {"none", "spawn", "update", "bringAll"}

HandlePacket(p, acks, command) ==
  LET populating == Populating(p, acks, command)
      queue == QueueWith(p, acks, command, populating)
  IN
  /\ p \in InWorld
  /\ command = "update" => p \in Updaters \ updated
  /\ status' = [status EXCEPT ![p] = IF Spawning(p, command) THEN "spawned" ELSE @]
  /\ worldPopulated' = [x \in Players |-> worldPopulated[x] \/ x \in populating]
  /\ sendAfterSpawn' =
       [x \in Players |->
          {r \in sendAfterSpawn[x] : ~(x = p /\ Ready(p))}
          \cup {r \in InWorld : x \in populating /\ Deferred(x) /\ r # x}]
  /\ updated' = IF command = "update" THEN updated \cup {p} ELSE updated
  /\ SetReceiver(p, command)
  /\ Flush(p, queue, queue[p] \ shown[p], {})

-----------------------------------------------------------------------------
(* Clients come, receive and go.                                           *)

Connect(p) ==
  /\ status[p] = "absent"
  /\ status' = [status EXCEPT ![p] = "connected"]
  /\ UNCHANGED <<worldPopulated, sendAfterSpawn, queuedStates, shown, got, receiver, updated, fault>>

(* Only what is still in the queue can be acknowledged with an effect.     *)
ClientReceive(p, u) ==
  /\ u \in (shown[p] \cap queuedStates[p]) \ got[p]
  /\ got' = [got EXCEPT ![p] = @ \cup {u}]
  /\ UNCHANGED <<status, worldPopulated, sendAfterSpawn, queuedStates, shown, receiver, updated, fault>>

(* Mutant of Announces: what is tested is whether the world was populated. *)
AnnouncesPopulated(p) == worldPopulated[p]

(* ~PlayerObject tells the others only if the object had spawned.          *)
Announces(p) == status[p] = "spawned"

(* The client is removed (invalid or silent), with its queue and object.   *)
Leave(p) ==
  /\ p \in InWorld
  /\ status' = [status EXCEPT ![p] = IF @ = "spawned" THEN "left" ELSE "dropped"]
  /\ queuedStates' =
       [x \in Players |->
          IF x = p THEN {}
          ELSE queuedStates[x]
               \cup {u \in {Update("delete", p)} : Announces(p) /\ x \in Recipients(p)}]
  /\ sendAfterSpawn' = [sendAfterSpawn EXCEPT ![p] = {}]
  /\ shown' = [shown EXCEPT ![p] = {}] /\ got' = [got EXCEPT ![p] = {}]
  /\ UNCHANGED <<worldPopulated, receiver, updated, fault>>

Step(p) ==
  \/ Connect(p) \/ Leave(p) \/ CheckAndResend(p)
  \/ \E u \in Updates : ClientReceive(p, u)
  \/ \E acks \in SUBSET got[p], command \in Commands :
       HandlePacket(p, acks, command)

Next == fault = "none" /\ \E p \in Players : Step(p)

Spec == Init /\ [][Next]_vars

(* The socket loop flushes the queue of every client over and over, and    *)
(* half a second after it was sent every update is due again.              *)
ResendAll(p) == fault = "none" /\ Resend(p, queuedStates[p])

FairSpec == Spec /\ \A p \in Players : WF_vars(ResendAll(p))

-----------------------------------------------------------------------------
(* Properties.                                                             *)

(* The types of the variables; nothing is kept for a client that is not    *)
(* there.                                                                  *)
TypeOK ==
  /\ status \in [Players -> {"absent", "connected", "spawned", "left", "dropped"}]
  /\ worldPopulated \in [Players -> BOOLEAN]
  /\ sendAfterSpawn \in [Players -> SUBSET Players]
  /\ queuedStates \in [Players -> SUBSET Updates]
  /\ shown \in [Players -> SUBSET Updates]
  /\ got \in [Players -> SUBSET Updates]
  /\ receiver \in [Players -> Players]
  /\ updated \subseteq Players
  /\ fault \in {"none", "exception", "dangling"}
  /\ \A p \in Players : p \notin InWorld => queuedStates[p] = {} /\ shown[p] = {}
  /\ \A p \in Players : got[p] \subseteq shown[p] \cap queuedStates[p]

Known(p) == queuedStates[p] \cup shown[p]

(* Two spawned players see each other, whoever came first, in whatever     *)
(* order they spawned and were populated, and also if an administrator had *)
(* one of them populated before it spawned: the spawn is on its way or was *)
(* sent (SpawnSelf, PopulateWorld, m_sendAfterSpawn).                      *)
EveryoneSeen ==
  \A p \in InWorld, q \in Players :
    p # q /\ worldPopulated[p] /\ status[q] = "spawned" =>
      \/ \E kind \in {"announced", "populated"} : Update(kind, q) \in Known(p)
      \/ q \in sendAfterSpawn[p]

(* A client that was sent the spawn of a player who had spawned and left   *)
(* is told of the deletion, however late it was told of the spawn.  Those  *)
(* who leave before they spawn are the exception: others may have been     *)
(* told of them (getCurrentStatePackets) and are not told of the end.      *)
DeletionTold ==
  \A p \in InWorld, q \in Players :
    status[q] = "left" /\ (\E kind \in Spawns : Update(kind, q) \in shown[p]) =>
      Update("delete", q) \in Known(p)

(* "flush any updates that queued up while we were spawning": a client is  *)
(* told of the world only after its own spawn.                             *)
SpawnBeforeWorld ==
  \A p, q \in Players :
    Update("populated", q) \in Known(p) => Update("self", p) \in Known(p)

(* A spawn that waits in a queue, or behind a spawn of its own, while the  *)
(* player leaves is not sent any more.                                     *)
SpawnsOfTheLiving ==
  [][\A p \in Players : \A u \in shown'[p] \ shown[p] :
       u.kind \in Spawns => u.about \in InWorld]_vars

(* Client p has still to be sent the spawn of q, or its deletion.          *)
Owed(p, q) ==
  /\ fault = "none" /\ p # q /\ p \in InWorld
  /\ LET spawnShown == \E kind \in Spawns : Update(kind, q) \in shown[p]
     IN  \/ /\ status[q] = "spawned" /\ ~spawnShown
            /\ worldPopulated[p] /\ sendAfterSpawn[p] = {}
         \/ /\ status[q] = "left" /\ spawnShown
            /\ Update("delete", q) \notin shown[p]

(* Nobody waits for ever for the news of another: who is populated, with   *)
(* nothing left in m_sendAfterSpawn, is sent the spawn of whoever spawns,  *)
(* and whoever was sent it the deletion, unless somebody leaves before.    *)
ClientsCatchUp == \A p, q \in Players : []<>~Owed(p, q)

(* The clients are told of each other as Presence promises: told to a      *)
(* client is what waits in its queue or in m_sendAfterSpawn, or was sent.  *)
SpawnsIn(updates) == {q \in Players : \E kind \in Spawns : Update(kind, q) \in updates}

DeletionsIn(updates) == {q \in Players : Update("delete", q) \in updates}

Promised == INSTANCE Presence WITH
  present <- InWorld,
  past <- {p \in Players : status[p] \in {"left", "dropped"}},
  spawned <- {p \in Players : status[p] = "spawned"},
  populated <- {p \in Players : worldPopulated[p]},
  told <- [x \in Players |-> SpawnsIn(Known(x)) \cup sendAfterSpawn[x]],
  seen <- [x \in Players |-> SpawnsIn(shown[x])],
  parted <- [x \in Players |-> DeletionsIn(Known(x))],
  ended <- [x \in Players |-> DeletionsIn(shown[x])]

ImplementsPresence == Promised!Spec

(* "see if packet is still valid, if not, erase and carry on": FlushQueue  *)
(* survives updates about objects, and for clients, that are gone.         *)
FlushSurvives == fault = "none"
=============================================================================
