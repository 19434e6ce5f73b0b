---------------------------- MODULE World_proofs ----------------------------
(***************************************************************************)
(* Proofs about World, for any set of players.  The inductive invariant    *)
(* adds two facts: an object that was never built has nothing prepared for *)
(* it, and who has spawned has its own spawn in the queue or was sent it.  *)
(* What a client knows (queued or sent) is lost in one way only: a spawn   *)
(* whose player has left is dropped when it is to be sent.                 *)
(***************************************************************************)
EXTENDS World, TLAPS

Statuses == {"absent", "connected", "spawned", "left", "dropped"}
Kinds == Spawns \cup {"appearance", "delete"}
Gone(u) == u.kind \in Spawns /\ u.about \notin InWorld

AbsentInv ==
  \A p \in Players : status[p] = "absent" => ~worldPopulated[p] /\ sendAfterSpawn[p] = {}

SpawnedSelf ==
  \A p \in Players : status[p] = "spawned" => Update("self", p) \in Known(p)

IInv ==
  /\ TypeOK /\ AbsentInv /\ SpawnedSelf
  /\ EveryoneSeen /\ DeletionTold /\ SpawnBeforeWorld

-----------------------------------------------------------------------------
LEMMA UpdateType ==
  ASSUME NEW kind \in Kinds, NEW p \in Players
  PROVE  /\ Update(kind, p) \in Updates
         /\ Update(kind, p).kind = kind /\ Update(kind, p).about = p
BY DEF Update, Updates, Kinds

LEMMA InWorldStatus ==
  ASSUME TypeOK
  PROVE  \A p \in Players :
           /\ p \in InWorld <=> status[p] \in {"connected", "spawned"}
           /\ status[p] = "left" => p \notin InWorld
BY DEF InWorld

(* What a flush leaves of the queues and of what was sent, where queue is  *)
(* what it starts from: only gone spawns are forgotten, none is sent.      *)
Flushed(p, queue) ==
  /\ queuedStates' \in [Players -> SUBSET Updates]
  /\ shown' \in [Players -> SUBSET Updates]
  /\ got' \in [Players -> SUBSET Updates]
  /\ fault' \in {"none", "exception", "dangling"}
  /\ \A x \in Players :
       /\ queuedStates'[x] \subseteq queue[x]
       /\ shown[x] \subseteq shown'[x]
       /\ shown'[x] \subseteq shown[x] \cup queue[x]
       /\ got'[x] \subseteq shown'[x] \cap queuedStates'[x]
       /\ x # p => queuedStates'[x] = queue[x] /\ shown'[x] = shown[x]
       /\ \A u \in queue[x] \cup shown[x] :
            u \in queuedStates'[x] \cup shown'[x] \/ Gone(u)
       /\ \A u \in shown'[x] \ shown[x] : ~Gone(u)

LEMMA FlushEffect ==
  ASSUME TypeOK, NEW p \in Players, NEW queue \in [Players -> SUBSET Updates],
         NEW due \in SUBSET queue[p], NEW rejected \in SUBSET shown[p],
         \A x \in Players : x # p => queuedStates[x] \subseteq queue[x],
         Flush(p, queue, due, rejected)
  PROVE  Flushed(p, queue)
<1> DEFINE dropped == Stale(due) \cup rejected
<1>1. /\ queuedStates' = [queue EXCEPT ![p] = queue[p] \ dropped]
      /\ shown' = [shown EXCEPT ![p] = shown[p] \cup (due \ dropped)]
      /\ got' = [got EXCEPT ![p] = got[p] \cap (queue[p] \ dropped)]
      /\ Faults(due)
  BY DEF Flush
<1>2. dropped = {u \in due : Gone(u)} \cup rejected
  BY DEF Stale, Gone
<1> HIDE DEF dropped
<1>3. /\ queuedStates' \in [Players -> SUBSET Updates]
      /\ shown' \in [Players -> SUBSET Updates]
      /\ got' \in [Players -> SUBSET Updates]
  BY <1>1, <1>2 DEF TypeOK
<1>4. fault' \in {"none", "exception", "dangling"}
  BY <1>1 DEF Faults
<1>5. ASSUME NEW x \in Players
      PROVE  /\ queuedStates'[x] \subseteq queue[x]
             /\ shown[x] \subseteq shown'[x]
             /\ shown'[x] \subseteq shown[x] \cup queue[x]
             /\ got'[x] \subseteq shown'[x] \cap queuedStates'[x]
             /\ x # p => queuedStates'[x] = queue[x] /\ shown'[x] = shown[x]
             /\ \A u \in queue[x] \cup shown[x] :
                  u \in queuedStates'[x] \cup shown'[x] \/ Gone(u)
             /\ \A u \in shown'[x] \ shown[x] : ~Gone(u)
  <2>1. CASE x # p
    <3>1. queuedStates'[x] = queue[x] /\ shown'[x] = shown[x] /\ got'[x] = got[x]
      BY <1>1, <2>1 DEF TypeOK
    <3>2. got[x] \subseteq shown[x] \cap queuedStates[x]
      BY DEF TypeOK
    <3> QED BY <2>1, <3>1, <3>2
  <2>2. CASE x = p
    <3>1. /\ queuedStates'[x] = queue[x] \ dropped
          /\ shown'[x] = shown[x] \cup (due \ dropped)
          /\ got'[x] = got[x] \cap (queue[x] \ dropped)
      BY <1>1, <2>2 DEF TypeOK
    <3>2. got[x] \subseteq shown[x]
      BY DEF TypeOK
    <3>3. due \subseteq queue[x] /\ rejected \subseteq shown[x]
      BY <2>2
    <3> QED BY <1>2, <2>2, <3>1, <3>2, <3>3
  <2> QED BY <2>1, <2>2
<1> QED BY <1>3, <1>4, <1>5 DEF Flushed

LEMMA InitInv == Init => IInv
<1> SUFFICES ASSUME Init PROVE IInv
  OBVIOUS
<1>1. InWorld = {}
  BY DEF Init, InWorld
<1>2. TypeOK
  BY <1>1 DEF Init, TypeOK, Updates
<1>3. AbsentInv /\ SpawnedSelf
  BY DEF Init, AbsentInv, SpawnedSelf
<1>4. EveryoneSeen /\ DeletionTold
  BY <1>1 DEF EveryoneSeen, DeletionTold
<1>5. SpawnBeforeWorld
  BY DEF Init, SpawnBeforeWorld, Known
<1> QED BY <1>2, <1>3, <1>4, <1>5 DEF IInv

LEMMA ConnectInv ==
  ASSUME IInv, NEW p \in Players, Connect(p) PROVE IInv'
<1> USE DEF IInv
<1>1. /\ status[p] = "absent" /\ p \notin InWorld
      /\ status' = [status EXCEPT ![p] = "connected"]
      /\ InWorld' = InWorld \cup {p}
      /\ UNCHANGED <<worldPopulated, sendAfterSpawn, queuedStates, shown, got, receiver, updated, fault>>
  BY DEF Connect, InWorld, TypeOK
<1>2. TypeOK'
  BY <1>1 DEF TypeOK
<1>3. AbsentInv' /\ SpawnedSelf'
  BY <1>1 DEF AbsentInv, SpawnedSelf, TypeOK, Known
<1>4. EveryoneSeen'
  BY <1>1 DEF EveryoneSeen, AbsentInv, TypeOK, Known
<1>5. DeletionTold'
  BY <1>1 DEF DeletionTold, TypeOK, Known
<1>6. SpawnBeforeWorld'
  BY <1>1 DEF SpawnBeforeWorld, Known
<1> QED BY <1>2, <1>3, <1>4, <1>5, <1>6

LEMMA ReceiveInv ==
  ASSUME IInv, NEW p \in Players, NEW u \in Updates, ClientReceive(p, u) PROVE IInv'
<1> USE DEF IInv
<1>1. /\ u \in shown[p] \cap queuedStates[p] /\ InWorld' = InWorld
      /\ got' = [got EXCEPT ![p] = got[p] \cup {u}]
      /\ UNCHANGED <<status, worldPopulated, sendAfterSpawn, queuedStates, shown, receiver, updated, fault>>
  BY DEF ClientReceive, InWorld
<1>2. TypeOK'
  BY <1>1 DEF TypeOK
<1>3. AbsentInv' /\ SpawnedSelf' /\ SpawnBeforeWorld'
  BY <1>1 DEF AbsentInv, SpawnedSelf, SpawnBeforeWorld, Known
<1>4. EveryoneSeen' /\ DeletionTold'
  BY <1>1 DEF EveryoneSeen, DeletionTold, Known
<1> QED BY <1>2, <1>3, <1>4

LEMMA LeaveInv ==
  ASSUME IInv, NEW p \in Players, Leave(p) PROVE IInv'
<1> USE DEF IInv
<1> DEFINE news(x) == {u \in {Update("delete", p)} : Announces(p) /\ x \in Recipients(p)}
<1>1. /\ p \in InWorld
      /\ status' = [status EXCEPT ![p] = IF status[p] = "spawned" THEN "left" ELSE "dropped"]
      /\ queuedStates' = [x \in Players |-> IF x = p THEN {} ELSE queuedStates[x] \cup news(x)]
      /\ sendAfterSpawn' = [sendAfterSpawn EXCEPT ![p] = {}]
      /\ shown' = [shown EXCEPT ![p] = {}] /\ got' = [got EXCEPT ![p] = {}]
      /\ UNCHANGED <<worldPopulated, receiver, updated, fault>>
  BY DEF Leave
<1>2. InWorld' = InWorld \ {p}
  BY <1>1 DEF InWorld, TypeOK
<1>3. Update("delete", p) \in Updates /\ Update("delete", p).kind = "delete"
  BY UpdateType DEF Kinds
<1>4. \A x \in Players : news(x) \subseteq {Update("delete", p)} /\ (x \notin InWorld => news(x) = {})
  BY DEF Recipients
<1>5. \A x \in InWorld \ {p} : status[p] = "spawned" => Update("delete", p) \in news(x)
  BY DEF Recipients, Announces
<1> HIDE DEF news
<1>6. \A x \in Players : x # p =>
        /\ status'[x] = status[x] /\ sendAfterSpawn'[x] = sendAfterSpawn[x]
        /\ queuedStates'[x] = queuedStates[x] \cup news(x)
        /\ shown'[x] = shown[x] /\ got'[x] = got[x]
  BY <1>1 DEF TypeOK
<1>7. /\ status'[p] \in {"left", "dropped"} /\ sendAfterSpawn'[p] = {}
      /\ status'[p] = "left" => status[p] = "spawned"
      /\ queuedStates'[p] = {} /\ shown'[p] = {} /\ got'[p] = {}
  BY <1>1 DEF TypeOK
<1>8. TypeOK'
  <2>1. /\ status' \in [Players -> Statuses] /\ worldPopulated' \in [Players -> BOOLEAN]
        /\ sendAfterSpawn' \in [Players -> SUBSET Players]
        /\ shown' \in [Players -> SUBSET Updates] /\ got' \in [Players -> SUBSET Updates]
        /\ receiver' \in [Players -> Players] /\ updated' \subseteq Players
        /\ fault' \in {"none", "exception", "dangling"}
    BY <1>1 DEF TypeOK, Statuses
  <2>2. queuedStates' \in [Players -> SUBSET Updates]
    BY <1>1, <1>3, <1>4 DEF TypeOK
  <2>3. \A x \in Players : x \notin InWorld' => queuedStates'[x] = {} /\ shown'[x] = {}
    BY <1>2, <1>4, <1>6, <1>7 DEF TypeOK
  <2>4. \A x \in Players : got'[x] \subseteq shown'[x] \cap queuedStates'[x]
    BY <1>6, <1>7 DEF TypeOK
  <2> QED BY <2>1, <2>2, <2>3, <2>4 DEF TypeOK, Statuses
<1>9. AbsentInv'
  BY <1>1, <1>6, <1>7 DEF AbsentInv
<1>10. SpawnedSelf'
  BY <1>6, <1>7 DEF SpawnedSelf, Known
<1>11. EveryoneSeen'
  <2> SUFFICES ASSUME NEW x \in InWorld', NEW q \in Players,
                      x # q, worldPopulated'[x], status'[q] = "spawned"
               PROVE  \/ \E kind \in {"announced", "populated"} : Update(kind, q) \in Known(x)'
                      \/ q \in sendAfterSpawn'[x]
    BY DEF EveryoneSeen
  <2>1. x \in InWorld /\ x \in Players /\ x # p /\ q # p
    BY <1>2, <1>7 DEF InWorld
  <2> QED BY <1>1, <1>6, <2>1 DEF EveryoneSeen, Known
<1>12. DeletionTold'
  <2> SUFFICES ASSUME NEW x \in InWorld', NEW q \in Players, status'[q] = "left",
                      NEW kind \in Spawns, Update(kind, q) \in shown'[x]
               PROVE  Update("delete", q) \in Known(x)'
    BY DEF DeletionTold
  <2>1. x \in InWorld /\ x \in Players /\ x # p
    BY <1>2 DEF InWorld
  <2>2. CASE q = p
    BY <1>5, <1>6, <1>7, <2>1, <2>2 DEF Known
  <2>3. CASE q # p
    BY <1>6, <2>1, <2>3 DEF DeletionTold, Known
  <2> QED BY <2>2, <2>3
<1>13. SpawnBeforeWorld'
  <2> SUFFICES ASSUME NEW x \in Players, NEW q \in Players, Update("populated", q) \in Known(x)'
               PROVE  Update("self", x) \in Known(x)'
    BY DEF SpawnBeforeWorld
  <2>1. x # p
    BY <1>7 DEF Known
  <2>2. Update("populated", q) # Update("delete", p)
    BY DEF Update
  <2> QED BY <1>4, <1>6, <2>1, <2>2 DEF SpawnBeforeWorld, Known
<1> QED BY <1>8, <1>9, <1>10, <1>11, <1>12, <1>13

LEMMA ResendInv ==
  ASSUME IInv, NEW p \in Players, NEW due \in DueOnTimer(p), Resend(p, due) PROVE IInv'
<1> USE DEF IInv, Flushed
<1>1. /\ UNCHANGED <<status, worldPopulated, sendAfterSpawn, receiver, updated>>
      /\ p \in InWorld /\ InWorld' = InWorld
  BY DEF Resend, InWorld
<1>2. PICK rejected \in SUBSET (due \cap shown[p]) : Flush(p, queuedStates, due, rejected)
  BY DEF Resend
<1>3. due \subseteq queuedStates[p] /\ queuedStates \in [Players -> SUBSET Updates]
  BY DEF DueOnTimer, TypeOK
<1>4. Flushed(p, queuedStates)
  <2> HIDE DEF Flushed
  <2> QED BY <1>2, <1>3, FlushEffect
<1>5. \A x \in Players : /\ Known(x)' \subseteq Known(x)
                         /\ \A u \in Known(x) : u \in Known(x)' \/ Gone(u)
  BY <1>4 DEF Known
<1>6. TypeOK'
  BY <1>1, <1>4 DEF TypeOK
<1>7. AbsentInv'
  BY <1>1 DEF AbsentInv
<1>8. ASSUME NEW q \in Players, q \in InWorld, NEW x \in Players, NEW kind \in Kinds,
             Update(kind, q) \in Known(x)
      PROVE  Update(kind, q) \in Known(x)'
  BY <1>5, <1>8, UpdateType DEF Gone
<1>9. {"self", "announced", "populated"} \subseteq Kinds /\ "delete" \in Kinds
  BY DEF Kinds, Spawns, Shared
<1>10. SpawnedSelf'
  BY <1>1, <1>8, <1>9 DEF SpawnedSelf, InWorld
<1>11. EveryoneSeen'
  <2> SUFFICES ASSUME NEW x \in InWorld, NEW q \in Players,
                      x # q, worldPopulated[x], status[q] = "spawned"
               PROVE  \/ \E kind \in {"announced", "populated"} : Update(kind, q) \in Known(x)'
                      \/ q \in sendAfterSpawn[x]
    BY <1>1 DEF EveryoneSeen
  <2>1. x \in Players /\ q \in InWorld
    BY DEF InWorld
  <2> QED BY <1>8, <1>9, <2>1 DEF EveryoneSeen
<1>12. DeletionTold'
  <2> SUFFICES ASSUME NEW x \in InWorld, NEW q \in Players, status[q] = "left",
                      NEW kind \in Spawns, Update(kind, q) \in shown'[x]
               PROVE  Update("delete", q) \in Known(x)'
    BY <1>1 DEF DeletionTold
  <2>1. x \in Players /\ q \notin InWorld /\ kind \in Kinds
    BY DEF InWorld, Kinds
  <2>2. Update(kind, q) \in shown[x]
    BY <1>4, <2>1, UpdateType DEF Gone
  <2>3. Update("delete", q) \in Known(x)
    BY <2>2 DEF DeletionTold
  <2>4. Update("delete", q).kind = "delete" /\ "delete" \notin Spawns
    BY DEF Update, Spawns, Shared
  <2> QED BY <1>5, <2>1, <2>3, <2>4 DEF Gone
<1>13. SpawnBeforeWorld'
  <2> SUFFICES ASSUME NEW x \in Players, NEW q \in Players, Update("populated", q) \in Known(x)'
               PROVE  Update("self", x) \in Known(x)'
    BY DEF SpawnBeforeWorld
  <2>1. Update("self", x) \in Known(x)
    BY <1>5 DEF SpawnBeforeWorld
  <2>2. x \in InWorld
    BY <2>1 DEF Known, TypeOK
  <2> QED BY <1>8, <1>9, <2>1, <2>2
<1> QED BY <1>6, <1>7, <1>10, <1>11, <1>12, <1>13

-----------------------------------------------------------------------------
(* A packet: first what it leaves in the queues, then the invariant.       *)

(* Nothing is told to, or about, an object that is not there, except what  *)
(* m_sendAfterSpawn holds.                                                 *)
LEMMA QueueEffect ==
  ASSUME TypeOK, NEW p \in InWorld, NEW acks \in SUBSET got[p], NEW command \in Commands,
         NEW populating \in SUBSET InWorld,
         NEW queue, queue = QueueWith(p, acks, command, populating)
  PROVE  /\ queue \in [Players -> SUBSET Updates]
         /\ \A x \in Players :
              /\ queuedStates[x] \subseteq queue[x] \cup shown[x]
              /\ x # p => queuedStates[x] \subseteq queue[x]
              /\ queue[x] \subseteq queuedStates[x] \cup Told(p, populating, x)
                                    \cup Announced(p, command, x)
              /\ Told(p, populating, x) \cup Announced(p, command, x) \subseteq queue[x]
<1>1. p \in Players /\ InWorld \subseteq Players
  BY DEF InWorld
<1>2. \A q \in Players : Update("populated", q) \in Updates
  BY UpdateType DEF Kinds, Spawns
<1>3. \A x \in Players : Told(p, populating, x) \subseteq Updates
  BY <1>1, <1>2 DEF Told, TypeOK
<1>4. \A x \in Players : Announced(p, command, x) \subseteq Updates
  BY DEF Announced
<1>5. acks \subseteq shown[p] \cap queuedStates[p]
  BY <1>1 DEF TypeOK
<1>6. queue \in [Players -> SUBSET Updates]
  BY <1>3, <1>4 DEF QueueWith, TypeOK
<1>7. ASSUME NEW x \in Players
      PROVE  queue[x] = (queuedStates[x] \ (IF x = p THEN acks ELSE {}))
                        \cup Told(p, populating, x) \cup Announced(p, command, x)
  BY DEF QueueWith
<1>8. ASSUME NEW x \in Players
      PROVE  /\ queuedStates[x] \subseteq queue[x] \cup shown[x]
             /\ x # p => queuedStates[x] \subseteq queue[x]
             /\ queue[x] \subseteq queuedStates[x] \cup Told(p, populating, x)
                                    \cup Announced(p, command, x)
             /\ Told(p, populating, x) \cup Announced(p, command, x) \subseteq queue[x]
  BY <1>5, <1>7
<1> QED BY <1>6, <1>8

LEMMA HandleFlushes ==
  ASSUME TypeOK, NEW p \in Players, NEW acks \in SUBSET got[p], NEW command \in Commands,
         HandlePacket(p, acks, command)
  PROVE  Flushed(p, QueueWith(p, acks, command, Populating(p, acks, command)))
<1> DEFINE populating == Populating(p, acks, command)
           queue == QueueWith(p, acks, command, populating)
           due == queue[p] \ shown[p]
           rejected == {}
<1>1. p \in InWorld /\ Flush(p, queue, due, rejected)
  BY DEF HandlePacket
<1>2. populating \subseteq InWorld
  BY DEF Populating, Called
<1> HIDE DEF populating
<1>3. /\ queue \in [Players -> SUBSET Updates]
      /\ \A x \in Players : x # p => queuedStates[x] \subseteq queue[x]
  BY <1>1, <1>2, QueueEffect
<1>4. due \in SUBSET queue[p] /\ rejected \in SUBSET shown[p]
  OBVIOUS
<1> HIDE DEF queue, due, rejected
<1>5. Flushed(p, queue)
  BY <1>1, <1>3, <1>4, FlushEffect
<1> QED BY <1>5 DEF queue, populating

LEMMA HandleInv ==
  ASSUME IInv, NEW p \in Players, NEW acks \in SUBSET got[p], NEW command \in Commands,
         HandlePacket(p, acks, command)
  PROVE  IInv'
<1> USE DEF IInv, Flushed
<1> DEFINE populating == Populating(p, acks, command)
           queue == QueueWith(p, acks, command, populating)
           told(x) == Told(p, populating, x)
           announced(x) == Announced(p, command, x)
           spawning == Spawning(p, command)
<1>1. /\ p \in InWorld
      /\ status' = [status EXCEPT ![p] = IF spawning THEN "spawned" ELSE status[p]]
      /\ worldPopulated' = [x \in Players |-> worldPopulated[x] \/ x \in populating]
      /\ sendAfterSpawn' =
           [x \in Players |->
              {r \in sendAfterSpawn[x] : ~(x = p /\ Ready(p))}
              \cup {r \in InWorld : x \in populating /\ Deferred(x) /\ r # x}]
      /\ updated' = IF command = "update" THEN updated \cup {p} ELSE updated
      /\ SetReceiver(p, command)
      /\ Flush(p, queue, queue[p] \ shown[p], {})
  BY DEF HandlePacket
<1>2. populating \subseteq InWorld /\ InWorld \subseteq Players
  BY DEF Populating, Called, InWorld
<1>3. /\ spawning => status[p] = "connected"
      /\ status'[p] = IF spawning THEN "spawned" ELSE status[p]
      /\ \A x \in Players : x # p => status'[x] = status[x]
      /\ status' \in [Players -> Statuses]
  BY <1>1 DEF TypeOK, Spawning, Statuses
<1>4. InWorld' = InWorld
  BY <1>1, <1>3 DEF InWorld
<1>5. /\ queue \in [Players -> SUBSET Updates]
      /\ \A x \in Players :
           /\ queuedStates[x] \subseteq queue[x] \cup shown[x]
           /\ x # p => queuedStates[x] \subseteq queue[x]
           /\ queue[x] \subseteq queuedStates[x] \cup told(x) \cup announced(x)
           /\ told(x) \cup announced(x) \subseteq queue[x]
  <2> HIDE DEF populating
  <2> QED BY <1>1, <1>2, QueueEffect
<1>6. \A x \in Players : \A u \in told(x) :
        /\ x \in InWorld
        /\ u.kind = "populated" /\ \E q \in Players : u = Update("populated", q)
        /\ (x \in populating /\ ~Deferred(x)) \/ (x = p /\ Ready(p))
  BY <1>1, <1>2 DEF Told, Update, TypeOK
<1>7. \A x \in Players : \A u \in announced(x) :
        /\ x \in InWorld /\ u.about = p
        /\ u.kind \in {"self", "announced", "appearance"}
  BY <1>1 DEF Announced, Recipients
<1>8. spawning => /\ Update("self", p) \in announced(p)
                  /\ \A x \in InWorld \ {p} : Update("announced", p) \in announced(x)
  BY <1>1, UpdateType DEF Announced, Recipients, Kinds, Spawns, Shared
<1>9. /\ \A x \in Players, q \in InWorld :
           x \in populating /\ ~Deferred(x) /\ q # x => Update("populated", q) \in told(x)
      /\ Ready(p) => \A q \in sendAfterSpawn[p] : Update("populated", q) \in told(p)
  BY DEF Told
<1> HIDE DEF populating, queue, told, announced, spawning
<1>10. Flushed(p, queue)
  <2> HIDE DEF Flushed
  <2> QED BY HandleFlushes DEF queue, populating
<1>11. \A x \in Players :
         /\ Known(x)' \subseteq Known(x) \cup told(x) \cup announced(x)
         /\ \A u \in Known(x) \cup told(x) \cup announced(x) : u \in Known(x)' \/ Gone(u)
  BY <1>5, <1>10 DEF Known
<1>12. ASSUME NEW q \in InWorld, NEW x \in Players, NEW kind \in Kinds,
              Update(kind, q) \in Known(x) \cup told(x) \cup announced(x)
       PROVE  Update(kind, q) \in Known(x)'
  <2>1. Update(kind, q).about = q
    BY DEF Update
  <2> QED BY <1>11, <1>12, <2>1 DEF Gone
<1>13. {"self", "announced", "populated"} \subseteq Kinds /\ "delete" \in Kinds
  BY DEF Kinds, Spawns, Shared
<1>14. TypeOK'
  <2>1. worldPopulated' \in [Players -> BOOLEAN] /\ sendAfterSpawn' \in [Players -> SUBSET Players]
    BY <1>1, <1>2 DEF TypeOK
  <2>2. receiver' \in [Players -> Players]
    BY <1>1, <1>2 DEF TypeOK, SetReceiver, Recipients
  <2>3. updated' \subseteq Players
    BY <1>1 DEF TypeOK
  <2>4. ASSUME NEW x \in Players, x \notin InWorld
        PROVE  queuedStates'[x] = {} /\ shown'[x] = {}
    <3>1. told(x) = {} /\ announced(x) = {}
      BY <1>6, <1>7, <2>4
    <3>2. queuedStates[x] = {} /\ shown[x] = {}
      BY <2>4 DEF TypeOK
    <3> QED BY <1>5, <1>10, <3>1, <3>2
  <2> QED BY <1>3, <1>4, <1>10, <2>1, <2>2, <2>3, <2>4 DEF TypeOK, Statuses
<1>15. AbsentInv'
  <2> SUFFICES ASSUME NEW x \in Players, status'[x] = "absent"
               PROVE  ~worldPopulated'[x] /\ sendAfterSpawn'[x] = {}
    BY DEF AbsentInv
  <2>1. x \notin InWorld /\ status[x] = "absent"
    BY <1>1, <1>3 DEF InWorld
  <2> QED BY <1>1, <1>2, <2>1 DEF AbsentInv
<1>16. SpawnedSelf'
  <2> SUFFICES ASSUME NEW x \in Players, status'[x] = "spawned"
               PROVE  Update("self", x) \in Known(x)'
    BY DEF SpawnedSelf
  <2>1. x \in InWorld
    BY <1>4 DEF InWorld
  <2>2. Update("self", x) \in Known(x) \cup announced(x)
    BY <1>3, <1>8 DEF SpawnedSelf
  <2> QED BY <1>12, <1>13, <2>1, <2>2
<1>17. EveryoneSeen'
  <2> SUFFICES ASSUME NEW x \in InWorld, NEW q \in Players,
                      x # q, worldPopulated'[x], status'[q] = "spawned"
               PROVE  \/ \E kind \in {"announced", "populated"} : Update(kind, q) \in Known(x)'
                      \/ q \in sendAfterSpawn'[x]
    BY <1>4 DEF EveryoneSeen
  <2>1. x \in Players /\ q \in InWorld
    BY <1>4 DEF InWorld
  <2>2. CASE spawning /\ q = p
    BY <1>8, <1>12, <1>13, <2>1, <2>2
  <2>3. CASE ~(spawning /\ q = p) /\ worldPopulated[x]
    <3>1. status[q] = "spawned"
      BY <1>3, <2>3
    <3>2. CASE \E kind \in {"announced", "populated"} : Update(kind, q) \in Known(x)
      BY <1>12, <1>13, <2>1, <3>2
    <3>3. CASE q \in sendAfterSpawn[x] /\ ~(x = p /\ Ready(p))
      BY <1>1, <2>1, <3>3
    <3>4. CASE q \in sendAfterSpawn[x] /\ x = p /\ Ready(p)
      BY <1>9, <1>12, <1>13, <2>1, <3>4
    <3> QED BY <2>3, <3>1, <3>2, <3>3, <3>4 DEF EveryoneSeen
  <2>4. CASE ~worldPopulated[x]
    <3>1. x \in populating
      BY <1>1, <2>1, <2>4
    <3>2. CASE Deferred(x)
      BY <1>1, <2>1, <3>1, <3>2
    <3>3. CASE ~Deferred(x)
      BY <1>9, <1>12, <1>13, <2>1, <3>1, <3>3
    <3> QED BY <3>2, <3>3
  <2> QED BY <2>2, <2>3, <2>4
<1>18. DeletionTold'
  <2> SUFFICES ASSUME NEW x \in InWorld, NEW q \in Players, status'[q] = "left",
                      NEW kind \in Spawns, Update(kind, q) \in shown'[x]
               PROVE  Update("delete", q) \in Known(x)'
    BY <1>4 DEF DeletionTold
  <2>1. x \in Players /\ q \notin InWorld /\ status[q] = "left"
    BY <1>1, <1>3, <1>4 DEF InWorld
  <2>2. Update(kind, q).kind \in Spawns /\ Update(kind, q).about = q
    BY DEF Update
  <2>3. Update(kind, q) \in shown[x]
    BY <1>10, <2>1, <2>2 DEF Gone
  <2>4. Update("delete", q) \in Known(x)
    BY <2>1, <2>3 DEF DeletionTold
  <2>5. Update("delete", q).kind = "delete" /\ "delete" \notin Spawns
    BY DEF Update, Spawns, Shared
  <2> QED BY <1>11, <2>1, <2>4, <2>5 DEF Gone
<1>19. SpawnBeforeWorld'
  <2> SUFFICES ASSUME NEW x \in Players, NEW q \in Players, Update("populated", q) \in Known(x)'
               PROVE  Update("self", x) \in Known(x)'
    BY DEF SpawnBeforeWorld
  <2>1. Update("populated", q).kind = "populated"
    BY DEF Update
  <2>2. CASE Update("populated", q) \in told(x)
    <3>1. x \in InWorld /\ status[x] = "spawned"
      BY <1>2, <1>6, <2>2 DEF Deferred, Ready, InWorld
    <3> QED BY <1>12, <1>13, <3>1 DEF SpawnedSelf
  <2>3. CASE Update("populated", q) \in Known(x)
    <3>1. Update("self", x) \in Known(x)
      BY <2>3 DEF SpawnBeforeWorld
    <3>2. x \in InWorld
      BY <3>1 DEF Known, TypeOK
    <3> QED BY <1>12, <1>13, <3>1, <3>2
  <2> QED BY <1>7, <1>11, <2>1, <2>2, <2>3
<1> QED BY <1>14, <1>15, <1>16, <1>17, <1>18, <1>19

-----------------------------------------------------------------------------
(* Every step keeps the invariant.                                         *)
LEMMA StepInv == IInv /\ [Next]_vars => IInv'
<1> SUFFICES ASSUME IInv, [Next]_vars PROVE IInv'
  OBVIOUS
<1>1. CASE UNCHANGED vars
  BY <1>1 DEF vars, IInv, TypeOK, AbsentInv, SpawnedSelf, EveryoneSeen, DeletionTold,
              SpawnBeforeWorld, Known, InWorld
<1>2. CASE Next
  <2> PICK p \in Players : Step(p)
    BY <1>2 DEF Next
  <2>1. CASE Connect(p)
    BY <2>1, ConnectInv
  <2>2. CASE Leave(p)
    BY <2>2, LeaveInv
  <2>3. CASE CheckAndResend(p)
    BY <2>3, ResendInv DEF CheckAndResend
  <2>4. CASE \E u \in Updates : ClientReceive(p, u)
    BY <2>4, ReceiveInv
  <2>5. CASE \E acks \in SUBSET got[p], command \in Commands : HandlePacket(p, acks, command)
    BY <2>5, HandleInv
  <2> QED BY <2>1, <2>2, <2>3, <2>4, <2>5 DEF Step
<1> QED BY <1>1, <1>2

(* What a step sends for the first time is no spawn of somebody gone: both *)
(* actions that flush ask InWorld, which no packet changes.                *)
LEMMA StepLiving ==
  IInv /\ [Next]_vars =>
    \A x \in Players : \A u \in shown'[x] \ shown[x] : u.kind \in Spawns => u.about \in InWorld
<1> SUFFICES ASSUME IInv, [Next]_vars, NEW x \in Players, NEW u \in shown'[x] \ shown[x]
             PROVE  ~Gone(u)
  BY DEF Gone
<1>1. CASE UNCHANGED vars
  BY <1>1 DEF vars
<1>2. CASE Next
  <2> PICK p \in Players : Step(p)
    BY <1>2 DEF Next
  <2>1. CASE Connect(p) \/ \E v \in Updates : ClientReceive(p, v)
    BY <2>1 DEF Connect, ClientReceive
  <2>2. CASE Leave(p)
    BY <2>2 DEF Leave, IInv, TypeOK
  <2>3. CASE CheckAndResend(p)
    <3>1. PICK due \in DueOnTimer(p), rejected \in SUBSET shown[p] :
                 Flush(p, queuedStates, due, rejected)
      BY <2>3 DEF CheckAndResend, Resend
    <3>2. due \subseteq queuedStates[p] /\ queuedStates \in [Players -> SUBSET Updates]
      BY DEF DueOnTimer, IInv, TypeOK
    <3>3. Flushed(p, queuedStates)
      BY <3>1, <3>2, FlushEffect DEF IInv
    <3> QED BY <3>3 DEF Flushed
  <2>4. CASE \E acks \in SUBSET got[p], command \in Commands : HandlePacket(p, acks, command)
    <3>1. PICK acks \in SUBSET got[p], command \in Commands : HandlePacket(p, acks, command)
      BY <2>4
    <3>2. Flushed(p, QueueWith(p, acks, command, Populating(p, acks, command)))
      BY <3>1, HandleFlushes DEF IInv
    <3> QED BY <3>2 DEF Flushed
  <2> QED BY <2>1, <2>2, <2>3, <2>4 DEF Step
<1> QED BY <1>1, <1>2

LEMMA Invariance == Spec => []IInv
BY InitInv, StepInv, PTL DEF Spec

-----------------------------------------------------------------------------
(* The variables keep their types, and nothing is kept for a client that   *)
(* is not there, so a player that leaves takes its queue along.            *)
THEOREM TypeCorrect == Spec => []TypeOK
<1>1. IInv => TypeOK
  BY DEF IInv
<1> QED BY <1>1, Invariance, PTL

(* Of any number of players, those that have spawned are told of each      *)
(* other, whatever the order of spawn, population and announcement.        *)
THEOREM EveryoneIsSeen == Spec => []EveryoneSeen
<1>1. IInv => EveryoneSeen
  BY DEF IInv
<1> QED BY <1>1, Invariance, PTL

(* Whoever was sent the spawn of a player that spawned and left is told of *)
(* its deletion.                                                           *)
THEOREM DeletionsTold == Spec => []DeletionTold
<1>1. IInv => DeletionTold
  BY DEF IInv
<1> QED BY <1>1, Invariance, PTL

(* m_sendAfterSpawn keeps the world behind a client's own spawn, whoever   *)
(* asks for its world to be populated.                                     *)
THEOREM WorldAfterSpawn == Spec => []SpawnBeforeWorld
<1>1. IInv => SpawnBeforeWorld
  BY DEF IInv
<1> QED BY <1>1, Invariance, PTL

(* FlushQueue sends no spawn for the first time once its player has left.  *)
THEOREM OnlyTheLivingSpawn == Spec => SpawnsOfTheLiving
<1>1. IInv /\ [Next]_vars =>
        [\A p \in Players : \A u \in shown'[p] \ shown[p] :
           u.kind \in Spawns => u.about \in InWorld]_vars
  BY StepLiving
<1> QED BY <1>1, Invariance, PTL DEF Spec, SpawnsOfTheLiving

-----------------------------------------------------------------------------
(* What the clients are told of each other implements Presence.            *)

ToldTo(x) == SpawnsIn(Known(x)) \cup sendAfterSpawn[x]

(* With queue in place of the queues, x is told of what it was before, and *)
(* of the news.                                                            *)
Tells(queue, news, x) ==
  /\ SpawnsIn(queue[x] \cup shown[x]) \cup sendAfterSpawn'[x] = ToldTo(x) \cup news[x]
  /\ DeletionsIn(queue[x] \cup shown[x]) = DeletionsIn(Known(x))

LEMMA AboutMonotone ==
  ASSUME NEW some, NEW all, some \subseteq all
  PROVE  SpawnsIn(some) \subseteq SpawnsIn(all) /\ DeletionsIn(some) \subseteq DeletionsIn(all)
BY DEF SpawnsIn, DeletionsIn

(* A flush for p that starts from what was told before and some news, all  *)
(* about those present, is Presence's service of p: what it forgets are    *)
(* spawns of somebody gone that were not sent.                             *)
LEMMA FlushServes ==
  ASSUME TypeOK, NEW p \in InWorld, NEW queue, Flushed(p, queue), InWorld' = InWorld,
         NEW news, \A x \in Players : news[x] \subseteq InWorld,
         \A x \in Players : Tells(queue, news, x)
  PROVE  /\ \E lapsed \in SUBSET (ToldTo(p) \ (InWorld \cup SpawnsIn(shown[p]))) :
              \A x \in Players :
                ToldTo(x)' = (ToldTo(x) \ (IF x = p THEN lapsed ELSE {})) \cup news[x]
         /\ \E now \in SUBSET (ToldTo(p)' \cap InWorld) :
              \A x \in Players :
                SpawnsIn(shown'[x]) = SpawnsIn(shown[x]) \cup (IF x = p THEN now ELSE {})
         /\ \E now \in SUBSET DeletionsIn(Known(p)) :
              \A x \in Players :
                DeletionsIn(shown'[x]) = DeletionsIn(shown[x]) \cup (IF x = p THEN now ELSE {})
         /\ \A x \in Players : DeletionsIn(Known(x))' = DeletionsIn(Known(x))
<1> USE DEF Tells
<1>1. p \in Players
  BY DEF InWorld
<1>2. ASSUME NEW x \in Players, x # p
      PROVE  /\ ToldTo(x)' = ToldTo(x) \cup news[x]
             /\ DeletionsIn(Known(x))' = DeletionsIn(Known(x))
             /\ shown'[x] = shown[x]
  <2>1. shown'[x] = shown[x] /\ Known(x)' = queue[x] \cup shown[x]
    BY <1>2 DEF Flushed, Known
  <2>2. ToldTo(x)' = SpawnsIn(Known(x)') \cup sendAfterSpawn'[x]
    BY DEF ToldTo, SpawnsIn
  <2>3. DeletionsIn(Known(x))' = DeletionsIn(Known(x)')
    BY DEF DeletionsIn
  <2> QED BY <2>1, <2>2, <2>3
<1>3. /\ shown[p] \subseteq shown'[p] /\ shown'[p] \subseteq Known(p)'
      /\ Known(p)' \subseteq queue[p] \cup shown[p]
      /\ \A u \in queue[p] \cup shown[p] : u \in Known(p)' \/ Gone(u)
      /\ \A u \in shown'[p] \ shown[p] : ~Gone(u)
  BY <1>1 DEF Flushed, Known
<1>4. /\ ToldTo(p)' = SpawnsIn(Known(p)') \cup sendAfterSpawn'[p]
      /\ DeletionsIn(Known(p))' = DeletionsIn(Known(p)')
  BY DEF ToldTo, SpawnsIn, DeletionsIn
<1>5. /\ SpawnsIn(Known(p)') \subseteq SpawnsIn(queue[p] \cup shown[p])
      /\ DeletionsIn(Known(p)') \subseteq DeletionsIn(queue[p] \cup shown[p])
      /\ ToldTo(p)' \subseteq ToldTo(p) \cup news[p]
  <2>1. /\ SpawnsIn(Known(p)') \subseteq SpawnsIn(queue[p] \cup shown[p])
        /\ DeletionsIn(Known(p)') \subseteq DeletionsIn(queue[p] \cup shown[p])
    BY <1>3, AboutMonotone
  <2> QED BY <1>1, <1>4, <2>1
<1>6. ASSUME NEW q \in ToldTo(p) \cup news[p], q \in InWorld PROVE q \in ToldTo(p)'
  <2>1. CASE q \in sendAfterSpawn'[p]
    BY <1>4, <2>1
  <2>2. CASE q \in SpawnsIn(queue[p] \cup shown[p])
    <3>1. PICK kind \in Spawns : Update(kind, q) \in queue[p] \cup shown[p]
      BY <2>2 DEF SpawnsIn
    <3>2. Update(kind, q) \in Known(p)'
      BY <1>3, <1>6, <3>1 DEF Gone, Update
    <3> QED BY <1>4, <1>6, <3>2 DEF SpawnsIn, InWorld
  <2> QED BY <1>1, <2>1, <2>2
<1>7. SpawnsIn(shown[p]) \subseteq SpawnsIn(shown'[p]) /\ SpawnsIn(shown'[p]) \subseteq ToldTo(p)'
  BY <1>3, <1>4, AboutMonotone
<1>8. ASSUME NEW q \in SpawnsIn(shown'[p]) \ SpawnsIn(shown[p]) PROVE q \in InWorld
  <2>1. PICK kind \in Spawns : Update(kind, q) \in shown'[p] \ shown[p]
    BY DEF SpawnsIn
  <2> QED BY <1>3, <2>1 DEF Gone, Update
<1>9. DeletionsIn(Known(p)') = DeletionsIn(Known(p))
  <2>1. \A q \in Players : ~Gone(Update("delete", q))
    BY DEF Gone, Update, Spawns, Shared
  <2>2. DeletionsIn(queue[p] \cup shown[p]) \subseteq DeletionsIn(Known(p)')
    BY <1>3, <2>1 DEF DeletionsIn
  <2> QED BY <1>1, <1>5, <2>2
<1>10. /\ DeletionsIn(shown[p]) \subseteq DeletionsIn(shown'[p])
       /\ DeletionsIn(shown'[p]) \subseteq DeletionsIn(Known(p))
  BY <1>3, <1>9, AboutMonotone
<1> DEFINE lapsed == ToldTo(p) \ ToldTo(p)'
           seeing == SpawnsIn(shown'[p]) \ SpawnsIn(shown[p])
           ending == DeletionsIn(shown'[p]) \ DeletionsIn(shown[p])
<1>11. lapsed \in SUBSET (ToldTo(p) \ (InWorld \cup SpawnsIn(shown[p])))
  BY <1>6, <1>7
<1>12. news[p] \subseteq ToldTo(p)'
  BY <1>1, <1>6
<1>13. ToldTo(p)' = (ToldTo(p) \ lapsed) \cup news[p]
  BY <1>5, <1>12
<1>14. seeing \in SUBSET (ToldTo(p)' \cap InWorld)
  BY <1>7, <1>8
<1>15. ending \in SUBSET DeletionsIn(Known(p))
  BY <1>10
<1>16. /\ SpawnsIn(shown'[p]) = SpawnsIn(shown[p]) \cup seeing
       /\ DeletionsIn(shown'[p]) = DeletionsIn(shown[p]) \cup ending
  BY <1>7, <1>10
<1> HIDE DEF lapsed, seeing, ending
<1>17. \A x \in Players : ToldTo(x)' = (ToldTo(x) \ (IF x = p THEN lapsed ELSE {})) \cup news[x]
  BY <1>2, <1>13
<1>18. \A x \in Players :
         /\ SpawnsIn(shown'[x]) = SpawnsIn(shown[x]) \cup (IF x = p THEN seeing ELSE {})
         /\ DeletionsIn(shown'[x]) = DeletionsIn(shown[x]) \cup (IF x = p THEN ending ELSE {})
  BY <1>2, <1>16
<1>19. \A x \in Players : DeletionsIn(Known(x))' = DeletionsIn(Known(x))
  BY <1>2, <1>4, <1>9
<1> QED BY <1>11, <1>14, <1>15, <1>17, <1>18, <1>19

(* What HandlePacket is given to say: of p, that it spawns, to everybody,  *)
(* and of everybody to those it populates.                                 *)
NewsOf(p, command, populating) ==
  [x \in Players |->
     {q \in InWorld : \/ Spawning(p, command) /\ q = p /\ x \in InWorld
                      \/ x \in populating /\ q # x}]

(* What is left in m_sendAfterSpawn of x.                                  *)
Prepared(p, populating, x) ==
  {r \in sendAfterSpawn[x] : ~(x = p /\ Ready(p))}
  \cup {r \in InWorld : x \in populating /\ Deferred(x) /\ r # x}

LEMMA HandleTells ==
  ASSUME TypeOK, NEW p \in InWorld, NEW acks \in SUBSET got[p], NEW command \in Commands,
         NEW populating \in SUBSET InWorld,
         NEW queue, queue = QueueWith(p, acks, command, populating),
         NEW x \in Players, sendAfterSpawn'[x] = Prepared(p, populating, x)
  PROVE  Tells(queue, NewsOf(p, command, populating), x)
<1> DEFINE told == Told(p, populating, x)
           announced == Announced(p, command, x)
           news == NewsOf(p, command, populating)[x]
<1>1. p \in Players /\ InWorld \subseteq Players /\ sendAfterSpawn[x] \subseteq Players
  BY DEF InWorld, TypeOK
<1>2. /\ Known(x) \subseteq queue[x] \cup shown[x]
      /\ queue[x] \subseteq queuedStates[x] \cup told \cup announced
      /\ told \cup announced \subseteq queue[x]
  BY QueueEffect DEF Known
<1>3. news = {q \in InWorld : \/ Spawning(p, command) /\ q = p /\ x \in InWorld
                              \/ x \in populating /\ q # x}
  BY DEF NewsOf
<1>4. \A q : Update("populated", q) \in told <=>
        \/ q \in InWorld /\ x \in populating /\ ~Deferred(x) /\ q # x
        \/ q \in sendAfterSpawn[x] /\ x = p /\ Ready(p)
  BY DEF Told, Update
<1>5. \A u \in told : u.kind = "populated"
  BY DEF Told, Update
<1>6. \A u \in announced : /\ u.about = p
                           /\ u.kind \in Spawns => Spawning(p, command) /\ x \in InWorld
                           /\ u.kind # "delete"
  BY DEF Announced, Recipients, Spawns, Shared
<1>7. Spawning(p, command) /\ x \in InWorld =>
        \E kind \in Spawns : Update(kind, p) \in announced
  <2> SUFFICES ASSUME Spawning(p, command), x \in InWorld
               PROVE  \E kind \in Spawns : Update(kind, p) \in announced
    OBVIOUS
  <2>1. CASE x = p
    <3>1. Update("self", p) \in announced
      BY <1>1, <2>1, UpdateType DEF Announced, Kinds, Spawns, Shared
    <3> QED BY <3>1 DEF Spawns, Shared
  <2>2. CASE x # p
    <3>1. Update("announced", p) \in announced
      BY <1>1, <2>2, UpdateType DEF Announced, Recipients, Kinds, Spawns, Shared
    <3> QED BY <3>1 DEF Spawns, Shared
  <2> QED BY <2>1, <2>2
<1>8. sendAfterSpawn'[x] = {r \in sendAfterSpawn[x] : ~(x = p /\ Ready(p))}
                           \cup {r \in InWorld : x \in populating /\ Deferred(x) /\ r # x}
  BY DEF Prepared
<1>9. \A kind, q : Update(kind, q).kind = kind /\ Update(kind, q).about = q
  BY DEF Update
<1>10. "populated" \in Spawns /\ "delete" \notin Spawns
  BY DEF Spawns, Shared
<1> HIDE DEF told, announced, news
<1>11. ASSUME NEW q \in SpawnsIn(queue[x] \cup shown[x]) PROVE q \in ToldTo(x) \cup news
  <2>1. PICK kind \in Spawns : Update(kind, q) \in queue[x] \cup shown[x]
    BY DEF SpawnsIn
  <2>2. CASE Update(kind, q) \in Known(x)
    BY <2>2 DEF ToldTo, SpawnsIn
  <2>3. CASE Update(kind, q) \in told
    BY <1>3, <1>4, <1>5, <1>9, <2>3 DEF ToldTo
  <2>4. CASE Update(kind, q) \in announced
    BY <1>3, <1>6, <1>9, <2>4
  <2> QED BY <1>2, <2>1, <2>2, <2>3, <2>4 DEF Known
<1>12. ASSUME NEW q \in ToldTo(x) \cup news
       PROVE  q \in SpawnsIn(queue[x] \cup shown[x]) \cup sendAfterSpawn'[x]
  <2>1. CASE q \in SpawnsIn(Known(x))
    BY <1>2, <2>1, AboutMonotone
  <2>2. CASE Update("populated", q) \in told
    BY <1>1, <1>2, <1>4, <1>10, <2>2 DEF SpawnsIn
  <2>3. CASE q \in sendAfterSpawn'[x]
    BY <2>3
  <2>4. CASE Spawning(p, command) /\ q = p /\ x \in InWorld
    BY <1>1, <1>2, <1>7, <2>4 DEF SpawnsIn
  <2> QED BY <1>3, <1>4, <1>8, <2>1, <2>2, <2>3, <2>4 DEF ToldTo
<1>13. sendAfterSpawn'[x] \subseteq ToldTo(x) \cup news
  BY <1>3, <1>8 DEF ToldTo
<1>14. DeletionsIn(queue[x] \cup shown[x]) = DeletionsIn(Known(x))
  <2>1. \A q : Update("delete", q) \notin told \cup announced
    BY <1>5, <1>6, <1>9
  <2> QED BY <1>2, <2>1 DEF DeletionsIn, Known
<1>15. SpawnsIn(queue[x] \cup shown[x]) \cup sendAfterSpawn'[x] = ToldTo(x) \cup news
  BY <1>11, <1>12, <1>13
<1> QED BY <1>14, <1>15 DEF news, Tells

Past == {q \in Players : status[q] \in {"left", "dropped"}}
HaveSpawned == {q \in Players : status[q] = "spawned"}
Populated == {q \in Players : worldPopulated[q]}

LEMMA ServeMaps ==
  ASSUME TypeOK, NEW p \in InWorld, NEW queue, Flushed(p, queue), InWorld' = InWorld,
         Past' = Past, HaveSpawned' \in {HaveSpawned, HaveSpawned \cup {p}},
         Populated \subseteq Populated', Populated' \subseteq Populated \cup InWorld,
         NEW news, \A x \in Players : news[x] = Promised!News(x),
         \A x \in Players : Tells(queue, news, x)
  PROVE  Promised!Serve(p)
<1> DEFINE told == [x \in Players |-> ToldTo(x)]
           toldNext == [x \in Players |-> ToldTo(x)']
           seen == [x \in Players |-> SpawnsIn(shown[x])]
           seenNext == [x \in Players |-> SpawnsIn(shown'[x])]
           ended == [x \in Players |-> DeletionsIn(shown[x])]
           endedNext == [x \in Players |-> DeletionsIn(shown'[x])]
<1>1. p \in Players
  BY DEF InWorld
<1>2. \A x \in Players : news[x] \subseteq InWorld
  BY DEF Promised!News
<1>3. /\ \E lapsed \in SUBSET (ToldTo(p) \ (InWorld \cup SpawnsIn(shown[p]))) :
           \A x \in Players :
             ToldTo(x)' = (ToldTo(x) \ (IF x = p THEN lapsed ELSE {})) \cup news[x]
      /\ \E now \in SUBSET (ToldTo(p)' \cap InWorld) :
           \A x \in Players :
             SpawnsIn(shown'[x]) = SpawnsIn(shown[x]) \cup (IF x = p THEN now ELSE {})
      /\ \E now \in SUBSET DeletionsIn(Known(p)) :
           \A x \in Players :
             DeletionsIn(shown'[x]) = DeletionsIn(shown[x]) \cup (IF x = p THEN now ELSE {})
      /\ \A x \in Players : DeletionsIn(Known(x))' = DeletionsIn(Known(x))
  BY <1>2, FlushServes
<1>4. \E lapsed \in SUBSET (told[p] \ (InWorld \cup seen[p])) :
        toldNext = [x \in Players |-> (told[x] \ (IF x = p THEN lapsed ELSE {})) \cup Promised!News(x)]
  BY <1>1, <1>3
<1>5. \E now \in SUBSET (toldNext[p] \cap InWorld) :
        seenNext = [seen EXCEPT ![p] = seen[p] \cup now]
  <2>1. PICK now \in SUBSET (toldNext[p] \cap InWorld) :
          \A x \in Players :
            SpawnsIn(shown'[x]) = SpawnsIn(shown[x]) \cup (IF x = p THEN now ELSE {})
    BY <1>1, <1>3
  <2>2. seenNext = [seen EXCEPT ![p] = seen[p] \cup now]
    BY <1>1, <2>1
  <2> QED BY <2>2
<1>6. \E now \in SUBSET DeletionsIn(Known(p)) :
        endedNext = [ended EXCEPT ![p] = ended[p] \cup now]
  <2>1. PICK now \in SUBSET DeletionsIn(Known(p)) :
          \A x \in Players :
            DeletionsIn(shown'[x]) = DeletionsIn(shown[x]) \cup (IF x = p THEN now ELSE {})
    BY <1>1, <1>3
  <2>2. endedNext = [ended EXCEPT ![p] = ended[p] \cup now]
    BY <1>1, <2>1
  <2> QED BY <2>2
<1>7. [x \in Players |-> DeletionsIn(Known(x))]' = [x \in Players |-> DeletionsIn(Known(x))]
  BY <1>3
<1>8. /\ toldNext = [x \in Players |-> SpawnsIn(Known(x)) \cup sendAfterSpawn[x]]'
      /\ seenNext = [x \in Players |-> SpawnsIn(shown[x])]'
      /\ endedNext = [x \in Players |-> DeletionsIn(shown[x])]'
      /\ told = [x \in Players |-> SpawnsIn(Known(x)) \cup sendAfterSpawn[x]]
      /\ seen = [x \in Players |-> SpawnsIn(shown[x])]
      /\ ended = [x \in Players |-> DeletionsIn(shown[x])]
      /\ [x \in Players |-> DeletionsIn(Known(x))][p] = DeletionsIn(Known(p))
  BY <1>1 DEF ToldTo, SpawnsIn, DeletionsIn
<1>9. Promised!Tell(p)
  BY <1>4 DEF Promised!Tell, ToldTo
<1> HIDE DEF told, toldNext, seen, seenNext, ended, endedNext
<1>10. Promised!Show(p)
  BY <1>5, <1>6, <1>8 DEF Promised!Show
<1> QED BY <1>7, <1>9, <1>10 DEF Promised!Serve, Past, HaveSpawned, Populated

LEMMA HandleServes ==
  ASSUME IInv, NEW p \in Players, NEW acks \in SUBSET got[p], NEW command \in Commands,
         HandlePacket(p, acks, command)
  PROVE  Promised!Serve(p)
<1> DEFINE populating == Populating(p, acks, command)
           queue == QueueWith(p, acks, command, populating)
           spawning == Spawning(p, command)
           news == NewsOf(p, command, populating)
<1>1. /\ p \in InWorld /\ TypeOK
      /\ status' = [status EXCEPT ![p] = IF spawning THEN "spawned" ELSE status[p]]
      /\ worldPopulated' = [x \in Players |-> worldPopulated[x] \/ x \in populating]
      /\ \A x \in Players : sendAfterSpawn'[x] = Prepared(p, populating, x)
  BY DEF HandlePacket, IInv, Prepared
<1>2. populating \subseteq InWorld /\ \A x \in populating : ~worldPopulated[x]
  BY DEF Populating, Called
<1>3. spawning => status[p] = "connected"
  BY DEF Spawning
<1>4. Flushed(p, queue)
  BY <1>1, HandleFlushes
<1>5. \A x \in Players : Tells(queue, news, x)
  <2> SUFFICES ASSUME NEW x \in Players PROVE Tells(queue, news, x)
    OBVIOUS
  <2> HIDE DEF populating
  <2> QED BY <1>1, <1>2, HandleTells
<1>6. \A x \in Players :
        news[x] = {q \in InWorld : \/ spawning /\ q = p /\ x \in InWorld
                                   \/ x \in populating /\ q # x}
  BY DEF NewsOf
<1> HIDE DEF populating, queue, spawning, news
<1>7. InWorld' = InWorld /\ Past' = Past
  BY <1>1, <1>3 DEF InWorld, Past, TypeOK
<1>8. HaveSpawned' = IF spawning THEN HaveSpawned \cup {p} ELSE HaveSpawned
  BY <1>1, <1>3 DEF HaveSpawned, TypeOK
<1>9. spawning => p \notin HaveSpawned
  BY <1>3 DEF HaveSpawned
<1>10. Populated' = Populated \cup populating /\ populating \cap Populated = {}
  BY <1>1, <1>2 DEF Populated, TypeOK, InWorld
<1>11. \A x \in Players : news[x] = Promised!News(x)
  <2>1. \A x : Promised!News(x) =
           {q \in InWorld \cap Players : \/ x \in InWorld /\ q \in HaveSpawned' \ HaveSpawned
                                         \/ x \in Populated' \ Populated /\ q # x}
    BY DEF Promised!News, HaveSpawned, Populated
  <2>2. HaveSpawned' \ HaveSpawned = IF spawning THEN {p} ELSE {}
    BY <1>8, <1>9
  <2>3. Populated' \ Populated = populating /\ InWorld \cap Players = InWorld
    BY <1>10 DEF InWorld
  <2> QED BY <1>1, <1>6, <2>1, <2>2, <2>3
<1> QED BY <1>1, <1>2, <1>4, <1>5, <1>7, <1>8, <1>10, <1>11, ServeMaps

LEMMA ResendServes ==
  ASSUME IInv, NEW p \in Players, CheckAndResend(p)
  PROVE  Promised!Serve(p)
<1>1. PICK due \in DueOnTimer(p), rejected \in SUBSET shown[p] :
             Flush(p, queuedStates, due, rejected)
  BY DEF CheckAndResend, Resend
<1>2. /\ UNCHANGED <<status, worldPopulated, sendAfterSpawn>> /\ p \in InWorld /\ TypeOK
      /\ InWorld' = InWorld /\ Past' = Past
      /\ HaveSpawned' = HaveSpawned /\ Populated' = Populated
  BY DEF CheckAndResend, Resend, IInv, InWorld, Past, HaveSpawned, Populated
<1>3. due \subseteq queuedStates[p] /\ queuedStates \in [Players -> SUBSET Updates]
  BY <1>2 DEF DueOnTimer, TypeOK
<1>4. Flushed(p, queuedStates)
  BY <1>1, <1>2, <1>3, FlushEffect
<1> DEFINE news == [x \in Players |-> {}]
<1>5. \A x \in Players : news[x] = Promised!News(x)
  BY <1>2 DEF Promised!News, HaveSpawned, Populated
<1>6. \A x \in Players : Tells(queuedStates, news, x)
  BY <1>2 DEF Tells, ToldTo, Known
<1> HIDE DEF news
<1> QED BY <1>2, <1>4, <1>5, <1>6, ServeMaps

LEMMA LeaveParts ==
  ASSUME IInv, NEW p \in Players, Leave(p)
  PROVE  Promised!Leave(p)
<1> DEFINE news(x) == {u \in {Update("delete", p)} : Announces(p) /\ x \in Recipients(p)}
<1>1. /\ p \in InWorld /\ TypeOK
      /\ status' = [status EXCEPT ![p] = IF status[p] = "spawned" THEN "left" ELSE "dropped"]
      /\ queuedStates' = [x \in Players |-> IF x = p THEN {} ELSE queuedStates[x] \cup news(x)]
      /\ sendAfterSpawn' = [sendAfterSpawn EXCEPT ![p] = {}]
      /\ shown' = [shown EXCEPT ![p] = {}]
      /\ UNCHANGED worldPopulated
  BY DEF Leave, IInv
<1>2. InWorld' = InWorld \ {p} /\ Past' = Past \cup {p} /\ HaveSpawned' = HaveSpawned \ {p}
  BY <1>1 DEF InWorld, Past, HaveSpawned, TypeOK
<1>3. SpawnsIn({}) = {} /\ DeletionsIn({}) = {}
  BY DEF SpawnsIn, DeletionsIn
<1>4. /\ Known(p)' = {} /\ shown'[p] = {} /\ sendAfterSpawn'[p] = {}
      /\ \A x \in Players : x # p => /\ Known(x)' = Known(x) \cup news(x)
                                     /\ shown'[x] = shown[x]
                                     /\ sendAfterSpawn'[x] = sendAfterSpawn[x]
  BY <1>1 DEF Known, TypeOK
<1>5. \A x \in Players : x # p => SpawnsIn(Known(x) \cup news(x)) = SpawnsIn(Known(x))
  BY DEF SpawnsIn, Update, Spawns, Shared
<1>6. \A x \in Players : x # p =>
        DeletionsIn(Known(x) \cup news(x))
          = DeletionsIn(Known(x)) \cup {q \in {p} \cap HaveSpawned : x \in InWorld}
  BY DEF DeletionsIn, Update, Announces, Recipients, HaveSpawned
<1> HIDE DEF news
<1>7. /\ [x \in Players |-> SpawnsIn(Known(x)) \cup sendAfterSpawn[x]]'
           = [[x \in Players |-> SpawnsIn(Known(x)) \cup sendAfterSpawn[x]] EXCEPT ![p] = {}]
      /\ [x \in Players |-> SpawnsIn(shown[x])]'
           = [[x \in Players |-> SpawnsIn(shown[x])] EXCEPT ![p] = {}]
      /\ [x \in Players |-> DeletionsIn(shown[x])]'
           = [[x \in Players |-> DeletionsIn(shown[x])] EXCEPT ![p] = {}]
  <2>1. \A x \in Players :
          /\ SpawnsIn(Known(x)') \cup sendAfterSpawn'[x]
               = IF x = p THEN {} ELSE SpawnsIn(Known(x)) \cup sendAfterSpawn[x]
          /\ SpawnsIn(shown'[x]) = IF x = p THEN {} ELSE SpawnsIn(shown[x])
          /\ DeletionsIn(shown'[x]) = IF x = p THEN {} ELSE DeletionsIn(shown[x])
    BY <1>3, <1>4, <1>5
  <2>2. \A x \in Players : SpawnsIn(Known(x))' = SpawnsIn(Known(x)')
    BY DEF SpawnsIn
  <2>3. \A x \in Players : /\ SpawnsIn(shown[x])' = SpawnsIn(shown'[x])
                           /\ DeletionsIn(shown[x])' = DeletionsIn(shown'[x])
    BY DEF SpawnsIn, DeletionsIn
  <2> QED BY <2>1, <2>2, <2>3
<1>8. [x \in Players |-> DeletionsIn(Known(x))]'
        = [x \in Players |->
             IF x = p THEN {}
             ELSE [y \in Players |-> DeletionsIn(Known(y))][x]
                  \cup {q \in {p} \cap HaveSpawned : x \in InWorld}]
  <2>1. \A x \in Players :
          DeletionsIn(Known(x)') = IF x = p THEN {}
                                   ELSE DeletionsIn(Known(x))
                                        \cup {q \in {p} \cap HaveSpawned : x \in InWorld}
    BY <1>3, <1>4, <1>6
  <2>2. \A x \in Players : DeletionsIn(Known(x))' = DeletionsIn(Known(x)')
    BY DEF DeletionsIn
  <2> QED BY <2>1, <2>2
<1> QED BY <1>1, <1>2, <1>7, <1>8 DEF Promised!Leave, Past, HaveSpawned

LEMMA PresenceStep ==
  IInv /\ [Next]_vars => [Promised!Next]_(Promised!vars)
<1> SUFFICES ASSUME IInv, [Next]_vars PROVE [Promised!Next]_(Promised!vars)
  OBVIOUS
<1>1. ASSUME UNCHANGED <<status, worldPopulated, sendAfterSpawn, queuedStates, shown>>
      PROVE  UNCHANGED Promised!vars
  BY <1>1 DEF Promised!vars, InWorld, SpawnsIn, DeletionsIn, Known
<1>2. CASE Next
  <2> PICK p \in Players : Step(p)
    BY <1>2 DEF Next
  <2>1. CASE Connect(p)
    <3>1. /\ p \notin InWorld \cup Past /\ InWorld' = InWorld \cup {p}
          /\ Past' = Past /\ HaveSpawned' = HaveSpawned
          /\ UNCHANGED <<worldPopulated, sendAfterSpawn, queuedStates, shown>>
      BY <2>1 DEF Connect, InWorld, Past, HaveSpawned, IInv, TypeOK
    <3>2. Promised!Enter(p)
      BY <3>1 DEF Promised!Enter, Past, HaveSpawned, SpawnsIn, DeletionsIn, Known
    <3> QED BY <3>2 DEF Promised!Next
  <2>2. CASE Leave(p)
    BY <2>2, LeaveParts DEF Promised!Next
  <2>3. CASE CheckAndResend(p)
    BY <2>3, ResendServes DEF Promised!Next
  <2>4. CASE \E u \in Updates : ClientReceive(p, u)
    BY <1>1, <2>4 DEF ClientReceive
  <2>5. CASE \E acks \in SUBSET got[p], command \in Commands : HandlePacket(p, acks, command)
    BY <2>5, HandleServes DEF Promised!Next
  <2> QED BY <2>1, <2>2, <2>3, <2>4, <2>5 DEF Step
<1> QED BY <1>1, <1>2 DEF vars

(* SpawnSelf, PopulateWorld, m_sendAfterSpawn, the queues and the          *)
(* destructor together keep the promise of Presence, for any number of     *)
(* players: nobody present misses a spawn, no spawn follows its player,    *)
(* and those who are present are told when one who has spawned leaves.     *)
THEOREM PresenceRefinement == Spec => ImplementsPresence
<1>1. Init => Promised!Init
  BY DEF Init, Promised!Init, Promised!Nobody, InWorld, SpawnsIn, DeletionsIn, Known
<1> QED BY <1>1, PresenceStep, Invariance, PTL DEF Spec, ImplementsPresence, Promised!Spec
=============================================================================
