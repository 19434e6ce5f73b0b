---------------------------- MODULE FQueue_proofs ----------------------------
(***************************************************************************)
(* The executor's queue over the condition variable of Windows does what   *)
(* Database takes it for, for any number of server threads and handles.    *)
(***************************************************************************)
EXTENDS FQueue, Database_proofs

(* Being inside and owning the mutex are the same, and the count is right. *)
LockInv ==
  /\ \A c \in Callers : owner = c <=> at[c] \in Inside
  /\ owner = Nobody => m_nLockCount = 0
  /\ owner # Nobody => m_nLockCount = 1
  /\ at[Executor] \in {"asleep", "awake"} => saved = 1

StageInv ==
  /\ \A t \in Threads : /\ at[t] \in {"out", "in", "signal", "set", "done"}
                        /\ at[t] = "in" => pc[t] = "push"
  /\ at[Executor] \in {"out", "in", "done", "enlisted", "asleep", "awake"}
  /\ at[Executor] \in {"enlisted", "asleep", "awake"} => pc[Executor] = "waiting"
  /\ pc[Executor] = "waiting" => at[Executor] \in {"in", "enlisted", "asleep", "awake"}
  /\ at[Master] \in {"out", "in", "done", "clear"}
  /\ inCritSec <=> at[Master] = "clear"

(* Outside Broadcast, a handle in the deque is that of a sleeper nobody    *)
(* has woken; a handle taken off is about to be set; and what is set or    *)
(* about to be set has been woken in the sense of Database.                *)
EventInv ==
  /\ Waiting => hWaitEvent \in open
  /\ m_deqWaitSet # <<>> /\ ~inCritSec =>
       Waiting /\ m_deqWaitSet = <<hWaitEvent>> /\ hWaitEvent \notin signalled
  /\ Waiting /\ ~woken => m_deqWaitSet = <<hWaitEvent>> /\ ~inCritSec
  /\ popped # NoHandle =>
       /\ Waiting /\ popped = hWaitEvent /\ hWaitEvent \notin signalled
       /\ woken /\ m_deqWaitSet = <<>>
       /\ \E t \in Threads : at[t] = "set"
  /\ \A t \in Threads : at[t] = "set" => popped # NoHandle
  /\ \A t \in Threads : at[t] = "signal" /\ Waiting => woken
  /\ Waiting /\ hWaitEvent \in signalled => woken
  /\ at[Executor] = "awake" \/ (at[Executor] = "in" /\ pc[Executor] = "waiting") => woken

QueueInv ==
  IInv /\ QueueTypeOK /\ LockInv /\ StageInv /\ EventInv /\ NotificationNotMissed

(* What a step must keep, once it is known to be a step of Database.       *)
QueueRest == QueueTypeOK /\ LockInv /\ StageInv /\ EventInv /\ NotificationNotMissed

-----------------------------------------------------------------------------
LEMMA CallerFacts ==
  /\ Executor \in Callers /\ Master \in Callers /\ Executor # Master
  /\ Nobody \notin Callers /\ Threads \subseteq Callers
  /\ \A t \in Threads : t # Executor /\ t # Master
  /\ \A c \in Callers : c \in Threads \/ c = Executor \/ c = Master
BY ActorFacts, FQueueAssumption DEF Callers, Actors, Executor, Master, Nobody

LEMMA MoveFacts ==
  ASSUME QueueTypeOK, NEW c \in Callers, NEW from, NEW to \in Stages, Move(c, from, to)
  PROVE  /\ at' \in [Callers -> Stages] /\ at[c] = from /\ at'[c] = to
         /\ \A d \in Callers : d # c => at'[d] = at[d]
BY DEF QueueTypeOK, Move

(* A caller that moves from one place inside to another keeps the mutex.   *)
LEMMA StaysInside ==
  ASSUME QueueTypeOK, LockInv, NEW c \in Callers, NEW from \in Inside, NEW to \in Inside,
         Move(c, from, to), UNCHANGED lockVars
  PROVE  /\ LockInv' /\ owner = c
         /\ \A d \in Callers : d # c => at[d] \notin Inside /\ at'[d] \notin Inside
<1>1. to \in Stages
  BY DEF Inside, Stages
<1>2. at[c] = from /\ at'[c] = to /\ \A d \in Callers : d # c => at'[d] = at[d]
  BY <1>1, MoveFacts
<1>3. owner = c
  BY <1>2 DEF LockInv
<1>4. to \notin {"asleep", "awake"}
  BY DEF Inside
<1> QED BY <1>2, <1>3, <1>4, CallerFacts DEF LockInv, lockVars

-----------------------------------------------------------------------------
(* The mutex is taken and given back.                                      *)

LEMMA EnterMutexInv ==
  ASSUME QueueInv, NEW c \in Callers, BeginSynchronized(c)
  PROVE  QueueRest'
<1> USE CallerFacts DEF QueueInv
<1>1. /\ UNCHANGED vars /\ UNCHANGED <<saved, eventVars>>
      /\ owner = Nobody /\ owner' = c /\ m_nLockCount' = m_nLockCount + 1
      /\ UNCHANGED <<pc, woken, queue>> /\ Calls(c)
  BY DEF BeginSynchronized, Enter, vars, execVars
<1>2. /\ at' \in [Callers -> Stages] /\ at[c] = "out" /\ at'[c] = "in"
      /\ \A d \in Callers : d # c => at'[d] = at[d]
  BY MoveFacts DEF BeginSynchronized, Stages
<1>3. /\ \A t \in Threads : at'[t] \in {"signal", "set"} <=> at[t] \in {"signal", "set"}
      /\ \A t \in Threads : at'[t] = "signal" <=> at[t] = "signal"
      /\ \A t \in Threads : at'[t] = "set" <=> at[t] = "set"
      /\ \A x \in {"enlisted", "asleep", "awake"} : at'[Executor] = x <=> at[Executor] = x
      /\ at'[Master] = "clear" <=> at[Master] = "clear"
  BY <1>2
<1>4. Waiting' <=> Waiting
  BY <1>3 DEF Waiting
<1>5. QueueTypeOK'
  BY <1>1, <1>2 DEF QueueTypeOK, eventVars
<1>6. LockInv'
  BY <1>1, <1>2, <1>3 DEF LockInv, Inside
<1>7. StageInv'
  <2>1. \A t \in Threads : /\ at'[t] \in {"out", "in", "signal", "set", "done"}
                           /\ at'[t] = "in" => pc'[t] = "push"
    BY <1>1, <1>2 DEF StageInv, Calls
  <2>2. /\ at'[Executor] \in {"out", "in", "done", "enlisted", "asleep", "awake"}
        /\ pc'[Executor] = "waiting" => at'[Executor] \in {"in", "enlisted", "asleep", "awake"}
        /\ at'[Executor] \in {"enlisted", "asleep", "awake"} => pc'[Executor] = "waiting"
    BY <1>1, <1>2 DEF StageInv
  <2> QED BY <2>1, <2>2, <1>1, <1>2 DEF StageInv, eventVars
<1>8. at'[Executor] = "in" /\ pc'[Executor] = "waiting" =>
        at[Executor] = "in" /\ pc[Executor] = "waiting"
  BY <1>1, <1>2 DEF StageInv
<1>9. EventInv'
  BY <1>1, <1>3, <1>4, <1>8 DEF EventInv, eventVars
<1>10. NotificationNotMissed'
  BY <1>1, <1>3, <1>4 DEF NotificationNotMissed, eventVars
<1> QED BY <1>5, <1>6, <1>7, <1>9, <1>10 DEF QueueRest

LEMMA LeaveMutexInv ==
  ASSUME QueueInv, NEW c \in Callers, EndSynchronized(c)
  PROVE  QueueRest'
<1> USE CallerFacts DEF QueueInv
<1>1. /\ UNCHANGED vars /\ UNCHANGED <<saved, eventVars>>
      /\ owner' = Nobody /\ m_nLockCount' = m_nLockCount - 1
      /\ UNCHANGED <<pc, woken, queue>>
  BY DEF EndSynchronized, vars, execVars
<1>2. /\ at' \in [Callers -> Stages] /\ at[c] = "done" /\ at'[c] = "out"
      /\ \A d \in Callers : d # c => at'[d] = at[d]
  BY MoveFacts DEF EndSynchronized, Stages
<1>3. /\ \A t \in Threads : at'[t] = "signal" <=> at[t] = "signal"
      /\ \A t \in Threads : at'[t] = "set" <=> at[t] = "set"
      /\ \A t \in Threads : at'[t] = "in" <=> at[t] = "in"
      /\ \A x \in {"in", "enlisted", "asleep", "awake"} : at'[Executor] = x <=> at[Executor] = x
      /\ at'[Master] = "clear" <=> at[Master] = "clear"
  BY <1>2
<1>4. Waiting' <=> Waiting
  BY <1>3 DEF Waiting
<1>5. owner = c /\ m_nLockCount = 1
  BY <1>2 DEF LockInv, Inside
<1>6. QueueTypeOK'
  BY <1>1, <1>2, <1>5 DEF QueueTypeOK, eventVars
<1>7. LockInv'
  BY <1>1, <1>2, <1>3, <1>5 DEF LockInv, Inside
<1>8. StageInv'
  <2>1. pc[Executor] = "waiting" => Executor # c
    BY <1>2 DEF StageInv
  <2> QED BY <2>1, <1>1, <1>2, <1>3 DEF StageInv, eventVars
<1>9. EventInv'
  BY <1>1, <1>3, <1>4 DEF EventInv, eventVars
<1>10. NotificationNotMissed'
  BY <1>1, <1>3, <1>4 DEF NotificationNotMissed, eventVars
<1> QED BY <1>6, <1>7, <1>8, <1>9, <1>10 DEF QueueRest

(* A step outside the queue that neither wakes nor puts to sleep.          *)
LEMMA OutsideInv ==
  ASSUME QueueInv, UNCHANGED queueVars, UNCHANGED woken,
         pc'[Executor] = "waiting" <=> pc[Executor] = "waiting",
         \A t \in Threads : at[t] = "in" => pc'[t] = pc[t]
  PROVE  QueueRest'
<1> USE CallerFacts DEF QueueInv
<1>1. UNCHANGED <<at, owner, m_nLockCount, saved, m_deqWaitSet, inCritSec, open, signalled, hWaitEvent, popped>>
  BY DEF queueVars, lockVars, eventVars
<1>2. Waiting' <=> Waiting
  BY <1>1 DEF Waiting
<1>3. QueueTypeOK' /\ LockInv'
  BY <1>1 DEF QueueTypeOK, LockInv
<1>4. StageInv'
  BY <1>1 DEF StageInv
<1>5. EventInv'
  BY <1>1, <1>2 DEF EventInv
<1>6. NotificationNotMissed'
  BY <1>1, <1>2 DEF NotificationNotMissed
<1> QED BY <1>3, <1>4, <1>5, <1>6 DEF QueueRest

-----------------------------------------------------------------------------
(* push.                                                                   *)

LEMMA PushItemInv ==
  ASSUME QueueInv, NEW t \in Threads, PushItem(t)
  PROVE  QueueRest'
<1> USE CallerFacts DEF QueueInv
<1>1. UNCHANGED <<owner, m_nLockCount, saved, m_deqWaitSet, inCritSec, open, signalled, hWaitEvent, popped>>
  BY DEF PushItem, lockVars, eventVars
<1>2. /\ pc' = [pc EXCEPT ![t] = "idle"]
      /\ woken' = (woken \/ (queue = <<>> /\ pc[Executor] = "waiting"))
  BY DEF PushItem, Push, Goto
<1> DEFINE next == IF queue = <<>> THEN "signal" ELSE "done"
<1>3. Move(t, "in", next) /\ next \in Stages /\ next \in Inside /\ "in" \in Inside /\ t \in Callers
  BY DEF PushItem, Stages, Inside
<1> HIDE DEF next
<1>4. /\ at' \in [Callers -> Stages] /\ at[t] = "in" /\ at'[t] = next
      /\ \A d \in Callers : d # t => at'[d] = at[d]
  BY <1>3, MoveFacts
<1>5. /\ LockInv' /\ owner = t
      /\ \A d \in Callers : d # t => at[d] \notin Inside /\ at'[d] \notin Inside
  BY <1>1, <1>3, StaysInside DEF lockVars
<1>6. \A u \in Threads : u # t => at'[u] = at[u] /\ at[u] \notin {"in", "signal", "set"}
  BY <1>4, <1>5 DEF Inside
<1>7. /\ at'[Executor] = at[Executor] /\ at[Executor] \notin {"in", "enlisted"}
      /\ at'[Master] = at[Master]
      /\ pc'[Executor] = pc[Executor]
  BY <1>2, <1>4, <1>5, ActorFacts DEF Inside, TypeOK
<1>8. Waiting' <=> Waiting
  BY <1>7 DEF Waiting
<1>9. QueueTypeOK'
  BY <1>1, <1>4 DEF QueueTypeOK
<1>10. StageInv'
  <2>1. next \in {"signal", "done"}
    BY DEF next
  <2>2. \A u \in Threads : /\ at'[u] \in {"out", "in", "signal", "set", "done"}
                           /\ at'[u] = "in" => pc'[u] = "push"
    BY <2>1, <1>4, <1>6 DEF StageInv
  <2> QED BY <2>2, <1>1, <1>7 DEF StageInv
<1>11. Waiting /\ next = "signal" => woken'
  BY <1>2 DEF next, StageInv, Waiting
<1>12. EventInv'
  <2>1. popped = NoHandle
    BY <1>4, <1>6 DEF EventInv
  <2>2. \A u \in Threads : at'[u] = "set" => popped' # NoHandle
    BY <1>4, <1>6 DEF next
  <2>3. \A u \in Threads : at'[u] = "signal" /\ Waiting' => woken'
    BY <1>4, <1>6, <1>8, <1>11
  <2>4. woken => woken'
    BY <1>2
  <2> QED BY <2>1, <2>2, <2>3, <2>4, <1>1, <1>7, <1>8 DEF EventInv
<1>13. NotificationNotMissed'
  <2> SUFFICES ASSUME Waiting, woken', hWaitEvent \notin signalled
               PROVE  next = "signal" /\ m_deqWaitSet = <<hWaitEvent>> /\ ~inCritSec
    BY <1>1, <1>4, <1>8 DEF NotificationNotMissed
  <2>1. ~woken
    BY <1>4, <1>6 DEF NotificationNotMissed
  <2>2. queue = <<>>
    BY <2>1, <1>2
  <2> QED BY <2>1, <2>2 DEF EventInv, next
<1> QED BY <1>5, <1>9, <1>10, <1>12, <1>13 DEF QueueRest

LEMMA SignalPopInv ==
  ASSUME QueueInv, NEW t \in Threads, SignalPop(t)
  PROVE  QueueRest'
<1> USE CallerFacts DEF QueueInv
<1>1. /\ UNCHANGED <<owner, m_nLockCount, saved, inCritSec, open, signalled, hWaitEvent, pc, woken>>
      /\ ~inCritSec
  BY DEF SignalPop, lockVars, vars, execVars
<1> DEFINE next == IF m_deqWaitSet = <<>> THEN "done" ELSE "set"
<1>2. /\ Move(t, "signal", next)
      /\ IF m_deqWaitSet = <<>> THEN UNCHANGED <<m_deqWaitSet, popped>>
         ELSE popped' = Head(m_deqWaitSet) /\ m_deqWaitSet' = Tail(m_deqWaitSet)
      /\ next \in Stages /\ next \in Inside /\ "signal" \in Inside /\ t \in Callers
  BY DEF SignalPop, Stages, Inside
<1> HIDE DEF next
<1>3. /\ at' \in [Callers -> Stages] /\ at[t] = "signal" /\ at'[t] = next
      /\ \A d \in Callers : d # t => at'[d] = at[d]
  BY <1>2, MoveFacts
<1>4. /\ LockInv' /\ owner = t
      /\ \A d \in Callers : d # t => at[d] \notin Inside /\ at'[d] \notin Inside
  BY <1>1, <1>2, StaysInside DEF lockVars
<1>5. \A u \in Threads : u # t => at'[u] = at[u] /\ at[u] \notin {"in", "signal", "set"}
  BY <1>3, <1>4 DEF Inside
<1>6. /\ at'[Executor] = at[Executor] /\ at[Executor] \notin {"in", "enlisted"}
      /\ at'[Master] = at[Master]
  BY <1>3, <1>4 DEF Inside
<1>7. Waiting' <=> Waiting
  BY <1>6 DEF Waiting
<1>8. popped = NoHandle
  BY <1>3, <1>5 DEF EventInv
<1>9. CASE m_deqWaitSet = <<>>
  <2>1. next = "done" /\ UNCHANGED <<m_deqWaitSet, popped>>
    BY <1>9, <1>2 DEF next
  <2>2. QueueTypeOK'
    BY <2>1, <1>1, <1>3 DEF QueueTypeOK
  <2>3. StageInv'
    BY <2>1, <1>1, <1>3, <1>5, <1>6 DEF StageInv
  <2>4. EventInv'
    BY <2>1, <1>1, <1>3, <1>5, <1>6, <1>7, <1>8 DEF EventInv
  <2>5. NotificationNotMissed'
    BY <2>1, <1>1, <1>3, <1>5, <1>7, <1>8, <1>9 DEF NotificationNotMissed
  <2> QED BY <2>2, <2>3, <2>4, <2>5, <1>4 DEF QueueRest
<1>10. CASE m_deqWaitSet # <<>>
  <2>1. /\ Waiting /\ m_deqWaitSet = <<hWaitEvent>> /\ hWaitEvent \notin signalled
        /\ woken
    BY <1>1, <1>3, <1>10 DEF EventInv
  <2>2. next = "set" /\ popped' = hWaitEvent /\ m_deqWaitSet' = <<>>
    BY <2>1, <1>2, <1>10 DEF next
  <2>3. hWaitEvent \in open /\ hWaitEvent \in Handles
    BY <2>1 DEF EventInv, QueueTypeOK
  <2>4. QueueTypeOK'
    BY <2>2, <2>3, <1>1, <1>3 DEF QueueTypeOK
  <2>5. StageInv'
    BY <2>2, <1>1, <1>3, <1>5, <1>6 DEF StageInv
  <2>6. popped' # NoHandle
    BY <2>2, <2>3, FQueueAssumption
  <2>7. EventInv'
    BY <2>1, <2>2, <2>3, <2>6, <1>1, <1>3, <1>5, <1>6, <1>7 DEF EventInv
  <2>8. NotificationNotMissed'
    BY <2>2, <1>1, <1>3 DEF NotificationNotMissed
  <2> QED BY <2>4, <2>5, <2>7, <2>8, <1>4 DEF QueueRest
<1> QED BY <1>9, <1>10

LEMMA SignalSetInv ==
  ASSUME QueueInv, NEW t \in Threads, SignalSet(t)
  PROVE  QueueRest'
<1> USE CallerFacts DEF QueueInv
<1>1. /\ UNCHANGED <<owner, m_nLockCount, saved, m_deqWaitSet, inCritSec, open, hWaitEvent, pc, woken>>
      /\ signalled' = signalled \cup ({popped} \cap open) /\ popped' = NoHandle
  BY DEF SignalSet, lockVars, vars, execVars
<1>2. Move(t, "set", "done") /\ "set" \in Inside /\ "done" \in Inside /\ t \in Callers /\ "done" \in Stages
  BY DEF SignalSet, Inside, Stages
<1>3. /\ at' \in [Callers -> Stages] /\ at[t] = "set" /\ at'[t] = "done"
      /\ \A d \in Callers : d # t => at'[d] = at[d]
  BY <1>2, MoveFacts
<1>4. /\ LockInv' /\ owner = t
      /\ \A d \in Callers : d # t => at[d] \notin Inside /\ at'[d] \notin Inside
  BY <1>1, <1>2, StaysInside DEF lockVars
<1>5. \A u \in Threads : u # t => at'[u] = at[u] /\ at[u] \notin {"in", "signal", "set"}
  BY <1>3, <1>4 DEF Inside
<1>6. /\ at'[Executor] = at[Executor] /\ at[Executor] \notin {"in", "enlisted"}
      /\ at'[Master] = at[Master]
  BY <1>3, <1>4 DEF Inside
<1>7. Waiting' <=> Waiting
  BY <1>6 DEF Waiting
<1>8. /\ Waiting /\ popped = hWaitEvent /\ woken /\ m_deqWaitSet = <<>>
      /\ hWaitEvent \in open /\ hWaitEvent \in Handles
  BY <1>3 DEF EventInv, QueueTypeOK
<1>9. signalled' = signalled \cup {hWaitEvent}
  BY <1>1, <1>8
<1>10. QueueTypeOK'
  BY <1>1, <1>3, <1>8, <1>9 DEF QueueTypeOK
<1>11. StageInv'
  BY <1>1, <1>3, <1>5, <1>6 DEF StageInv
<1>12. EventInv'
  BY <1>1, <1>3, <1>5, <1>6, <1>7, <1>8, <1>9 DEF EventInv
<1>13. NotificationNotMissed'
  BY <1>1, <1>9 DEF NotificationNotMissed
<1> QED BY <1>4, <1>10, <1>11, <1>12, <1>13 DEF QueueRest

-----------------------------------------------------------------------------
(* The executor.                                                           *)

LEMMA GotoFacts ==
  ASSUME TypeOK, NEW label, Goto(Executor, label)
  PROVE  pc'[Executor] = label /\ \A t \in Threads : pc'[t] = pc[t]
BY ActorFacts DEF TypeOK, Goto

LEMMA TakeItemInv ==
  ASSUME QueueInv, TakeItem
  PROVE  QueueRest'
<1> USE CallerFacts DEF QueueInv
<1>1. UNCHANGED <<owner, m_nLockCount, saved, m_deqWaitSet, inCritSec, open, signalled, hWaitEvent, popped>>
  BY DEF TakeItem, lockVars, eventVars
<1>2. /\ Move(Executor, "in", "done") /\ "in" \in Inside /\ "done" \in Inside /\ "done" \in Stages
      /\ (queue # <<>> /\ Pop) \/ Woken \/ PopNoWait \/ Remaining
  BY DEF TakeItem, Inside, Stages
<1>3. \E label \in Labels \ {"waiting"} : Goto(Executor, label)
  BY <1>2 DEF Pop, Woken, PopNoWait, Remaining, AfterPop, Labels
<1>4. pc'[Executor] # "waiting" /\ \A t \in Threads : pc'[t] = pc[t]
  BY <1>3, GotoFacts DEF IInv
<1>5. /\ at' \in [Callers -> Stages] /\ at[Executor] = "in" /\ at'[Executor] = "done"
      /\ \A d \in Callers : d # Executor => at'[d] = at[d]
  BY <1>2, MoveFacts
<1>6. /\ LockInv'
      /\ \A t \in Threads : at[t] \notin Inside /\ at'[t] \notin Inside
  BY <1>1, <1>2, StaysInside DEF lockVars
<1>7. \A t \in Threads : at'[t] \notin {"in", "signal", "set"} /\ at[t] # "set"
  BY <1>6 DEF Inside
<1>8. ~Waiting /\ ~Waiting'
  BY <1>5 DEF Waiting
<1>9. QueueTypeOK'
  BY <1>1, <1>5 DEF QueueTypeOK
<1>10. StageInv'
  <2>1. \A t \in Threads : at'[t] = at[t]
    BY <1>5
  <2> QED BY <2>1, <1>1, <1>4, <1>5, <1>7 DEF StageInv
<1>11. EventInv'
  <2>1. popped = NoHandle
    BY <1>7 DEF EventInv
  <2> QED BY <2>1, <1>1, <1>5, <1>7, <1>8 DEF EventInv
<1>12. NotificationNotMissed'
  BY <1>8 DEF NotificationNotMissed
<1> QED BY <1>6, <1>9, <1>10, <1>11, <1>12 DEF QueueRest

LEMMA EnlistInv ==
  ASSUME QueueInv, Enlist
  PROVE  QueueRest'
<1> USE CallerFacts DEF QueueInv
<1>1. UNCHANGED <<owner, m_nLockCount, saved, inCritSec, popped>> /\ ~inCritSec
  BY DEF Enlist, lockVars
<1>2. PICK h \in Handles \ open :
        /\ open' = open \cup {h} /\ signalled' = signalled \ {h}
        /\ hWaitEvent' = h /\ m_deqWaitSet' = Append(m_deqWaitSet, h)
  BY DEF Enlist
<1>3. /\ Move(Executor, "in", "enlisted") /\ "in" \in Inside /\ "enlisted" \in Inside
      /\ "enlisted" \in Stages
  BY DEF Enlist, Inside, Stages
<1>4. Goto(Executor, "waiting") /\ woken' = FALSE
  BY DEF Enlist, Pop
<1>5. pc'[Executor] = "waiting" /\ \A t \in Threads : pc'[t] = pc[t]
  BY <1>4, GotoFacts DEF IInv
<1>6. /\ at' \in [Callers -> Stages] /\ at[Executor] = "in" /\ at'[Executor] = "enlisted"
      /\ \A d \in Callers : d # Executor => at'[d] = at[d]
  BY <1>3, MoveFacts
<1>7. /\ LockInv'
      /\ \A t \in Threads : at[t] \notin Inside /\ at'[t] \notin Inside
  BY <1>1, <1>3, StaysInside DEF lockVars
<1>8. \A t \in Threads : at'[t] \notin {"in", "signal", "set"} /\ at[t] # "set"
  BY <1>7 DEF Inside
<1>9. ~Waiting /\ Waiting'
  BY <1>6 DEF Waiting
<1>10. popped = NoHandle /\ m_deqWaitSet = <<>>
  BY <1>1, <1>9 DEF EventInv
<1>11. m_deqWaitSet' = <<h>>
  BY <1>2, <1>10
<1>12. QueueTypeOK'
  <2>1. m_deqWaitSet' \in {<<>>} \cup {<<g>> : g \in Handles}
    BY <1>2, <1>11
  <2> QED BY <2>1, <1>1, <1>2, <1>6 DEF QueueTypeOK
<1>13. StageInv'
  <2>1. \A t \in Threads : at'[t] = at[t]
    BY <1>6
  <2> QED BY <2>1, <1>1, <1>5, <1>6, <1>8 DEF StageInv
<1>14. EventInv'
  <2>1. hWaitEvent' \in open' /\ hWaitEvent' \notin signalled' /\ popped' = NoHandle
    BY <1>1, <1>2, <1>10
  <2>2. m_deqWaitSet' = <<hWaitEvent'>> /\ ~inCritSec' /\ ~woken'
    BY <1>1, <1>2, <1>4, <1>11
  <2> QED BY <2>1, <2>2, <1>6, <1>8, <1>9 DEF EventInv
<1>15. NotificationNotMissed'
  BY <1>4 DEF NotificationNotMissed
<1> QED BY <1>7, <1>12, <1>13, <1>14, <1>15 DEF QueueRest

LEMMA ReleaseAndWaitInv ==
  ASSUME QueueInv, ReleaseAndWait
  PROVE  QueueRest'
<1> USE CallerFacts DEF QueueInv
<1>1. /\ UNCHANGED <<m_deqWaitSet, inCritSec, open, signalled, hWaitEvent, popped, pc, woken>>
      /\ saved' = m_nLockCount /\ m_nLockCount' = 0 /\ owner' = Nobody
  BY DEF ReleaseAndWait, eventVars, vars, execVars
<1>2. /\ at' \in [Callers -> Stages] /\ at[Executor] = "enlisted" /\ at'[Executor] = "asleep"
      /\ \A d \in Callers : d # Executor => at'[d] = at[d]
  BY MoveFacts DEF ReleaseAndWait, Stages
<1>3. owner = Executor /\ m_nLockCount = 1
  BY <1>2 DEF LockInv, Inside
<1>4. \A t \in Threads : at'[t] = at[t]
  BY <1>2
<1>5. Waiting /\ Waiting'
  BY <1>2 DEF Waiting
<1>6. QueueTypeOK'
  BY <1>1, <1>2, <1>3 DEF QueueTypeOK
<1>7. LockInv'
  BY <1>1, <1>2, <1>3 DEF LockInv, Inside
<1>8. StageInv'
  BY <1>1, <1>2, <1>4 DEF StageInv
<1>9. EventInv'
  BY <1>1, <1>2, <1>4, <1>5 DEF EventInv
<1>10. NotificationNotMissed'
  BY <1>1, <1>4, <1>5 DEF NotificationNotMissed
<1> QED BY <1>6, <1>7, <1>8, <1>9, <1>10 DEF QueueRest

LEMMA AwakeInv ==
  ASSUME QueueInv, Awake
  PROVE  QueueRest'
<1> USE CallerFacts DEF QueueInv
<1>1. /\ UNCHANGED <<owner, m_nLockCount, saved, m_deqWaitSet, inCritSec, open, hWaitEvent, popped, pc, woken>>
      /\ hWaitEvent \in signalled /\ signalled' = signalled \ {hWaitEvent}
  BY DEF Awake, lockVars, vars, execVars
<1>2. /\ at' \in [Callers -> Stages] /\ at[Executor] = "asleep" /\ at'[Executor] = "awake"
      /\ \A d \in Callers : d # Executor => at'[d] = at[d]
  BY MoveFacts DEF Awake, Stages
<1>3. \A t \in Threads : at'[t] = at[t]
  BY <1>2
<1>4. Waiting /\ ~Waiting' /\ woken
  BY <1>1, <1>2 DEF Waiting, EventInv
<1>5. QueueTypeOK'
  BY <1>1, <1>2 DEF QueueTypeOK
<1>6. LockInv'
  BY <1>1, <1>2 DEF LockInv, Inside
<1>7. StageInv'
  BY <1>1, <1>2, <1>3 DEF StageInv
<1>8. EventInv'
  <2>1. popped = NoHandle
    BY <1>1 DEF EventInv
  <2>2. m_deqWaitSet = <<>> \/ inCritSec
    BY <1>1 DEF EventInv
  <2> QED BY <2>1, <2>2, <1>1, <1>2, <1>3, <1>4 DEF EventInv
<1>9. NotificationNotMissed'
  BY <1>4 DEF NotificationNotMissed
<1> QED BY <1>5, <1>6, <1>7, <1>8, <1>9 DEF QueueRest

LEMMA ReacquireInv ==
  ASSUME QueueInv, Reacquire
  PROVE  QueueRest'
<1> USE CallerFacts DEF QueueInv
<1>1. /\ UNCHANGED <<saved, m_deqWaitSet, inCritSec, signalled, popped, pc, woken>>
      /\ owner = Nobody /\ owner' = Executor /\ m_nLockCount' = saved
      /\ open' = open \ {hWaitEvent} /\ hWaitEvent' = NoHandle
  BY DEF Reacquire, Enter, vars, execVars
<1>2. /\ at' \in [Callers -> Stages] /\ at[Executor] = "awake" /\ at'[Executor] = "in"
      /\ \A d \in Callers : d # Executor => at'[d] = at[d]
  BY MoveFacts DEF Reacquire, Stages
<1>3. \A t \in Threads : at'[t] = at[t]
  BY <1>2
<1>4. saved = 1 /\ woken
  BY <1>2 DEF LockInv, EventInv
<1>5. ~Waiting /\ ~Waiting'
  BY <1>2 DEF Waiting
<1>6. QueueTypeOK'
  BY <1>1, <1>2 DEF QueueTypeOK
<1>7. LockInv'
  BY <1>1, <1>2, <1>4 DEF LockInv, Inside
<1>8. StageInv'
  BY <1>1, <1>2, <1>3 DEF StageInv
<1>9. EventInv'
  <2>1. popped = NoHandle
    BY <1>5 DEF EventInv
  <2>2. m_deqWaitSet = <<>> \/ inCritSec
    BY <1>5 DEF EventInv
  <2> QED BY <2>1, <2>2, <1>1, <1>2, <1>3, <1>4, <1>5 DEF EventInv
<1>10. NotificationNotMissed'
  BY <1>5 DEF NotificationNotMissed
<1> QED BY <1>6, <1>7, <1>8, <1>9, <1>10 DEF QueueRest

-----------------------------------------------------------------------------
(* The main thread.                                                        *)

LEMMA GetSizeInv ==
  ASSUME QueueInv, GetSize
  PROVE  QueueRest'
<1> USE CallerFacts DEF QueueInv
<1>1. UNCHANGED <<owner, m_nLockCount, saved, m_deqWaitSet, inCritSec, open, signalled, hWaitEvent, popped, pc, woken>>
  BY DEF GetSize, BroadcastBuffer, lockVars, eventVars, execVars
<1>2. /\ Move(Master, "in", "done") /\ "in" \in Inside /\ "done" \in Inside /\ "done" \in Stages
  BY DEF GetSize, Inside, Stages
<1>3. /\ at' \in [Callers -> Stages] /\ at[Master] = "in" /\ at'[Master] = "done"
      /\ \A d \in Callers : d # Master => at'[d] = at[d]
  BY <1>2, MoveFacts
<1>4. LockInv'
  BY <1>1, <1>2, StaysInside DEF lockVars
<1>5. at'[Executor] = at[Executor] /\ \A t \in Threads : at'[t] = at[t]
  BY <1>3
<1>6. Waiting' <=> Waiting
  BY <1>5 DEF Waiting
<1>7. QueueTypeOK'
  BY <1>1, <1>3 DEF QueueTypeOK
<1>8. StageInv'
  BY <1>1, <1>3, <1>5 DEF StageInv
<1>9. EventInv'
  BY <1>1, <1>5, <1>6 DEF EventInv
<1>10. NotificationNotMissed'
  BY <1>1, <1>5, <1>6 DEF NotificationNotMissed
<1> QED BY <1>4, <1>7, <1>8, <1>9, <1>10 DEF QueueRest

LEMMA BroadcastSetInv ==
  ASSUME QueueInv, BroadcastSet
  PROVE  QueueRest'
<1> USE CallerFacts DEF QueueInv
<1>1. /\ UNCHANGED <<owner, m_nLockCount, saved, m_deqWaitSet, open, hWaitEvent, popped, pc>>
      /\ ~inCritSec /\ inCritSec' = TRUE
      /\ woken' = (woken \/ pc[Executor] = "waiting")
  BY DEF BroadcastSet, BroadcastQueue, lockVars
<1>2. m_deqWaitSet # <<>> =>
        /\ Waiting /\ m_deqWaitSet = <<hWaitEvent>> /\ hWaitEvent \in open
        /\ hWaitEvent \in Handles
  BY <1>1 DEF EventInv, QueueTypeOK
<1>3. /\ m_deqWaitSet = <<>> => Listed = {}
      /\ m_deqWaitSet # <<>> => Listed = {hWaitEvent}
  BY <1>2 DEF Listed
<1>4. Listed \subseteq open
  BY <1>2, <1>3
<1>5. Move(Master, "out", "clear") /\ signalled' = signalled \cup Listed
  BY <1>4 DEF BroadcastSet
<1>6. /\ at' \in [Callers -> Stages] /\ at[Master] = "out" /\ at'[Master] = "clear"
      /\ \A d \in Callers : d # Master => at'[d] = at[d]
  BY <1>5, MoveFacts DEF Stages
<1>7. at'[Executor] = at[Executor] /\ \A t \in Threads : at'[t] = at[t]
  BY <1>6
<1>8. Waiting' <=> Waiting
  BY <1>7 DEF Waiting
<1>9. Waiting => woken'
  BY <1>1 DEF StageInv, Waiting
<1>10. QueueTypeOK'
  BY <1>1, <1>2, <1>3, <1>5, <1>6 DEF QueueTypeOK
<1>11. LockInv'
  BY <1>1, <1>6, <1>7 DEF LockInv, Inside
<1>12. StageInv'
  BY <1>1, <1>6, <1>7 DEF StageInv
<1>13. EventInv'
  <2>1. popped # NoHandle => hWaitEvent \notin signalled'
    BY <1>3, <1>5 DEF EventInv
  <2> QED BY <2>1, <1>1, <1>7, <1>8, <1>9 DEF EventInv
<1>14. NotificationNotMissed'
  <2> SUFFICES ASSUME Waiting, hWaitEvent \notin signalled'
               PROVE  \E t \in Threads : at[t] = "set" /\ popped = hWaitEvent
    BY <1>1, <1>7, <1>8 DEF NotificationNotMissed
  <2>1. m_deqWaitSet = <<>> /\ hWaitEvent \notin signalled
    BY <1>2, <1>3, <1>5
  <2>2. woken
    BY <2>1, Singletons DEF EventInv
  <2> QED BY <2>1, <2>2, Singletons DEF NotificationNotMissed
<1> QED BY <1>10, <1>11, <1>12, <1>13, <1>14 DEF QueueRest

LEMMA BroadcastClearInv ==
  ASSUME QueueInv, BroadcastClear
  PROVE  QueueRest'
<1> USE CallerFacts DEF QueueInv
<1>1. /\ UNCHANGED <<owner, m_nLockCount, saved, open, signalled, hWaitEvent, popped, pc, woken>>
      /\ m_deqWaitSet' = <<>> /\ inCritSec' = FALSE
  BY DEF BroadcastClear, lockVars, vars, execVars
<1>2. /\ at' \in [Callers -> Stages] /\ at[Master] = "clear" /\ at'[Master] = "out"
      /\ \A d \in Callers : d # Master => at'[d] = at[d]
  BY MoveFacts DEF BroadcastClear, Stages
<1>3. at'[Executor] = at[Executor] /\ \A t \in Threads : at'[t] = at[t]
  BY <1>2
<1>4. Waiting' <=> Waiting
  BY <1>3 DEF Waiting
<1>5. inCritSec
  BY <1>2 DEF StageInv
<1>6. QueueTypeOK'
  BY <1>1, <1>2 DEF QueueTypeOK
<1>7. LockInv'
  BY <1>1, <1>2, <1>3 DEF LockInv, Inside
<1>8. StageInv'
  BY <1>1, <1>2, <1>3 DEF StageInv
<1>9. EventInv'
  BY <1>1, <1>3, <1>4, <1>5 DEF EventInv
<1>10. NotificationNotMissed'
  BY <1>1, <1>3, <1>4, <1>5 DEF NotificationNotMissed
<1> QED BY <1>6, <1>7, <1>8, <1>9, <1>10 DEF QueueRest

-----------------------------------------------------------------------------
(* The steps outside the queue.                                            *)

LEMMA StatementInv ==
  ASSUME QueueInv, NEW a \in Actors, Statement(a), at[a] = "out", UNCHANGED queueVars
  PROVE  QueueRest'
<1> USE ActorFacts DEF QueueInv, IInv
<1>1. UNCHANGED woken
  BY DEF Statement, GetFreeConnection, SendQuery, ResendQuery, execVars
<1>2. pc[a] # "waiting"
  BY DEF Statement, GetFreeConnection, SendQuery, ResendQuery
<1>3. \E label \in Labels \ {"waiting"} : Goto(a, label)
  BY DEF Statement, GetFreeConnection, SendQuery, ResendQuery, Labels
<1>4. \E label \in Labels \ {"waiting"} : pc' = [pc EXCEPT ![a] = label]
  BY <1>3 DEF Goto
<1>5. pc'[a] # "waiting" /\ \A b \in Actors : b # a => pc'[b] = pc[b]
  BY <1>4 DEF TypeOK
<1> QED BY <1>1, <1>2, <1>5, OutsideInv

LEMMA ThreadOutsideInv ==
  ASSUME QueueInv, NEW t \in Threads, Execute(t) \/ WaitExecute(t) \/ Return(t),
         at[t] = "out", UNCHANGED queueVars
  PROVE  QueueRest'
<1> USE ActorFacts DEF QueueInv, IInv
<1>1. UNCHANGED woken
  BY DEF Execute, WaitExecute, Return, NewStatement, execVars
<1>2. \E label \in Labels : pc' = [pc EXCEPT ![t] = label]
  BY DEF Execute, WaitExecute, Return, Goto, Labels
<1>3. \A b \in Actors : b # t => pc'[b] = pc[b]
  BY <1>2 DEF TypeOK
<1> QED BY <1>1, <1>3, OutsideInv

LEMMA ExecutorOutsideInv ==
  ASSUME QueueInv, Executed \/ Drained \/ Release \/ End, UNCHANGED queueVars
  PROVE  QueueRest'
<1> USE ActorFacts DEF QueueInv, IInv
<1>1. UNCHANGED woken
  BY DEF Executed, Drained, Release, End, execVars
<1>2. pc[Executor] # "waiting" /\ \E label \in Labels \ {"waiting"} : Goto(Executor, label)
  BY DEF Executed, Drained, Release, End, Labels
<1>3. pc'[Executor] # "waiting" /\ \A t \in Threads : pc'[t] = pc[t]
  BY <1>2, GotoFacts
<1> QED BY <1>1, <1>2, <1>3, OutsideInv

LEMMA OthersOutsideInv ==
  ASSUME QueueInv, UNCHANGED queueVars,
         \/ LoopTest \/ Slept \/ Shutdown
         \/ Terminate \/ UseAfterShutdown \/ QueryThreadRun
  PROVE  QueueRest'
<1>1. UNCHANGED <<pc, woken>>
  BY DEF LoopTest, Slept, Shutdown, Terminate, UseAfterShutdown, QueryThreadRun,
         QueryThreadConnects, QueryThreadReleases, QueryThreadDeleted, execVars
<1> QED BY <1>1, OutsideInv

-----------------------------------------------------------------------------
(* Refinement: a step of the queue is a step of Database, or none.         *)

LEMMA WokenIsWake == ASSUME QueueInv, Woken, at[Executor] = "in" PROVE Wake
<1>1. pc[Executor] = "waiting"
  BY DEF Woken
<1>2. woken
  BY <1>1 DEF QueueInv, EventInv
<1> QED BY <1>2 DEF Woken, Wake

LEMMA ServerRefines ==
  ASSUME QueueInv, ~crashed, NEW t \in Threads, QueueServer(t)
  PROVE  [Next]_vars /\ QueueRest'
<1> USE CallerFacts, ActorFacts
<1>1. CASE BeginSynchronized(t)
  BY <1>1, EnterMutexInv DEF BeginSynchronized
<1>2. CASE PushItem(t)
  <2>1. Server(t)
    BY <1>2 DEF PushItem, Server, ServerCall
  <2> QED BY <2>1, <1>2, PushItemInv DEF Next
<1>3. CASE SignalPop(t)
  BY <1>3, SignalPopInv DEF SignalPop
<1>4. CASE SignalSet(t)
  BY <1>4, SignalSetInv DEF SignalSet
<1>5. CASE EndSynchronized(t)
  BY <1>5, LeaveMutexInv DEF EndSynchronized
<1>6. CASE Statement(t) /\ Outside(t)
  <2>1. Server(t)
    BY <1>6 DEF Server, ServerCall
  <2> QED BY <2>1, <1>6, StatementInv DEF Next, Outside
<1>7. CASE (Return(t) \/ Execute(t) \/ WaitExecute(t)) /\ Outside(t)
  <2>1. Server(t)
    BY <1>7 DEF Server, ServerCall
  <2> QED BY <2>1, <1>7, ThreadOutsideInv DEF Next, Outside
<1> QED BY <1>1, <1>2, <1>3, <1>4, <1>5, <1>6, <1>7 DEF QueueServer, QueueCall

LEMMA RunRefines ==
  ASSUME QueueInv, ~crashed, QueueRun
  PROVE  [Next]_vars /\ QueueRest'
<1> USE CallerFacts, ActorFacts
<1>1. CASE BeginSynchronized(Executor)
  BY <1>1, EnterMutexInv DEF BeginSynchronized
<1>2. CASE TakeItem
  <2>1. at[Executor] = "in"
    BY <1>2 DEF TakeItem, Move
  <2>2. Pop \/ Wake \/ PopNoWait \/ Remaining
    BY <2>1, <1>2, WokenIsWake DEF TakeItem
  <2> QED BY <2>2, <1>2, TakeItemInv DEF Next, Run
<1>3. CASE EndSynchronized(Executor)
  BY <1>3, LeaveMutexInv DEF EndSynchronized
<1>4. CASE Enlist
  <2>1. Pop
    BY <1>4 DEF Enlist
  <2> QED BY <2>1, <1>4, EnlistInv DEF Next, Run
<1>5. CASE ReleaseAndWait
  BY <1>5, ReleaseAndWaitInv DEF ReleaseAndWait
<1>6. CASE Awake
  BY <1>6, AwakeInv DEF Awake
<1>7. CASE Reacquire
  BY <1>7, ReacquireInv DEF Reacquire
<1>8. CASE Statement(Executor) /\ Outside(Executor)
  BY <1>8, StatementInv DEF Next, Run, Outside
<1>9. CASE (Executed \/ Drained \/ Release \/ End) /\ Outside(Executor)
  BY <1>9, ExecutorOutsideInv DEF Next, Run, Outside
<1> QED BY <1>1, <1>2, <1>3, <1>4, <1>5, <1>6, <1>7, <1>8, <1>9 DEF QueueRun

LEMMA StopRefines ==
  ASSUME QueueInv, ~crashed, QueueStopDB
  PROVE  [Next]_vars /\ QueueRest'
<1> USE CallerFacts
<1>1. CASE BeginSynchronized(Master)
  BY <1>1, EnterMutexInv DEF BeginSynchronized
<1>2. CASE GetSize
  <2>1. BroadcastBuffer
    BY <1>2 DEF GetSize
  <2> QED BY <2>1, <1>2, GetSizeInv DEF Next, StopDB
<1>3. CASE EndSynchronized(Master)
  BY <1>3, LeaveMutexInv DEF EndSynchronized
<1>4. CASE BroadcastSet
  <2>1. BroadcastQueue
    BY <1>4 DEF BroadcastSet
  <2> QED BY <2>1, <1>4, BroadcastSetInv DEF Next, StopDB
<1>5. CASE BroadcastClear
  BY <1>5, BroadcastClearInv DEF BroadcastClear
<1>6. CASE (LoopTest \/ Slept \/ Shutdown) /\ Outside(Master)
  BY <1>6, OthersOutsideInv DEF Next, StopDB, Outside
<1> QED BY <1>1, <1>2, <1>3, <1>4, <1>5, <1>6 DEF QueueStopDB

LEMMA QueueNextRefines ==
  ASSUME QueueInv, [QueueNext]_allVars
  PROVE  [Next]_vars /\ QueueInv'
<1>1. CASE UNCHANGED allVars
  <2>1. UNCHANGED vars /\ UNCHANGED queueVars
    BY <1>1 DEF allVars
  <2>2. UNCHANGED <<pc, woken>>
    BY <2>1 DEF vars, execVars
  <2>3. QueueRest'
    BY <2>1, <2>2, OutsideInv
  <2> QED BY <2>1, <2>3, NextInv DEF QueueInv, QueueRest
<1>2. CASE QueueNext
  <2>1. ~crashed
    BY <1>2 DEF QueueNext
  <2>2. CASE \E t \in Threads : QueueServer(t)
    <3>1. [Next]_vars /\ QueueRest'
      BY <2>1, <2>2, ServerRefines
    <3> QED BY <3>1, NextInv DEF QueueInv, QueueRest
  <2>3. CASE QueueRun
    <3>1. [Next]_vars /\ QueueRest'
      BY <2>1, <2>3, RunRefines
    <3> QED BY <3>1, NextInv DEF QueueInv, QueueRest
  <2>4. CASE QueueStopDB
    <3>1. [Next]_vars /\ QueueRest'
      BY <2>1, <2>4, StopRefines
    <3> QED BY <3>1, NextInv DEF QueueInv, QueueRest
  <2>5. CASE (Terminate \/ UseAfterShutdown \/ QueryThreadRun) /\ UNCHANGED queueVars
    <3>1. Next
      BY <2>1, <2>5 DEF Next
    <3>2. QueueRest'
      BY <2>5, OthersOutsideInv
    <3> QED BY <3>1, <3>2, NextInv DEF QueueInv, QueueRest
  <2> QED BY <1>2, <2>2, <2>3, <2>4, <2>5 DEF QueueNext
<1> QED BY <1>1, <1>2

LEMMA QueueInitInv == QueueInit => QueueInv
<1> SUFFICES ASSUME QueueInit PROVE QueueInv
  OBVIOUS
<1> USE CallerFacts
<1>1. IInv
  BY InitInv DEF QueueInit
<1>2. pc[Executor] = "pop"
  BY ActorFacts DEF QueueInit, Init
<1>3. \A c \in Callers : at[c] = "out"
  BY DEF QueueInit
<1>4. QueueTypeOK
  BY DEF QueueInit, QueueTypeOK, Stages
<1>5. LockInv
  BY <1>3 DEF QueueInit, LockInv, Inside
<1>6. StageInv
  BY <1>2, <1>3 DEF QueueInit, StageInv
<1>7. ~Waiting
  BY <1>3 DEF Waiting
<1>8. EventInv /\ NotificationNotMissed
  BY <1>3, <1>7 DEF QueueInit, EventInv, NotificationNotMissed
<1> QED BY <1>1, <1>4, <1>5, <1>6, <1>8 DEF QueueInv

LEMMA QueueInvHolds == QueueSpec => []QueueInv
<1>1. QueueInv /\ [QueueNext]_allVars => QueueInv'
  BY QueueNextRefines
<1> QED BY <1>1, QueueInitInv, PTL DEF QueueSpec

-----------------------------------------------------------------------------
(* The results.                                                            *)

(* The mutex, the deque and the event handles of the executor's condition  *)
(* variable keep their types.                                              *)
THEOREM QueueTypeCorrect == QueueSpec => []QueueTypeOK
<1>1. QueueInv => QueueTypeOK
  BY DEF QueueInv
<1> QED BY <1>1, QueueInvHolds, PTL

(* EndSynchronized and Wait always find the mutex held by their caller and *)
(* the shared count at one (Condition.h, LockHeldByCallingThread).         *)
THEOREM LockHeld == QueueSpec => []LockHeldByCallingThread
<1>1. QueueInv => LockHeldByCallingThread
  BY CallerFacts DEF QueueInv, LockInv, LockHeldByCallingThread, Inside
<1> QED BY <1>1, QueueInvHolds, PTL

(* A notification given while Wait has released the mutex and not slept    *)
(* yet is in its event or about to be put there (Condition.h:97).          *)
THEOREM NotificationsArrive == QueueSpec => []NotificationNotMissed
<1>1. QueueInv => NotificationNotMissed
  BY DEF QueueInv
<1> QED BY <1>1, QueueInvHolds, PTL

(* Signal and Broadcast set only events that Wait has not closed, so       *)
(* Broadcast never gives up inside its critical section.                   *)
THEOREM EventsStayOpen == QueueSpec => []EventsOpen
<1>1. ASSUME QueueInv PROVE EventsOpen
  <2> USE <1>1 DEF QueueInv
  <2>1. ~inCritSec => Listed \subseteq open
    BY DEF EventInv, Listed
  <2>2. popped # NoHandle => popped \in open
    BY DEF EventInv
  <2>3. inCritSec <=> at[Master] = "clear"
    BY DEF StageInv
  <2> QED BY <2>1, <2>2, <2>3 DEF EventsOpen
<1>2. QueueInv => EventsOpen
  BY <1>1
<1> QED BY <1>2, QueueInvHolds, PTL

(* push, pop, get_size and Broadcast, run step by step over the mutex, the *)
(* deque and the events, do what Database takes them for.                  *)
THEOREM QueueImplementsDatabase == QueueSpec => ImplementsDatabase
<1>1. QueueInit => Init
  BY DEF QueueInit
<1>2. QueueInv /\ [QueueNext]_allVars => [Next]_vars
  BY QueueNextRefines
<1> QED BY <1>1, <1>2, QueueInvHolds, PTL DEF QueueSpec, ImplementsDatabase, Spec

(* So what Database promises of its statements holds of the executor over  *)
(* the real queue: accepted ones are written first come first served, what *)
(* is lost or repeated is paid for by a fault, unless it was pushed after  *)
(* the executor last looked, and no connection is closed under it.         *)
THEOREM QueueWritesInOrder ==
  QueueSpec => /\ WritesInOrder
               /\ [](AppliedInOrder /\ LostOrRepeatedByFault /\ ExecutorGoneBeforeClose)
BY QueueImplementsDatabase, ExecutorWritesInOrder, ExecutedInOrder, LossesAreFaults,
   ClosedAfterExecutor, PTL DEF ImplementsDatabase
=============================================================================
