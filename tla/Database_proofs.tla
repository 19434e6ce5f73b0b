--------------------------- MODULE Database_proofs ---------------------------
(***************************************************************************)
(* Proofs about the database layer, for any number of server threads and   *)
(* connections, any number of statements and of faults, and with or        *)
(* without spurious wake-ups.                                              *)
(***************************************************************************)
EXTENDS Database, TLAPS, FiniteSetTheorems, SequenceTheorems

Held(a) == Head(cur[a])

Using == {"send", "resend", "sent"}

(* Who is where, and holds what there: a statement in hand and a busy      *)
(* connection are the business of the same labels on every path.           *)
PlaceInv ==
  /\ \A t \in Threads :
       /\ pc[t] \in {"idle", "push", "connect"} \cup Using
       /\ cur[t] = <<>> <=> pc[t] = "idle"
       /\ t \in holders <=> pc[t] \in Using
  /\ pc[Executor] \in Labels \ {"idle", "push"}
  /\ pc[Executor] \in Using => cur[Executor] # <<>>
  /\ pc[Executor] \notin Using \cup {"connect"} => cur[Executor] = <<>>
  /\ pc[Executor] \in {"connect", "remaining", "drain", "ending", "ended"} => Executor \notin holders

(* Where the main thread is tells whether the executor still runs.         *)
LifeInv ==
  /\ ~ThreadRunning <=> pc[Executor] = "ended"
  /\ closed <=> main = "done"
  /\ main \in {"shutdown", "done"} => ~ThreadRunning

(* A statement of Execute is in the hands of its thread for the queue, or  *)
(* on the spot because the executor has ended.                             *)
KindInv ==
  /\ \A i \in DOMAIN queue : queue[i].kind = "execute"
  /\ cur[Executor] # <<>> => Held(Executor).kind = "execute"
  /\ \A t \in Threads : cur[t] # <<>> =>
       /\ Held(t).by = t
       /\ pc[t] = "push" => Held(t).kind = "execute"
       /\ Held(t).kind = "execute" /\ pc[t] # "push" => ~ThreadRunning

IssuedInv ==
  /\ \A i \in DOMAIN queue : queue[i].id <= issued
  /\ \A a \in Actors : cur[a] # <<>> => Held(a).id <= issued
  /\ \A i \in DOMAIN log : log[i].id <= issued

(* The order of issue runs from the log through the executor's hands and   *)
(* the queue to the hands of the thread.                                   *)
QueueOrder ==
  \A i, j \in DOMAIN queue : i < j /\ queue[i].by = queue[j].by => queue[i].id < queue[j].id

ExecutorBeforeQueue ==
  cur[Executor] # <<>> =>
    \A i \in DOMAIN queue : queue[i].by = Held(Executor).by => Held(Executor).id < queue[i].id

QueueBeforeThread ==
  \A t \in Threads : cur[t] # <<>> =>
    \A i \in DOMAIN queue : queue[i].by = t => queue[i].id < Held(t).id

ExecutorBeforeThread ==
  \A t \in Threads : cur[t] # <<>> /\ cur[Executor] # <<>> /\ Held(Executor).by = t =>
    Held(Executor).id < Held(t).id

LogBeforeQueue ==
  ThreadRunning =>
    \A i \in DOMAIN log, j \in DOMAIN queue :
      log[i].kind = "execute" /\ queue[j].by = log[i].by => log[i].id < queue[j].id

LogBeforeHands ==
  \A i \in DOMAIN log, a \in Actors :
    log[i].kind = "execute" /\ cur[a] # <<>> /\ Held(a).by = log[i].by =>
      /\ log[i].id <= Held(a).id
      /\ ThreadRunning /\ a # Executor => log[i].id < Held(a).id

OrderInv ==
  /\ QueueOrder /\ ExecutorBeforeQueue /\ QueueBeforeThread /\ ExecutorBeforeThread
  /\ LogBeforeQueue /\ LogBeforeHands /\ AppliedInOrder

Moves == OrderInv /\ IssuedInv

IInv == TypeOK /\ PlaceInv /\ LifeInv /\ KindInv /\ Moves /\ NoLostWakeup

-----------------------------------------------------------------------------
(* Sequences of statements.                                                *)

LEMMA AppendFacts ==
  ASSUME NEW q \in Seq(Statements), NEW s \in Statements
  PROVE  /\ Append(q, s) \in Seq(Statements) /\ Append(q, s) # <<>>
         /\ Len(q) \in Nat /\ DOMAIN q = 1 .. Len(q)
         /\ DOMAIN Append(q, s) = 1 .. Len(q) + 1
         /\ \A i \in 1 .. Len(q) : Append(q, s)[i] = q[i]
         /\ Append(q, s)[Len(q) + 1] = s
OBVIOUS

LEMMA TailFacts ==
  ASSUME NEW q \in Seq(Statements), q # <<>>
  PROVE  /\ Tail(q) \in Seq(Statements)
         /\ Len(q) \in Nat \ {0} /\ DOMAIN q = 1 .. Len(q)
         /\ DOMAIN Tail(q) = 1 .. Len(q) - 1
         /\ \A i \in 1 .. Len(q) - 1 : Tail(q)[i] = q[i + 1]
         /\ Head(q) = q[1] /\ Head(q) \in Statements
<1>1. Tail(q) \in Seq(Statements) /\ Len(Tail(q)) = Len(q) - 1
      /\ \A i \in 1 .. Len(Tail(q)) : Tail(q)[i] = q[i + 1]
  BY HeadTailProperties
<1>2. Len(q) \in Nat \ {0} /\ DOMAIN q = 1 .. Len(q)
  BY LenProperties, EmptySeq
<1>3. DOMAIN Tail(q) = 1 .. Len(Tail(q))
  BY <1>1, LenProperties
<1>4. Head(q) = q[1] /\ Head(q) \in Statements
  BY <1>2, ElementOfSeq
<1> QED BY <1>1, <1>2, <1>3, <1>4

LEMMA Singletons == \A x : <<x>> # <<>>
OBVIOUS

LEMMA StatementFields ==
  ASSUME NEW s \in Statements
  PROVE  s.id \in Nat /\ s.by \in Threads /\ s.kind \in {"execute", "direct"}
BY DatabaseAssumption DEF Statements

LEMMA HeldFacts ==
  ASSUME TypeOK, NEW a \in Actors, cur[a] # <<>>
  PROVE  Held(a) \in Statements /\ cur[a] = <<Held(a)>>
<1>1. PICK s \in Statements : cur[a] = <<s>>
  BY DEF TypeOK
<1> QED BY <1>1 DEF Held

LEMMA ActorFacts ==
  /\ Executor \in Actors /\ Executor \notin Threads /\ QueryThread \notin Actors
  /\ Threads \subseteq Actors /\ \A a \in Actors : a = Executor \/ a \in Threads
BY DatabaseAssumption DEF Actors, Executor, QueryThread

-----------------------------------------------------------------------------
(* Connections.                                                            *)

LEMMA HoldersCounted ==
  ASSUME TypeOK
  PROVE  /\ IsFiniteSet(holders) /\ Cardinality(holders) \in Nat
         /\ \A a : Cardinality(holders \ {a}) <= ConnectionCount
         /\ FreeConnection => \A a : Cardinality(holders \cup {a}) <= ConnectionCount
<1>1. IsFiniteSet(Actors \cup {QueryThread})
  BY DatabaseAssumption, FS_AddElement DEF Actors
<1>2. IsFiniteSet(holders)
  BY <1>1, FS_Subset DEF TypeOK
<1>3. Cardinality(holders) \in Nat /\ Cardinality(holders) <= ConnectionCount
  BY <1>2, FS_CardinalityType DEF TypeOK
<1>4. ASSUME NEW a PROVE Cardinality(holders \ {a}) <= ConnectionCount
  <2>1. Cardinality(holders \ {a}) =
          IF a \in holders THEN Cardinality(holders) - 1 ELSE Cardinality(holders)
    BY <1>2, FS_RemoveElement
  <2> QED BY <2>1, <1>3, DatabaseAssumption
<1>5. ASSUME NEW a, FreeConnection PROVE Cardinality(holders \cup {a}) <= ConnectionCount
  <2>1. Cardinality(holders \cup {a}) =
          IF a \in holders THEN Cardinality(holders) ELSE Cardinality(holders) + 1
    BY <1>2, FS_AddElement
  <2> QED BY <2>1, <1>3, <1>5, DatabaseAssumption DEF FreeConnection
<1> QED BY <1>2, <1>3, <1>4, <1>5

-----------------------------------------------------------------------------
(* What happens to the order when a statement moves.                       *)

LEMMA NothingMoves ==
  ASSUME Moves, UNCHANGED <<queue, cur, log, issued>>, ThreadRunning' => ThreadRunning
  PROVE  Moves'
BY DEF Moves, OrderInv, IssuedInv, QueueOrder, ExecutorBeforeQueue, QueueBeforeThread,
       ExecutorBeforeThread, LogBeforeQueue, LogBeforeHands, AppliedInOrder, Held

LEMMA DropMoves ==
  ASSUME TypeOK, Moves, NEW a \in Actors, cur' = [cur EXCEPT ![a] = <<>>],
         UNCHANGED <<queue, log, issued, ThreadRunning>>
  PROVE  Moves'
<1>1. \A b \in Actors : cur'[b] # <<>> => cur[b] # <<>> /\ cur'[b] = cur[b]
  BY DEF TypeOK
<1>2. OrderInv'
  BY <1>1, ActorFacts DEF Moves, OrderInv, QueueOrder, ExecutorBeforeQueue,
     QueueBeforeThread, ExecutorBeforeThread, LogBeforeQueue, LogBeforeHands, AppliedInOrder, Held
<1>3. IssuedInv'
  BY <1>1 DEF Moves, IssuedInv, Held
<1> QED BY <1>2, <1>3 DEF Moves

LEMMA TakeMoves ==
  ASSUME TypeOK, Moves, queue # <<>>, cur[Executor] = <<>>, ThreadRunning, Take,
         UNCHANGED <<log, issued, ThreadRunning>>
  PROVE  Moves'
<1> DEFINE h == queue[1]
<1>1. /\ queue' \in Seq(Statements) /\ h \in Statements
      /\ Len(queue) \in Nat \ {0} /\ DOMAIN queue = 1 .. Len(queue)
      /\ DOMAIN queue' = 1 .. Len(queue) - 1
      /\ \A i \in DOMAIN queue' : i + 1 \in DOMAIN queue /\ queue'[i] = queue[i + 1]
  BY TailFacts DEF Take, TypeOK
<1>2. /\ cur'[Executor] = <<h>> /\ Held(Executor)' = h
      /\ \A t \in Threads : cur'[t] = cur[t]
  BY <1>1, TailFacts, ActorFacts DEF Take, TypeOK, Held
<1>3. 1 \in DOMAIN queue
  BY <1>1
<1>4. QueueOrder'
  <2> SUFFICES ASSUME NEW i \in DOMAIN queue', NEW j \in DOMAIN queue',
                      i < j, queue'[i].by = queue'[j].by
               PROVE  queue'[i].id < queue'[j].id
    BY DEF QueueOrder
  <2>1. i + 1 \in DOMAIN queue /\ j + 1 \in DOMAIN queue /\ i + 1 < j + 1
    BY <1>1
  <2>2. queue[i + 1].by = queue[j + 1].by
    BY <1>1
  <2>3. queue[i + 1].id < queue[j + 1].id
    BY <2>1, <2>2 DEF Moves, OrderInv, QueueOrder
  <2> QED BY <2>3, <1>1
<1>5. ExecutorBeforeQueue'
  BY <1>1, <1>2, <1>3 DEF Moves, OrderInv, QueueOrder, ExecutorBeforeQueue
<1>6. QueueBeforeThread'
  BY <1>1, <1>2 DEF Moves, OrderInv, QueueBeforeThread, Held
<1>7. ExecutorBeforeThread'
  BY <1>2, <1>3 DEF Moves, OrderInv, QueueBeforeThread, ExecutorBeforeThread, Held
<1>8. LogBeforeQueue'
  BY <1>1 DEF Moves, OrderInv, LogBeforeQueue
<1>9. LogBeforeHands'
  <2> SUFFICES ASSUME NEW i \in DOMAIN log, NEW a \in Actors, log[i].kind = "execute",
                      cur'[a] # <<>>, Held(a)'.by = log[i].by
               PROVE  /\ log[i].id <= Held(a)'.id
                      /\ a # Executor => log[i].id < Held(a)'.id
    BY DEF LogBeforeHands
  <2>1. CASE a = Executor
    <3>1. log[i].id < h.id
      BY <2>1, <1>2, <1>3 DEF Moves, OrderInv, LogBeforeQueue
    <3>2. log[i] \in Statements
      BY ElementOfSeq, LenProperties DEF TypeOK
    <3> QED BY <2>1, <3>1, <3>2, <1>1, <1>2, StatementFields
  <2>2. CASE a \in Threads
    BY <2>2, <1>2, ActorFacts DEF Moves, OrderInv, LogBeforeHands, Held
  <2> QED BY <2>1, <2>2, ActorFacts
<1>10. AppliedInOrder'
  BY DEF Moves, OrderInv, AppliedInOrder
<1>11. IssuedInv'
  BY <1>1, <1>2, <1>3, ActorFacts DEF Moves, IssuedInv, Held
<1> QED BY <1>4, <1>5, <1>6, <1>7, <1>8, <1>9, <1>10, <1>11 DEF Moves, OrderInv

(* A statement is pushed: the newest of its thread joins the queue's end.  *)
LEMMA PushMoves ==
  ASSUME TypeOK, KindInv, Moves, NEW t \in Threads, cur[t] # <<>>,
         queue' = Append(queue, Held(t)), cur' = [cur EXCEPT ![t] = <<>>],
         UNCHANGED <<log, issued, ThreadRunning>>
  PROVE  Moves'
<1> DEFINE s == Held(t)
<1>1. s \in Statements /\ s.by = t
  BY HeldFacts, ActorFacts DEF KindInv
<1>2. /\ queue' \in Seq(Statements)
      /\ Len(queue) \in Nat /\ DOMAIN queue = 1 .. Len(queue)
      /\ DOMAIN queue' = 1 .. Len(queue) + 1
      /\ \A i \in 1 .. Len(queue) : queue'[i] = queue[i]
      /\ queue'[Len(queue) + 1] = s
  BY <1>1, AppendFacts DEF TypeOK
<1>3. \A i \in DOMAIN queue' : queue'[i] = s \/ (i \in DOMAIN queue /\ queue'[i] = queue[i])
  BY <1>2
<1>4. /\ cur'[t] = <<>>
      /\ \A b \in Actors : b # t => cur'[b] = cur[b]
      /\ cur'[Executor] = cur[Executor]
  BY ActorFacts DEF TypeOK
<1>5. QueueOrder'
  <2> SUFFICES ASSUME NEW i \in DOMAIN queue', NEW j \in DOMAIN queue',
                      i < j, queue'[i].by = queue'[j].by
               PROVE  queue'[i].id < queue'[j].id
    BY DEF QueueOrder
  <2>1. i \in DOMAIN queue /\ queue'[i] = queue[i]
    BY <1>2
  <2>2. CASE j = Len(queue) + 1
    BY <2>1, <2>2, <1>1, <1>2 DEF Moves, OrderInv, QueueBeforeThread
  <2>3. CASE j # Len(queue) + 1
    BY <2>1, <2>3, <1>2 DEF Moves, OrderInv, QueueOrder
  <2> QED BY <2>2, <2>3
<1>6. ExecutorBeforeQueue'
  BY <1>1, <1>3, <1>4 DEF Moves, OrderInv, ExecutorBeforeQueue, ExecutorBeforeThread, Held
<1>7. QueueBeforeThread'
  BY <1>1, <1>3, <1>4, ActorFacts DEF Moves, OrderInv, QueueBeforeThread, Held
<1>8. ExecutorBeforeThread'
  BY <1>4, ActorFacts DEF Moves, OrderInv, ExecutorBeforeThread, Held
<1>9. LogBeforeQueue'
  <2> SUFFICES ASSUME ThreadRunning, NEW i \in DOMAIN log, NEW j \in DOMAIN queue',
                      log[i].kind = "execute", queue'[j].by = log[i].by
               PROVE  log[i].id < queue'[j].id
    BY DEF LogBeforeQueue
  <2>1. CASE queue'[j] = s
    BY <2>1, <1>1, ActorFacts DEF Moves, OrderInv, LogBeforeHands
  <2>2. CASE j \in DOMAIN queue /\ queue'[j] = queue[j]
    BY <2>2 DEF Moves, OrderInv, LogBeforeQueue
  <2> QED BY <2>1, <2>2, <1>3
<1>10. LogBeforeHands'
  BY <1>4, ActorFacts DEF Moves, OrderInv, LogBeforeHands, Held
<1>11. AppliedInOrder'
  BY DEF Moves, OrderInv, AppliedInOrder
<1>12. IssuedInv'
  BY <1>3, <1>4, ActorFacts DEF Moves, IssuedInv, Held
<1> QED BY <1>5, <1>6, <1>7, <1>8, <1>9, <1>10, <1>11, <1>12 DEF Moves, OrderInv

(* A statement is issued: it is the newest of all.                         *)
LEMMA NewMoves ==
  ASSUME TypeOK, Moves, NEW t \in Threads, NEW s \in Statements,
         s.by = t, s.id = issued + 1, issued' = issued + 1, cur[t] = <<>>,
         cur' = [cur EXCEPT ![t] = <<s>>], UNCHANGED <<queue, log, ThreadRunning>>
  PROVE  Moves'
<1>1. /\ cur'[t] = <<s>> /\ Held(t)' = s
      /\ \A b \in Actors : b # t => cur'[b] = cur[b]
      /\ cur'[Executor] = cur[Executor]
  BY ActorFacts DEF TypeOK, Held
<1>2. issued \in Nat
  BY DatabaseAssumption DEF TypeOK
<1>3. /\ \A i \in DOMAIN queue : queue[i].id \in Nat
      /\ \A i \in DOMAIN log : log[i].id \in Nat
      /\ \A a \in Actors : cur[a] # <<>> => Held(a).id \in Nat
  BY HeldFacts, StatementFields, ElementOfSeq, LenProperties DEF TypeOK
<1>4. /\ \A i \in DOMAIN queue : queue[i].id < s.id
      /\ \A i \in DOMAIN log : log[i].id < s.id
      /\ \A a \in Actors : cur[a] # <<>> => Held(a).id < s.id
  BY <1>2, <1>3 DEF Moves, IssuedInv
<1>5. QueueOrder' /\ ExecutorBeforeQueue' /\ LogBeforeQueue' /\ AppliedInOrder'
  BY <1>1 DEF Moves, OrderInv, QueueOrder, ExecutorBeforeQueue, LogBeforeQueue, AppliedInOrder, Held
<1>6. QueueBeforeThread'
  BY <1>1, <1>4, ActorFacts DEF Moves, OrderInv, QueueBeforeThread, Held
<1>7. ExecutorBeforeThread'
  BY <1>1, <1>4, ActorFacts DEF Moves, OrderInv, ExecutorBeforeThread, Held
<1>8. LogBeforeHands'
  <2> SUFFICES ASSUME NEW i \in DOMAIN log, NEW a \in Actors, log[i].kind = "execute",
                      cur'[a] # <<>>, Held(a)'.by = log[i].by
               PROVE  /\ log[i].id <= Held(a)'.id
                      /\ ThreadRunning' /\ a # Executor => log[i].id < Held(a)'.id
    BY DEF LogBeforeHands
  <2>1. CASE a = t
    BY <2>1, <1>1, <1>2, <1>3, <1>4
  <2>2. CASE a # t
    BY <2>2, <1>1 DEF Moves, OrderInv, LogBeforeHands, Held
  <2> QED BY <2>1, <2>2
<1>9. IssuedInv'
  BY <1>1, <1>2, <1>3, <1>4, ActorFacts DEF Moves, IssuedInv, Held
<1> QED BY <1>5, <1>6, <1>7, <1>8, <1>9 DEF Moves, OrderInv

(* A statement is executed, perhaps again: what its thread gave to Execute *)
(* before it was, and what it gave afterwards is behind it.                *)
LEMMA LogMoves ==
  ASSUME TypeOK, PlaceInv, LifeInv, KindInv, Moves, NEW a \in Actors,
         pc[a] \in {"send", "resend"}, log' = Append(log, Held(a)),
         UNCHANGED <<queue, cur, issued, ThreadRunning>>
  PROVE  Moves'
<1> DEFINE s == Held(a)
<1>1. cur[a] # <<>>
  BY ActorFacts DEF PlaceInv, Using
<1>2. s \in Statements
  BY <1>1, HeldFacts
<1>3. /\ log' \in Seq(Statements)
      /\ Len(log) \in Nat /\ DOMAIN log = 1 .. Len(log)
      /\ DOMAIN log' = 1 .. Len(log) + 1
      /\ \A i \in 1 .. Len(log) : log'[i] = log[i]
      /\ log'[Len(log) + 1] = s
  BY <1>2, AppendFacts DEF TypeOK
<1>4. \A i \in DOMAIN log' : log'[i] = s \/ (i \in DOMAIN log /\ log'[i] = log[i])
  BY <1>3
<1>5. a \in Threads /\ s.kind = "execute" => ~ThreadRunning /\ cur[Executor] = <<>>
  BY <1>1 DEF KindInv, PlaceInv, LifeInv, Using
<1>6. a \in Threads => s.by = a
  BY <1>1 DEF KindInv
<1>7. QueueOrder' /\ ExecutorBeforeQueue' /\ QueueBeforeThread' /\ ExecutorBeforeThread'
  BY DEF Moves, OrderInv, QueueOrder, ExecutorBeforeQueue, QueueBeforeThread,
     ExecutorBeforeThread, Held
<1>8. LogBeforeQueue'
  <2> SUFFICES ASSUME ThreadRunning, NEW i \in DOMAIN log', NEW j \in DOMAIN queue,
                      log'[i].kind = "execute", queue[j].by = log'[i].by
               PROVE  log'[i].id < queue[j].id
    BY DEF LogBeforeQueue
  <2>1. CASE log'[i] = s
    <3>1. a = Executor
      BY <2>1, <1>5, ActorFacts
    <3> QED BY <3>1, <2>1, <1>1 DEF Moves, OrderInv, ExecutorBeforeQueue
  <2>2. CASE i \in DOMAIN log /\ log'[i] = log[i]
    BY <2>2 DEF Moves, OrderInv, LogBeforeQueue
  <2> QED BY <2>1, <2>2, <1>4
<1>9. LogBeforeHands'
  <2> SUFFICES ASSUME NEW i \in DOMAIN log', NEW b \in Actors, log'[i].kind = "execute",
                      cur[b] # <<>>, Held(b).by = log'[i].by
               PROVE  /\ log'[i].id <= Held(b).id
                      /\ ThreadRunning /\ b # Executor => log'[i].id < Held(b).id
    BY DEF LogBeforeHands, Held
  <2>1. CASE log'[i] = s
    <3>1. CASE a = Executor
      <4>1. CASE b = Executor
        BY <4>1, <3>1, <2>1, <1>2, StatementFields
      <4>2. CASE b \in Threads
        <5>1. Held(b).by = b
          BY <4>2 DEF KindInv
        <5>2. s.id < Held(b).id
          BY <4>2, <5>1, <3>1, <2>1, <1>1 DEF Moves, OrderInv, ExecutorBeforeThread
        <5> QED BY <5>2, <2>1, <1>2, HeldFacts, StatementFields
      <4> QED BY <4>1, <4>2, ActorFacts
    <3>2. CASE a \in Threads
      <4>1. ~ThreadRunning /\ cur[Executor] = <<>> /\ s.by = a
        BY <3>2, <2>1, <1>5, <1>6
      <4>2. b \in Threads /\ Held(b).by = b
        BY <4>1, ActorFacts DEF KindInv
      <4>3. b = a
        BY <4>1, <4>2, <2>1
      <4> QED BY <4>1, <4>3, <2>1, <1>2, StatementFields
    <3> QED BY <3>1, <3>2, ActorFacts
  <2>2. CASE i \in DOMAIN log /\ log'[i] = log[i]
    BY <2>2 DEF Moves, OrderInv, LogBeforeHands
  <2> QED BY <2>1, <2>2, <1>4
<1>10. AppliedInOrder'
  <2> SUFFICES ASSUME NEW i \in DOMAIN log', NEW j \in DOMAIN log', i < j,
                      log'[i].by = log'[j].by, log'[i].kind = "execute", log'[j].kind = "execute"
               PROVE  log'[i].id <= log'[j].id
    BY DEF AppliedInOrder
  <2>1. i \in DOMAIN log /\ log'[i] = log[i]
    BY <1>3
  <2>2. CASE j = Len(log) + 1
    BY <2>1, <2>2, <1>1, <1>3 DEF Moves, OrderInv, LogBeforeHands
  <2>3. CASE j # Len(log) + 1
    BY <2>1, <2>3, <1>3 DEF Moves, OrderInv, AppliedInOrder
  <2> QED BY <2>2, <2>3
<1>11. IssuedInv'
  BY <1>1, <1>4 DEF Moves, IssuedInv, Held
<1> QED BY <1>7, <1>8, <1>9, <1>10, <1>11 DEF Moves, OrderInv

-----------------------------------------------------------------------------
(* The steps, one by one.                                                  *)

LEMMA InitInv == Init => IInv
<1> SUFFICES ASSUME Init PROVE IInv
  OBVIOUS
<1>1. Cardinality(holders) = 0
  BY FS_EmptySet DEF Init
<1>2. TypeOK
  <2>1. pc \in [Actors -> Labels]
    BY DEF Init, Labels
  <2>2. cur \in [Actors -> {<<>>} \cup {<<s>> : s \in Statements}]
    BY DEF Init
  <2>3. queue \in Seq(Statements) /\ log \in Seq(Statements)
    BY EmptySeq DEF Init
  <2>4. /\ issued \in 0 .. MaxQueries /\ faults \in 0 .. MaxFaults
        /\ Cardinality(holders) <= ConnectionCount
    BY <1>1, DatabaseAssumption DEF Init
  <2> QED BY <2>1, <2>2, <2>3, <2>4 DEF Init, TypeOK
<1>3. PlaceInv /\ LifeInv /\ KindInv
  BY ActorFacts DEF Init, PlaceInv, LifeInv, KindInv, Using, Labels
<1>4. Moves /\ NoLostWakeup
  <2>1. DOMAIN queue = {} /\ DOMAIN log = {} /\ \A a \in Actors : cur[a] = <<>>
    BY DEF Init
  <2>2. NoLostWakeup
    BY DEF Init, NoLostWakeup
  <2> QED BY <2>1, <2>2, ActorFacts DEF Moves, OrderInv, IssuedInv, QueueOrder, ExecutorBeforeQueue, QueueBeforeThread,
     ExecutorBeforeThread, LogBeforeQueue, LogBeforeHands, AppliedInOrder
<1> QED BY <1>2, <1>3, <1>4 DEF IInv

LEMMA GetFreeConnectionInv == ASSUME IInv, NEW a \in Actors, GetFreeConnection(a) PROVE IInv'
<1> USE ActorFacts DEF IInv
<1>a. FreeConnection
  BY DEF GetFreeConnection
<1>1. TypeOK'
  <2>1. pc' \in [Actors -> Labels]
    BY DEF GetFreeConnection, Goto, TypeOK, Labels
  <2>2. holders' \subseteq Actors \cup {QueryThread} /\ Cardinality(holders') <= ConnectionCount
    BY <1>a, HoldersCounted DEF GetFreeConnection, TypeOK
  <2> QED BY <2>1, <2>2 DEF GetFreeConnection, execVars, lifeVars, sqlVars, TypeOK
<1>2. PlaceInv'
  BY <1>a DEF GetFreeConnection, execVars, lifeVars, sqlVars, Goto, TypeOK, PlaceInv, Labels, Using
<1>3. LifeInv' /\ KindInv'
  BY <1>a DEF GetFreeConnection, execVars, lifeVars, sqlVars, Goto, TypeOK, PlaceInv, LifeInv, KindInv, Using, Held
<1>4. Moves'
  BY <1>a, NothingMoves DEF GetFreeConnection, execVars, lifeVars, sqlVars, Goto
<1>5. NoLostWakeup'
  BY <1>a DEF GetFreeConnection, execVars, lifeVars, sqlVars, Goto, TypeOK, NoLostWakeup, Using
<1> QED BY <1>1, <1>2, <1>3, <1>4, <1>5

LEMMA SendQueryInv == ASSUME IInv, NEW a \in Actors, SendQuery(a) PROVE IInv'
<1> USE ActorFacts DEF IInv
<1>a. cur[a] # <<>> /\ Held(a) \in Statements
  BY HeldFacts DEF SendQuery, PlaceInv, Using
<1>b. log' = log \/ log' = Append(log, Held(a))
  BY DEF SendQuery, Confirmed, Unconfirmed, Held
<1>c. log' \in Seq(Statements) /\ faults' \in 0 .. MaxFaults
  <2>0. log \in Seq(Statements)
    BY DEF TypeOK
  <2>1. log' \in Seq(Statements)
    BY <2>0, <1>a, <1>b, AppendFacts
  <2>2. faults' = faults \/ (faults < MaxFaults /\ faults' = faults + 1)
    BY DEF SendQuery, Confirmed, Unconfirmed
  <2> QED BY <2>1, <2>2, DatabaseAssumption DEF TypeOK
<1>d. /\ pc[a] \in Using /\ pc'[a] \in Using /\ pc' \in [Actors -> Labels]
      /\ \A b \in Actors : b # a => pc'[b] = pc[b]
  BY DEF SendQuery, Goto, TypeOK, Labels, Using
<1>1. TypeOK'
  BY <1>a, <1>b, <1>c, <1>d DEF SendQuery, execVars, lifeVars, sqlVars, TypeOK, Labels
<1>2. PlaceInv'
  BY <1>a, <1>b, <1>c, <1>d DEF SendQuery, execVars, lifeVars, sqlVars, TypeOK, PlaceInv, Labels, Using
<1>3. LifeInv' /\ KindInv'
  BY <1>a, <1>b, <1>c, <1>d DEF SendQuery, execVars, lifeVars, sqlVars, TypeOK, PlaceInv, LifeInv, KindInv, Using, Held
<1>4. Moves'
  BY <1>b, NothingMoves, LogMoves DEF SendQuery, execVars, lifeVars, Goto
<1>5. NoLostWakeup'
  BY <1>a, <1>b, <1>c, <1>d DEF SendQuery, execVars, lifeVars, sqlVars, TypeOK, NoLostWakeup, Using
<1> QED BY <1>1, <1>2, <1>3, <1>4, <1>5

LEMMA ResendQueryInv == ASSUME IInv, NEW a \in Actors, ResendQuery(a) PROVE IInv'
<1> USE ActorFacts DEF IInv
<1>a. cur[a] # <<>> /\ Held(a) \in Statements
  BY HeldFacts DEF ResendQuery, PlaceInv, Using
<1>b. log' = log \/ log' = Append(log, Held(a))
  BY DEF ResendQuery, Confirmed, Unconfirmed, Held
<1>c. log' \in Seq(Statements) /\ faults' \in 0 .. MaxFaults
  <2>0. log \in Seq(Statements)
    BY DEF TypeOK
  <2>1. log' \in Seq(Statements)
    BY <2>0, <1>a, <1>b, AppendFacts
  <2>2. faults' = faults \/ (faults < MaxFaults /\ faults' = faults + 1)
    BY DEF ResendQuery, Confirmed, Unconfirmed
  <2> QED BY <2>1, <2>2, DatabaseAssumption DEF TypeOK
<1>d. /\ pc[a] \in Using /\ pc'[a] \in Using /\ pc' \in [Actors -> Labels]
      /\ \A b \in Actors : b # a => pc'[b] = pc[b]
  BY DEF ResendQuery, Goto, TypeOK, Labels, Using
<1>1. TypeOK'
  BY <1>a, <1>b, <1>c, <1>d DEF ResendQuery, execVars, lifeVars, sqlVars, TypeOK, Labels
<1>2. PlaceInv'
  BY <1>a, <1>b, <1>c, <1>d DEF ResendQuery, execVars, lifeVars, sqlVars, TypeOK, PlaceInv, Labels, Using
<1>3. LifeInv' /\ KindInv'
  BY <1>a, <1>b, <1>c, <1>d DEF ResendQuery, execVars, lifeVars, sqlVars, TypeOK, PlaceInv, LifeInv, KindInv, Using, Held
<1>4. Moves'
  BY <1>b, NothingMoves, LogMoves DEF ResendQuery, execVars, lifeVars, Goto
<1>5. NoLostWakeup'
  BY <1>a, <1>b, <1>c, <1>d DEF ResendQuery, execVars, lifeVars, sqlVars, TypeOK, NoLostWakeup, Using
<1> QED BY <1>1, <1>2, <1>3, <1>4, <1>5

LEMMA ExecuteInv == ASSUME IInv, NEW t \in Threads, Execute(t) PROVE IInv'
<1> USE ActorFacts DEF IInv
<1>a. PICK s \in Statements : /\ s.id = issued + 1 /\ s.by = t /\ s.kind = "execute"
                              /\ cur' = [cur EXCEPT ![t] = <<s>>]
  <2> DEFINE s == [id |-> issued + 1, by |-> t, kind |-> "execute"]
  <2>1. s \in Statements
    BY DatabaseAssumption DEF Execute, NewStatement, Statements, TypeOK
  <2> QED BY <2>1 DEF Execute, NewStatement
<1>b. cur[t] = <<>> /\ pc[t] = "idle"
  BY DEF Execute, NewStatement, PlaceInv
<1>1. TypeOK'
  BY <1>a, <1>b, DatabaseAssumption DEF Execute, execVars, lifeVars, sqlVars, NewStatement, Goto, TypeOK, Labels
<1>2. PlaceInv'
  BY <1>a, <1>b DEF Execute, execVars, lifeVars, sqlVars, NewStatement, Goto, TypeOK, PlaceInv, Labels, Using
<1>3. LifeInv' /\ KindInv'
  BY <1>a, <1>b DEF Execute, execVars, lifeVars, sqlVars, NewStatement, Goto, TypeOK, PlaceInv, LifeInv, KindInv, Using, Held
<1>4. Moves'
  BY <1>a, <1>b, NewMoves DEF Execute, NewStatement, execVars
<1>5. NoLostWakeup'
  BY <1>a, <1>b DEF Execute, execVars, lifeVars, sqlVars, NewStatement, Goto, TypeOK, NoLostWakeup, Using
<1> QED BY <1>1, <1>2, <1>3, <1>4, <1>5

LEMMA WaitExecuteInv == ASSUME IInv, NEW t \in Threads, WaitExecute(t) PROVE IInv'
<1> USE ActorFacts DEF IInv
<1>a. PICK s \in Statements : /\ s.id = issued + 1 /\ s.by = t /\ s.kind = "direct"
                              /\ cur' = [cur EXCEPT ![t] = <<s>>]
  <2> DEFINE s == [id |-> issued + 1, by |-> t, kind |-> "direct"]
  <2>1. s \in Statements
    BY DatabaseAssumption DEF WaitExecute, NewStatement, Statements, TypeOK
  <2> QED BY <2>1 DEF WaitExecute, NewStatement
<1>b. cur[t] = <<>> /\ pc[t] = "idle"
  BY DEF WaitExecute, NewStatement, PlaceInv
<1>1. TypeOK'
  BY <1>a, <1>b, DatabaseAssumption DEF WaitExecute, execVars, lifeVars, sqlVars, NewStatement, Goto, TypeOK, Labels
<1>2. PlaceInv'
  BY <1>a, <1>b DEF WaitExecute, execVars, lifeVars, sqlVars, NewStatement, Goto, TypeOK, PlaceInv, Labels, Using
<1>3. LifeInv' /\ KindInv'
  BY <1>a, <1>b DEF WaitExecute, execVars, lifeVars, sqlVars, NewStatement, Goto, TypeOK, PlaceInv, LifeInv, KindInv, Using, Held
<1>4. Moves'
  BY <1>a, <1>b, NewMoves DEF WaitExecute, NewStatement, execVars
<1>5. NoLostWakeup'
  BY <1>a, <1>b DEF WaitExecute, execVars, lifeVars, sqlVars, NewStatement, Goto, TypeOK, NoLostWakeup, Using
<1> QED BY <1>1, <1>2, <1>3, <1>4, <1>5

LEMMA PushInv == ASSUME IInv, NEW t \in Threads, Push(t) PROVE IInv'
<1> USE ActorFacts DEF IInv
<1>a. cur[t] # <<>>
  BY DEF Push, PlaceInv
<1>b. Held(t) \in Statements
  BY <1>a, HeldFacts
<1>c. queue' = Append(queue, Held(t)) /\ queue' \in Seq(Statements) /\ DOMAIN queue' = 1 .. Len(queue) + 1
      /\ DOMAIN queue = 1 .. Len(queue) /\ Len(queue) \in Nat
  BY <1>b, AppendFacts DEF Push, TypeOK, Held
<1>d. \A i \in DOMAIN queue' : queue'[i] = Held(t) \/ (i \in DOMAIN queue /\ queue'[i] = queue[i])
  BY <1>b, <1>c, AppendFacts DEF TypeOK
<1>e. late' \subseteq 1 .. MaxQueries
  <2>1. Held(t).id \in 1 .. MaxQueries
    BY <1>b DEF Statements
  <2> QED BY <2>1 DEF Push, Note, TypeOK, Held
<1>1. TypeOK'
  BY <1>a, <1>b, <1>c, <1>d, <1>e DEF Push, execVars, lifeVars, Goto, TypeOK, Labels
<1>2. PlaceInv'
  BY <1>a, <1>b, <1>c, <1>d DEF Push, execVars, lifeVars, sqlVars, Goto, TypeOK, PlaceInv, Labels, Using
<1>3. LifeInv' /\ KindInv'
  BY <1>a, <1>b, <1>c, <1>d DEF Push, execVars, lifeVars, sqlVars, Goto, TypeOK, PlaceInv, LifeInv, KindInv, Using, Held
<1>4. Moves'
  BY <1>a, <1>c, PushMoves DEF Push
<1>5. NoLostWakeup'
  BY <1>a, <1>b, <1>c, <1>d DEF Push, execVars, lifeVars, sqlVars, Goto, TypeOK, NoLostWakeup, Using
<1> QED BY <1>1, <1>2, <1>3, <1>4, <1>5

LEMMA ReturnInv == ASSUME IInv, NEW t \in Threads, Return(t) PROVE IInv'
<1> USE ActorFacts DEF IInv
<1>1. TypeOK'
  <2>1. pc' \in [Actors -> Labels]
    BY DEF Return, Goto, TypeOK, Labels
  <2>2. holders' \subseteq Actors \cup {QueryThread} /\ Cardinality(holders') <= ConnectionCount
    BY HoldersCounted DEF Return, TypeOK
  <2>3. cur' \in [Actors -> {<<>>} \cup {<<s>> : s \in Statements}]
    BY DEF Return, TypeOK
  <2> QED BY <2>1, <2>2, <2>3 DEF Return, execVars, lifeVars, sqlVars, TypeOK
<1>2. PlaceInv'
  BY DEF Return, execVars, lifeVars, sqlVars, Goto, TypeOK, PlaceInv, Labels, Using
<1>3. LifeInv' /\ KindInv'
  BY DEF Return, execVars, lifeVars, sqlVars, Goto, TypeOK, PlaceInv, LifeInv, KindInv, Using, Held
<1>4. Moves'
  BY DropMoves DEF Return, sqlVars, execVars
<1>5. NoLostWakeup'
  BY DEF Return, execVars, lifeVars, sqlVars, Goto, TypeOK, NoLostWakeup, Using
<1> QED BY <1>1, <1>2, <1>3, <1>4, <1>5

LEMMA PopInv == ASSUME IInv, Pop PROVE IInv'
<1> USE ActorFacts DEF IInv
<1>a. pc[Executor] = "pop" /\ cur[Executor] = <<>> /\ ThreadRunning
  BY DEF Pop, PlaceInv, LifeInv, Using
<1>b. \/ queue = <<>> /\ UNCHANGED <<queue, cur>>
      \/ queue # <<>> /\ Take
  BY DEF Pop, TakeNull
<1>c. Take /\ queue # <<>> => /\ queue' \in Seq(Statements) /\ queue[1] \in Statements
                              /\ cur' = [cur EXCEPT ![Executor] = <<queue[1]>>]
                              /\ 1 \in DOMAIN queue
                              /\ \A i \in DOMAIN queue' : i + 1 \in DOMAIN queue /\ queue'[i] = queue[i + 1]
  BY TailFacts DEF Take, TypeOK
<1>d. /\ cur' \in [Actors -> {<<>>} \cup {<<s>> : s \in Statements}]
      /\ \A t \in Threads : cur'[t] = cur[t]
      /\ queue # <<>> => cur'[Executor] = <<queue[1]>>
      /\ queue = <<>> => cur'[Executor] = <<>>
      /\ queue' \in Seq(Statements)
  <2>1. CASE queue = <<>> /\ UNCHANGED <<queue, cur>>
    BY <1>a, <2>1 DEF TypeOK
  <2>2. CASE queue # <<>> /\ Take
    <3>1. <<queue[1]>> \in {<<s>> : s \in Statements}
      BY <1>c, <2>2
    <3> QED BY <3>1, <1>c, <2>2 DEF TypeOK
  <2> QED BY <1>b, <2>1, <2>2
<1>e. /\ pc'[Executor] \in {"send", "connect", "waiting", "release", "ending"}
      /\ pc' \in [Actors -> Labels]
      /\ \A t \in Threads : pc'[t] = pc[t]
      /\ pc'[Executor] = "send" => queue # <<>>
      /\ pc'[Executor] \in {"waiting", "release", "ending"} => queue = <<>>
      /\ pc'[Executor] \in {"connect", "ending"} => Executor \notin holders
  BY <1>a DEF Pop, AfterPop, Goto, TypeOK, PlaceInv, Labels, Using
<1>f. queue # <<>> => cur'[Executor] # <<>>
  BY <1>d, Singletons
<1>1. TypeOK'
  BY <1>a, <1>b, <1>c, <1>d, <1>e, <1>f DEF Pop, execVars, lifeVars, sqlVars, TypeOK, Labels
<1>2. PlaceInv'
  <2>1. UNCHANGED holders
    BY DEF Pop
  <2>2. \A t \in Threads :
          /\ pc'[t] \in {"idle", "push", "connect"} \cup Using
          /\ cur'[t] = <<>> <=> pc'[t] = "idle"
          /\ t \in holders' <=> pc'[t] \in Using
    BY <1>d, <1>e, <2>1 DEF PlaceInv
  <2>3. pc'[Executor] \in Using => pc'[Executor] = "send"
    BY <1>e DEF Using
  <2> QED BY <1>d, <1>e, <2>1, <2>2, <2>3, <1>f DEF PlaceInv, Labels, Using
<1>3. LifeInv' /\ KindInv'
  BY <1>a, <1>b, <1>c, <1>d, <1>e, <1>f DEF Pop, execVars, lifeVars, sqlVars, TypeOK, PlaceInv, LifeInv, KindInv, Using, Held
<1>4. Moves'
  BY <1>a, <1>b, NothingMoves, TakeMoves DEF Pop, sqlVars, execVars
<1>5. NoLostWakeup'
  BY <1>a, <1>b, <1>c, <1>d, <1>e, <1>f DEF Pop, execVars, lifeVars, sqlVars, TypeOK, NoLostWakeup, Using
<1> QED BY <1>1, <1>2, <1>3, <1>4, <1>5

LEMMA WakeInv == ASSUME IInv, Wake PROVE IInv'
<1> USE ActorFacts DEF IInv
<1>a. pc[Executor] = "waiting" /\ cur[Executor] = <<>> /\ ThreadRunning
  BY DEF Wake, PlaceInv, LifeInv, Using
<1>b. \/ queue = <<>> /\ UNCHANGED <<queue, cur>>
      \/ queue # <<>> /\ Take
  BY DEF Wake, TakeNull
<1>c. Take /\ queue # <<>> => /\ queue' \in Seq(Statements) /\ queue[1] \in Statements
                              /\ cur' = [cur EXCEPT ![Executor] = <<queue[1]>>]
                              /\ 1 \in DOMAIN queue
                              /\ \A i \in DOMAIN queue' : i + 1 \in DOMAIN queue /\ queue'[i] = queue[i + 1]
  BY TailFacts DEF Take, TypeOK
<1>d. /\ cur' \in [Actors -> {<<>>} \cup {<<s>> : s \in Statements}]
      /\ \A t \in Threads : cur'[t] = cur[t]
      /\ queue # <<>> => cur'[Executor] = <<queue[1]>>
      /\ queue = <<>> => cur'[Executor] = <<>>
      /\ queue' \in Seq(Statements)
  <2>1. CASE queue = <<>> /\ UNCHANGED <<queue, cur>>
    BY <1>a, <2>1 DEF TypeOK
  <2>2. CASE queue # <<>> /\ Take
    <3>1. <<queue[1]>> \in {<<s>> : s \in Statements}
      BY <1>c, <2>2
    <3> QED BY <3>1, <1>c, <2>2 DEF TypeOK
  <2> QED BY <1>b, <2>1, <2>2
<1>e. /\ pc'[Executor] \in {"send", "connect", "waiting", "release", "ending"}
      /\ pc' \in [Actors -> Labels]
      /\ \A t \in Threads : pc'[t] = pc[t]
      /\ pc'[Executor] = "send" => queue # <<>>
      /\ pc'[Executor] \in {"waiting", "release", "ending"} => queue = <<>>
      /\ pc'[Executor] \in {"connect", "ending"} => Executor \notin holders
  BY <1>a DEF Wake, AfterPop, Goto, TypeOK, PlaceInv, Labels, Using
<1>f. queue # <<>> => cur'[Executor] # <<>>
  BY <1>d, Singletons
<1>1. TypeOK'
  BY <1>a, <1>b, <1>c, <1>d, <1>e, <1>f DEF Wake, execVars, lifeVars, sqlVars, TypeOK, Labels
<1>2. PlaceInv'
  <2>1. UNCHANGED holders
    BY DEF Wake
  <2>2. \A t \in Threads :
          /\ pc'[t] \in {"idle", "push", "connect"} \cup Using
          /\ cur'[t] = <<>> <=> pc'[t] = "idle"
          /\ t \in holders' <=> pc'[t] \in Using
    BY <1>d, <1>e, <2>1 DEF PlaceInv
  <2>3. pc'[Executor] \in Using => pc'[Executor] = "send"
    BY <1>e DEF Using
  <2> QED BY <1>d, <1>e, <2>1, <2>2, <2>3, <1>f DEF PlaceInv, Labels, Using
<1>3. LifeInv' /\ KindInv'
  BY <1>a, <1>b, <1>c, <1>d, <1>e, <1>f DEF Wake, execVars, lifeVars, sqlVars, TypeOK, PlaceInv, LifeInv, KindInv, Using, Held
<1>4. Moves'
  BY <1>a, <1>b, NothingMoves, TakeMoves DEF Wake, sqlVars, execVars
<1>5. NoLostWakeup'
  BY <1>a, <1>b, <1>c, <1>d, <1>e, <1>f DEF Wake, execVars, lifeVars, sqlVars, TypeOK, NoLostWakeup, Using
<1> QED BY <1>1, <1>2, <1>3, <1>4, <1>5

LEMMA PopNoWaitInv == ASSUME IInv, PopNoWait PROVE IInv'
<1> USE ActorFacts DEF IInv
<1>a. pc[Executor] = "drain" /\ cur[Executor] = <<>> /\ ThreadRunning
  BY DEF PopNoWait, PlaceInv, LifeInv, Using
<1>b. \/ queue = <<>> /\ UNCHANGED <<queue, cur>>
      \/ queue # <<>> /\ Take
  BY DEF PopNoWait, TakeNull
<1>c. Take /\ queue # <<>> => /\ queue' \in Seq(Statements) /\ queue[1] \in Statements
                              /\ cur' = [cur EXCEPT ![Executor] = <<queue[1]>>]
                              /\ 1 \in DOMAIN queue
                              /\ \A i \in DOMAIN queue' : i + 1 \in DOMAIN queue /\ queue'[i] = queue[i + 1]
  BY TailFacts DEF Take, TypeOK
<1>d. /\ cur' \in [Actors -> {<<>>} \cup {<<s>> : s \in Statements}]
      /\ \A t \in Threads : cur'[t] = cur[t]
      /\ queue # <<>> => cur'[Executor] = <<queue[1]>>
      /\ queue = <<>> => cur'[Executor] = <<>>
      /\ queue' \in Seq(Statements)
  <2>1. CASE queue = <<>> /\ UNCHANGED <<queue, cur>>
    BY <1>a, <2>1 DEF TypeOK
  <2>2. CASE queue # <<>> /\ Take
    <3>1. <<queue[1]>> \in {<<s>> : s \in Statements}
      BY <1>c, <2>2
    <3> QED BY <3>1, <1>c, <2>2 DEF TypeOK
  <2> QED BY <1>b, <2>1, <2>2
<1>e. /\ pc'[Executor] \in {"send", "connect", "waiting", "release", "ending"}
      /\ pc' \in [Actors -> Labels]
      /\ \A t \in Threads : pc'[t] = pc[t]
      /\ pc'[Executor] = "send" => queue # <<>>
      /\ pc'[Executor] \in {"waiting", "release", "ending"} => queue = <<>>
      /\ pc'[Executor] \in {"connect", "ending"} => Executor \notin holders
  BY <1>a DEF PopNoWait, AfterPop, Goto, TypeOK, PlaceInv, Labels, Using
<1>f. queue # <<>> => cur'[Executor] # <<>>
  BY <1>d, Singletons
<1>1. TypeOK'
  BY <1>a, <1>b, <1>c, <1>d, <1>e, <1>f DEF PopNoWait, execVars, lifeVars, sqlVars, TypeOK, Labels
<1>2. PlaceInv'
  <2>1. UNCHANGED holders
    BY DEF PopNoWait
  <2>2. \A t \in Threads :
          /\ pc'[t] \in {"idle", "push", "connect"} \cup Using
          /\ cur'[t] = <<>> <=> pc'[t] = "idle"
          /\ t \in holders' <=> pc'[t] \in Using
    BY <1>d, <1>e, <2>1 DEF PlaceInv
  <2>3. pc'[Executor] \in Using => pc'[Executor] = "send"
    BY <1>e DEF Using
  <2> QED BY <1>d, <1>e, <2>1, <2>2, <2>3, <1>f DEF PlaceInv, Labels, Using
<1>3. LifeInv' /\ KindInv'
  BY <1>a, <1>b, <1>c, <1>d, <1>e, <1>f DEF PopNoWait, execVars, lifeVars, sqlVars, TypeOK, PlaceInv, LifeInv, KindInv, Using, Held
<1>4. Moves'
  BY <1>a, <1>b, NothingMoves, TakeMoves DEF PopNoWait, sqlVars, execVars
<1>5. NoLostWakeup'
  BY <1>a, <1>b, <1>c, <1>d, <1>e, <1>f DEF PopNoWait, execVars, lifeVars, sqlVars, TypeOK, NoLostWakeup, Using
<1> QED BY <1>1, <1>2, <1>3, <1>4, <1>5

LEMMA ExecutedInv == ASSUME IInv, Executed PROVE IInv'
<1> USE ActorFacts DEF IInv
<1>1. TypeOK'
  BY DEF Executed, execVars, lifeVars, sqlVars, Goto, TypeOK, Labels
<1>2. PlaceInv'
  BY DEF Executed, execVars, lifeVars, sqlVars, Goto, TypeOK, PlaceInv, Labels, Using
<1>3. LifeInv' /\ KindInv'
  BY DEF Executed, execVars, lifeVars, sqlVars, Goto, TypeOK, PlaceInv, LifeInv, KindInv, Using, Held
<1>4. Moves'
  BY DropMoves DEF Executed, sqlVars, execVars
<1>5. NoLostWakeup'
  BY DEF Executed, execVars, lifeVars, sqlVars, Goto, TypeOK, NoLostWakeup, Using
<1> QED BY <1>1, <1>2, <1>3, <1>4, <1>5

LEMMA ReleaseInv == ASSUME IInv, Release PROVE IInv'
<1> USE ActorFacts DEF IInv
<1>1. TypeOK'
  <2>1. pc' \in [Actors -> Labels]
    BY DEF Release, Goto, TypeOK, Labels
  <2>2. holders' \subseteq Actors \cup {QueryThread} /\ Cardinality(holders') <= ConnectionCount
    BY HoldersCounted DEF Release, TypeOK
  <2> QED BY <2>1, <2>2 DEF Release, execVars, lifeVars, sqlVars, TypeOK
<1>2. PlaceInv'
  BY DEF Release, execVars, lifeVars, sqlVars, Goto, TypeOK, PlaceInv, Labels, Using
<1>3. LifeInv' /\ KindInv'
  BY DEF Release, execVars, lifeVars, sqlVars, Goto, TypeOK, PlaceInv, LifeInv, KindInv, Using, Held
<1>4. Moves'
  BY NothingMoves DEF Release, execVars, lifeVars, sqlVars, Goto
<1>5. NoLostWakeup'
  BY DEF Release, execVars, lifeVars, sqlVars, Goto, TypeOK, NoLostWakeup, Using
<1> QED BY <1>1, <1>2, <1>3, <1>4, <1>5

LEMMA RemainingInv == ASSUME IInv, Remaining PROVE IInv'
<1> USE ActorFacts DEF IInv
<1>1. TypeOK'
  BY DEF Remaining, execVars, lifeVars, sqlVars, Goto, TypeOK, Labels
<1>2. PlaceInv'
  BY DEF Remaining, execVars, lifeVars, sqlVars, Goto, TypeOK, PlaceInv, Labels, Using
<1>3. LifeInv' /\ KindInv'
  BY DEF Remaining, execVars, lifeVars, sqlVars, Goto, TypeOK, PlaceInv, LifeInv, KindInv, Using, Held
<1>4. Moves'
  BY NothingMoves DEF Remaining, execVars, lifeVars, sqlVars, Goto
<1>5. NoLostWakeup'
  BY DEF Remaining, execVars, lifeVars, sqlVars, Goto, TypeOK, NoLostWakeup, Using
<1> QED BY <1>1, <1>2, <1>3, <1>4, <1>5

LEMMA DrainedInv == ASSUME IInv, Drained PROVE IInv'
<1> USE ActorFacts DEF IInv
<1>1. TypeOK'
  <2>1. pc' \in [Actors -> Labels]
    BY DEF Drained, Goto, TypeOK, Labels
  <2>2. holders' \subseteq Actors \cup {QueryThread} /\ Cardinality(holders') <= ConnectionCount
    BY HoldersCounted DEF Drained, TypeOK
  <2>3. cur' \in [Actors -> {<<>>} \cup {<<s>> : s \in Statements}]
    BY DEF Drained, TypeOK
  <2> QED BY <2>1, <2>2, <2>3 DEF Drained, execVars, lifeVars, sqlVars, TypeOK
<1>2. PlaceInv'
  BY DEF Drained, execVars, lifeVars, sqlVars, Goto, TypeOK, PlaceInv, Labels, Using
<1>3. LifeInv' /\ KindInv'
  BY DEF Drained, execVars, lifeVars, sqlVars, Goto, TypeOK, PlaceInv, LifeInv, KindInv, Using, Held
<1>4. Moves'
  BY DropMoves DEF Drained, sqlVars, execVars
<1>5. NoLostWakeup'
  BY DEF Drained, execVars, lifeVars, sqlVars, Goto, TypeOK, NoLostWakeup, Using
<1> QED BY <1>1, <1>2, <1>3, <1>4, <1>5

LEMMA EndInv == ASSUME IInv, End PROVE IInv'
<1> USE ActorFacts DEF IInv
<1>1. TypeOK'
  <2>1. pc' \in [Actors -> Labels]
    BY DEF End, Goto, TypeOK, Labels
  <2> QED BY <2>1 DEF End, lifeVars, sqlVars, TypeOK
<1>2. PlaceInv'
  BY DEF End, execVars, lifeVars, sqlVars, Goto, TypeOK, PlaceInv, Labels, Using
<1>3. LifeInv' /\ KindInv'
  BY DEF End, execVars, lifeVars, sqlVars, Goto, TypeOK, PlaceInv, LifeInv, KindInv, Using, Held
<1>4. Moves'
  BY NothingMoves DEF End, execVars, lifeVars, sqlVars, Goto
<1>5. NoLostWakeup'
  BY DEF End, execVars, lifeVars, sqlVars, Goto, TypeOK, NoLostWakeup, Using
<1> QED BY <1>1, <1>2, <1>3, <1>4, <1>5

LEMMA QueryThreadConnectsInv == ASSUME IInv, QueryThreadConnects PROVE IInv'
<1> USE ActorFacts DEF IInv
<1>a. FreeConnection
  BY DEF QueryThreadConnects
<1>1. TypeOK'
  <2>1. holders' \subseteq Actors \cup {QueryThread} /\ Cardinality(holders') <= ConnectionCount
    BY <1>a, HoldersCounted DEF QueryThreadConnects, TypeOK
  <2> QED BY <2>1 DEF QueryThreadConnects, execVars, sqlVars, TypeOK
<1>2. PlaceInv'
  BY <1>a DEF QueryThreadConnects, execVars, lifeVars, sqlVars, TypeOK, PlaceInv, Labels, Using
<1>3. LifeInv' /\ KindInv'
  BY <1>a DEF QueryThreadConnects, execVars, lifeVars, sqlVars, TypeOK, PlaceInv, LifeInv, KindInv, Using, Held
<1>4. Moves'
  BY <1>a, NothingMoves DEF QueryThreadConnects, execVars, lifeVars, sqlVars
<1>5. NoLostWakeup'
  BY <1>a DEF QueryThreadConnects, execVars, lifeVars, sqlVars, TypeOK, NoLostWakeup, Using
<1> QED BY <1>1, <1>2, <1>3, <1>4, <1>5

LEMMA QueryThreadReleasesInv == ASSUME IInv, QueryThreadReleases PROVE IInv'
<1> USE ActorFacts DEF IInv
<1>1. TypeOK'
  <2>1. holders' \subseteq Actors \cup {QueryThread} /\ Cardinality(holders') <= ConnectionCount
    BY HoldersCounted DEF QueryThreadReleases, TypeOK
  <2> QED BY <2>1 DEF QueryThreadReleases, execVars, sqlVars, TypeOK
<1>2. PlaceInv'
  BY DEF QueryThreadReleases, execVars, lifeVars, sqlVars, TypeOK, PlaceInv, Labels, Using
<1>3. LifeInv' /\ KindInv'
  BY DEF QueryThreadReleases, execVars, lifeVars, sqlVars, TypeOK, PlaceInv, LifeInv, KindInv, Using, Held
<1>4. Moves'
  BY NothingMoves DEF QueryThreadReleases, execVars, lifeVars, sqlVars
<1>5. NoLostWakeup'
  BY DEF QueryThreadReleases, execVars, lifeVars, sqlVars, TypeOK, NoLostWakeup, Using
<1> QED BY <1>1, <1>2, <1>3, <1>4, <1>5

LEMMA QueryThreadDeletedInv == ASSUME IInv, QueryThreadDeleted PROVE IInv'
<1> USE ActorFacts DEF IInv
<1>1. TypeOK'
  BY DEF QueryThreadDeleted, execVars, lifeVars, sqlVars, TypeOK, Labels
<1>2. PlaceInv'
  BY DEF QueryThreadDeleted, execVars, lifeVars, sqlVars, TypeOK, PlaceInv, Labels, Using
<1>3. LifeInv' /\ KindInv'
  BY DEF QueryThreadDeleted, execVars, lifeVars, sqlVars, TypeOK, PlaceInv, LifeInv, KindInv, Using, Held
<1>4. Moves'
  BY NothingMoves DEF QueryThreadDeleted, execVars, lifeVars, sqlVars
<1>5. NoLostWakeup'
  BY DEF QueryThreadDeleted, execVars, lifeVars, sqlVars, TypeOK, NoLostWakeup, Using
<1> QED BY <1>1, <1>2, <1>3, <1>4, <1>5

LEMMA TerminateInv == ASSUME IInv, Terminate PROVE IInv'
<1> USE ActorFacts DEF IInv
<1>1. TypeOK'
  BY DEF Terminate, execVars, lifeVars, sqlVars, TypeOK, Labels
<1>2. PlaceInv'
  BY DEF Terminate, execVars, lifeVars, sqlVars, TypeOK, PlaceInv, Labels, Using
<1>3. LifeInv' /\ KindInv'
  BY DEF Terminate, execVars, lifeVars, sqlVars, TypeOK, PlaceInv, LifeInv, KindInv, Using, Held
<1>4. Moves'
  BY NothingMoves DEF Terminate, execVars, lifeVars, sqlVars
<1>5. NoLostWakeup'
  BY DEF Terminate, execVars, lifeVars, sqlVars, TypeOK, NoLostWakeup, Using
<1> QED BY <1>1, <1>2, <1>3, <1>4, <1>5

LEMMA LoopTestInv == ASSUME IInv, LoopTest PROVE IInv'
<1> USE ActorFacts DEF IInv
<1>1. TypeOK'
  BY DEF LoopTest, execVars, lifeVars, sqlVars, TypeOK, Labels
<1>2. PlaceInv'
  BY DEF LoopTest, execVars, lifeVars, sqlVars, TypeOK, PlaceInv, Labels, Using
<1>3. LifeInv' /\ KindInv'
  BY DEF LoopTest, execVars, lifeVars, sqlVars, TypeOK, PlaceInv, LifeInv, KindInv, Using, Held
<1>4. Moves'
  BY NothingMoves DEF LoopTest, execVars, lifeVars, sqlVars
<1>5. NoLostWakeup'
  BY DEF LoopTest, execVars, lifeVars, sqlVars, TypeOK, NoLostWakeup, Using
<1> QED BY <1>1, <1>2, <1>3, <1>4, <1>5

LEMMA BroadcastBufferInv == ASSUME IInv, BroadcastBuffer PROVE IInv'
<1> USE ActorFacts DEF IInv
<1>1. TypeOK'
  BY DEF BroadcastBuffer, execVars, lifeVars, sqlVars, TypeOK, Labels
<1>2. PlaceInv'
  BY DEF BroadcastBuffer, execVars, lifeVars, sqlVars, TypeOK, PlaceInv, Labels, Using
<1>3. LifeInv' /\ KindInv'
  BY DEF BroadcastBuffer, execVars, lifeVars, sqlVars, TypeOK, PlaceInv, LifeInv, KindInv, Using, Held
<1>4. Moves'
  BY NothingMoves DEF BroadcastBuffer, execVars, lifeVars, sqlVars
<1>5. NoLostWakeup'
  BY DEF BroadcastBuffer, execVars, lifeVars, sqlVars, TypeOK, NoLostWakeup, Using
<1> QED BY <1>1, <1>2, <1>3, <1>4, <1>5

LEMMA BroadcastQueueInv == ASSUME IInv, BroadcastQueue PROVE IInv'
<1> USE ActorFacts DEF IInv
<1>1. TypeOK'
  BY DEF BroadcastQueue, execVars, lifeVars, sqlVars, TypeOK, Labels
<1>2. PlaceInv'
  BY DEF BroadcastQueue, execVars, lifeVars, sqlVars, TypeOK, PlaceInv, Labels, Using
<1>3. LifeInv' /\ KindInv'
  BY DEF BroadcastQueue, execVars, lifeVars, sqlVars, TypeOK, PlaceInv, LifeInv, KindInv, Using, Held
<1>4. Moves'
  BY NothingMoves DEF BroadcastQueue, execVars, lifeVars, sqlVars
<1>5. NoLostWakeup'
  BY DEF BroadcastQueue, execVars, lifeVars, sqlVars, TypeOK, NoLostWakeup, Using
<1> QED BY <1>1, <1>2, <1>3, <1>4, <1>5

LEMMA SleptInv == ASSUME IInv, Slept PROVE IInv'
<1> USE ActorFacts DEF IInv
<1>1. TypeOK'
  BY DEF Slept, execVars, lifeVars, sqlVars, TypeOK, Labels
<1>2. PlaceInv'
  BY DEF Slept, execVars, lifeVars, sqlVars, TypeOK, PlaceInv, Labels, Using
<1>3. LifeInv' /\ KindInv'
  BY DEF Slept, execVars, lifeVars, sqlVars, TypeOK, PlaceInv, LifeInv, KindInv, Using, Held
<1>4. Moves'
  BY NothingMoves DEF Slept, execVars, lifeVars, sqlVars
<1>5. NoLostWakeup'
  BY DEF Slept, execVars, lifeVars, sqlVars, TypeOK, NoLostWakeup, Using
<1> QED BY <1>1, <1>2, <1>3, <1>4, <1>5

LEMMA ShutdownInv == ASSUME IInv, Shutdown PROVE IInv'
<1> USE ActorFacts DEF IInv
<1>1. TypeOK'
  BY DEF Shutdown, execVars, lifeVars, sqlVars, TypeOK, Labels
<1>2. PlaceInv'
  BY DEF Shutdown, execVars, lifeVars, sqlVars, TypeOK, PlaceInv, Labels, Using
<1>3. LifeInv' /\ KindInv'
  BY DEF Shutdown, execVars, lifeVars, sqlVars, TypeOK, PlaceInv, LifeInv, KindInv, Using, Held
<1>4. Moves'
  BY NothingMoves DEF Shutdown, execVars, lifeVars, sqlVars
<1>5. NoLostWakeup'
  BY DEF Shutdown, execVars, lifeVars, sqlVars, TypeOK, NoLostWakeup, Using
<1> QED BY <1>1, <1>2, <1>3, <1>4, <1>5

LEMMA UseAfterShutdownInv == ASSUME IInv, UseAfterShutdown PROVE IInv'
<1> USE ActorFacts DEF IInv
<1>1. TypeOK'
  BY DEF UseAfterShutdown, execVars, lifeVars, sqlVars, TypeOK, Labels
<1>2. PlaceInv'
  BY DEF UseAfterShutdown, execVars, lifeVars, sqlVars, TypeOK, PlaceInv, Labels, Using
<1>3. LifeInv' /\ KindInv'
  BY DEF UseAfterShutdown, execVars, lifeVars, sqlVars, TypeOK, PlaceInv, LifeInv, KindInv, Using, Held
<1>4. Moves'
  BY NothingMoves DEF UseAfterShutdown, execVars, lifeVars, sqlVars
<1>5. NoLostWakeup'
  BY DEF UseAfterShutdown, execVars, lifeVars, sqlVars, TypeOK, NoLostWakeup, Using
<1> QED BY <1>1, <1>2, <1>3, <1>4, <1>5

LEMMA NextInv == IInv /\ [Next]_vars => IInv'
<1> SUFFICES ASSUME IInv, [Next]_vars PROVE IInv'
  OBVIOUS
<1>1. ASSUME NEW a \in Actors, Statement(a) PROVE IInv'
  BY <1>1, GetFreeConnectionInv, SendQueryInv, ResendQueryInv DEF Statement
<1>2. ASSUME NEW t \in Threads, Server(t) PROVE IInv'
  BY <1>1, <1>2, ExecuteInv, WaitExecuteInv, PushInv, ReturnInv, ActorFacts DEF Server, ServerCall
<1>3. CASE Run
  BY <1>1, <1>3, PopInv, WakeInv, ExecutedInv, ReleaseInv, RemainingInv, PopNoWaitInv, DrainedInv,
     EndInv, ActorFacts DEF Run
<1>4. CASE QueryThreadRun
  BY <1>4, QueryThreadConnectsInv, QueryThreadReleasesInv, QueryThreadDeletedInv DEF QueryThreadRun
<1>5. CASE Terminate \/ StopDB \/ UseAfterShutdown
  BY <1>5, TerminateInv, LoopTestInv, BroadcastBufferInv, BroadcastQueueInv, SleptInv, ShutdownInv,
     UseAfterShutdownInv DEF StopDB
<1>6. CASE UNCHANGED vars
  <2>1. Moves'
    BY <1>6, NothingMoves DEF IInv, vars, execVars, sqlVars
  <2> QED BY <1>6, <2>1 DEF IInv, vars, execVars, lifeVars, sqlVars, TypeOK, PlaceInv, LifeInv,
          KindInv, NoLostWakeup, Held
<1> QED BY <1>2, <1>3, <1>4, <1>5, <1>6 DEF Next

LEMMA Invariance == Spec => []IInv
<1> QED BY InitInv, NextInv, PTL DEF Spec

-----------------------------------------------------------------------------
(* The properties.                                                         *)

(* Types, and the pool of connections: GetFreeConnection never gives one   *)
(* connection to two users, for any number of connections and threads.     *)
THEOREM TypeCorrect == Spec => []TypeOK
<1>1. IInv => TypeOK
  BY DEF IInv
<1> QED BY <1>1, Invariance, PTL

(* The executor never sleeps on a statement, although push signals only    *)
(* when the queue was empty.                                               *)
THEOREM NoWakeupLost == Spec => []NoLostWakeup
<1>1. IInv => NoLostWakeup
  BY DEF IInv
<1> QED BY <1>1, Invariance, PTL

(* What one thread hands to Execute is executed in its order, through the  *)
(* queue, across the end of the executor and for every re-sent statement.  *)
THEOREM ExecutedInOrder == Spec => []AppliedInOrder
<1>1. IInv => AppliedInOrder
  BY DEF IInv, Moves, OrderInv
<1> QED BY <1>1, Invariance, PTL

(* Shutdown comes after the executor has ended, with nothing in its hands. *)
THEOREM ClosedAfterExecutor == Spec => []ExecutorGoneBeforeClose
<1>1. IInv => ExecutorGoneBeforeClose
  BY DEF IInv, LifeInv, PlaceInv, Using, ExecutorGoneBeforeClose
<1> QED BY <1>1, Invariance, PTL

(* Whoever waits for a connection has none, so when all are busy those who *)
(* wait and those who have one are different users.                        *)
THEOREM ConnectionsFound == Spec => []ShortfallWaits
<1>1. IInv => ShortfallWaits
  <2> DEFINE users == Actors \cup {QueryThread}
             waiting == {a \in Actors : pc[a] = "connect"}
  <2> SUFFICES ASSUME IInv, ~closed, ~FreeConnection
               PROVE  Cardinality(waiting) + ConnectionCount <= Cardinality(Threads) + 2
    BY DEF ShortfallWaits
  <2>1. waiting \subseteq users /\ holders \subseteq users /\ waiting \cap holders = {}
    BY ActorFacts DEF IInv, TypeOK, PlaceInv, Using
  <2>2. IsFiniteSet(Threads) /\ Cardinality(Threads) \in Nat
    BY DatabaseAssumption, FS_CardinalityType
  <2>3. IsFiniteSet(Actors) /\ Cardinality(Actors) = Cardinality(Threads) + 1
    BY <2>2, FS_AddElement, ActorFacts DEF Actors
  <2>4. IsFiniteSet(users) /\ Cardinality(users) = Cardinality(Threads) + 2
    BY <2>2, <2>3, FS_AddElement, ActorFacts
  <2>5. Cardinality(holders) = ConnectionCount
    <3>1. Cardinality(holders) \in Nat /\ ConnectionCount \in Nat
      BY <2>1, <2>4, FS_Subset, FS_CardinalityType, DatabaseAssumption
    <3> QED BY <3>1 DEF FreeConnection, IInv, TypeOK
  <2> HIDE DEF users, waiting
  <2>6. IsFiniteSet(waiting) /\ IsFiniteSet(holders)
    BY <2>1, <2>4, FS_Subset
  <2>7. Cardinality(waiting \cup holders) = Cardinality(waiting) + Cardinality(holders)
    <3>1. Cardinality(waiting \cap holders) = 0
      BY <2>1, FS_EmptySet
    <3>2. Cardinality(waiting \cup holders) =
            Cardinality(waiting) + Cardinality(holders) - Cardinality(waiting \cap holders)
      BY <2>6, FS_Union
    <3>3. Cardinality(waiting) \in Nat /\ Cardinality(holders) \in Nat
      BY <2>6, FS_CardinalityType
    <3> QED BY <3>1, <3>2, <3>3
  <2>8. Cardinality(waiting \cup holders) <= Cardinality(users)
    BY <2>1, <2>4, FS_Subset
  <2> QED BY <2>4, <2>5, <2>7, <2>8
<1> QED BY <1>1, Invariance, PTL

-----------------------------------------------------------------------------
(* Refinement: the executor implements AsyncWrites, with what it holds in  *)
(* front of what is queued as the pending statements.                      *)

pending == cur[Executor] \o queue

LEMMA PendingFacts ==
  ASSUME TypeOK
  PROVE  /\ cur[Executor] \in Seq(Statements) /\ queue \in Seq(Statements)
         /\ cur[Executor] = <<>> => pending = queue
         /\ cur[Executor] # <<>> =>
              /\ pending # <<>> /\ Head(pending) = Held(Executor) /\ Tail(pending) = queue
<1>1. cur[Executor] = <<>> \/ \E s \in Statements : cur[Executor] = <<s>>
  BY ActorFacts DEF TypeOK
<1>2. queue \in Seq(Statements)
  BY DEF TypeOK
<1>3. cur[Executor] \in Seq(Statements)
  <2>1. ASSUME NEW s \in Statements PROVE <<s>> \in Seq(Statements)
    OBVIOUS
  <2> QED BY <1>1, <2>1, EmptySeq
<1>4. cur[Executor] = <<>> => pending = queue
  BY <1>2, ConcatEmptySeq DEF pending
<1>5. ASSUME NEW s \in Statements, cur[Executor] = <<s>>
      PROVE  pending # <<>> /\ Head(pending) = s /\ Tail(pending) = queue
  BY <1>2, <1>5 DEF pending
<1> QED BY <1>1, <1>2, <1>3, <1>4, <1>5 DEF Held

LEMMA WriterInit == Init => Writer!Init
BY ActorFacts DEF Init, Writer!Init, Gone

LEMMA WriterStutters ==
  ASSUME UNCHANGED <<queue, cur, log>>, Gone' <=> Gone
  PROVE  UNCHANGED Writer!vars
BY DEF Writer!vars

(* What is executed is the oldest pending statement, or one of a thread    *)
(* that may execute it on the spot.                                        *)
LEMMA WriterLogs ==
  ASSUME IInv, NEW a \in Actors, pc[a] \in {"send", "resend"},
         log' = Append(log, Held(a)), UNCHANGED <<queue, cur>>, Gone' <=> Gone
  PROVE  Writer!Next
<1> USE DEF IInv
<1>1. cur[a] # <<>>
  BY ActorFacts DEF PlaceInv, Using
<1>2. CASE a = Executor
  BY <1>1, <1>2, PendingFacts DEF Writer!Next, Writer!Write, pending, Gone
<1>3. CASE a \in Threads
  <2>1. Held(a) \in Statements /\ Held(a).kind \in {"execute", "direct"}
    BY <1>1, HeldFacts, StatementFields
  <2>2. Held(a).kind = "direct" \/ Gone
    BY <1>1, <1>3, <2>1 DEF KindInv, LifeInv, Gone
  <2> QED BY <2>1, <2>2 DEF Writer!Next, Writer!Direct
<1> QED BY <1>2, <1>3, ActorFacts

LEMMA WriterTakes ==
  ASSUME IInv, cur[Executor] = <<>>, queue # <<>>, Take
  PROVE  pending' = pending
<1> USE DEF IInv
<1>1. pending = queue
  BY PendingFacts
<1>2. cur'[Executor] = <<Head(queue)>> /\ queue' = Tail(queue)
  BY ActorFacts DEF Take, TypeOK
<1>3. <<Head(queue)>> \o Tail(queue) = queue
  BY DEF TypeOK
<1> QED BY <1>1, <1>2, <1>3 DEF pending

(* Dropping the executor's statement finishes the oldest pending one.      *)
LEMMA WriterFinishes ==
  ASSUME IInv, pc[Executor] = "sent", ~Gone',
         cur' = [cur EXCEPT ![Executor] = <<>>], UNCHANGED <<queue, log>>
  PROVE  Writer!Next
<1> USE DEF IInv
<1>1. cur[Executor] # <<>>
  BY DEF PlaceInv, Using
<1>2. cur'[Executor] = <<>>
  BY ActorFacts DEF TypeOK
<1>3. pending' = queue
  BY <1>2, ConcatEmptySeq DEF pending, TypeOK
<1> QED BY <1>1, <1>3, PendingFacts DEF Writer!Next, Writer!Finish, pending, Gone

LEMMA WriterAccepts ==
  ASSUME IInv, NEW t \in Threads, Push(t)
  PROVE  Writer!Next
<1> USE DEF IInv
<1>1. cur[t] # <<>> /\ Held(t).kind = "execute"
  BY DEF Push, PlaceInv, KindInv
<1>2. Held(t) \in Statements
  BY <1>1, HeldFacts, ActorFacts
<1>3. /\ cur'[Executor] = cur[Executor] /\ pc'[Executor] = pc[Executor]
      /\ queue' = Append(queue, Held(t)) /\ log' = log
  BY ActorFacts DEF Push, Goto, TypeOK, Held
<1>4. pending' = Append(pending, Held(t))
  <2>1. \A q, r \in Seq(Statements), s \in Statements : q \o Append(r, s) = Append(q \o r, s)
    OBVIOUS
  <2>2. pending' = cur[Executor] \o Append(queue, Held(t))
    BY <1>3 DEF pending
  <2>3. cur[Executor] \in Seq(Statements) /\ queue \in Seq(Statements)
    BY PendingFacts
  <2>4. cur[Executor] \o Append(queue, Held(t)) = Append(cur[Executor] \o queue, Held(t))
    BY <1>2, <2>1, <2>3
  <2> QED BY <2>2, <2>4 DEF pending
<1> QED BY <1>1, <1>2, <1>3, <1>4 DEF Writer!Next, Writer!Accept, pending, Gone

(* The executor finds the queue empty for the last time.                   *)
LEMMA WriterCloses ==
  ASSUME TypeOK, cur[Executor] = <<>>, queue = <<>>, ~Gone, Gone', UNCHANGED <<queue, cur, log>>
  PROVE  Writer!Next
<1>1. pending = <<>> /\ pending' = pending
  BY PendingFacts DEF pending
<1> QED BY <1>1 DEF Writer!Next, Writer!Close, pending

LEMMA WriterNext == IInv /\ [Next]_vars => [Writer!Next]_(Writer!vars)
<1> SUFFICES ASSUME IInv, [Next]_vars PROVE Writer!Next \/ UNCHANGED Writer!vars
  OBVIOUS
<1> USE ActorFacts DEF IInv
<1>1. ASSUME NEW a \in Actors, Statement(a) PROVE Writer!Next \/ UNCHANGED Writer!vars
  <2>1. a = Executor => ~Gone /\ ~Gone'
    BY <1>1 DEF Statement, GetFreeConnection, SendQuery, ResendQuery, Goto, TypeOK, Gone
  <2>2. Gone' <=> Gone
    BY <1>1, <2>1 DEF Statement, GetFreeConnection, SendQuery, ResendQuery, Goto, TypeOK, Gone
  <2>3. CASE GetFreeConnection(a)
    BY <2>2, <2>3, WriterStutters DEF GetFreeConnection, sqlVars
  <2>4. CASE SendQuery(a) \/ ResendQuery(a)
    <3>1. UNCHANGED <<queue, cur>> /\ pc[a] \in {"send", "resend"}
      BY <2>4 DEF SendQuery, ResendQuery
    <3>2. log' = log \/ log' = Append(log, Held(a))
      BY <2>4 DEF SendQuery, ResendQuery, Confirmed, Unconfirmed, Held
    <3> QED BY <2>2, <3>1, <3>2, WriterLogs, WriterStutters
  <2> QED BY <1>1, <2>3, <2>4 DEF Statement
<1>2. ASSUME NEW t \in Threads, Server(t) PROVE Writer!Next \/ UNCHANGED Writer!vars
  <2>1. CASE Statement(t)
    BY <1>1, <2>1
  <2>2. CASE Push(t)
    BY <2>2, WriterAccepts
  <2>3. CASE Return(t) \/ Execute(t) \/ WaitExecute(t)
    <3>1. pc'[Executor] = pc[Executor] /\ cur'[Executor] = cur[Executor]
      BY <2>3 DEF Return, Execute, WaitExecute, NewStatement, Goto, TypeOK
    <3>2. UNCHANGED <<queue, log>>
      BY <2>3 DEF Return, Execute, WaitExecute, NewStatement, sqlVars
    <3> QED BY <3>1, <3>2 DEF Writer!vars, Gone
  <2> QED BY <1>2, <2>1, <2>2, <2>3 DEF Server, ServerCall
<1>3. CASE Pop \/ Wake \/ PopNoWait
  <2>1. ~Gone /\ log' = log /\ cur[Executor] = <<>>
    BY <1>3 DEF Pop, Wake, PopNoWait, Gone, PlaceInv, Using, sqlVars
  <2>2. \/ ~Gone' /\ UNCHANGED <<queue, cur>>
        \/ ~Gone' /\ queue # <<>> /\ Take
        \/ Gone' /\ queue = <<>> /\ UNCHANGED <<queue, cur>>
    BY <1>3 DEF Pop, Wake, PopNoWait, AfterPop, TakeNull, Goto, TypeOK, Gone
  <2>3. CASE ~Gone' /\ queue # <<>> /\ Take
    BY <2>1, <2>3, WriterTakes DEF Writer!vars, pending
  <2> QED BY <2>1, <2>2, <2>3, WriterStutters, WriterCloses
<1>4. CASE Executed \/ Drained
  <2>1. pc[Executor] = "sent" /\ ~Gone' /\ UNCHANGED <<queue, log>>
    BY <1>4 DEF Executed, Drained, Goto, TypeOK, sqlVars, Gone
  <2> QED BY <1>4, <2>1, WriterFinishes DEF Executed, Drained
<1>5. CASE Remaining
  <2>1. /\ ~Gone /\ cur[Executor] = <<>> /\ UNCHANGED <<queue, cur, log>>
        /\ Gone' => queue = <<>>
    BY <1>5 DEF Remaining, Goto, TypeOK, sqlVars, Gone, PlaceInv, Using
  <2> QED BY <2>1, WriterStutters, WriterCloses
<1>6. CASE Release \/ End
  <2>1. Gone' <=> Gone
    BY <1>6 DEF Release, End, Goto, TypeOK, Gone
  <2> QED BY <1>6, <2>1, WriterStutters DEF Release, End, sqlVars
<1>7. CASE QueryThreadRun \/ Terminate \/ StopDB \/ UseAfterShutdown
  <2>1. UNCHANGED <<queue, cur, log, pc>>
    BY <1>7 DEF QueryThreadRun, QueryThreadConnects, QueryThreadReleases, QueryThreadDeleted,
       Terminate, StopDB, LoopTest, BroadcastBuffer, BroadcastQueue, Slept, Shutdown,
       UseAfterShutdown, sqlVars
  <2> QED BY <2>1, WriterStutters DEF Gone
<1>8. CASE UNCHANGED vars
  BY <1>8, WriterStutters DEF vars, sqlVars, Gone
<1> QED BY <1>1, <1>2, <1>3, <1>4, <1>5, <1>6, <1>7, <1>8 DEF Next, Run

(* Every behaviour of the executor, its callers and the shutdown is one of *)
(* AsyncWrites: first accepted, first written, also around lost            *)
(* connections, spurious wake-ups and the end of the executor, which is    *)
(* done by then with all it was given.                                     *)
THEOREM ExecutorWritesInOrder == Spec => WritesInOrder
<1> QED BY WriterInit, WriterNext, Invariance, PTL DEF Spec, WritesInOrder, Writer!Spec

-----------------------------------------------------------------------------
(* Statements lost and repeated: every one is paid for by a fault.         *)

ExecutedIds == {log[i].id : i \in DOMAIN log}

(* A statement that its holder has still to send, or to send again.        *)
UnderWay(id) ==
  \/ \E i \in DOMAIN queue : queue[i].id = id
  \/ \E a \in Actors : cur[a] # <<>> /\ pc[a] # "sent" /\ Held(a).id = id

Missing == {id \in 1 .. issued : id \notin ExecutedIds /\ ~UnderWay(id)}

Resending == {a \in Actors : pc[a] = "resend"}

Unsent == {"push", "connect", "send"}

(* A statement is in one place only.                                       *)
OnePlace ==
  /\ \A i, j \in DOMAIN queue : queue[i].id = queue[j].id => i = j
  /\ \A a \in Actors, i \in DOMAIN queue : cur[a] # <<>> => Held(a).id # queue[i].id
  /\ \A a, b \in Actors : cur[a] # <<>> /\ cur[b] # <<>> /\ Held(a).id = Held(b).id => a = b

(* What has not been sent yet has not been executed.                       *)
Unexecuted ==
  /\ \A i \in DOMAIN queue : queue[i].id \notin ExecutedIds
  /\ \A a \in Actors : cur[a] # <<>> /\ pc[a] \in Unsent => Held(a).id \notin ExecutedIds

(* A statement that is missing has cost a fault, and so has one about to   *)
(* be sent again, which pays for the repetition or for the loss.           *)
Charged ==
  Cardinality(Missing) + Cardinality(Resending) + Len(log) <= faults + Cardinality(ExecutedIds)

FaultInv == OnePlace /\ Unexecuted /\ Charged

(* What is queued when the executor is gone came too late.                 *)
LateInv == Gone => \A i \in DOMAIN queue : queue[i].id \in late

LEMMA Sizes ==
  ASSUME TypeOK
  PROVE  /\ IsFiniteSet(Missing) /\ Cardinality(Missing) \in Nat
         /\ IsFiniteSet(Resending) /\ Cardinality(Resending) \in Nat
         /\ IsFiniteSet(ExecutedIds) /\ Cardinality(ExecutedIds) \in Nat
         /\ Len(log) \in Nat /\ faults \in Nat
<1>1. issued \in Nat /\ faults \in Nat /\ log \in Seq(Statements)
  BY DatabaseAssumption DEF TypeOK
<1>2. IsFiniteSet(1 .. issued)
  BY <1>1, FS_Interval
<1>3. IsFiniteSet(Missing)
  BY <1>2, FS_Subset DEF Missing
<1>4. IsFiniteSet(Actors)
  BY DatabaseAssumption, FS_AddElement DEF Actors
<1>5. IsFiniteSet(Resending)
  BY <1>4, FS_Subset DEF Resending
<1>6. Len(log) \in Nat /\ \A i \in DOMAIN log : log[i] \in Statements
  BY <1>1, LenProperties, ElementOfSeq
<1>7. ExecutedIds \subseteq 1 .. MaxQueries
  BY <1>6 DEF ExecutedIds, Statements
<1>8. IsFiniteSet(1 .. MaxQueries)
  BY DatabaseAssumption, FS_Interval
<1>9. IsFiniteSet(ExecutedIds)
  BY <1>7, <1>8, FS_Subset
<1> QED BY <1>1, <1>3, <1>5, <1>6, <1>9, FS_CardinalityType

LEMMA QuietCharge ==
  ASSUME TypeOK, Charged, UNCHANGED <<log, faults>>,
         Missing' \subseteq Missing, Resending' \subseteq Resending
  PROVE  Charged'
<1>1. Cardinality(Missing') <= Cardinality(Missing) /\ Cardinality(Missing') \in Nat
  BY Sizes, FS_Subset, FS_CardinalityType
<1>2. Cardinality(Resending') <= Cardinality(Resending) /\ Cardinality(Resending') \in Nat
  BY Sizes, FS_Subset, FS_CardinalityType
<1>3. ExecutedIds' = ExecutedIds
  BY DEF ExecutedIds
<1> QED BY <1>1, <1>2, <1>3, Sizes DEF Charged

(* Connections, the main thread and the query thread move no statement.    *)
LEMMA PlacesKept ==
  ASSUME TypeOK, FaultInv, UNCHANGED <<queue, cur, log, issued, faults>>,
         \A a \in Actors : \/ pc'[a] = pc[a]
                           \/ cur[a] = <<>> /\ pc'[a] # "resend"
                           \/ pc[a] = "connect" /\ pc'[a] = "send"
  PROVE  FaultInv'
<1>1. ExecutedIds' = ExecutedIds
  BY DEF ExecutedIds
<1>2. OnePlace'
  BY DEF FaultInv, OnePlace, Held
<1>3. Unexecuted'
  BY <1>1 DEF FaultInv, Unexecuted, Unsent, Held
<1>4. Missing' \subseteq Missing
  BY <1>1 DEF Missing, UnderWay, Held
<1>5. Resending' \subseteq Resending
  BY DEF Resending
<1> QED BY <1>2, <1>3, <1>4, <1>5, QuietCharge DEF FaultInv

(* A statement that was sent leaves its holder.                            *)
LEMMA PlaceLeft ==
  ASSUME TypeOK, FaultInv, NEW a \in Actors, pc[a] = "sent",
         cur' = [cur EXCEPT ![a] = <<>>], UNCHANGED <<queue, log, issued, faults>>,
         pc'[a] # "resend", \A b \in Actors : b # a => pc'[b] = pc[b]
  PROVE  FaultInv'
<1>1. ExecutedIds' = ExecutedIds
  BY DEF ExecutedIds
<1>2. /\ cur'[a] = <<>> /\ \A b \in Actors : b # a => cur'[b] = cur[b]
  BY DEF TypeOK
<1>3. OnePlace'
  BY <1>2 DEF FaultInv, OnePlace, Held
<1>4. Unexecuted'
  BY <1>1, <1>2 DEF FaultInv, Unexecuted, Held
<1>5. Missing' \subseteq Missing
  BY <1>1, <1>2 DEF Missing, UnderWay, Held
<1>6. Resending' \subseteq Resending
  BY DEF Resending
<1> QED BY <1>3, <1>4, <1>5, <1>6, QuietCharge DEF FaultInv

(* A new statement has an id that no other has.                            *)
LEMMA PlaceTaken ==
  ASSUME TypeOK, IssuedInv, FaultInv, NEW t \in Threads, NEW s \in Statements,
         s.id = issued + 1, issued' = issued + 1, cur[t] = <<>>,
         cur' = [cur EXCEPT ![t] = <<s>>], UNCHANGED <<queue, log, faults>>,
         pc'[t] \in Unsent, \A b \in Actors : b # t => pc'[b] = pc[b]
  PROVE  FaultInv'
<1>1. ExecutedIds' = ExecutedIds
  BY DEF ExecutedIds
<1>2. /\ t \in Actors /\ cur'[t] # <<>> /\ Held(t)' = s
      /\ \A b \in Actors : b # t => cur'[b] = cur[b]
  BY ActorFacts DEF TypeOK, Held
<1>3. issued \in Nat
  BY DatabaseAssumption DEF TypeOK
<1>4. /\ \A i \in DOMAIN queue : queue[i].id \in Nat
      /\ \A i \in DOMAIN log : log[i].id \in Nat
      /\ \A b \in Actors : cur[b] # <<>> => Held(b).id \in Nat
  BY HeldFacts, StatementFields, ElementOfSeq, LenProperties DEF TypeOK
<1>5. /\ \A i \in DOMAIN queue : queue[i].id # s.id
      /\ s.id \notin ExecutedIds
      /\ \A b \in Actors : cur[b] # <<>> => Held(b).id # s.id
  BY <1>3, <1>4 DEF IssuedInv, ExecutedIds
<1>6. OnePlace'
  BY <1>2, <1>5 DEF FaultInv, OnePlace, Held
<1>7. Unexecuted'
  BY <1>1, <1>2, <1>5 DEF FaultInv, Unexecuted, Held
<1>8. UnderWay(s.id)'
  BY <1>2 DEF UnderWay, Unsent
<1>9. ASSUME NEW id, UnderWay(id) PROVE UnderWay(id)'
  BY <1>2, <1>9 DEF UnderWay, Held
<1>10. Missing' \subseteq Missing
  <2> SUFFICES ASSUME NEW id \in Missing' PROVE id \in Missing
    OBVIOUS
  <2>1. id \in 1 .. issued + 1 /\ id \notin ExecutedIds /\ ~UnderWay(id)'
    BY <1>1 DEF Missing
  <2>2. id # s.id /\ ~UnderWay(id)
    BY <2>1, <1>8, <1>9
  <2> QED BY <2>1, <2>2, <1>3 DEF Missing
<1>11. Resending' \subseteq Resending
  BY <1>2 DEF Resending, Unsent
<1> QED BY <1>6, <1>7, <1>10, <1>11, QuietCharge DEF FaultInv

(* Execute's push puts a statement behind the queue.                       *)
LEMMA PlacePushed ==
  ASSUME TypeOK, FaultInv, NEW t \in Threads, cur[t] # <<>>, pc[t] = "push",
         queue' = Append(queue, Held(t)), cur' = [cur EXCEPT ![t] = <<>>],
         UNCHANGED <<log, issued, faults>>,
         pc'[t] = "idle", \A b \in Actors : b # t => pc'[b] = pc[b]
  PROVE  FaultInv'
<1> DEFINE s == Held(t)
<1>1. ExecutedIds' = ExecutedIds
  BY DEF ExecutedIds
<1>2. s \in Statements /\ t \in Actors
  BY HeldFacts, ActorFacts
<1>3. /\ Len(queue) \in Nat /\ DOMAIN queue = 1 .. Len(queue)
      /\ DOMAIN queue' = 1 .. Len(queue) + 1
      /\ \A i \in 1 .. Len(queue) : queue'[i] = queue[i]
      /\ queue'[Len(queue) + 1] = s
  BY <1>2, AppendFacts DEF TypeOK
<1>4. /\ cur'[t] = <<>> /\ \A b \in Actors : b # t => cur'[b] = cur[b]
  BY <1>2 DEF TypeOK
<1>5. \A i \in DOMAIN queue' :
        \/ i \in DOMAIN queue /\ queue'[i] = queue[i]
        \/ i = Len(queue) + 1 /\ queue'[i] = s
  BY <1>3
<1> HIDE DEF s
<1>6. /\ \A i \in DOMAIN queue : s.id # queue[i].id
      /\ s.id \notin ExecutedIds
      /\ \A b \in Actors : cur[b] # <<>> /\ Held(b).id = s.id => b = t
  BY <1>2 DEF FaultInv, OnePlace, Unexecuted, Unsent, s
<1>7. OnePlace'
  <2>1. \A i, j \in DOMAIN queue' : queue'[i].id = queue'[j].id => i = j
    BY <1>5, <1>6 DEF FaultInv, OnePlace
  <2>2. \A a \in Actors, i \in DOMAIN queue' : cur'[a] # <<>> => Held(a)'.id # queue'[i].id
    BY <1>4, <1>5, <1>6 DEF FaultInv, OnePlace, Held
  <2>3. \A a, b \in Actors : cur'[a] # <<>> /\ cur'[b] # <<>> /\ Held(a)'.id = Held(b)'.id => a = b
    BY <1>4 DEF FaultInv, OnePlace, Held
  <2> QED BY <2>1, <2>2, <2>3 DEF OnePlace
<1>8. Unexecuted'
  BY <1>1, <1>4, <1>5, <1>6 DEF FaultInv, Unexecuted, Held
<1>9. ASSUME NEW id, UnderWay(id) PROVE UnderWay(id)'
  <2>1. CASE \E i \in DOMAIN queue : queue[i].id = id
    BY <2>1, <1>3 DEF UnderWay
  <2>2. ASSUME NEW a \in Actors, cur[a] # <<>>, pc[a] # "sent", Held(a).id = id, a # t
        PROVE  UnderWay(id)'
    BY <2>2, <1>4 DEF UnderWay, Held
  <2>3. CASE Held(t).id = id
    BY <2>3, <1>3 DEF UnderWay, s
  <2> QED BY <1>9, <2>1, <2>2, <2>3 DEF UnderWay
<1>10. Missing' \subseteq Missing
  BY <1>1, <1>9 DEF Missing
<1>11. Resending' \subseteq Resending
  BY DEF Resending
<1> QED BY <1>7, <1>8, <1>10, <1>11, QuietCharge DEF FaultInv

(* The executor takes the first of the queue.                              *)
LEMMA PlaceHandedOver ==
  ASSUME TypeOK, FaultInv, queue # <<>>, cur[Executor] = <<>>, Take,
         UNCHANGED <<log, issued, faults>>,
         pc'[Executor] \in Unsent, \A b \in Threads : pc'[b] = pc[b]
  PROVE  FaultInv'
<1> DEFINE h == queue[1]
<1>1. ExecutedIds' = ExecutedIds
  BY DEF ExecutedIds
<1>2. /\ h \in Statements
      /\ Len(queue) \in Nat \ {0} /\ DOMAIN queue = 1 .. Len(queue)
      /\ DOMAIN queue' = 1 .. Len(queue) - 1
      /\ \A i \in DOMAIN queue' : i + 1 \in DOMAIN queue /\ queue'[i] = queue[i + 1]
  BY TailFacts DEF Take, TypeOK
<1>3. /\ cur'[Executor] = <<h>> /\ cur'[Executor] # <<>> /\ Held(Executor)' = h
      /\ \A t \in Threads : cur'[t] = cur[t]
  BY <1>2, TailFacts, ActorFacts DEF Take, TypeOK, Held
<1>4. 1 \in DOMAIN queue /\ \A i \in DOMAIN queue' : i \in Nat \ {0}
  BY <1>2
<1> HIDE DEF h
<1>5. /\ \A i \in DOMAIN queue' : queue'[i].id # h.id
      /\ h.id \notin ExecutedIds
      /\ \A b \in Actors : cur[b] # <<>> => Held(b).id # h.id
  <2>1. ASSUME NEW i \in DOMAIN queue', queue'[i].id = h.id PROVE FALSE
    <3>1. i + 1 = 1 BY <2>1, <1>2, <1>4 DEF FaultInv, OnePlace, h
    <3> QED BY <3>1, <1>4
  <2> QED BY <2>1, <1>4 DEF FaultInv, OnePlace, Unexecuted, h
<1>6. OnePlace'
  <2>1. ASSUME NEW i \in DOMAIN queue', NEW j \in DOMAIN queue', queue'[i].id = queue'[j].id
        PROVE  i = j
    <3>1. i + 1 = j + 1 BY <2>1, <1>2 DEF FaultInv, OnePlace
    <3> QED BY <3>1, <1>4
  <2>2. \A a \in Actors, i \in DOMAIN queue' : cur'[a] # <<>> => Held(a)'.id # queue'[i].id
    BY <1>2, <1>3, <1>5, ActorFacts DEF FaultInv, OnePlace, Held
  <2>3. \A a, b \in Actors : cur'[a] # <<>> /\ cur'[b] # <<>> /\ Held(a)'.id = Held(b)'.id => a = b
    BY <1>3, <1>5, ActorFacts DEF FaultInv, OnePlace, Held
  <2> QED BY <2>1, <2>2, <2>3 DEF OnePlace
<1>7. Unexecuted'
  BY <1>1, <1>2, <1>3, <1>5, ActorFacts DEF FaultInv, Unexecuted, Held
<1>8. ASSUME NEW id, UnderWay(id) PROVE UnderWay(id)'
  <2>1. ASSUME NEW i \in DOMAIN queue, queue[i].id = id, i # 1 PROVE UnderWay(id)'
    <3>1. i - 1 \in DOMAIN queue' /\ (i - 1) + 1 = i BY <2>1, <1>2
    <3>2. queue'[i - 1] = queue[i] BY <3>1, <1>2
    <3> QED BY <2>1, <3>1, <3>2 DEF UnderWay
  <2>2. CASE h.id = id
    BY <2>2, <1>3, ActorFacts DEF UnderWay, Unsent
  <2>3. ASSUME NEW t \in Threads, cur[t] # <<>>, pc[t] # "sent", Held(t).id = id
        PROVE  UnderWay(id)'
    BY <2>3, <1>3, ActorFacts DEF UnderWay, Held
  <2> QED BY <1>8, <2>1, <2>2, <2>3, ActorFacts DEF UnderWay, h
<1>9. Missing' \subseteq Missing
  BY <1>1, <1>8 DEF Missing
<1>10. Resending' \subseteq Resending
  BY ActorFacts DEF Resending, Unsent
<1> QED BY <1>6, <1>7, <1>9, <1>10, QuietCharge DEF FaultInv

LEMMA OneMore ==
  ASSUME NEW S, NEW x, IsFiniteSet(S)
  PROVE  /\ IsFiniteSet(S \cup {x}) /\ Cardinality(S \cup {x}) \in Nat
         /\ Cardinality(S \cup {x}) <= Cardinality(S) + 1
<1>1. Cardinality(S \cup {x}) = IF x \in S THEN Cardinality(S) ELSE Cardinality(S) + 1
  BY FS_AddElement
<1>2. Cardinality(S) \in Nat
  BY FS_CardinalityType
<1> QED BY <1>1, <1>2, FS_AddElement

(* A statement is sent, for the first time or again.  Only the first can   *)
(* do without a fault, and then it executes what never was.                *)
LEMMA StatementSent ==
  ASSUME TypeOK, FaultInv, NEW a \in Actors, cur[a] # <<>>, pc[a] \in {"send", "resend"},
         NEW next \in {"sent", "resend"}, pc[a] = "resend" => next = "sent",
         pc' = [pc EXCEPT ![a] = next], UNCHANGED <<queue, cur, issued>>,
         log' = log \/ log' = Append(log, Held(a)),
         \/ log' = Append(log, Held(a)) /\ next = "sent" /\ faults' = faults
         \/ faults' = faults + 1
  PROVE  FaultInv'
<1> DEFINE s == Held(a)
           m == Cardinality(Missing)   r == Cardinality(Resending)
           e == Cardinality(ExecutedIds)
<1>1. s \in Statements
  BY HeldFacts
<1>2. /\ IsFiniteSet(Missing) /\ m \in Nat /\ IsFiniteSet(Resending) /\ r \in Nat
      /\ IsFiniteSet(ExecutedIds) /\ e \in Nat /\ Len(log) \in Nat /\ faults \in Nat
  BY Sizes
<1>3. /\ pc'[a] = next /\ \A b \in Actors : b # a => pc'[b] = pc[b]
      /\ next \notin Unsent
  BY DEF TypeOK, Unsent
<1>c. m + r + Len(log) <= faults + e
  BY DEF FaultInv, Charged
<1>4. OnePlace'
  BY DEF FaultInv, OnePlace, Held
<1>5. pc[a] = "send" => s.id \notin ExecutedIds
  BY DEF FaultInv, Unexecuted, Unsent
<1>6. CASE log' = log
  <2>1. ExecutedIds' = ExecutedIds /\ faults' = faults + 1
    <3>1. log # Append(log, s) BY <1>1, <1>2, AppendFacts DEF TypeOK
    <3> QED BY <1>6, <3>1 DEF ExecutedIds
  <2>2. Unexecuted'
    BY <1>3, <2>1 DEF FaultInv, Unexecuted, Held
  <2>3. ASSUME NEW id, UnderWay(id), id # s.id \/ next = "resend" PROVE UnderWay(id)'
    BY <2>3, <1>3 DEF UnderWay, Held
  <2>4. CASE next = "resend"
    <3>1. Missing' \subseteq Missing BY <2>1, <2>3, <2>4 DEF Missing
    <3>2. Cardinality(Missing') <= m /\ Cardinality(Missing') \in Nat
      BY <1>2, <3>1, FS_Subset, FS_CardinalityType
    <3>3. Resending' = Resending \cup {a} BY <1>3, <2>4 DEF Resending
    <3>4. Cardinality(Resending') <= r + 1 /\ Cardinality(Resending') \in Nat
      BY <1>2, <3>3, OneMore
    <3>5. Charged' BY SMTT(30), <1>2, <1>6, <1>c, <2>1, <3>2, <3>4 DEF Charged
    <3> QED BY <1>4, <2>2, <3>5 DEF FaultInv
  <2>5. CASE next = "sent"
    <3>1. Missing' \subseteq Missing \cup {s.id} BY <2>1, <2>3 DEF Missing
    <3>2. IsFiniteSet(Missing \cup {s.id}) /\ Cardinality(Missing \cup {s.id}) <= m + 1
      BY <1>2, OneMore
    <3>3. Cardinality(Missing') <= m + 1 /\ Cardinality(Missing') \in Nat
      BY <1>2, <3>1, <3>2, FS_Subset, FS_CardinalityType
    <3>4. Resending' \subseteq Resending BY <1>3, <2>5 DEF Resending
    <3>5. Cardinality(Resending') <= r /\ Cardinality(Resending') \in Nat
      BY <1>2, <3>4, FS_Subset, FS_CardinalityType
    <3>6. Charged' BY SMTT(30), <1>2, <1>6, <1>c, <2>1, <3>3, <3>5 DEF Charged
    <3> QED BY <1>4, <2>2, <3>6 DEF FaultInv
  <2> QED BY <2>4, <2>5
<1>7. CASE log' = Append(log, s)
  <2>1. /\ DOMAIN log' = 1 .. Len(log) + 1 /\ DOMAIN log = 1 .. Len(log)
        /\ \A i \in 1 .. Len(log) : log'[i] = log[i]
        /\ log'[Len(log) + 1] = s /\ Len(log') = Len(log) + 1
    <3>1. log \in Seq(Statements) BY DEF TypeOK
    <3> QED BY <1>1, <1>7, <3>1, AppendFacts
  <2>2. ExecutedIds' = ExecutedIds \cup {s.id}
    <3>1. \A i \in DOMAIN log' : log'[i].id \in ExecutedIds \cup {s.id}
      BY <1>2, <2>1 DEF ExecutedIds
    <3>2. \A i \in DOMAIN log : log[i].id \in ExecutedIds'
      BY <1>2, <2>1 DEF ExecutedIds
    <3>3. s.id \in ExecutedIds'
      BY <1>2, <2>1 DEF ExecutedIds
    <3> QED BY <3>1, <3>2, <3>3 DEF ExecutedIds
  <2>3. Unexecuted'
    BY <1>3, <2>2 DEF FaultInv, OnePlace, Unexecuted, Held
  <2>4. ASSUME NEW id, UnderWay(id), id # s.id PROVE UnderWay(id)'
    BY <2>4, <1>3 DEF UnderWay, Held
  <2>5. Missing' \subseteq Missing BY <2>2, <2>4 DEF Missing
  <2>6. Cardinality(Missing') <= m /\ Cardinality(Missing') \in Nat
    BY <1>2, <2>5, FS_Subset, FS_CardinalityType
  <2>7. Cardinality(ExecutedIds') = IF s.id \in ExecutedIds THEN e ELSE e + 1
    BY <1>2, <2>2, FS_AddElement
  <2>8. CASE pc[a] = "send"
    <3>1. Resending' \subseteq Resending \cup {a} BY <1>3 DEF Resending
    <3>2. IsFiniteSet(Resending \cup {a}) /\ Cardinality(Resending \cup {a}) <= r + 1
      BY <1>2, OneMore
    <3>3. Cardinality(Resending') <= r + 1 /\ Cardinality(Resending') \in Nat
      BY <1>2, <3>1, <3>2, FS_Subset, FS_CardinalityType
    <3>4. next = "sent" => Resending' \subseteq Resending BY <1>3 DEF Resending
    <3>5. next = "sent" => Cardinality(Resending') <= r BY <1>2, <3>4, FS_Subset
    <3>6. Cardinality(ExecutedIds') = e + 1 BY <1>5, <2>7, <2>8
    <3>7. ASSUME next = "sent" PROVE Charged'
      <4>1. Cardinality(Resending') <= r BY <3>5, <3>7
      <4>2. faults' >= faults /\ faults' \in Nat BY <1>2
      <4> QED BY SMTT(30), <1>2, <1>c, <2>1, <2>6, <3>3, <3>6, <4>1, <4>2 DEF Charged
    <3>8. ASSUME next = "resend" PROVE Charged'
      <4>1. faults' = faults + 1 BY <3>8
      <4> QED BY SMTT(30), <1>2, <1>c, <2>1, <2>6, <3>3, <3>6, <4>1 DEF Charged
    <3>9. Charged' BY <3>7, <3>8
    <3> QED BY <1>4, <2>3, <3>9 DEF FaultInv
  <2>9. CASE pc[a] = "resend"
    <3>1. Resending' = Resending \ {a} /\ a \in Resending BY <1>3, <2>9 DEF Resending
    <3>2. Cardinality(Resending') = r - 1 BY <1>2, <3>1, FS_RemoveElement
    <3>3. Cardinality(ExecutedIds') >= e /\ Cardinality(ExecutedIds') \in Nat BY <1>2, <2>7
    <3>4. faults' >= faults /\ faults' \in Nat BY <1>2
    <3>5. Charged' BY SMTT(30), <1>2, <1>c, <2>1, <2>6, <3>2, <3>3, <3>4 DEF Charged
    <3> QED BY <1>4, <2>3, <3>5 DEF FaultInv
  <2> QED BY <2>8, <2>9
<1> QED BY <1>6, <1>7

LEMMA FaultStatement ==
  ASSUME IInv, FaultInv, NEW a \in Actors, Statement(a) PROVE FaultInv'
<1> USE DEF IInv
<1>1. CASE GetFreeConnection(a)
  <2>1. UNCHANGED <<queue, cur, log, issued, faults>>
    BY <1>1 DEF GetFreeConnection, sqlVars
  <2>2. \A b \in Actors : \/ pc'[b] = pc[b]
                          \/ cur[b] = <<>> /\ pc'[b] # "resend"
                          \/ pc[b] = "connect" /\ pc'[b] = "send"
    BY <1>1 DEF GetFreeConnection, Goto, TypeOK
  <2> QED BY <2>1, <2>2, PlacesKept
<1>2. CASE SendQuery(a) \/ ResendQuery(a)
  <2>1. cur[a] # <<>> /\ pc[a] \in {"send", "resend"} /\ UNCHANGED <<queue, cur, issued>>
    BY <1>2, ActorFacts DEF SendQuery, ResendQuery, PlaceInv, Using
  <2>2. PICK next \in {"sent", "resend"} :
          /\ Goto(a, next) /\ (pc[a] = "resend" => next = "sent")
          /\ \/ Confirmed(a) /\ next = "sent"
             \/ \E executed \in BOOLEAN : Unconfirmed(a, executed)
    BY <1>2 DEF SendQuery, ResendQuery
  <2>3. /\ log' = log \/ log' = Append(log, Held(a))
        /\ \/ log' = Append(log, Held(a)) /\ next = "sent" /\ faults' = faults
           \/ faults' = faults + 1
    BY <2>2 DEF Confirmed, Unconfirmed, Held
  <2> QED BY <2>1, <2>2, <2>3, StatementSent DEF Goto
<1> QED BY <1>1, <1>2 DEF Statement

LEMMA FaultStep == IInv /\ FaultInv /\ [Next]_vars => FaultInv'
<1> SUFFICES ASSUME IInv, FaultInv, [Next]_vars PROVE FaultInv'
  OBVIOUS
<1> USE DEF IInv
<1>1. ASSUME NEW t \in Threads, Server(t) PROVE FaultInv'
  <2>1. CASE Statement(t)
    BY <2>1, FaultStatement, ActorFacts
  <2>2. CASE Execute(t) \/ WaitExecute(t)
    <3>1. PICK s \in Statements : s.id = issued + 1 /\ cur' = [cur EXCEPT ![t] = <<s>>]
      <4>1. PICK kind \in {"execute", "direct"} : NewStatement(t, kind)
        BY <2>2 DEF Execute, WaitExecute
      <4> DEFINE s == [id |-> issued + 1, by |-> t, kind |-> kind]
      <4>2. s \in Statements
        BY <4>1, DatabaseAssumption DEF NewStatement, Statements, TypeOK
      <4> QED BY <4>1, <4>2 DEF NewStatement
    <3>2. /\ cur[t] = <<>> /\ issued' = issued + 1 /\ UNCHANGED <<queue, log, faults>>
          /\ pc'[t] \in Unsent /\ \A b \in Actors : b # t => pc'[b] = pc[b]
      BY <2>2, ActorFacts DEF Execute, WaitExecute, NewStatement, Goto, PlaceInv, TypeOK, Unsent
    <3> QED BY <3>1, <3>2, PlaceTaken DEF Moves
  <2>3. CASE Push(t)
    <3>1. /\ cur[t] # <<>> /\ pc[t] = "push" /\ queue' = Append(queue, Held(t))
          /\ cur' = [cur EXCEPT ![t] = <<>>] /\ UNCHANGED <<log, issued, faults>>
          /\ pc'[t] = "idle" /\ \A b \in Actors : b # t => pc'[b] = pc[b]
      BY <2>3, ActorFacts DEF Push, Goto, PlaceInv, TypeOK, Held
    <3> QED BY <3>1, PlacePushed
  <2>4. CASE Return(t)
    <3>1. /\ pc[t] = "sent" /\ cur' = [cur EXCEPT ![t] = <<>>]
          /\ UNCHANGED <<queue, log, issued, faults>>
          /\ pc'[t] # "resend" /\ \A b \in Actors : b # t => pc'[b] = pc[b]
      BY <2>4, ActorFacts DEF Return, Goto, TypeOK, sqlVars
    <3> QED BY <3>1, PlaceLeft, ActorFacts
  <2> QED BY <1>1, <2>1, <2>2, <2>3, <2>4 DEF Server, ServerCall
<1>2. CASE Pop \/ Wake \/ PopNoWait
  <2>1. /\ cur[Executor] = <<>> /\ UNCHANGED <<log, issued, faults>>
        /\ \A b \in Actors : b # Executor => pc'[b] = pc[b]
    BY <1>2, ActorFacts DEF Pop, Wake, PopNoWait, AfterPop, Goto, PlaceInv, TypeOK, Using, sqlVars
  <2>2. \/ queue # <<>> /\ Take /\ pc'[Executor] \in Unsent
        \/ UNCHANGED <<queue, cur>> /\ pc'[Executor] # "resend"
    BY <1>2, ActorFacts DEF Pop, Wake, PopNoWait, AfterPop, TakeNull, Goto, TypeOK, Unsent
  <2>3. CASE queue # <<>> /\ Take /\ pc'[Executor] \in Unsent
    BY <2>1, <2>3, PlaceHandedOver, ActorFacts
  <2>4. CASE UNCHANGED <<queue, cur>> /\ pc'[Executor] # "resend"
    BY <2>1, <2>4, PlacesKept
  <2> QED BY <2>2, <2>3, <2>4
<1>3. CASE Executed \/ Drained
  <2>1. /\ pc[Executor] = "sent" /\ cur' = [cur EXCEPT ![Executor] = <<>>]
        /\ UNCHANGED <<queue, log, issued, faults>>
        /\ pc'[Executor] # "resend" /\ \A b \in Actors : b # Executor => pc'[b] = pc[b]
    BY <1>3, ActorFacts DEF Executed, Drained, Goto, TypeOK, sqlVars
  <2> QED BY <2>1, PlaceLeft, ActorFacts
<1>4. CASE Release \/ Remaining \/ End
  <2>1. /\ cur[Executor] = <<>> /\ UNCHANGED <<queue, cur, log, issued, faults>>
        /\ pc'[Executor] # "resend" /\ \A b \in Actors : b # Executor => pc'[b] = pc[b]
    BY <1>4, ActorFacts DEF Release, Remaining, End, Goto, PlaceInv, TypeOK, Using, sqlVars
  <2> QED BY <2>1, PlacesKept
<1>5. CASE Statement(Executor)
  BY <1>5, FaultStatement, ActorFacts
<1>6. CASE QueryThreadRun \/ Terminate \/ StopDB \/ UseAfterShutdown \/ UNCHANGED vars
  <2>1. UNCHANGED <<queue, cur, pc, log, issued, faults>>
    BY <1>6 DEF QueryThreadRun, QueryThreadConnects, QueryThreadReleases, QueryThreadDeleted,
       Terminate, StopDB, LoopTest, BroadcastBuffer, BroadcastQueue, Slept, Shutdown,
       UseAfterShutdown, vars, sqlVars
  <2> QED BY <2>1, PlacesKept
<1> QED BY <1>1, <1>2, <1>3, <1>4, <1>5, <1>6 DEF Next, Run

LEMMA LateStep == IInv /\ LateInv /\ [Next]_vars => LateInv'
<1> SUFFICES ASSUME IInv, LateInv, [Next]_vars PROVE LateInv'
  OBVIOUS
<1> USE ActorFacts DEF IInv
<1>1. ASSUME NEW t \in Threads, Push(t) PROVE LateInv'
  <2>1. Held(t) \in Statements
    BY <1>1, HeldFacts DEF Push, PlaceInv
  <2>2. /\ queue' = Append(queue, Held(t)) /\ (Gone' <=> Gone)
        /\ Gone => late' = late \cup {Held(t).id}
    BY <1>1 DEF Push, Note, Goto, TypeOK, Held, Gone
  <2>3. \A i \in DOMAIN queue' : queue'[i] = Held(t) \/ (i \in DOMAIN queue /\ queue'[i] = queue[i])
    BY <2>1, <2>2, AppendFacts DEF TypeOK
  <2> QED BY <2>2, <2>3 DEF LateInv
<1>2. CASE UNCHANGED <<queue, late>> /\ (Gone' => Gone)
  BY <1>2 DEF LateInv
<1>3. CASE ~Gone'
  BY <1>3 DEF LateInv
<1>4. CASE queue' = <<>>
  BY <1>4 DEF LateInv
<1>5. ASSUME NEW t \in Threads, Server(t) PROVE LateInv'
  <2>1. CASE ~Push(t)
    <3>1. UNCHANGED <<queue, late>> /\ pc'[Executor] = pc[Executor]
      BY <1>5, <2>1 DEF Server, ServerCall, Statement, GetFreeConnection, SendQuery, ResendQuery,
         Execute, WaitExecute, NewStatement, Return, Goto, TypeOK, sqlVars
    <3> QED BY <3>1, <1>2 DEF Gone
  <2> QED BY <2>1, <1>1
<1>6. CASE Statement(Executor) \/ Executed \/ Drained \/ Release
  <2>1. ~Gone'
    BY <1>6 DEF Statement, GetFreeConnection, SendQuery, ResendQuery, Executed, Drained, Release,
       Goto, TypeOK, Gone
  <2> QED BY <2>1, <1>3
<1>7. CASE Pop \/ Wake \/ PopNoWait \/ Remaining
  <2>1. ~Gone' \/ queue' = <<>>
    BY <1>7 DEF Pop, Wake, PopNoWait, Remaining, AfterPop, TakeNull, Goto, TypeOK, Gone
  <2> QED BY <2>1, <1>3, <1>4
<1>8. CASE End
  BY <1>2, <1>8 DEF End, sqlVars, Gone
<1>9. CASE QueryThreadRun \/ Terminate \/ StopDB \/ UseAfterShutdown \/ UNCHANGED vars
  <2>1. UNCHANGED <<queue, pc, late>>
    BY <1>9 DEF QueryThreadRun, QueryThreadConnects, QueryThreadReleases, QueryThreadDeleted,
       Terminate, StopDB, LoopTest, BroadcastBuffer, BroadcastQueue, Slept, Shutdown,
       UseAfterShutdown, vars, sqlVars
  <2> QED BY <2>1, <1>2 DEF Gone
<1> QED BY <1>5, <1>6, <1>7, <1>8, <1>9 DEF Next, Run

(* Nothing is lost or repeated but by faults: not by wake-ups and not when *)
(* the executor ends, except what is pushed after it looked at the queue   *)
(* for the last time.                                                      *)
THEOREM LossesAreFaults == Spec => []LostOrRepeatedByFault
<1>1. Init => FaultInv
  <2> SUFFICES ASSUME Init PROVE FaultInv
    OBVIOUS
  <2>1. /\ \A a \in Actors : cur[a] = <<>> /\ pc[a] # "resend"
        /\ DOMAIN queue = {} /\ DOMAIN log = {} /\ Len(log) = 0 /\ faults = 0 /\ issued = 0
    BY DEF Init
  <2>2. Missing = {} /\ Resending = {} /\ ExecutedIds = {}
    BY <2>1 DEF Missing, Resending, ExecutedIds
  <2>3. Charged
    BY <2>1, <2>2, FS_EmptySet DEF Charged
  <2> QED BY <2>1, <2>3 DEF FaultInv, OnePlace, Unexecuted
<1>2. IInv /\ FaultInv /\ LateInv => LostOrRepeatedByFault
  <2> SUFFICES ASSUME TypeOK, FaultInv, LateInv PROVE LostOrRepeatedByFault
    BY DEF IInv
  <2> DEFINE lost == {id \in (1 .. issued) \ (ExecutedIds \cup late) : ~Outstanding(id)}
  <2>1. lost \subseteq Missing
    BY DEF Missing, UnderWay, Outstanding, Held, LateInv
  <2>2. Cardinality(lost) <= Cardinality(Missing) /\ Cardinality(lost) \in Nat
    BY <2>1, Sizes, FS_Subset, FS_CardinalityType
  <2>3. Cardinality(lost) + Len(log) - Cardinality(ExecutedIds) <= faults
    BY <2>2, Sizes DEF FaultInv, Charged
  <2> QED BY <2>3 DEF LostOrRepeatedByFault, ExecutedIds
<1>3. Init => LateInv
  BY DEF Init, LateInv
<1> QED BY <1>1, <1>2, <1>3, FaultStep, LateStep, Invariance, PTL DEF Spec
=============================================================================
