------------------------------ MODULE Database ------------------------------
(***************************************************************************)
(* The asynchronous executor of Database.cpp, the threads that call it and *)
(* the shutdown of Master.cpp.                                             *)
(*                                                                         *)
(* Execute hands a statement to a queue that one executor thread empties   *)
(* (Database::run); WaitExecute and Query run it at once on a connection   *)
(* of their own.  A second thread (QueryThread) holds a connection and     *)
(* waits on query_buffer, which nothing fills.  Master::_StopDB ends both  *)
(* threads and closes the connections, while the server threads go on.     *)
(***************************************************************************)
EXTENDS Naturals, Sequences, FiniteSets

CONSTANTS
  Threads,          \* who issues statements: auth, margin, game, console
  ConnectionCount,  \* Database.ConnectionCount of the configuration
  SpuriousWakeups,  \* TRUE: pthread_cond_wait; FALSE: an event of Windows
  MaxQueries,       \* bound: statements issued
  MaxFaults         \* bound: statements the database server fails to confirm

Executor == "Database Executor"
QueryThread == "QueryThread"

ASSUME DatabaseAssumption ==
  /\ IsFiniteSet(Threads)
  /\ Executor \notin Threads /\ QueryThread \notin Threads
  /\ ConnectionCount \in Nat \ {0}
  /\ SpuriousWakeups \in BOOLEAN
  /\ MaxQueries \in Nat /\ MaxFaults \in Nat

Actors == Threads \cup {Executor}

(* "execute": handed to Execute; "direct": to WaitExecute or Query.        *)
Statements == [id : 1 .. MaxQueries, by : Threads, kind : {"execute", "direct"}]

VARIABLES
  queue,            \* queries_queue
  ThreadRunning,    \* the executor takes statements
  m_threadRunning,  \* FALSE once Terminate was called
  pc,               \* where each server thread and the executor is
  cur,              \* the statement each holds: <<>> or <<s>>
  woken,            \* the executor's wait on queries_queue was signalled
  draining,         \* the executor is in the second loop of run
  qt,               \* where the query thread is; "deleted": qt == NULL
  holders,          \* who has a connection of m_connections busy
  main,             \* where Master::Run is
  closed,           \* m_connections closed and cleared
  crashed,          \* m_connections was used after that
  log,              \* every execution by the database server, in its order
  issued,           \* statements issued so far
  faults,           \* executions not confirmed so far
  late              \* history: statements pushed after the executor had
                    \* looked at the queue for the last time

execVars == <<ThreadRunning, m_threadRunning, woken, draining>>
lifeVars == <<qt, main, closed, crashed>>
sqlVars  == <<log, issued, faults, late>>
vars == <<queue, pc, cur, holders, execVars, lifeVars, sqlVars>>

Init ==
  /\ queue = <<>> /\ ThreadRunning = TRUE /\ m_threadRunning = TRUE
  /\ pc = [a \in Actors |-> IF a = Executor THEN "pop" ELSE "idle"]
  /\ cur = [a \in Actors |-> <<>>]
  /\ woken = FALSE /\ draining = FALSE
  /\ qt = "start" /\ holders = {}
  /\ main = "running" /\ closed = FALSE /\ crashed = FALSE
  /\ log = <<>> /\ issued = 0 /\ faults = 0 /\ late = {}

-----------------------------------------------------------------------------
(* Connections and statements, for every caller.                           *)

Goto(a, label) == pc' = [pc EXCEPT ![a] = label]

FreeConnection == ~closed /\ Cardinality(holders) < ConnectionCount

GetFreeConnection(a) ==
  /\ pc[a] = "connect" /\ FreeConnection
  /\ holders' = holders \cup {a}
  /\ Goto(a, IF cur[a] = <<>> THEN "release" ELSE "send")
  /\ UNCHANGED <<queue, cur, execVars, lifeVars, sqlVars>>

Confirmed(a) == log' = Append(log, Head(cur[a])) /\ UNCHANGED faults

(* An error of the statement, or a lost connection: the statement may have *)
(* been executed before the connection went.                               *)
Unconfirmed(a, executed) ==
  /\ faults < MaxFaults /\ faults' = faults + 1
  /\ log' = IF executed THEN Append(log, Head(cur[a])) ELSE log

(* _SendQuery with Self false: after a lost connection and a successful    *)
(* _Reconnect the statement is sent again.                                 *)
SendQuery(a) ==
  /\ pc[a] = "send" /\ ~closed
  /\ \/ Confirmed(a) /\ Goto(a, "sent")
     \/ \E executed \in BOOLEAN, next \in {"sent", "resend"} :
          Unconfirmed(a, executed) /\ Goto(a, next)
  /\ UNCHANGED <<queue, cur, holders, execVars, lifeVars, issued, late>>

(* _SendQuery with Self true: whatever happens, this is the last time.     *)
ResendQuery(a) ==
  /\ pc[a] = "resend" /\ ~closed
  /\ \/ Confirmed(a)
     \/ \E executed \in BOOLEAN : Unconfirmed(a, executed)
  /\ Goto(a, "sent")
  /\ UNCHANGED <<queue, cur, holders, execVars, lifeVars, issued, late>>

-----------------------------------------------------------------------------
(* The server threads.                                                     *)

NewStatement(t, kind) ==
  /\ pc[t] = "idle" /\ issued < MaxQueries
  /\ issued' = issued + 1
  /\ cur' = [cur EXCEPT ![t] = <<[id |-> issued + 1, by |-> t, kind |-> kind]>>]
  /\ UNCHANGED <<queue, holders, execVars, lifeVars, log, faults, late>>

(* Execute reads ThreadRunning here and pushes later.                      *)
Execute(t) ==
  /\ NewStatement(t, "execute")
  /\ Goto(t, IF ThreadRunning THEN "push" ELSE "connect")

WaitExecute(t) == NewStatement(t, "direct") /\ Goto(t, "connect")

(* The executor has looked at the queue for the last time.                 *)
Gone == pc[Executor] \in {"ending", "ended"}

(* For the history: the statement is pushed.                               *)
Note(s) == late' = IF Gone THEN late \cup {s.id} ELSE late

(* Mutant of Push: the condition of the signal is reversed.                *)
PushSignalsLate(t) ==
  /\ pc[t] = "push"
  /\ queue' = Append(queue, Head(cur[t]))
  /\ woken' = (woken \/ (queue # <<>> /\ pc[Executor] = "waiting"))
  /\ cur' = [cur EXCEPT ![t] = <<>>] /\ Goto(t, "idle")
  /\ Note(Head(cur[t]))
  /\ UNCHANGED <<ThreadRunning, m_threadRunning, draining, holders, lifeVars, log, issued, faults>>

(* FQueue::push signals only when the queue was empty.                     *)
Push(t) ==
  /\ pc[t] = "push"
  /\ queue' = Append(queue, Head(cur[t]))
  /\ woken' = (woken \/ (queue = <<>> /\ pc[Executor] = "waiting"))
  /\ cur' = [cur EXCEPT ![t] = <<>>] /\ Goto(t, "idle")
  /\ Note(Head(cur[t]))
  /\ UNCHANGED <<ThreadRunning, m_threadRunning, draining, holders, lifeVars, log, issued, faults>>

(* Mutant of Return: the connection stays busy.                            *)
ReturnBusy(t) ==
  /\ pc[t] = "sent" /\ ~closed
  /\ cur' = [cur EXCEPT ![t] = <<>>] /\ Goto(t, "idle")
  /\ UNCHANGED <<queue, holders, execVars, lifeVars, sqlVars>>

Return(t) ==
  /\ pc[t] = "sent" /\ ~closed
  /\ holders' = holders \ {t}
  /\ cur' = [cur EXCEPT ![t] = <<>>] /\ Goto(t, "idle")
  /\ UNCHANGED <<queue, execVars, lifeVars, sqlVars>>
-----------------------------------------------------------------------------
(* The executor: Database::run.                                            *)

(* Mutant of Take: the last item instead of the first.                     *)
TakeNewest ==
  /\ queue' = SubSeq(queue, 1, Len(queue) - 1)
  /\ cur' = [cur EXCEPT ![Executor] = <<queue[Len(queue)]>>]

(* Mutant of Take: everything at once, as FQueue::clear would.             *)
TakeAll == queue' = <<>> /\ cur' = [cur EXCEPT ![Executor] = queue]

Take == queue' = Tail(queue) /\ cur' = [cur EXCEPT ![Executor] = <<Head(queue)>>]

TakeNull == UNCHANGED <<queue, cur>>

(* The connection is taken after the first pop, whatever that returned.    *)
AfterPop(label) == Goto(Executor, IF Executor \in holders THEN label ELSE "connect")

(* Mutant of Pop: m_threadRunning is tested before the statement is sent.  *)
PopThenTest ==
  /\ pc[Executor] = "pop"
  /\ \/ queue # <<>> /\ Take /\ AfterPop(IF m_threadRunning THEN "send" ELSE "release")
     \/ queue = <<>> /\ TakeNull /\ Goto(Executor, "waiting")
  /\ woken' = FALSE
  /\ UNCHANGED <<ThreadRunning, m_threadRunning, draining, holders, lifeVars, sqlVars>>

Pop ==
  /\ pc[Executor] = "pop"
  /\ \/ queue # <<>> /\ Take /\ AfterPop("send")
     \/ queue = <<>> /\ TakeNull /\ Goto(Executor, "waiting")
  /\ woken' = FALSE
  /\ UNCHANGED <<ThreadRunning, m_threadRunning, draining, holders, lifeVars, sqlVars>>

(* FQueue::pop waits once: what it finds when woken is what it returns.    *)
Wake ==
  /\ pc[Executor] = "waiting" /\ (woken \/ SpuriousWakeups)
  /\ \/ queue # <<>> /\ Take /\ AfterPop("send")
     \/ queue = <<>> /\ TakeNull /\ AfterPop("release")
  /\ UNCHANGED <<holders, execVars, lifeVars, sqlVars>>

Executed ==
  /\ pc[Executor] = "sent" /\ ~draining
  /\ cur' = [cur EXCEPT ![Executor] = <<>>]
  /\ Goto(Executor, IF m_threadRunning THEN "pop" ELSE "release")
  /\ UNCHANGED <<queue, holders, execVars, lifeVars, sqlVars>>

Release ==
  /\ pc[Executor] = "release" /\ ~closed
  /\ holders' = holders \ {Executor}
  /\ Goto(Executor, "remaining")
  /\ UNCHANGED <<queue, cur, execVars, lifeVars, sqlVars>>

(* Mutant of Remaining: ThreadRunning is cleared before the second loop.   *)
RemainingEnded ==
  /\ pc[Executor] = "remaining"
  /\ draining' = (queue # <<>>) /\ ThreadRunning' = FALSE
  /\ Goto(Executor, IF queue # <<>> THEN "drain" ELSE "ending")
  /\ UNCHANGED <<queue, cur, holders, m_threadRunning, woken, lifeVars, sqlVars>>

Remaining ==
  /\ pc[Executor] = "remaining"
  /\ draining' = (queue # <<>>)
  /\ Goto(Executor, IF queue # <<>> THEN "drain" ELSE "ending")
  /\ UNCHANGED <<queue, cur, holders, ThreadRunning, m_threadRunning, woken, lifeVars, sqlVars>>

PopNoWait ==
  /\ pc[Executor] = "drain"
  /\ \/ queue # <<>> /\ Take /\ Goto(Executor, "connect")
     \/ queue = <<>> /\ TakeNull /\ Goto(Executor, "ending")
  /\ UNCHANGED <<holders, execVars, lifeVars, sqlVars>>

Drained ==
  /\ pc[Executor] = "sent" /\ draining /\ ~closed
  /\ holders' = holders \ {Executor}
  /\ cur' = [cur EXCEPT ![Executor] = <<>>]
  /\ Goto(Executor, "drain")
  /\ UNCHANGED <<queue, execVars, lifeVars, sqlVars>>

End ==
  /\ pc[Executor] = "ending"
  /\ ThreadRunning' = FALSE /\ Goto(Executor, "ended")
  /\ UNCHANGED <<queue, cur, holders, m_threadRunning, woken, draining, lifeVars, sqlVars>>

-----------------------------------------------------------------------------
(* The query thread: thread_proc_query, then its deletion.                 *)

QueryThreadConnects ==
  /\ qt = "start" /\ FreeConnection
  /\ holders' = holders \cup {QueryThread} /\ qt' = "waiting"
  /\ UNCHANGED <<queue, pc, cur, execVars, main, closed, crashed, sqlVars>>

QueryThreadReleases ==
  /\ qt = "woken" \/ (SpuriousWakeups /\ qt = "waiting")
  /\ ~closed
  /\ holders' = holders \ {QueryThread} /\ qt' = "exiting"
  /\ UNCHANGED <<queue, pc, cur, execVars, main, closed, crashed, sqlVars>>

QueryThreadDeleted ==
  /\ qt = "exiting" /\ qt' = "deleted"
  /\ UNCHANGED <<queue, pc, cur, holders, execVars, main, closed, crashed, sqlVars>>

-----------------------------------------------------------------------------
(* The main thread: EndThreads and Shutdown, from Master::_StopDB.         *)

Terminate ==
  /\ main = "running" /\ main' = "test"
  /\ m_threadRunning' = FALSE
  /\ UNCHANGED <<queue, pc, cur, holders, ThreadRunning, woken, draining, qt, closed, crashed, sqlVars>>

LoopTest ==
  /\ main = "test"
  /\ main' = IF ThreadRunning \/ qt # "deleted" THEN "broadcastBuffer" ELSE "shutdown"
  /\ UNCHANGED <<queue, pc, cur, holders, execVars, qt, closed, crashed, sqlVars>>

(* query_buffer is always empty; then the size of queries_queue is read.   *)
BroadcastBuffer ==
  /\ main = "broadcastBuffer"
  /\ qt' = IF qt = "waiting" THEN "woken" ELSE qt
  /\ main' = IF queue = <<>> THEN "broadcastQueue" ELSE "sleep"
  /\ UNCHANGED <<queue, pc, cur, holders, execVars, closed, crashed, sqlVars>>

BroadcastQueue ==
  /\ main = "broadcastQueue" /\ main' = "sleep"
  /\ woken' = (woken \/ pc[Executor] = "waiting")
  /\ UNCHANGED <<queue, pc, cur, holders, ThreadRunning, m_threadRunning, draining, qt, closed, crashed, sqlVars>>

(* Mutant of Slept: the loop is left after one round.                      *)
SleptOnce ==
  /\ main = "sleep" /\ main' = "shutdown"
  /\ UNCHANGED <<queue, pc, cur, holders, execVars, qt, closed, crashed, sqlVars>>

Slept ==
  /\ main = "sleep"
  /\ main' = IF ThreadRunning THEN "test" ELSE "shutdown"
  /\ UNCHANGED <<queue, pc, cur, holders, execVars, qt, closed, crashed, sqlVars>>

Shutdown ==
  /\ main = "shutdown" /\ main' = "done"
  /\ closed' = TRUE
  /\ UNCHANGED <<queue, pc, cur, holders, execVars, qt, crashed, sqlVars>>

(* GetFreeConnection divides by the size of the cleared m_connections, and *)
(* a connection still in use was freed with it.                            *)
UseAfterShutdown ==
  /\ closed /\ crashed' = TRUE
  /\ \/ \E a \in Actors : pc[a] = "connect" \/ (a \in holders /\ pc[a] # "waiting")
     \/ qt \in {"start", "woken"}
     \/ SpuriousWakeups /\ qt = "waiting"
  /\ UNCHANGED <<queue, pc, cur, holders, execVars, qt, main, closed, sqlVars>>

-----------------------------------------------------------------------------
Statement(a) == GetFreeConnection(a) \/ SendQuery(a) \/ ResendQuery(a)

ServerCall(t) == Statement(t) \/ Push(t) \/ Return(t)

Server(t) == Execute(t) \/ WaitExecute(t) \/ ServerCall(t)

Run == \/ Statement(Executor)
       \/ Pop \/ Wake \/ Executed \/ Release
       \/ Remaining \/ PopNoWait \/ Drained \/ End

QueryThreadRun == QueryThreadConnects \/ QueryThreadReleases \/ QueryThreadDeleted

StopDB == LoopTest \/ BroadcastBuffer \/ BroadcastQueue \/ Slept \/ Shutdown

Next ==
  /\ ~crashed
  /\ \/ \E t \in Threads : Server(t)
     \/ Run \/ QueryThreadRun
     \/ Terminate \/ StopDB \/ UseAfterShutdown

Spec == Init /\ [][Next]_vars

-----------------------------------------------------------------------------
(* Properties.                                                             *)

Labels == {"idle", "push", "connect", "send", "resend", "sent", "pop", "waiting",
           "release", "remaining", "drain", "ending", "ended"}

(* The types of the variables; no connection has two users.                *)
TypeOK ==
  /\ queue \in Seq(Statements) /\ log \in Seq(Statements)
  /\ ThreadRunning \in BOOLEAN /\ m_threadRunning \in BOOLEAN
  /\ woken \in BOOLEAN /\ draining \in BOOLEAN
  /\ closed \in BOOLEAN /\ crashed \in BOOLEAN
  /\ pc \in [Actors -> Labels]
  /\ cur \in [Actors -> {<<>>} \cup {<<s>> : s \in Statements}]
  /\ qt \in {"start", "waiting", "woken", "exiting", "deleted"}
  /\ holders \subseteq Actors \cup {QueryThread} /\ Cardinality(holders) <= ConnectionCount
  /\ main \in {"running", "test", "broadcastBuffer", "broadcastQueue", "sleep", "shutdown", "done"}
  /\ issued \in 0 .. MaxQueries /\ faults \in 0 .. MaxFaults
  /\ late \subseteq 1 .. MaxQueries

(* push signals only when the queue was empty and pop waits only once:     *)
(* still, the executor never sleeps on a statement without a wake-up on    *)
(* its way (Queue.h push, pop).                                            *)
NoLostWakeup == pc[Executor] = "waiting" /\ ~woken => queue = <<>>

(* Two statements the same thread gave to Execute are executed in the      *)
(* order it gave them: the queue is in order, the statement of the second  *)
(* loop of run comes before those Execute runs on the spot afterwards, and *)
(* a re-sent statement is not re-sent after a later one.                   *)
AppliedInOrder ==
  \A i, j \in DOMAIN log :
    i < j /\ log[i].by = log[j].by /\ log[i].kind = "execute" /\ log[j].kind = "execute"
      => log[i].id <= log[j].id

(* In somebody's hands, or in a queue the executor will look at again.     *)
Outstanding(id) ==
  \/ ~Gone /\ \E i \in DOMAIN queue : queue[i].id = id
  \/ \E a \in Actors : cur[a] # <<>> /\ Head(cur[a]).id = id

(* A statement that was not executed and never will be failed at the       *)
(* database server, and one that was executed twice was sent again after a *)
(* lost connection (_SendQuery): no wake-up drops or repeats one, and the  *)
(* executor leaves none behind when it ends.  The exception is one that    *)
(* Execute pushes too late, after the executor found the queue empty for   *)
(* the last time, because it read ThreadRunning before (Database.cpp:176): *)
(* it stays in the queue for good.                                         *)
LostOrRepeatedByFault ==
  LET executed == {log[i].id : i \in DOMAIN log}
      lost == {id \in (1 .. issued) \ (executed \cup late) : ~Outstanding(id)}
  IN  Cardinality(lost) + Len(log) - Cardinality(executed) <= faults

(* The connections have the threads, the executor and the query thread for *)
(* users.  When all are busy, no more wait in GetFreeConnection than there *)
(* are connections too few: none is leaked on any path through run and     *)
(* _SendQuery, and nobody who has one waits for another.  The default of   *)
(* five is one too few for auth, margin, game and console.                 *)
ShortfallWaits ==
  ~closed /\ ~FreeConnection =>
    Cardinality({a \in Actors : pc[a] = "connect"}) + ConnectionCount <= Cardinality(Threads) + 2

(* Shutdown closes the connections only when the executor has written all  *)
(* it took: EndThreads breaks out of its loop on ThreadRunning alone.      *)
ExecutorGoneBeforeClose == closed => pc[Executor] = "ended" /\ cur[Executor] = <<>>

(* The statements Execute accepts are written first come first served, and *)
(* the executor goes when nothing is left.                                 *)
Writer == INSTANCE AsyncWrites WITH
            pending <- cur[Executor] \o queue,
            open <- ~Gone

WritesInOrder == Writer!Spec

(* A statement handed to the executor is taken, unless the executor has    *)
(* ended: a signal or a broadcast always finds it again.                   *)
AcceptedIsTaken ==
  \A id \in 1 .. MaxQueries :
    (\E i \in DOMAIN queue : queue[i].id = id)
      ~> (crashed \/ pc[Executor] = "ended" \/ \A i \in DOMAIN queue : queue[i].id # id)

(* EndThreads returns: its broadcasts, repeated every 1.1 seconds, reach   *)
(* an executor that waits with nothing to do, and the query thread.        *)
EndThreadsReturns == main = "test" ~> (main = "done" \/ crashed)

(* Every call of a server thread returns, as long as there are connections:*)
(* nobody keeps one that another needs.                                    *)
CallsReturn == \A t \in Threads : pc[t] # "idle" ~> (pc[t] = "idle" \/ closed)
=============================================================================
