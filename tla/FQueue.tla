------------------------------- MODULE FQueue -------------------------------
(***************************************************************************)
(* The queue of the executor as Windows runs it: FQueue (Queue.h) over the *)
(* condition variable of Condition.h, which is made of a mutex, a deque of *)
(* event handles and a critical section for the deque.                     *)
(*                                                                         *)
(* Database treats push, pop and Broadcast as one step each.  Here they    *)
(* are the steps between which other threads come in; each of the steps of *)
(* Database is taken at the one of them where the list of statements is    *)
(* read or changed.  EndThreads calls Broadcast without the mutex.         *)
(***************************************************************************)
EXTENDS Database

CONSTANTS
  Handles,          \* handles of events; a closed one may be given out again
  NoHandle          \* NULL

Master == "Master"  \* the thread of Master::Run
Nobody == "nobody"

ASSUME FQueueAssumption ==
  /\ Master \notin Threads /\ Nobody \notin Threads
  /\ NoHandle \notin Handles
  /\ ~SpuriousWakeups

Callers == Actors \cup {Master}

VARIABLES
  owner,            \* who is in m_externalMutex
  m_nLockCount,
  saved,            \* nThisThreadsLockCount of the executor's Wait
  at,               \* where each caller is inside the queue; "out": outside
  m_deqWaitSet,     \* handles of those who wait, in order
  inCritSec,        \* Broadcast is between entering and leaving
                    \* m_critsecWaitSetProtection; other uses are one step
  open,             \* handles created and not closed
  signalled,        \* events that are set
  hWaitEvent,       \* the event the executor waits for
  popped            \* the handle Signal took off the deque

lockVars  == <<owner, m_nLockCount, saved>>
eventVars == <<m_deqWaitSet, inCritSec, open, signalled, hWaitEvent, popped>>
queueVars == <<lockVars, eventVars, at>>
allVars   == <<vars, queueVars>>

QueueInit ==
  /\ Init
  /\ owner = Nobody /\ m_nLockCount = 0 /\ saved = 0
  /\ at = [c \in Callers |-> "out"]
  /\ m_deqWaitSet = <<>> /\ inCritSec = FALSE
  /\ open = {} /\ signalled = {}
  /\ hWaitEvent = NoHandle /\ popped = NoHandle

Listed == {m_deqWaitSet[i] : i \in DOMAIN m_deqWaitSet}

Move(c, from, to) == at[c] = from /\ at' = [at EXCEPT ![c] = to]

-----------------------------------------------------------------------------
(* The mutex.                                                              *)

Enter(c, count) == owner = Nobody /\ owner' = c /\ m_nLockCount' = count

(* Which calls of the queue the caller is about to make.                   *)
Calls(c) ==
  \/ c \in Threads /\ pc[c] = "push"
  \/ c = Executor /\ pc[c] \in {"pop", "remaining", "drain"}
  \/ c = Master /\ main = "broadcastBuffer"

BeginSynchronized(c) ==
  /\ Calls(c) /\ Move(c, "out", "in")
  /\ Enter(c, m_nLockCount + 1)
  /\ UNCHANGED <<vars, saved, eventVars>>

(* Mutant of EndSynchronized: pop returns NULL without a call of it.       *)
EndSynchronizedTaken(c) ==
  /\ Move(c, "done", "out")
  /\ c = Executor => cur[c] # <<>>
  /\ owner' = Nobody /\ m_nLockCount' = m_nLockCount - 1
  /\ UNCHANGED <<vars, saved, eventVars>>

EndSynchronized(c) ==
  /\ Move(c, "done", "out")
  /\ owner' = Nobody /\ m_nLockCount' = m_nLockCount - 1
  /\ UNCHANGED <<vars, saved, eventVars>>

-----------------------------------------------------------------------------
(* push.                                                                   *)

(* Mutant of PushItem: the condition of the signal is reversed.            *)
PushItemLate(t) ==
  /\ Push(t)
  /\ Move(t, "in", IF queue = <<>> THEN "done" ELSE "signal")
  /\ UNCHANGED <<lockVars, eventVars>>

(* push up to the end of the list operation: the first item is signalled.  *)
PushItem(t) ==
  /\ Push(t)
  /\ Move(t, "in", IF queue = <<>> THEN "signal" ELSE "done")
  /\ UNCHANGED <<lockVars, eventVars>>

(* Mutant of SignalPop: the deque keeps the handle.                        *)
SignalPeek(t) ==
  /\ ~inCritSec
  /\ IF m_deqWaitSet = <<>>
       THEN Move(t, "signal", "done") /\ UNCHANGED popped
       ELSE Move(t, "signal", "set") /\ popped' = Head(m_deqWaitSet)
  /\ UNCHANGED <<vars, lockVars, m_deqWaitSet, inCritSec, open, signalled, hWaitEvent>>

(* Signal: the first handle, if any, is taken off the deque.               *)
SignalPop(t) ==
  /\ ~inCritSec
  /\ IF m_deqWaitSet = <<>>
       THEN Move(t, "signal", "done") /\ UNCHANGED <<m_deqWaitSet, popped>>
       ELSE /\ Move(t, "signal", "set")
            /\ popped' = Head(m_deqWaitSet) /\ m_deqWaitSet' = Tail(m_deqWaitSet)
  /\ UNCHANGED <<vars, lockVars, inCritSec, open, signalled, hWaitEvent>>

(* SetEvent does nothing to a handle that was closed.                      *)
SignalSet(t) ==
  /\ Move(t, "set", "done")
  /\ signalled' = signalled \cup ({popped} \cap open) /\ popped' = NoHandle
  /\ UNCHANGED <<vars, lockVars, m_deqWaitSet, inCritSec, open, hWaitEvent>>

-----------------------------------------------------------------------------
(* The executor: pop, pop_nowait and get_size, and Wait inside pop.        *)

(* pop after its Wait: unlike Wake of Database, it does not look whether   *)
(* anybody woke it.                                                        *)
Woken ==
  /\ pc[Executor] = "waiting"
  /\ \/ queue # <<>> /\ Take /\ AfterPop("send")
     \/ queue = <<>> /\ TakeNull /\ AfterPop("release")
  /\ UNCHANGED <<holders, execVars, lifeVars, sqlVars>>

TakeItem ==
  /\ (queue # <<>> /\ Pop) \/ Woken \/ PopNoWait \/ Remaining
  /\ Move(Executor, "in", "done")
  /\ UNCHANGED <<lockVars, eventVars>>

(* Wait: an event enters the deque while the mutex is still held.          *)
Enlist ==
  /\ queue = <<>> /\ Pop
  /\ Move(Executor, "in", "enlisted")
  /\ ~inCritSec
  /\ \E h \in Handles \ open :
       /\ open' = open \cup {h} /\ signalled' = signalled \ {h}
       /\ hWaitEvent' = h /\ m_deqWaitSet' = Append(m_deqWaitSet, h)
  /\ UNCHANGED <<lockVars, inCritSec, popped>>

(* Mutant of ReleaseAndWait: the count is left for the next owner.         *)
ReleaseAndWaitCounted ==
  /\ Move(Executor, "enlisted", "asleep")
  /\ saved' = m_nLockCount /\ owner' = Nobody /\ UNCHANGED m_nLockCount
  /\ UNCHANGED <<vars, eventVars>>

ReleaseAndWait ==
  /\ Move(Executor, "enlisted", "asleep")
  /\ saved' = m_nLockCount /\ m_nLockCount' = 0 /\ owner' = Nobody
  /\ UNCHANGED <<vars, eventVars>>

(* Mutant of Awake: the timed Wait of Condition.h, which leaves its handle *)
(* in the deque when the time is over.                                     *)
AwakeTimedOut ==
  /\ Move(Executor, "asleep", "awake")
  /\ UNCHANGED <<vars, lockVars, eventVars>>

(* The wait ends and resets the event.                                     *)
Awake ==
  /\ hWaitEvent \in signalled /\ Move(Executor, "asleep", "awake")
  /\ signalled' = signalled \ {hWaitEvent}
  /\ UNCHANGED <<vars, lockVars, m_deqWaitSet, inCritSec, open, hWaitEvent, popped>>

Reacquire ==
  /\ Move(Executor, "awake", "in") /\ Enter(Executor, saved)
  /\ open' = open \ {hWaitEvent} /\ hWaitEvent' = NoHandle
  /\ UNCHANGED <<vars, saved, m_deqWaitSet, inCritSec, signalled, popped>>

-----------------------------------------------------------------------------
(* The main thread: get_size and Broadcast.                                *)

GetSize ==
  /\ BroadcastBuffer /\ Move(Master, "in", "done")
  /\ UNCHANGED <<lockVars, eventVars>>

(* Mutant of BroadcastSet: the deque is not protected while it is walked.  *)
BroadcastSetUnprotected ==
  /\ BroadcastQueue /\ Move(Master, "out", "clear")
  /\ signalled' = signalled \cup Listed
  /\ UNCHANGED <<lockVars, m_deqWaitSet, inCritSec, open, hWaitEvent, popped>>

(* Mutant of BroadcastSet: nobody is woken.                                *)
BroadcastSetNothing ==
  /\ BroadcastQueue /\ ~inCritSec /\ inCritSec' = TRUE
  /\ Move(Master, "out", "clear")
  /\ UNCHANGED <<lockVars, m_deqWaitSet, open, signalled, hWaitEvent, popped>>

(* Broadcast sets every event of the deque; on one that is closed it gives *)
(* up and keeps the critical section.                                      *)
BroadcastSet ==
  /\ BroadcastQueue /\ ~inCritSec /\ inCritSec' = TRUE
  /\ IF Listed \subseteq open
       THEN /\ Move(Master, "out", "clear")
            /\ signalled' = signalled \cup Listed
       ELSE at[Master] = "out" /\ UNCHANGED <<at, signalled>>
  /\ UNCHANGED <<lockVars, m_deqWaitSet, open, hWaitEvent, popped>>

BroadcastClear ==
  /\ Move(Master, "clear", "out")
  /\ m_deqWaitSet' = <<>> /\ inCritSec' = FALSE
  /\ UNCHANGED <<vars, lockVars, open, signalled, hWaitEvent, popped>>
-----------------------------------------------------------------------------
(* What the callers do outside the queue is as in Database.                *)
Outside(c) == at[c] = "out" /\ UNCHANGED queueVars

QueueCall(t) ==
  \/ BeginSynchronized(t) \/ PushItem(t) \/ SignalPop(t) \/ SignalSet(t) \/ EndSynchronized(t)
  \/ (Statement(t) \/ Return(t)) /\ Outside(t)

QueueServer(t) ==
  \/ QueueCall(t)
  \/ (Execute(t) \/ WaitExecute(t)) /\ Outside(t)

QueueRun ==
  \/ BeginSynchronized(Executor) \/ TakeItem \/ EndSynchronized(Executor)
  \/ Enlist \/ ReleaseAndWait \/ Awake \/ Reacquire
  \/ (Statement(Executor) \/ Executed \/ Drained \/ Release \/ End) /\ Outside(Executor)

QueueStopDB ==
  \/ BeginSynchronized(Master) \/ GetSize \/ EndSynchronized(Master)
  \/ BroadcastSet \/ BroadcastClear
  \/ (LoopTest \/ Slept \/ Shutdown) /\ Outside(Master)

QueueNext ==
  /\ ~crashed
  /\ \/ \E t \in Threads : QueueServer(t)
     \/ QueueRun \/ QueueStopDB
     \/ (Terminate \/ UseAfterShutdown \/ QueryThreadRun) /\ UNCHANGED queueVars

QueueSpec == QueueInit /\ [][QueueNext]_allVars

(* The operating system schedules every thread that can run, and who asks  *)
(* for the mutex over and over gets it in the end.  Nothing makes a server *)
(* issue a statement or the operator stop it.                              *)
QueueFairSpec ==
  /\ QueueSpec
  /\ \A t \in Threads : /\ WF_allVars(~crashed /\ QueueCall(t))
                        /\ SF_allVars(~crashed /\ BeginSynchronized(t))
  /\ WF_allVars(~crashed /\ QueueRun)
  /\ SF_allVars(~crashed /\ (BeginSynchronized(Executor) \/ Reacquire))
  /\ WF_allVars(~crashed /\ QueueStopDB) /\ SF_allVars(~crashed /\ BeginSynchronized(Master))
  /\ WF_allVars(~crashed /\ QueryThreadRun /\ UNCHANGED queueVars)

-----------------------------------------------------------------------------
(* Properties.                                                             *)

Stages == {"out", "in", "signal", "set", "done", "enlisted", "asleep", "awake", "clear"}

(* The types of the variables; one thread waits, so the deque has at most  *)
(* one handle.                                                             *)
QueueTypeOK ==
  /\ owner \in Callers \cup {Nobody}
  /\ m_nLockCount \in Nat /\ saved \in Nat
  /\ at \in [Callers -> Stages]
  /\ m_deqWaitSet \in {<<>>} \cup {<<h>> : h \in Handles} /\ inCritSec \in BOOLEAN
  /\ open \subseteq Handles /\ signalled \subseteq Handles
  /\ hWaitEvent \in Handles \cup {NoHandle} /\ popped \in Handles \cup {NoHandle}

Inside == {"in", "signal", "set", "done", "enlisted"}

(* The assertions of EndSynchronized and Wait (LockHeldByCallingThread)    *)
(* hold although Wait sets the count, which all callers share, to zero and *)
(* back: whoever is inside owns the mutex and the count says so, and when  *)
(* nobody is inside it says that.                                          *)
LockHeldByCallingThread ==
  /\ \A c \in Callers : at[c] \in Inside => owner = c /\ m_nLockCount = 1
  /\ owner = Nobody => m_nLockCount = 0

Waiting == at[Executor] \in {"enlisted", "asleep"}

(* Condition.h:97, "our thread is placed in the wait set before the lock   *)
(* is released.  Therefore, if we get preempted right here and another     *)
(* thread notifies us, then that notification will not be missed": a       *)
(* notification that Database has given is in the event, or in the hands   *)
(* of a Signal that is about to set it.                                    *)
NotificationNotMissed ==
  Waiting /\ woken =>
    \/ hWaitEvent \in signalled
    \/ \E t \in Threads : \/ at[t] = "signal" /\ m_deqWaitSet = <<hWaitEvent>> /\ ~inCritSec
                          \/ at[t] = "set" /\ popped = hWaitEvent

(* SetEvent is never called on a handle that Wait has closed, although     *)
(* Broadcast walks the deque without the mutex: so Broadcast never gives   *)
(* up in the middle and keeps the critical section.                        *)
EventsOpen ==
  /\ ~inCritSec => Listed \subseteq open
  /\ popped # NoHandle => popped \in open
  /\ inCritSec <=> at[Master] = "clear"

(* With all its steps, the queue does what Database takes push, pop,       *)
(* get_size and Broadcast for.                                             *)
ImplementsDatabase == Spec
=============================================================================
