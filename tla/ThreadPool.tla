----------------------------- MODULE ThreadPool -----------------------------
(***************************************************************************)
(* The pool of threads every part of the server runs on (ThreadPool.cpp).  *)
(* ExecuteTask hands a task to a thread of the free set, or to a new one;  *)
(* a thread that has run its task enters the free set (ThreadExit) and     *)
(* then suspends itself.  Between the two it can already be chosen again.  *)
(*                                                                         *)
(* Nothing calls IntegrityCheck, KillFreeThreads or Shutdown, so           *)
(* _threadsToExit stays 0 and no thread ends.                              *)
(***************************************************************************)
EXTENDS Naturals, FiniteSets

CONSTANTS
  Tasks,        \* the ThreadContexts to run, each handed over once
  ThreadCount,  \* threads Startup creates
  NoTask        \* NULL

ASSUME ThreadPoolAssumption ==
  /\ IsFiniteSet(Tasks) /\ NoTask \notin Tasks
  /\ ThreadCount \in Nat

(* Each task starts at most one thread.                                    *)
ThreadIds == 1 .. ThreadCount + Cardinality(Tasks)

VARIABLES
  Semaphores,       \* the platform: sem_wait and sem_post, or SuspendThread and
                    \* ResumeThread; it never changes
  pc,               \* where each thread is; "none": not created
  ExecutionTarget,  \* the task each thread is to run
  sem,              \* the semaphore of each thread's ThreadController
  created,          \* threads created so far
  toStart,          \* threads Startup has still to create
  m_freeThreads, m_activeThreads,
  handing,          \* <<>>, or what ExecuteTask still does, holding _mutex
  submitted,        \* tasks handed to ExecuteTask
  runs              \* how often the run of each task was entered

vars == <<Semaphores, pc, ExecutionTarget, sem, created, toStart, m_freeThreads,
          m_activeThreads, handing, submitted, runs>>

Init ==
  /\ Semaphores \in BOOLEAN
  /\ pc = [t \in ThreadIds |-> "none"]
  /\ ExecutionTarget = [t \in ThreadIds |-> NoTask]
  /\ sem = [t \in ThreadIds |-> 0]
  /\ created = 0 /\ toStart = ThreadCount
  /\ m_freeThreads = {} /\ m_activeThreads = {}
  /\ handing = <<>> /\ submitted = {}
  /\ runs = [x \in Tasks |-> 0]

(* StartThread: the thread heads straight to its task.                     *)
StartThread(x) ==
  /\ created' = created + 1
  /\ pc' = [pc EXCEPT ![created + 1] = "test"]
  /\ ExecutionTarget' = [ExecutionTarget EXCEPT ![created + 1] = x]

Startup ==
  /\ handing = <<>> /\ toStart > 0
  /\ toStart' = toStart - 1
  /\ StartThread(NoTask)
  /\ UNCHANGED <<sem, m_freeThreads, m_activeThreads, handing, submitted, runs>>

(* Mutant of ExecuteTask: the thread stays in the free set.                *)
ExecuteTaskKeepsFree(x) ==
  /\ handing = <<>> /\ x \notin submitted
  /\ submitted' = submitted \cup {x}
  /\ \/ \E t \in m_freeThreads :
          /\ ExecutionTarget' = [ExecutionTarget EXCEPT ![t] = x]
          /\ handing' = <<"resume", t>>
          /\ UNCHANGED <<pc, created>>
     \/ /\ m_freeThreads = {}
        /\ StartThread(x)
        /\ handing' = <<"insert", created + 1>>
  /\ UNCHANGED <<sem, toStart, m_freeThreads, m_activeThreads, runs>>

(* ExecuteTask up to the choice of the thread.                             *)
ExecuteTask(x) ==
  /\ handing = <<>> /\ x \notin submitted
  /\ submitted' = submitted \cup {x}
  /\ \/ \E t \in m_freeThreads :
          /\ m_freeThreads' = m_freeThreads \ {t}
          /\ ExecutionTarget' = [ExecutionTarget EXCEPT ![t] = x]
          /\ handing' = <<"resume", t>>
          /\ UNCHANGED <<pc, created>>
     \/ /\ m_freeThreads = {}
        /\ StartThread(x)
        /\ handing' = <<"insert", created + 1>>
        /\ UNCHANGED m_freeThreads
  /\ UNCHANGED <<sem, toStart, m_activeThreads, runs>>

(* Mutant of Resume: the semaphore is not posted.                          *)
ResumeUnheard ==
  /\ handing # <<>> /\ handing[1] = "resume"
  /\ handing' = <<"insert", handing[2]>>
  /\ UNCHANGED <<pc, ExecutionTarget, sem, created, toStart, m_freeThreads, m_activeThreads, submitted, runs>>

(* ThreadController::Resume.  ResumeThread does nothing to a thread that   *)
(* is not suspended.                                                       *)
Resume ==
  /\ handing # <<>> /\ handing[1] = "resume"
  /\ handing' = <<"insert", handing[2]>>
  /\ IF Semaphores
       THEN sem' = [sem EXCEPT ![handing[2]] = @ + 1] /\ UNCHANGED pc
       ELSE /\ pc' = [pc EXCEPT ![handing[2]] = IF @ = "suspended" THEN "test" ELSE @]
            /\ UNCHANGED sem
  /\ UNCHANGED <<ExecutionTarget, created, toStart, m_freeThreads, m_activeThreads, submitted, runs>>

Insert ==
  /\ handing # <<>> /\ handing[1] = "insert"
  /\ m_activeThreads' = m_activeThreads \cup {handing[2]}
  /\ handing' = <<>>
  /\ UNCHANGED <<pc, ExecutionTarget, sem, created, toStart, m_freeThreads, submitted, runs>>

(* thread_proc: the head of the loop.                                      *)
EnterRun(t) ==
  /\ pc[t] = "test" /\ ExecutionTarget[t] # NoTask
  /\ pc' = [pc EXCEPT ![t] = "run"]
  /\ runs' = [runs EXCEPT ![ExecutionTarget[t]] = @ + 1]
  /\ UNCHANGED <<ExecutionTarget, sem, created, toStart, m_freeThreads, m_activeThreads, handing, submitted>>

NothingToRun(t) ==
  /\ pc[t] = "test" /\ ExecutionTarget[t] = NoTask
  /\ pc' = [pc EXCEPT ![t] = "exit"]
  /\ UNCHANGED <<ExecutionTarget, sem, created, toStart, m_freeThreads, m_activeThreads, handing, submitted, runs>>

LeaveRun(t) ==
  /\ pc[t] = "run"
  /\ pc' = [pc EXCEPT ![t] = "exit"]
  /\ ExecutionTarget' = [ExecutionTarget EXCEPT ![t] = NoTask]
  /\ UNCHANGED <<sem, created, toStart, m_freeThreads, m_activeThreads, handing, submitted, runs>>

(* ThreadExit, under _mutex.                                               *)
ThreadExit(t) ==
  /\ pc[t] = "exit" /\ handing = <<>>
  /\ pc' = [pc EXCEPT ![t] = "suspend"]
  /\ m_activeThreads' = m_activeThreads \ {t}
  /\ m_freeThreads' = m_freeThreads \cup {t}
  /\ UNCHANGED <<ExecutionTarget, sem, created, toStart, handing, submitted, runs>>

(* Mutant of Suspend: the semaphore is not waited for.                     *)
SuspendNoWait(t) ==
  /\ pc[t] = "suspend"
  /\ sem' = [sem EXCEPT ![t] = @ - 1]
  /\ pc' = [pc EXCEPT ![t] = "test"]
  /\ UNCHANGED <<ExecutionTarget, created, toStart, m_freeThreads, m_activeThreads, handing, submitted, runs>>

(* ThreadController::Suspend: sem_wait lets a thread whose semaphore was   *)
(* posted already go on; SuspendThread does not look back.                 *)
Suspend(t) ==
  /\ pc[t] = "suspend"
  /\ IF Semaphores
       THEN /\ sem[t] > 0
            /\ sem' = [sem EXCEPT ![t] = @ - 1]
            /\ pc' = [pc EXCEPT ![t] = "test"]
       ELSE pc' = [pc EXCEPT ![t] = "suspended"] /\ UNCHANGED sem
  /\ UNCHANGED <<ExecutionTarget, created, toStart, m_freeThreads, m_activeThreads, handing, submitted, runs>>

ThreadStep(t) == EnterRun(t) \/ NothingToRun(t) \/ ThreadExit(t) \/ Suspend(t)

Next ==
  /\ UNCHANGED Semaphores
  /\ \/ Startup \/ Resume \/ Insert
     \/ \E x \in Tasks : ExecuteTask(x)
     \/ \E t \in ThreadIds : ThreadStep(t) \/ LeaveRun(t)

Spec == Init /\ [][Next]_vars

(* Threads are scheduled and ExecuteTask runs to its end; a task need not  *)
(* end.                                                                    *)
FairSpec ==
  /\ Spec
  /\ WF_vars(UNCHANGED Semaphores /\ (Resume \/ Insert))
  /\ \A t \in ThreadIds : WF_vars(UNCHANGED Semaphores /\ ThreadStep(t))

-----------------------------------------------------------------------------
(* The types of the variables.                                             *)
TypeOK ==
  /\ Semaphores \in BOOLEAN
  /\ pc \in [ThreadIds -> {"none", "test", "run", "exit", "suspend", "suspended"}]
  /\ ExecutionTarget \in [ThreadIds -> Tasks \cup {NoTask}]
  /\ sem \in [ThreadIds -> Nat]
  /\ created \in 0 .. ThreadCount + Cardinality(Tasks)
  /\ toStart \in 0 .. ThreadCount
  /\ m_freeThreads \subseteq ThreadIds /\ m_activeThreads \subseteq ThreadIds
  /\ handing \in {<<>>} \cup ({"resume", "insert"} \X ThreadIds)
  /\ submitted \subseteq Tasks /\ runs \in [Tasks -> Nat]

Holders(x) == {t \in ThreadIds : ExecutionTarget[t] = x}

(* A task is run at most once, and one handed over that has not been run   *)
(* is in the hands of exactly one thread, which no other task is given:    *)
(* not although a thread can be chosen again before it has suspended       *)
(* itself (ThreadExit against ExecuteTask).                                *)
TaskOnce ==
  /\ \A x \in Tasks : runs[x] <= 1
  /\ \A x \in submitted :
       runs[x] = 0 => \E t \in ThreadIds \ m_freeThreads : Holders(x) = {t}

(* A thread of the free set has nothing to run, nothing to wake it and is  *)
(* not also in the active set.                                             *)
FreeThreadsIdle ==
  \A t \in m_freeThreads : /\ ExecutionTarget[t] = NoTask /\ sem[t] = 0
                           /\ pc[t] \in {"suspend", "suspended"}
                           /\ t \notin m_activeThreads

(* ThreadPool.cpp:109, "resume the thread, and it should start working":   *)
(* a task starts, however close together the thread's way to sleep and the *)
(* call are.  Only with semaphores: a thread that ResumeThread finds       *)
(* awake suspends itself afterwards and sleeps on its task for ever.       *)
TaskStarts == \A x \in Tasks : Semaphores /\ x \in submitted ~> runs[x] > 0
=============================================================================
