-------------------------- MODULE ThreadPool_proofs --------------------------
(***************************************************************************)
(* Proofs about the thread pool, for every set of tasks, every number of   *)
(* threads, and both kinds of ThreadController.                            *)
(***************************************************************************)
EXTENDS ThreadPool, TLAPS, FiniteSetTheorems

(* What makes the two properties inductive: a thread that was not created  *)
(* is blank, ...                                                           *)
CreatedInv ==
  /\ created + toStart <= ThreadCount + Cardinality(submitted)
  /\ \A t \in ThreadIds :
       t > created => /\ pc[t] = "none" /\ ExecutionTarget[t] = NoTask /\ sem[t] = 0
                      /\ t \notin m_freeThreads

(* ... a thread holds a task until it has left its run, and no other does, *)
TargetInv ==
  /\ \A t \in ThreadIds :
       /\ pc[t] = "exit" => ExecutionTarget[t] = NoTask
       /\ ExecutionTarget[t] # NoTask =>
            /\ ExecutionTarget[t] \in submitted
            /\ runs[ExecutionTarget[t]] = IF pc[t] = "run" THEN 1 ELSE 0
  /\ \A t, u \in ThreadIds :
       ExecutionTarget[t] # NoTask /\ ExecutionTarget[t] = ExecutionTarget[u] => t = u
  /\ \A x \in Tasks : runs[x] <= 1 /\ (runs[x] = 1 => x \in submitted)
  /\ \A x \in submitted : runs[x] = 0 => \E t \in ThreadIds : ExecutionTarget[t] = x

(* ... and its semaphore is posted only between its choice and its wait.   *)
WakeInv ==
  /\ \A t \in ThreadIds : sem[t] > 0 => Semaphores /\ pc[t] = "suspend" /\ sem[t] = 1
  /\ handing # <<>> => /\ handing[2] \notin m_freeThreads
                       /\ handing[2] <= created
                       /\ pc[handing[2]] # "none"
  /\ handing # <<>> /\ handing[1] = "resume" =>
       /\ pc[handing[2]] \in {"suspend", "suspended"}
       /\ Semaphores => pc[handing[2]] = "suspend"
       /\ sem[handing[2]] = 0
  /\ Semaphores => \A t \in ThreadIds : pc[t] # "suspended"

IInv == TypeOK /\ CreatedInv /\ TargetInv /\ WakeInv /\ FreeThreadsIdle

-----------------------------------------------------------------------------
LEMMA TasksCounted == Cardinality(Tasks) \in Nat
BY FS_CardinalityType, ThreadPoolAssumption

(* There is a thread identifier left whenever a thread is started.         *)
LEMMA SubmittedCounted ==
  ASSUME submitted \subseteq Tasks
  PROVE  /\ Cardinality(submitted) \in Nat
         /\ Cardinality(submitted) <= Cardinality(Tasks)
         /\ \A x \in Tasks \ submitted :
              /\ Cardinality(submitted \cup {x}) = Cardinality(submitted) + 1
              /\ Cardinality(submitted) < Cardinality(Tasks)
<1>1. IsFiniteSet(submitted)
  BY FS_Subset, ThreadPoolAssumption
<1>2. Cardinality(submitted) \in Nat /\ Cardinality(submitted) <= Cardinality(Tasks)
  BY <1>1, FS_Subset, FS_CardinalityType, ThreadPoolAssumption
<1>3. ASSUME NEW x \in Tasks \ submitted
      PROVE  /\ Cardinality(submitted \cup {x}) = Cardinality(submitted) + 1
             /\ Cardinality(submitted) < Cardinality(Tasks)
  <2>1. Cardinality(submitted \cup {x}) = Cardinality(submitted) + 1
    BY <1>1, FS_AddElement
  <2>2. Cardinality(submitted \cup {x}) <= Cardinality(Tasks)
    BY FS_Subset, ThreadPoolAssumption
  <2> QED BY <2>1, <2>2, <1>2, TasksCounted
<1> QED BY <1>2, <1>3

LEMMA InitInv == Init => IInv
<1> SUFFICES ASSUME Init PROVE IInv
  OBVIOUS
<1>1. TypeOK
  BY TasksCounted, ThreadPoolAssumption DEF Init, TypeOK
<1>2. Cardinality(submitted) = 0
  BY FS_EmptySet DEF Init
<1>3. CreatedInv
  BY <1>2, ThreadPoolAssumption DEF Init, CreatedInv, ThreadIds
<1> QED BY <1>1, <1>3 DEF Init, IInv, TargetInv, WakeInv, FreeThreadsIdle

-----------------------------------------------------------------------------
LEMMA StartupInv == ASSUME IInv, UNCHANGED Semaphores, Startup PROVE IInv'
<1> USE ThreadPoolAssumption, TasksCounted DEF IInv
<1> DEFINE t0 == created + 1
<1>1. t0 \in ThreadIds /\ t0 <= ThreadCount + Cardinality(Tasks)
  BY SubmittedCounted DEF Startup, CreatedInv, TypeOK, ThreadIds
<1>2. TypeOK'
  BY <1>1 DEF Startup, StartThread, TypeOK
<1>3. CreatedInv'
  BY <1>1, SubmittedCounted DEF Startup, StartThread, CreatedInv, TypeOK, ThreadIds
<1>4. pc[t0] = "none" /\ ExecutionTarget[t0] = NoTask
  BY <1>1 DEF CreatedInv, TypeOK
<1>5. ExecutionTarget' = ExecutionTarget
  BY <1>1, <1>4 DEF Startup, StartThread, TypeOK
<1>6. TargetInv'
  BY <1>1, <1>4, <1>5 DEF Startup, StartThread, TargetInv, TypeOK
<1>7. WakeInv'
  BY <1>1, <1>4 DEF Startup, StartThread, WakeInv, CreatedInv, TypeOK
<1>8. FreeThreadsIdle'
  BY <1>1, <1>4, <1>5 DEF Startup, StartThread, FreeThreadsIdle, TypeOK
<1> QED BY <1>2, <1>3, <1>6, <1>7, <1>8

LEMMA ExecuteTaskInv ==
  ASSUME IInv, UNCHANGED Semaphores, NEW x \in Tasks, ExecuteTask(x) PROVE IInv'
<1> USE ThreadPoolAssumption, TasksCounted DEF IInv
<1>0. x # NoTask /\ x \notin submitted /\ x \in submitted'
  BY DEF ExecuteTask
<1>a. Cardinality(submitted') = Cardinality(submitted) + 1 /\ Cardinality(submitted) \in Nat
  BY SubmittedCounted DEF ExecuteTask, TypeOK
<1>b. \A t \in ThreadIds : ExecutionTarget[t] # x
  BY <1>0 DEF TargetInv
<1>c. runs[x] = 0
  BY <1>0 DEF TargetInv, TypeOK
<1>1. ASSUME NEW t \in m_freeThreads,
             m_freeThreads' = m_freeThreads \ {t},
             ExecutionTarget' = [ExecutionTarget EXCEPT ![t] = x],
             handing' = <<"resume", t>>, UNCHANGED <<pc, created>>
      PROVE  IInv'
  <2>1. t \in ThreadIds /\ ExecutionTarget[t] = NoTask /\ sem[t] = 0
        /\ pc[t] \in {"suspend", "suspended"}
    BY DEF FreeThreadsIdle, TypeOK
  <2>2. TypeOK'
    BY <1>1, <2>1 DEF ExecuteTask, TypeOK
  <2>3. CreatedInv'
    BY <1>1, <1>a, <2>1 DEF ExecuteTask, CreatedInv, TypeOK, ThreadIds
  <2>4. TargetInv'
    BY <1>1, <2>1, <1>0, <1>b, <1>c DEF ExecuteTask, TargetInv, TypeOK
  <2>5. t <= created
    BY <2>1 DEF CreatedInv, TypeOK, ThreadIds
  <2>6. WakeInv'
    BY <1>1, <2>1, <2>5 DEF ExecuteTask, WakeInv, TypeOK
  <2>7. FreeThreadsIdle'
    BY <1>1, <2>1 DEF ExecuteTask, FreeThreadsIdle, TypeOK
  <2> QED BY <2>2, <2>3, <2>4, <2>6, <2>7
<1>2. ASSUME m_freeThreads = {}, StartThread(x), handing' = <<"insert", created + 1>>,
             UNCHANGED m_freeThreads
      PROVE  IInv'
  <2> DEFINE t0 == created + 1
  <2>1. t0 \in ThreadIds /\ t0 <= ThreadCount + Cardinality(Tasks)
    <3>1. Cardinality(submitted) \in Nat /\ Cardinality(submitted) < Cardinality(Tasks)
      BY SubmittedCounted, <1>0 DEF TypeOK
    <3> QED BY <3>1 DEF CreatedInv, TypeOK, ThreadIds
  <2>2. TypeOK'
    BY <1>2, <2>1 DEF ExecuteTask, StartThread, TypeOK
  <2>3. CreatedInv'
    BY <1>2, <1>a, <2>1 DEF ExecuteTask, StartThread, CreatedInv, TypeOK, ThreadIds
  <2>4. pc[t0] = "none" /\ ExecutionTarget[t0] = NoTask /\ sem[t0] = 0
    BY <2>1 DEF CreatedInv, TypeOK
  <2>5. TargetInv'
    BY <1>2, <2>1, <2>4, <1>0, <1>b, <1>c DEF ExecuteTask, StartThread, TargetInv, TypeOK
  <2>6. WakeInv'
    BY <1>2, <2>1, <2>4 DEF ExecuteTask, StartThread, WakeInv, TypeOK
  <2>7. FreeThreadsIdle'
    BY <1>2 DEF FreeThreadsIdle
  <2> QED BY <2>2, <2>3, <2>5, <2>6, <2>7
<1> QED BY <1>1, <1>2 DEF ExecuteTask

LEMMA ResumeInv == ASSUME IInv, UNCHANGED Semaphores, Resume PROVE IInv'
<1> USE ThreadPoolAssumption DEF IInv
<1> DEFINE t == handing[2]
<1>1. t \in ThreadIds /\ handing' = <<"insert", t>> /\ handing[1] = "resume" /\ handing # <<>>
  BY DEF Resume, TypeOK
<1>2. /\ t \notin m_freeThreads /\ t <= created
      /\ pc[t] \in {"suspend", "suspended"} /\ sem[t] = 0
      /\ Semaphores => pc[t] = "suspend"
  BY <1>1 DEF WakeInv
<1>3. CASE Semaphores
  <2>1. sem' = [sem EXCEPT ![t] = @ + 1] /\ pc' = pc
    BY <1>3 DEF Resume
  <2>2. TypeOK' /\ CreatedInv' /\ TargetInv'
    BY <2>1, <1>1, <1>2 DEF Resume, TypeOK, CreatedInv, TargetInv, ThreadIds
  <2>3. WakeInv'
    BY <2>1, <1>1, <1>2, <1>3 DEF Resume, TypeOK, WakeInv
  <2>4. FreeThreadsIdle'
    BY <2>1, <1>1, <1>2 DEF Resume, TypeOK, FreeThreadsIdle
  <2> QED BY <2>2, <2>3, <2>4
<1>4. CASE ~Semaphores
  <2>1. sem' = sem /\ pc' = [pc EXCEPT ![t] = IF @ = "suspended" THEN "test" ELSE @]
    BY <1>4 DEF Resume
  <2>2. TypeOK'
    BY <2>1, <1>1, <1>2 DEF Resume, TypeOK
  <2>3. CreatedInv' /\ TargetInv'
    BY <2>1, <1>1, <1>2 DEF Resume, TypeOK, CreatedInv, TargetInv, ThreadIds
  <2>4. WakeInv'
    BY <2>1, <1>1, <1>2, <1>4 DEF Resume, TypeOK, WakeInv
  <2>5. FreeThreadsIdle'
    BY <2>1, <1>1, <1>2 DEF Resume, TypeOK, FreeThreadsIdle
  <2> QED BY <2>2, <2>3, <2>4, <2>5
<1> QED BY <1>3, <1>4

LEMMA InsertInv == ASSUME IInv, UNCHANGED Semaphores, Insert PROVE IInv'
<1> USE DEF IInv
<1>1. handing[2] \in ThreadIds /\ handing[2] \notin m_freeThreads
  BY DEF Insert, TypeOK, WakeInv
<1>2. TypeOK'
  BY <1>1 DEF Insert, TypeOK
<1>3. CreatedInv' /\ TargetInv' /\ WakeInv'
  BY DEF Insert, CreatedInv, TargetInv, WakeInv
<1>4. FreeThreadsIdle'
  BY <1>1 DEF Insert, FreeThreadsIdle
<1> QED BY <1>2, <1>3, <1>4

LEMMA EnterRunInv ==
  ASSUME IInv, UNCHANGED Semaphores, NEW t \in ThreadIds, EnterRun(t) PROVE IInv'
<1> USE ThreadPoolAssumption DEF IInv
<1> DEFINE x == ExecutionTarget[t]
<1>1. x \in Tasks /\ x \in submitted /\ runs[x] = 0 /\ x # NoTask /\ pc[t] = "test"
  BY DEF EnterRun, TypeOK, TargetInv
<1>2. TypeOK'
  BY <1>1 DEF EnterRun, TypeOK
<1>3. CreatedInv'
  BY <1>1 DEF EnterRun, TypeOK, CreatedInv
<1>4. TargetInv'
  BY <1>1 DEF EnterRun, TypeOK, TargetInv
<1>5. WakeInv' /\ FreeThreadsIdle'
  BY <1>1 DEF EnterRun, TypeOK, WakeInv, FreeThreadsIdle
<1> QED BY <1>2, <1>3, <1>4, <1>5

LEMMA NothingToRunInv ==
  ASSUME IInv, UNCHANGED Semaphores, NEW t \in ThreadIds, NothingToRun(t) PROVE IInv'
<1> USE ThreadPoolAssumption DEF IInv
<1>1. TypeOK' /\ CreatedInv'
  BY DEF NothingToRun, TypeOK, CreatedInv
<1>2. TargetInv'
  BY DEF NothingToRun, TypeOK, TargetInv
<1>3. WakeInv' /\ FreeThreadsIdle'
  BY DEF NothingToRun, TypeOK, WakeInv, FreeThreadsIdle
<1> QED BY <1>1, <1>2, <1>3

LEMMA LeaveRunInv ==
  ASSUME IInv, UNCHANGED Semaphores, NEW t \in ThreadIds, LeaveRun(t) PROVE IInv'
<1> USE ThreadPoolAssumption DEF IInv
<1>1. TypeOK' /\ CreatedInv'
  BY DEF LeaveRun, TypeOK, CreatedInv
<1>2. ExecutionTarget[t] # NoTask => runs[ExecutionTarget[t]] = 1
  BY DEF LeaveRun, TargetInv
<1>3. TargetInv'
  BY <1>2 DEF LeaveRun, TypeOK, TargetInv
<1>4. WakeInv' /\ FreeThreadsIdle'
  BY DEF LeaveRun, TypeOK, WakeInv, FreeThreadsIdle
<1> QED BY <1>1, <1>3, <1>4

LEMMA ThreadExitInv ==
  ASSUME IInv, UNCHANGED Semaphores, NEW t \in ThreadIds, ThreadExit(t) PROVE IInv'
<1> USE ThreadPoolAssumption DEF IInv
<1>1. sem[t] = 0 /\ ExecutionTarget[t] = NoTask /\ t <= created
  BY DEF ThreadExit, WakeInv, TargetInv, CreatedInv, TypeOK, ThreadIds
<1>2. TypeOK' /\ CreatedInv'
  BY <1>1 DEF ThreadExit, TypeOK, CreatedInv, ThreadIds
<1>3. TargetInv' /\ WakeInv'
  BY <1>1 DEF ThreadExit, TypeOK, TargetInv, WakeInv
<1>4. FreeThreadsIdle'
  BY <1>1 DEF ThreadExit, TypeOK, FreeThreadsIdle
<1> QED BY <1>2, <1>3, <1>4

(* The thread that chooses itself out of its wait was taken from the free  *)
(* set by the ExecuteTask that posted its semaphore.                       *)
LEMMA SuspendInv ==
  ASSUME IInv, UNCHANGED Semaphores, NEW t \in ThreadIds, Suspend(t) PROVE IInv'
<1> USE ThreadPoolAssumption DEF IInv
<1>1. CASE Semaphores
  <2>1. sem[t] = 1 /\ pc' = [pc EXCEPT ![t] = "test"] /\ sem' = [sem EXCEPT ![t] = @ - 1]
    BY <1>1 DEF Suspend, WakeInv, TypeOK
  <2>2. TypeOK' /\ CreatedInv'
    BY <2>1 DEF Suspend, TypeOK, CreatedInv
  <2>3. TargetInv'
    BY <2>1 DEF Suspend, TypeOK, TargetInv
  <2>4. t \notin m_freeThreads /\ ~(handing # <<>> /\ handing[1] = "resume" /\ handing[2] = t)
    BY <2>1 DEF FreeThreadsIdle, WakeInv
  <2>5. WakeInv'
    BY <2>1, <2>4, <1>1 DEF Suspend, TypeOK, WakeInv
  <2>6. FreeThreadsIdle'
    BY <2>1, <2>4 DEF Suspend, TypeOK, FreeThreadsIdle
  <2> QED BY <2>2, <2>3, <2>5, <2>6
<1>2. CASE ~Semaphores
  <2>1. sem' = sem /\ pc' = [pc EXCEPT ![t] = "suspended"] /\ pc[t] = "suspend"
    BY <1>2 DEF Suspend
  <2>2. TypeOK' /\ CreatedInv' /\ TargetInv'
    BY <2>1 DEF Suspend, TypeOK, CreatedInv, TargetInv
  <2>3. WakeInv'
    <3>1. \A u \in ThreadIds : sem'[u] = 0
      BY <2>1, <1>2 DEF Suspend, TypeOK, WakeInv
    <3>2. handing # <<>> => handing[2] \in ThreadIds
      BY DEF TypeOK
    <3> QED BY <2>1, <1>2, <3>1, <3>2 DEF Suspend, TypeOK, WakeInv
  <2>4. FreeThreadsIdle'
    BY <2>1 DEF Suspend, TypeOK, FreeThreadsIdle
  <2> QED BY <2>2, <2>3, <2>4
<1> QED BY <1>1, <1>2

-----------------------------------------------------------------------------
LEMMA NextInv == IInv /\ [Next]_vars => IInv'
<1> SUFFICES ASSUME IInv, [Next]_vars PROVE IInv'
  OBVIOUS
<1>1. CASE UNCHANGED vars
  BY <1>1 DEF vars, IInv, TypeOK, CreatedInv, TargetInv, WakeInv, FreeThreadsIdle
<1>2. CASE Next
  <2>1. UNCHANGED Semaphores
    BY <1>2 DEF Next
  <2>2. CASE Startup
    BY <2>1, <2>2, StartupInv
  <2>3. CASE Resume
    BY <2>1, <2>3, ResumeInv
  <2>4. CASE Insert
    BY <2>1, <2>4, InsertInv
  <2>5. ASSUME NEW x \in Tasks, ExecuteTask(x) PROVE IInv'
    BY <2>1, <2>5, ExecuteTaskInv
  <2>6. ASSUME NEW t \in ThreadIds, ThreadStep(t) PROVE IInv'
    BY <2>1, <2>6, EnterRunInv, NothingToRunInv, ThreadExitInv, SuspendInv DEF ThreadStep
  <2>7. ASSUME NEW t \in ThreadIds, LeaveRun(t) PROVE IInv'
    BY <2>1, <2>7, LeaveRunInv
  <2> QED BY <1>2, <2>2, <2>3, <2>4, <2>5, <2>6, <2>7 DEF Next
<1> QED BY <1>1, <1>2

LEMMA Invariance == Spec => []IInv
<1> QED BY InitInv, NextInv, PTL DEF Spec

(* The variables keep their types, however many tasks and threads.         *)
THEOREM TypeCorrect == Spec => []TypeOK
<1>1. IInv => TypeOK
  BY DEF IInv
<1> QED BY <1>1, Invariance, PTL

(* ExecuteTask never gives a task to two threads, nor a thread two tasks,  *)
(* and a thread never runs one twice (ThreadPool.cpp ExecuteTask against   *)
(* ThreadExit and Suspend).                                                *)
THEOREM TasksRunOnce == Spec => []TaskOnce
<1>1. IInv => TaskOnce
  <2> SUFFICES ASSUME IInv PROVE TaskOnce
    OBVIOUS
  <2>1. \A x \in Tasks : runs[x] <= 1
    BY DEF IInv, TargetInv
  <2>2. ASSUME NEW x \in submitted, runs[x] = 0
        PROVE  \E t \in ThreadIds \ m_freeThreads : Holders(x) = {t}
    <3>1. PICK t \in ThreadIds : ExecutionTarget[t] = x
      BY <2>2 DEF IInv, TargetInv
    <3>2. x # NoTask
      BY ThreadPoolAssumption DEF IInv, TypeOK
    <3>3. Holders(x) = {t}
      BY <3>1, <3>2 DEF Holders, IInv, TargetInv
    <3> QED BY <3>1, <3>2, <3>3 DEF IInv, FreeThreadsIdle
  <2> QED BY <2>1, <2>2 DEF TaskOnce
<1> QED BY <1>1, Invariance, PTL

(* A free thread is idle: what is chosen for a task has none, and no left- *)
(* over post would let it through its next wait.                           *)
THEOREM FreeThreadsAreIdle == Spec => []FreeThreadsIdle
<1>1. IInv => FreeThreadsIdle
  BY DEF IInv
<1> QED BY <1>1, Invariance, PTL
=============================================================================
