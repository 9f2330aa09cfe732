------------------------- MODULE TaskManagerProofs -------------------------
(***************************************************************************)
(* What TLAPS proves of TaskManager, for any number of tasks and executors *)
(* and any delays.                                                         *)
(***************************************************************************)
EXTENDS TaskManager, SeqLemmas, TLAPS

USE DEF queueCondVars, taskCondVars, schedVars, execVars, queueVars

\* What addTask does to the variables it may change.
LEMMA AddTaskType ==
    ASSUME TypeOK, NEW t \in Tasks, NEW d \in 0..MaxDelay, addTask(t, d)
    PROVE  /\ taskQueue' \in Seq(Tasks)
           /\ remaining' \in [Tasks -> -1..MaxDelay]
           /\ obj' \in [Tasks -> {"free", "live", "aborted"}]
           /\ queueWaiters' \subseteq {Scheduler} /\ queueUnblock' \in BOOLEAN
<1> USE ConstantsAssumption DEF TypeOK
<1>1. CASE bRunning /\ ~IsExistTask(t)
    <2>1. PICK i \in 1..(Len(taskQueue) + 1) : taskQueue' = InsertAt(taskQueue, i, t)
        BY <1>1 DEF addTask
    <2>2. taskQueue' \in Seq(Tasks)
        BY <2>1, InsertAtType
    <2>3. /\ remaining' = [remaining EXCEPT ![t] = d]
          /\ obj' = [obj EXCEPT ![t] = IF @ = "free" THEN "live" ELSE @]
          /\ queueCond!SetEvent
        BY <1>1 DEF addTask
    <2> QED BY <2>2, <2>3 DEF queueCond!SetEvent
<1>2. CASE bRunning /\ IsExistTask(t)
    BY <1>2 DEF addTask
<1>3. CASE ~bRunning
    BY <1>3 DEF addTask
<1> QED BY <1>1, <1>2, <1>3

\* Every variable keeps its type.
THEOREM TypeCorrect == Spec => []TypeOK
<1>1. Init => TypeOK
    <2> SUFFICES ASSUME Init PROVE TypeOK
        OBVIOUS
    <2> USE DEF Init
    <2>1. taskQueue \in Seq(Tasks)
        BY EmptySeq
    <2>2. remaining \in [Tasks -> -1..MaxDelay] /\ timeout \in 0..MaxDelay
        BY ConstantsAssumption
    <2>3. sched \in SchedLabels /\ exec \in [Executors -> ExecLabels] /\ stopper \in StopLabels
        BY DEF SchedLabels, ExecLabels, StopLabels
    <2> QED BY <2>1, <2>2, <2>3 DEF TypeOK, queueCond!Init, taskCond!Init
<1>2. TypeOK /\ [Next]_vars => TypeOK'
    <2> SUFFICES ASSUME TypeOK, [Next]_vars PROVE TypeOK'
        OBVIOUS
    <2> USE ConstantsAssumption DEF TypeOK, SchedLabels, ExecLabels, StopLabels
    <2>1. CASE Schedule
        <3>1. CASE SchedLoop \/ CountTasks \/ PickAgain
            BY <3>1 DEF SchedLoop, CountTasks, PickAgain
        <3>2. CASE CheckCurTask \/ HandOver
            BY <3>2 DEF CheckCurTask, HandOver, taskCond!SetEvent
        <3>3. CASE WaitForTask \/ TimedWait
            BY <3>3 DEF WaitForTask, TimedWait, queueCond!BeginWait
        <3>4. CASE WaitForTaskReturns \/ TimedWaitTimesOut \/ TimedWaitReturns
            BY <3>4 DEF WaitForTaskReturns, TimedWaitTimesOut, TimedWaitReturns,
               queueCond!Wake
        <3>5. CASE PickTask
            <4>1. CASE taskQueue = <<>>
                BY <3>5, <4>1 DEF PickTask
            <4>2. CASE taskQueue # <<>>
                <5>1. tsk' \in Tasks
                    BY <3>5, <4>2, HeadTailProperties DEF PickTask
                <5>2. taskQueue' \in Seq(Tasks)
                    <6>1. Tail(taskQueue) \in Seq(Tasks)
                        BY <4>2, HeadTailProperties
                    <6>2. taskQueue' = Tail(taskQueue) \/ taskQueue' = taskQueue
                        BY <3>5, <4>2 DEF PickTask
                    <6> QED BY <6>1, <6>2
                <5>3. timeout' \in 0..MaxDelay
                    <6>1. remaining[tsk'] \in -1..MaxDelay
                        BY <5>1
                    <6> QED BY <3>5, <4>2, <6>1 DEF PickTask, IsDue, TimeLeft
                <5>4. sched' \in SchedLabels
                    BY <3>5, <4>2 DEF PickTask
                <5>5. UNCHANGED <<bRunning, curTask, remaining, obj, exec, work, stopper,
                                  queueWaiters, queueUnblock, taskWaiters, taskUnblock>>
                    BY <3>5, <4>2 DEF PickTask
                <5> QED BY <5>1, <5>2, <5>3, <5>4, <5>5
            <4> QED BY <4>1, <4>2
        <3> QED BY <2>1, <3>1, <3>2, <3>3, <3>4, <3>5 DEF Schedule
    <2>2. ASSUME NEW e \in Executors, Execute(e) PROVE TypeOK'
        <3>1. CASE ExecLoop(e)
            BY <3>1 DEF ExecLoop
        <3>4. CASE TakeTask(e)
            BY <3>4 DEF TakeTask
        <3>5. CASE WaitForWorkReturns(e)
            BY <3>5 DEF WaitForWorkReturns
        <3>6. CASE RunTask(e)
            BY <3>6 DEF RunTask
        <3>2. CASE WaitForWork(e)
            BY <3>2 DEF WaitForWork, taskCond!BeginWait
        <3>3. CASE FinishTask(e)
            <4>1. CASE isRepeat(work[e])
                <5>1. work[e] \in Tasks
                    BY <4>1 DEF isRepeat
                <5>2. PICK d \in 0..Interval : addTask(work[e], d)
                    BY <3>3, <4>1 DEF FinishTask
                <5>3. /\ taskQueue' \in Seq(Tasks)
                      /\ remaining' \in [Tasks -> -1..MaxDelay]
                      /\ obj' \in [Tasks -> {"free", "live", "aborted"}]
                      /\ queueWaiters' \subseteq {Scheduler} /\ queueUnblock' \in BOOLEAN
                    BY <5>1, <5>2, AddTaskType
                <5> QED BY <3>3, <5>3, SMTT(30) DEF FinishTask
            <4>2. CASE ~isRepeat(work[e])
                BY <3>3, <4>2 DEF FinishTask
            <4> QED BY <4>1, <4>2
        <3> QED BY <2>2, <3>1, <3>2, <3>3, <3>4, <3>5, <3>6 DEF Execute
    <2>3. CASE Stop \/ StopSteps
        BY <2>3 DEF Stop, StopSteps, StopUnblockQueue, StopUnblockTask, StopJoined,
           queueCond!UnblockAll, taskCond!UnblockAll
    <2>4. ASSUME NEW t \in Tasks, DeleteTask(t) PROVE TypeOK'
        BY <2>4, RemoveAtType, LenProperties DEF DeleteTask
    <2>5. ASSUME NEW t \in Tasks, Abort(t) PROVE TypeOK'
        BY <2>5 DEF Abort
    <2>6. ASSUME NEW t \in Tasks, NEW d \in 0..MaxDelay, AddTask(t, d) PROVE TypeOK'
        BY <2>6, AddTaskType DEF AddTask
    <2>7. CASE Tick
        BY <2>7 DEF Tick
    <2>8. CASE SpuriousWake
        BY <2>8 DEF SpuriousWake, queueCond!Wake, taskCond!Wake
    <2>9. CASE UNCHANGED vars
        BY <2>9 DEF vars
    <2> QED BY <2>1, <2>2, <2>3, <2>4, <2>5, <2>6, <2>7, <2>8, <2>9 DEF Next, Callers
<1> QED BY <1>1, <1>2, PTL DEF Spec
-----------------------------------------------------------------------------
\* Between its look at m_curTask and the hand-over nobody fills m_curTask again, and
\* an executor that looks for work holds none.
HandInv ==
    /\ sched \in {"count", "toWait", "waiting", "pick", "toTimedWait", "timedWaiting",
                  "again", "hand"} => curTask = None
    /\ \A e \in Executors : exec[e] \in {"loop", "take"} => work[e] = None
    /\ \A e \in Executors : exec[e] \in {"toWait", "waiting"} => work[e] = None

\* schedule() is the only writer of a task into m_curTask, and the executors only empty it.
LEMMA HandInvInductive == TypeOK /\ HandInv /\ [Next]_vars => HandInv'
<1> SUFFICES ASSUME TypeOK, HandInv, [Next]_vars PROVE HandInv'
    OBVIOUS
<1> USE DEF HandInv
<1>1. CASE Schedule
    <2>1. CASE SchedLoop \/ CheckCurTask
        BY <2>1 DEF SchedLoop, CheckCurTask
    <2>2. CASE CountTasks \/ WaitForTask \/ WaitForTaskReturns
        BY <2>2 DEF CountTasks, WaitForTask, WaitForTaskReturns
    <2>3. CASE PickTask
        <3>1. curTask' = None
            BY <2>3 DEF PickTask
        <3>2. \/ exec' = exec /\ work' = work
              \/ exec' = [e \in Executors |-> "exit"]
            BY <2>3 DEF PickTask
        <3> QED BY <3>1, <3>2
    <2>4. CASE TimedWait \/ TimedWaitTimesOut \/ TimedWaitReturns \/ PickAgain
        BY <2>4 DEF TimedWait, TimedWaitTimesOut, TimedWaitReturns, PickAgain
    <2>5. CASE HandOver
        BY <2>5 DEF HandOver
    <2> QED BY <1>1, <2>1, <2>2, <2>3, <2>4, <2>5 DEF Schedule
<1>2. ASSUME NEW e \in Executors, Execute(e) PROVE HandInv'
    <2> USE DEF TypeOK
    <2>1. CASE ExecLoop(e)
        BY <2>1 DEF ExecLoop
    <2>2. CASE TakeTask(e)
        BY <2>2 DEF TakeTask
    <2>3. CASE WaitForWork(e)
        BY <2>3 DEF WaitForWork
    <2>4. CASE WaitForWorkReturns(e)
        BY <2>4 DEF WaitForWorkReturns
    <2>5. CASE RunTask(e)
        BY <2>5 DEF RunTask
    <2>6. CASE FinishTask(e)
        BY <2>6 DEF FinishTask
    <2> QED BY <1>2, <2>1, <2>2, <2>3, <2>4, <2>5, <2>6 DEF Execute
<1>3. CASE Stop \/ StopSteps
    BY <1>3 DEF Stop, StopSteps, StopUnblockQueue, StopUnblockTask, StopJoined
<1>4. CASE Callers
    BY <1>4 DEF Callers, DeleteTask, Abort, AddTask
<1>5. CASE Tick \/ SpuriousWake
    BY <1>5 DEF Tick, SpuriousWake
<1>6. CASE UNCHANGED vars
    BY <1>6 DEF vars
<1> QED BY <1>1, <1>2, <1>3, <1>4, <1>5, <1>6 DEF Next

\* A step that changes a full m_curTask gives the task to one executor that had none:
\* no task is overwritten by a second hand-over or taken by two executors.
THEOREM HandedOverOnceHolds == Spec => HandedOverOnce
<1> DEFINE Handed == curTask # None /\ curTask' # curTask =>
                        /\ curTask' = None
                        /\ \E e \in Executors : work[e] = None /\ work'[e] = curTask
<1>1. Init => HandInv
    BY DEF Init, HandInv
<1>2. TypeOK /\ HandInv /\ [Next]_vars => [Handed]_vars
    <2> SUFFICES ASSUME TypeOK, HandInv, Next, curTask # None, curTask' # curTask
                 PROVE  curTask' = None /\ \E e \in Executors : work[e] = None /\ work'[e] = curTask
        OBVIOUS
    <2>1. ~Schedule
        BY DEF Schedule, SchedLoop, CheckCurTask, CountTasks, WaitForTask,
           WaitForTaskReturns, PickTask, TimedWait, TimedWaitTimesOut, TimedWaitReturns,
           PickAgain, HandOver, HandInv
    <2>2. ~(Stop \/ StopSteps \/ Callers \/ Tick \/ SpuriousWake)
        BY DEF Stop, StopSteps, StopUnblockQueue, StopUnblockTask, StopJoined, Callers,
           DeleteTask, Abort, AddTask, Tick, SpuriousWake
    <2>3. PICK e \in Executors : Execute(e)
        BY <2>1, <2>2 DEF Next
    <2>4. TakeTask(e)
        BY <2>3 DEF Execute, ExecLoop, WaitForWork, WaitForWorkReturns, RunTask, FinishTask
    <2>5. work[e] = None /\ work'[e] = curTask /\ curTask' = None
        BY <2>4 DEF TakeTask, HandInv, TypeOK
    <2> QED BY <2>5
<1> QED BY <1>1, <1>2, HandInvInductive, TypeCorrect, PTL DEF Spec, HandedOverOnce
-----------------------------------------------------------------------------
\* A sequence with an element inserted is not empty.
LEMMA InsertAtNonEmpty ==
    ASSUME NEW S, NEW s \in Seq(S), NEW i \in 1..(Len(s) + 1), NEW e \in S
    PROVE  InsertAt(s, i, e) # <<>>
<1>1. SubSeq(s, 1, i-1) \in Seq(S) /\ SubSeq(s, i, Len(s)) \in Seq(S)
    <2>1. Len(s) \in Int /\ \A j \in 1..Len(s) : s[j] \in S
        BY ElementOfSeq, LenProperties
    <2>2. \A j \in 1..(i-1) : s[j] \in S
        BY <2>1
    <2>3. \A j \in i..Len(s) : s[j] \in S
        BY <2>1
    <2> QED BY <2>1, <2>2, <2>3, SubSeqProperties
<1>2. <<e>> \in Seq(S) /\ <<e>> # <<>>
    OBVIOUS
<1>3. SubSeq(s, 1, i-1) \o <<e>> \in Seq(S) /\ SubSeq(s, 1, i-1) \o <<e>> # <<>>
    BY <1>1, <1>2, ConcatProperties, ConcatEqualIffEmpty
<1> QED BY <1>1, <1>3, ConcatEqualIffEmpty DEF InsertAt

\* Where schedule() relies on the queue not being empty, and what a wake-up tells it.
FrontInv ==
    /\ sched \in {"pick", "toTimedWait", "timedWaiting", "again"} => taskQueue # <<>>
    /\ sched = "waiting" /\ queueCond!Woken(Scheduler) =>
        taskQueue # <<>> \/ queueCond!ForcedExit
    /\ sched # "crashed"

\* Only schedule() takes tasks out of the queue, and only addTask and unblockAll wake it.
LEMMA FrontInvInductive ==
    ASSUME ~Spurious, ~Deletes
    PROVE  TypeOK /\ FrontInv /\ [Next]_vars => FrontInv'
<1> SUFFICES ASSUME TypeOK, FrontInv, [Next]_vars PROVE FrontInv'
    OBVIOUS
<1> USE DEF FrontInv, queueCond!Woken, queueCond!ForcedExit
<1>0. ASSUME NEW t \in Tasks, NEW d \in 0..MaxDelay, addTask(t, d)
      PROVE  /\ taskQueue' # <<>> \/ taskQueue' = taskQueue
             /\ taskQueue' = <<>> => queueWaiters' = queueWaiters
             /\ queueUnblock' = queueUnblock
    <2>1. CASE bRunning /\ ~IsExistTask(t)
        <3>1. PICK i \in 1..(Len(taskQueue) + 1) : taskQueue' = InsertAt(taskQueue, i, t)
            BY <1>0, <2>1 DEF addTask
        <3>2. taskQueue' # <<>>
            BY <3>1, InsertAtNonEmpty DEF TypeOK
        <3>3. queueUnblock' = queueUnblock
            BY <1>0, <2>1 DEF addTask, queueCond!SetEvent
        <3> QED BY <3>2, <3>3
    <2>2. CASE ~(bRunning /\ ~IsExistTask(t))
        BY <1>0, <2>2 DEF addTask
    <2> QED BY <2>1, <2>2
<1>1. CASE Schedule
    <2>1. CASE SchedLoop \/ CheckCurTask \/ HandOver
        BY <2>1 DEF SchedLoop, CheckCurTask, HandOver
    <2>2. CASE CountTasks
        BY <2>2 DEF CountTasks
    <2>3. CASE WaitForTask
        BY <2>3 DEF WaitForTask, queueCond!BeginWait
    <2>4. CASE WaitForTaskReturns
        BY <2>4 DEF WaitForTaskReturns
    <2>5. CASE PickTask
        <3>1. taskQueue # <<>>
            BY <2>5 DEF PickTask
        <3>2. sched' = "hand" \/ (sched' = "toTimedWait" /\ taskQueue' = taskQueue)
            BY <2>5, <3>1 DEF PickTask
        <3> QED BY <3>1, <3>2
    <2>6. CASE TimedWait \/ TimedWaitTimesOut \/ TimedWaitReturns \/ PickAgain
        BY <2>6 DEF TimedWait, TimedWaitTimesOut, TimedWaitReturns, PickAgain
    <2> QED BY <1>1, <2>1, <2>2, <2>3, <2>4, <2>5, <2>6 DEF Schedule
<1>2. ASSUME NEW e \in Executors, Execute(e) PROVE FrontInv'
    <2>1. CASE FinishTask(e) /\ isRepeat(work[e])
        <3>1. work[e] \in Tasks /\ \E d \in 0..MaxDelay : addTask(work[e], d)
            BY <2>1, ConstantsAssumption DEF FinishTask, isRepeat
        <3>2. sched' = sched
            BY <2>1 DEF FinishTask
        <3> QED BY <1>0, <3>1, <3>2
    <2>2. CASE ~(FinishTask(e) /\ isRepeat(work[e]))
        BY <1>2, <2>2 DEF Execute, ExecLoop, TakeTask, WaitForWork, WaitForWorkReturns,
           RunTask, FinishTask
    <2> QED BY <2>1, <2>2
<1>3. CASE Stop \/ StopSteps
    BY <1>3 DEF Stop, StopSteps, StopUnblockQueue, StopUnblockTask, StopJoined,
       queueCond!UnblockAll
<1>4. CASE Callers
    <2>1. ASSUME NEW t \in Tasks, NEW d \in 0..MaxDelay, AddTask(t, d) PROVE FrontInv'
        <3>1. addTask(t, d) /\ sched' = sched
            BY <2>1 DEF AddTask
        <3> QED BY <1>0, <3>1
    <2> QED BY <1>4, <2>1 DEF Callers, DeleteTask, Abort
<1>5. CASE Tick
    BY <1>5 DEF Tick
<1>6. CASE UNCHANGED vars
    BY <1>6 DEF vars
<1> QED BY <1>1, <1>2, <1>3, <1>4, <1>5, <1>6 DEF Next, SpuriousWake

\* Where pthread_cond_wait never returns without an event and deleteTask is not called (no
\* code of the daemon calls it), front() is never called on an empty queue.
THEOREM FrontExistsHolds ==
    ASSUME ~Spurious, ~Deletes
    PROVE  Spec => []FrontExists
<1>1. Init => FrontInv
    BY DEF Init, FrontInv
<1>2. FrontInv => FrontExists
    BY DEF FrontInv, FrontExists
<1> QED BY <1>1, <1>2, FrontInvInductive, TypeCorrect, PTL DEF Spec
-----------------------------------------------------------------------------
(* The queue: its order and its elements. *)

\* The tasks of m_taskQueue are in the order of their start times.
Sorted == \A i, j \in DOMAIN taskQueue :
    i < j => remaining[taskQueue[i]] <= remaining[taskQueue[j]]

\* The queue with element i taken out.
Without(i) ==
    /\ DOMAIN taskQueue' = 1..(Len(taskQueue) - 1)
    /\ \A j \in 1..(Len(taskQueue) - 1) :
          taskQueue'[j] = IF j < i THEN taskQueue[j] ELSE taskQueue[j + 1]

LEMMA QueueDomain ==
    ASSUME TypeOK
    PROVE  /\ DOMAIN taskQueue = 1..Len(taskQueue) /\ Len(taskQueue) \in Nat
           /\ \A i \in DOMAIN taskQueue : taskQueue[i] \in Tasks
           /\ \A t : Queued(t) <=> \E i \in DOMAIN taskQueue : taskQueue[i] = t
<1>1. DOMAIN taskQueue = 1..Len(taskQueue) /\ Len(taskQueue) \in Nat
    BY LenProperties DEF TypeOK
<1>2. \A i \in DOMAIN taskQueue : taskQueue[i] \in Tasks
    BY <1>1, ElementOfSeq DEF TypeOK
<1> QED BY <1>1, <1>2 DEF Queued, Contains

LEMMA TakenOut ==
    ASSUME TypeOK, taskQueue' \in Seq(Tasks), NEW i \in DOMAIN taskQueue, Without(i)
    PROVE  /\ remaining' = remaining /\ Sorted => Sorted'
           /\ IsInjective(taskQueue) => IsInjective(taskQueue)'
           /\ IsInjective(taskQueue) =>
                 \A t \in Tasks : Queued(t)' <=> Queued(t) /\ t # taskQueue[i]
<1> DEFINE old(j) == IF j < i THEN j ELSE j + 1
<1>0. /\ DOMAIN taskQueue = 1..Len(taskQueue) /\ Len(taskQueue) \in Nat
      /\ DOMAIN taskQueue' = 1..(Len(taskQueue) - 1)
      /\ DOMAIN taskQueue' = 1..Len(taskQueue')
    <2>1. DOMAIN taskQueue = 1..Len(taskQueue) /\ Len(taskQueue) \in Nat
        BY QueueDomain
    <2>2. DOMAIN taskQueue' = 1..(Len(taskQueue) - 1)
        BY DEF Without
    <2>3. DOMAIN taskQueue' = 1..Len(taskQueue')
        BY LenProperties
    <2> QED BY <2>1, <2>2, <2>3
<1>1. ASSUME NEW j \in DOMAIN taskQueue'
      PROVE  old(j) \in DOMAIN taskQueue /\ old(j) # i /\ taskQueue'[j] = taskQueue[old(j)]
    BY <1>0 DEF Without
<1>2. ASSUME NEW j \in DOMAIN taskQueue', NEW k \in DOMAIN taskQueue', j < k
      PROVE  old(j) < old(k)
    BY <1>0, <1>2
<1>3. ASSUME NEW k \in DOMAIN taskQueue, k # i
      PROVE  \E j \in DOMAIN taskQueue' : old(j) = k
    <2>1. CASE k < i
        BY <1>0, <1>3, <2>1
    <2>2. CASE k > i
        <3>1. k - 1 \in DOMAIN taskQueue' /\ old(k - 1) = k
            BY <1>0, <2>2
        <3> QED BY <3>1
    <2> QED BY <1>0, <1>3, <2>1, <2>2
<1>4. \A j, k \in DOMAIN taskQueue' : j # k => j < k \/ k < j
    BY <1>0
<1>5. \A j \in DOMAIN taskQueue : ~(j < j)
    BY <1>0
<1> HIDE DEF old
<1>6. ASSUME IsInjective(taskQueue) PROVE IsInjective(taskQueue)'
    <2> SUFFICES ASSUME NEW j \in DOMAIN taskQueue', NEW k \in DOMAIN taskQueue',
                        taskQueue'[j] = taskQueue'[k], j # k
                 PROVE  FALSE
        BY DEF IsInjective
    <2>1. old(j) = old(k)
        BY <1>1, <1>6 DEF IsInjective
    <2> QED BY <1>1, <1>2, <1>4, <1>5, <2>1
<1>7. ASSUME remaining' = remaining, Sorted PROVE Sorted'
    BY <1>1, <1>2, <1>7 DEF Sorted
<1>8. ASSUME IsInjective(taskQueue), NEW t \in Tasks
      PROVE  Queued(t)' <=> Queued(t) /\ t # taskQueue[i]
    <2>1. Queued(t) <=> \E j \in DOMAIN taskQueue : taskQueue[j] = t
        BY QueueDomain
    <2>2. Queued(t)' <=> \E j \in DOMAIN taskQueue' : taskQueue'[j] = t
        BY <1>0 DEF Queued, Contains
    <2>3. Queued(t)' => Queued(t) /\ t # taskQueue[i]
        BY <1>1, <1>8, <2>1, <2>2 DEF IsInjective
    <2>4. Queued(t) /\ t # taskQueue[i] => Queued(t)'
        BY <1>1, <1>3, <2>1, <2>2
    <2> QED BY <2>3, <2>4
<1> QED BY <1>6, <1>7, <1>8

\* schedule() takes the front, deleteTask any element.
LEMMA WithoutFront ==
    ASSUME TypeOK, taskQueue # <<>>, taskQueue' = Tail(taskQueue)
    PROVE  /\ 1 \in DOMAIN taskQueue /\ Head(taskQueue) = taskQueue[1]
           /\ Without(1) /\ taskQueue' \in Seq(Tasks)
<1>1. /\ Tail(taskQueue) \in Seq(Tasks) /\ Len(Tail(taskQueue)) = Len(taskQueue) - 1
      /\ \A j \in 1..Len(Tail(taskQueue)) : Tail(taskQueue)[j] = taskQueue[j + 1]
    BY HeadTailProperties DEF TypeOK
<1>2. Len(taskQueue) \in Nat /\ Len(taskQueue) # 0 /\ DOMAIN taskQueue = 1..Len(taskQueue)
    BY QueueDomain, EmptySeq DEF TypeOK
<1>3. DOMAIN Tail(taskQueue) = 1..(Len(taskQueue) - 1)
    BY <1>1, LenProperties
<1>4. Head(taskQueue) = taskQueue[1]
    BY DEF TypeOK
<1> QED BY <1>1, <1>2, <1>3, <1>4 DEF Without

LEMMA WithoutOne ==
    ASSUME TypeOK, NEW i \in DOMAIN taskQueue, taskQueue' = RemoveAt(taskQueue, i)
    PROVE  Without(i) /\ taskQueue' \in Seq(Tasks)
<1>1. i \in 1..Len(taskQueue)
    BY QueueDomain
<1>2. taskQueue' \in Seq(Tasks)
    BY <1>1, RemoveAtType DEF TypeOK
<1>3. /\ Len(RemoveAt(taskQueue, i)) = Len(taskQueue) - 1
      /\ \A j \in 1..(Len(taskQueue) - 1) :
            RemoveAt(taskQueue, i)[j] = IF j < i THEN taskQueue[j] ELSE taskQueue[j + 1]
    BY <1>1, RemoveAtIs DEF TypeOK
<1>4. DOMAIN taskQueue' = 1..Len(taskQueue')
    BY <1>2, LenProperties
<1> QED BY <1>2, <1>3, <1>4 DEF Without

\* addTask of a task that is not queued.
LEMMA PutIn ==
    ASSUME TypeOK, NEW t \in Tasks, NEW d \in 0..MaxDelay, addTask(t, d), bRunning, ~Queued(t)
    PROVE  /\ Sorted => Sorted'
           /\ IsInjective(taskQueue) => IsInjective(taskQueue)'
           /\ \A u \in Tasks : Queued(u)' <=> Queued(u) \/ u = t
           /\ obj' = [obj EXCEPT ![t] = IF @ = "free" THEN "live" ELSE @]
           /\ \A u \in Tasks : u # t => remaining'[u] = remaining[u]
<1>0. /\ DOMAIN taskQueue = 1..Len(taskQueue) /\ Len(taskQueue) \in Nat
      /\ \A i \in DOMAIN taskQueue : taskQueue[i] \in Tasks
      /\ \A u : Queued(u) <=> \E i \in DOMAIN taskQueue : taskQueue[i] = u
    BY QueueDomain
<1>1. PICK i \in 1..(Len(taskQueue) + 1) :
          InsertHere(i, d) /\ taskQueue' = InsertAt(taskQueue, i, t)
    BY DEF addTask, IsExistTask
<1>2. /\ remaining' = [remaining EXCEPT ![t] = d]
      /\ obj' = [obj EXCEPT ![t] = IF @ = "free" THEN "live" ELSE @]
    BY DEF addTask, IsExistTask
<1>3. taskQueue' \in Seq(Tasks) /\ Len(taskQueue') = Len(taskQueue) + 1
    BY <1>1, InsertAtType, InsertAtIs DEF TypeOK
<1>4. /\ DOMAIN taskQueue' = 1..(Len(taskQueue) + 1)
      /\ \A j \in DOMAIN taskQueue' :
            taskQueue'[j] = IF j < i THEN taskQueue[j] ELSE IF j = i THEN t ELSE taskQueue[j - 1]
    <2>1. DOMAIN taskQueue' = 1..(Len(taskQueue) + 1)
        BY <1>3, LenProperties
    <2>2. \A j \in 1..(Len(taskQueue) + 1) : InsertAt(taskQueue, i, t)[j] =
              IF j < i THEN taskQueue[j] ELSE IF j = i THEN t ELSE taskQueue[j - 1]
        BY InsertAtIs DEF TypeOK
    <2> QED BY <1>1, <2>1, <2>2
<1>5. remaining'[t] = d /\ \A u \in Tasks : u # t => remaining'[u] = remaining[u]
    BY <1>2 DEF TypeOK
<1> DEFINE old(j) == IF j < i THEN j ELSE j - 1
<1>6. ASSUME NEW j \in DOMAIN taskQueue', j # i
      PROVE  old(j) \in DOMAIN taskQueue /\ taskQueue'[j] = taskQueue[old(j)]
    BY <1>0, <1>1, <1>4, <1>6
<1>7. ASSUME NEW j \in DOMAIN taskQueue', NEW k \in DOMAIN taskQueue', j < k, j # i, k # i
      PROVE  old(j) < old(k)
    BY <1>0, <1>1, <1>4, <1>7
<1>8. ASSUME NEW k \in DOMAIN taskQueue
      PROVE  \E j \in DOMAIN taskQueue' : j # i /\ old(j) = k
    <2>1. CASE k < i
        <3>1. k \in DOMAIN taskQueue' /\ k # i /\ old(k) = k
            BY <1>0, <1>1, <1>4, <2>1
        <3> QED BY <3>1
    <2>2. CASE k >= i
        <3>1. k + 1 \in DOMAIN taskQueue' /\ k + 1 # i /\ old(k + 1) = k
            BY <1>0, <1>1, <1>4, <2>2
        <3> QED BY <3>1
    <2> QED BY <1>0, <1>1, <2>1, <2>2
<1>9. /\ \A j, k \in DOMAIN taskQueue' : j # k => j < k \/ k < j
      /\ \A j \in DOMAIN taskQueue : ~(j < j)
      /\ i \in DOMAIN taskQueue' /\ taskQueue'[i] = t
    BY <1>0, <1>1, <1>4
<1>10. \A j \in DOMAIN taskQueue : taskQueue[j] # t
    BY <1>0
<1>11. ASSUME NEW j \in DOMAIN taskQueue', j < i PROVE remaining[taskQueue'[j]] < d
    <2>1. j \in 1..(i - 1) /\ taskQueue'[j] = taskQueue[j]
        BY <1>1, <1>4, <1>11
    <2> QED BY <1>1, <2>1 DEF InsertHere
<1>12. ASSUME Sorted, NEW k \in DOMAIN taskQueue', i < k PROVE d <= remaining[taskQueue'[k]]
    <2> DEFINE m == k - 1
    <2>1. m \in DOMAIN taskQueue /\ taskQueue'[k] = taskQueue[m] /\ i \in DOMAIN taskQueue /\ i <= m
        BY <1>0, <1>1, <1>4, <1>12
    <2> HIDE DEF m
    <2>2. remaining[taskQueue[i]] >= d
        BY <1>0, <1>1, <2>1 DEF InsertHere
    <2>3. remaining[taskQueue[i]] <= remaining[taskQueue[m]]
        <3>1. CASE i = m
            BY <1>0, <2>1, <3>1 DEF TypeOK
        <3>2. CASE i < m
            BY <1>12, <2>1, <3>2 DEF Sorted
        <3> QED BY <1>0, <2>1, <3>1, <3>2
    <2>4. remaining[taskQueue[i]] \in Int /\ remaining[taskQueue[m]] \in Int /\ d \in Int
        BY <1>0, <2>1 DEF TypeOK
    <2> QED BY <2>1, <2>2, <2>3, <2>4
<1> HIDE DEF old
<1>13. IsInjective(taskQueue) => IsInjective(taskQueue)'
    <2> SUFFICES ASSUME IsInjective(taskQueue),
                        NEW j \in DOMAIN taskQueue', NEW k \in DOMAIN taskQueue',
                        taskQueue'[j] = taskQueue'[k], j # k
                 PROVE  FALSE
        BY DEF IsInjective
    <2>1. j # i /\ k # i
        BY <1>6, <1>9, <1>10
    <2>2. old(j) = old(k)
        BY <1>6, <2>1 DEF IsInjective
    <2> QED BY <1>6, <1>7, <1>9, <2>1, <2>2
<1>14. \A u \in Tasks : Queued(u)' <=> Queued(u) \/ u = t
    <2> SUFFICES ASSUME NEW u \in Tasks PROVE Queued(u)' <=> Queued(u) \/ u = t
        OBVIOUS
    <2>1. Queued(u)' <=> \E j \in DOMAIN taskQueue' : taskQueue'[j] = u
        BY <1>3, <1>4 DEF Queued, Contains
    <2>2. Queued(u) => Queued(u)'
        BY <1>0, <1>6, <1>8, <2>1
    <2>3. Queued(u)' => Queued(u) \/ u = t
        BY <1>0, <1>6, <1>9, <2>1
    <2> QED BY <1>9, <2>1, <2>2, <2>3
<1>15. Sorted => Sorted'
    <2> SUFFICES ASSUME Sorted, NEW j \in DOMAIN taskQueue', NEW k \in DOMAIN taskQueue', j < k
                 PROVE  remaining'[taskQueue'[j]] <= remaining'[taskQueue'[k]]
        BY DEF Sorted
    <2>1. \A m \in DOMAIN taskQueue' : m # i =>
              taskQueue'[m] \in Tasks /\ remaining'[taskQueue'[m]] = remaining[taskQueue'[m]]
        BY <1>0, <1>5, <1>6, <1>10
    <2>2. CASE j = i
        BY <1>5, <1>9, <1>12, <2>1, <2>2
    <2>3. CASE k = i
        <3>1. remaining[taskQueue'[j]] < d /\ remaining'[taskQueue'[k]] = d /\ j # i
            BY <1>5, <1>9, <1>11, <2>3
        <3>2. remaining[taskQueue'[j]] \in Int /\ d \in Int
            BY <2>1, <3>1 DEF TypeOK
        <3> QED BY <2>1, <3>1, <3>2
    <2>4. CASE j # i /\ k # i
        <3>1. remaining[taskQueue[old(j)]] <= remaining[taskQueue[old(k)]]
            BY <1>6, <1>7, <2>4 DEF Sorted
        <3> QED BY <1>6, <2>1, <2>4, <3>1
    <2> QED BY <2>2, <2>3, <2>4
<1> QED BY <1>2, <1>5, <1>13, <1>14, <1>15

LEMMA PickTakesFront ==
    ASSUME TypeOK, PickTask, sched' = "hand"
    PROVE  /\ sched = "pick" /\ 1 \in DOMAIN taskQueue /\ Without(1)
           /\ taskQueue' \in Seq(Tasks)
           /\ tsk' = taskQueue[1] /\ tsk' \in Tasks /\ remaining[tsk'] <= 0
           /\ UNCHANGED <<bRunning, remaining, obj, curTask, work>>
<1>1. /\ taskQueue # <<>> /\ sched = "pick" /\ tsk' = Head(taskQueue)
      /\ taskQueue' = Tail(taskQueue) /\ IsDue(tsk')
      /\ UNCHANGED <<bRunning, remaining, obj, curTask, work>>
    BY DEF PickTask
<1>2. tsk' \in Tasks
    BY <1>1, HeadTailProperties DEF TypeOK
<1> QED BY <1>1, <1>2, WithoutFront DEF IsDue

LEMMA PickIsFirst ==
    ASSUME TypeOK, Sorted, PickTask, sched' = "hand", NEW u \in Tasks, Queued(u)
    PROVE  remaining[tsk'] <= remaining[u]
<1>1. PICK i \in DOMAIN taskQueue : taskQueue[i] = u
    BY QueueDomain
<1>2. 1 \in DOMAIN taskQueue /\ tsk' = taskQueue[1] /\ tsk' \in Tasks
    BY PickTakesFront
<1>3. CASE i = 1
    BY <1>1, <1>2, <1>3 DEF TypeOK
<1>4. CASE i # 1
    <2>1. 1 < i
        BY <1>4, QueueDomain
    <2> QED BY <1>1, <1>2, <2>1 DEF Sorted
<1> QED BY <1>3, <1>4

\* The queue stays in order: the clock moves all start times alike.
LEMMA SortedStep == TypeOK /\ Sorted /\ [Next]_vars => Sorted'
<1> SUFFICES ASSUME TypeOK, Sorted, [Next]_vars PROVE Sorted'
    OBVIOUS
<1>0. ASSUME UNCHANGED <<taskQueue, remaining>> PROVE Sorted'
    BY <1>0 DEF Sorted
<1>1. ASSUME NEW t \in Tasks, NEW d \in 0..MaxDelay, addTask(t, d) PROVE Sorted'
    <2>1. CASE bRunning /\ ~Queued(t)
        BY <1>1, <2>1, PutIn
    <2>2. CASE ~(bRunning /\ ~Queued(t))
        BY <1>0, <1>1, <2>2 DEF addTask, IsExistTask
    <2> QED BY <2>1, <2>2
<1>2. CASE Schedule
    <2>1. CASE PickTask /\ sched' = "hand"
        BY <2>1, PickTakesFront, TakenOut
    <2>2. CASE ~(PickTask /\ sched' = "hand")
        BY <1>0, <1>2, <2>2 DEF Schedule, SchedLoop, CheckCurTask, CountTasks, WaitForTask,
           WaitForTaskReturns, PickTask, TimedWait, TimedWaitTimesOut, TimedWaitReturns,
           PickAgain, HandOver
    <2> QED BY <2>1, <2>2
<1>3. ASSUME NEW e \in Executors, Execute(e) PROVE Sorted'
    <2>1. CASE FinishTask(e) /\ isRepeat(work[e])
        <3>1. work[e] \in Tasks /\ \E d \in 0..MaxDelay : addTask(work[e], d)
            BY <2>1, ConstantsAssumption DEF FinishTask, isRepeat
        <3> QED BY <1>1, <3>1
    <2>2. CASE ~(FinishTask(e) /\ isRepeat(work[e]))
        BY <1>0, <1>3, <2>2 DEF Execute, ExecLoop, TakeTask, WaitForWork, WaitForWorkReturns,
           RunTask, FinishTask
    <2> QED BY <2>1, <2>2
<1>4. CASE Stop \/ StopSteps \/ SpuriousWake
    BY <1>0, <1>4 DEF Stop, StopSteps, StopUnblockQueue, StopUnblockTask, StopJoined, SpuriousWake
<1>5. CASE Callers
    <2>1. ASSUME NEW t \in Tasks, NEW d \in 0..MaxDelay, AddTask(t, d) PROVE Sorted'
        BY <1>1, <2>1 DEF AddTask
    <2>2. ASSUME NEW t \in Tasks, DeleteTask(t) PROVE Sorted'
        <3>1. PICK i \in DOMAIN taskQueue : taskQueue' = RemoveAt(taskQueue, i)
            BY <2>2 DEF DeleteTask
        <3>2. remaining' = remaining
            BY <2>2 DEF DeleteTask
        <3> QED BY <3>1, <3>2, WithoutOne, TakenOut
    <2>3. ASSUME NEW t \in Tasks, Abort(t) PROVE Sorted'
        BY <1>0, <2>3 DEF Abort
    <2> QED BY <1>5, <2>1, <2>2, <2>3 DEF Callers
<1>6. CASE Tick
    <2>1. /\ taskQueue' = taskQueue
          /\ remaining' = [t \in Tasks |-> IF remaining[t] > -1 THEN remaining[t] - 1 ELSE -1]
        BY <1>6 DEF Tick
    <2>2. ASSUME NEW t \in Tasks, NEW u \in Tasks, remaining[t] <= remaining[u]
          PROVE  remaining'[t] <= remaining'[u]
        <3>1. remaining[t] \in -1..MaxDelay /\ remaining[u] \in -1..MaxDelay
            BY DEF TypeOK
        <3> QED BY <2>1, <2>2, <3>1, ConstantsAssumption
    <2>3. \A i \in DOMAIN taskQueue : taskQueue[i] \in Tasks
        BY QueueDomain
    <2> QED BY <2>1, <2>2, <2>3 DEF Sorted
<1>7. CASE UNCHANGED vars
    BY <1>0, <1>7 DEF vars
<1> QED BY <1>2, <1>3, <1>4, <1>5, <1>6, <1>7 DEF Next

\* schedule() takes the task that starts first (addTask keeps m_taskQueue in order, and
\* front() is looked at after every wait).
THEOREM EarliestFirstHolds == Spec => EarliestFirst
<1> DEFINE First == sched = "pick" /\ sched' = "hand" =>
                        \A u \in Tasks : Queued(u) => remaining[tsk'] <= remaining[u]
<1>1. Init => Sorted
    <2>1. ASSUME Init PROVE DOMAIN taskQueue = {}
        BY <2>1 DEF Init
    <2> QED BY <2>1 DEF Sorted
<1>2. TypeOK /\ Sorted /\ [Next]_vars => [First]_vars
    <2> SUFFICES ASSUME TypeOK, Sorted, Next, sched = "pick", sched' = "hand",
                        NEW u \in Tasks, Queued(u)
                 PROVE  remaining[tsk'] <= remaining[u]
        OBVIOUS
    <2>1. ~(Stop \/ StopSteps \/ Callers \/ Tick \/ SpuriousWake)
        BY DEF Stop, StopSteps, StopUnblockQueue, StopUnblockTask, StopJoined, Callers,
           DeleteTask, Abort, AddTask, Tick, SpuriousWake
    <2>2. ~(\E e \in Executors : Execute(e))
        BY DEF Execute, ExecLoop, TakeTask, WaitForWork, WaitForWorkReturns, RunTask, FinishTask
    <2>3. PickTask
        BY <2>1, <2>2 DEF Next, Schedule, SchedLoop, CheckCurTask, CountTasks, WaitForTask,
           WaitForTaskReturns, TimedWait, TimedWaitTimesOut, TimedWaitReturns, PickAgain, HandOver
    <2> QED BY <2>3, PickIsFirst
<1> QED BY <1>1, <1>2, SortedStep, TypeCorrect, PTL DEF Spec, EarliestFirst
-----------------------------------------------------------------------------
(* Who has a task. *)

\* An execute() that runs a task has one.
Busy == \A e \in Executors : exec[e] \in {"run", "done"} => work[e] \in Tasks

Held(t) == \E e \in Executors : HeldBy(e, t)

\* OneOwner without its guard, task by task.
Owned(t) ==
    /\ obj[t] # "free" <=> Queued(t) \/ Picked(t) \/ curTask = t \/ Held(t)
    /\ Queued(t) => ~Picked(t) /\ curTask # t /\ ~Held(t)
    /\ Picked(t) => curTask # t /\ ~Held(t)
    /\ curTask = t => ~Held(t)
    /\ \A e, f \in Executors : HeldBy(e, t) /\ HeldBy(f, t) => e = f

Owners == bRunning => IsInjective(taskQueue) /\ \A t \in Tasks : Owned(t)

LEMMA OwnersMeans == Owners <=> OneOwner
BY DEF Owners, OneOwner, Owned, Held

\* A step that moves no task.
LEMMA OwnersSame ==
    ASSUME Owners, UNCHANGED <<taskQueue, curTask, work>>, bRunning' => bRunning,
           \A t \in Tasks : obj'[t] = "free" <=> obj[t] = "free",
           \/ UNCHANGED <<sched, tsk>>
           \/ sched # "hand" /\ sched' # "hand"
    PROVE  Owners'
<1> SUFFICES ASSUME bRunning, NEW t \in Tasks PROVE IsInjective(taskQueue)' /\ Owned(t)'
    BY DEF Owners
<1>1. Queued(t)' = Queued(t) /\ Picked(t)' = Picked(t) /\ Held(t)' = Held(t)
      /\ \A e : HeldBy(e, t)' = HeldBy(e, t)
    BY DEF Queued, Contains, Picked, Held, HeldBy
<1> QED BY <1>1 DEF Owners, Owned, IsInjective

LEMMA OwnersSchedule ==
    ASSUME TypeOK, HandInv, Owners, Schedule
    PROVE  Owners'
<1>1. CASE PickTask /\ sched' = "hand"
    <2> SUFFICES ASSUME bRunning, NEW t \in Tasks PROVE IsInjective(taskQueue)' /\ Owned(t)'
        BY <1>1, PickTakesFront DEF Owners
    <2>1. /\ sched = "pick" /\ 1 \in DOMAIN taskQueue /\ Without(1) /\ taskQueue' \in Seq(Tasks)
          /\ tsk' = taskQueue[1] /\ UNCHANGED <<obj, curTask, work>>
        BY <1>1, PickTakesFront
    <2>2. IsInjective(taskQueue)' /\ (Queued(t)' <=> Queued(t) /\ t # tsk')
        BY <2>1, TakenOut DEF Owners
    <2>3. Queued(tsk')
        BY <2>1, QueueDomain
    <2>4. curTask = None
        BY <2>1 DEF HandInv
    <2>5. Picked(t)' <=> t = tsk'
        BY <1>1 DEF Picked
    <2>6. ~Picked(t) /\ Held(t)' = Held(t) /\ \A e : HeldBy(e, t)' = HeldBy(e, t)
        BY <2>1 DEF Picked, Held, HeldBy
    <2> QED BY <2>1, <2>2, <2>3, <2>4, <2>5, <2>6 DEF Owners, Owned
<1>2. CASE PickTask /\ sched' # "hand"
    <2>1. UNCHANGED <<bRunning, taskQueue, curTask, work, obj>> /\ sched # "hand"
        BY <1>2 DEF PickTask
    <2> QED BY <1>2, <2>1, OwnersSame
<1>3. CASE HandOver
    <2> SUFFICES ASSUME bRunning, NEW t \in Tasks PROVE IsInjective(taskQueue)' /\ Owned(t)'
        BY <1>3 DEF Owners, HandOver
    <2>1. /\ UNCHANGED <<taskQueue, obj, work>> /\ curTask' = tsk
          /\ sched = "hand" /\ sched' # "hand"
        BY <1>3 DEF HandOver
    <2>2. curTask = None /\ t # None
        BY <2>1, ConstantsAssumption DEF HandInv
    <2>3. /\ Queued(t)' = Queued(t) /\ Held(t)' = Held(t) /\ ~Picked(t)'
          /\ Picked(t) <=> tsk = t
          /\ \A e : HeldBy(e, t)' = HeldBy(e, t)
        BY <2>1 DEF Queued, Contains, Picked, Held, HeldBy
    <2>4. IsInjective(taskQueue)'
        BY <2>1 DEF Owners
    <2> QED BY <2>1, <2>2, <2>3, <2>4 DEF Owners, Owned
<1>4. CASE PickAgain
    <2>1. UNCHANGED <<bRunning, taskQueue, curTask, work, obj>> /\ sched # "hand"
        BY <1>4 DEF PickAgain
    <2>2. bRunning => sched' # "hand"
        BY <1>4 DEF PickAgain
    <2> QED BY <2>1, <2>2, OwnersSame DEF Owners
<1>5. CASE SchedLoop \/ CheckCurTask \/ CountTasks \/ WaitForTask \/ WaitForTaskReturns
    <2>1. UNCHANGED <<bRunning, taskQueue, curTask, work, obj>> /\ sched # "hand" /\ sched' # "hand"
        BY <1>5 DEF SchedLoop, CheckCurTask, CountTasks, WaitForTask, WaitForTaskReturns
    <2> QED BY <2>1, OwnersSame
<1>6. CASE TimedWait \/ TimedWaitTimesOut \/ TimedWaitReturns
    <2>1. UNCHANGED <<bRunning, taskQueue, curTask, work, obj>> /\ sched # "hand" /\ sched' # "hand"
        BY <1>6 DEF TimedWait, TimedWaitTimesOut, TimedWaitReturns
    <2> QED BY <2>1, OwnersSame
<1> QED BY <1>1, <1>2, <1>3, <1>4, <1>5, <1>6 DEF Schedule

\* addTask queues a task that nobody has any more.
LEMMA OwnersPutIn ==
    ASSUME TypeOK, Owners, bRunning, NEW t \in Tasks, NEW d \in 0..MaxDelay, addTask(t, d),
           ~Queued(t), ~Picked(t), curTask # t,
           UNCHANGED <<curTask, sched, tsk>>, ~Held(t)',
           \A u \in Tasks : u # t => \A e \in Executors : HeldBy(e, u)' <=> HeldBy(e, u)
    PROVE  Owners'
<1>1. /\ IsInjective(taskQueue)'
      /\ \A u \in Tasks : Queued(u)' <=> Queued(u) \/ u = t
      /\ obj' = [obj EXCEPT ![t] = IF @ = "free" THEN "live" ELSE @]
    BY PutIn DEF Owners
<1>2. ASSUME NEW u \in Tasks PROVE Owned(u)'
    <2>1. Picked(u)' = Picked(u)
        BY DEF Picked
    <2>2. CASE u = t
        <3>1. obj'[t] # "free"
            BY <1>1 DEF TypeOK
        <3>2. \A e \in Executors : ~HeldBy(e, t)'
            BY DEF Held
        <3> QED BY <1>1, <2>1, <2>2, <3>1, <3>2 DEF Owned
    <2>3. CASE u # t
        <3>1. obj'[u] = obj[u] /\ (Queued(u)' <=> Queued(u))
            BY <1>1, <2>3 DEF TypeOK
        <3>2. \A e \in Executors : HeldBy(e, u)' <=> HeldBy(e, u)
            BY <2>3
        <3>3. Held(u)' <=> Held(u)
            BY <3>2 DEF Held
        <3> QED BY <2>1, <3>1, <3>2, <3>3 DEF Owners, Owned
    <2> QED BY <2>2, <2>3
<1> QED BY <1>1, <1>2 DEF Owners

LEMMA OwnersExecute ==
    ASSUME TypeOK, HandInv, Busy, Owners, NEW e \in Executors, Execute(e)
    PROVE  Owners'
<1>1. CASE ExecLoop(e) \/ WaitForWork(e) \/ WaitForWorkReturns(e)
    <2>1. UNCHANGED <<bRunning, taskQueue, curTask, work, obj, sched, tsk>>
        BY <1>1 DEF ExecLoop, WaitForWork, WaitForWorkReturns
    <2> QED BY <2>1, OwnersSame
<1>2. CASE TakeTask(e)
    <2> SUFFICES ASSUME bRunning, NEW t \in Tasks PROVE IsInjective(taskQueue)' /\ Owned(t)'
        BY <1>2 DEF Owners, TakeTask
    <2>1. /\ UNCHANGED <<taskQueue, obj, sched, tsk>> /\ curTask' = None /\ t # None
          /\ work[e] = None /\ work' = [work EXCEPT ![e] = curTask]
        BY <1>2, ConstantsAssumption DEF TakeTask, HandInv
    <2>2. Queued(t)' = Queued(t) /\ Picked(t)' = Picked(t) /\ IsInjective(taskQueue)'
        BY <2>1 DEF Queued, Contains, Picked, Owners
    <2>3. /\ \A f \in Executors : f # e => (HeldBy(f, t)' <=> HeldBy(f, t))
          /\ ~HeldBy(e, t) /\ (HeldBy(e, t)' <=> curTask = t)
        BY <2>1 DEF HeldBy, TypeOK
    <2>4. Held(t)' <=> Held(t) \/ curTask = t
        BY <2>3 DEF Held
    <2>5. \A f, g \in Executors : HeldBy(f, t)' /\ HeldBy(g, t)' => f = g
        BY <2>3 DEF Owners, Owned, Held
    <2> QED BY <2>1, <2>2, <2>4, <2>5 DEF Owners, Owned
<1>3. ASSUME NEW t \in Tasks, work[e] = t, obj' = [obj EXCEPT ![t] = "free"],
             work' = [work EXCEPT ![e] = None],
             UNCHANGED <<bRunning, taskQueue, curTask, sched, tsk>>
      PROVE  Owners'
    <2> SUFFICES ASSUME bRunning, NEW u \in Tasks PROVE IsInjective(taskQueue)' /\ Owned(u)'
        BY <1>3 DEF Owners
    <2>1. /\ IsInjective(taskQueue)' /\ Queued(u)' = Queued(u) /\ Picked(u)' = Picked(u)
          /\ curTask' = curTask /\ u # None
        BY <1>3, ConstantsAssumption DEF Queued, Contains, Picked, Owners
    <2>2. \A f \in Executors : HeldBy(f, u)' <=> HeldBy(f, u) /\ f # e
        BY <1>3, <2>1 DEF HeldBy, TypeOK
    <2>3. HeldBy(e, t) /\ (HeldBy(e, u) <=> u = t)
        BY <1>3 DEF HeldBy
    <2>4. CASE u = t
        <3>1. \A f \in Executors : ~HeldBy(f, t)'
            BY <2>2, <2>3, <2>4 DEF Owners, Owned
        <3>2. obj'[t] = "free" /\ ~Queued(t) /\ ~Picked(t) /\ curTask # t
            BY <1>3, <2>3 DEF Owners, Owned, Held, TypeOK
        <3> QED BY <2>1, <2>4, <3>1, <3>2 DEF Owned, Held
    <2>5. CASE u # t
        <3>1. obj'[u] = obj[u]
            BY <1>3, <2>5 DEF TypeOK
        <3>2. \A f \in Executors : HeldBy(f, u)' <=> HeldBy(f, u)
            BY <2>2, <2>3, <2>5
        <3>3. Held(u)' <=> Held(u)
            BY <3>2 DEF Held
        <3> QED BY <2>1, <3>1, <3>2, <3>3 DEF Owners, Owned
    <2> QED BY <2>4, <2>5
<1>4. CASE RunTask(e)
    <2>1. work[e] \in Tasks
        BY <1>4 DEF RunTask, Busy
    <2>2. CASE obj[work[e]] = "aborted"
        BY <1>3, <1>4, <2>1, <2>2 DEF RunTask
    <2>3. CASE obj[work[e]] # "aborted"
        BY <1>4, <2>3, OwnersSame DEF RunTask
    <2> QED BY <2>2, <2>3
<1>5. CASE FinishTask(e)
    <2>0. PICK t \in Tasks : work[e] = t
        BY <1>5 DEF FinishTask, Busy
    <2>1. UNCHANGED <<bRunning, curTask, sched, tsk>> /\ work' = [work EXCEPT ![e] = None]
        BY <1>5 DEF FinishTask
    <2>2. CASE ~isRepeat(t)
        BY <1>3, <1>5, <2>0, <2>1, <2>2 DEF FinishTask
    <2>3. CASE isRepeat(t) /\ bRunning
        <3>1. PICK d \in 0..MaxDelay : addTask(t, d)
            BY <1>5, <2>0, <2>3, ConstantsAssumption DEF FinishTask
        <3>2. HeldBy(e, t) /\ Owned(t)
            BY <2>0, <2>3 DEF HeldBy, Owners
        <3>3. ~Queued(t) /\ ~Picked(t) /\ curTask # t
            BY <3>2 DEF Owned, Held
        <3>4. t # None
            BY <2>1, ConstantsAssumption
        <3>5. \A f \in Executors : work'[f] = IF f = e THEN None ELSE work[f]
            BY <2>1 DEF TypeOK
        <3>6. ~Held(t)'
            <4> SUFFICES ASSUME NEW f \in Executors, work'[f] = t PROVE FALSE
                BY <3>5 DEF Held, HeldBy
            <4>1. f # e /\ work[f] = t
                BY <3>4, <3>5
            <4> QED BY <3>2, <4>1 DEF Owned, HeldBy
        <3>7. \A u \in Tasks : u # t => \A f \in Executors : HeldBy(f, u)' <=> HeldBy(f, u)
            <4>1. \A u \in Tasks : u # None
                BY ConstantsAssumption
            <4> QED BY <2>0, <3>5, <4>1 DEF HeldBy
        <3> QED BY <2>1, <2>3, <3>1, <3>3, <3>6, <3>7, OwnersPutIn
    <2>4. CASE ~bRunning
        BY <2>1, <2>4 DEF Owners
    <2> QED BY <2>2, <2>3, <2>4
<1> QED BY <1>1, <1>2, <1>4, <1>5 DEF Execute

LEMMA OwnersCallers ==
    ASSUME TypeOK, Owners, Callers
    PROVE  Owners'
<1>1. ASSUME NEW t \in Tasks, NEW d \in 0..MaxDelay, AddTask(t, d) PROVE Owners'
    <2>1. addTask(t, d) /\ UNCHANGED <<bRunning, curTask, sched, tsk, work>> /\ (obj[t] = "free" \/ Queued(t))
        BY <1>1 DEF AddTask
    <2>2. CASE bRunning /\ ~Queued(t)
        <3>1. Owned(t) /\ obj[t] = "free"
            BY <2>1, <2>2 DEF Owners
        <3>2. ~Picked(t) /\ curTask # t /\ ~Held(t)
            BY <3>1 DEF Owned
        <3>3. \A u : \A e \in Executors : HeldBy(e, u)' <=> HeldBy(e, u)
            BY <2>1 DEF HeldBy
        <3>4. ~Held(t)'
            BY <3>2, <3>3 DEF Held
        <3> QED BY <2>1, <2>2, <3>2, <3>3, <3>4, OwnersPutIn
    <2>3. CASE bRunning /\ Queued(t)
        <3>1. UNCHANGED <<taskQueue, obj>>
            BY <2>1, <2>3 DEF addTask, IsExistTask
        <3> QED BY <2>1, <3>1, OwnersSame
    <2>4. CASE ~bRunning
        BY <2>1, <2>4 DEF Owners
    <2> QED BY <2>2, <2>3, <2>4
<1>2. ASSUME NEW t \in Tasks, DeleteTask(t) PROVE Owners'
    <2> SUFFICES ASSUME bRunning, NEW u \in Tasks PROVE IsInjective(taskQueue)' /\ Owned(u)'
        BY <1>2 DEF Owners, DeleteTask
    <2>1. PICK i \in DOMAIN taskQueue : taskQueue[i] = t /\ taskQueue' = RemoveAt(taskQueue, i)
        BY <1>2 DEF DeleteTask
    <2>2. UNCHANGED <<curTask, work, sched, tsk>> /\ obj' = [obj EXCEPT ![t] = "free"]
        BY <1>2 DEF DeleteTask
    <2>3. IsInjective(taskQueue)' /\ (Queued(u)' <=> Queued(u) /\ u # t)
        BY <2>1, WithoutOne, TakenOut DEF Owners
    <2>4. Queued(t)
        BY <2>1, QueueDomain
    <2>5. Picked(u)' = Picked(u) /\ Held(u)' = Held(u) /\ \A e : HeldBy(e, u)' = HeldBy(e, u)
        BY <2>2 DEF Picked, Held, HeldBy
    <2>6. obj'[u] = IF u = t THEN "free" ELSE obj[u]
        BY <2>2 DEF TypeOK
    <2> QED BY <2>2, <2>3, <2>4, <2>5, <2>6 DEF Owners, Owned
<1>3. ASSUME NEW t \in Tasks, Abort(t) PROVE Owners'
    <2>1. UNCHANGED <<bRunning, taskQueue, curTask, work, sched, tsk>>
        BY <1>3 DEF Abort
    <2>2. \A u \in Tasks : obj'[u] = "free" <=> obj[u] = "free"
        BY <1>3 DEF Abort, TypeOK
    <2> QED BY <2>1, <2>2, OwnersSame
<1> QED BY <1>1, <1>2, <1>3 DEF Callers

LEMMA OwnersStep == TypeOK /\ HandInv /\ Busy /\ Owners /\ [Next]_vars => Owners'
<1> SUFFICES ASSUME TypeOK, HandInv, Busy, Owners, [Next]_vars PROVE Owners'
    OBVIOUS
<1>1. CASE Stop \/ StopSteps \/ Tick \/ SpuriousWake
    <2>1. UNCHANGED <<taskQueue, curTask, work, obj, sched, tsk>> /\ (bRunning' => bRunning)
        BY <1>1 DEF Stop, StopSteps, StopUnblockQueue, StopUnblockTask, StopJoined, Tick, SpuriousWake
    <2> QED BY <2>1, OwnersSame
<1>2. CASE UNCHANGED vars
    BY <1>2, OwnersSame DEF vars
<1> QED BY <1>1, <1>2, OwnersSchedule, OwnersExecute, OwnersCallers DEF Next

LEMMA BusyStep == TypeOK /\ Busy /\ [Next]_vars => Busy'
<1> SUFFICES ASSUME TypeOK, Busy, [Next]_vars PROVE Busy'
    OBVIOUS
<1>1. ASSUME NEW e \in Executors, Execute(e) PROVE Busy'
    <2>1. CASE TakeTask(e)
        BY <2>1 DEF TakeTask, Busy, TypeOK
    <2>2. CASE ExecLoop(e) \/ WaitForWork(e) \/ WaitForWorkReturns(e)
        BY <2>2 DEF ExecLoop, WaitForWork, WaitForWorkReturns, Busy, TypeOK
    <2>3. CASE RunTask(e) \/ FinishTask(e)
        BY <2>3 DEF RunTask, FinishTask, Busy, TypeOK
    <2> QED BY <1>1, <2>1, <2>2, <2>3 DEF Execute
<1>2. CASE PickTask
    <2>1. work' = work /\ (exec' = exec \/ exec' = [e \in Executors |-> "exit"])
        BY <1>2 DEF PickTask
    <2> QED BY <2>1 DEF Busy
<1>3. ASSUME UNCHANGED <<exec, work>> PROVE Busy'
    BY <1>3 DEF Busy
<1>4. CASE Schedule /\ ~PickTask
    BY <1>3, <1>4 DEF Schedule, SchedLoop, CheckCurTask, CountTasks, WaitForTask,
       WaitForTaskReturns, TimedWait, TimedWaitTimesOut, TimedWaitReturns, PickAgain, HandOver
<1>5. CASE Stop \/ StopSteps \/ Callers \/ Tick \/ SpuriousWake
    BY <1>3, <1>5 DEF Stop, StopSteps, StopUnblockQueue, StopUnblockTask, StopJoined, Callers,
       AddTask, DeleteTask, Abort, Tick, SpuriousWake
<1>6. CASE UNCHANGED vars
    BY <1>3, <1>6 DEF vars
<1> QED BY <1>1, <1>2, <1>4, <1>5, <1>6 DEF Next

LEMMA InitOwners == Init => HandInv /\ Busy /\ Owners
<1> SUFFICES ASSUME Init PROVE HandInv /\ Busy /\ Owners
    OBVIOUS
<1>1. taskQueue = <<>> /\ DOMAIN taskQueue = {} /\ Len(taskQueue) = 0
    BY DEF Init
<1>2. \A t \in Tasks : ~Queued(t) /\ ~Picked(t) /\ curTask # t /\ ~Held(t) /\ obj[t] = "free"
    BY <1>1, ConstantsAssumption DEF Init, Queued, Contains, Picked, Held, HeldBy
<1>3. Owners
    BY <1>1, <1>2 DEF Owners, Owned, Held, IsInjective
<1> QED BY <1>3 DEF Init, HandInv, Busy

\* A Task object that exists has one owner, whatever calls come while tasks are handed over
\* and run: what schedule(), execute(), addTask and deleteTask pass on without a lock that
\* covers both ends.
THEOREM OneOwnerHolds == Spec => []OneOwner
BY InitOwners, OwnersMeans, OwnersStep, BusyStep, HandInvInductive, TypeCorrect, PTL DEF Spec

\* A task that somebody has is due.
Due(t) == Picked(t) \/ curTask = t \/ Held(t) => remaining[t] <= 0
AllDue == bRunning => \A t \in Tasks : Due(t)

LEMMA AllDueMeans == AllDue <=> NeverEarly
BY DEF AllDue, NeverEarly, Due, Held

\* Who has a task does not get another one.
LEMMA DueSame ==
    ASSUME AllDue, bRunning' => bRunning,
           \A t \in Tasks :
              (Picked(t)' \/ curTask' = t \/ Held(t)') =>
                 /\ Picked(t) \/ curTask = t \/ Held(t)
                 /\ remaining'[t] = remaining[t]
    PROVE  AllDue'
BY DEF AllDue, Due

LEMMA DueStep == TypeOK /\ Busy /\ Owners /\ AllDue /\ [Next]_vars => AllDue'
<1> SUFFICES ASSUME TypeOK, Busy, Owners, AllDue, [Next]_vars PROVE AllDue'
    OBVIOUS
<1>0. \A t \in Tasks : t # None
    BY ConstantsAssumption
<1>a. ASSUME UNCHANGED <<remaining, curTask, work>>, bRunning' => bRunning,
             UNCHANGED <<sched, tsk>> \/ sched' # "hand"
      PROVE  AllDue'
    BY <1>a, DueSame DEF Picked, Held, HeldBy
\* addTask of a task that nobody has afterwards.
<1>b. ASSUME NEW t \in Tasks, NEW d \in 0..MaxDelay, addTask(t, d), bRunning, bRunning',
             UNCHANGED <<sched, tsk, curTask>>,
             \A u \in Tasks : Held(u)' => Held(u),
             Queued(t) \/ (~Picked(t) /\ curTask # t /\ ~Held(t)')
      PROVE  AllDue'
    <2>1. CASE Queued(t)
        <3>1. remaining' = remaining
            BY <1>b, <2>1 DEF addTask, IsExistTask
        <3> QED BY <1>b, <3>1, DueSame DEF Picked
    <2>2. CASE ~Queued(t)
        <3>1. \A u \in Tasks : u # t => remaining'[u] = remaining[u]
            BY <1>b, <2>2, PutIn
        <3>2. \A u \in Tasks : Picked(u)' = Picked(u) /\ curTask' = curTask
            BY <1>b DEF Picked
        <3> QED BY <1>b, <2>2, <3>1, <3>2, DueSame
    <2> QED BY <2>1, <2>2
<1>1. CASE Schedule
    <2>1. CASE PickTask /\ sched' = "hand"
        <3> SUFFICES ASSUME bRunning, NEW t \in Tasks PROVE Due(t)'
            BY <2>1, PickTakesFront DEF AllDue
        <3>1. tsk' \in Tasks /\ remaining[tsk'] <= 0 /\ UNCHANGED <<remaining, curTask, work>>
            BY <2>1, PickTakesFront
        <3>2. Held(t)' = Held(t) /\ (Picked(t)' <=> tsk' = t)
            BY <2>1, <3>1 DEF Held, HeldBy, Picked
        <3> QED BY <3>1, <3>2 DEF AllDue, Due
    <2>2. CASE HandOver
        <3>1. UNCHANGED <<bRunning, remaining, work>> /\ sched = "hand" /\ sched' # "hand" /\ curTask' = tsk
            BY <2>2 DEF HandOver
        <3> QED BY <3>1, DueSame DEF Picked, Held, HeldBy
    <2>3. CASE PickAgain
        <3>1. UNCHANGED <<bRunning, remaining, curTask, work>> /\ (bRunning => sched' # "hand")
            BY <2>3 DEF PickAgain
        <3> QED BY <1>a, <3>1 DEF AllDue
    <2>4. CASE ~(PickTask /\ sched' = "hand") /\ ~HandOver /\ ~PickAgain
        <3>1. UNCHANGED <<bRunning, remaining, curTask, work>> /\ sched' # "hand"
            BY <1>1, <2>4 DEF Schedule, SchedLoop, CheckCurTask, CountTasks, WaitForTask,
               WaitForTaskReturns, PickTask, TimedWait, TimedWaitTimesOut, TimedWaitReturns
        <3> QED BY <1>a, <3>1
    <2> QED BY <2>1, <2>2, <2>3, <2>4
<1>2. ASSUME NEW e \in Executors, Execute(e) PROVE AllDue'
    <2>1. CASE ExecLoop(e) \/ WaitForWork(e) \/ WaitForWorkReturns(e)
        BY <1>a, <2>1 DEF ExecLoop, WaitForWork, WaitForWorkReturns
    <2>2. CASE TakeTask(e)
        <3>1. UNCHANGED <<bRunning, remaining, sched, tsk>> /\ curTask' = None
              /\ work' = [work EXCEPT ![e] = curTask]
            BY <2>2 DEF TakeTask
        <3>2. \A t \in Tasks : Held(t)' => Held(t) \/ curTask = t
            BY <3>1 DEF Held, HeldBy, TypeOK
        <3> QED BY <1>0, <3>1, <3>2, DueSame DEF Picked
    <2>3. ASSUME work' = work \/ work' = [work EXCEPT ![e] = None]
          PROVE  \A t \in Tasks : Held(t)' => Held(t)
        BY <1>0, <2>3 DEF Held, HeldBy, TypeOK
    <2>4. CASE RunTask(e)
        <3>1. UNCHANGED <<bRunning, remaining, curTask, sched, tsk>>
              /\ (work' = work \/ work' = [work EXCEPT ![e] = None])
            BY <2>4 DEF RunTask
        <3> QED BY <2>3, <3>1, DueSame DEF Picked
    <2>5. CASE FinishTask(e)
        <3>0. PICK t \in Tasks : work[e] = t
            BY <2>5 DEF FinishTask, Busy
        <3>1. UNCHANGED <<bRunning, curTask, sched, tsk>> /\ work' = [work EXCEPT ![e] = None]
            BY <2>5 DEF FinishTask
        <3>2. CASE ~isRepeat(t) \/ ~bRunning
            <4>1. remaining' = remaining \/ ~bRunning
                BY <2>5, <3>0, <3>2 DEF FinishTask
            <4> QED BY <2>3, <3>1, <4>1, DueSame DEF Picked, AllDue
        <3>3. CASE isRepeat(t) /\ bRunning
            <4>1. PICK d \in 0..MaxDelay : addTask(t, d)
                BY <2>5, <3>0, <3>3, ConstantsAssumption DEF FinishTask
            <4>2. HeldBy(e, t) /\ Owned(t)
                BY <3>0, <3>3 DEF HeldBy, Owners
            <4>3. \A f \in Executors : work'[f] = IF f = e THEN None ELSE work[f]
                BY <3>1 DEF TypeOK
            <4>4. ~Held(t)'
                <5> SUFFICES ASSUME NEW f \in Executors, work'[f] = t PROVE FALSE
                    BY DEF Held, HeldBy
                <5>1. f # e /\ work[f] = t
                    BY <1>0, <4>3
                <5> QED BY <4>2, <5>1 DEF Owned, HeldBy
            <4>5. ~Picked(t) /\ curTask # t
                BY <4>2 DEF Owned, Held
            <4> QED BY <1>b, <2>3, <3>1, <3>3, <4>1, <4>4, <4>5
        <3> QED BY <3>2, <3>3
    <2> QED BY <1>2, <2>1, <2>2, <2>4, <2>5 DEF Execute
<1>3. CASE Stop \/ StopSteps \/ SpuriousWake
    <2>1. UNCHANGED <<remaining, curTask, work, sched, tsk>> /\ (bRunning' => bRunning)
        BY <1>3 DEF Stop, StopSteps, StopUnblockQueue, StopUnblockTask, StopJoined, SpuriousWake
    <2> QED BY <1>a, <2>1
<1>4. CASE Tick
    <2>1. UNCHANGED <<bRunning, curTask, work, sched, tsk>>
          /\ remaining' = [t \in Tasks |-> IF remaining[t] > -1 THEN remaining[t] - 1 ELSE -1]
        BY <1>4 DEF Tick
    <2>2. ASSUME NEW t \in Tasks, remaining[t] <= 0 PROVE remaining'[t] <= 0
        <3>1. remaining[t] \in Int
            BY DEF TypeOK
        <3> QED BY <2>1, <2>2, <3>1
    <2>3. \A t \in Tasks : Picked(t)' = Picked(t) /\ Held(t)' = Held(t)
        BY <2>1 DEF Picked, Held, HeldBy
    <2> QED BY <2>1, <2>2, <2>3 DEF AllDue, Due
<1>5. CASE Callers
    <2>1. ASSUME NEW t \in Tasks, NEW d \in 0..MaxDelay, AddTask(t, d) PROVE AllDue'
        <3>1. addTask(t, d) /\ UNCHANGED <<bRunning, curTask, sched, tsk, work>>
              /\ (obj[t] = "free" \/ Queued(t))
            BY <2>1 DEF AddTask
        <3>2. \A u \in Tasks : Held(u)' = Held(u)
            BY <3>1 DEF Held, HeldBy
        <3>3. bRunning => Queued(t) \/ (~Picked(t) /\ curTask # t /\ ~Held(t)')
            BY <3>1, <3>2 DEF Owners, Owned
        <3>4. CASE bRunning
            BY <1>b, <3>1, <3>2, <3>3, <3>4
        <3>5. CASE ~bRunning
            BY <3>1, <3>5 DEF AllDue
        <3> QED BY <3>4, <3>5
    <2>2. ASSUME NEW t \in Tasks, DeleteTask(t) \/ Abort(t) PROVE AllDue'
        BY <1>a, <2>2 DEF DeleteTask, Abort
    <2> QED BY <1>5, <2>1, <2>2 DEF Callers
<1>6. CASE UNCHANGED vars
    BY <1>a, <1>6 DEF vars
<1> QED BY <1>1, <1>2, <1>3, <1>4, <1>5, <1>6 DEF Next

\* No task starts before its time: a wait of schedule() that ends early, for whatever reason,
\* leads back to the comparison with the clock.
THEOREM NeverEarlyHolds == Spec => []NeverEarly
<1>1. Init => AllDue
    BY ConstantsAssumption DEF Init, AllDue, Due, Picked, Held, HeldBy
<1> QED BY <1>1, AllDueMeans, DueStep, InitOwners, OwnersStep, BusyStep, HandInvInductive,
           TypeCorrect, PTL DEF Spec
-----------------------------------------------------------------------------
(* The manager implements Timer.  Opened, it shows what the mapping names; the    *)
(* steps between are stutters.                                                  *)

LEMMA OpenStep == [Next]_vars /\ Open' => Open
<1> SUFFICES ASSUME [Next]_vars, Open' PROVE Open
    OBVIOUS
<1>1. CASE Schedule
    BY <1>1 DEF Schedule, SchedLoop, CheckCurTask, CountTasks, WaitForTask, WaitForTaskReturns,
       PickTask, TimedWait, TimedWaitTimesOut, TimedWaitReturns, PickAgain, HandOver, Open, Alive
<1>2. ASSUME UNCHANGED sched, bRunning' => bRunning PROVE Open
    BY <1>2 DEF Open, Alive
<1>3. ASSUME NEW e \in Executors, Execute(e) PROVE Open
    BY <1>2, <1>3 DEF Execute, ExecLoop, TakeTask, WaitForWork, WaitForWorkReturns, RunTask, FinishTask
<1>4. CASE Stop \/ StopSteps \/ Callers \/ Tick \/ SpuriousWake
    BY <1>2, <1>4 DEF Stop, StopSteps, StopUnblockQueue, StopUnblockTask, StopJoined, Callers,
       AddTask, DeleteTask, Abort, Tick, SpuriousWake
<1>5. CASE UNCHANGED vars
    BY <1>2, <1>5 DEF vars
<1> QED BY <1>1, <1>3, <1>4, <1>5 DEF Next

\* Nothing that is shown changes.
LEMMA TimerSame ==
    ASSUME Open, Open', UNCHANGED <<remaining, work, taskQueue, obj, Taken, Begun>>
    PROVE  UNCHANGED Promise!vars
<1>1. Waiting' = Waiting /\ Aborted' = Aborted
    BY DEF Waiting, Queued, Contains, Aborted
<1> QED BY <1>1 DEF Promise!vars

\* Nobody has a task that does not exist.
LEMMA IdleFree ==
    ASSUME HandInv, Owners, Open, NEW t \in Tasks
    PROVE  Promise!Idle(t) <=> obj[t] = "free"
<1>1. Owned(t) /\ t # None
    BY ConstantsAssumption DEF Owners, Open
<1>2. Taken = t <=> Picked(t) \/ curTask = t
    BY <1>1 DEF Taken, Picked, HandInv
<1>3. t \in Waiting <=> Queued(t)
    BY DEF Waiting
<1>4. Held(t) <=> \E e \in Executors : work[e] = t
    BY DEF Held, HeldBy
<1> QED BY <1>1, <1>2, <1>3, <1>4 DEF Owned, Promise!Idle

LEMMA TimerSchedule ==
    ASSUME TypeOK, HandInv, Owners, Sorted, Open, Open', Schedule
    PROVE  Promise!Next \/ UNCHANGED Promise!vars
<1>1. CASE PickTask /\ sched' = "hand"
    <2>1. /\ sched = "pick" /\ 1 \in DOMAIN taskQueue /\ Without(1) /\ taskQueue' \in Seq(Tasks)
          /\ tsk' = taskQueue[1] /\ tsk' \in Tasks /\ remaining[tsk'] <= 0
          /\ UNCHANGED <<remaining, obj, work>>
        BY <1>1, PickTakesFront
    <2>2. \A t \in Tasks : Queued(t)' <=> Queued(t) /\ t # tsk'
        BY <2>1, TakenOut DEF Owners, Open
    <2>3. Waiting' = Waiting \ {tsk'} /\ tsk' \in Waiting
        BY <2>1, <2>2, QueueDomain DEF Waiting
    <2>4. Taken = None /\ Taken' = tsk'
        BY <1>1, <2>1 DEF Taken, HandInv
    <2>5. \A u \in Waiting : remaining[tsk'] <= remaining[u]
        BY <1>1, PickIsFirst DEF Waiting
    <2>6. Begun' = Begun /\ Aborted' = Aborted
        BY <1>1, <2>1 DEF PickTask, Begun, Aborted
    <2>7. Promise!Take(tsk')
        BY <2>1, <2>3, <2>4, <2>5, <2>6 DEF Promise!Take
    <2> QED BY <2>1, <2>7 DEF Promise!Next
<1>2. CASE HandOver
    <2>1. Taken' = Taken
        BY <1>2 DEF HandOver, Taken
    <2>2. UNCHANGED <<remaining, work, taskQueue, obj, exec>>
        BY <1>2 DEF HandOver
    <2> QED BY <2>1, <2>2, TimerSame DEF Begun
<1>3. CASE PickTask /\ sched' # "hand"
    <2>1. /\ UNCHANGED <<remaining, work, taskQueue, obj, exec, curTask>>
          /\ sched # "hand"
        BY <1>3 DEF PickTask, Open, Alive
    <2> QED BY <1>3, <2>1, TimerSame DEF Taken, Begun
<1>4. CASE ~PickTask /\ ~HandOver
    <2>1. /\ UNCHANGED <<remaining, work, taskQueue, obj, exec, curTask>>
          /\ sched # "hand" /\ sched' # "hand"
        BY <1>4 DEF Schedule, SchedLoop, CheckCurTask, CountTasks, WaitForTask, WaitForTaskReturns,
           TimedWait, TimedWaitTimesOut, TimedWaitReturns, PickAgain, Open
    <2> QED BY <2>1, TimerSame DEF Taken, Begun
<1> QED BY <1>1, <1>2, <1>3, <1>4

LEMMA TimerExecute ==
    ASSUME TypeOK, HandInv, Busy, Owners, Open, Open', NEW e \in Executors, Execute(e)
    PROVE  Promise!Next \/ UNCHANGED Promise!vars
<1>1. CASE ExecLoop(e) \/ WaitForWork(e) \/ WaitForWorkReturns(e)
    <2>1. UNCHANGED <<remaining, work, taskQueue, obj, curTask, sched, tsk>>
        BY <1>1 DEF ExecLoop, WaitForWork, WaitForWorkReturns
    <2>2. Begun' = Begun
        BY <1>1 DEF ExecLoop, WaitForWork, WaitForWorkReturns, Begun, TypeOK
    <2> QED BY <2>1, <2>2, TimerSame DEF Taken
<1>2. CASE TakeTask(e)
    <2>1. /\ UNCHANGED <<remaining, taskQueue, obj, sched, tsk>>
          /\ work[e] = None /\ work' = [work EXCEPT ![e] = curTask] /\ curTask' = None
        BY <1>2 DEF TakeTask, HandInv
    <2>2. Begun' = Begun
        BY <1>2 DEF TakeTask, Begun, TypeOK
    <2>3. CASE curTask = None
        <3>1. work' = work
            BY <2>1, <2>3 DEF TypeOK
        <3> QED BY <2>1, <2>2, <2>3, <3>1, TimerSame DEF Taken
    <2>4. CASE curTask # None
        <3>1. Taken = curTask /\ Taken' = None
            BY <2>1, <2>4 DEF Taken, HandInv
        <3>2. Waiting' = Waiting /\ Aborted' = Aborted
            BY <2>1 DEF Waiting, Queued, Contains, Aborted
        <3>3. Promise!Accept(e)
            BY <2>1, <2>2, <2>4, <3>1, <3>2 DEF Promise!Accept
        <3> QED BY <3>3 DEF Promise!Next
    <2> QED BY <2>3, <2>4
<1>3. CASE RunTask(e) /\ obj[work[e]] # "aborted"
    <2>1. /\ UNCHANGED <<remaining, taskQueue, obj, sched, tsk, curTask, work>>
          /\ exec[e] = "run" /\ exec' = [exec EXCEPT ![e] = "done"]
        BY <1>3 DEF RunTask
    <2>2. work[e] \in Tasks /\ work[e] # None
        BY <2>1, ConstantsAssumption DEF Busy
    <2>3. Begun' = Begun \cup {e} /\ e \notin Begun
        BY <2>1 DEF Begun, TypeOK
    <2>4. Waiting' = Waiting /\ Aborted' = Aborted /\ Taken' = Taken /\ work[e] \notin Aborted
        BY <1>3, <2>1, <2>2 DEF Waiting, Queued, Contains, Aborted, Taken
    <2>5. Promise!Begin(e)
        BY <2>1, <2>2, <2>3, <2>4 DEF Promise!Begin
    <2> QED BY <2>5 DEF Promise!Next
<1>4. ASSUME NEW t \in Tasks, work[e] = t, work' = [work EXCEPT ![e] = None],
             exec' = [exec EXCEPT ![e] = "loop"], obj' = [obj EXCEPT ![t] = "free"],
             UNCHANGED <<remaining, taskQueue, sched, tsk, curTask>>,
             obj[t] = "aborted" \/ (exec[e] = "done" /\ t \notin Repeating)
      PROVE  Promise!Next
    <2>1. Begun' = Begun \ {e} /\ Aborted' = Aborted \ {t}
        BY <1>4 DEF Begun, Aborted, TypeOK
    <2>2. Waiting' = Waiting /\ Taken' = Taken /\ t # None
        BY <1>4, ConstantsAssumption DEF Waiting, Queued, Contains, Taken
    <2>3. t \in Aborted \/ (e \in Begun /\ t \notin Repeating)
        BY <1>4 DEF Aborted, Begun
    <2>4. Promise!End(e)
        BY <1>4, <2>1, <2>2, <2>3 DEF Promise!End, Promise!Free
    <2> QED BY <2>4 DEF Promise!Next
<1>5. CASE RunTask(e) /\ obj[work[e]] = "aborted"
    <2>1. work[e] \in Tasks
        BY <1>5 DEF RunTask, Busy
    <2> QED BY <1>4, <1>5, <2>1 DEF RunTask
<1>6. CASE FinishTask(e) /\ ~isRepeat(work[e])
    <2>1. work[e] \in Tasks
        BY <1>6 DEF FinishTask, Busy
    <2>2. obj[work[e]] = "aborted" \/ work[e] \notin Repeating
        BY <1>6 DEF isRepeat
    <2> QED BY <1>4, <1>6, <2>1, <2>2 DEF FinishTask
<1>7. CASE FinishTask(e) /\ isRepeat(work[e])
    <2> DEFINE t == work[e]
    <2>1. /\ UNCHANGED <<sched, tsk, curTask>> /\ work' = [work EXCEPT ![e] = None]
          /\ exec[e] = "done" /\ exec' = [exec EXCEPT ![e] = "loop"] /\ t \in Tasks
          /\ t \in Repeating /\ obj[t] # "aborted"
        BY <1>7 DEF FinishTask, Busy, isRepeat
    <2>2. PICK d \in 0..Interval : addTask(t, d)
        BY <1>7 DEF FinishTask
    <2>3. d \in 0..MaxDelay
        BY ConstantsAssumption
    <2>4. bRunning /\ ~Queued(t) /\ obj[t] # "free"
        BY <2>1 DEF Owners, Owned, Held, HeldBy, Open
    <2>5. remaining' = [remaining EXCEPT ![t] = d]
        BY <2>2, <2>4 DEF addTask, IsExistTask
    <2>6. \A u \in Tasks : Queued(u)' <=> Queued(u) \/ u = t
        BY <2>1, <2>2, <2>3, <2>4, PutIn
    <2>7. obj' = [obj EXCEPT ![t] = IF @ = "free" THEN "live" ELSE @]
        BY <2>1, <2>2, <2>3, <2>4, PutIn
    <2> HIDE DEF t
    <2>8. Waiting' = Waiting \cup {t} /\ Aborted' = Aborted /\ t \notin Aborted
        BY <2>1, <2>4, <2>6, <2>7 DEF Waiting, Aborted, TypeOK
    <2>9. Begun' = Begun \ {e} /\ e \in Begun /\ Taken' = Taken
        BY <2>1 DEF Begun, Taken, TypeOK
    <2>10. Promise!Again(e, d)
        BY <2>1, <2>5, <2>8, <2>9 DEF Promise!Again, Promise!Free, t
    <2> QED BY <2>10 DEF Promise!Next
<1> QED BY <1>1, <1>2, <1>3, <1>5, <1>6, <1>7 DEF Execute

LEMMA TimerCallers ==
    ASSUME TypeOK, HandInv, Owners, Open, Open', Callers
    PROVE  Promise!Next \/ UNCHANGED Promise!vars
<1>1. ASSUME NEW t \in Tasks, NEW d \in 0..MaxDelay, AddTask(t, d)
      PROVE  Promise!Next \/ UNCHANGED Promise!vars
    <2>1. addTask(t, d) /\ UNCHANGED <<curTask, sched, tsk, exec, work>> /\ bRunning
          /\ (obj[t] = "free" \/ Queued(t))
        BY <1>1 DEF AddTask, Open
    <2>2. Taken' = Taken /\ Begun' = Begun
        BY <2>1 DEF Taken, Begun
    <2>3. CASE Queued(t)
        <3>1. UNCHANGED <<taskQueue, remaining, obj>>
            BY <2>1, <2>3 DEF addTask, IsExistTask
        <3> QED BY <2>1, <2>2, <3>1, TimerSame
    <2>4. CASE ~Queued(t)
        <3>1. obj[t] = "free" /\ Promise!Idle(t)
            BY <2>1, <2>4, IdleFree
        <3>2. remaining' = [remaining EXCEPT ![t] = d]
            BY <2>1, <2>4 DEF addTask, IsExistTask
        <3>3. /\ \A u \in Tasks : Queued(u)' <=> Queued(u) \/ u = t
              /\ obj' = [obj EXCEPT ![t] = IF @ = "free" THEN "live" ELSE @]
            BY <2>1, <2>4, PutIn
        <3>4. Waiting' = Waiting \cup {t} /\ Aborted' = Aborted
            BY <3>1, <3>3 DEF Waiting, Aborted, TypeOK
        <3>5. Promise!Add(t, d)
            BY <2>1, <2>2, <3>1, <3>2, <3>4 DEF Promise!Add
        <3> QED BY <3>5 DEF Promise!Next
    <2> QED BY <2>3, <2>4
<1>2. ASSUME NEW t \in Tasks, DeleteTask(t) PROVE Promise!Next
    <2>1. PICK i \in DOMAIN taskQueue : taskQueue[i] = t /\ taskQueue' = RemoveAt(taskQueue, i)
        BY <1>2 DEF DeleteTask
    <2>2. /\ UNCHANGED <<curTask, work, exec, sched, tsk, remaining>>
          /\ obj' = [obj EXCEPT ![t] = "free"]
        BY <1>2 DEF DeleteTask
    <2>3. \A u \in Tasks : Queued(u)' <=> Queued(u) /\ u # t
        BY <2>1, WithoutOne, TakenOut DEF Owners, Open
    <2>4. Waiting' = Waiting \ {t} /\ t \in Waiting
        BY <2>1, <2>3, QueueDomain DEF Waiting
    <2>5. Aborted' = Aborted \ {t} /\ Taken' = Taken /\ Begun' = Begun
        BY <2>2 DEF Aborted, Taken, Begun, TypeOK
    <2>6. Promise!Cancel(t)
        BY <2>2, <2>4, <2>5 DEF Promise!Cancel
    <2> QED BY <2>6 DEF Promise!Next
<1>3. ASSUME NEW t \in Tasks, Abort(t) PROVE Promise!Next
    <2>1. /\ UNCHANGED <<taskQueue, curTask, work, exec, sched, tsk, remaining>>
          /\ obj[t] = "live" /\ obj' = [obj EXCEPT ![t] = "aborted"]
        BY <1>3 DEF Abort
    <2>2. ~Promise!Idle(t)
        BY <2>1, IdleFree
    <2>3. Aborted' = Aborted \cup {t} /\ Taken' = Taken /\ Begun' = Begun /\ Waiting' = Waiting
        BY <2>1 DEF Aborted, Taken, Begun, Waiting, Queued, Contains, TypeOK
    <2>4. Promise!Abort(t)
        BY <2>1, <2>2, <2>3 DEF Promise!Abort
    <2> QED BY <2>4 DEF Promise!Next
<1> QED BY <1>1, <1>2, <1>3 DEF Callers

LEMMA TimerStep ==
    TypeOK /\ HandInv /\ Busy /\ Owners /\ Sorted /\ [Next]_vars => [Promise!Next]_(Promise!vars)
<1> SUFFICES ASSUME TypeOK, HandInv, Busy, Owners, Sorted, [Next]_vars
             PROVE  Promise!Next \/ UNCHANGED Promise!vars
    OBVIOUS
<1>1. CASE ~Open /\ ~Open'
    <2>1. Open' = Open
        BY <1>1 DEF Open, Alive
    <2> QED BY <1>1, <2>1 DEF Promise!vars
<1>2. CASE Open /\ ~Open'
    <2>1. Promise!Close
        BY <1>2 DEF Promise!Close, Promise!Nothing, Promise!NobodyHas
    <2> QED BY <2>1 DEF Promise!Next
<1>3. CASE Open /\ Open'
    <2>1. CASE StopSteps \/ SpuriousWake
        <3>1. UNCHANGED <<remaining, work, taskQueue, obj, exec, curTask, sched, tsk>>
            BY <2>1 DEF StopSteps, StopUnblockQueue, StopUnblockTask, StopJoined, SpuriousWake
        <3> QED BY <1>3, <3>1, TimerSame DEF Taken, Begun
    <2>2. CASE Stop
        BY <1>3, <2>2 DEF Stop, Open
    <2>3. CASE Tick
        <3>1. /\ UNCHANGED <<work, taskQueue, obj, exec, curTask, sched, tsk>>
              /\ remaining' = [t \in Tasks |-> IF remaining[t] > -1 THEN remaining[t] - 1 ELSE -1]
            BY <2>3 DEF Tick
        <3>2. Taken' = Taken /\ Begun' = Begun /\ Waiting' = Waiting /\ Aborted' = Aborted
            BY <3>1 DEF Aborted, Taken, Begun, Waiting, Queued, Contains
        <3>3. Promise!Tick
            BY <1>3, <3>1, <3>2 DEF Promise!Tick
        <3> QED BY <3>3 DEF Promise!Next
    <2>4. CASE UNCHANGED vars
        BY <1>3, <2>4, TimerSame DEF vars, Taken, Begun
    <2> QED BY <1>3, <2>1, <2>2, <2>3, <2>4, TimerSchedule, TimerExecute, TimerCallers DEF Next
<1> QED BY <1>1, <1>2, <1>3, OpenStep

LEMMA TimerInit == Init => Promise!Init
<1> SUFFICES ASSUME Init PROVE Promise!Init
    OBVIOUS
<1>1. Open
    BY DEF Init, Open, Alive
<1>2. Waiting = {} /\ Begun = {} /\ Aborted = {} /\ Taken = None
    BY DEF Init, Waiting, Queued, Contains, Begun, Aborted, Taken
<1> QED BY <1>1, <1>2 DEF Init, Promise!Init, Promise!Nothing, Promise!NobodyHas

\* schedule() and the execute() threads, with their two locks and the gap between them, are a
\* Timer until stop(): what addTask, deleteTask and Task::abort promise to their callers
\* (TaskManager.cpp:107-148, TaskManager.h:40-48), for any number of tasks and executors.
THEOREM ImplementsTimer == Spec => IsTimer
<1>1. Init => Sorted
    <2>1. ASSUME Init PROVE DOMAIN taskQueue = {}
        BY <2>1 DEF Init
    <2> QED BY <2>1 DEF Sorted
<1> QED BY <1>1, TimerInit, TimerStep, InitOwners, OwnersStep, BusyStep, SortedStep,
           HandInvInductive, TypeCorrect, PTL DEF Spec, IsTimer, Promise!Spec
=============================================================================
