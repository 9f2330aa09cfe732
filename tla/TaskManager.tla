---------------------------- MODULE TaskManager ----------------------------
(***************************************************************************)
(* The background job scheduler of the daemon (TaskManager.cpp): a thread  *)
(* that runs schedule(), the threads that run execute(), and the callers   *)
(* of addTask, deleteTask, Task::abort and stop.                           *)
(*                                                                         *)
(* A thread's label is the place where it next reads or writes state it    *)
(* shares; a step runs from there to the next such place, and what happens *)
(* under one of the two mutexes is one step.  Start times are kept         *)
(* relative to the clock: remaining[t] is m_starRunningTime minus now,     *)
(* which is all the code compares.  It stops at -1, late, because a task   *)
(* that arrives later always starts after a task that is already late.     *)
(***************************************************************************)
EXTENDS Integers, Sequences, SequencesExt

CONSTANTS Tasks,      \* Task objects
          Repeating,  \* those constructed with m_repeat = true
          Executors,  \* the threads in execute()
          MaxDelay,   \* bound on a task's delay, in ticks
          Interval,   \* m_interval of the repeating tasks
          None,       \* the null Task pointer
          Stops,      \* is stop() called?
          Deletes,    \* is deleteTask() called?
          Spurious    \* may pthread_cond_wait return without an event?

ASSUME ConstantsAssumption ==
    /\ Repeating \subseteq Tasks
    /\ None \notin Tasks
    /\ MaxDelay \in Nat
    /\ Interval \in 0..MaxDelay
    /\ {Stops, Deletes, Spurious} \subseteq BOOLEAN

VARIABLES
    bRunning,     \* m_bRunning
    taskQueue,    \* m_taskQueue
    curTask,      \* m_curTask: the task handed over to the executors
    obj,          \* each Task object: "free", "live" or "aborted"
    remaining,    \* ticks until m_starRunningTime
    sched,        \* where schedule() is
    tsk,          \* the local tsk of schedule()
    timeout,      \* what is left of the timeout of schedule()'s timed wait
    exec,         \* where each execute() is
    work,         \* the local work of each execute()
    stopper,      \* where stop() is
    queueWaiters, queueUnblock,   \* m_queueCond
    taskWaiters, taskUnblock      \* m_taskCond

queueCondVars == <<queueWaiters, queueUnblock>>
taskCondVars  == <<taskWaiters, taskUnblock>>
schedVars     == <<sched, tsk, timeout>>
execVars      == <<exec, work>>
queueVars     == <<taskQueue, remaining, obj>>
vars == <<bRunning, taskQueue, curTask, obj, remaining, sched, tsk, timeout,
          exec, work, stopper, queueWaiters, queueUnblock, taskWaiters, taskUnblock>>

queueCond == INSTANCE ThdCond WITH waiters <- queueWaiters, unblock <- queueUnblock
taskCond  == INSTANCE ThdCond WITH waiters <- taskWaiters, unblock <- taskUnblock

Scheduler == "schedule"  \* the name of the scheduling thread in queueWaiters

\* The state after start(): the threads exist and the queue is empty.
Init ==
    /\ bRunning = TRUE
    /\ taskQueue = <<>>
    /\ curTask = None
    /\ obj = [t \in Tasks |-> "free"]
    /\ remaining = [t \in Tasks |-> 0]
    /\ sched = "loop" /\ tsk = None /\ timeout = 0
    /\ exec = [e \in Executors |-> "loop"]
    /\ work = [e \in Executors |-> None]
    /\ stopper = "idle"
    /\ queueCond!Init /\ taskCond!Init
-----------------------------------------------------------------------------
(* X_Bug is X with a plausible bug: the checks are repeated with each in the  *)
(* place of X, to see that they can fail.                                    *)

Queued(t) == Contains(taskQueue, t)

IsExistTask_Never(t) == FALSE
IsExistTask(t) == Queued(t)

\* addTask inserts a task with d ticks to go at i: before the first task that does not
\* start earlier, else at the end.
InsertHere_AtEnd(i, d) == i = Len(taskQueue) + 1
InsertHere_AtFront(i, d) == i = 1
InsertHere(i, d) ==
    /\ \A j \in 1..(i-1) : remaining[taskQueue[j]] < d
    /\ i <= Len(taskQueue) => remaining[taskQueue[i]] >= d

addTask(t, d) ==
    \/ /\ bRunning /\ ~IsExistTask(t)
       /\ \E i \in 1..(Len(taskQueue) + 1) :
            InsertHere(i, d) /\ taskQueue' = InsertAt(taskQueue, i, t)
       /\ remaining' = [remaining EXCEPT ![t] = d]
       /\ obj' = [obj EXCEPT ![t] = IF @ = "free" THEN "live" ELSE @]
       /\ queueCond!SetEvent
    \/ /\ bRunning /\ IsExistTask(t)
       /\ UNCHANGED <<queueVars, queueCondVars>>
    \/ /\ ~bRunning
       /\ obj' = [obj EXCEPT ![t] = "free"]   \* delete tsk
       /\ UNCHANGED <<taskQueue, remaining, queueCondVars>>

\* One thread's crash ends the process.
Alive == sched # "crashed"

\* A caller constructs a task and adds it, or adds again one that is queued; d
\* is what is left of the delay when addTask has the lock.
AddTask(t, d) ==
    /\ Alive
    /\ obj[t] = "free" \/ Queued(t)
    /\ addTask(t, d)
    /\ UNCHANGED <<bRunning, curTask, schedVars, execVars, stopper, taskCondVars>>

\* A caller takes a queued task back and releases it.
DeleteTask(t) ==
    /\ Alive /\ Deletes /\ bRunning
    /\ \E i \in DOMAIN taskQueue :
        taskQueue[i] = t /\ taskQueue' = RemoveAt(taskQueue, i)
    /\ obj' = [obj EXCEPT ![t] = "free"]
    /\ UNCHANGED <<bRunning, curTask, remaining, schedVars, execVars, stopper,
                   queueCondVars, taskCondVars>>

\* Task::abort, from any thread.
Abort(t) ==
    /\ Alive /\ obj[t] = "live"
    /\ obj' = [obj EXCEPT ![t] = "aborted"]
    /\ UNCHANGED <<bRunning, taskQueue, remaining, curTask, schedVars, execVars,
                   stopper, queueCondVars, taskCondVars>>
-----------------------------------------------------------------------------
(* schedule() *)

SchedLoop ==
    /\ sched = "loop"
    /\ sched' = IF bRunning THEN "checkCurTask" ELSE "exit"
    /\ UNCHANGED <<bRunning, queueVars, curTask, tsk, timeout, execVars, stopper,
                   queueCondVars, taskCondVars>>

CheckCurTask_NoEvent ==
    /\ sched = "checkCurTask"
    /\ sched' = IF curTask = None THEN "count" ELSE "loop"
    /\ UNCHANGED <<bRunning, queueVars, curTask, tsk, timeout, execVars, stopper,
                   queueCondVars, taskCondVars>>
CheckCurTask_Overwrite ==
    /\ sched = "checkCurTask"
    /\ sched' = "count"
    /\ IF curTask # None THEN taskCond!SetEvent ELSE UNCHANGED taskCondVars
    /\ UNCHANGED <<bRunning, queueVars, curTask, tsk, timeout, execVars, stopper,
                   queueCondVars>>
\* A task nobody took yet is announced again, after which schedule() sleeps and
\* starts over: it never hands over a second one.
CheckCurTask ==
    /\ sched = "checkCurTask"
    /\ \/ /\ curTask # None
          /\ taskCond!SetEvent
          /\ sched' = "loop"
       \/ /\ curTask = None
          /\ sched' = "count"
          /\ UNCHANGED taskCondVars
    /\ UNCHANGED <<bRunning, queueVars, curTask, tsk, timeout, execVars, stopper,
                   queueCondVars>>

CountTasks_NoWait ==
    /\ sched = "count"
    /\ sched' = "pick"
    /\ UNCHANGED <<bRunning, queueVars, curTask, tsk, timeout, execVars, stopper,
                   queueCondVars, taskCondVars>>
\* getTaskNumber() == 0, under the queue's lock; the wait that follows is not.
CountTasks ==
    /\ sched = "count"
    /\ sched' = IF taskQueue = <<>> THEN "toWait" ELSE "pick"
    /\ UNCHANGED <<bRunning, queueVars, curTask, tsk, timeout, execVars, stopper,
                   queueCondVars, taskCondVars>>

WaitForTask ==
    /\ sched = "toWait"
    /\ sched' = "waiting"
    /\ queueCond!BeginWait(Scheduler)
    /\ UNCHANGED <<bRunning, queueVars, curTask, tsk, timeout, execVars, stopper,
                   taskCondVars>>

WaitForTaskReturns ==
    /\ sched = "waiting" /\ queueCond!Woken(Scheduler)
    /\ sched' = IF queueCond!ForcedExit THEN "exit" ELSE "pick"
    /\ UNCHANGED <<bRunning, queueVars, curTask, tsk, timeout, execVars, stopper,
                   queueCondVars, taskCondVars>>

IsDue_Early(t) == remaining[t] <= 1
IsDue(t) == remaining[t] <= 0
TimeLeft_Swapped(t) == -remaining[t]   \* now - start
TimeLeft(t) == remaining[t]            \* start - now
\* front() of an empty std::list is undefined: what is read there is the null
\* pointer, and getStartRunningTime() of it ends the process and all its threads.
PickTask ==
    /\ sched = "pick"
    /\ \/ /\ taskQueue = <<>>
          /\ sched' = "crashed"
          /\ exec' = [e \in Executors |-> "exit"] /\ stopper' = "done"
          /\ UNCHANGED <<queueVars, tsk, timeout>>
       \/ /\ taskQueue # <<>>
          /\ tsk' = Head(taskQueue)
          /\ \/ /\ IsDue(tsk')
                /\ taskQueue' = Tail(taskQueue)
                /\ sched' = "hand"
                /\ UNCHANGED timeout
             \/ /\ ~IsDue(tsk')
                /\ timeout' = TimeLeft(tsk')
                /\ sched' = "toTimedWait"
                /\ UNCHANGED taskQueue
          /\ UNCHANGED <<remaining, obj, exec, stopper>>
    /\ UNCHANGED <<bRunning, curTask, work, queueCondVars, taskCondVars>>

TimedWait ==
    /\ sched = "toTimedWait"
    /\ sched' = "timedWaiting"
    /\ queueCond!BeginWait(Scheduler)
    /\ UNCHANGED <<bRunning, queueVars, curTask, tsk, timeout, execVars, stopper,
                   taskCondVars>>

TimedWaitTimesOut_Never == FALSE /\ UNCHANGED vars
\* The timeout: waitEvent returns -1 without looking at m_unblock.
TimedWaitTimesOut ==
    /\ sched = "timedWaiting" /\ timeout = 0
    /\ queueCond!Wake(Scheduler)
    /\ sched' = "again"
    /\ UNCHANGED <<bRunning, queueVars, curTask, tsk, timeout, execVars, stopper,
                   taskCondVars>>

TimedWaitReturns ==
    /\ sched = "timedWaiting" /\ queueCond!Woken(Scheduler)
    /\ sched' = IF queueCond!ForcedExit THEN "exit" ELSE "again"
    /\ timeout' = 0
    /\ UNCHANGED <<bRunning, queueVars, curTask, tsk, execVars, stopper, queueCondVars,
                   taskCondVars>>

\* while (isRunning()) of the inner loop: when it ends, tsk is still queued.
PickAgain ==
    /\ sched = "again"
    /\ sched' = IF bRunning THEN "pick" ELSE "hand"
    /\ UNCHANGED <<bRunning, queueVars, curTask, tsk, timeout, execVars, stopper,
                   queueCondVars, taskCondVars>>

HandOver ==
    /\ sched = "hand"
    /\ curTask' = tsk
    /\ taskCond!SetEvent
    /\ sched' = "loop"
    /\ tsk' = None
    /\ UNCHANGED <<bRunning, queueVars, timeout, execVars, stopper, queueCondVars>>
-----------------------------------------------------------------------------
(* execute() *)

ExecLoop(e) ==
    /\ exec[e] = "loop"
    /\ exec' = [exec EXCEPT ![e] = IF bRunning THEN "take" ELSE "exit"]
    /\ UNCHANGED <<bRunning, queueVars, curTask, schedVars, work, stopper,
                   queueCondVars, taskCondVars>>

TakeTask(e) ==
    /\ exec[e] = "take"
    /\ work' = [work EXCEPT ![e] = curTask]
    /\ curTask' = None
    /\ exec' = [exec EXCEPT ![e] = IF curTask = None THEN "toWait" ELSE "run"]
    /\ UNCHANGED <<bRunning, queueVars, schedVars, stopper, queueCondVars, taskCondVars>>

WaitForWork(e) ==
    /\ exec[e] = "toWait"
    /\ exec' = [exec EXCEPT ![e] = "waiting"]
    /\ taskCond!BeginWait(e)
    /\ UNCHANGED <<bRunning, queueVars, curTask, schedVars, work, stopper, queueCondVars>>

WaitForWorkReturns(e) ==
    /\ exec[e] = "waiting" /\ taskCond!Woken(e)
    /\ exec' = [exec EXCEPT ![e] = IF taskCond!ForcedExit THEN "exit" ELSE "loop"]
    /\ UNCHANGED <<bRunning, queueVars, curTask, schedVars, work, stopper,
                   queueCondVars, taskCondVars>>

\* isAbort(): an aborted task is dropped, any other one runs.
RunTask(e) ==
    /\ exec[e] = "run"
    /\ \/ /\ obj[work[e]] = "aborted"
          /\ obj' = [obj EXCEPT ![work[e]] = "free"]
          /\ work' = [work EXCEPT ![e] = None]
          /\ exec' = [exec EXCEPT ![e] = "loop"]
       \/ /\ obj[work[e]] # "aborted"
          /\ exec' = [exec EXCEPT ![e] = "done"]
          /\ UNCHANGED <<obj, work>>
    /\ UNCHANGED <<bRunning, taskQueue, remaining, curTask, schedVars, stopper,
                   queueCondVars, taskCondVars>>

isRepeat_Aborted(t) == t \in Repeating
isRepeat(t) == t \in Repeating /\ obj[t] # "aborted"

\* doWork and onTaskDone are over: queue the task for its next run, or delete it.  Again
\* d is what is left of the interval when addTask has the lock.
FinishTask(e) ==
    /\ exec[e] = "done"
    /\ \/ /\ isRepeat(work[e])
          /\ \E d \in 0..Interval : addTask(work[e], d)
       \/ /\ ~isRepeat(work[e])
          /\ obj' = [obj EXCEPT ![work[e]] = "free"]
          /\ UNCHANGED <<taskQueue, remaining, queueCondVars>>
    /\ work' = [work EXCEPT ![e] = None]
    /\ exec' = [exec EXCEPT ![e] = "loop"]
    /\ UNCHANGED <<bRunning, curTask, schedVars, stopper, taskCondVars>>
-----------------------------------------------------------------------------
(* stop(): called again after it returned, it finds m_bRunning down and      *)
(* does nothing.                                                             *)

Stop ==
    /\ Stops /\ stopper = "idle" /\ bRunning
    /\ bRunning' = FALSE
    /\ stopper' = "unblockQueue"
    /\ UNCHANGED <<queueVars, curTask, schedVars, execVars, queueCondVars, taskCondVars>>

StopUnblockQueue ==
    /\ stopper = "unblockQueue"
    /\ queueCond!UnblockAll
    /\ stopper' = "unblockTask"
    /\ UNCHANGED <<bRunning, queueVars, curTask, schedVars, execVars, taskCondVars>>

StopUnblockTask ==
    /\ stopper = "unblockTask"
    /\ taskCond!UnblockAll
    /\ stopper' = "join"
    /\ UNCHANGED <<bRunning, queueVars, curTask, schedVars, execVars, queueCondVars>>

StopJoined ==
    /\ stopper = "join"
    /\ sched = "exit" /\ \A e \in Executors : exec[e] = "exit"
    /\ stopper' = "done"
    /\ UNCHANGED <<bRunning, queueVars, curTask, schedVars, execVars, queueCondVars,
                   taskCondVars>>
-----------------------------------------------------------------------------
\* Time passes.
Tick ==
    /\ remaining' = [t \in Tasks |-> IF remaining[t] > -1 THEN remaining[t] - 1 ELSE -1]
    /\ timeout' = IF sched = "timedWaiting" /\ timeout > 0 THEN timeout - 1 ELSE timeout
    /\ UNCHANGED <<bRunning, taskQueue, obj, curTask, sched, tsk, execVars, stopper,
                   queueCondVars, taskCondVars>>

\* A wake-up without an event.
SpuriousWake ==
    /\ Spurious
    /\ \/ queueCond!Wake(Scheduler) /\ UNCHANGED taskCondVars
       \/ (\E e \in Executors : taskCond!Wake(e)) /\ UNCHANGED queueCondVars
    /\ UNCHANGED <<bRunning, queueVars, curTask, schedVars, execVars, stopper>>

Schedule ==
    \/ SchedLoop \/ CheckCurTask \/ CountTasks \/ WaitForTask \/ WaitForTaskReturns
    \/ PickTask \/ TimedWait \/ TimedWaitTimesOut \/ TimedWaitReturns \/ PickAgain
    \/ HandOver

Execute(e) ==
    \/ ExecLoop(e) \/ TakeTask(e) \/ WaitForWork(e) \/ WaitForWorkReturns(e)
    \/ RunTask(e) \/ FinishTask(e)

StopSteps == StopUnblockQueue \/ StopUnblockTask \/ StopJoined

Callers ==
    \E t \in Tasks : DeleteTask(t) \/ Abort(t) \/ \E d \in 0..MaxDelay : AddTask(t, d)

Next ==
    \/ Schedule
    \/ \E e \in Executors : Execute(e)
    \/ Stop \/ StopSteps
    \/ Callers
    \/ Tick
    \/ SpuriousWake

Spec == Init /\ [][Next]_vars

\* The threads are scheduled by the kernel and time passes; nothing obliges a
\* caller to call; a stop() that was called goes on.
Fairness ==
    /\ WF_vars(Schedule) /\ \A e \in Executors : WF_vars(Execute(e))
    /\ WF_vars(StopSteps) /\ WF_vars(Tick)

FairSpec == Spec /\ Fairness
-----------------------------------------------------------------------------
SchedLabels == {"loop", "checkCurTask", "count", "toWait", "waiting", "pick",
                "toTimedWait", "timedWaiting", "again", "hand", "exit", "crashed"}
ExecLabels  == {"loop", "take", "toWait", "waiting", "run", "done", "exit"}
StopLabels  == {"idle", "unblockQueue", "unblockTask", "join", "done"}

\* The type of every variable of TaskManager.
TypeOK ==
    /\ bRunning \in BOOLEAN
    /\ taskQueue \in Seq(Tasks)
    /\ curTask \in Tasks \cup {None}
    /\ obj \in [Tasks -> {"free", "live", "aborted"}]
    /\ remaining \in [Tasks -> -1..MaxDelay]
    /\ sched \in SchedLabels
    /\ tsk \in Tasks \cup {None}
    /\ timeout \in 0..MaxDelay
    /\ exec \in [Executors -> ExecLabels]
    /\ work \in [Executors -> Tasks \cup {None}]
    /\ stopper \in StopLabels
    /\ queueWaiters \subseteq {Scheduler} /\ queueUnblock \in BOOLEAN
    /\ taskWaiters \subseteq Executors /\ taskUnblock \in BOOLEAN

Picked(t) == sched = "hand" /\ tsk = t
HeldBy(e, t) == work[e] = t

\* While the manager runs, a Task object that exists is in exactly one place -
\* the queue, schedule()'s hand, m_curTask or one execute() - and one that was
\* deleted is in none: no task is lost, run twice at once or used after delete.
OneOwner ==
    bRunning =>
        /\ IsInjective(taskQueue)
        /\ \A t \in Tasks :
            /\ obj[t] # "free" <=> \/ Queued(t) \/ Picked(t) \/ curTask = t
                                   \/ \E e \in Executors : HeldBy(e, t)
            /\ Queued(t) => ~Picked(t) /\ curTask # t
            /\ Picked(t) => curTask # t
            /\ \A e \in Executors : HeldBy(e, t) =>
                /\ ~Queued(t) /\ ~Picked(t) /\ curTask # t
                /\ \A f \in Executors : HeldBy(f, t) => e = f

\* While the manager runs, no task leaves the queue before its start time, however
\* the timed wait of schedule() ends ("according to the interval time",
\* TaskManager.cpp:2).
NeverEarly ==
    bRunning => \A t \in Tasks :
        Picked(t) \/ curTask = t \/ (\E e \in Executors : HeldBy(e, t)) => remaining[t] <= 0

\* schedule() takes the task that starts first, also when tasks were added or taken
\* away while it slept on an older front of the queue.
EarliestFirst ==
    [][sched = "pick" /\ sched' = "hand" =>
         \A u \in Tasks : Queued(u) => remaining[tsk'] <= remaining[u]]_vars

\* A task that was handed over leaves m_curTask only into the hands of an executor:
\* schedule() never puts a second one over it.
HandedOverOnce ==
    [][curTask # None /\ curTask' # curTask =>
         /\ curTask' = None
         /\ \E e \in Executors : work[e] = None /\ work'[e] = curTask]_vars

\* The refinement: what others see of the manager, until stop() or until it crashed.
Open    == bRunning /\ Alive
Waiting == {t \in Tasks : Queued(t)}
Taken   == IF sched = "hand" THEN tsk ELSE curTask
Begun   == {e \in Executors : exec[e] = "done"}
Aborted == {t \in Tasks : obj[t] = "aborted"}
Promise == INSTANCE Timer WITH
    open    <- Open,
    waiting <- IF Open THEN Waiting ELSE {},
    left    <- IF Open THEN remaining ELSE [t \in Tasks |-> 0],
    out     <- IF Open THEN Taken ELSE None,
    runs    <- IF Open THEN work ELSE [e \in Executors |-> None],
    begun   <- IF Open THEN Begun ELSE {},
    aborted <- IF Open THEN Aborted ELSE {}

\* Until stop() the manager is a Timer: every task that was added begins at most once,
\* in time and in order, unless it was aborted or taken back before, and after it ran it
\* is queued again exactly if it repeats and was not aborted meanwhile ("schedules the
\* backgroud jobs according to the interval time", TaskManager.cpp:2).
IsTimer == Promise!Spec

\* "The queue is not empty, schedule a job" (TaskManager.cpp:245): without spurious
\* wake-ups and deleteTask, front() is never called on an empty queue.
FrontExists == sched # "crashed"

\* A task that is handed over is taken: an executor that missed the event, because
\* it had looked at m_curTask but did not wait yet, is signalled again.
HandOverTaken == (curTask # None) ~> (curTask = None \/ ~bRunning)

\* Once schedule() saw a queued task it hands one over or is told to exit: "Waitting the
\* front job util timeout" (TaskManager.cpp:263) needs no further addTask.
PickLeadsToHand == (sched = "pick") ~> (sched \in {"hand", "exit"})

\* As long as tasks keep being added, every queued task leaves the queue: a wake-up
\* that schedule() missed is made up for by the next addTask.
NewTaskAdded == \E t \in Tasks : obj[t] = "free" /\ obj'[t] # "free"
QueuedIsServed ==
    []<><<NewTaskAdded>>_vars =>
        \A t \in Tasks : Queued(t) ~> (~Queued(t) \/ ~bRunning)

\* "unblock all blocked threads" (ThdCond.h:45): a thread blocked on a condition when
\* stop() unblocks it leaves its loop.
StopReleasesBlocked ==
    /\ (stopper = "unblockQueue" /\ Scheduler \in queueWaiters) ~> (sched = "exit")
    /\ \A e \in Executors :
        (stopper = "unblockTask" /\ e \in taskWaiters) ~> (exec[e] = "exit")

\* "The Task Manager schedules the backgroud jobs according to the interval time"
\* (TaskManager.cpp:2): a task that was added is scheduled.
AddedIsScheduled ==
    \A t \in Tasks : Queued(t) ~> (~Queued(t) \/ ~bRunning)
=============================================================================
