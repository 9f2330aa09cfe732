------------------------------- MODULE Timer -------------------------------
(***************************************************************************)
(* What the task manager promises to those who give it tasks: a task waits *)
(* until its time has come, the one that starts first is taken first, it   *)
(* begins at most once, at one executor, and then waits again or is gone.  *)
(* An aborted task does not begin any more, nor wait again.  It promises   *)
(* nothing after it was closed.                                            *)
(***************************************************************************)
EXTENDS Integers

CONSTANTS Tasks, Repeating, Executors, MaxDelay, Interval, None

VARIABLES open,     \* are tasks still taken?
          waiting,  \* the tasks that wait for their time
          left,     \* the time that is left of each, -1 when it is late
          out,      \* the task that was taken for whoever is free
          runs,     \* the task of each executor
          begun,    \* the executors that have begun with theirs
          aborted   \* the tasks that shall not begin or wait again

vars == <<open, waiting, left, out, runs, begun, aborted>>

Nothing   == [t \in Tasks |-> 0]
NobodyHas == [e \in Executors |-> None]

\* Nobody has the task.
Idle(t) == t \notin waiting /\ out # t /\ \A e \in Executors : runs[e] # t

Init ==
    /\ open = TRUE /\ waiting = {} /\ left = Nothing /\ out = None
    /\ runs = NobodyHas /\ begun = {} /\ aborted = {}

Add(t, d) ==
    /\ open /\ Idle(t)
    /\ waiting' = waiting \cup {t} /\ left' = [left EXCEPT ![t] = d]
    /\ UNCHANGED <<open, out, runs, begun, aborted>>

Cancel(t) ==
    /\ open /\ t \in waiting
    /\ waiting' = waiting \ {t} /\ aborted' = aborted \ {t}
    /\ UNCHANGED <<open, left, out, runs, begun>>

Abort(t) ==
    /\ open /\ ~Idle(t)
    /\ aborted' = aborted \cup {t}
    /\ UNCHANGED <<open, waiting, left, out, runs, begun>>

\* The first one, in time, while no other one is out.
Take(t) ==
    /\ open /\ t \in waiting /\ out = None
    /\ left[t] <= 0 /\ \A u \in waiting : left[t] <= left[u]
    /\ waiting' = waiting \ {t} /\ out' = t
    /\ UNCHANGED <<open, left, runs, begun, aborted>>

Accept(e) ==
    /\ open /\ out # None /\ runs[e] = None
    /\ runs' = [runs EXCEPT ![e] = out] /\ out' = None
    /\ UNCHANGED <<open, waiting, left, begun, aborted>>

Begin(e) ==
    /\ open /\ runs[e] # None /\ runs[e] \notin aborted /\ e \notin begun
    /\ begun' = begun \cup {e}
    /\ UNCHANGED <<open, waiting, left, out, runs, aborted>>

\* The executor is free again.
Free(e) == runs' = [runs EXCEPT ![e] = None] /\ begun' = begun \ {e}

\* The task is gone: it was aborted, or it ran and does not repeat.
End(e) ==
    /\ open /\ runs[e] # None
    /\ runs[e] \in aborted \/ (e \in begun /\ runs[e] \notin Repeating)
    /\ Free(e) /\ aborted' = aborted \ {runs[e]}
    /\ UNCHANGED <<open, waiting, left, out>>

Again(e, d) ==
    /\ open /\ e \in begun /\ runs[e] \in Repeating \ aborted
    /\ Free(e)
    /\ waiting' = waiting \cup {runs[e]} /\ left' = [left EXCEPT ![runs[e]] = d]
    /\ UNCHANGED <<open, out, aborted>>

Tick ==
    /\ open
    /\ left' = [t \in Tasks |-> IF left[t] > -1 THEN left[t] - 1 ELSE -1]
    /\ UNCHANGED <<open, waiting, out, runs, begun, aborted>>

Close ==
    /\ open /\ open' = FALSE
    /\ waiting' = {} /\ left' = Nothing /\ out' = None
    /\ runs' = NobodyHas /\ begun' = {} /\ aborted' = {}

Next ==
    \/ \E t \in Tasks : Cancel(t) \/ Abort(t) \/ Take(t) \/ \E d \in 0..MaxDelay : Add(t, d)
    \/ \E e \in Executors : Accept(e) \/ Begin(e) \/ End(e) \/ \E d \in 0..Interval : Again(e, d)
    \/ Tick \/ Close

Spec == Init /\ [][Next]_vars
=============================================================================
