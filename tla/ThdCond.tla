------------------------------ MODULE ThdCond ------------------------------
(***************************************************************************)
(* The wrapper of a pthread condition variable that TaskManager and        *)
(* MessageQueue block on (ThdCond.cpp).  A thread is in waiters from the   *)
(* moment pthread_cond_wait releases the mutex until something wakes it;   *)
(* after that it only has to take the mutex back and return.  The mutex is *)
(* never held across two of these steps, so it needs no variable.          *)
(*                                                                         *)
(* An event is not remembered: SetEvent with nobody waiting changes        *)
(* nothing.  And unblockAll does not take the mutex, while waitEvent looks *)
(* at m_unblock only after it was woken: a thread that starts waiting      *)
(* after unblockAll is not released by it.                                 *)
(***************************************************************************)
VARIABLES waiters,  \* the threads blocked on m_cv
          unblock   \* m_unblock

Init == waiters = {} /\ unblock = FALSE

\* waitEvent up to the release of m_mutex by pthread_cond_(timed)wait.
BeginWait(t) == waiters' = waiters \cup {t} /\ UNCHANGED unblock

\* pthread_cond_signal wakes one of the waiting threads, if there is one.
SetEvent ==
    /\ IF waiters = {} THEN waiters' = waiters
                       ELSE \E t \in waiters : waiters' = waiters \ {t}
    /\ UNCHANGED unblock

UnblockAll_FlagOnly == unblock' = TRUE /\ UNCHANGED waiters
\* unblockAll: the flag, then a broadcast.
UnblockAll == unblock' = TRUE /\ waiters' = {}

\* A timeout, or a wake-up without an event, which POSIX allows.
Wake(t) == t \in waiters /\ waiters' = waiters \ {t} /\ UNCHANGED unblock

\* waitEvent returns -2 to a woken thread if the flag is up, and 0 if not.
Woken(t)    == t \notin waiters
ForcedExit  == unblock
=============================================================================
