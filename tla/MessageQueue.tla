---------------------------- MODULE MessageQueue ----------------------------
(***************************************************************************)
(* The way of a message to the user interface: any thread pushes it        *)
(* (MessageQueue::push), the SysMessager thread pops it and sends it out.  *)
(*                                                                         *)
(* The queue has a spin lock of its own, m_crs; the mutex of ThdCond is    *)
(* another lock.  canConsume looks at the queue with the mutex but without *)
(* the spin lock; onProduce and onConsume use the spin lock only.  What is *)
(* done under the spin lock is one step; the mutex is held across steps    *)
(* only from canConsume to pthread_cond_wait.                              *)
(***************************************************************************)
EXTENDS Integers, Sequences, SequencesExt

CONSTANTS Producers,  \* threads that push: D-Bus, XIM
          MaxPush,    \* bound on the messages that each of them pushes
          Quit,       \* MSG_QUIT, pushed by SysMessager::stop
          NoMessage   \* the Message() that processMessage starts with

ASSUME BoundAssumption == MaxPush \in Nat

\* The n-th message that p pushes; only which one it is matters here.
Messages == Producers \X (1..MaxPush)

ASSUME NamesAssumption ==
    Quit \notin Messages /\ NoMessage \notin Messages /\ Quit # NoMessage

VARIABLES
    queue,      \* m_queue
    pushed,     \* how many messages each producer pushed
    producer,   \* where each producer is: "idle", or in produce before it has the mutex
    messager,   \* where the SysMessager thread is
    msg,        \* its local msg
    handled,    \* the message that it handled last
    reqAbort,   \* m_reqAbort of that thread
    stopper,    \* where SysMessager::stop is
    waiters, unblock   \* the ThdCond

condVars     == <<waiters, unblock>>
producerVars == <<pushed, producer>>
messagerVars == <<messager, msg, handled>>
vars == <<queue, producerVars, messagerVars, reqAbort, stopper, condVars>>

cond == INSTANCE ThdCond

Messager == "SysMessager"  \* its name in waiters

\* The state after SysMessager::start.
Init ==
    /\ queue = <<>>
    /\ pushed = [p \in Producers |-> 0]
    /\ producer = [p \in Producers |-> "idle"]
    /\ messager = "pop" /\ msg = NoMessage /\ handled = NoMessage
    /\ reqAbort = FALSE
    /\ stopper = "idle"
    /\ cond!Init
-----------------------------------------------------------------------------
(* X_Bug is X with a plausible bug: the checks are repeated with each in the  *)
(* place of X, to see that they can fail.                                    *)

MutexFree_Always == TRUE
\* consume keeps the mutex from canConsume until it waits.
MutexFree == messager # "toWait"

\* produce: onProduce, and then the event.
Push(p) ==
    /\ producer[p] = "idle" /\ pushed[p] < MaxPush
    /\ pushed' = [pushed EXCEPT ![p] = @ + 1]
    /\ queue' = Append(queue, <<p, pushed'[p]>>)
    /\ producer' = [producer EXCEPT ![p] = "signal"]
    /\ UNCHANGED <<messagerVars, reqAbort, stopper, condVars>>

Signal(p) ==
    /\ producer[p] = "signal" /\ MutexFree
    /\ cond!SetEvent
    /\ producer' = [producer EXCEPT ![p] = "idle"]
    /\ UNCHANGED <<queue, pushed, messagerVars, reqAbort, stopper>>
-----------------------------------------------------------------------------
(* The SysMessager thread: pop, consume, processMessage. *)

CanConsume == queue # <<>>

\* consume: at its start, and each time that pthread_cond_wait returned.
InConsume == messager = "pop" \/ (messager = "waiting" /\ cond!Woken(Messager))

Consume_WaitsFirst ==
    /\ InConsume
    /\ messager' = IF messager = "waiting" /\ CanConsume THEN "take" ELSE "toWait"
    /\ UNCHANGED <<queue, producerVars, msg, handled, reqAbort, stopper, condVars>>
Consume_ChecksOnce ==
    /\ InConsume
    /\ messager' = IF messager = "waiting" \/ CanConsume THEN "take" ELSE "toWait"
    /\ UNCHANGED <<queue, producerVars, msg, handled, reqAbort, stopper, condVars>>
\* Nobody calls unblockAll on this condition, so consume never returns -2.
Consume ==
    /\ InConsume
    /\ messager' = IF CanConsume THEN "take" ELSE "toWait"
    /\ UNCHANGED <<queue, producerVars, msg, handled, reqAbort, stopper, condVars>>

Wait ==
    /\ messager = "toWait"
    /\ messager' = "waiting"
    /\ cond!BeginWait(Messager)
    /\ UNCHANGED <<queue, producerVars, msg, handled, reqAbort, stopper>>

\* onConsume, the mutex being released: with an empty queue msg stays what it was.
Take ==
    /\ messager = "take"
    /\ IF queue # <<>> THEN msg' = Head(queue) /\ queue' = Tail(queue)
                       ELSE UNCHANGED <<msg, queue>>
    /\ messager' = "process"
    /\ UNCHANGED <<producerVars, handled, reqAbort, stopper, condVars>>

Process_NoAbort ==
    /\ messager = "process"
    /\ handled' = msg /\ msg' = NoMessage
    /\ messager' = "loop"
    /\ UNCHANGED <<queue, producerVars, reqAbort, stopper, condVars>>
\* The switch of processMessage: MSG_QUIT aborts, any other message is sent out.
Process ==
    /\ messager = "process"
    /\ handled' = msg /\ msg' = NoMessage
    /\ reqAbort' = (msg = Quit \/ reqAbort)
    /\ messager' = "loop"
    /\ UNCHANGED <<queue, producerVars, stopper, condVars>>

\* thread_loop
Loop ==
    /\ messager = "loop"
    /\ messager' = IF reqAbort THEN "exit" ELSE "pop"
    /\ UNCHANGED <<queue, producerVars, msg, handled, reqAbort, stopper, condVars>>
-----------------------------------------------------------------------------
(* SysMessager::stop *)

StopPush ==
    /\ stopper = "idle"
    /\ queue' = Append(queue, Quit)
    /\ stopper' = "signal"
    /\ UNCHANGED <<producerVars, messagerVars, reqAbort, condVars>>

StopSignal_Unblocks ==
    /\ stopper = "signal" /\ MutexFree
    /\ cond!UnblockAll
    /\ stopper' = "abort"
    /\ UNCHANGED <<queue, producerVars, messagerVars, reqAbort>>
StopSignal ==
    /\ stopper = "signal" /\ MutexFree
    /\ cond!SetEvent
    /\ stopper' = "abort"
    /\ UNCHANGED <<queue, producerVars, messagerVars, reqAbort>>

StopAbort ==
    /\ stopper = "abort"
    /\ reqAbort' = TRUE
    /\ stopper' = "join"
    /\ UNCHANGED <<queue, producerVars, messagerVars, condVars>>

StopJoined ==
    /\ stopper = "join" /\ messager = "exit"
    /\ stopper' = "done"
    /\ UNCHANGED <<queue, producerVars, messagerVars, reqAbort, condVars>>

SpuriousWake ==
    /\ cond!Wake(Messager)
    /\ UNCHANGED <<queue, producerVars, messagerVars, reqAbort, stopper>>

SysMessager == Consume \/ Wait \/ Take \/ Process \/ Loop
Stopping == StopSignal \/ StopAbort \/ StopJoined

Next ==
    \/ \E p \in Producers : Push(p) \/ Signal(p)
    \/ SysMessager
    \/ StopPush \/ Stopping
    \/ SpuriousWake

Spec == Init /\ [][Next]_vars

\* A thread that is in one of these functions is scheduled again; nobody has to push
\* or to stop.
Fairness ==
    /\ \A p \in Producers : WF_vars(Signal(p))
    /\ WF_vars(SysMessager) /\ WF_vars(Stopping)

FairSpec == Spec /\ Fairness
-----------------------------------------------------------------------------
\* The type of every variable of MessageQueue.
TypeOK ==
    /\ queue \in Seq(Messages \cup {Quit})
    /\ pushed \in [Producers -> 0..MaxPush]
    /\ producer \in [Producers -> {"idle", "signal"}]
    /\ messager \in {"pop", "toWait", "waiting", "take", "process", "loop", "exit"}
    /\ msg \in Messages \cup {Quit, NoMessage}
    /\ handled \in Messages \cup {Quit, NoMessage}
    /\ reqAbort \in BOOLEAN
    /\ stopper \in {"idle", "signal", "abort", "join", "done"}
    /\ waiters \subseteq {Messager} /\ unblock = FALSE

\* The event of a push comes after the push and under another lock.  Still SysMessager
\* never sleeps on a queue that has a message, unless an event is on its way.
NoLostWakeup ==
    messager = "waiting" /\ Messager \in waiters /\ queue # <<>> =>
        stopper = "signal" \/ \E p \in Producers : producer[p] = "signal"

\* The refinement: the message being processed is not handled yet.
InHand == IF messager = "process" THEN <<msg>> ELSE <<>>
Promise == INSTANCE Mailbox WITH box <- InHand \o queue, open <- messager # "exit"

\* MessageQueue with SysMessager is a Mailbox: every message is handled at most once,
\* in the order of the pushes, and none that nobody pushed ("The queue may be flush",
\* MessageQueue.cpp:180); the thread ends only after MSG_QUIT was pushed.
IsMailbox == Promise!Spec

\* A message that was pushed is handled, unless the thread was told to stop.
Delivered ==
    \A m \in Messages : Contains(queue, m) ~> (handled = m \/ reqAbort)

\* stop() returns: SysMessager, asleep or not, sees m_reqAbort or MSG_QUIT.
StopReturns == (stopper # "idle") ~> (stopper = "done")
=============================================================================
