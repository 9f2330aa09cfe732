------------------------- MODULE MessageQueueProofs -------------------------
(***************************************************************************)
(* MessageQueue, for any number of pushing threads and of messages: the    *)
(* types, that no wake-up is lost, and that the queue with the SysMessager *)
(* thread implements Mailbox.                                              *)
(***************************************************************************)
EXTENDS MessageQueue, SeqLemmas, TLAPS

LEMMA TypeInductive == TypeOK /\ [Next]_vars => TypeOK'
<1> SUFFICES ASSUME TypeOK, [Next]_vars PROVE TypeOK'
    OBVIOUS
<1> USE DEF TypeOK
<1>1. ASSUME NEW p \in Producers, Push(p) PROVE TypeOK'
    <2>1. pushed'[p] \in 1..MaxPush /\ pushed' \in [Producers -> 0..MaxPush]
        BY <1>1, BoundAssumption DEF Push
    <2>2. <<p, pushed'[p]>> \in Messages
        BY <2>1 DEF Messages
    <2>3. queue' \in Seq(Messages \cup {Quit})
        BY <1>1, <2>2 DEF Push
    <2> QED BY <1>1, <2>1, <2>3 DEF Push, messagerVars, condVars
<1>2. ASSUME NEW p \in Producers, Signal(p) PROVE TypeOK'
    BY <1>2 DEF Signal, messagerVars, cond!SetEvent
<1>3. CASE SysMessager
    <2>1. CASE Consume \/ Loop
        BY <2>1 DEF Consume, Loop, producerVars, condVars
    <2>2. CASE Wait
        BY <2>2 DEF Wait, producerVars, cond!BeginWait
    <2>3. CASE Take
        BY <2>3, SMTT(30) DEF Take, producerVars, condVars
    <2>4. CASE Process
        BY <2>4 DEF Process, producerVars, condVars
    <2> QED BY <1>3, <2>1, <2>2, <2>3, <2>4 DEF SysMessager
<1>4. CASE StopPush
    BY <1>4 DEF StopPush, producerVars, messagerVars, condVars
<1>5. CASE Stopping
    BY <1>5 DEF Stopping, StopSignal, StopAbort, StopJoined, producerVars, messagerVars,
       condVars, cond!SetEvent
<1>6. CASE SpuriousWake
    BY <1>6 DEF SpuriousWake, producerVars, messagerVars, cond!Wake
<1>7. CASE UNCHANGED vars
    BY <1>7 DEF vars, producerVars, messagerVars, condVars
<1> QED BY <1>1, <1>2, <1>3, <1>4, <1>5, <1>6, <1>7 DEF Next

\* Every variable has its type, in every reachable state.
THEOREM TypeCorrect == Spec => []TypeOK
<1>1. ASSUME Init PROVE TypeOK
    <2>1. queue \in Seq(Messages \cup {Quit}) /\ waiters \subseteq {Messager} /\ unblock = FALSE
        BY <1>1 DEF Init, cond!Init
    <2>2. pushed \in [Producers -> 0..MaxPush]
        BY <1>1, BoundAssumption DEF Init
    <2> QED BY <1>1, <2>1, <2>2 DEF Init, TypeOK
<1> QED BY <1>1, TypeInductive, PTL DEF Spec
-----------------------------------------------------------------------------
EventComing == stopper = "signal" \/ \E p \in Producers : producer[p] = "signal"

\* What NoLostWakeup rests on.  The queue was empty when consume looked at it, and a
\* push since then has its event still to come, because the mutex is held until the
\* wait; a thread that waits and is not woken had no event since.
WakeupInv ==
    /\ Messager \in waiters => messager = "waiting"
    /\ messager = "toWait" /\ queue # <<>> => EventComing
    /\ NoLostWakeup

LEMMA WakeupInductive == TypeOK /\ WakeupInv /\ [Next]_vars => WakeupInv'
<1> SUFFICES ASSUME TypeOK, WakeupInv, [Next]_vars PROVE WakeupInv'
    OBVIOUS
<1> USE DEF TypeOK, WakeupInv, NoLostWakeup, EventComing
<1>1. ASSUME NEW p \in Producers, Push(p) PROVE WakeupInv'
    <2>1. producer'[p] = "signal"
        BY <1>1 DEF Push
    <2> QED BY <1>1, <2>1 DEF Push, messagerVars, condVars
<1>2. ASSUME NEW p \in Producers, Signal(p) PROVE WakeupInv'
    <2>1. waiters' = {}
        BY <1>2 DEF Signal, cond!SetEvent
    <2>2. messager' = messager /\ messager # "toWait"
        BY <1>2 DEF Signal, MutexFree, messagerVars
    <2> QED BY <2>1, <2>2
<1>3. CASE SysMessager
    <2>1. CASE Consume
        <3>1. Messager \notin waiters /\ waiters' = waiters
            BY <2>1 DEF Consume, InConsume, cond!Woken, condVars
        <3>2. messager' = IF queue # <<>> THEN "take" ELSE "toWait"
            BY <2>1 DEF Consume, CanConsume
        <3> QED BY <2>1, <3>1, <3>2 DEF Consume
    <2>2. CASE Wait
        BY <2>2 DEF Wait, producerVars, cond!BeginWait
    <2>3. CASE Take \/ Process \/ Loop
        BY <2>3 DEF Take, Process, Loop, producerVars, condVars
    <2> QED BY <1>3, <2>1, <2>2, <2>3 DEF SysMessager
<1>4. CASE StopPush
    BY <1>4 DEF StopPush, producerVars, messagerVars, condVars
<1>5. CASE Stopping
    <2>1. CASE StopSignal
        <3>1. waiters' = {}
            BY <2>1 DEF StopSignal, cond!SetEvent
        <3>2. messager' = messager /\ messager # "toWait"
            BY <2>1 DEF StopSignal, MutexFree, messagerVars
        <3> QED BY <3>1, <3>2
    <2>2. CASE StopAbort \/ StopJoined
        BY <2>2 DEF StopAbort, StopJoined, producerVars, messagerVars, condVars
    <2> QED BY <1>5, <2>1, <2>2 DEF Stopping
<1>6. CASE SpuriousWake
    BY <1>6 DEF SpuriousWake, producerVars, messagerVars, cond!Wake
<1>7. CASE UNCHANGED vars
    BY <1>7 DEF vars, producerVars, messagerVars, condVars
<1> QED BY <1>1, <1>2, <1>3, <1>4, <1>5, <1>6, <1>7 DEF Next

LEMMA WakeupHolds == Spec => []WakeupInv
<1>1. Init => WakeupInv
    BY DEF Init, WakeupInv, NoLostWakeup, cond!Init
<1> QED BY <1>1, WakeupInductive, TypeCorrect, PTL DEF Spec

\* SysMessager never sleeps on a queue that has a message, unless an event is on its way,
\* whatever number of threads push.
THEOREM NoLostWakeupHolds == Spec => []NoLostWakeup
<1>1. WakeupInv => NoLostWakeup
    BY DEF WakeupInv
<1> QED BY <1>1, WakeupHolds, PTL
-----------------------------------------------------------------------------
Box == InHand \o queue

\* What the refinement rests on: consume found a message that nobody else takes, and
\* from the push of MSG_QUIT on it is in the box until the thread, having handled it,
\* ends.
QuitSeen == handled = Quit /\ messager = "loop" /\ reqAbort
MailInv ==
    /\ messager = "take" => queue # <<>>
    /\ Contains(Box, Quit) => stopper # "idle"
    /\ reqAbort => stopper # "idle"
    /\ stopper # "idle" /\ messager # "exit" => Contains(Box, Quit) \/ QuitSeen

\* Quit is in the box when it is in the hand or in the queue.
LEMMA InBox ==
    ASSUME TypeOK
    PROVE  Contains(Box, Quit) <=> (messager = "process" /\ msg = Quit) \/ Contains(queue, Quit)
<1>1. CASE messager = "process"
    <2>1. Box = <<msg>> \o queue
        BY <1>1 DEF Box, InHand
    <2>2. /\ Len(Box) = Len(queue) + 1 /\ Box[1] = msg
          /\ \A i \in 1..Len(queue) : Box[i + 1] = queue[i]
          /\ \A i \in 2..Len(Box) : Box[i] = queue[i - 1]
        BY <2>1 DEF TypeOK
    <2>3. ASSUME Contains(Box, Quit) PROVE msg = Quit \/ Contains(queue, Quit)
        <3>1. PICK i \in 1..Len(Box) : Box[i] = Quit
            BY <2>3 DEF Contains
        <3>2. CASE i = 1
            BY <3>1, <3>2, <2>2
        <3>3. CASE i # 1
            <4>1. i - 1 \in 1..Len(queue) /\ queue[i - 1] = Quit
                BY <3>1, <3>3, <2>2, LenProperties DEF TypeOK
            <4> QED BY <4>1 DEF Contains
        <3> QED BY <3>2, <3>3
    <2>4. ASSUME Contains(queue, Quit) PROVE Contains(Box, Quit)
        <3>1. PICK i \in 1..Len(queue) : queue[i] = Quit
            BY <2>4 DEF Contains
        <3>2. i + 1 \in 1..Len(Box) /\ Box[i + 1] = Quit
            BY <3>1, <2>2, LenProperties DEF TypeOK
        <3> QED BY <3>2 DEF Contains
    <2>5. ASSUME msg = Quit PROVE Contains(Box, Quit)
        <3>1. 1 \in 1..Len(Box) /\ Box[1] = Quit
            BY <2>5, <2>2, LenProperties DEF TypeOK
        <3> QED BY <3>1 DEF Contains
    <2> QED BY <1>1, <2>3, <2>4, <2>5
<1>2. CASE messager # "process"
    <2>1. Box = queue
        BY <1>2 DEF Box, InHand, TypeOK
    <2> QED BY <1>2, <2>1
<1> QED BY <1>1, <1>2

\* A push appends to the queue.
LEMMA AppendQuit ==
    ASSUME NEW S, NEW s \in Seq(S), NEW e \in S
    PROVE  Contains(Append(s, e), Quit) <=> Contains(s, Quit) \/ e = Quit
<1>1. /\ Len(Append(s, e)) = Len(s) + 1 /\ Append(s, e)[Len(s) + 1] = e
      /\ \A i \in 1..Len(s) : Append(s, e)[i] = s[i]
    OBVIOUS
<1>2. ASSUME Contains(s, Quit) PROVE Contains(Append(s, e), Quit)
    <2>1. PICK i \in 1..Len(s) : s[i] = Quit
        BY <1>2 DEF Contains
    <2>2. i \in 1..Len(Append(s, e)) /\ Append(s, e)[i] = Quit
        BY <1>1, <2>1, LenProperties
    <2> QED BY <2>2 DEF Contains
<1>3. ASSUME e = Quit PROVE Contains(Append(s, e), Quit)
    <2>1. Len(s) + 1 \in 1..Len(Append(s, e))
        BY <1>1, LenProperties
    <2> QED BY <1>1, <1>3, <2>1 DEF Contains
<1>4. ASSUME Contains(Append(s, e), Quit), e # Quit PROVE Contains(s, Quit)
    <2>1. PICK i \in 1..Len(Append(s, e)) : Append(s, e)[i] = Quit
        BY <1>4 DEF Contains
    <2>2. i \in 1..Len(s) /\ s[i] = Quit
        BY <1>1, <1>4, <2>1, LenProperties
    <2> QED BY <2>2 DEF Contains
<1> QED BY <1>2, <1>3, <1>4

\* Taking the head of the queue takes nothing else.
LEMMA HeadTailQuit ==
    ASSUME NEW S, NEW s \in Seq(S), s # <<>>
    PROVE  Contains(s, Quit) <=> Head(s) = Quit \/ Contains(Tail(s), Quit)
<1>1. /\ Len(s) \in Nat \ {0} /\ Head(s) = s[1] /\ Len(Tail(s)) = Len(s) - 1
      /\ \A i \in 1..Len(s) - 1 : Tail(s)[i] = s[i + 1]
    OBVIOUS
<1>2. ASSUME Contains(s, Quit), Head(s) # Quit PROVE Contains(Tail(s), Quit)
    <2>1. PICK i \in 1..Len(s) : s[i] = Quit
        BY <1>2 DEF Contains
    <2>2. i - 1 \in 1..Len(Tail(s)) /\ Tail(s)[i - 1] = Quit
        BY <1>1, <1>2, <2>1
    <2> QED BY <2>2 DEF Contains
<1>3. ASSUME Head(s) = Quit PROVE Contains(s, Quit)
    BY <1>1, <1>3 DEF Contains
<1>4. ASSUME Contains(Tail(s), Quit) PROVE Contains(s, Quit)
    <2>1. PICK i \in 1..Len(Tail(s)) : Tail(s)[i] = Quit
        BY <1>4 DEF Contains
    <2>2. i + 1 \in 1..Len(s) /\ s[i + 1] = Quit
        BY <1>1, <2>1
    <2> QED BY <2>2 DEF Contains
<1> QED BY <1>2, <1>3, <1>4

\* The steps that leave alone what MailInv speaks of.
mailVars == <<queue, messager, msg, handled, reqAbort, stopper>>

LEMMA MailInductive == TypeOK /\ MailInv /\ [Next]_vars => MailInv'
<1> SUFFICES ASSUME TypeOK, MailInv, [Next]_vars PROVE MailInv'
    OBVIOUS
<1> DEFINE inHand  == messager = "process" /\ msg = Quit
           inQueue == Contains(queue, Quit)
<1>a. Contains(Box, Quit) <=> inHand \/ inQueue
    BY InBox
<1>b. Contains(Box, Quit)' <=> inHand' \/ inQueue'
    <2>1. TypeOK'
        BY TypeInductive
    <2> QED BY <2>1, InBox, PTL
<1> HIDE DEF inHand, inQueue
<1>1. ASSUME UNCHANGED mailVars PROVE MailInv'
    <2>1. (inHand' <=> inHand) /\ (inQueue' <=> inQueue)
        BY <1>1 DEF mailVars, inHand, inQueue
    <2> QED BY <1>1, <1>a, <1>b, <2>1 DEF mailVars, MailInv, QuitSeen
<1>2. ASSUME NEW p \in Producers, Push(p) PROVE MailInv'
    <2>1. pushed'[p] \in 1..MaxPush
        BY <1>2, BoundAssumption DEF Push, TypeOK
    <2>2. <<p, pushed'[p]>> \in Messages /\ <<p, pushed'[p]>> # Quit
        BY <2>1, NamesAssumption DEF Messages
    <2>3. inQueue' <=> inQueue
        BY <1>2, <2>2, AppendQuit, SMTT(30) DEF Push, TypeOK, inQueue
    <2>4. /\ UNCHANGED <<messager, msg, handled, reqAbort, stopper>>
          /\ queue' # <<>>
        BY <1>2 DEF Push, messagerVars, TypeOK
    <2>5. inHand' <=> inHand
        BY <2>4 DEF inHand
    <2> QED BY <1>a, <1>b, <2>3, <2>4, <2>5 DEF MailInv, QuitSeen
<1>3. CASE Consume
    <2>1. messager # "process" /\ messager' # "process" /\ messager # "exit"
        BY <1>3 DEF Consume, InConsume
    <2>2. /\ UNCHANGED <<queue, stopper, reqAbort>> /\ ~QuitSeen
          /\ messager' = "take" => queue # <<>>
        BY <1>3 DEF Consume, InConsume, CanConsume, QuitSeen
    <2>3. ~inHand /\ ~inHand' /\ (inQueue' <=> inQueue)
        BY <2>1, <2>2 DEF inHand, inQueue
    <2> QED BY <1>a, <1>b, <2>1, <2>2, <2>3 DEF MailInv
<1>4. CASE Wait
    <2>1. messager = "toWait" /\ messager' = "waiting" /\ UNCHANGED <<queue, stopper, reqAbort>>
        BY <1>4 DEF Wait
    <2>2. ~inHand /\ ~inHand' /\ (inQueue' <=> inQueue) /\ ~QuitSeen
        BY <2>1 DEF inHand, inQueue, QuitSeen
    <2> QED BY <1>a, <1>b, <2>1, <2>2 DEF MailInv
<1>5. CASE Take
    <2>1. /\ messager = "take" /\ queue # <<>> /\ msg' = Head(queue) /\ queue' = Tail(queue)
          /\ messager' = "process" /\ UNCHANGED <<stopper, reqAbort>>
        BY <1>5 DEF Take, MailInv
    <2>2. inQueue <=> inHand' \/ inQueue'
        BY <2>1, HeadTailQuit DEF inHand, inQueue, TypeOK
    <2>3. ~inHand /\ ~QuitSeen
        BY <2>1 DEF inHand, QuitSeen
    <2> QED BY <1>a, <1>b, <2>1, <2>2, <2>3 DEF MailInv
<1>6. CASE Process
    <2>1. /\ messager = "process" /\ messager' = "loop" /\ handled' = msg
          /\ reqAbort' = (msg = Quit \/ reqAbort) /\ UNCHANGED <<queue, stopper>>
        BY <1>6 DEF Process
    <2>2. /\ inHand <=> msg = Quit
          /\ ~inHand' /\ (inQueue' <=> inQueue) /\ ~QuitSeen
          /\ msg = Quit => QuitSeen'
        BY <2>1 DEF inHand, inQueue, QuitSeen
    <2> QED BY <1>a, <1>b, <2>1, <2>2 DEF MailInv
<1>7. CASE Loop
    <2>1. /\ messager = "loop" /\ messager' = IF reqAbort THEN "exit" ELSE "pop"
          /\ UNCHANGED <<queue, stopper, reqAbort>>
        BY <1>7 DEF Loop
    <2>2. /\ ~inHand /\ ~inHand' /\ (inQueue' <=> inQueue)
          /\ QuitSeen => messager' = "exit"
        BY <2>1 DEF inHand, inQueue, QuitSeen
    <2> QED BY <1>a, <1>b, <2>1, <2>2 DEF MailInv
<1>8. CASE StopPush
    <2>1. /\ stopper' = "signal" /\ queue' = Append(queue, Quit)
          /\ UNCHANGED <<messager, msg>>
        BY <1>8 DEF StopPush, messagerVars
    <2>2. inQueue'
        BY <2>1, AppendQuit DEF TypeOK, inQueue
    <2>3. queue' # <<>>
        BY <2>1 DEF TypeOK
    <2> QED BY <1>b, <2>1, <2>2, <2>3 DEF MailInv
<1>9. CASE Stopping
    <2>1. /\ stopper # "idle" /\ stopper' # "idle"
          /\ UNCHANGED <<queue, messager, msg, handled>>
          /\ reqAbort => reqAbort'
        BY <1>9 DEF Stopping, StopSignal, StopAbort, StopJoined, messagerVars
    <2>2. (inHand' <=> inHand) /\ (inQueue' <=> inQueue)
        BY <2>1 DEF inHand, inQueue
    <2> QED BY <1>a, <1>b, <2>1, <2>2 DEF MailInv, QuitSeen
<1>10. ASSUME NEW p \in Producers, Signal(p) PROVE MailInv'
    BY <1>1, <1>10 DEF Signal, mailVars, messagerVars
<1>11. CASE SpuriousWake \/ UNCHANGED vars
    BY <1>1, <1>11 DEF SpuriousWake, mailVars, vars, messagerVars
<1> QED BY <1>2, <1>3, <1>4, <1>5, <1>6, <1>7, <1>8, <1>9, <1>10, <1>11
       DEF Next, SysMessager
-----------------------------------------------------------------------------
\* The queue and its thread implement Mailbox, safety part: each message is handled at
\* most once, in the order of the pushes; nothing else is handled; and the thread ends
\* only for a MSG_QUIT that was pushed.
THEOREM ImplementsMailbox == Spec => IsMailbox
<1> USE DEF InHand
<1>1. Init => MailInv /\ Promise!Init
    <2> SUFFICES ASSUME Init PROVE MailInv /\ Promise!Init
        OBVIOUS
    <2>1. Box = <<>>
        BY DEF Init, Box
    <2>2. ~Contains(Box, Quit)
        BY <2>1 DEF Contains
    <2> QED BY <2>1, <2>2 DEF Init, MailInv, Promise!Init, Box
<1>2. TypeOK /\ MailInv /\ [Next]_vars => [Promise!Next]_(Promise!vars)
    <2> SUFFICES ASSUME TypeOK, MailInv, [Next]_vars PROVE [Promise!Next]_(Promise!vars)
        OBVIOUS
    <2> USE DEF Promise!vars
    <2>1. ASSUME UNCHANGED <<queue, msg, handled>>, messager # "process", messager' # "process",
                 messager # "exit", messager' # "exit"
          PROVE  UNCHANGED Promise!vars
        BY <2>1
    <2>2. ASSUME UNCHANGED <<queue, messager, msg, handled>> PROVE UNCHANGED Promise!vars
        BY <2>2
    <2>3. ASSUME NEW m \in Messages \cup {Quit}, queue' = Append(queue, m),
                 UNCHANGED <<messager, msg, handled>>
          PROVE  Promise!Next
        <3>1. InHand' = InHand
            BY <2>3
        <3>2. <<msg>> \in Seq(Messages \cup {Quit, NoMessage})
            BY DEF TypeOK
        <3>3. InHand \in Seq(Messages \cup {Quit, NoMessage})
            <4>1. CASE messager = "process"
                BY <3>2, <4>1
            <4>2. CASE messager # "process"
                <5>1. InHand = <<>>
                    BY <4>2
                <5> HIDE DEF InHand
                <5> QED BY <5>1
            <4> QED BY <4>1, <4>2
        <3>4. (InHand \o queue)' = Append(InHand \o queue, m)
            BY <2>3, <3>1, <3>3 DEF TypeOK
        <3> QED BY <2>3, <3>4 DEF Promise!Next, Promise!Put
    <2>4. ASSUME NEW p \in Producers, Push(p) PROVE Promise!Next
        <3>1. <<p, pushed'[p]>> \in Messages
            BY <2>4, BoundAssumption DEF Push, TypeOK, Messages
        <3> QED BY <2>3, <2>4, <3>1 DEF Push, messagerVars
    <2>5. CASE StopPush
        BY <2>3, <2>5 DEF StopPush, messagerVars
    <2>6. CASE Consume \/ Wait
        BY <2>1, <2>6 DEF Consume, InConsume, Wait
    <2>7. CASE Take
        <3>1. messager = "take" /\ queue # <<>> /\ msg' = Head(queue) /\ queue' = Tail(queue)
              /\ messager' = "process" /\ handled' = handled
            BY <2>7 DEF Take, MailInv
        <3>2. (InHand \o queue)' = <<Head(queue)>> \o Tail(queue) /\ InHand \o queue = queue
            BY <3>1 DEF TypeOK
        <3>3. <<Head(queue)>> \o Tail(queue) = queue
            BY <3>1 DEF TypeOK
        <3> QED BY <3>1, <3>2, <3>3
    <2>8. CASE Process
        <3>1. /\ messager = "process" /\ messager' = "loop" /\ queue' = queue
              /\ handled' = msg
            BY <2>8 DEF Process
        <3>2. InHand \o queue = <<msg>> \o queue /\ (InHand \o queue)' = queue
            BY <3>1 DEF TypeOK
        <3>3. <<msg>> \o queue # <<>> /\ Head(<<msg>> \o queue) = msg
              /\ Tail(<<msg>> \o queue) = queue
            BY DEF TypeOK
        <3> QED BY <3>1, <3>2, <3>3 DEF Promise!Next, Promise!Handle
    <2>9. CASE Loop
        <3>1. CASE ~reqAbort
            BY <2>1, <2>9, <3>1 DEF Loop
        <3>2. CASE reqAbort
            <4>1. /\ messager = "loop" /\ messager' = "exit"
                  /\ UNCHANGED <<queue, msg, handled>>
                BY <2>9, <3>2 DEF Loop
            <4>2. Contains(InHand \o queue, Quit) \/ handled = Quit
                BY <3>2, <4>1 DEF MailInv, Box, QuitSeen
            <4>3. (InHand \o queue)' = InHand \o queue
                BY <4>1
            <4> QED BY <4>1, <4>2, <4>3 DEF Promise!Next, Promise!Close, Promise!Contains, Contains
        <3> QED BY <3>1, <3>2
    <2>10. ASSUME NEW p \in Producers, Signal(p) PROVE UNCHANGED Promise!vars
        BY <2>2, <2>10 DEF Signal, messagerVars
    <2>11. CASE Stopping
        BY <2>2, <2>11 DEF Stopping, StopSignal, StopAbort, StopJoined, messagerVars
    <2>12. CASE SpuriousWake \/ UNCHANGED vars
        BY <2>2, <2>12 DEF SpuriousWake, vars, messagerVars
    <2> QED BY <2>4, <2>5, <2>6, <2>7, <2>8, <2>9, <2>10, <2>11, <2>12 DEF Next, SysMessager
<1> QED BY <1>1, <1>2, MailInductive, TypeCorrect, PTL DEF Spec, IsMailbox, Promise!Spec
=============================================================================
