------------------------------ MODULE Mailbox ------------------------------
(***************************************************************************)
(* What a MessageQueue with its SysMessager promises: one box, in which    *)
(* any thread puts messages and from which they are handled one by one, in *)
(* the order they were put in.  The box closes only for a message Quit.    *)
(***************************************************************************)
EXTENDS Sequences, SequencesExt

CONSTANTS Messages, Quit, NoMessage

VARIABLES box,      \* the messages put in and not handled yet
          handled,  \* the message handled last
          open      \* are messages still handled?

vars == <<box, handled, open>>

Init == box = <<>> /\ handled = NoMessage /\ open = TRUE

Put(m) == box' = Append(box, m) /\ UNCHANGED <<handled, open>>

Handle ==
    /\ open /\ box # <<>>
    /\ handled' = Head(box) /\ box' = Tail(box)
    /\ UNCHANGED open

Close ==
    /\ open /\ (handled = Quit \/ Contains(box, Quit))
    /\ open' = FALSE
    /\ UNCHANGED <<box, handled>>

Next == (\E m \in Messages \cup {Quit} : Put(m)) \/ Handle \/ Close

Spec == Init /\ [][Next]_vars
=============================================================================
