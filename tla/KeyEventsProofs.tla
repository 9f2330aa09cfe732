-------------------------- MODULE KeyEventsProofs --------------------------
(***************************************************************************)
(* What TLAPS proves of KeyEvents, for any processes, contexts and keys    *)
(* and any bounds.                                                         *)
(***************************************************************************)
EXTENDS KeyEvents, SeqLemmas

USE ConstantsAssumption
USE DEF ConstantsAssumption, daemonVars, clientVars, worldVars

\* The first request and the rest of the queue.
LEMMA FirstType ==
    ASSUME inbox \in Seq(Requests), inbox # <<>>
    PROVE  First \in Requests /\ Client \in Apps /\ Tail(inbox) \in Seq(Requests)
<1>1. First \in Requests /\ Tail(inbox) \in Seq(Requests)
    BY HeadTailProperties DEF First
<1>2. First.ctx \in Contexts
    BY <1>1 DEF Requests
<1> QED BY <1>1, <1>2 DEF Client

LEMMA DefaultType == Default \in Preedits /\ \A a \in Apps : a \in Preedits /\ PreeditOf(a) \in Preedits
BY DEF Preedits, PreeditOf

\* What a key does to a preedit is a state of it again.
LEMMA StateType ==
    ASSUME NEW s \in PreeditStates, NEW k, NEW sh \in BOOLEAN
    PROVE  /\ NoteModifier(s, k, sh) \in PreeditStates
           /\ SwitchCE(s) \in PreeditStates
           /\ SwitchOn(s) \in PreeditStates
           /\ ActCN(s) \in BOOLEAN
           /\ ActCN(NoteModifier(s, k, sh)) = ActCN(s)
           /\ \A e \in Effects(k, sh) : /\ e.text \in BOOLEAN
                                        /\ [s EXCEPT !.start = e.start] \in PreeditStates
                                        /\ ActCN([s EXCEPT !.start = e.start]) = ActCN(s)
BY DEF PreeditStates, NoteModifier, SwitchCE, SwitchOn, ActCN, Effects

LEMMA ReplyType ==
    ASSUME NEW s, NEW used \in BOOLEAN
    PROVE  KeyReply(used, s) \in 0..2
BY DEF KeyReply

\* Becomes, in types.
LEMMA BecomesType ==
    ASSUME TypeOK, NEW p \in Preedits, NEW s \in PreeditStates,
           NEW queue \in Seq(Requests), NEW told, Becomes(p, s, queue, told)
    PROVE  /\ preedit' \in [Preedits -> PreeditStates]
           /\ behind' \in [Apps -> BOOLEAN]
           /\ held' \in [Keys -> Strokes \cup {"up"}]
           /\ inbox' \in Seq(Requests)
<1>1. preedit' \in [Preedits -> PreeditStates]
    BY DEF TypeOK, Becomes
<1>2. behind' \in [Apps -> BOOLEAN]
    BY DEF TypeOK, Becomes
<1>3. held' \in [Keys -> Strokes \cup {"up"}]
    BY DEF TypeOK, Becomes, Void, Strokes
<1>4. inbox' \in Seq(Requests)
    <2>1. ASSUME NEW i \in DOMAIN queue
          PROVE  queue[i] \in Requests /\ [queue[i] EXCEPT !.stroke = "void"] \in Requests
        <3>1. queue[i] \in Requests
            BY ElementOfSeq, LenProperties
        <3> QED BY <3>1 DEF Requests, Strokes
    <2>2. DOMAIN queue = 1..Len(queue) /\ Len(queue) \in Nat
        BY LenProperties
    <2>3. /\ DOMAIN inbox' = DOMAIN queue
          /\ \A i \in DOMAIN queue : inbox'[i] \in Requests
        BY <2>1 DEF Becomes
    <2>4. inbox' = [i \in DOMAIN queue |-> inbox'[i]]
        BY DEF Becomes
    <2> QED BY <2>2, <2>3, <2>4, SeqDef
<1> QED BY <1>1, <1>2, <1>3, <1>4

LEMMA SendType ==
    ASSUME TypeOK, NEW kind \in {"press", "release", "shift", "onoff", "in", "out"},
           NEW c \in Contexts, NEW k \in KeyClasses, NEW st \in Strokes, NEW late \in BOOLEAN,
           Send(kind, c, k, st, late)
    PROVE  inbox' \in Seq(Requests)
BY AppendProperties DEF TypeOK, Send, Requests

LEMMA CallType ==
    ASSUME TypeOK, NEW kind \in {"press", "release", "shift", "onoff", "in"},
           NEW c \in Contexts, NEW k \in KeyClasses, NEW st \in Strokes,
           Call(kind, c, k, st)
    PROVE  inbox' \in Seq(Requests) /\ ask' \in [Apps -> Asks]
<1>1. inbox' \in Seq(Requests)
    BY SendType DEF Call
<1>2. "other" \in KeyClasses
    BY DEF KeyClasses
<1>3. ask' \in [Apps -> Asks]
    BY <1>2 DEF TypeOK, Call, Asks
<1> QED BY <1>1, <1>3

\* A reply, in types.
LEMMA ReplySent ==
    ASSUME TypeOK, inbox # <<>>, NEW ans \in 0..2, Reply(ans)
    PROVE  ask' \in [Apps -> Asks]
<1>1. Client \in Apps
    BY FirstType DEF TypeOK
<1>2. ask[Client] \in Asks
    BY <1>1 DEF TypeOK
<1>3. ans \in -1..2
    OBVIOUS
<1>4. [ask[Client] EXCEPT !.ans = ans] \in Asks
    BY <1>2, <1>3 DEF Asks
<1> QED BY <1>1, <1>4 DEF TypeOK, Reply

LEMMA CommitType ==
    ASSUME TypeOK, NEW c \in Contexts, NEW text \in BOOLEAN, Commit(c, text)
    PROVE  texts' \in Seq(Texts)
<1>1. Calm(c) \in BOOLEAN
    BY DEF Calm
<1>2. [ctx |-> c, left |-> Apps, got |-> {}, calm |-> Calm(c)] \in Texts
    BY <1>1 DEF Texts
<1> QED BY <1>2, AppendProperties DEF TypeOK, Commit

\* Becomes of the preedit of the request's client, with the rest of the queue.
LEMMA ServedType ==
    ASSUME TypeOK, inbox # <<>>, NEW s \in PreeditStates, NEW told,
           Becomes(PreeditOf(Client), s, Tail(inbox), told)
    PROVE  /\ preedit' \in [Preedits -> PreeditStates]
           /\ behind' \in [Apps -> BOOLEAN]
           /\ held' \in [Keys -> Strokes \cup {"up"}]
           /\ inbox' \in Seq(Requests)
<1>1. Client \in Apps /\ Tail(inbox) \in Seq(Requests)
    BY FirstType DEF TypeOK
<1>2. PreeditOf(Client) \in Preedits
    BY <1>1, DefaultType
<1> QED BY <1>1, <1>2, BecomesType

LEMMA UserType ==
    ASSUME TypeOK, NEW c \in Contexts, User(c)
    PROVE  TypeOK'
<1>0. AppOf[c] \in Apps /\ "other" \in KeyClasses /\ "void" \in Strokes
    BY DEF KeyClasses, Strokes
<1>1. ASSUME Create(c) PROVE TypeOK'
    BY <1>0, <1>1 DEF Create, TypeOK
<1>2. ASSUME MoveFocus(c) PROVE TypeOK'
    <2>1. texts' \in Seq(Texts)
        <3>1. ASSUME NEW i \in DOMAIN texts PROVE [texts[i] EXCEPT !.calm = FALSE] \in Texts
            <4>1. texts[i] \in Texts
                BY ElementOfSeq, LenProperties DEF TypeOK
            <4> QED BY <4>1 DEF Texts
        <3>2. DOMAIN texts = 1..Len(texts) /\ Len(texts) \in Nat
            BY LenProperties DEF TypeOK
        <3> QED BY <1>2, <3>1, <3>2, SeqDef DEF MoveFocus
    <2>2. held' \in [Keys -> Strokes \cup {"up"}]
        BY <1>2 DEF MoveFocus, VoidAll, Void, Strokes
    <2> QED BY <1>2, <2>1, <2>2 DEF MoveFocus, TypeOK
<1>3. ASSUME FocusIn(c) PROVE TypeOK'
    <2>1. inbox' \in Seq(Requests) /\ ask' \in [Apps -> Asks]
        BY <1>0, <1>3, CallType DEF FocusIn
    <2> QED BY <1>0, <1>3, <2>1 DEF FocusIn, TypeOK
<1>4. ASSUME FocusOut(c) PROVE TypeOK'
    <2>1. inbox' \in Seq(Requests)
        BY <1>0, <1>4, SendType DEF FocusOut, TypeOK
    <2> QED BY <1>0, <1>4, <2>1 DEF FocusOut, ForgetFocus, TypeOK
<1>5. ASSUME ShiftRelease(c) PROVE TypeOK'
    <2>1. inbox' \in Seq(Requests) /\ ask' \in [Apps -> Asks]
        BY <1>0, <1>5, CallType DEF ShiftRelease
    <2>2. held' \in [Keys -> Strokes \cup {"up"}]
        BY <1>5 DEF ShiftRelease, VoidAll, Void, Strokes
    <2> QED BY <1>5, <2>1, <2>2 DEF ShiftRelease, TypeOK
<1>6. ASSUME OnOffRelease(c) PROVE TypeOK'
    <2>1. inbox' \in Seq(Requests) /\ ask' \in [Apps -> Asks]
        BY <1>0, <1>6, CallType DEF OnOffRelease
    <2> QED BY <1>6, <2>1 DEF OnOffRelease, TypeOK
<1>7. ASSUME NEW k \in Keys, KeyPress(c, k) PROVE TypeOK'
    <2>1. inbox' \in Seq(Requests) /\ ask' \in [Apps -> Asks]
        BY <1>0, <1>7, CallType DEF KeyPress, TypeOK
    <2>2. held' \in [Keys -> Strokes \cup {"up"}]
        BY <1>7 DEF KeyPress, TypeOK, Strokes
    <2> QED BY <1>7, <2>1, <2>2 DEF KeyPress, TypeOK
<1>8. ASSUME NEW k \in Keys, KeyRelease(c, k) PROVE TypeOK'
    <2>1. held[k] \in Strokes
        BY <1>8 DEF KeyRelease, Down, TypeOK
    <2>2. inbox' \in Seq(Requests) /\ ask' \in [Apps -> Asks]
        BY <1>0, <1>8, <2>1, CallType DEF KeyRelease, TypeOK
    <2> QED BY <1>8, <2>2 DEF KeyRelease, TypeOK
<1> QED BY <1>1, <1>2, <1>3, <1>4, <1>5, <1>6, <1>7, <1>8 DEF User

LEMMA ClientType ==
    ASSUME TypeOK, NEW a \in Apps, ClientSteps(a)
    PROVE  TypeOK'
<1>0. NoAsk \in Asks
    BY DEF NoAsk, Asks, KeyClasses
<1>1. ASSUME Answered(a) PROVE TypeOK'
    <2>1. held' \in [Keys -> Strokes \cup {"up"}]
        BY <1>1 DEF Answered, Fallback, Strokes, TypeOK
    <2>2. g_im_active' \in [Apps -> BOOLEAN]
        BY <1>1 DEF Answered, TakeAnswer, TypeOK
    <2> QED BY <1>0, <1>1, <2>1, <2>2 DEF Answered, TypeOK
<1>2. ASSUME TimedOut(a) PROVE TypeOK'
    <2>1. held' \in [Keys -> Strokes \cup {"up"}]
        BY <1>2 DEF TimedOut, Fallback, Strokes, TypeOK
    <2>2. inbox' \in Seq(Requests)
        <3>1. ASSUME NEW i \in DOMAIN inbox
              PROVE  [inbox[i] EXCEPT !.late = @ \/ AppOf[inbox[i].ctx] = a] \in Requests
            <4>1. inbox[i] \in Requests
                BY ElementOfSeq, LenProperties DEF TypeOK
            <4> QED BY <4>1 DEF Requests
        <3>2. DOMAIN inbox = 1..Len(inbox) /\ Len(inbox) \in Nat
            BY LenProperties DEF TypeOK
        <3> QED BY <1>2, <3>1, <3>2, SeqDef DEF TimedOut
    <2>3. faults' \in 0..MaxFaults
        BY <1>2 DEF TimedOut, Fault, TypeOK
    <2> QED BY <1>0, <1>2, <2>1, <2>2, <2>3 DEF TimedOut, TypeOK
<1>3. ASSUME TakeText(a) PROVE TypeOK'
    <2>1. PICK i \in DOMAIN texts :
              texts' = IF texts[i].left = {a} THEN RemoveAt(texts, i)
                       ELSE [texts EXCEPT ![i].left = @ \ {a}, ![i].got = @ \cup Takers(a)]
        BY <1>3 DEF TakeText
    <2>2. DOMAIN texts = 1..Len(texts) /\ Len(texts) \in Nat
        BY LenProperties DEF TypeOK
    <2>3. texts[i] \in Texts
        BY <2>2, ElementOfSeq DEF TypeOK
    <2>4. [texts[i] EXCEPT !.left = @ \ {a}, !.got = @ \cup Takers(a)] \in Texts
        BY <2>3 DEF Texts, Takers, TypeOK
    <2>5. RemoveAt(texts, i) \in Seq(Texts)
        BY <2>2, RemoveAtType DEF TypeOK
    <2>6. ASSUME texts[i].left # {a} PROVE texts' \in Seq(Texts)
        <3> DEFINE t == [texts[i] EXCEPT !.left = @ \ {a}, !.got = @ \cup Takers(a)]
        <3>1. texts' = [texts EXCEPT ![i] = t]
            BY <2>1, <2>3, <2>6 DEF Texts
        <3>2. t \in Texts
            BY <2>4
        <3> HIDE DEF t
        <3> QED BY <2>2, <3>1, <3>2 DEF TypeOK
    <2>7. texts' \in Seq(Texts)
        BY <2>1, <2>5, <2>6
    <2> QED BY <1>3, <2>7 DEF TakeText, TypeOK
<1> QED BY <1>1, <1>2, <1>3 DEF ClientSteps

LEMMA DaemonType ==
    ASSUME TypeOK, Daemon
    PROVE  TypeOK'
<1>0. ASSUME inbox # <<>>
      PROVE  /\ First \in Requests /\ First.ctx \in Contexts /\ First.sh \in BOOLEAN
             /\ Client \in Apps /\ Tail(inbox) \in Seq(Requests)
             /\ Pre(Client) \in PreeditStates
    <2>1. First \in Requests /\ Client \in Apps /\ Tail(inbox) \in Seq(Requests)
        BY <1>0, FirstType DEF TypeOK
    <2> QED BY <2>1, DefaultType DEF Requests, Pre, TypeOK
<1>1. ASSUME ServePress PROVE TypeOK'
    <2>1. inbox # <<>> /\ imWants(View(Client), First.key, First.sh) \in BOOLEAN
        BY <1>1, <1>0, StateType DEF ServePress, IsFirst, imWants, View, ViewOf, IsMark
    <2>2. ask' \in [Apps -> Asks]
        BY <1>1, <2>1, ReplyType, ReplySent DEF ServePress
    <2>3. /\ preedit' \in [Preedits -> PreeditStates]
          /\ behind' \in [Apps -> BOOLEAN]
          /\ held' \in [Keys -> Strokes \cup {"up"}]
          /\ inbox' \in Seq(Requests)
        BY <1>0, <1>1, <2>1, ServedType DEF ServePress
    <2> QED BY <1>1, <2>2, <2>3 DEF ServePress, TypeOK
<1>2. ASSUME ServeRelease PROVE TypeOK'
    <2> DEFINE s == NoteModifier(Pre(Client), First.key, First.sh)
               used == Handles(View(Client), First.key, First.sh)
               t(e) == IF used THEN [s EXCEPT !.start = e.start] ELSE s
    <2>1. inbox # <<>>
        BY <1>2 DEF ServeRelease, IsFirst
    <2>2. used \in BOOLEAN
        BY <1>0, <2>1, StateType DEF Handles, View, ViewOf, IsMark, PreeditStates
    <2>3. s \in PreeditStates
        BY <1>0, <2>1, StateType
    <2>4. PICK e \in Effects(First.key, First.sh) :
              /\ Becomes(PreeditOf(Client), t(e), Tail(inbox), Told(used))
              /\ Commit(First.ctx, used /\ e.text)
              /\ Reply(KeyReply(used, t(e)))
        BY <1>2 DEF ServeRelease
    <2>5. t(e) \in PreeditStates /\ e.text \in BOOLEAN
        BY <1>0, <2>1, <2>3, StateType
    <2> HIDE DEF s, used, t
    <2>6. ask' \in [Apps -> Asks]
        BY <2>1, <2>2, <2>4, ReplyType, ReplySent
    <2>7. texts' \in Seq(Texts)
        <3>1. (used /\ e.text) \in BOOLEAN
            BY <2>2, <2>5
        <3> QED BY <1>0, <2>1, <2>4, <3>1, CommitType
    <2>8. /\ preedit' \in [Preedits -> PreeditStates]
          /\ behind' \in [Apps -> BOOLEAN]
          /\ held' \in [Keys -> Strokes \cup {"up"}]
          /\ inbox' \in Seq(Requests)
        BY <2>1, <2>4, <2>5, ServedType
    <2> QED BY <1>0, <1>2, <2>1, <2>6, <2>7, <2>8 DEF ServeRelease, TypeOK
<1>3. ASSUME ServeShift PROVE TypeOK'
    <2> DEFINE s == Pre(Client)
               used == s.on /\ ~s.chord
               t == IF used THEN SwitchCE(s) ELSE [s EXCEPT !.chord = @ /\ ~s.on]
    <2>1. inbox # <<>>
        BY <1>3 DEF ServeShift, IsFirst
    <2>2. used \in BOOLEAN /\ t \in PreeditStates
        BY <1>0, <2>1, StateType, ZenonT(40) DEF PreeditStates
    <2>3. (used /\ s.cn /\ s.start) \in BOOLEAN
        BY <2>2, <1>0, <2>1 DEF PreeditStates
    <2>4. /\ Becomes(PreeditOf(Client), t, Tail(inbox), Told(used))
          /\ Commit(First.ctx, used /\ s.cn /\ s.start)
          /\ Reply(KeyReply(used, t))
        BY <1>3 DEF ServeShift
    <2> HIDE DEF s, used, t
    <2>5. ask' \in [Apps -> Asks]
        BY <2>1, <2>2, <2>4, ReplyType, ReplySent
    <2>6. texts' \in Seq(Texts)
        BY <1>0, <2>1, <2>3, <2>4, CommitType
    <2>7. /\ preedit' \in [Preedits -> PreeditStates]
          /\ behind' \in [Apps -> BOOLEAN]
          /\ held' \in [Keys -> Strokes \cup {"up"}]
          /\ inbox' \in Seq(Requests)
        BY <2>1, <2>2, <2>4, ServedType
    <2> QED BY <1>3, <2>5, <2>6, <2>7 DEF ServeShift, TypeOK
<1>4. ASSUME ServeOnOff PROVE TypeOK'
    <2>1. inbox # <<>>
        BY <1>4 DEF ServeOnOff, IsFirst
    <2>2. SwitchOn(Pre(Client)) \in PreeditStates
        BY <1>0, <2>1, StateType
    <2>3. ask' \in [Apps -> Asks]
        BY <1>4, <2>1, ReplyType, ReplySent DEF ServeOnOff
    <2>4. /\ preedit' \in [Preedits -> PreeditStates]
          /\ behind' \in [Apps -> BOOLEAN]
          /\ held' \in [Keys -> Strokes \cup {"up"}]
          /\ inbox' \in Seq(Requests)
        BY <1>4, <2>1, <2>2, ServedType DEF ServeOnOff
    <2> QED BY <1>4, <2>3, <2>4 DEF ServeOnOff, TypeOK
<1>5. ASSUME ServeFocusIn PROVE TypeOK'
    <2>1. inbox # <<>>
        BY <1>5 DEF ServeFocusIn, IsFirst
    <2>2. ask' \in [Apps -> Asks]
        <3>1. Reply(IF ActCN(Pre(Client)) THEN 1 ELSE 0)
            BY <1>5 DEF ServeFocusIn
        <3>2. (IF ActCN(Pre(Client)) THEN 1 ELSE 0) \in 0..2
            OBVIOUS
        <3> QED BY <2>1, <3>1, <3>2, ReplySent
    <2>3. /\ preedit' \in [Preedits -> PreeditStates]
          /\ behind' \in [Apps -> BOOLEAN]
          /\ held' \in [Keys -> Strokes \cup {"up"}]
          /\ inbox' \in Seq(Requests)
        BY <1>0, <1>5, <2>1, ServedType DEF ServeFocusIn
    <2> QED BY <1>0, <1>5, <2>1, <2>2, <2>3 DEF ServeFocusIn, TypeOK
<1>6. ASSUME ServeFocusOut PROVE TypeOK'
    <2>1. inbox # <<>>
        BY <1>6 DEF ServeFocusOut, IsFirst
    <2> QED BY <1>0, <1>6, <2>1 DEF ServeFocusOut, focusOut, TypeOK
<1>7. TrayPreedit \in Preedits /\ (TrayPreedit \in Preedits => preedit[TrayPreedit] \in PreeditStates)
    BY DefaultType DEF TrayPreedit, TypeOK
<1>8. ASSUME NEW s \in PreeditStates, Fault, Becomes(TrayPreedit, s, inbox, {})
      PROVE  /\ preedit' \in [Preedits -> PreeditStates]
             /\ behind' \in [Apps -> BOOLEAN]
             /\ held' \in [Keys -> Strokes \cup {"up"}]
             /\ inbox' \in Seq(Requests)
             /\ faults' \in 0..MaxFaults
    <2>1. faults' \in 0..MaxFaults
        BY <1>8 DEF Fault, TypeOK
    <2>2. inbox \in Seq(Requests)
        BY DEF TypeOK
    <2> QED BY <1>7, <1>8, <2>1, <2>2, BecomesType
<1>9. ASSUME TraySwitchCE PROVE TypeOK'
    BY <1>7, <1>8, <1>9, StateType DEF TraySwitchCE, TypeOK
<1>10. ASSUME TraySwitchPun PROVE TypeOK'
    <2>1. [preedit[TrayPreedit] EXCEPT !.pun = ~@] \in PreeditStates
        BY <1>7 DEF PreeditStates
    <2> QED BY <1>8, <1>10, <2>1 DEF TraySwitchPun, TypeOK
<1> QED BY <1>1, <1>2, <1>3, <1>4, <1>5, <1>6, <1>9, <1>10 DEF Daemon

LEMMA InitType == Init => TypeOK
<1> SUFFICES ASSUME Init PROVE TypeOK
    OBVIOUS
<1>1. Off \in PreeditStates /\ NoAsk \in Asks
    BY DEF Off, PreeditStates, NoAsk, Asks, KeyClasses
<1>2. inbox \in Seq(Requests) /\ texts \in Seq(Texts)
    BY EmptySeq DEF Init
<1>3. faults \in 0..MaxFaults /\ mode \in {0, 1} /\ icFocus \in Contexts \cup {None}
    BY DEF Init
<1>4. /\ preedit \in [Preedits -> PreeditStates] /\ ask \in [Apps -> Asks]
      /\ held \in [Keys -> Strokes \cup {"up"}]
    BY <1>1 DEF Init
<1> QED BY <1>2, <1>3, <1>4 DEF Init, TypeOK

LEMMA StepType == TypeOK /\ [Next]_vars => TypeOK'
<1> SUFFICES ASSUME TypeOK, [Next]_vars PROVE TypeOK'
    OBVIOUS
<1>1. ASSUME ShiftPress PROVE TypeOK'
    <2>1. held' \in [Keys -> Strokes \cup {"up"}]
        BY <1>1 DEF ShiftPress, VoidAll, Void, Strokes
    <2> QED BY <1>1, <2>1 DEF ShiftPress, TypeOK
<1>2. ASSUME UNCHANGED vars PROVE TypeOK'
    BY <1>2 DEF vars, TypeOK
<1> QED BY <1>1, <1>2, UserType, ClientType, DaemonType DEF Next

\* Every variable has its type: what the D-Bus messages of gaimimcontext.c and DBusICSrv.cpp
\* carry, and the state on both sides.
THEOREM TypeCorrect == Spec => []TypeOK
BY InitType, StepType, PTL DEF Spec
-----------------------------------------------------------------------------
(* Calls: a process that waits has one request under way, or its reply. *)

\* The request of a process that is not late is the call that it waits in.
CallsExact ==
    /\ \A i \in DOMAIN inbox : ~inbox[i].late =>
          /\ ask[AppOf[inbox[i].ctx]].kind = inbox[i].kind
          /\ ask[AppOf[inbox[i].ctx]].ans = -1
    /\ \A i, j \in DOMAIN inbox :
          ~inbox[i].late /\ ~inbox[j].late /\ i # j => AppOf[inbox[i].ctx] # AppOf[inbox[j].ctx]

\* The queue after Becomes is the one given, but for what became of the presses.
Shape(queue) ==
    /\ DOMAIN inbox' = DOMAIN queue
    /\ \A i \in DOMAIN queue :
          /\ inbox'[i].kind = queue[i].kind /\ inbox'[i].ctx = queue[i].ctx
          /\ inbox'[i].key = queue[i].key /\ inbox'[i].sh = queue[i].sh
          /\ inbox'[i].late = queue[i].late

LEMMA BecomesShape ==
    ASSUME NEW p, NEW s, NEW told, NEW queue \in Seq(Requests), Becomes(p, s, queue, told)
    PROVE  Shape(queue)
<1> SUFFICES ASSUME NEW i \in DOMAIN queue
             PROVE  /\ inbox'[i].kind = queue[i].kind /\ inbox'[i].ctx = queue[i].ctx
                    /\ inbox'[i].key = queue[i].key /\ inbox'[i].sh = queue[i].sh
                    /\ inbox'[i].late = queue[i].late
    BY DEF Shape, Becomes
<1>1. queue[i] \in Requests
    BY ElementOfSeq, LenProperties
<1>2. inbox'[i] = queue[i] \/ inbox'[i] = [queue[i] EXCEPT !.stroke = "void"]
    BY DEF Becomes
<1> QED BY <1>1, <1>2 DEF Requests

\* The rest of the queue: its elements are one place ahead.
LEMMA RestOf ==
    ASSUME inbox \in Seq(Requests), inbox # <<>>
    PROVE  /\ DOMAIN inbox = 1..Len(inbox) /\ Len(inbox) \in Nat /\ Len(inbox) > 0
           /\ DOMAIN Tail(inbox) = 1..(Len(inbox) - 1)
           /\ \A i \in DOMAIN Tail(inbox) : i + 1 \in DOMAIN inbox /\ Tail(inbox)[i] = inbox[i + 1]
           /\ 1 \in DOMAIN inbox /\ First = inbox[1]
BY HeadTailProperties, EmptySeq, LenProperties DEF First

\* A new request at the end of the queue.
LEMMA Sent ==
    ASSUME inbox \in Seq(Requests), NEW q, inbox' = Append(inbox, q)
    PROVE  /\ DOMAIN inbox = 1..Len(inbox) /\ Len(inbox) \in Nat
           /\ DOMAIN inbox' = 1..(Len(inbox) + 1)
           /\ \A i \in DOMAIN inbox : i \in DOMAIN inbox' /\ inbox'[i] = inbox[i]
           /\ inbox'[Len(inbox) + 1] = q
BY AppendProperties, LenProperties

LEMMA QueueType ==
    ASSUME inbox \in Seq(Requests), NEW i \in DOMAIN inbox
    PROVE  /\ inbox[i] \in Requests /\ inbox[i].ctx \in Contexts
           /\ AppOf[inbox[i].ctx] \in Apps
<1>1. inbox[i] \in Requests
    BY ElementOfSeq, LenProperties
<1> QED BY <1>1 DEF Requests

LEMMA CallsServed ==
    ASSUME TypeOK, CallsExact, inbox # <<>>, Shape(Tail(inbox)),
           \/ UNCHANGED ask /\ First.late
           \/ \E ans : Reply(ans)
    PROVE  CallsExact'
<1>1. inbox \in Seq(Requests)
    BY DEF TypeOK
<1>2. \A i \in DOMAIN inbox' : i + 1 \in DOMAIN inbox /\ i + 1 # 1
           /\ inbox'[i].kind = inbox[i + 1].kind /\ inbox'[i].ctx = inbox[i + 1].ctx
           /\ inbox'[i].late = inbox[i + 1].late
    BY <1>1, RestOf DEF Shape
<1>3. 1 \in DOMAIN inbox /\ First = inbox[1]
    BY <1>1, RestOf
<1>4. ASSUME NEW a \in Apps, a # Client \/ First.late PROVE ask'[a] = ask[a]
    BY <1>4 DEF Reply, TypeOK
<1>7. ASSUME NEW i \in DOMAIN inbox' PROVE AppOf[inbox'[i].ctx] \in Apps
    BY <1>1, <1>2, QueueType
<1>5. ASSUME NEW i \in DOMAIN inbox', ~inbox'[i].late
      PROVE  /\ ask'[AppOf[inbox'[i].ctx]].kind = inbox'[i].kind
             /\ ask'[AppOf[inbox'[i].ctx]].ans = -1
    <2>1. AppOf[inbox'[i].ctx] # Client \/ First.late
        BY <1>2, <1>3, <1>5 DEF CallsExact, Client
    <2> QED BY <1>2, <1>4, <1>5, <1>7, <2>1 DEF CallsExact
<1>6. ASSUME NEW i \in DOMAIN inbox', NEW j \in DOMAIN inbox', ~inbox'[i].late, ~inbox'[j].late, i # j
      PROVE  AppOf[inbox'[i].ctx] # AppOf[inbox'[j].ctx]
    <2>1. i + 1 # j + 1
        BY <1>1, <1>6, RestOf DEF Shape
    <2> QED BY <1>2, <1>6, <2>1 DEF CallsExact
<1> QED BY <1>5, <1>6 DEF CallsExact

\* An idle process has no request under way that is not late.
LEMMA IdleCalls ==
    ASSUME TypeOK, CallsExact, NEW a \in Apps, Idle(a)
    PROVE  \A i \in DOMAIN inbox : ~inbox[i].late => AppOf[inbox[i].ctx] # a
<1> SUFFICES ASSUME NEW i \in DOMAIN inbox, ~inbox[i].late, AppOf[inbox[i].ctx] = a PROVE FALSE
    OBVIOUS
<1>1. inbox[i] \in Requests
    BY ElementOfSeq, LenProperties DEF TypeOK
<1>2. ask[a].kind = inbox[i].kind /\ ask[a].kind = "none"
    BY DEF CallsExact, Idle, NoAsk
<1> QED BY <1>1, <1>2 DEF Requests

LEMMA CallsCalled ==
    ASSUME TypeOK, CallsExact, NEW kind \in {"press", "release", "shift", "onoff", "in"},
           NEW c \in Contexts, NEW k, NEW st, Idle(AppOf[c]), Call(kind, c, k, st)
    PROVE  CallsExact'
<1>1. \A i \in DOMAIN inbox : ~inbox[i].late => AppOf[inbox[i].ctx] # AppOf[c]
    BY IdleCalls
<1>2. /\ DOMAIN inbox = 1..Len(inbox) /\ Len(inbox) \in Nat
      /\ DOMAIN inbox' = 1..(Len(inbox) + 1)
      /\ \A i \in DOMAIN inbox : i \in DOMAIN inbox' /\ inbox'[i] = inbox[i]
      /\ inbox'[Len(inbox) + 1] = [kind |-> kind, ctx |-> c, key |-> k, stroke |-> st,
                                   sh |-> shift, late |-> FALSE]
    <2> DEFINE q == [kind |-> kind, ctx |-> c, key |-> k, stroke |-> st,
                     sh |-> shift, late |-> FALSE]
    <2>1. inbox \in Seq(Requests) /\ inbox' = Append(inbox, q)
        BY DEF TypeOK, Call, Send
    <2> HIDE DEF q
    <2>2. /\ DOMAIN inbox = 1..Len(inbox) /\ Len(inbox) \in Nat
          /\ DOMAIN inbox' = 1..(Len(inbox) + 1)
          /\ \A i \in DOMAIN inbox : i \in DOMAIN inbox' /\ inbox'[i] = inbox[i]
          /\ inbox'[Len(inbox) + 1] = q
        BY <2>1, Sent
    <2> QED BY <2>2 DEF q
<1>3. /\ ask'[AppOf[c]].kind = kind /\ ask'[AppOf[c]].ans = -1
      /\ \A a \in Apps : a # AppOf[c] => ask'[a] = ask[a]
    BY DEF Call, TypeOK
<1>4. \A i \in DOMAIN inbox : AppOf[inbox[i].ctx] \in Apps
    <2>1. \A i \in DOMAIN inbox : inbox[i] \in Requests
        BY ElementOfSeq, LenProperties DEF TypeOK
    <2> QED BY <2>1 DEF Requests
<1>5. ASSUME NEW i \in DOMAIN inbox', ~inbox'[i].late
      PROVE  /\ ask'[AppOf[inbox'[i].ctx]].kind = inbox'[i].kind
             /\ ask'[AppOf[inbox'[i].ctx]].ans = -1
    <2>1. CASE i \in DOMAIN inbox
        BY <1>1, <1>2, <1>3, <1>4, <1>5, <2>1 DEF CallsExact
    <2>2. CASE i = Len(inbox) + 1
        BY <1>2, <1>3, <2>2
    <2> QED BY <1>2, <2>1, <2>2
<1>6. ASSUME NEW i \in DOMAIN inbox', NEW j \in DOMAIN inbox', ~inbox'[i].late, ~inbox'[j].late, i # j
      PROVE  AppOf[inbox'[i].ctx] # AppOf[inbox'[j].ctx]
    <2>1. CASE i \in DOMAIN inbox /\ j \in DOMAIN inbox
        BY <1>2, <1>6, <2>1 DEF CallsExact
    <2>2. CASE i = Len(inbox) + 1 /\ j \in DOMAIN inbox
        BY <1>1, <1>2, <1>6, <2>2
    <2>3. CASE i \in DOMAIN inbox /\ j = Len(inbox) + 1
        BY <1>1, <1>2, <1>6, <2>3
    <2> QED BY <1>2, <1>6, <2>1, <2>2, <2>3
<1> QED BY <1>5, <1>6 DEF CallsExact

LEMMA CallsStep == TypeOK /\ CallsExact /\ [Next]_vars => CallsExact'
<1> SUFFICES ASSUME TypeOK, CallsExact, [Next]_vars PROVE CallsExact'
    OBVIOUS
<1>1. ASSUME UNCHANGED <<inbox, ask>> PROVE CallsExact'
    BY <1>1 DEF CallsExact
<1>2. ASSUME NEW c \in Contexts, User(c) PROVE CallsExact'
    <2>1. ASSUME NEW k \in Keys, KeyPress(c, k) PROVE CallsExact'
        BY <1>1, <2>1, CallsCalled DEF KeyPress, Types
    <2>2. ASSUME NEW k \in Keys, KeyRelease(c, k) PROVE CallsExact'
        BY <1>1, <2>2, CallsCalled DEF KeyRelease, Types
    <2>3. CASE ShiftRelease(c)
        BY <2>3, CallsCalled DEF ShiftRelease, Types
    <2>4. CASE OnOffRelease(c)
        BY <2>4, CallsCalled DEF OnOffRelease, Types
    <2>5. CASE FocusIn(c)
        BY <2>5, CallsCalled DEF FocusIn
    <2>6. CASE FocusOut(c)
        <3>1. CASE Send("out", c, "other", "void", TRUE) /\ ask' = ask
            <4>1. /\ DOMAIN inbox = 1..Len(inbox) /\ Len(inbox) \in Nat
                  /\ DOMAIN inbox' = 1..(Len(inbox) + 1)
                  /\ \A i \in DOMAIN inbox : inbox'[i] = inbox[i]
                  /\ inbox'[Len(inbox) + 1].late
                <5> DEFINE q == [kind |-> "out", ctx |-> c, key |-> "other", stroke |-> "void",
                                 sh |-> shift, late |-> TRUE]
                <5>1. inbox \in Seq(Requests) /\ inbox' = Append(inbox, q)
                    BY <3>1 DEF TypeOK, Send
                <5>2. q.late
                    OBVIOUS
                <5> HIDE DEF q
                <5>3. /\ DOMAIN inbox = 1..Len(inbox) /\ Len(inbox) \in Nat
                      /\ DOMAIN inbox' = 1..(Len(inbox) + 1)
                      /\ \A i \in DOMAIN inbox : i \in DOMAIN inbox' /\ inbox'[i] = inbox[i]
                      /\ inbox'[Len(inbox) + 1] = q
                    BY <5>1, Sent
                <5> QED BY <5>2, <5>3
            <4>2. \A i \in DOMAIN inbox' : ~inbox'[i].late => i \in DOMAIN inbox /\ inbox'[i] = inbox[i]
                BY <4>1
            <4> QED BY <3>1, <4>2 DEF CallsExact
        <3> QED BY <1>1, <2>6, <3>1 DEF FocusOut
    <2>7. CASE Create(c) \/ MoveFocus(c)
        BY <1>1, <2>7 DEF Create, MoveFocus
    <2> QED BY <1>2, <2>1, <2>2, <2>3, <2>4, <2>5, <2>6, <2>7 DEF User
<1>3. ASSUME NEW a \in Apps, Answered(a) PROVE CallsExact'
    <2>1. \A i \in DOMAIN inbox : ~inbox[i].late => AppOf[inbox[i].ctx] # a
        BY <1>3 DEF Answered, CallsExact
    <2>2. inbox' = inbox /\ \A b \in Apps : b # a => ask'[b] = ask[b]
        BY <1>3 DEF Answered, TypeOK
    <2>3. \A i \in DOMAIN inbox : AppOf[inbox[i].ctx] \in Apps
        BY QueueType DEF TypeOK
    <2> QED BY <2>1, <2>2, <2>3 DEF CallsExact
<1>4. ASSUME NEW a \in Apps, TimedOut(a) PROVE CallsExact'
    <2>1. DOMAIN inbox' = DOMAIN inbox /\ \A i \in DOMAIN inbox :
              /\ inbox'[i].kind = inbox[i].kind /\ inbox'[i].ctx = inbox[i].ctx
              /\ inbox'[i].late = (inbox[i].late \/ AppOf[inbox[i].ctx] = a)
        <3>1. ASSUME NEW i \in DOMAIN inbox PROVE inbox[i] \in Requests
            BY ElementOfSeq, LenProperties DEF TypeOK
        <3> QED BY <1>4, <3>1 DEF TimedOut, Requests
    <2>2. \A b \in Apps : b # a => ask'[b] = ask[b]
        BY <1>4 DEF TimedOut, TypeOK
    <2>3. \A i \in DOMAIN inbox : AppOf[inbox[i].ctx] \in Apps
        BY QueueType DEF TypeOK
    <2>4. \A i \in DOMAIN inbox : ~inbox'[i].late =>
              /\ ~inbox[i].late /\ AppOf[inbox[i].ctx] # a
              /\ ask'[AppOf[inbox[i].ctx]] = ask[AppOf[inbox[i].ctx]]
        BY <2>1, <2>2, <2>3
    <2> HIDE DEF ConstantsAssumption
    <2> QED BY ONLY CallsExact, <2>1, <2>4 DEF CallsExact
<1>5. ASSUME NEW a \in Apps, TakeText(a) PROVE CallsExact'
    BY <1>1, <1>5 DEF TakeText
<1>6. ASSUME ShiftPress \/ UNCHANGED vars PROVE CallsExact'
    BY <1>1, <1>6 DEF ShiftPress, vars
<1>7. ASSUME Daemon PROVE CallsExact'
    <2>1. ASSUME NEW p, NEW s, NEW told, inbox # <<>>,
                 Becomes(p, s, Tail(inbox), told), \E ans : Reply(ans)
          PROVE  CallsExact'
        <3>1. Tail(inbox) \in Seq(Requests)
            BY <2>1, FirstType DEF TypeOK
        <3> QED BY <2>1, <3>1, BecomesShape, CallsServed
    <2>2. CASE ServePress
        BY <2>1, <2>2 DEF ServePress, IsFirst
    <2>3. CASE ServeRelease
        BY <2>1, <2>3 DEF ServeRelease, IsFirst
    <2>4. CASE ServeShift
        BY <2>1, <2>4 DEF ServeShift, IsFirst
    <2>5. CASE ServeOnOff
        BY <2>1, <2>5 DEF ServeOnOff, IsFirst
    <2>6. CASE ServeFocusIn
        BY <2>1, <2>6 DEF ServeFocusIn, IsFirst
    <2>7. CASE ServeFocusOut
        <3>1. inbox # <<>> /\ inbox' = Tail(inbox) /\ ask' = ask
            BY <2>7 DEF ServeFocusOut, IsFirst
        <3>2. Shape(Tail(inbox))
            BY <3>1 DEF Shape
        <3>3. First.late
            <4>1. ASSUME ~First.late PROVE FALSE
                <5>1. ask[Client].kind = "out" /\ Client \in Apps
                    BY <2>7, <3>1, <4>1, RestOf, FirstType
                       DEF TypeOK, CallsExact, ServeFocusOut, IsFirst, Client
                <5>2. ask[Client] \in Asks
                    BY <5>1 DEF TypeOK
                <5> QED BY <5>1, <5>2 DEF Asks
            <4> QED BY <4>1
        <3> QED BY <3>1, <3>2, <3>3, CallsServed
    <2>8. CASE TraySwitchCE \/ TraySwitchPun
        <3>1. Shape(inbox) /\ ask' = ask
            BY <2>8, BecomesShape DEF TraySwitchCE, TraySwitchPun, TypeOK
        <3> QED BY <3>1 DEF Shape, CallsExact
    <2> QED BY <1>7, <2>2, <2>3, <2>4, <2>5, <2>6, <2>7, <2>8 DEF Daemon
<1> QED BY <1>2, <1>3, <1>4, <1>5, <1>6, <1>7 DEF Next, ClientSteps
-----------------------------------------------------------------------------
(* What a process believes. *)

\* g_im_active, or the reply that a waiting process is to read, is the state of its preedit.
Agrees(a) == ~behind[a] =>
    IF ask[a].ans = -1 \/ (ask[a].kind # "in" /\ ask[a].ans = 0)
    THEN g_im_active[a] = ActCN(Pre(a))
    ELSE IF ask[a].kind = "in" THEN (ask[a].ans = 1) = ActCN(Pre(a))
    ELSE (ask[a].ans = 2) = ActCN(Pre(a))

AllAgree == \A a \in Apps : Agrees(a)

\* A process that is not told and not behind sees no change.
LEMMA Unchanged ==
    ASSUME TypeOK, mode' = mode, NEW p \in Preedits, NEW s, NEW queue, NEW told,
           Becomes(p, s, queue, told), NEW a \in Apps, a \notin told, ~behind'[a]
    PROVE  ~behind[a] /\ ActCN(Pre(a))' = ActCN(Pre(a))
<1>1. ~behind[a] /\ (PreeditOf(a) = p => ActCN(s) = ActCN(preedit[p]))
    BY DEF Becomes, TypeOK
<1>2. PreeditOf(a)' = PreeditOf(a) /\ PreeditOf(a) \in Preedits
    BY DefaultType DEF PreeditOf
<1>3. preedit' = [preedit EXCEPT ![p] = s] /\ preedit \in [Preedits -> PreeditStates]
    BY DEF Becomes, TypeOK
<1>4. preedit'[PreeditOf(a)] = IF PreeditOf(a) = p THEN s ELSE preedit[PreeditOf(a)]
    BY <1>2, <1>3
<1> QED BY <1>1, <1>2, <1>4 DEF Pre

\* A request that is served: the reply is right, or tells nothing and nothing changed.
LEMMA AgreeServed ==
    ASSUME TypeOK, CallsExact, AllAgree, inbox # <<>>, mode' = mode, UNCHANGED g_im_active,
           NEW s, NEW used \in BOOLEAN, NEW ans,
           Becomes(PreeditOf(Client), s, Tail(inbox), Told(used)), Reply(ans),
           used => ans = (IF First.kind = "in" THEN IF ActCN(s) THEN 1 ELSE 0
                          ELSE IF ActCN(s) THEN 2 ELSE 1),
           ~used => ans = 0 /\ First.kind # "in"
    PROVE  AllAgree'
<1>1. Client \in Apps /\ First \in Requests
    BY FirstType DEF TypeOK
<1>2. PreeditOf(Client) \in Preedits
    BY <1>1, DefaultType
<1>3. ~First.late => ask[Client].kind = First.kind /\ ask[Client].ans = -1
    <2>1. inbox \in Seq(Requests)
        BY DEF TypeOK
    <2>2. 1 \in DOMAIN inbox /\ First = inbox[1]
        BY <2>1, RestOf
    <2> QED BY <2>2 DEF CallsExact, Client
<1>4. ask[Client] \in Asks
    BY <1>1 DEF TypeOK
<1> SUFFICES ASSUME NEW a \in Apps, ~behind'[a] PROVE Agrees(a)'
    BY DEF AllAgree, Agrees
<1>5. CASE a \in Told(used)
    <2>1. used /\ ~First.late /\ a = Client
        BY <1>5 DEF Told
    <2>2. ask'[a].kind = First.kind /\ ask'[a].ans = ans
        BY <1>1, <1>3, <1>4, <2>1 DEF Reply, TypeOK, Asks
    <2>3. preedit'[PreeditOf(a)] = s
        BY <1>2, <2>1 DEF Becomes, TypeOK
    <2>4. ActCN(Pre(a))' = ActCN(s)
        BY <2>3 DEF Pre, PreeditOf
    <2>5. ActCN(s) \in BOOLEAN
        BY DEF ActCN
    <2>6. CASE First.kind = "in"
        BY <2>1, <2>2, <2>4, <2>5, <2>6 DEF Agrees
    <2>7. CASE First.kind # "in"
        BY <2>1, <2>2, <2>4, <2>5, <2>7 DEF Agrees
    <2> QED BY <2>6, <2>7
<1>6. CASE a \notin Told(used)
    <2>1. ~behind[a] /\ ActCN(Pre(a))' = ActCN(Pre(a))
        BY <1>2, <1>6, Unchanged
    <2>2. Agrees(a)
        BY DEF AllAgree
    <2>3. CASE a = Client /\ ~First.late
        <3>1. ~used /\ ans = 0 /\ First.kind # "in"
            BY <1>6, <2>3 DEF Told
        <3>2. ask'[a].kind = First.kind /\ ask'[a].ans = 0
            BY <1>1, <1>3, <1>4, <2>3, <3>1 DEF Reply, TypeOK, Asks
        <3>3. g_im_active[a] = ActCN(Pre(a))
            BY <1>3, <2>1, <2>2, <2>3 DEF Agrees
        <3> QED BY <2>1, <3>1, <3>2, <3>3 DEF Agrees
    <2>4. CASE a # Client \/ First.late
        <3>1. ask'[a] = ask[a]
            BY <1>1, <2>4 DEF Reply, TypeOK
        <3> QED BY <2>1, <2>2, <3>1 DEF Agrees
    <2> QED BY <2>3, <2>4
<1> QED BY <1>5, <1>6

LEMMA AgreeStep == TypeOK /\ CallsExact /\ AllAgree /\ [Next]_vars => AllAgree'
<1> SUFFICES ASSUME TypeOK, CallsExact, AllAgree, [Next]_vars PROVE AllAgree'
    OBVIOUS
<1>1. ASSUME UNCHANGED <<mode, preedit, g_im_active, behind, ask>> PROVE AllAgree'
    BY <1>1 DEF AllAgree, Agrees, Pre, PreeditOf
<1>2. ASSUME NEW c \in Contexts, NEW kind \in {"press", "release", "shift", "onoff", "in"},
             NEW k, NEW st, UNCHANGED <<mode, preedit, g_im_active, behind>>,
             Idle(AppOf[c]), Call(kind, c, k, st)
      PROVE  AllAgree'
    <2> SUFFICES ASSUME NEW a \in Apps PROVE Agrees(a)'
        BY DEF AllAgree
    <2>1. Agrees(a) /\ Pre(a)' = Pre(a)
        BY <1>2 DEF AllAgree, Pre, PreeditOf
    <2>2. ask'[a] = ask[a] \/ (ask[a].ans = -1 /\ ask'[a].ans = -1)
        BY <1>2 DEF Call, Idle, NoAsk, TypeOK
    <2> QED BY <1>2, <2>1, <2>2 DEF Agrees
<1>3. ASSUME NEW c \in Contexts, User(c) PROVE AllAgree'
    <2>1. ASSUME NEW k \in Keys, KeyPress(c, k) PROVE AllAgree'
        BY <1>1, <1>2, <2>1 DEF KeyPress, Types
    <2>2. ASSUME NEW k \in Keys, KeyRelease(c, k) PROVE AllAgree'
        BY <1>1, <1>2, <2>2 DEF KeyRelease, Types
    <2>3. CASE ShiftRelease(c)
        BY <1>2, <2>3 DEF ShiftRelease, Types
    <2>4. CASE OnOffRelease(c)
        BY <1>2, <2>4 DEF OnOffRelease, Types
    <2>5. CASE FocusIn(c)
        BY <1>2, <2>5 DEF FocusIn
    <2>6. CASE FocusOut(c)
        BY <1>1, <2>6 DEF FocusOut
    <2>7. CASE Create(c) \/ MoveFocus(c)
        BY <1>1, <2>7 DEF Create, MoveFocus
    <2> QED BY <1>3, <2>1, <2>2, <2>3, <2>4, <2>5, <2>6, <2>7 DEF User
<1>4. ASSUME NEW a \in Apps, Answered(a) PROVE AllAgree'
    <2> SUFFICES ASSUME NEW b \in Apps, ~behind'[b] PROVE Agrees(b)'
        BY DEF AllAgree, Agrees
    <2>1. Agrees(b) /\ Pre(b)' = Pre(b) /\ behind'[b] = behind[b]
        BY <1>4 DEF AllAgree, Pre, PreeditOf, Answered
    <2>2. CASE b # a
        <3>1. ask'[b] = ask[b] /\ g_im_active'[b] = g_im_active[b]
            BY <1>4, <2>2 DEF Answered, TakeAnswer, TypeOK
        <3> QED BY <2>1, <3>1 DEF Agrees
    <2>3. CASE b = a
        <3>1. ask'[a].ans = -1 /\ ask[a].ans >= 0 /\ ask[a] \in Asks
            BY <1>4 DEF Answered, NoAsk, TypeOK
        <3>2. g_im_active'[a] = (IF ask[a].kind = "in" THEN ask[a].ans = 1
                                 ELSE IF ask[a].ans = 0 THEN g_im_active[a] ELSE ask[a].ans = 2)
            BY <1>4 DEF Answered, TakeAnswer, TypeOK
        <3>3. ask[a].ans # -1
            BY <3>1 DEF Asks
        <3>4. g_im_active'[a] = ActCN(Pre(a))
            BY <2>1, <2>3, <3>2, <3>3 DEF Agrees
        <3> QED BY <2>1, <2>3, <3>1, <3>4 DEF Agrees
    <2> QED BY <2>2, <2>3
<1>5. ASSUME NEW a \in Apps, TimedOut(a) PROVE AllAgree'
    <2> SUFFICES ASSUME NEW b \in Apps, ~behind'[b] PROVE Agrees(b)'
        BY DEF AllAgree, Agrees
    <2>1. b # a /\ ask'[b] = ask[b] /\ Agrees(b)
        BY <1>5 DEF TimedOut, TypeOK, AllAgree
    <2> QED BY <1>5, <2>1 DEF TimedOut, TypeOK, Agrees, Pre, PreeditOf
<1>6. ASSUME NEW a \in Apps, TakeText(a) PROVE AllAgree'
    BY <1>1, <1>6 DEF TakeText
<1>7. ASSUME ShiftPress \/ UNCHANGED vars PROVE AllAgree'
    BY <1>1, <1>7 DEF ShiftPress, vars
<1>8. ASSUME Daemon PROVE AllAgree'
    <2>1. CASE ServePress
        <3> DEFINE wanted == imWants(View(Client), First.key, First.sh)
        <3>1. inbox # <<>> /\ First.kind = "press" /\ wanted \in BOOLEAN
            BY <2>1 DEF ServePress, IsFirst, imWants, View, ViewOf, ActCN, IsMark
        <3>2. /\ Becomes(PreeditOf(Client), Pre(Client), Tail(inbox), Told(wanted))
              /\ Reply(KeyReply(wanted, Pre(Client)))
              /\ UNCHANGED <<mode, g_im_active>>
            BY <2>1 DEF ServePress
        <3> HIDE DEF wanted
        <3> QED BY <3>1, <3>2, AgreeServed DEF KeyReply
    <2>2. CASE ServeRelease
        <3> DEFINE s == NoteModifier(Pre(Client), First.key, First.sh)
                   used == Handles(View(Client), First.key, First.sh)
                   t(e) == IF used THEN [s EXCEPT !.start = e.start] ELSE s
        <3>1. inbox # <<>> /\ First.kind = "release"
            BY <2>2 DEF ServeRelease, IsFirst
        <3>2. used \in BOOLEAN
            BY DEF Handles, View, ViewOf, ActCN, IsMark
        <3>3. PICK e \in Effects(First.key, First.sh) :
                  /\ Becomes(PreeditOf(Client), t(e), Tail(inbox), Told(used))
                  /\ Reply(KeyReply(used, t(e)))
            BY <2>2 DEF ServeRelease
        <3>4. UNCHANGED <<mode, g_im_active>>
            BY <2>2 DEF ServeRelease
        <3> HIDE DEF s, used, t
        <3> QED BY <3>1, <3>2, <3>3, <3>4, AgreeServed DEF KeyReply
    <2>3. CASE ServeShift
        <3> DEFINE s == Pre(Client)
                   used == s.on /\ ~s.chord
                   t == IF used THEN SwitchCE(s) ELSE [s EXCEPT !.chord = @ /\ ~s.on]
        <3>1. inbox # <<>> /\ First.kind = "shift"
            BY <2>3 DEF ServeShift, IsFirst
        <3>2. used \in BOOLEAN
            OBVIOUS
        <3>3. /\ Becomes(PreeditOf(Client), t, Tail(inbox), Told(used))
              /\ Reply(KeyReply(used, t))
              /\ UNCHANGED <<mode, g_im_active>>
            BY <2>3 DEF ServeShift
        <3> HIDE DEF s, used, t
        <3> QED BY <3>1, <3>2, <3>3, AgreeServed DEF KeyReply
    <2>4. CASE ServeOnOff
        <3> DEFINE t == SwitchOn(Pre(Client))
        <3>1. inbox # <<>> /\ First.kind = "onoff"
            BY <2>4 DEF ServeOnOff, IsFirst
        <3>2. /\ Becomes(PreeditOf(Client), t, Tail(inbox), Told(TRUE))
              /\ Reply(KeyReply(TRUE, t))
              /\ UNCHANGED <<mode, g_im_active>>
            BY <2>4 DEF ServeOnOff
        <3> HIDE DEF t
        <3> QED BY <3>1, <3>2, AgreeServed DEF KeyReply
    <2>5. CASE ServeFocusIn
        <3> DEFINE t == Pre(Client)
        <3>1. inbox # <<>> /\ First.kind = "in"
            BY <2>5 DEF ServeFocusIn, IsFirst
        <3>2. /\ Becomes(PreeditOf(Client), t, Tail(inbox), Told(TRUE))
              /\ Reply(IF ActCN(t) THEN 1 ELSE 0)
              /\ UNCHANGED <<mode, g_im_active>>
            BY <2>5 DEF ServeFocusIn
        <3> HIDE DEF t
        <3> QED BY <3>1, <3>2, AgreeServed
    <2>6. CASE ServeFocusOut
        BY <1>1, <2>6 DEF ServeFocusOut
    <2>7. CASE TraySwitchCE \/ TraySwitchPun
        <3> SUFFICES ASSUME NEW a \in Apps, ~behind'[a] PROVE Agrees(a)'
            BY DEF AllAgree, Agrees
        <3>1. TrayPreedit \in Preedits
            BY DefaultType DEF TrayPreedit, TypeOK
        <3>2. UNCHANGED <<mode, g_im_active, ask>> /\ \E s : Becomes(TrayPreedit, s, inbox, {})
            BY <2>7 DEF TraySwitchCE, TraySwitchPun
        <3>3. ~behind[a] /\ ActCN(Pre(a))' = ActCN(Pre(a))
            BY <3>1, <3>2, Unchanged
        <3>4. Agrees(a)
            BY DEF AllAgree
        <3> QED BY <3>2, <3>3, <3>4 DEF Agrees
    <2> QED BY <1>8, <2>1, <2>2, <2>3, <2>4, <2>5, <2>6, <2>7 DEF Daemon
<1> QED BY <1>3, <1>4, <1>5, <1>6, <1>7, <1>8 DEF Next, ClientSteps

LEMMA InitCalls == Init => CallsExact /\ AllAgree
<1> SUFFICES ASSUME Init PROVE CallsExact /\ AllAgree
    OBVIOUS
<1>1. inbox = <<>> /\ DOMAIN inbox = {}
    BY DEF Init
<1>2. CallsExact
    BY <1>1 DEF CallsExact
<1>3. ASSUME NEW a \in Apps PROVE Agrees(a)
    <2>1. ask[a].ans = -1 /\ ~g_im_active[a]
        BY DEF Init, NoAsk
    <2>2. ~ActCN(Pre(a)) /\ ActCN(Pre(a)) \in BOOLEAN
        BY DefaultType DEF Init, Pre, ActCN, Off
    <2>3. g_im_active[a] = FALSE
        BY DEF Init
    <2> QED BY <2>1, <2>2, <2>3 DEF Agrees
<1> QED BY <1>2, <1>3 DEF AllAgree

\* A process that waits for no reply and was told of the last change knows whether its keys
\* are wanted: g_im_active of gaimimcontext.c is isActCN() of its preedit.
THEOREM ActiveAgreesHolds == Spec => []ActiveAgrees
<1>1. TypeOK /\ AllAgree => ActiveAgrees
    <2> SUFFICES ASSUME TypeOK, AllAgree, NEW a \in Apps, Idle(a), ~behind[a]
                 PROVE  g_im_active[a] = ActCN(Pre(a))
        BY DEF ActiveAgrees
    <2>1. Agrees(a) /\ ask[a].ans = -1
        BY DEF AllAgree, Idle, NoAsk
    <2> QED BY <2>1 DEF Agrees
<1> QED BY <1>1, InitType, StepType, InitCalls, CallsStep, AgreeStep, PTL DEF Spec
-----------------------------------------------------------------------------
(* The focus. *)

\* Request i does not move m_icFocus away from d.
Keeps(i, d) == inbox[i].kind # "in" /\ ~(inbox[i].kind = "out" /\ inbox[i].ctx = d)

\* m_icFocus is d once the requests are processed, unless a new context takes it.
Settled(d) ==
    \/ (icFocus = d \/ stolen) /\ \A i \in DOMAIN inbox : Keeps(i, d)
    \/ \E i \in DOMAIN inbox : /\ inbox[i].kind = "in" /\ inbox[i].ctx = d
                               /\ \A j \in DOMAIN inbox : j > i => Keeps(j, d)

\* The focused context has told the daemon, or its process does not know of its focus yet.
FocusSettled ==
    xfocus # None /\ widget[AppOf[xfocus]] = xfocus => Settled(xfocus)

LEMMA SettledShape ==
    ASSUME TypeOK, NEW d, Settled(d), UNCHANGED <<icFocus, stolen>>, Shape(inbox)
    PROVE  Settled(d)'
BY DEF Settled, Shape, Keeps

\* One more request, that does not take the focus away.
LEMMA SettledSent ==
    ASSUME TypeOK, NEW d, UNCHANGED <<icFocus, stolen>>,
           NEW q, inbox' = Append(inbox, q),
           \/ q.kind = "in" /\ q.ctx = d
           \/ Settled(d) /\ q.kind # "in" /\ ~(q.kind = "out" /\ q.ctx = d)
    PROVE  Settled(d)'
<1>1. /\ DOMAIN inbox = 1..Len(inbox) /\ Len(inbox) \in Nat
      /\ DOMAIN inbox' = 1..(Len(inbox) + 1)
      /\ \A i \in DOMAIN inbox : i \in DOMAIN inbox' /\ inbox'[i] = inbox[i]
      /\ inbox'[Len(inbox) + 1] = q
    BY Sent DEF TypeOK
<1>2. \A i \in DOMAIN inbox' : i \in DOMAIN inbox \/ i = Len(inbox) + 1
    BY <1>1
<1>3. CASE q.kind = "in" /\ q.ctx = d
    BY <1>1, <1>3 DEF Settled
<1>4. CASE Settled(d) /\ q.kind # "in" /\ ~(q.kind = "out" /\ q.ctx = d)
    <2>1. CASE (icFocus = d \/ stolen) /\ \A i \in DOMAIN inbox : Keeps(i, d)
        BY <1>1, <1>2, <1>4, <2>1 DEF Settled, Keeps
    <2>2. ASSUME NEW i \in DOMAIN inbox, inbox[i].kind = "in", inbox[i].ctx = d,
                 \A j \in DOMAIN inbox : j > i => Keeps(j, d)
          PROVE  Settled(d)'
        <3>1. ASSUME NEW j \in DOMAIN inbox', j > i PROVE Keeps(j, d)'
            BY <1>1, <1>2, <1>4, <2>2, <3>1 DEF Keeps
        <3> QED BY <1>1, <2>2, <3>1 DEF Settled
    <2> QED BY <1>4, <2>1, <2>2 DEF Settled
<1> QED BY <1>3, <1>4

\* The first request is processed.
LEMMA SettledServed ==
    ASSUME TypeOK, NEW d, Settled(d), inbox # <<>>, Shape(Tail(inbox)),
           \/ First.kind = "in" /\ icFocus' = First.ctx /\ ~stolen'
           \/ /\ First.kind # "in" /\ stolen' = stolen
              /\ \/ icFocus' = icFocus
                 \/ First.kind = "out" /\ icFocus' = IF icFocus = First.ctx THEN None ELSE icFocus
    PROVE  Settled(d)'
<1>1. /\ DOMAIN inbox = 1..Len(inbox) /\ Len(inbox) \in Nat
      /\ 1 \in DOMAIN inbox /\ First = inbox[1]
    BY RestOf DEF TypeOK
<1>2. /\ DOMAIN inbox' = 1..(Len(inbox) - 1)
      /\ \A i \in DOMAIN inbox' : /\ i + 1 \in DOMAIN inbox
                                  /\ inbox'[i].kind = inbox[i + 1].kind
                                  /\ inbox'[i].ctx = inbox[i + 1].ctx
    BY RestOf DEF TypeOK, Shape
<1>3. CASE (icFocus = d \/ stolen) /\ \A i \in DOMAIN inbox : Keeps(i, d)
    <2>1. Keeps(1, d)
        BY <1>1, <1>3
    <2>2. icFocus' = d \/ stolen'
        BY <1>1, <1>3, <2>1 DEF Keeps
    <2>3. \A i \in DOMAIN inbox' : Keeps(i, d)'
        BY <1>2, <1>3 DEF Keeps
    <2> QED BY <2>2, <2>3 DEF Settled
<1>4. ASSUME NEW i \in DOMAIN inbox, inbox[i].kind = "in", inbox[i].ctx = d,
             \A j \in DOMAIN inbox : j > i => Keeps(j, d)
      PROVE  Settled(d)'
    <2>1. CASE i = 1
        <3>1. icFocus' = d
            BY <1>1, <1>4, <2>1
        <3>2. \A j \in DOMAIN inbox' : Keeps(j, d)'
            BY <1>1, <1>2, <1>4, <2>1 DEF Keeps
        <3> QED BY <3>1, <3>2 DEF Settled
    <2>2. CASE i # 1
        <3> DEFINE m == i - 1
        <3>1. m \in DOMAIN inbox' /\ i = m + 1 /\ m \in Int
            BY <1>1, <1>2, <2>2
        <3>2. inbox'[m].kind = "in" /\ inbox'[m].ctx = d
            BY <1>2, <1>4, <3>1
        <3>3. ASSUME NEW j \in DOMAIN inbox', j > m PROVE Keeps(j, d)'
            <4>1. j + 1 \in DOMAIN inbox /\ j + 1 > i
                BY <1>2, <3>1, <3>3
            <4> QED BY <1>2, <1>4, <4>1 DEF Keeps
        <3> HIDE DEF m
        <3> QED BY <3>1, <3>2, <3>3 DEF Settled
    <2> QED BY <2>1, <2>2
<1> QED BY <1>3, <1>4 DEF Settled

LEMMA FocusStep == TypeOK /\ CallsExact /\ FocusSettled /\ [Next]_vars => FocusSettled'
<1> SUFFICES ASSUME TypeOK, CallsExact, FocusSettled, [Next]_vars PROVE FocusSettled'
    OBVIOUS
<1>1. ASSUME UNCHANGED <<xfocus, widget>>,
             xfocus # None /\ widget[AppOf[xfocus]] = xfocus /\ Settled(xfocus) => Settled(xfocus)'
      PROVE  FocusSettled'
    BY <1>1 DEF FocusSettled
<1>2. ASSUME UNCHANGED <<xfocus, widget, icFocus, stolen, inbox>> PROVE FocusSettled'
    BY <1>1, <1>2 DEF Settled, Keeps
<1>3. ASSUME NEW q, q.kind \notin {"in", "out"}, inbox' = Append(inbox, q),
             UNCHANGED <<xfocus, widget, icFocus, stolen>>
      PROVE  FocusSettled'
    BY <1>1, <1>3, SettledSent
<1>4. ASSUME NEW c \in Contexts, NEW kind \in {"press", "release", "shift", "onoff"}, NEW k, NEW st,
             Call(kind, c, k, st), UNCHANGED <<xfocus, widget, icFocus, stolen>>
      PROVE  FocusSettled'
    <2> DEFINE q == [kind |-> kind, ctx |-> c, key |-> k, stroke |-> st,
                     sh |-> shift, late |-> FALSE]
    <2>1. inbox' = Append(inbox, q) /\ q.kind \notin {"in", "out"}
        BY <1>4 DEF Call, Send
    <2> HIDE DEF q
    <2> QED BY <1>3, <1>4, <2>1
<1>5. ASSUME NEW c \in Contexts, User(c) PROVE FocusSettled'
    <2>1. ASSUME NEW k \in Keys, KeyPress(c, k) PROVE FocusSettled'
        BY <1>2, <1>4, <2>1 DEF KeyPress
    <2>2. ASSUME NEW k \in Keys, KeyRelease(c, k) PROVE FocusSettled'
        BY <1>2, <1>4, <2>2 DEF KeyRelease
    <2>3. CASE ShiftRelease(c)
        BY <1>4, <2>3 DEF ShiftRelease
    <2>4. CASE OnOffRelease(c)
        BY <1>4, <2>4 DEF OnOffRelease
    <2>5. CASE FocusIn(c)
        <3> DEFINE q == [kind |-> "in", ctx |-> c, key |-> "other", stroke |-> "void",
                         sh |-> shift, late |-> FALSE]
        <3>1. inbox' = Append(inbox, q) /\ q.kind = "in" /\ q.ctx = c
            BY <2>5 DEF FocusIn, Call, Send
        <3>2. xfocus' = c /\ UNCHANGED <<icFocus, stolen>>
            BY <2>5 DEF FocusIn
        <3> HIDE DEF q
        <3> QED BY <3>1, <3>2, SettledSent DEF FocusSettled
    <2>6. CASE FocusOut(c)
        <3>1. xfocus # c /\ UNCHANGED <<xfocus, icFocus, stolen>>
            BY <2>6 DEF FocusOut
        <3>2. widget'[AppOf[c]] = None /\ \A a \in Apps : a # AppOf[c] => widget'[a] = widget[a]
            BY <2>6 DEF FocusOut, TypeOK
        <3> SUFFICES ASSUME xfocus # None, widget'[AppOf[xfocus]] = xfocus PROVE Settled(xfocus)'
            BY <3>1 DEF FocusSettled
        <3>3. xfocus \in Contexts /\ AppOf[xfocus] \in Apps
            BY DEF TypeOK
        <3>4. widget[AppOf[xfocus]] = xfocus /\ Settled(xfocus)
            BY <3>2, <3>3 DEF FocusSettled
        <3>5. CASE inbox' = inbox
            BY <3>1, <3>4, <3>5 DEF Settled, Keeps
        <3>6. CASE Send("out", c, "other", "void", TRUE)
            <4> DEFINE q == [kind |-> "out", ctx |-> c, key |-> "other", stroke |-> "void",
                             sh |-> shift, late |-> TRUE]
            <4>1. inbox' = Append(inbox, q) /\ q.kind # "in" /\ q.ctx # xfocus
                BY <3>1, <3>6 DEF Send
            <4> HIDE DEF q
            <4> QED BY <3>1, <3>4, <4>1, SettledSent
        <3> QED BY <2>6, <3>5, <3>6 DEF FocusOut
    <2>7. CASE Create(c)
        <3>1. stolen' /\ UNCHANGED <<xfocus, widget, inbox>>
            BY <2>7 DEF Create
        <3> QED BY <1>1, <3>1 DEF Settled, Keeps
    <2>8. CASE MoveFocus(c)
        <3>1. xfocus # c /\ xfocus' = c /\ widget' = widget /\ AppOf[c] \in Apps
            BY <2>8 DEF MoveFocus
        <3>2. widget[AppOf[c]] \in {xfocus, None} /\ c # None
            BY <2>8, <3>1 DEF MoveFocus
        <3> QED BY <3>1, <3>2 DEF FocusSettled
    <2> QED BY <1>5, <2>1, <2>2, <2>3, <2>4, <2>5, <2>6, <2>7, <2>8 DEF User
<1>6. ASSUME NEW a \in Apps, ClientSteps(a) PROVE FocusSettled'
    <2>1. CASE Answered(a) \/ TakeText(a)
        BY <1>2, <2>1 DEF Answered, TakeText
    <2>2. CASE TimedOut(a)
        <3>1. DOMAIN inbox' = DOMAIN inbox /\ \A i \in DOMAIN inbox :
                  inbox'[i].kind = inbox[i].kind /\ inbox'[i].ctx = inbox[i].ctx
            <4>1. \A i \in DOMAIN inbox : inbox[i] \in Requests
                BY QueueType DEF TypeOK
            <4> QED BY <2>2, <4>1 DEF TimedOut, Requests
        <3>2. UNCHANGED <<xfocus, widget, icFocus, stolen>>
            BY <2>2 DEF TimedOut
        <3> QED BY <1>1, <3>1, <3>2 DEF Settled, Keeps
    <2> QED BY <1>6, <2>1, <2>2 DEF ClientSteps
<1>7. ASSUME ShiftPress \/ UNCHANGED vars PROVE FocusSettled'
    BY <1>2, <1>7 DEF ShiftPress, vars
<1>8. ASSUME Daemon PROVE FocusSettled'
    <2>1. ASSUME NEW s, NEW told, inbox # <<>>, First.kind # "in",
                 Becomes(PreeditOf(Client), s, Tail(inbox), told),
                 UNCHANGED <<xfocus, widget, icFocus, stolen>>
          PROVE  FocusSettled'
        <3>1. Shape(Tail(inbox))
            BY <2>1, FirstType, BecomesShape DEF TypeOK
        <3> QED BY <1>1, <2>1, <3>1, SettledServed
    <2>2. CASE ServePress
        BY <2>1, <2>2 DEF ServePress, IsFirst
    <2>3. CASE ServeRelease
        BY <2>1, <2>3 DEF ServeRelease, IsFirst
    <2>4. CASE ServeShift
        BY <2>1, <2>4 DEF ServeShift, IsFirst
    <2>5. CASE ServeOnOff
        BY <2>1, <2>5 DEF ServeOnOff, IsFirst
    <2>6. CASE ServeFocusIn
        <3>1. Shape(Tail(inbox)) /\ inbox # <<>>
            BY <2>6, FirstType, BecomesShape DEF ServeFocusIn, IsFirst, TypeOK
        <3>2. /\ First.kind = "in" /\ icFocus' = First.ctx /\ ~stolen'
              /\ UNCHANGED <<xfocus, widget>>
            BY <2>6 DEF ServeFocusIn, IsFirst
        <3> QED BY <1>1, <3>1, <3>2, SettledServed
    <2>7. CASE ServeFocusOut
        <3>1. Shape(Tail(inbox)) /\ inbox # <<>>
            BY <2>7 DEF ServeFocusOut, IsFirst, Shape
        <3>2. /\ First.kind = "out" /\ UNCHANGED <<xfocus, widget, stolen>>
              /\ icFocus' = IF icFocus = First.ctx THEN None ELSE icFocus
            BY <2>7 DEF ServeFocusOut, IsFirst, focusOut
        <3> QED BY <1>1, <3>1, <3>2, SettledServed
    <2>8. CASE TraySwitchCE \/ TraySwitchPun
        <3>1. Shape(inbox)
            BY <2>8, BecomesShape DEF TraySwitchCE, TraySwitchPun, TypeOK
        <3>2. UNCHANGED <<xfocus, widget, icFocus, stolen>>
            BY <2>8 DEF TraySwitchCE, TraySwitchPun
        <3> QED BY <1>1, <3>1, <3>2, SettledShape
    <2> QED BY <1>8, <2>2, <2>3, <2>4, <2>5, <2>6, <2>7, <2>8 DEF Daemon
<1> QED BY <1>5, <1>6, <1>7, <1>8 DEF Next

\* When all requests are processed, m_icFocus is the context that has the focus, whatever
\* the order of FocusIn and FocusOut of two processes, and of those that timed out, unless
\* add() gave it to a new one.
THEOREM FocusExactHolds == Spec => []FocusExact
<1>1. Init => FocusSettled
    BY DEF Init, FocusSettled
<1>2. TypeOK /\ FocusSettled => FocusExact
    <2> SUFFICES ASSUME TypeOK, FocusSettled, NEW c \in Contexts, Calm(c), inbox = <<>>, ~stolen
                 PROVE  icFocus = c
        BY DEF FocusExact
    <2>1. xfocus = c /\ c # None /\ widget[AppOf[c]] = c
        BY DEF Calm
    <2>2. Settled(c) /\ DOMAIN inbox = {}
        BY <2>1 DEF FocusSettled
    <2> QED BY <2>2 DEF Settled
<1> QED BY <1>1, <1>2, InitType, StepType, InitCalls, CallsStep, FocusStep, PTL DEF Spec
-----------------------------------------------------------------------------
(* Presses and their releases. *)

\* The answer to a press of k with the present modifiers, and whether it is being asked for.
Wanted(k)  == imWants(View(AppOf[xfocus]), k, shift)
Asking(k)  == ask[AppOf[xfocus]].kind = "press" /\ ask[AppOf[xfocus]].key = k
Steady(k)  == held[k] \in {"kept", "widget"}

\* What became of a press is still what the daemon would say.
StrokeRight(k) == Steady(k) =>
    /\ xfocus # None /\ widget[AppOf[xfocus]] = xfocus
    /\ held[k] = "widget" => ~Wanted(k)
    /\ held[k] = "kept" /\ ~Asking(k) => Wanted(k)
    /\ held[k] = "kept" /\ Asking(k) /\ ask[AppOf[xfocus]].ans = 0 => ~Wanted(k)
    /\ held[k] = "kept" /\ Asking(k) /\ ask[AppOf[xfocus]].ans > 0 => Wanted(k)

\* A press that the process waits for is of the key that it waits for, with the present
\* modifiers.
PressRight ==
    \A i \in DOMAIN inbox : inbox[i].kind = "press" /\ ~inbox[i].late =>
        /\ ask[AppOf[inbox[i].ctx]].key = inbox[i].key
        /\ inbox[i].key \in Keys
        /\ xfocus # None /\ AppOf[xfocus] = AppOf[inbox[i].ctx] /\ Steady(inbox[i].key) =>
              inbox[i].sh = shift

\* A release that comes to the daemon carries what the daemon would say to its press.
ReleaseRight ==
    \A i \in DOMAIN inbox : inbox[i].kind = "release" /\ inbox[i].stroke # "void" =>
        (inbox[i].stroke = "kept" <=> imWants(View(AppOf[inbox[i].ctx]), inbox[i].key, inbox[i].sh))

WidgetOwn == \A a \in Apps : widget[a] # None => AppOf[widget[a]] = a

Right ==
    /\ \A k \in Keys : StrokeRight(k)
    /\ PressRight /\ ReleaseRight /\ WidgetOwn

LEMMA SameWants ==
    ASSUME NEW k, NEW sh \in BOOLEAN, NEW s, NEW t, Same(k, sh, ViewOf(s), ViewOf(t))
    PROVE  imWants(ViewOf(s), k, sh) <=> imWants(ViewOf(t), k, sh)
BY DEF Same, imWants, IsMark, ViewOf, ActCN

LEMMA WantsType == ASSUME NEW s, NEW k, NEW sh PROVE imWants(ViewOf(s), k, sh) \in BOOLEAN
BY DEF imWants, IsMark, ViewOf, ActCN

\* What every key of the preedit's clients sees of a change.
LEMMA ViewStep ==
    ASSUME TypeOK, mode' = mode, NEW p \in Preedits, NEW s, NEW queue, NEW told,
           Becomes(p, s, queue, told), NEW a \in Apps
    PROVE  View(a)' = IF PreeditOf(a) = p THEN ViewOf(s) ELSE View(a)
<1>1. PreeditOf(a)' = PreeditOf(a) /\ PreeditOf(a) \in Preedits
    BY DefaultType DEF PreeditOf
<1>2. preedit' = [preedit EXCEPT ![p] = s] /\ preedit \in [Preedits -> PreeditStates]
    BY DEF Becomes, TypeOK
<1>3. preedit'[PreeditOf(a)] = IF PreeditOf(a) = p THEN s ELSE preedit[PreeditOf(a)]
    BY <1>1, <1>2
<1>4. View(a)' = ViewOf(preedit'[PreeditOf(a)])
    BY <1>1 DEF View, Pre, ViewOf, ActCN
<1> QED BY <1>3, <1>4 DEF View, Pre

\* A key that stays steady is wanted as before.
LEMMA HeldBecomes ==
    ASSUME TypeOK, UNCHANGED <<mode, xfocus, widget, shift>>,
           NEW p \in Preedits, NEW s, NEW queue, NEW told, Becomes(p, s, queue, told),
           NEW k \in Keys, Steady(k)', StrokeRight(k)
    PROVE  /\ held'[k] = held[k] /\ Steady(k)
           /\ Wanted(k)' <=> Wanted(k)
<1>1. held'[k] = IF xfocus # None /\ PreeditOf(AppOf[xfocus]) = p
                    /\ ~Same(k, shift, ViewOf(preedit[p]), ViewOf(s))
                 THEN Void(held[k]) ELSE held[k]
    BY DEF Becomes
<1>2. Void(held[k]) \notin {"kept", "widget"}
    BY DEF Void
<1>3. held'[k] = held[k] /\ Steady(k)
    BY <1>1, <1>2 DEF Steady
<1>4. ~(xfocus # None /\ PreeditOf(AppOf[xfocus]) = p
        /\ ~Same(k, shift, ViewOf(preedit[p]), ViewOf(s)))
    BY <1>1, <1>2 DEF Steady
<1>5. xfocus \in Contexts /\ AppOf[xfocus] \in Apps /\ shift \in BOOLEAN
    BY <1>3 DEF StrokeRight, TypeOK
<1>6. View(AppOf[xfocus])' = IF PreeditOf(AppOf[xfocus]) = p THEN ViewOf(s) ELSE View(AppOf[xfocus])
    BY <1>5, ViewStep
<1>7. Wanted(k)' <=> imWants(View(AppOf[xfocus])', k, shift)
    BY DEF Wanted, imWants, IsMark
<1>8. CASE PreeditOf(AppOf[xfocus]) = p
    <2>1. Same(k, shift, ViewOf(preedit[p]), ViewOf(s)) /\ View(AppOf[xfocus]) = ViewOf(preedit[p])
        BY <1>4, <1>5, <1>8 DEF View, Pre, TypeOK
    <2> QED BY <1>3, <1>5, <1>6, <1>7, <1>8, <2>1, SameWants DEF Wanted
<1>9. CASE PreeditOf(AppOf[xfocus]) # p
    BY <1>3, <1>6, <1>7, <1>9 DEF Wanted
<1> QED BY <1>3, <1>8, <1>9

LEMMA QueueBecomes ==
    ASSUME TypeOK, mode' = mode, NEW p \in Preedits, NEW s, NEW queue \in Seq(Requests), NEW told,
           Becomes(p, s, queue, told),
           \A i \in DOMAIN queue : queue[i].kind = "release" /\ queue[i].stroke # "void" =>
              (queue[i].stroke = "kept" <=>
                  imWants(View(AppOf[queue[i].ctx]), queue[i].key, queue[i].sh))
    PROVE  ReleaseRight'
<1>0. DOMAIN inbox' = DOMAIN queue
    BY DEF Becomes
<1> SUFFICES ASSUME NEW i \in DOMAIN queue, inbox'[i].kind = "release", inbox'[i].stroke # "void"
             PROVE  (inbox[i].stroke = "kept" <=>
                        imWants(View(AppOf[inbox[i].ctx]), inbox[i].key, inbox[i].sh))'
    BY <1>0 DEF ReleaseRight
<1>1. queue[i] \in Requests
    BY ElementOfSeq, LenProperties
<1>2. AppOf[queue[i].ctx] \in Apps /\ queue[i].sh \in BOOLEAN
    BY <1>1 DEF Requests
<1> DEFINE a == AppOf[queue[i].ctx]
           k == queue[i].key
           sh == queue[i].sh
<1>3. inbox'[i] = IF PreeditOf(a) = p /\ ~Same(k, sh, ViewOf(preedit[p]), ViewOf(s))
                  THEN [queue[i] EXCEPT !.stroke = "void"] ELSE queue[i]
    BY DEF Becomes
<1>4. [queue[i] EXCEPT !.stroke = "void"].stroke = "void"
    BY <1>1 DEF Requests
<1>5. /\ inbox'[i] = queue[i]
      /\ ~(PreeditOf(a) = p /\ ~Same(k, sh, ViewOf(preedit[p]), ViewOf(s)))
    BY <1>3, <1>4
<1>6. View(a)' = IF PreeditOf(a) = p THEN ViewOf(s) ELSE View(a)
    BY <1>2, ViewStep
<1>7. queue[i].stroke = "kept" <=> imWants(View(a), k, sh)
    BY <1>5
<1>8. (inbox[i].stroke = "kept" <=> imWants(View(AppOf[inbox[i].ctx]), inbox[i].key, inbox[i].sh))'
        = (queue[i].stroke = "kept" <=> imWants(View(a)', k, sh))
    BY <1>5 DEF imWants, IsMark, View, ViewOf, ActCN, Pre, PreeditOf
<1>9. imWants(View(a)', k, sh) <=> imWants(View(a), k, sh)
    <2>1. CASE PreeditOf(a) = p
        <3>1. Same(k, sh, ViewOf(preedit[p]), ViewOf(s)) /\ View(a) = ViewOf(preedit[p])
            BY <1>5, <2>1 DEF View, Pre
        <3>2. imWants(ViewOf(preedit[p]), k, sh) <=> imWants(ViewOf(s), k, sh)
            BY <1>2, <3>1, SameWants
        <3>3. View(a)' = ViewOf(s)
            BY <1>6, <2>1
        <3> QED BY <3>1, <3>2, <3>3
    <2>2. CASE PreeditOf(a) # p
        BY <1>6, <2>2
    <2> QED BY <2>1, <2>2
<1> QED BY <1>7, <1>8, <1>9

\* Nothing that Right speaks of changed, but for keys that are not steady any more.
LEMMA RightSame ==
    ASSUME TypeOK, Right, UNCHANGED <<mode, preedit, ask, inbox, xfocus, widget, shift>>,
           \A k \in Keys : held'[k] = held[k] \/ held'[k] \notin {"kept", "widget"}
    PROVE  Right'
<1>1. ASSUME NEW k \in Keys PROVE StrokeRight(k)'
    BY <1>1 DEF Right, StrokeRight, Steady, Wanted, Asking, View, Pre, PreeditOf
<1>2. PressRight'
    BY DEF Right, PressRight, Steady
<1>3. ReleaseRight' /\ WidgetOwn'
    BY DEF Right, ReleaseRight, WidgetOwn, View, Pre, PreeditOf
<1> QED BY <1>1, <1>2, <1>3 DEF Right

\* A call of the process that has the focus: its keys are steady only if they are wanted.
LEMMA IdleWanted ==
    ASSUME TypeOK, Right, xfocus # None, Idle(AppOf[xfocus]), NEW k \in Keys, Steady(k)
    PROVE  held[k] = "kept" <=> Wanted(k)
BY DEF Right, StrokeRight, Steady, Asking, Idle, NoAsk

\* The requests that a process has under way while another one sends.
LEMMA RightCalled ==
    ASSUME TypeOK, CallsExact, Right,
           NEW c \in Contexts, NEW kind \in {"press", "release", "shift", "onoff"},
           NEW k \in KeyClasses, NEW st \in Strokes, Types(c), Call(kind, c, k, st),
           UNCHANGED <<mode, preedit, xfocus, widget>>,
           kind = "press" => k \in Keys,
           kind = "release" /\ st # "void" => (st = "kept" <=> Wanted(k)),
           \/ shift' = shift
           \/ \A j \in Keys : ~Steady(j)',
           \A j \in Keys : /\ Steady(j)' => \/ held'[j] = "widget" /\ ~Wanted(j)
                                            \/ held'[j] = "kept" /\ Wanted(j)
                                            \/ held'[j] = "kept" /\ kind = "press" /\ j = k
    PROVE  Right'
<1> DEFINE q == [kind |-> kind, ctx |-> c, key |-> k, stroke |-> st, sh |-> shift, late |-> FALSE]
<1>1. inbox' = Append(inbox, q) /\ inbox \in Seq(Requests)
    BY DEF Call, Send, TypeOK
<1>2. /\ q.kind = kind /\ q.ctx = c /\ q.key = k /\ q.stroke = st /\ q.sh = shift
    OBVIOUS
<1> HIDE DEF q
<1>3. /\ DOMAIN inbox = 1..Len(inbox) /\ Len(inbox) \in Nat
      /\ DOMAIN inbox' = 1..(Len(inbox) + 1)
      /\ \A i \in DOMAIN inbox : i \in DOMAIN inbox' /\ inbox'[i] = inbox[i]
      /\ inbox'[Len(inbox) + 1] = q
    BY <1>1, Sent
<1>4. \A i \in DOMAIN inbox' : i \in DOMAIN inbox \/ i = Len(inbox) + 1
    BY <1>3
<1>5. xfocus = c /\ widget[AppOf[c]] = c /\ Idle(AppOf[c]) /\ c # None /\ AppOf[c] \in Apps
    BY DEF Types
<1>6. /\ \A i \in DOMAIN inbox : ~inbox[i].late => AppOf[inbox[i].ctx] # AppOf[c]
      /\ \A i \in DOMAIN inbox : AppOf[inbox[i].ctx] \in Apps
    BY <1>1, <1>5, IdleCalls, QueueType
<1>7. /\ ask'[AppOf[c]].kind = kind /\ ask'[AppOf[c]].ans = -1
      /\ kind = "press" => ask'[AppOf[c]].key = k
      /\ \A a \in Apps : a # AppOf[c] => ask'[a] = ask[a]
    BY <1>5 DEF Call, TypeOK
<1>8. ASSUME NEW j \in Keys PROVE StrokeRight(j)'
    <2> SUFFICES ASSUME Steady(j)' PROVE StrokeRight(j)'
        BY DEF StrokeRight
    <2>1. Wanted(j)' <=> Wanted(j)
        BY DEF Wanted, imWants, IsMark, View, ViewOf, ActCN, Pre, PreeditOf
    <2>2. /\ held'[j] = "widget" => ~Wanted(j)'
          /\ held'[j] = "kept" => Wanted(j)' \/ (kind = "press" /\ j = k)
        BY <2>1
    <2>3. xfocus' = c /\ widget'[AppOf[c]] = c
        BY <1>5
    <2>4. kind = "press" /\ j = k => Asking(j)'
        BY <1>7, <2>3 DEF Asking
    <2>5. ask'[AppOf[xfocus']].ans = -1
        BY <1>7, <2>3
    <2> QED BY <1>5, <2>2, <2>3, <2>4, <2>5 DEF StrokeRight
<1>9. PressRight'
    <2> SUFFICES ASSUME NEW i \in DOMAIN inbox', inbox'[i].kind = "press", ~inbox'[i].late
                 PROVE  /\ ask'[AppOf[inbox'[i].ctx]].key = inbox'[i].key
                        /\ inbox'[i].key \in Keys
                        /\ xfocus' # None /\ AppOf[xfocus'] = AppOf[inbox'[i].ctx] /\ Steady(inbox[i].key)'
                              => inbox'[i].sh = shift'
        BY DEF PressRight
    <2>1. CASE i \in DOMAIN inbox
        BY <1>3, <1>5, <1>6, <1>7, <2>1 DEF Right, PressRight
    <2>2. CASE i = Len(inbox) + 1
        <3>1. inbox'[i] = q /\ kind = "press"
            BY <1>2, <1>3, <2>2
        <3>2. Steady(inbox[i].key)' => shift' = shift
            BY <1>2, <3>1
        <3> QED BY <1>2, <1>7, <3>1, <3>2
    <2> QED BY <1>4, <2>1, <2>2
<1>10. ReleaseRight'
    <2> SUFFICES ASSUME NEW i \in DOMAIN inbox', inbox'[i].kind = "release", inbox'[i].stroke # "void"
                 PROVE  inbox'[i].stroke = "kept" <=>
                            imWants(View(AppOf[inbox'[i].ctx]), inbox'[i].key, inbox'[i].sh)
        <3>1. ASSUME NEW i \in DOMAIN inbox'
              PROVE  imWants(View(AppOf[inbox'[i].ctx]), inbox'[i].key, inbox'[i].sh) <=>
                     imWants(View(AppOf[inbox[i].ctx]), inbox[i].key, inbox[i].sh)'
            BY DEF imWants, IsMark, View, ViewOf, ActCN, Pre, PreeditOf
        <3> QED BY <3>1 DEF ReleaseRight
    <2>1. CASE i \in DOMAIN inbox
        BY <1>3, <2>1 DEF Right, ReleaseRight
    <2>2. CASE i = Len(inbox) + 1
        BY <1>2, <1>3, <1>5, <2>2 DEF Wanted
    <2> QED BY <1>4, <2>1, <2>2
<1>11. WidgetOwn'
    BY DEF Right, WidgetOwn
<1> QED BY <1>8, <1>9, <1>10, <1>11 DEF Right

LEMMA RightUser ==
    ASSUME TypeOK, CallsExact, AllAgree, Right, NEW c \in Contexts, User(c)
    PROVE  Right'
<1>0. "other" \in KeyClasses /\ "void" \in Strokes /\ AppOf[c] \in Apps /\ c # None
    BY DEF KeyClasses, Strokes
<1>1. ASSUME NEW k \in Keys, KeyPress(c, k) PROVE Right'
    <2>1. /\ xfocus = c /\ widget[AppOf[c]] = c /\ Idle(AppOf[c]) /\ Types(c)
          /\ UNCHANGED <<mode, preedit, xfocus, widget, shift>>
        BY <1>1 DEF KeyPress, Types
    <2>2. \A j \in Keys : Steady(j) => (held[j] = "kept" <=> Wanted(j))
        BY <1>0, <2>1, IdleWanted
    <2>3. held' = [held EXCEPT ![k] =
            IF behind[AppOf[c]] THEN "void" ELSE IF held[k] # "up" THEN held[k]
            ELSE IF g_im_active[AppOf[c]] THEN "kept" ELSE "widget"]
        BY <1>1 DEF KeyPress
    <2>4. \A j \in Keys : j # k => held'[j] = held[j]
        BY <2>3 DEF TypeOK
    <2>5. held'[k] = IF behind[AppOf[c]] THEN "void" ELSE IF held[k] # "up" THEN held[k]
                     ELSE IF g_im_active[AppOf[c]] THEN "kept" ELSE "widget"
        BY <2>3 DEF TypeOK
    <2>6. ~behind[AppOf[c]] /\ ~g_im_active[AppOf[c]] => ~Wanted(k)
        <3>1. Agrees(AppOf[c]) /\ ask[AppOf[c]].ans = -1
            BY <1>0, <2>1 DEF AllAgree, Idle, NoAsk
        <3>2. ~behind[AppOf[c]] => g_im_active[AppOf[c]] = ActCN(Pre(AppOf[c]))
            BY <3>1 DEF Agrees
        <3> QED BY <2>1, <3>2 DEF Wanted, View, ViewOf, imWants
    <2>7. CASE g_im_active[AppOf[c]] /\ Call("press", c, k, "void")
        <3>1. \A j \in Keys : /\ Steady(j)' => \/ held'[j] = "widget" /\ ~Wanted(j)
                                               \/ held'[j] = "kept" /\ Wanted(j)
                                               \/ held'[j] = "kept" /\ "press" = "press" /\ j = k
            BY <2>2, <2>4, <2>5, <2>7 DEF Steady
        <3>2. k \in KeyClasses
            OBVIOUS
        <3> QED BY <1>0, <2>1, <2>7, <3>1, <3>2, RightCalled
    <2>8. CASE ~g_im_active[AppOf[c]] /\ UNCHANGED <<ask, inbox>>
        <3>1. ASSUME NEW j \in Keys PROVE StrokeRight(j)'
            <4> SUFFICES ASSUME Steady(j)' PROVE StrokeRight(j)'
                BY DEF StrokeRight
            <4>1. Wanted(j)' <=> Wanted(j)
                BY <2>1 DEF Wanted, imWants, IsMark, View, ViewOf, ActCN, Pre, PreeditOf
            <4>2. held'[j] = "kept" <=> Wanted(j)
                <5>1. CASE j # k
                    BY <2>2, <2>4, <5>1 DEF Steady
                <5>2. CASE j = k
                    BY <2>2, <2>5, <2>6, <2>8, <5>2 DEF Steady
                <5> QED BY <5>1, <5>2
            <4>3. held'[j] = "widget" => ~Wanted(j)
                BY <4>2
            <4>4. ask'[AppOf[xfocus']].ans = -1
                BY <2>1, <2>8 DEF Idle, NoAsk
            <4> QED BY <1>0, <2>1, <4>1, <4>2, <4>3, <4>4 DEF StrokeRight
        <3>2. PressRight'
            <4>1. ASSUME NEW i \in DOMAIN inbox, ~inbox[i].late PROVE AppOf[inbox[i].ctx] # AppOf[c]
                BY <1>0, <2>1, <4>1, IdleCalls
            <4> QED BY <2>1, <2>8, <4>1 DEF Right, PressRight
        <3>3. ReleaseRight' /\ WidgetOwn'
            BY <2>1, <2>8 DEF Right, ReleaseRight, WidgetOwn, View, Pre, PreeditOf
        <3> QED BY <3>1, <3>2, <3>3 DEF Right
    <2> QED BY <1>1, <2>7, <2>8 DEF KeyPress
<1>2. ASSUME NEW k \in Keys, KeyRelease(c, k) PROVE Right'
    <2>1. /\ xfocus = c /\ Idle(AppOf[c]) /\ Types(c)
          /\ UNCHANGED <<mode, preedit, xfocus, widget, shift>>
        BY <1>2 DEF KeyRelease, Types
    <2>2. \A j \in Keys : Steady(j) => (held[j] = "kept" <=> Wanted(j))
        BY <1>0, <2>1, IdleWanted
    <2>3. held'[k] = "up" /\ \A j \in Keys : j # k => held'[j] = held[j]
        BY <1>2 DEF KeyRelease, TypeOK
    <2>4. CASE Call("release", c, k, held[k])
        <3>1. held[k] \in Strokes /\ k \in KeyClasses
            BY <1>2 DEF KeyRelease, Down, TypeOK
        <3>2. held[k] # "void" => (held[k] = "kept" <=> Wanted(k))
            BY <2>2, <3>1 DEF Strokes, Steady
        <3>3. \A j \in Keys : /\ Steady(j)' => \/ held'[j] = "widget" /\ ~Wanted(j)
                                               \/ held'[j] = "kept" /\ Wanted(j)
                                               \/ held'[j] = "kept" /\ "release" = "press" /\ j = k
            BY <2>2, <2>3 DEF Steady
        <3> QED BY <1>0, <2>1, <2>4, <3>1, <3>2, <3>3, RightCalled
    <2>5. CASE UNCHANGED <<ask, inbox>>
        <3>1. \A j \in Keys : held'[j] = held[j] \/ held'[j] \notin {"kept", "widget"}
            BY <2>3
        <3> QED BY <2>1, <2>5, <3>1, RightSame
    <2> QED BY <1>2, <2>4, <2>5 DEF KeyRelease
<1>3. CASE ShiftRelease(c)
    <2>1. \A j \in Keys : ~Steady(j)'
        BY <1>3 DEF ShiftRelease, VoidAll, Void, Steady
    <2>2. Types(c) /\ Call("shift", c, "other", "void") /\ UNCHANGED <<mode, preedit, xfocus, widget>>
        BY <1>3 DEF ShiftRelease
    <2> QED BY <1>0, <2>1, <2>2, RightCalled
<1>4. CASE OnOffRelease(c)
    <2>1. /\ Types(c) /\ Call("onoff", c, "other", "void")
          /\ UNCHANGED <<mode, preedit, xfocus, widget, shift, held>> /\ xfocus = c /\ Idle(AppOf[c])
        BY <1>4 DEF OnOffRelease, Types
    <2>2. \A j \in Keys : Steady(j) => (held[j] = "kept" <=> Wanted(j))
        BY <1>0, <2>1, IdleWanted
    <2>3. \A j \in Keys : /\ Steady(j)' => \/ held'[j] = "widget" /\ ~Wanted(j)
                                           \/ held'[j] = "kept" /\ Wanted(j)
                                           \/ held'[j] = "kept" /\ "onoff" = "press" /\ j = "other"
        BY <2>1, <2>2 DEF Steady
    <2> QED BY <1>0, <2>1, <2>3, RightCalled
<1>5. CASE FocusIn(c)
    <2>1. /\ xfocus = c /\ widget[AppOf[c]] = None /\ Idle(AppOf[c])
          /\ widget' = [widget EXCEPT ![AppOf[c]] = c]
          /\ Call("in", c, "other", "void") /\ UNCHANGED <<mode, preedit, xfocus, shift, held>>
        BY <1>5 DEF FocusIn
    <2>2. \A k \in Keys : ~Steady(k) /\ ~Steady(k)'
        BY <1>0, <2>1 DEF Right, StrokeRight, Steady
    <2> DEFINE q == [kind |-> "in", ctx |-> c, key |-> "other", stroke |-> "void",
                     sh |-> shift, late |-> FALSE]
    <2>3. inbox' = Append(inbox, q) /\ q.kind = "in" /\ inbox \in Seq(Requests)
        BY <2>1 DEF Call, Send, TypeOK
    <2> HIDE DEF q
    <2>4. \A i \in DOMAIN inbox' : inbox'[i].kind # "in" => i \in DOMAIN inbox /\ inbox'[i] = inbox[i]
        BY <2>3, Sent
    <2>5. PressRight'
        <3> SUFFICES ASSUME NEW i \in DOMAIN inbox', inbox'[i].kind = "press", ~inbox'[i].late
                     PROVE  /\ ask'[AppOf[inbox'[i].ctx]].key = inbox'[i].key
                            /\ inbox'[i].key \in Keys /\ ~Steady(inbox[i].key)'
            BY DEF PressRight
        <3>1. i \in DOMAIN inbox /\ inbox'[i] = inbox[i]
            BY <2>4
        <3>2. AppOf[inbox[i].ctx] \in Apps /\ AppOf[inbox[i].ctx] # AppOf[c]
            BY <1>0, <2>1, <2>3, <3>1, IdleCalls, QueueType
        <3>3. ask'[AppOf[inbox[i].ctx]] = ask[AppOf[inbox[i].ctx]]
            BY <2>1, <3>2 DEF Call, TypeOK
        <3>4. inbox[i].key \in Keys /\ ask[AppOf[inbox[i].ctx]].key = inbox[i].key
            BY <3>1 DEF Right, PressRight
        <3>5. ~Steady(inbox[i].key)'
            <4>1. ~(held'[inbox[i].key] \in {"kept", "widget"})
                BY <2>1, <2>2, <3>4 DEF Steady
            <4> QED BY <3>1, <4>1 DEF Steady
        <3> QED BY <3>1, <3>3, <3>4, <3>5
    <2>6. ReleaseRight'
        <3>1. ASSUME NEW i \in DOMAIN inbox
              PROVE  imWants(View(AppOf[inbox[i].ctx]), inbox[i].key, inbox[i].sh)
                        <=> imWants(ViewOf(preedit'[PreeditOf(AppOf[inbox[i].ctx])]), inbox[i].key, inbox[i].sh)
            BY <2>1 DEF View, Pre
        <3> QED BY <2>1, <2>4, <3>1 DEF Right, ReleaseRight, View, Pre, PreeditOf
    <2>7. WidgetOwn'
        BY <1>0, <2>1 DEF Right, WidgetOwn, TypeOK
    <2> QED BY <2>2, <2>5, <2>6, <2>7 DEF Right, StrokeRight
<1>6. CASE FocusOut(c)
    <2>1. /\ xfocus # c /\ widget[AppOf[c]] = c /\ widget' = [widget EXCEPT ![AppOf[c]] = None]
          /\ UNCHANGED <<mode, preedit, ask, xfocus, shift, held>>
        BY <1>6 DEF FocusOut
    <2>2. ASSUME NEW k \in Keys PROVE StrokeRight(k)'
        <3> SUFFICES ASSUME Steady(k)' PROVE StrokeRight(k)'
            BY DEF StrokeRight
        <3>1. Steady(k) /\ StrokeRight(k)
            BY <2>1 DEF Right, Steady
        <3>2. xfocus # None /\ widget[AppOf[xfocus]] = xfocus
            BY <3>1 DEF StrokeRight
        <3>3. widget'[AppOf[xfocus]] = xfocus
            BY <1>0, <2>1, <3>2 DEF TypeOK
        <3> QED BY <2>1, <3>1, <3>3 DEF StrokeRight, Wanted, Asking, View, Pre, PreeditOf
    <2>3. \A i \in DOMAIN inbox' : inbox'[i].kind # "out" => i \in DOMAIN inbox /\ inbox'[i] = inbox[i]
        <3> DEFINE q == [kind |-> "out", ctx |-> c, key |-> "other", stroke |-> "void",
                         sh |-> shift, late |-> TRUE]
        <3>1. inbox' = inbox \/ inbox' = Append(inbox, q)
            BY <1>6 DEF FocusOut, Send
        <3>2. q.kind = "out" /\ inbox \in Seq(Requests)
            BY DEF TypeOK
        <3> HIDE DEF q
        <3> QED BY <3>1, <3>2, Sent
    <2>4. PressRight'
        BY <2>1, <2>3 DEF Right, PressRight, Steady
    <2>5. ReleaseRight'
        BY <2>1, <2>3 DEF Right, ReleaseRight, View, Pre, PreeditOf
    <2>6. WidgetOwn'
        BY <1>0, <2>1 DEF Right, WidgetOwn, TypeOK
    <2> QED BY <2>2, <2>4, <2>5, <2>6 DEF Right
<1>7. CASE Create(c)
    BY <1>7, RightSame DEF Create
<1>8. CASE MoveFocus(c)
    <2>1. \A k \in Keys : ~Steady(k)'
        BY <1>8 DEF MoveFocus, VoidAll, Void, Steady
    <2>2. UNCHANGED <<mode, preedit, ask, inbox, widget, shift>>
        BY <1>8 DEF MoveFocus
    <2>3. PressRight'
        BY <2>1, <2>2 DEF Right, PressRight
    <2>4. ReleaseRight' /\ WidgetOwn'
        BY <2>2 DEF Right, ReleaseRight, WidgetOwn, View, Pre, PreeditOf
    <2> QED BY <2>1, <2>3, <2>4 DEF Right, StrokeRight
<1> QED BY <1>1, <1>2, <1>3, <1>4, <1>5, <1>6, <1>7, <1>8 DEF User

LEMMA RightClient ==
    ASSUME TypeOK, CallsExact, Right, NEW a \in Apps, ClientSteps(a)
    PROVE  Right'
<1>0. \A k \in Keys : Steady(k) =>
          /\ xfocus # None /\ AppOf[xfocus] \in Apps /\ widget[AppOf[xfocus]] = xfocus
          /\ AppOf[xfocus] # a => widget[a] # xfocus
    BY DEF Right, StrokeRight, WidgetOwn, TypeOK
<1>1. CASE Answered(a)
    <2>1. /\ ask[a].ans >= 0 /\ \A b \in Apps : b # a => ask'[b] = ask[b]
          /\ ask'[a].kind = "none" /\ UNCHANGED <<mode, preedit, inbox, xfocus, widget, shift>>
        BY <1>1 DEF Answered, NoAsk, TypeOK
    <2>2. /\ ask[a].ans = 0 => Fallback(a, "widget")
          /\ ask[a].ans # 0 => held' = held
        BY <1>1 DEF Answered
    <2>3. ASSUME NEW k \in Keys
          PROVE  /\ held'[k] = held[k] \/ (Steady(k) /\ held'[k] = "widget")
                 /\ (Steady(k) /\ AppOf[xfocus] = a /\ Asking(k) /\ ask[a].ans = 0) => held'[k] = "widget"
                 /\ held'[k] # held[k] => AppOf[xfocus] = a /\ Asking(k) /\ ask[a].ans = 0
        <3>1. CASE ask[a].ans # 0
            BY <2>2, <3>1
        <3>2. CASE ask[a].ans = 0 /\ ask[a].kind = "press" /\ held[ask[a].key] = "kept" /\ widget[a] = xfocus
            <4>1. held' = [held EXCEPT ![ask[a].key] = "widget"]
                BY <2>2, <3>2 DEF Fallback
            <4>2. held'[k] = IF k = ask[a].key THEN "widget" ELSE held[k]
                BY <4>1 DEF TypeOK
            <4>3. k = ask[a].key => Steady(k) /\ AppOf[xfocus] = a
                BY <1>0, <3>2 DEF Steady
            <4> QED BY <3>2, <4>2, <4>3 DEF Asking
        <3>3. CASE ask[a].ans = 0 /\ ~(ask[a].kind = "press" /\ held[ask[a].key] = "kept" /\ widget[a] = xfocus)
            <4>1. held' = held
                BY <2>2, <3>3 DEF Fallback
            <4>2. Steady(k) /\ AppOf[xfocus] = a /\ Asking(k) => held[k] = "widget"
                BY <1>0, <3>3 DEF Asking, Steady
            <4> QED BY <4>1, <4>2
        <3> QED BY <3>1, <3>2, <3>3
    <2>4. ASSUME NEW k \in Keys, Steady(k)' PROVE StrokeRight(k)'
        <3>1. Steady(k)
            BY <2>3, <2>4 DEF Steady
        <3>2. StrokeRight(k) /\ xfocus # None /\ widget[AppOf[xfocus]] = xfocus
            BY <1>0, <3>1 DEF Right
        <3>3. Wanted(k)' <=> Wanted(k)
            BY <2>1 DEF Wanted, imWants, IsMark, View, ViewOf, ActCN, Pre, PreeditOf
        <3>4. CASE AppOf[xfocus] # a
            <4>1. ask'[AppOf[xfocus]] = ask[AppOf[xfocus]] /\ held'[k] = held[k]
                BY <1>0, <2>1, <2>3, <3>1, <3>4
            <4> QED BY <2>1, <3>1, <3>2, <3>3, <4>1 DEF StrokeRight, Steady, Asking
        <3>5. CASE AppOf[xfocus] = a
            <4>1. ~Asking(k)'
                BY <2>1, <3>5 DEF Asking
            <4>2. held'[k] = "widget" => ~Wanted(k)
                BY <2>3, <3>1, <3>2, <3>5 DEF StrokeRight, Steady
            <4>3. held'[k] = "kept" => Wanted(k)
                <5>1. held'[k] = "kept" => held[k] = "kept" /\ ~(Asking(k) /\ ask[a].ans = 0)
                    BY <2>3, <3>1, <3>5
                <5>2. ask[a].ans >= 0 /\ ask[a].ans \in -1..2
                    BY <2>1 DEF TypeOK, Asks
                <5>3. ask[a].ans = 0 \/ ask[a].ans > 0
                    BY <5>2
                <5> QED BY <3>1, <3>2, <3>5, <5>1, <5>3 DEF StrokeRight
            <4> QED BY <2>1, <3>2, <3>3, <4>1, <4>2, <4>3 DEF StrokeRight
        <3> QED BY <3>4, <3>5
    <2>5. PressRight'
        <3> SUFFICES ASSUME NEW i \in DOMAIN inbox, inbox[i].kind = "press", ~inbox[i].late
                     PROVE  /\ ask'[AppOf[inbox[i].ctx]].key = inbox[i].key
                            /\ inbox[i].key \in Keys
                            /\ xfocus # None /\ AppOf[xfocus] = AppOf[inbox[i].ctx] /\ held'[inbox[i].key] \in {"kept", "widget"}
                                  => inbox[i].sh = shift
            BY <2>1 DEF PressRight, Steady
        <3>1. AppOf[inbox[i].ctx] \in Apps
            BY QueueType DEF TypeOK
        <3>2. ask[AppOf[inbox[i].ctx]].ans = -1
            BY DEF CallsExact
        <3>3. AppOf[inbox[i].ctx] # a
            BY <2>1, <3>2
        <3>4. inbox[i].key \in Keys
            BY DEF Right, PressRight
        <3>5. held'[inbox[i].key] \in {"kept", "widget"} => Steady(inbox[i].key)
            BY <2>3, <3>4 DEF Steady
        <3> QED BY <2>1, <3>1, <3>3, <3>4, <3>5 DEF Right, PressRight
    <2>6. ReleaseRight' /\ WidgetOwn'
        BY <2>1 DEF Right, ReleaseRight, WidgetOwn, View, Pre, PreeditOf
    <2> QED BY <2>4, <2>5, <2>6 DEF Right, StrokeRight
<1>2. CASE TimedOut(a)
    <2>1. /\ \A b \in Apps : b # a => ask'[b] = ask[b]
          /\ ask'[a].kind = "none" /\ UNCHANGED <<mode, preedit, xfocus, widget, shift>>
          /\ Fallback(a, "void")
        BY <1>2 DEF TimedOut, NoAsk, TypeOK
    <2>2. DOMAIN inbox' = DOMAIN inbox /\ \A i \in DOMAIN inbox :
              /\ inbox'[i].kind = inbox[i].kind /\ inbox'[i].ctx = inbox[i].ctx
              /\ inbox'[i].key = inbox[i].key /\ inbox'[i].sh = inbox[i].sh
              /\ inbox'[i].stroke = inbox[i].stroke
              /\ inbox'[i].late = (inbox[i].late \/ AppOf[inbox[i].ctx] = a)
        <3>1. ASSUME NEW i \in DOMAIN inbox PROVE inbox[i] \in Requests
            BY QueueType DEF TypeOK
        <3> QED BY <1>2, <3>1 DEF TimedOut, Requests
    <2>3. ASSUME NEW k \in Keys
          PROVE  /\ held'[k] = held[k] \/ held'[k] = "void"
                 /\ (held[k] = "kept" /\ AppOf[xfocus] = a /\ Asking(k)) => held'[k] = "void"
        <3>1. CASE ask[a].kind = "press" /\ held[ask[a].key] = "kept" /\ widget[a] = xfocus
            <4>1. held' = [held EXCEPT ![ask[a].key] = "void"]
                BY <2>1, <3>1 DEF Fallback
            <4>2. held'[k] = IF k = ask[a].key THEN "void" ELSE held[k]
                BY <4>1 DEF TypeOK
            <4> QED BY <4>2 DEF Asking
        <3>2. CASE ~(ask[a].kind = "press" /\ held[ask[a].key] = "kept" /\ widget[a] = xfocus)
            <4>1. held' = held
                BY <2>1, <3>2 DEF Fallback
            <4>2. ~(held[k] = "kept" /\ AppOf[xfocus] = a /\ Asking(k))
                BY <1>0, <3>2 DEF Asking, Steady
            <4> QED BY <4>1, <4>2
        <3> QED BY <3>1, <3>2
    <2>4. ASSUME NEW k \in Keys, Steady(k)' PROVE StrokeRight(k)'
        <3>1. Steady(k) /\ held'[k] = held[k]
            BY <2>3, <2>4 DEF Steady
        <3>2. StrokeRight(k) /\ xfocus # None /\ widget[AppOf[xfocus]] = xfocus /\ AppOf[xfocus] \in Apps
            BY <1>0, <3>1 DEF Right
        <3>3. Wanted(k)' <=> Wanted(k)
            BY <2>1 DEF Wanted, imWants, IsMark, View, ViewOf, ActCN, Pre, PreeditOf
        <3>4. CASE AppOf[xfocus] # a
            <4>1. ask'[AppOf[xfocus]] = ask[AppOf[xfocus]]
                BY <2>1, <3>2, <3>4
            <4> QED BY <2>1, <3>1, <3>2, <3>3, <4>1 DEF StrokeRight, Steady, Asking
        <3>5. CASE AppOf[xfocus] = a
            <4>1. ~Asking(k)' /\ (held[k] = "kept" => ~Asking(k))
                BY <2>1, <2>3, <3>1, <3>5 DEF Asking, Steady
            <4> QED BY <2>1, <3>1, <3>2, <3>3, <4>1 DEF StrokeRight
        <3> QED BY <3>4, <3>5
    <2>5. PressRight'
        <3> SUFFICES ASSUME NEW i \in DOMAIN inbox, inbox[i].kind = "press", ~inbox'[i].late
                     PROVE  /\ ask'[AppOf[inbox[i].ctx]].key = inbox[i].key
                            /\ inbox[i].key \in Keys
                            /\ xfocus # None /\ AppOf[xfocus] = AppOf[inbox[i].ctx] /\ held'[inbox[i].key] \in {"kept", "widget"}
                                  => inbox[i].sh = shift
            BY <2>1, <2>2 DEF PressRight, Steady
        <3>1. AppOf[inbox[i].ctx] \in Apps
            BY QueueType DEF TypeOK
        <3>2. AppOf[inbox[i].ctx] # a /\ ~inbox[i].late
            BY <2>2
        <3>4. inbox[i].key \in Keys
            BY <3>2 DEF Right, PressRight
        <3>5. held'[inbox[i].key] \in {"kept", "widget"} => Steady(inbox[i].key)
            BY <2>3, <3>4 DEF Steady
        <3> QED BY <2>1, <3>1, <3>2, <3>4, <3>5 DEF Right, PressRight
    <2>6. ReleaseRight' /\ WidgetOwn'
        BY <2>1, <2>2 DEF Right, ReleaseRight, WidgetOwn, View, Pre, PreeditOf
    <2> QED BY <2>4, <2>5, <2>6 DEF Right, StrokeRight
<1>3. CASE TakeText(a)
    BY <1>3, RightSame DEF TakeText
<1> QED BY <1>1, <1>2, <1>3 DEF ClientSteps

\* A request that is served: a press with what imWants says, any other with any reply.
LEMMA RightServed ==
    ASSUME TypeOK, CallsExact, Right, inbox # <<>>,
           UNCHANGED <<mode, xfocus, widget, shift>>,
           NEW s, NEW told, NEW ans \in 0..2,
           Becomes(PreeditOf(Client), s, Tail(inbox), told), Reply(ans),
           First.kind = "press" => (ans = 0 <=> ~imWants(View(Client), First.key, First.sh))
    PROVE  Right'
<1>0. /\ Client \in Apps /\ First \in Requests /\ Tail(inbox) \in Seq(Requests)
      /\ inbox \in Seq(Requests)
    BY FirstType DEF TypeOK
<1>1. PreeditOf(Client) \in Preedits
    BY <1>0, DefaultType
<1>2. /\ 1 \in DOMAIN inbox /\ First = inbox[1]
      /\ \A i \in DOMAIN Tail(inbox) : i + 1 \in DOMAIN inbox /\ Tail(inbox)[i] = inbox[i + 1]
      /\ DOMAIN Tail(inbox) = 1..(Len(inbox) - 1) /\ Len(inbox) \in Nat
    BY <1>0, RestOf
<1>3. Shape(Tail(inbox))
    BY <1>0, BecomesShape
<1>4. ASSUME NEW a \in Apps, a # Client \/ First.late PROVE ask'[a] = ask[a]
    BY <1>4 DEF Reply, TypeOK
<1>5. ~First.late => /\ ask[Client].kind = First.kind /\ ask[Client].ans = -1
                     /\ ask'[Client].kind = First.kind /\ ask'[Client].ans = ans
                     /\ ask'[Client].key = ask[Client].key
    <2>1. ~First.late => ask[Client].kind = First.kind /\ ask[Client].ans = -1
        BY <1>2 DEF CallsExact, Client
    <2>2. ask[Client] \in Asks
        BY <1>0 DEF TypeOK
    <2> QED BY <1>0, <2>1, <2>2 DEF Reply, TypeOK, Asks
<1>6. ASSUME NEW k \in Keys, Steady(k)' PROVE StrokeRight(k)'
    <2>1. /\ held'[k] = held[k] /\ Steady(k)
          /\ Wanted(k)' <=> Wanted(k)
        BY <1>0, <1>1, <1>6, HeldBecomes DEF Right
    <2>2. /\ xfocus # None /\ widget[AppOf[xfocus]] = xfocus /\ AppOf[xfocus] \in Apps
          /\ StrokeRight(k)
        BY <2>1 DEF Right, StrokeRight, TypeOK
    <2>3. CASE AppOf[xfocus] # Client \/ First.late
        <3>1. ask'[AppOf[xfocus]] = ask[AppOf[xfocus]]
            BY <1>4, <2>2, <2>3
        <3> QED BY <2>1, <2>2, <3>1 DEF StrokeRight, Steady, Asking
    <2>4. CASE AppOf[xfocus] = Client /\ ~First.late
        <3>1. Asking(k)' <=> Asking(k)
            BY <1>5, <2>4 DEF Asking
        <3>2. ASSUME held[k] = "kept", Asking(k)
              PROVE  (ans = 0 => ~Wanted(k)) /\ (ans > 0 => Wanted(k))
            <4>1. First.kind = "press" /\ First.key = k
                BY <1>2, <1>5, <2>4, <3>2 DEF Asking, Right, PressRight, Client
            <4>2. First.sh = shift
                BY <1>2, <2>1, <2>2, <2>4, <4>1 DEF Right, PressRight, Client
            <4>3. Wanted(k) <=> imWants(View(Client), First.key, First.sh)
                BY <2>4, <4>1, <4>2 DEF Wanted
            <4> QED BY <4>1, <4>3
        <3>3. ask'[AppOf[xfocus]].ans = ans
            BY <1>5, <2>4
        <3> QED BY <2>1, <2>2, <3>1, <3>2, <3>3 DEF StrokeRight
    <2> QED BY <2>3, <2>4
<1>7. PressRight'
    <2> SUFFICES ASSUME NEW i \in DOMAIN inbox', inbox'[i].kind = "press", ~inbox'[i].late
                 PROVE  /\ ask'[AppOf[inbox'[i].ctx]].key = inbox'[i].key
                        /\ inbox'[i].key \in Keys
                        /\ xfocus # None /\ AppOf[xfocus] = AppOf[inbox'[i].ctx] /\ held'[inbox'[i].key] \in {"kept", "widget"}
                              => inbox'[i].sh = shift
        BY DEF PressRight, Steady
    <2> DEFINE m == i + 1
    <2>1. /\ m \in DOMAIN inbox /\ m # 1
          /\ inbox'[i].kind = inbox[m].kind /\ inbox'[i].ctx = inbox[m].ctx
          /\ inbox'[i].key = inbox[m].key /\ inbox'[i].sh = inbox[m].sh
          /\ inbox'[i].late = inbox[m].late
        BY <1>2, <1>3 DEF Shape
    <2> HIDE DEF m
    <2>2. AppOf[inbox[m].ctx] \in Apps
        BY <1>0, <2>1, QueueType
    <2>3. AppOf[inbox[m].ctx] # Client \/ First.late
        BY <1>2, <2>1 DEF CallsExact, Client
    <2>4. ask'[AppOf[inbox[m].ctx]] = ask[AppOf[inbox[m].ctx]]
        BY <1>4, <2>2, <2>3
    <2>5. /\ ask[AppOf[inbox[m].ctx]].key = inbox[m].key
          /\ inbox[m].key \in Keys
          /\ xfocus # None /\ AppOf[xfocus] = AppOf[inbox[m].ctx] /\ Steady(inbox[m].key) =>
                inbox[m].sh = shift
        BY <2>1 DEF Right, PressRight
    <2>6. held'[inbox[m].key] \in {"kept", "widget"} => Steady(inbox[m].key)
        <3> DEFINE k == inbox[m].key
        <3>1. held'[k] = held[k] \/ held'[k] = Void(held[k])
            BY <2>5 DEF Becomes
        <3> QED BY <3>1 DEF Void, Steady
    <2> QED BY <2>1, <2>4, <2>5, <2>6
<1>8. ReleaseRight'
    <2>1. \A i \in DOMAIN Tail(inbox) :
              Tail(inbox)[i].kind = "release" /\ Tail(inbox)[i].stroke # "void" =>
              (Tail(inbox)[i].stroke = "kept" <=>
                  imWants(View(AppOf[Tail(inbox)[i].ctx]), Tail(inbox)[i].key, Tail(inbox)[i].sh))
        BY <1>2 DEF Right, ReleaseRight
    <2> QED BY <1>0, <1>1, <2>1, QueueBecomes
<1>9. WidgetOwn'
    BY DEF Right, WidgetOwn
<1> QED BY <1>6, <1>7, <1>8, <1>9 DEF Right, StrokeRight

LEMMA ReplyMeans ==
    ASSUME NEW s, NEW used \in BOOLEAN
    PROVE  KeyReply(used, s) = 0 <=> ~used
BY DEF KeyReply

\* A preedit changes and no request is taken: a click on the tray.
LEMMA RightTray ==
    ASSUME TypeOK, CallsExact, Right, UNCHANGED <<mode, ask, xfocus, widget, shift>>,
           NEW p \in Preedits, NEW s, Becomes(p, s, inbox, {})
    PROVE  Right'
<1>0. inbox \in Seq(Requests)
    BY DEF TypeOK
<1>1. Shape(inbox)
    BY <1>0, BecomesShape
<1>2. ASSUME NEW k \in Keys, Steady(k)' PROVE StrokeRight(k)'
    <2>1. held'[k] = held[k] /\ Steady(k) /\ (Wanted(k)' <=> Wanted(k))
        BY <1>2, HeldBecomes DEF Right
    <2>2. StrokeRight(k)
        BY DEF Right
    <2> QED BY <2>1, <2>2 DEF StrokeRight, Steady, Asking
<1>3. PressRight'
    <2> SUFFICES ASSUME NEW i \in DOMAIN inbox, inbox[i].kind = "press", ~inbox[i].late
                 PROVE  /\ ask[AppOf[inbox[i].ctx]].key = inbox[i].key
                        /\ inbox[i].key \in Keys
                        /\ xfocus # None /\ AppOf[xfocus] = AppOf[inbox[i].ctx]
                              /\ held'[inbox[i].key] \in {"kept", "widget"} => inbox[i].sh = shift
        BY <1>1 DEF PressRight, Steady, Shape
    <2>1. /\ ask[AppOf[inbox[i].ctx]].key = inbox[i].key
          /\ inbox[i].key \in Keys
          /\ xfocus # None /\ AppOf[xfocus] = AppOf[inbox[i].ctx] /\ Steady(inbox[i].key) =>
                inbox[i].sh = shift
        BY DEF Right, PressRight
    <2> DEFINE k == inbox[i].key
    <2>2. held'[k] = held[k] \/ held'[k] = Void(held[k])
        BY <2>1 DEF Becomes
    <2> QED BY <2>1, <2>2 DEF Void, Steady
<1>4. ReleaseRight'
    BY <1>0, QueueBecomes DEF Right, ReleaseRight
<1>5. WidgetOwn'
    BY DEF Right, WidgetOwn
<1> QED BY <1>2, <1>3, <1>4, <1>5 DEF Right, StrokeRight

LEMMA RightDaemon ==
    ASSUME TypeOK, CallsExact, Right, Daemon
    PROVE  Right'
<1>0. ASSUME inbox # <<>>
      PROVE  /\ First \in Requests /\ First.ctx \in Contexts /\ First.sh \in BOOLEAN
             /\ Client \in Apps /\ Pre(Client) \in PreeditStates
    <2>1. First \in Requests /\ Client \in Apps
        BY <1>0, FirstType DEF TypeOK
    <2> QED BY <2>1, DefaultType DEF Requests, Pre, TypeOK
<1>1. ASSUME ServePress PROVE Right'
    <2> DEFINE wanted == imWants(View(Client), First.key, First.sh)
    <2>1. inbox # <<>> /\ wanted \in BOOLEAN
        BY <1>1, <1>0, WantsType DEF ServePress, IsFirst, View
    <2>2. /\ Becomes(PreeditOf(Client), Pre(Client), Tail(inbox), Told(wanted))
          /\ Reply(KeyReply(wanted, Pre(Client)))
          /\ UNCHANGED <<mode, xfocus, widget, shift>>
        BY <1>1 DEF ServePress
    <2>3. KeyReply(wanted, Pre(Client)) \in 0..2 /\ (KeyReply(wanted, Pre(Client)) = 0 <=> ~wanted)
        BY <2>1, ReplyType, ReplyMeans
    <2> QED BY <2>1, <2>2, <2>3, RightServed
<1>2. ASSUME ServeRelease PROVE Right'
    <2> DEFINE s == NoteModifier(Pre(Client), First.key, First.sh)
               used == Handles(View(Client), First.key, First.sh)
               t(e) == IF used THEN [s EXCEPT !.start = e.start] ELSE s
    <2>1. inbox # <<>> /\ First.kind # "press" /\ UNCHANGED <<mode, xfocus, widget, shift>>
        BY <1>2 DEF ServeRelease, IsFirst
    <2>2. used \in BOOLEAN
        BY <1>0, <2>1, StateType DEF Handles, View, ViewOf, IsMark, PreeditStates
    <2>3. PICK e \in Effects(First.key, First.sh) :
              /\ Becomes(PreeditOf(Client), t(e), Tail(inbox), Told(used))
              /\ Reply(KeyReply(used, t(e)))
        BY <1>2 DEF ServeRelease
    <2> HIDE DEF s, used, t
    <2>4. KeyReply(used, t(e)) \in 0..2
        BY <2>2, ReplyType
    <2> QED BY <2>1, <2>3, <2>4, RightServed
<1>3. ASSUME ServeShift PROVE Right'
    <2> DEFINE s == Pre(Client)
               used == s.on /\ ~s.chord
               t == IF used THEN SwitchCE(s) ELSE [s EXCEPT !.chord = @ /\ ~s.on]
    <2>1. inbox # <<>> /\ First.kind # "press" /\ UNCHANGED <<mode, xfocus, widget, shift>>
        BY <1>3 DEF ServeShift, IsFirst
    <2>2. used \in BOOLEAN
        BY <1>0, <2>1 DEF PreeditStates
    <2>3. /\ Becomes(PreeditOf(Client), t, Tail(inbox), Told(used))
          /\ Reply(KeyReply(used, t))
        BY <1>3 DEF ServeShift
    <2> HIDE DEF s, used, t
    <2>4. KeyReply(used, t) \in 0..2
        BY <2>2, ReplyType
    <2> QED BY <2>1, <2>3, <2>4, RightServed
<1>4. ASSUME ServeOnOff PROVE Right'
    <2>1. inbox # <<>> /\ First.kind # "press" /\ UNCHANGED <<mode, xfocus, widget, shift>>
        BY <1>4 DEF ServeOnOff, IsFirst
    <2>2. /\ Becomes(PreeditOf(Client), SwitchOn(Pre(Client)), Tail(inbox), Told(TRUE))
          /\ Reply(KeyReply(TRUE, SwitchOn(Pre(Client))))
        BY <1>4 DEF ServeOnOff
    <2>3. KeyReply(TRUE, SwitchOn(Pre(Client))) \in 0..2
        BY ReplyType
    <2> QED BY <2>1, <2>2, <2>3, RightServed
<1>5. ASSUME ServeFocusIn PROVE Right'
    <2>1. inbox # <<>> /\ First.kind # "press" /\ UNCHANGED <<mode, xfocus, widget, shift>>
        BY <1>5 DEF ServeFocusIn, IsFirst
    <2>2. /\ Becomes(PreeditOf(Client), Pre(Client), Tail(inbox), Told(TRUE))
          /\ Reply(IF ActCN(Pre(Client)) THEN 1 ELSE 0)
        BY <1>5 DEF ServeFocusIn
    <2>3. (IF ActCN(Pre(Client)) THEN 1 ELSE 0) \in 0..2
        OBVIOUS
    <2> QED BY <2>1, <2>2, <2>3, RightServed
<1>6. ASSUME ServeFocusOut PROVE Right'
    <2>1. /\ inbox # <<>> /\ inbox' = Tail(inbox)
          /\ UNCHANGED <<mode, preedit, ask, xfocus, widget, held, shift>>
        BY <1>6 DEF ServeFocusOut, IsFirst, clientVars, worldVars
    <2>2. /\ DOMAIN Tail(inbox) = 1..(Len(inbox) - 1)
          /\ \A i \in DOMAIN Tail(inbox) : i + 1 \in DOMAIN inbox /\ Tail(inbox)[i] = inbox[i + 1]
        BY <2>1, RestOf DEF TypeOK
    <2>3. PressRight'
        BY <2>1, <2>2 DEF Right, PressRight, Steady
    <2>4. ReleaseRight'
        BY <2>1, <2>2 DEF Right, ReleaseRight, View, Pre, PreeditOf
    <2>5. WidgetOwn' /\ \A k \in Keys : StrokeRight(k)'
        BY <2>1 DEF Right, WidgetOwn, StrokeRight, Steady, Wanted, Asking, View, Pre, PreeditOf
    <2> QED BY <2>3, <2>4, <2>5 DEF Right
<1>7. TrayPreedit \in Preedits
    BY DefaultType DEF TrayPreedit, TypeOK
<1>8. CASE TraySwitchCE
    BY <1>7, <1>8, RightTray DEF TraySwitchCE, clientVars
<1>9. CASE TraySwitchPun
    BY <1>7, <1>9, RightTray DEF TraySwitchPun, clientVars
<1> QED BY <1>1, <1>2, <1>3, <1>4, <1>5, <1>6, <1>8, <1>9 DEF Daemon

LEMMA RightStep == TypeOK /\ CallsExact /\ AllAgree /\ Right /\ [Next]_vars => Right'
<1> SUFFICES ASSUME TypeOK, CallsExact, AllAgree, Right, [Next]_vars PROVE Right'
    OBVIOUS
<1>1. CASE ShiftPress
    <2>1. \A k \in Keys : ~Steady(k)'
        BY <1>1 DEF ShiftPress, VoidAll, Void, Steady
    <2>2. UNCHANGED <<mode, preedit, ask, inbox, xfocus, widget>>
        BY <1>1 DEF ShiftPress, daemonVars, clientVars
    <2>3. PressRight'
        BY <2>1, <2>2 DEF Right, PressRight
    <2>4. ReleaseRight' /\ WidgetOwn'
        BY <2>2 DEF Right, ReleaseRight, WidgetOwn, View, Pre, PreeditOf
    <2> QED BY <2>1, <2>3, <2>4 DEF Right, StrokeRight
<1>2. CASE UNCHANGED vars
    BY <1>2, RightSame DEF vars, daemonVars, clientVars, worldVars
<1> QED BY <1>1, <1>2, RightUser, RightClient, RightDaemon DEF Next

LEMMA InitRight == Init => Right
<1> SUFFICES ASSUME Init PROVE Right
    OBVIOUS
<1>1. DOMAIN inbox = {}
    BY DEF Init
<1>2. \A k \in Keys : ~Steady(k)
    BY DEF Init, Steady
<1>3. WidgetOwn
    BY DEF Init, WidgetOwn
<1> QED BY <1>1, <1>2, <1>3 DEF Right, StrokeRight, PressRight, ReleaseRight

\* But for the odd keys, the daemon asks of a press what it does at the release.
LEMMA WantsHandles ==
    ASSUME NEW s \in PreeditStates, NEW k \in KeyClasses, NEW sh \in BOOLEAN,
           ~Odd(ViewOf(s), k, sh)
    PROVE  imWants(ViewOf(s), k, sh) <=> Handles(ViewOf(s), k, sh)
BY DEF Odd, imWants, Handles, IsMark, ViewOf, ActCN, KeyClasses, PreeditStates

\* A key that was not given to the widget at its press is asked for at its release.
LEMMA ReleaseAsked ==
    ASSUME TypeOK, AllAgree, Right, NEW c \in Contexts, NEW k \in Keys,
           KeyRelease(c, k), inbox' = inbox, ~behind[AppOf[c]]
    PROVE  held[k] # "kept"
<1>1. xfocus = c /\ Idle(AppOf[c]) /\ c # None /\ AppOf[c] \in Apps
    BY DEF KeyRelease, Types
<1>2. ~Call("release", c, k, held[k])
    <2> DEFINE q == [kind |-> "release", ctx |-> c, key |-> k, stroke |-> held[k],
                     sh |-> shift, late |-> FALSE]
    <2> SUFFICES ASSUME inbox' = Append(inbox, q) PROVE FALSE
        BY DEF Call, Send
    <2> HIDE DEF q
    <2> QED BY AppendProperties, LenProperties DEF TypeOK
<1>3. ~g_im_active[AppOf[c]]
    BY <1>2 DEF KeyRelease, Asks_Released
<1>4. Agrees(AppOf[c]) /\ ask[AppOf[c]].ans = -1
    BY <1>1 DEF AllAgree, Idle, NoAsk
<1>5. ~ActCN(Pre(AppOf[c]))
    BY <1>1, <1>3, <1>4 DEF Agrees, TypeOK
<1>6. ~Wanted(k)
    BY <1>1, <1>5 DEF Wanted, View, ViewOf, imWants
<1> QED BY <1>1, <1>6, IdleWanted DEF Steady

\* The reply to a release is the one that its press was decided by.
LEMMA ReleaseServed == TypeOK /\ Right => ServedOnce(Odd)
<1> SUFFICES ASSUME TypeOK, Right, ServeRelease, ~First.late, First.stroke # "void",
                    ~Odd(View(Client), First.key, First.sh)
             PROVE  First.stroke = "widget" <=> ask'[Client].ans = 0
    BY DEF ServedOnce
<1> DEFINE used == Handles(View(Client), First.key, First.sh)
           wanted == imWants(View(Client), First.key, First.sh)
<1>1. inbox # <<>> /\ First.kind = "release"
    BY DEF ServeRelease, IsFirst
<1>2. First \in Requests /\ Client \in Apps /\ 1 \in DOMAIN inbox /\ First = inbox[1]
    BY <1>1, FirstType, RestOf DEF TypeOK
<1>3. Pre(Client) \in PreeditStates /\ First.key \in KeyClasses /\ First.sh \in BOOLEAN
    BY <1>2, DefaultType DEF TypeOK, Pre, Requests
<1>4. First.stroke = "kept" <=> wanted
    BY <1>1, <1>2 DEF Right, ReleaseRight, Client
<1>5. wanted <=> used
    BY <1>3, WantsHandles DEF View
<1>6. First.stroke = "widget" \/ First.stroke = "kept"
    BY <1>2 DEF Requests, Strokes
<1>7. used \in BOOLEAN
    BY <1>3, StateType DEF Handles, View, ViewOf, IsMark, PreeditStates
<1>8. PICK t : Reply(KeyReply(used, t))
    BY DEF ServeRelease
<1> HIDE DEF used, wanted
<1>9. ask'[Client].ans = KeyReply(used, t)
    <2>1. ask[Client] \in Asks
        BY <1>2 DEF TypeOK
    <2> QED BY <1>2, <1>8, <2>1 DEF Reply, TypeOK, Asks
<1> QED BY <1>4, <1>5, <1>6, <1>7, <1>9, ReplyMeans

\* The two decisions about a key agree: what gaimimcontext.c and imWants say at the press and
\* what doHandleKey does at the release, in whatever order keys, replies, focus events and
\* clicks come, unless something that decides about the key changed in between.
THEOREM TakenOnceIfSteadyHolds == Spec => TakenOnceIfSteady
<1> DEFINE Both == TypeOK /\ AllAgree /\ Right
           Once == /\ \A c \in Contexts, k \in Keys :
                         KeyRelease(c, k) /\ inbox' = inbox /\ ~behind[AppOf[c]] => held[k] # "kept"
                   /\ ServedOnce(Odd)
<1>1. Both => Once
    BY ReleaseAsked, ReleaseServed
<1>2. Both => [Once]_vars
    BY <1>1
<1>3. Spec => []Both
    BY InitType, StepType, InitCalls, CallsStep, AgreeStep, InitRight, RightStep, PTL DEF Spec
<1>4. Spec => [][Once]_vars
    BY <1>2, <1>3, PTL
<1> QED BY <1>4 DEF TakenOnceIfSteady
-----------------------------------------------------------------------------
(* Texts. *)

\* A text whose focus did not move is taken by its own context, when that has its turn.
TextRight(t) == t.calm =>
    /\ Calm(t.ctx)
    /\ t.got = IF AppOf[t.ctx] \in t.left THEN {} ELSE {t.ctx}

TextsRight ==
    /\ \A i \in DOMAIN texts : TextRight(texts[i])
    /\ g_ic_focus = widget
    /\ xfocus \in made \cup {None}

LEMMA TextType ==
    ASSUME TypeOK, NEW i \in DOMAIN texts
    PROVE  /\ texts[i] \in Texts /\ texts[i].ctx \in Contexts /\ AppOf[texts[i].ctx] \in Apps
           /\ texts[i].left \subseteq Apps
<1>1. texts[i] \in Texts
    BY ElementOfSeq, LenProperties DEF TypeOK
<1> QED BY <1>1 DEF Texts

\* Who takes a text in a process, as long as the focus does not move.
LEMMA TakersCalm ==
    ASSUME TypeOK, TextsRight, NEW i \in DOMAIN texts, texts[i].calm, NEW a \in Apps
    PROVE  Takers(a) = IF a = AppOf[texts[i].ctx] THEN {texts[i].ctx} ELSE {}
<1> DEFINE c == texts[i].ctx
<1>1. c \in Contexts /\ c # None
    BY TextType
<1>2. Calm(c)
    BY DEF TextsRight, TextRight
<1>3. c \in made /\ made \subseteq Contexts
    BY <1>1, <1>2 DEF Calm, TextsRight, TypeOK
<1>4. g_ic_focus[a] = IF a = AppOf[c] THEN c ELSE None
    BY <1>2 DEF Calm, TextsRight
<1> HIDE DEF c
<1>5. Takers(a) = IF a = AppOf[c] THEN {c} ELSE {}
    BY <1>1, <1>3, <1>4 DEF Takers
<1> QED BY <1>5 DEF c

\* Nothing that the texts depend on changes, or a text is sent.
LEMMA TextsSame ==
    ASSUME TypeOK, TextsRight, UNCHANGED <<g_ic_focus, widget, xfocus>>, made \subseteq made',
           texts' = texts \/ \E c \in Contexts, text \in BOOLEAN : Commit(c, text)
    PROVE  TextsRight'
<1>1. \A c : Calm(c)' = Calm(c)
    BY DEF Calm
<1>2. \A t : TextRight(t)' = TextRight(t)
    BY <1>1 DEF TextRight
<1>3. CASE texts' = texts
    BY <1>2, <1>3 DEF TextsRight
<1>4. ASSUME NEW c \in Contexts, texts' = Append(texts, [ctx |-> c, left |-> Apps, got |-> {}, calm |-> Calm(c)])
      PROVE  TextsRight'
    <2> DEFINE t == [ctx |-> c, left |-> Apps, got |-> {}, calm |-> Calm(c)]
    <2>1. TextRight(t)
        BY DEF TextRight
    <2>2. texts' = Append(texts, t) /\ texts \in Seq(Texts)
        BY <1>4 DEF TypeOK
    <2> HIDE DEF t
    <2>3. \A j \in DOMAIN texts' : texts'[j] = t \/ (j \in DOMAIN texts /\ texts'[j] = texts[j])
        BY <2>2, AppendProperties, LenProperties
    <2> QED BY <1>2, <2>1, <2>3 DEF TextsRight
<1> QED BY <1>3, <1>4 DEF Commit

LEMMA TextsTaken ==
    ASSUME TypeOK, TextsRight, NEW a \in Apps, TakeText(a)
    PROVE  TextsRight'
<1>1. UNCHANGED <<g_ic_focus, widget, xfocus, made>>
    BY DEF TakeText, clientVars, worldVars
<1>2. \A c : Calm(c)' = Calm(c)
    BY <1>1 DEF Calm
<1>3. \A t : TextRight(t)' = TextRight(t)
    BY <1>2 DEF TextRight
<1>4. PICK i \in DOMAIN texts :
          /\ a \in texts[i].left
          /\ texts' = IF texts[i].left = {a} THEN RemoveAt(texts, i)
                      ELSE [texts EXCEPT ![i].left = @ \ {a}, ![i].got = @ \cup Takers(a)]
    BY DEF TakeText, IsNext
<1>5. DOMAIN texts = 1..Len(texts) /\ Len(texts) \in Nat
    BY LenProperties DEF TypeOK
<1>6. CASE texts[i].left = {a}
    <2> DEFINE S == {t \in Texts : TextRight(t)}
    <2>1. texts \in Seq(S)
        <3>1. \A j \in 1..Len(texts) : texts[j] \in S
            BY <1>5, TextType DEF TextsRight
        <3>2. texts = [j \in 1..Len(texts) |-> texts[j]]
            BY <1>5, SeqDef DEF TypeOK
        <3> HIDE DEF S
        <3> QED BY <1>5, <3>1, <3>2, SeqDef
    <2>2. i \in 1..Len(texts) /\ texts' = RemoveAt(texts, i)
        BY <1>4, <1>5, <1>6
    <2> HIDE DEF S
    <2>3. texts' \in Seq(S)
        BY <2>1, <2>2, RemoveAtType
    <2>4. \A j \in DOMAIN texts' : texts'[j] \in S
        BY <2>3, ElementOfSeq, LenProperties
    <2> QED BY <1>1, <1>3, <2>4 DEF TextsRight, S
<1>7. CASE texts[i].left # {a}
    <2> DEFINE t == [texts[i] EXCEPT !.left = @ \ {a}, !.got = @ \cup Takers(a)]
    <2>1. texts' = [texts EXCEPT ![i] = t]
        BY <1>4, <1>7
    <2>2. texts[i] \in Texts
        BY TextType
    <2>3. /\ t.calm = texts[i].calm /\ t.ctx = texts[i].ctx
          /\ t.left = texts[i].left \ {a} /\ t.got = texts[i].got \cup Takers(a)
        BY <2>2 DEF Texts
    <2> HIDE DEF t
    <2>4. TextRight(t)
        <3> SUFFICES ASSUME t.calm PROVE TextRight(t)
            BY DEF TextRight
        <3>1. Takers(a) = IF a = AppOf[texts[i].ctx] THEN {texts[i].ctx} ELSE {}
            BY <2>3, TakersCalm
        <3>2. /\ Calm(texts[i].ctx)
              /\ texts[i].got = IF AppOf[texts[i].ctx] \in texts[i].left THEN {} ELSE {texts[i].ctx}
            BY <2>3 DEF TextsRight, TextRight
        <3>3. CASE a = AppOf[texts[i].ctx]
            BY <1>4, <2>3, <3>1, <3>2, <3>3 DEF TextRight
        <3>4. CASE a # AppOf[texts[i].ctx]
            BY <1>4, <2>3, <3>1, <3>2, <3>4 DEF TextRight
        <3> QED BY <3>3, <3>4
    <2>5. DOMAIN texts' = DOMAIN texts /\ \A j \in DOMAIN texts : texts'[j] = texts[j] \/ texts'[j] = t
        BY <2>1
    <2> QED BY <1>1, <1>3, <2>4, <2>5 DEF TextsRight
<1> QED BY <1>6, <1>7

LEMMA TextsUser ==
    ASSUME TypeOK, TextsRight, NEW c \in Contexts, User(c)
    PROVE  TextsRight'
<1>0. c # None /\ AppOf[c] \in Apps
    OBVIOUS
<1>1. CASE Create(c)
    BY <1>1, TextsSame DEF Create, worldVars
<1>2. CASE \E k \in Keys : KeyPress(c, k) \/ KeyRelease(c, k)
    BY <1>2, TextsSame DEF KeyPress, KeyRelease
<1>3. CASE ShiftRelease(c) \/ OnOffRelease(c)
    BY <1>3, TextsSame DEF ShiftRelease, OnOffRelease, worldVars
<1>4. CASE MoveFocus(c)
    <2>1. /\ texts' = [i \in DOMAIN texts |-> [texts[i] EXCEPT !.calm = FALSE]]
          /\ xfocus' = c /\ c \in made /\ UNCHANGED <<g_ic_focus, widget, made>>
        BY <1>4 DEF MoveFocus, clientVars
    <2>2. ASSUME NEW i \in DOMAIN texts' PROVE ~texts'[i].calm
        <3>1. i \in DOMAIN texts /\ texts[i] \in Texts
            BY <2>1, TextType
        <3> QED BY <2>1, <3>1 DEF Texts
    <2> QED BY <2>1, <2>2 DEF TextsRight, TextRight
<1>5. CASE FocusIn(c)
    <2>1. /\ widget[AppOf[c]] = None /\ xfocus = c
          /\ widget' = [widget EXCEPT ![AppOf[c]] = c]
          /\ g_ic_focus' = [g_ic_focus EXCEPT ![AppOf[c]] = c]
          /\ UNCHANGED <<texts, xfocus, made>>
        BY <1>5 DEF FocusIn
    <2>2. \A i \in DOMAIN texts : ~texts[i].calm
        BY <1>0, <2>1 DEF TextsRight, TextRight, Calm
    <2> QED BY <2>1, <2>2 DEF TextsRight, TextRight
<1>6. CASE FocusOut(c)
    <2>1. /\ widget[AppOf[c]] = c /\ xfocus # c
          /\ widget' = [widget EXCEPT ![AppOf[c]] = None]
          /\ g_ic_focus' = [g_ic_focus EXCEPT ![AppOf[c]] = None]
          /\ UNCHANGED <<texts, xfocus, made>>
        BY <1>6 DEF FocusOut, ForgetFocus
    <2>2. \A i \in DOMAIN texts : ~texts[i].calm
        BY <1>0, <2>1 DEF TextsRight, TextRight, Calm
    <2> QED BY <2>1, <2>2 DEF TextsRight, TextRight
<1> QED BY <1>1, <1>2, <1>3, <1>4, <1>5, <1>6 DEF User

LEMMA TextsStep == TypeOK /\ TextsRight /\ [Next]_vars => TextsRight'
<1> SUFFICES ASSUME TypeOK, TextsRight, [Next]_vars PROVE TextsRight'
    OBVIOUS
<1>1. ASSUME NEW a \in Apps, Answered(a) \/ TimedOut(a) PROVE TextsRight'
    BY <1>1, TextsSame DEF Answered, TimedOut
<1>2. ASSUME inbox # <<>>
      PROVE  First \in Requests /\ First.ctx \in Contexts /\ First.sh \in BOOLEAN
             /\ Client \in Apps /\ Pre(Client) \in PreeditStates
    <2>1. First \in Requests /\ Client \in Apps
        BY <1>2, FirstType DEF TypeOK
    <2> QED BY <2>1, DefaultType DEF Requests, Pre, TypeOK
<1>3. CASE ServeRelease
    <2> DEFINE used == Handles(View(Client), First.key, First.sh)
    <2>1. inbox # <<>> /\ UNCHANGED <<g_ic_focus, widget, xfocus, made>>
        BY <1>3 DEF ServeRelease, IsFirst
    <2>2. used \in BOOLEAN
        BY <1>2, <2>1, StateType DEF Handles, View, ViewOf, IsMark, PreeditStates
    <2>3. PICK e \in Effects(First.key, First.sh) : Commit(First.ctx, used /\ e.text)
        BY <1>3 DEF ServeRelease
    <2>4. (used /\ e.text) \in BOOLEAN
        BY <2>2, <2>3 DEF Effects
    <2> HIDE DEF used
    <2> QED BY <1>2, <2>1, <2>3, <2>4, TextsSame
<1>4. CASE ServeShift
    <2> DEFINE text == (Pre(Client).on /\ ~Pre(Client).chord) /\ Pre(Client).cn /\ Pre(Client).start
    <2>1. inbox # <<>> /\ UNCHANGED <<g_ic_focus, widget, xfocus, made>> /\ Commit(First.ctx, text)
        BY <1>4 DEF ServeShift, IsFirst
    <2>2. text \in BOOLEAN
        BY <1>2, <2>1 DEF PreeditStates
    <2> HIDE DEF text
    <2> QED BY <1>2, <2>1, <2>2, TextsSame
<1>5. CASE ServePress \/ ServeOnOff \/ ServeFocusIn
    BY <1>5, TextsSame DEF ServePress, ServeOnOff, ServeFocusIn
<1>6. CASE ServeFocusOut \/ TraySwitchCE \/ TraySwitchPun
    BY <1>6, TextsSame DEF ServeFocusOut, TraySwitchCE, TraySwitchPun, clientVars, worldVars
<1>7. CASE ShiftPress
    BY <1>7, TextsSame DEF ShiftPress, clientVars
<1>8. CASE UNCHANGED vars
    BY <1>8, TextsSame DEF vars, clientVars, worldVars
<1> QED BY <1>1, <1>3, <1>4, <1>5, <1>6, <1>7, <1>8, TextsTaken, TextsUser
        DEF Next, ClientSteps, Daemon

\* A CommitText signal, which every process sees, ends in the widget that it was typed in and
\* nowhere else (ic_on_signal of gaimimcontext.c), if the focus does not move meanwhile.
THEOREM TextArrivesHolds == Spec => TextArrives
<1> DEFINE Both == TypeOK /\ TextsRight
           Once == \A a \in Apps : \A i \in DOMAIN texts :
                      TakeText(a) /\ IsNext(i, a) /\ texts[i].left = {a} /\ texts[i].calm =>
                          texts[i].got \cup Takers(a) = {texts[i].ctx}
<1>1. Both => Once
    <2> SUFFICES ASSUME TypeOK, TextsRight, NEW a \in Apps, NEW i \in DOMAIN texts,
                        texts[i].left = {a}, texts[i].calm
                 PROVE  texts[i].got \cup Takers(a) = {texts[i].ctx}
        OBVIOUS
    <2>1. Takers(a) = IF a = AppOf[texts[i].ctx] THEN {texts[i].ctx} ELSE {}
        BY TakersCalm
    <2>2. texts[i].got = IF AppOf[texts[i].ctx] \in texts[i].left THEN {} ELSE {texts[i].ctx}
        BY DEF TextsRight, TextRight
    <2> QED BY <2>1, <2>2
<1>2. Both => [Once]_vars
    BY <1>1
<1>3. Init => TextsRight
    <2>1. ASSUME Init PROVE DOMAIN texts = {}
        BY <2>1 DEF Init
    <2> QED BY <2>1 DEF Init, TextsRight
<1>4. Spec => []Both
    BY <1>3, InitType, StepType, TextsStep, PTL DEF Spec
<1>5. Spec => [][Once]_vars
    BY <1>2, <1>4, PTL
<1> QED BY <1>5 DEF TextArrives
-----------------------------------------------------------------------------
(* A chord: the requests of one hold of Shift are together in the queue, and the     *)
(* release of Shift ends them, whatever requests wait while Shift is pressed again.   *)

\* A key of a hold of Shift: one that is processed already (0), or one in the queue.
InHold(i) == IF i = 0 THEN chorded # {} ELSE inbox[i].sh /\ inbox[i].kind # "shift"

HoldEnds ==
    \A i \in {0} \cup DOMAIN inbox : InHold(i) =>
        /\ \A j \in DOMAIN inbox : i < j /\ ~inbox[j].sh =>
              \E m \in DOMAIN inbox : i < m /\ m < j /\ inbox[m].kind = "shift"
        /\ ~shift => \E m \in DOMAIN inbox : i < m /\ inbox[m].kind = "shift"

\* m_preModKey still is Shift.
ChordNoted == \A a \in chorded : Pre(a).chord

\* The queue is left as it is.
LEMMA HoldSame ==
    ASSUME HoldEnds, UNCHANGED chorded, shift' = shift \/ shift',
           DOMAIN inbox' = DOMAIN inbox,
           \A i \in DOMAIN inbox : inbox'[i].kind = inbox[i].kind /\ inbox'[i].sh = inbox[i].sh
    PROVE  HoldEnds'
<1> SUFFICES ASSUME NEW i \in {0} \cup DOMAIN inbox, InHold(i)'
             PROVE  /\ \A j \in DOMAIN inbox : i < j /\ ~inbox'[j].sh =>
                          \E m \in DOMAIN inbox : i < m /\ m < j /\ inbox'[m].kind = "shift"
                    /\ ~shift' => \E m \in DOMAIN inbox : i < m /\ inbox'[m].kind = "shift"
    BY DEF HoldEnds
<1>1. InHold(i)
    BY DEF InHold
<1> QED BY <1>1 DEF HoldEnds

\* A request more.
LEMMA HoldSent ==
    ASSUME inbox \in Seq(Requests), HoldEnds, UNCHANGED chorded,
           NEW q, inbox' = Append(inbox, q), q.sh = shift,
           shift' = shift \/ q.kind = "shift"
    PROVE  HoldEnds'
<1> DEFINE n == Len(inbox) + 1
<1>1. /\ DOMAIN inbox = 1..Len(inbox) /\ Len(inbox) \in Nat
      /\ DOMAIN inbox' = 1..n
      /\ \A i \in DOMAIN inbox : i \in DOMAIN inbox' /\ inbox'[i] = inbox[i]
      /\ inbox'[n] = q
    BY Sent
<1> HIDE DEF n
<1>2. n \in Nat /\ n \in DOMAIN inbox' /\ \A i \in DOMAIN inbox : i < n
    BY <1>1 DEF n
<1>3. \A i \in DOMAIN inbox' : i \in DOMAIN inbox \/ i = n
    BY <1>1 DEF n
<1> SUFFICES ASSUME NEW i \in {0} \cup DOMAIN inbox', InHold(i)'
             PROVE  /\ \A j \in DOMAIN inbox' : i < j /\ ~inbox'[j].sh =>
                          \E m \in DOMAIN inbox' : i < m /\ m < j /\ inbox'[m].kind = "shift"
                    /\ ~shift' => \E m \in DOMAIN inbox' : i < m /\ inbox'[m].kind = "shift"
    BY DEF HoldEnds
<1>4. CASE i \in {0} \cup DOMAIN inbox
    <2>1. InHold(i)
        BY <1>1, <1>4 DEF InHold
    <2>2. ASSUME ~shift PROVE \E m \in DOMAIN inbox' : i < m /\ m < n /\ inbox'[m].kind = "shift"
        <3>1. PICK m \in DOMAIN inbox : i < m /\ inbox[m].kind = "shift"
            BY <1>4, <2>1, <2>2 DEF HoldEnds
        <3> QED BY <1>1, <1>2, <3>1
    <2>3. ASSUME NEW j \in DOMAIN inbox', i < j, ~inbox'[j].sh
          PROVE  \E m \in DOMAIN inbox' : i < m /\ m < j /\ inbox'[m].kind = "shift"
        <3>1. CASE j \in DOMAIN inbox
            <4>1. PICK m \in DOMAIN inbox : i < m /\ m < j /\ inbox[m].kind = "shift"
                BY <1>1, <1>4, <2>1, <2>3, <3>1 DEF HoldEnds
            <4> QED BY <1>1, <4>1
        <3>2. CASE j = n
            BY <1>1, <2>2, <2>3, <3>2
        <3> QED BY <1>3, <3>1, <3>2
    <2>4. ASSUME ~shift' PROVE \E m \in DOMAIN inbox' : i < m /\ inbox'[m].kind = "shift"
        <3>1. CASE ~shift
            BY <2>2, <3>1
        <3>2. CASE q.kind = "shift"
            BY <1>1, <1>2, <1>4, <3>2 DEF n
        <3> QED BY <2>4, <3>1, <3>2
    <2> QED BY <2>3, <2>4
<1>5. CASE i = n
    <2>1. i # 0 /\ shift /\ q.kind # "shift"
        BY <1>1, <1>5 DEF InHold, n
    <2>2. \A j \in DOMAIN inbox' : ~(i < j)
        BY <1>1, <1>5 DEF n
    <2> QED BY <2>1, <2>2
<1> QED BY <1>3, <1>4, <1>5

\* The first request is processed: what was second is first now.
LEMMA HoldServed ==
    ASSUME inbox \in Seq(Requests), inbox # <<>>, HoldEnds, Shape(Tail(inbox)), UNCHANGED shift,
           chorded' = {} \/ (First.kind # "shift" /\ (chorded' = chorded \/ First.sh))
    PROVE  HoldEnds'
<1>1. /\ DOMAIN inbox = 1..Len(inbox) /\ Len(inbox) \in Nat /\ Len(inbox) > 0
      /\ 1 \in DOMAIN inbox /\ First = inbox[1]
      /\ DOMAIN inbox' = 1..(Len(inbox) - 1)
      /\ \A i \in DOMAIN inbox' : /\ i + 1 \in DOMAIN inbox
                                  /\ inbox'[i].kind = inbox[i + 1].kind
                                  /\ inbox'[i].sh = inbox[i + 1].sh
    BY RestOf DEF Shape
<1> SUFFICES ASSUME NEW i \in {0} \cup DOMAIN inbox', InHold(i)'
             PROVE  /\ \A j \in DOMAIN inbox' : i < j /\ ~inbox'[j].sh =>
                          \E m \in DOMAIN inbox' : i < m /\ m < j /\ inbox'[m].kind = "shift"
                    /\ ~shift' => \E m \in DOMAIN inbox' : i < m /\ inbox'[m].kind = "shift"
    BY DEF HoldEnds
<1>2. PICK b \in {0} \cup DOMAIN inbox :
        /\ InHold(b) /\ b <= i + 1
        /\ \A m \in DOMAIN inbox : b < m /\ inbox[m].kind = "shift" => i + 1 < m
    <2>1. CASE i # 0
        <3>1. i \in DOMAIN inbox' /\ i + 1 \in DOMAIN inbox /\ i + 1 # 0
            BY <1>1, <2>1
        <3>2. InHold(i + 1)
            BY <1>1, <2>1, <3>1 DEF InHold
        <3>3. i + 1 <= i + 1
            BY <1>1
        <3> QED BY <3>1, <3>2, <3>3
    <2>2. CASE i = 0
        <3>1. chorded' # {} /\ First.kind # "shift"
            BY <2>2 DEF InHold
        <3>2. CASE chorded' = chorded
            <4>1. InHold(0)
                BY <3>1, <3>2 DEF InHold
            <4>2. \A m \in DOMAIN inbox : 0 < m /\ inbox[m].kind = "shift" => 0 + 1 < m
                BY <1>1, <3>1
            <4> QED BY <2>2, <4>1, <4>2
        <3>3. CASE First.sh
            <4>1. InHold(1)
                BY <1>1, <3>1, <3>3 DEF InHold
            <4> QED BY <1>1, <2>2, <4>1
        <3> QED BY <3>1, <3>2, <3>3
    <2> QED BY <2>1, <2>2
<1>3. ASSUME NEW j \in DOMAIN inbox', i < j, ~inbox'[j].sh
      PROVE  \E m \in DOMAIN inbox' : i < m /\ m < j /\ inbox'[m].kind = "shift"
    <2>1. j + 1 \in DOMAIN inbox /\ b < j + 1 /\ ~inbox[j + 1].sh
        BY <1>1, <1>2, <1>3
    <2>2. PICK m \in DOMAIN inbox : b < m /\ m < j + 1 /\ inbox[m].kind = "shift"
        BY <1>2, <2>1 DEF HoldEnds
    <2>3. m - 1 \in DOMAIN inbox' /\ i < m - 1 /\ m - 1 < j /\ (m - 1) + 1 = m
        BY <1>1, <1>2, <2>2
    <2> QED BY <1>1, <2>2, <2>3
<1>4. ASSUME ~shift'
      PROVE  \E m \in DOMAIN inbox' : i < m /\ inbox'[m].kind = "shift"
    <2>1. PICK m \in DOMAIN inbox : b < m /\ inbox[m].kind = "shift"
        BY <1>2, <1>4 DEF HoldEnds
    <2>2. m - 1 \in DOMAIN inbox' /\ i < m - 1 /\ (m - 1) + 1 = m
        BY <1>1, <1>2, <2>1
    <2> QED BY <1>1, <2>1, <2>2
<1> QED BY <1>3, <1>4

LEMMA HoldStep == TypeOK /\ HoldEnds /\ [Next]_vars => HoldEnds'
<1> SUFFICES ASSUME TypeOK, HoldEnds, [Next]_vars PROVE HoldEnds'
    OBVIOUS
<1>0. inbox \in Seq(Requests)
    BY DEF TypeOK
<1>1. ASSUME UNCHANGED <<chorded, inbox>>, shift' = shift \/ shift' PROVE HoldEnds'
    BY <1>1, HoldSame
<1>2. ASSUME NEW c \in Contexts, NEW kind, NEW k, NEW st, NEW late, Send(kind, c, k, st, late),
             UNCHANGED chorded, shift' = shift \/ kind = "shift"
      PROVE  HoldEnds'
    <2> DEFINE q == [kind |-> kind, ctx |-> c, key |-> k, stroke |-> st, sh |-> shift, late |-> late]
    <2>1. inbox' = Append(inbox, q) /\ q.sh = shift /\ q.kind = kind
        BY <1>2 DEF Send
    <2> HIDE DEF q
    <2> QED BY <1>0, <1>2, <2>1, HoldSent
<1>3. ASSUME NEW c \in Contexts, User(c) PROVE HoldEnds'
    <2>1. CASE \E k \in Keys : KeyPress(c, k) \/ KeyRelease(c, k)
        BY <1>1, <1>2, <2>1 DEF KeyPress, KeyRelease, Call
    <2>2. CASE ShiftRelease(c)
        BY <1>2, <2>2 DEF ShiftRelease, Call
    <2>3. CASE OnOffRelease(c) \/ FocusIn(c)
        BY <1>2, <2>3 DEF OnOffRelease, FocusIn, Call
    <2>4. CASE FocusOut(c)
        BY <1>1, <1>2, <2>4 DEF FocusOut
    <2>5. CASE Create(c) \/ MoveFocus(c)
        BY <1>1, <2>5 DEF Create, MoveFocus
    <2> QED BY <1>3, <2>1, <2>2, <2>3, <2>4, <2>5 DEF User
<1>4. ASSUME NEW a \in Apps, ClientSteps(a) PROVE HoldEnds'
    <2>1. CASE Answered(a) \/ TakeText(a)
        BY <1>1, <2>1 DEF Answered, TakeText
    <2>2. CASE TimedOut(a)
        <3>1. DOMAIN inbox' = DOMAIN inbox /\ \A i \in DOMAIN inbox :
                  inbox'[i].kind = inbox[i].kind /\ inbox'[i].sh = inbox[i].sh
            <4>1. \A i \in DOMAIN inbox : inbox[i] \in Requests
                BY QueueType DEF TypeOK
            <4> QED BY <2>2, <4>1 DEF TimedOut, Requests
        <3>2. UNCHANGED <<chorded, shift>>
            BY <2>2 DEF TimedOut
        <3> QED BY <3>1, <3>2, HoldSame
    <2> QED BY <1>4, <2>1, <2>2 DEF ClientSteps
<1>5. ASSUME ShiftPress \/ UNCHANGED vars PROVE HoldEnds'
    BY <1>1, <1>5 DEF ShiftPress, vars
<1>6. ASSUME Daemon PROVE HoldEnds'
    <2>1. ASSUME NEW s, NEW told, inbox # <<>>, Becomes(PreeditOf(Client), s, Tail(inbox), told),
                 UNCHANGED shift,
                 chorded' = {} \/ (First.kind # "shift" /\ (chorded' = chorded \/ First.sh))
          PROVE  HoldEnds'
        <3>1. Shape(Tail(inbox))
            BY <2>1, FirstType, BecomesShape DEF TypeOK
        <3> QED BY <1>0, <2>1, <3>1, HoldServed
    <2>2. CASE ServePress \/ ServeOnOff \/ ServeFocusIn
        BY <2>1, <2>2 DEF ServePress, ServeOnOff, ServeFocusIn, IsFirst
    <2>3. CASE ServeRelease
        BY <2>1, <2>3 DEF ServeRelease, IsFirst
    <2>4. CASE ServeShift
        BY <2>1, <2>4 DEF ServeShift, IsFirst
    <2>5. CASE ServeFocusOut
        <3>1. Shape(Tail(inbox)) /\ inbox # <<>> /\ First.kind = "out"
              /\ UNCHANGED <<shift, chorded>>
            BY <2>5 DEF ServeFocusOut, IsFirst, Shape
        <3> QED BY <1>0, <3>1, HoldServed
    <2>6. CASE TraySwitchCE \/ TraySwitchPun
        <3>1. Shape(inbox) /\ UNCHANGED <<shift, chorded>>
            BY <1>0, <2>6, BecomesShape DEF TraySwitchCE, TraySwitchPun
        <3> QED BY <3>1, HoldSame DEF Shape
    <2> QED BY <1>6, <2>2, <2>3, <2>4, <2>5, <2>6 DEF Daemon
<1> QED BY <1>3, <1>4, <1>5, <1>6 DEF Next

\* What a step does to m_preModKey of a process.
LEMMA NotedSame ==
    ASSUME TypeOK, ChordNoted, UNCHANGED <<mode, chorded>>,
           \A p \in Preedits : preedit'[p].chord = preedit[p].chord
    PROVE  ChordNoted'
<1>1. \A a \in Apps : PreeditOf(a)' = PreeditOf(a) /\ PreeditOf(a) \in Preedits
    BY DefaultType DEF PreeditOf
<1>2. chorded \subseteq Apps
    BY DEF TypeOK
<1> QED BY <1>1, <1>2 DEF ChordNoted, Pre

LEMMA NotedBecomes ==
    ASSUME TypeOK, ChordNoted, UNCHANGED <<mode, chorded>>, NEW p \in Preedits, NEW s,
           s.chord = preedit[p].chord, NEW queue, NEW told, Becomes(p, s, queue, told)
    PROVE  ChordNoted'
<1>1. preedit' = [preedit EXCEPT ![p] = s] /\ DOMAIN preedit = Preedits
    BY DEF Becomes, TypeOK
<1>2. \A r \in Preedits : preedit'[r].chord = preedit[r].chord
    BY <1>1
<1> QED BY <1>2, NotedSame

\* A key that is released without Shift comes after the end of the hold.
LEMMA ChordOver ==
    ASSUME TypeOK, HoldEnds, inbox # <<>>, ~First.sh
    PROVE  chorded = {}
<1> SUFFICES ASSUME chorded # {} PROVE FALSE
    OBVIOUS
<1>1. 1 \in DOMAIN inbox /\ First = inbox[1] /\ DOMAIN inbox = 1..Len(inbox) /\ Len(inbox) \in Nat
    BY RestOf DEF TypeOK
<1>2. InHold(0)
    BY DEF InHold
<1>3. PICK m \in DOMAIN inbox : 0 < m /\ m < 1
    BY <1>1, <1>2 DEF HoldEnds
<1> QED BY <1>1, <1>3

LEMMA NotedReleased ==
    ASSUME TypeOK, HoldEnds, ChordNoted, ServeRelease
    PROVE  ChordNoted'
<1> DEFINE p == PreeditOf(Client)
           s == NoteModifier(Pre(Client), First.key, First.sh)
<1>1. inbox # <<>> /\ UNCHANGED mode
    BY DEF ServeRelease, IsFirst
<1>2. Client \in Apps /\ p \in Preedits /\ Pre(Client) \in PreeditStates /\ First.sh \in BOOLEAN
    <2>1. First \in Requests /\ Client \in Apps
        BY <1>1, FirstType DEF TypeOK
    <2> QED BY <2>1, DefaultType DEF Requests, Pre, TypeOK
<1>3. s \in PreeditStates
    BY <1>2, StateType
<1>4. PICK t : preedit' = [preedit EXCEPT ![p] = t] /\ t.chord = s.chord
    <2>1. PICK e \in Effects(First.key, First.sh) :
              Becomes(p, IF Handles(View(Client), First.key, First.sh) THEN [s EXCEPT !.start = e.start] ELSE s,
                      Tail(inbox), Told(Handles(View(Client), First.key, First.sh)))
        BY DEF ServeRelease
    <2>2. [s EXCEPT !.start = e.start].chord = s.chord
        BY <1>3 DEF PreeditStates
    <2> HIDE DEF s, p
    <2> QED BY <2>1, <2>2 DEF Becomes
<1>5. \A a \in Apps : PreeditOf(a)' = PreeditOf(a) /\ PreeditOf(a) \in Preedits
    BY <1>1, DefaultType DEF PreeditOf
<1>6. \A a \in Apps : Pre(a)'.chord = IF PreeditOf(a) = p THEN s.chord ELSE Pre(a).chord
    <2>1. DOMAIN preedit = Preedits
        BY DEF TypeOK
    <2> HIDE DEF s, p
    <2> QED BY <1>4, <1>5, <2>1 DEF Pre
<1>7. s.chord = IF Pre(Client).on /\ First.key # "forward" THEN First.sh ELSE Pre(Client).chord
    BY <1>2 DEF NoteModifier, PreeditStates
<1>8. chorded \subseteq Apps
    BY DEF TypeOK
<1>9. chorded' = IF First.sh /\ Pre(Client).on /\ First.key # "forward" THEN chorded \cup {Client} ELSE chorded
    BY DEF ServeRelease
<1>10. \A a \in Apps : PreeditOf(a) = p => Pre(a) = Pre(Client)
    BY DEF Pre
<1> HIDE DEF s, p
<1>11. CASE First.sh
    <2> SUFFICES ASSUME NEW a \in chorded' PROVE Pre(a)'.chord
        BY DEF ChordNoted
    <2>1. a \in Apps /\ (a \in chorded => Pre(a).chord)
        BY <1>2, <1>8, <1>9 DEF ChordNoted
    <2>2. CASE PreeditOf(a) # p
        BY <1>9, <1>6, <2>1, <2>2 DEF p
    <2>3. CASE PreeditOf(a) = p /\ Pre(Client).on /\ First.key # "forward"
        BY <1>6, <1>7, <1>11, <2>1, <2>3
    <2>4. CASE PreeditOf(a) = p /\ ~(Pre(Client).on /\ First.key # "forward")
        BY <1>6, <1>7, <1>9, <1>10, <2>1, <2>4
    <2> QED BY <2>2, <2>3, <2>4
<1>12. CASE ~First.sh
    <2>1. chorded' = {}
        BY <1>1, <1>9, <1>12, ChordOver
    <2> QED BY <2>1 DEF ChordNoted
<1> QED BY <1>2, <1>11, <1>12

LEMMA NotedStep == TypeOK /\ HoldEnds /\ ChordNoted /\ [Next]_vars => ChordNoted'
<1> SUFFICES ASSUME TypeOK, HoldEnds, ChordNoted, [Next]_vars PROVE ChordNoted'
    OBVIOUS
<1>1. ASSUME UNCHANGED <<mode, preedit, chorded>> PROVE ChordNoted'
    BY <1>1, NotedSame
<1>2. ASSUME NEW c \in Contexts, User(c) PROVE ChordNoted'
    BY <1>1, <1>2 DEF User, Create, MoveFocus, FocusIn, FocusOut, ShiftRelease, OnOffRelease,
                      KeyPress, KeyRelease
<1>3. ASSUME NEW a \in Apps, ClientSteps(a) PROVE ChordNoted'
    BY <1>1, <1>3 DEF ClientSteps, Answered, TimedOut, TakeText
<1>4. CASE ShiftPress \/ UNCHANGED vars
    BY <1>1, <1>4 DEF ShiftPress, vars
<1>5. CASE ServeFocusOut
    BY <1>1, <1>5 DEF ServeFocusOut
<1>6. ASSUME inbox # <<>>
      PROVE  Client \in Apps /\ PreeditOf(Client) \in Preedits /\ Pre(Client) \in PreeditStates
    <2>1. Client \in Apps
        BY <1>6, FirstType DEF TypeOK
    <2> QED BY <2>1, DefaultType DEF Pre, TypeOK
<1>7. CASE ServePress \/ ServeFocusIn
    <2>1. PICK told : Becomes(PreeditOf(Client), Pre(Client), Tail(inbox), told)
        BY <1>7 DEF ServePress, ServeFocusIn
    <2>2. inbox # <<>> /\ UNCHANGED <<mode, chorded>>
        BY <1>7 DEF ServePress, ServeFocusIn, IsFirst
    <2> QED BY <1>6, <2>1, <2>2, NotedBecomes DEF Pre
<1>8. CASE ServeOnOff
    <2>1. /\ inbox # <<>> /\ UNCHANGED <<mode, chorded>>
          /\ Becomes(PreeditOf(Client), SwitchOn(Pre(Client)), Tail(inbox), Told(TRUE))
        BY <1>8 DEF ServeOnOff, IsFirst
    <2>2. SwitchOn(Pre(Client)).chord = preedit[PreeditOf(Client)].chord
        BY <1>6, <2>1 DEF SwitchOn, PreeditStates, Pre
    <2> QED BY <1>6, <2>1, <2>2, NotedBecomes
<1>9. CASE TraySwitchCE \/ TraySwitchPun
    <2> DEFINE s == preedit[TrayPreedit]
    <2>1. TrayPreedit \in Preedits
        BY DefaultType DEF TrayPreedit, TypeOK
    <2>2. PICK t : Becomes(TrayPreedit, t, inbox, {}) /\ t \in {SwitchCE(s), [s EXCEPT !.pun = ~@]}
        BY <1>9 DEF TraySwitchCE, TraySwitchPun
    <2>3. s \in PreeditStates
        BY <2>1 DEF TypeOK
    <2>4. t.chord = s.chord
        BY <2>2, <2>3 DEF SwitchCE, PreeditStates
    <2>5. UNCHANGED <<mode, chorded>>
        BY <1>9 DEF TraySwitchCE, TraySwitchPun
    <2> QED BY <2>1, <2>2, <2>4, <2>5, NotedBecomes
<1>10. CASE ServeShift
    <2>1. chorded' = {}
        BY <1>10 DEF ServeShift
    <2> QED BY <2>1 DEF ChordNoted
<1> QED BY <1>2, <1>3, <1>4, <1>5, <1>7, <1>8, <1>9, <1>10, NotedReleased DEF Next, Daemon

\* A Shift that modified a key does not switch between Chinese and English at its release
\* (m_preModKey, X11IMPreedit.cpp:163-170), whatever requests of an earlier or a later hold
\* of Shift wait in the queue: the property that the comment there states.
THEOREM ChordNeverSwitchesHolds == Spec => ChordNeverSwitches
<1> DEFINE All  == TypeOK /\ HoldEnds /\ ChordNoted
           Kept == ServeShift /\ Client \in chorded => preedit'[PreeditOf(Client)].cn = Pre(Client).cn
<1>1. All => Kept
    <2> SUFFICES ASSUME TypeOK, ChordNoted, ServeShift, Client \in chorded
                 PROVE  preedit'[PreeditOf(Client)].cn = Pre(Client).cn
        OBVIOUS
    <2>1. Client \in Apps /\ PreeditOf(Client) \in Preedits /\ Pre(Client) \in PreeditStates
        <3>1. Client \in Apps
            BY FirstType DEF ServeShift, IsFirst, TypeOK
        <3> QED BY <3>1, DefaultType DEF Pre, TypeOK
    <2>2. Pre(Client).chord
        BY DEF ChordNoted
    <2>3. \E told, b : Becomes(PreeditOf(Client), [Pre(Client) EXCEPT !.chord = b], Tail(inbox), told)
        BY <2>2 DEF ServeShift
    <2>4. \E b : preedit' = [preedit EXCEPT ![PreeditOf(Client)] = [Pre(Client) EXCEPT !.chord = b]]
        BY <2>3 DEF Becomes
    <2> QED BY <2>1, <2>4 DEF PreeditStates, TypeOK
<1>2. All => [Kept]_vars
    BY <1>1
<1>3. Init => HoldEnds /\ ChordNoted
    <2>1. ASSUME Init PROVE DOMAIN inbox = {} /\ chorded = {}
        BY <2>1 DEF Init
    <2> QED BY <2>1 DEF HoldEnds, InHold, ChordNoted
<1>4. Spec => []All
    BY <1>3, InitType, StepType, HoldStep, NotedStep, PTL DEF Spec
<1>5. Spec => [][Kept]_vars
    BY <1>2, <1>4, PTL
<1> QED BY <1>5 DEF ChordNeverSwitches
=============================================================================
