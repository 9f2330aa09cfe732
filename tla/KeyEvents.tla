----------------------------- MODULE KeyEvents -----------------------------
(***************************************************************************)
(* A key from the keyboard to a text: the GTK module in each application   *)
(* (gaimimcontext.c), the D-Bus thread of the daemon (DBusICSrv.cpp,       *)
(* IC.cpp) and what a preedit does with the key (X11IMPreedit.cpp).        *)
(*                                                                         *)
(* A key is used twice over: the daemon says at its press whether the      *)
(* application or the input method gets it, and the input method acts at   *)
(* its release.  In between the focus, the modifiers and the modes may     *)
(* change.  The module in the application keeps g_im_active, what it       *)
(* believes of the daemon, and asks only when that is set; the text comes  *)
(* back as a signal to every application, each of which looks at its own   *)
(* g_ic_focus.                                                             *)
(*                                                                         *)
(* A preedit is what the keys tell apart of it (Preedit has the rest); a   *)
(* context is its own id (ICManager has the ids).  Shift is the left one;  *)
(* the on/off chord is one event, the release of Space with Ctrl.          *)
(***************************************************************************)
EXTENDS Integers, Sequences, FiniteSets, SequencesExt

\* a..z; punctuation, with and without Shift; digits, with Shift punctuation too; Space and
\* Return; BackSpace, Escape and the paging keys; ForwardKeys; and keys such as Home.
KeyClasses == {"letter", "mark", "digit", "space", "edit", "forward", "other"}

CONSTANTS Apps,       \* the processes that loaded the GTK module
          Contexts,   \* their input contexts
          AppOf,      \* the process of each context
          None,       \* no context
          Keys,       \* bound: the keys that the user types
          Typed,      \* bound: the contexts that the user types in
          MaxHeld,    \* bound on the keys held down at a time, Shift aside, and the faults
          MaxPending, \* bound on the requests and texts under way
          MaxFaults   \* bound on the faults: lost replies and clicks on the tray

ASSUME ConstantsAssumption ==
    /\ AppOf \in [Contexts -> Apps]
    /\ None \notin Contexts /\ Typed \subseteq Contexts
    /\ Keys \subseteq KeyClasses
    /\ MaxHeld \in Nat /\ MaxPending \in Nat /\ MaxFaults \in Nat

Default  == 0   \* the preedit of the default IC
Preedits == Apps \cup {Default}

\* chord: m_preModKey is Shift.
PreeditStates == [on : BOOLEAN, cn : BOOLEAN, pun : BOOLEAN, start : BOOLEAN, chord : BOOLEAN]
Views    == [act : BOOLEAN, pun : BOOLEAN, start : BOOLEAN]
\* What became of a press: the widget has it, or not; void when something that decides
\* about the key changed since.
Strokes  == {"widget", "kept", "void"}
Requests == [kind : {"press", "release", "shift", "onoff", "in", "out"}, ctx : Contexts,
             key : KeyClasses, stroke : Strokes, sh : BOOLEAN, late : BOOLEAN]
Asks     == [kind : {"none", "press", "release", "shift", "onoff", "in"}, key : KeyClasses, ans : -1..2]
Texts    == [ctx : Contexts, left : SUBSET Apps, got : SUBSET Contexts, calm : BOOLEAN]

VARIABLES
    mode,      \* m_icMode
    preedit,   \* the preedit objects
    icFocus,   \* m_icFocus
    made,      \* the contexts that exist
    g_ic_focus, g_im_active,  \* of each process
    ask,       \* the call that each process waits in
    inbox,     \* the requests that the D-Bus thread has not processed yet
    texts,     \* the CommitText signals that some process has not dispatched yet
    xfocus,    \* the context that has the focus of the display
    widget,    \* the one that has it in each process, after its focus events
    held,      \* each key: up, or what became of its press
    shift,     \* Shift is down
    faults,    \* the lost replies and the clicks so far
    behind,    \* a process was not told of the last change of its preedit's state
    stolen,    \* m_icFocus was taken by a new context
    chorded    \* the processes whose preedit saw a key released in this hold of Shift,
               \* in the order of the requests

daemonVars == <<mode, preedit, icFocus>>
clientVars == <<made, g_ic_focus, g_im_active, ask>>
worldVars  == <<xfocus, widget, held, shift>>
vars == <<daemonVars, clientVars, inbox, texts, worldVars, faults, behind, stolen, chorded>>

NoAsk   == [kind |-> "none", key |-> "other", ans |-> -1]
Off     == [on |-> FALSE, cn |-> TRUE, pun |-> TRUE, start |-> FALSE, chord |-> FALSE]

Init ==
    /\ mode \in {0, 1} /\ preedit = [p \in Preedits |-> Off] /\ icFocus = None
    /\ made = {}
    /\ g_ic_focus = [a \in Apps |-> None] /\ g_im_active = [a \in Apps |-> FALSE]
    /\ ask = [a \in Apps |-> NoAsk]
    /\ inbox = <<>> /\ texts = <<>>
    /\ xfocus = None /\ widget = [a \in Apps |-> None] /\ held = [k \in Keys |-> "up"] /\ shift = FALSE
    /\ faults = 0 /\ behind = [a \in Apps |-> FALSE] /\ stolen = FALSE /\ chorded = {}
-----------------------------------------------------------------------------
(* X_Bug is X with a plausible bug: the checks are repeated with each in the  *)
(* place of X, to see that they can fail.                                    *)

(* The preedit: what it does with a key, Shift down or not. *)

ActCN(s) == s.on /\ s.cn

\* What decides about a key, as long as the preedit is not in Chinese mode and else.
ViewOf(s) == [act |-> ActCN(s), pun |-> ActCN(s) /\ s.pun, start |-> ActCN(s) /\ s.start]

\* mapCNPun: every sign has a Chinese form.
IsMark(k, sh) == k = "mark" \/ (k = "digit" /\ sh)

imWants_AnyModifier(v, k, sh) ==
    v.act /\ ((v.pun /\ IsMark(k, sh)) \/ v.start \/ k = "letter")
imWants(v, k, sh) ==
    v.act /\ ((v.pun /\ IsMark(k, sh)) \/ (~sh /\ (v.start \/ k = "letter")))

\* doHandleKey uses the key: it does not return FORWARD_KEY.
Handles(v, k, sh) ==
    /\ v.act
    /\ \/ ~sh /\ k = "letter"
       \/ ~v.start /\ v.pun /\ IsMark(k, sh)
       \/ v.start /\ k \in {"space", "mark", "digit", "edit"}

\* What a key that is used may do: is something composed afterwards, and is a text committed.
Effects(k, sh) == {e \in [start : BOOLEAN, text : BOOLEAN] :
    /\ k = "letter" => e.start /\ ~e.text
    /\ k = "space" \/ IsMark(k, sh) => ~e.start /\ e.text
    /\ k = "digit" => e.start # e.text
    /\ k = "edit" => ~e.text}

NoteModifier_Never(s, k, sh) == s
\* m_preModKey = modifier: ForwardKeys return before it.
NoteModifier(s, k, sh) ==
    IF s.on /\ k # "forward" THEN [s EXCEPT !.chord = sh] ELSE s

\* doSwitchCE
SwitchCE(s) == [s EXCEPT !.cn = ~s.cn, !.pun = ~s.cn, !.start = s.start /\ ~s.cn]
\* doTriggerOn, doTriggerOff and doClose
SwitchOn(s) == [s EXCEPT !.on = ~s.on, !.start = FALSE]

PreeditOf(a) == IF mode = 1 THEN Default ELSE a
Pre(a)       == preedit[PreeditOf(a)]
View(a)      == ViewOf(Pre(a))

\* Two views that differ in nothing that decides about the key.
Same(k, sh, v, w) == IF k = "letter" /\ ~sh THEN v.act = w.act ELSE v = w

Void(st) == IF st = "up" THEN "up" ELSE "void"
VoidAll  == [k \in Keys |-> Void(held[k])]
Down     == {k \in Keys : held[k] # "up"}

\* One more key down, or one more fault.
OneMore == Cardinality(Down) + faults < MaxHeld
Fault   == OneMore /\ faults < MaxFaults /\ faults' = faults + 1
-----------------------------------------------------------------------------
(* The GTK module.  A process handles one event after another; it waits in    *)
(* g_dbus_proxy_call_sync.                                                    *)

Idle(a)  == ask[a] = NoAsk
Room     == Len(inbox) + Len(texts) < MaxPending

Send(kind, c, k, st, late) ==
    inbox' = Append(inbox, [kind |-> kind, ctx |-> c, key |-> k, stroke |-> st,
                            sh |-> shift, late |-> late])
Call(kind, c, k, st) ==
    /\ Room
    /\ Send(kind, c, k, st, FALSE)
    /\ ask' = [ask EXCEPT ![AppOf[c]] =
            [kind |-> kind, key |-> IF kind = "press" THEN k ELSE "other", ans |-> -1]]

\* The context gets the key events.  (A bound: none is left in its queue when the display
\* moves the focus.)
Types(c) == c \in Typed /\ Idle(AppOf[c]) /\ widget[AppOf[c]] = c /\ xfocus = c

\* is_trigger_key, for a key that is not the on/off chord: Shift is down.
Asks_Released(a) == g_im_active[a] \/ shift

\* gaim_ic_filter_keypress.  The fallback gives the press to the widget.
KeyPress(c, k) ==
    LET a == AppOf[c] IN
    /\ Types(c)
    /\ k \in Down \/ OneMore
    /\ held' = [held EXCEPT ![k] =
            IF behind[a] THEN "void" ELSE IF @ # "up" THEN @
            ELSE IF g_im_active[a] THEN "kept" ELSE "widget"]
    /\ \/ g_im_active[a] /\ Call("press", c, k, "void")
       \/ ~g_im_active[a] /\ UNCHANGED <<ask, inbox>>
    /\ UNCHANGED <<daemonVars, made, g_ic_focus, g_im_active, texts, xfocus, widget, shift,
                   behind, stolen, chorded, faults>>

KeyRelease(c, k) ==
    LET a == AppOf[c] IN
    /\ Types(c) /\ k \in Down
    /\ held' = [held EXCEPT ![k] = "up"]
    /\ \/ Asks_Released(a) /\ Call("release", c, k, held[k])
       \/ ~Asks_Released(a) /\ UNCHANGED <<ask, inbox>>
    /\ UNCHANGED <<daemonVars, made, g_ic_focus, g_im_active, texts, xfocus, widget, shift,
                   behind, stolen, chorded, faults>>

\* The request of its press changes nothing and is left out.
ShiftPress ==
    /\ ~shift /\ shift' = TRUE
    /\ held' = VoidAll
    /\ UNCHANGED <<daemonVars, clientVars, inbox, texts, xfocus, widget, behind, stolen, chorded, faults>>

ShiftRelease(c) ==
    /\ Types(c) /\ shift
    /\ shift' = FALSE
    /\ held' = VoidAll
    /\ Call("shift", c, "other", "void")
    /\ UNCHANGED <<daemonVars, made, g_ic_focus, g_im_active, texts, xfocus, widget,
                   behind, stolen, chorded, faults>>

OnOffRelease(c) ==
    /\ Types(c) /\ ~shift
    /\ Call("onoff", c, "other", "void")
    /\ UNCHANGED <<daemonVars, made, g_ic_focus, g_im_active, texts, worldVars,
                   behind, stolen, chorded, faults>>

\* gaim_ic_focus_in
FocusIn(c) ==
    LET a == AppOf[c] IN
    /\ Idle(a) /\ widget[a] = None /\ xfocus = c
    /\ widget' = [widget EXCEPT ![a] = c]
    /\ g_ic_focus' = [g_ic_focus EXCEPT ![a] = c]
    /\ Call("in", c, "other", "void")
    /\ UNCHANGED <<daemonVars, made, g_im_active, texts, xfocus, held, shift,
                   behind, stolen, chorded, faults>>

ForgetFocus_Keeps(a) == UNCHANGED g_ic_focus
ForgetFocus(a) == g_ic_focus' = [g_ic_focus EXCEPT ![a] = None]

\* gaim_ic_focus_out: the call does not wait, and is not made while not active.
FocusOut(c) ==
    LET a == AppOf[c] IN
    /\ Idle(a) /\ widget[a] = c /\ xfocus # c
    /\ widget' = [widget EXCEPT ![a] = None]
    /\ ForgetFocus(a)
    /\ \/ g_im_active[a] /\ Room /\ Send("out", c, "other", "void", TRUE)
       \/ ~g_im_active[a] /\ UNCHANGED inbox
    /\ UNCHANGED <<daemonVars, made, g_im_active, ask, texts, xfocus, held, shift,
                   behind, stolen, chorded, faults>>

\* The widget gets a press that it was not to get before (of a key that is still its own).
Fallback(a, st) ==
    held' = IF ask[a].kind = "press" /\ held[ask[a].key] = "kept" /\ widget[a] = xfocus
            THEN [held EXCEPT ![ask[a].key] = st]
            ELSE held

TakeAnswer_Raw(a) == g_im_active' = [g_im_active EXCEPT ![a] = ask[a].ans > 0]
\* The reply: of FocusIn g_im_active, of a key 0 or g_im_active + 1.
TakeAnswer(a) ==
    g_im_active' = [g_im_active EXCEPT ![a] =
        IF ask[a].kind = "in" THEN ask[a].ans = 1
        ELSE IF ask[a].ans = 0 THEN @ ELSE ask[a].ans = 2]

Answered(a) ==
    /\ ask[a].ans >= 0
    /\ TakeAnswer(a)
    /\ IF ask[a].ans = 0 THEN Fallback(a, "widget") ELSE UNCHANGED held
    /\ ask' = [ask EXCEPT ![a] = NoAsk]
    /\ UNCHANGED <<daemonVars, made, g_ic_focus, inbox, texts, xfocus, widget, shift,
                   behind, stolen, chorded, faults>>

\* No reply in time.  The request stays where it is.
TimedOut(a) ==
    /\ ~Idle(a) /\ Fault
    /\ Fallback(a, "void")
    /\ ask' = [ask EXCEPT ![a] = NoAsk]
    /\ inbox' = [i \in DOMAIN inbox |->
                    [inbox[i] EXCEPT !.late = @ \/ AppOf[inbox[i].ctx] = a]]
    /\ behind' = [behind EXCEPT ![a] = TRUE]
    /\ UNCHANGED <<daemonVars, made, g_ic_focus, g_im_active, texts, xfocus, widget, shift,
                   stolen, chorded>>

\* ic_on_signal, for all contexts of the process.
Takers(a) == {c \in made : AppOf[c] = a /\ g_ic_focus[a] = c}

IsNext(i, a) == a \in texts[i].left /\ \A j \in 1..i - 1 : a \notin texts[j].left

TakeText(a) == \E i \in DOMAIN texts :
    /\ Idle(a) /\ IsNext(i, a)
    /\ texts' = IF texts[i].left = {a} THEN RemoveAt(texts, i)
                ELSE [texts EXCEPT ![i].left = @ \ {a}, ![i].got = @ \cup Takers(a)]
    /\ UNCHANGED <<daemonVars, clientVars, inbox, worldVars, behind, stolen, chorded, faults>>

\* The display gives the focus to another context, when both sides of the last change
\* are through.
MoveFocus(c) ==
    /\ c \in made /\ xfocus # c
    /\ \A a \in Apps : widget[a] = IF xfocus # None /\ AppOf[xfocus] = a THEN xfocus ELSE None
    /\ xfocus' = c
    /\ texts' = [i \in DOMAIN texts |-> [texts[i] EXCEPT !.calm = FALSE]]
    /\ held' = VoidAll
    /\ UNCHANGED <<daemonVars, clientVars, inbox, widget, shift, behind, stolen, chorded, faults>>

\* gaim_im_context_init: CreateInputContext, and add() of the daemon.
Create(c) ==
    /\ c \notin made /\ Idle(AppOf[c])
    /\ made' = made \cup {c}
    /\ icFocus' = c /\ stolen' = TRUE
    /\ UNCHANGED <<mode, preedit, g_ic_focus, g_im_active, ask, inbox, texts, worldVars,
                   behind, chorded, faults>>
-----------------------------------------------------------------------------
(* The D-Bus thread: one request after another. *)

First == Head(inbox)
Client == AppOf[First.ctx]
IsFirst(kind) == inbox # <<>> /\ First.kind = kind

\* The reply, unless the client gave up waiting.
Reply(ans) == ask' = IF First.late THEN ask ELSE [ask EXCEPT ![Client].ans = ans]

\* procKeyEvent: 0 for a key that is not used.
KeyReply_Code(used, s) == IF ~used THEN 0 ELSE 11
KeyReply(used, s) == IF ~used THEN 0 ELSE IF ActCN(s) THEN 2 ELSE 1

\* Preedit p is now s, with the queue of requests that is left; told are the processes
\* that a reply tells.
Becomes(p, s, queue, told) ==
    LET changed(k, sh) == ~Same(k, sh, ViewOf(preedit[p]), ViewOf(s)) IN
    /\ preedit' = [preedit EXCEPT ![p] = s]
    /\ behind' = [a \in Apps |-> /\ a \notin told
                                 /\ behind[a] \/ (PreeditOf(a) = p /\ ActCN(s) # ActCN(preedit[p]))]
    /\ held' = [k \in Keys |-> IF xfocus # None /\ PreeditOf(AppOf[xfocus]) = p /\ changed(k, shift)
                               THEN Void(held[k]) ELSE held[k]]
    /\ inbox' = [i \in DOMAIN queue |->
                    IF PreeditOf(AppOf[queue[i].ctx]) = p /\ changed(queue[i].key, queue[i].sh)
                    THEN [queue[i] EXCEPT !.stroke = "void"] ELSE queue[i]]

Calm(c) == xfocus = c /\ \A a \in Apps : widget[a] = IF a = AppOf[c] THEN c ELSE None

\* dbusIMCommit: a signal to everybody.
Commit(c, text) ==
    texts' = IF text THEN Append(texts, [ctx |-> c, left |-> Apps, got |-> {}, calm |-> Calm(c)])
                     ELSE texts

\* The client of the request, when the reply tells it the state.
Told(used) == IF used /\ ~First.late THEN {Client} ELSE {}

\* A press: handleKey only asks imWants.
ServePress ==
    LET wanted == imWants(View(Client), First.key, First.sh) IN
    /\ IsFirst("press")
    /\ Reply(KeyReply(wanted, Pre(Client)))
    /\ Becomes(PreeditOf(Client), Pre(Client), Tail(inbox), Told(wanted))
    /\ UNCHANGED <<mode, icFocus, made, g_ic_focus, g_im_active, texts, xfocus, widget, shift,
                   stolen, chorded, faults>>

\* A release: doHandleKey.
ServeRelease ==
    LET k == First.key
        s == NoteModifier(Pre(Client), k, First.sh)
        used == Handles(View(Client), k, First.sh) IN
    /\ IsFirst("release")
    /\ \E e \in Effects(k, First.sh) :
        LET t == IF used THEN [s EXCEPT !.start = e.start] ELSE s IN
        /\ Becomes(PreeditOf(Client), t, Tail(inbox), Told(used))
        /\ Commit(First.ctx, used /\ e.text)
        /\ Reply(KeyReply(used, t))
    /\ chorded' = IF First.sh /\ Pre(Client).on /\ k # "forward" THEN chorded \cup {Client}
                                                                ELSE chorded
    /\ UNCHANGED <<mode, icFocus, made, g_ic_focus, g_im_active, xfocus, widget, shift, stolen, faults>>

\* The release of Shift: the end of a chord, or CN/EN.
ServeShift ==
    LET s == Pre(Client)
        used == s.on /\ ~s.chord
        t == IF used THEN SwitchCE(s) ELSE [s EXCEPT !.chord = @ /\ ~s.on] IN
    /\ IsFirst("shift")
    /\ Becomes(PreeditOf(Client), t, Tail(inbox), Told(used))
    /\ Commit(First.ctx, used /\ s.cn /\ s.start)
    /\ Reply(KeyReply(used, t))
    /\ chorded' = {}
    /\ UNCHANGED <<mode, icFocus, made, g_ic_focus, g_im_active, xfocus, widget, shift, stolen, faults>>

ServeOnOff ==
    LET t == SwitchOn(Pre(Client)) IN
    /\ IsFirst("onoff")
    /\ Becomes(PreeditOf(Client), t, Tail(inbox), Told(TRUE))
    /\ Reply(KeyReply(TRUE, t))
    /\ UNCHANGED <<mode, icFocus, made, g_ic_focus, g_im_active, texts, xfocus, widget, shift, stolen, chorded, faults>>

\* ic_focusin: the reply is read before focusIn is called.
ServeFocusIn ==
    /\ IsFirst("in")
    /\ Reply(IF ActCN(Pre(Client)) THEN 1 ELSE 0)
    /\ icFocus' = First.ctx /\ stolen' = FALSE
    /\ Becomes(PreeditOf(Client), Pre(Client), Tail(inbox), Told(TRUE))
    /\ UNCHANGED <<mode, made, g_ic_focus, g_im_active, texts, xfocus, widget, shift, chorded, faults>>

focusOut_Always(c) == icFocus' = None
focusOut(c) == icFocus' = IF icFocus = c THEN None ELSE icFocus

ServeFocusOut ==
    /\ IsFirst("out")
    /\ focusOut(First.ctx)
    /\ inbox' = Tail(inbox)
    /\ UNCHANGED <<mode, preedit, clientVars, texts, worldVars,
                   behind, stolen, chorded, faults>>

\* The preedit that the tray speaks to: of the context that m_icFocus names, or of the
\* default IC (in mode 0 no process has that one; clicks that go there are left out).
TrayPreedit == IF icFocus = None THEN Default ELSE PreeditOf(AppOf[icFocus])

TraySwitchCE ==
    /\ icFocus # None \/ mode = 1
    /\ Fault
    /\ Becomes(TrayPreedit, SwitchCE(preedit[TrayPreedit]), inbox, {})
    /\ UNCHANGED <<mode, icFocus, clientVars, texts, xfocus, widget, shift, stolen, chorded>>

TraySwitchPun ==
    /\ icFocus # None \/ mode = 1
    /\ Fault
    /\ Becomes(TrayPreedit, [preedit[TrayPreedit] EXCEPT !.pun = ~@], inbox, {})
    /\ UNCHANGED <<mode, icFocus, clientVars, texts, xfocus, widget, shift, stolen, chorded>>

User(c) ==
    \/ Create(c) \/ MoveFocus(c) \/ FocusIn(c) \/ FocusOut(c)
    \/ ShiftRelease(c) \/ OnOffRelease(c)
    \/ \E k \in Keys : KeyPress(c, k) \/ KeyRelease(c, k)

ClientSteps(a) == Answered(a) \/ TimedOut(a) \/ TakeText(a)

Daemon ==
    \/ ServePress \/ ServeRelease \/ ServeShift \/ ServeOnOff \/ ServeFocusIn \/ ServeFocusOut
    \/ TraySwitchCE \/ TraySwitchPun

Next ==
    \/ \E c \in Contexts : User(c)
    \/ ShiftPress
    \/ \E a \in Apps : ClientSteps(a)
    \/ Daemon

Spec == Init /\ [][Next]_vars
-----------------------------------------------------------------------------
\* The type of every variable of KeyEvents.
TypeOK ==
    /\ mode \in {0, 1} /\ preedit \in [Preedits -> PreeditStates]
    /\ icFocus \in Contexts \cup {None} /\ made \subseteq Contexts
    /\ g_ic_focus \in [Apps -> Contexts \cup {None}] /\ g_im_active \in [Apps -> BOOLEAN]
    /\ ask \in [Apps -> Asks] /\ inbox \in Seq(Requests) /\ texts \in Seq(Texts)
    /\ xfocus \in Contexts \cup {None} /\ widget \in [Apps -> Contexts \cup {None}]
    /\ held \in [Keys -> Strokes \cup {"up"}]
    /\ shift \in BOOLEAN /\ behind \in [Apps -> BOOLEAN] /\ stolen \in BOOLEAN
    /\ chorded \subseteq Apps /\ faults \in 0..MaxFaults

\* A process that waits for no reply knows whether its keys are wanted: g_im_active is
\* isActCN() of its preedit, unless a click, another process or a lost reply changed it.
ActiveAgrees ==
    \A a \in Apps : Idle(a) /\ ~behind[a] => g_im_active[a] = ActCN(Pre(a))

\* When all requests are processed, the tray speaks for the context that has the focus,
\* whatever the order of the focus events of two processes, unless a new context took it.
FocusExact ==
    \A c \in Contexts :
        Calm(c) /\ inbox = <<>> /\ (\A a \in Apps : Idle(a)) /\ ~stolen => icFocus = c

\* Only the release counts for a modified key while something is composed; only the press
\* for a key that has no meaning then.
Odd(v, k, sh) ==
    v.start /\ IF sh THEN k \in {"space", "edit"} \/ (IsMark(k, sh) /\ ~v.pun)
                     ELSE k \in {"other", "forward"}

\* The reply to a release says whether the input method used the key.
ServedOnce(odd(_, _, _)) ==
    ServeRelease /\ ~First.late /\ First.stroke # "void" /\ ~odd(View(Client), First.key, First.sh) =>
        (First.stroke = "widget" <=> ask'[Client].ans = 0)

\* A key is used once, by the widget or by the input method, if nothing changed between
\* its press and its release: no letter is lost or doubled when keys overlap, repeat or
\* are typed with Shift.  Odd keys excepted.
TakenOnceIfSteady ==
    [][/\ \A c \in Contexts, k \in Keys :
            KeyRelease(c, k) /\ inbox' = inbox /\ ~behind[AppOf[c]] => held[k] # "kept"
       /\ ServedOnce(Odd)]_vars

\* "0: Non-used key fallback to widget.  >0: Eat this key" (DBusICSrv.cpp:163-164): of
\* every key.
KeyTakenOnce == [][ServedOnce(LAMBDA v, k, sh : FALSE)]_vars

\* A text is committed to the widget that it was typed in, to no other one and not twice,
\* if the focus does not move before all processes have seen the signal.
TextArrives ==
    [][\A a \in Apps : \A i \in DOMAIN texts :
        TakeText(a) /\ IsNext(i, a) /\ texts[i].left = {a} /\ texts[i].calm =>
            texts[i].got \cup Takers(a) = {texts[i].ctx}]_vars

\* "Fix: for CN/EN: mismatch shift + componse key" (X11IMPreedit.cpp:163): a Shift that
\* modified a key does not switch the language at its release.
ChordNeverSwitches ==
    [][ServeShift /\ Client \in chorded => preedit'[PreeditOf(Client)].cn = Pre(Client).cn]_vars
=============================================================================
