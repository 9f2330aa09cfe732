----------------------------- MODULE ICManager -----------------------------
(***************************************************************************)
(* The registry of the daemon's input contexts (IC.cpp), with the D-Bus    *)
(* and XIM requests that reach it (DBusICSrv.cpp, XIMSrv.cpp), each on the *)
(* thread of its protocol, and with crashes of the daemon.                 *)
(*                                                                         *)
(* An IC is known by its id, which is never reused while the daemon lives, *)
(* and a preedit object by the id of the IC it was allocated for; the      *)
(* default IC and its preedit are both 0.  m_cs protects the maps: add,    *)
(* destroy and get are one step each.  m_icFocus and an IC* that get       *)
(* returned are read and written without it.                               *)
(***************************************************************************)
EXTENDS Integers, FiniteSets, Functions

CONSTANTS DBusApps,   \* the applications that connect over D-Bus
          XimApps,    \* those that connect over XIM
          KeepsIds,   \* the D-Bus ones that use their ids on after a daemon crash
          MaxIc,      \* bound on the ICs that one daemon process creates
          Crashes     \* does the daemon crash and start again?

ASSUME ConstantsAssumption ==
    /\ DBusApps \cap XimApps = {}
    /\ KeepsIds \subseteq DBusApps
    /\ MaxIc \in Nat
    /\ Crashes \in BOOLEAN

Apps    == DBusApps \cup XimApps
Threads == {"dbus", "xim"}
Thread(a) == IF a \in XimApps THEN "xim" ELSE "dbus"
Default == 0   \* the default IC, and its preedit

VARIABLES
    icid,      \* m_icid
    ics,       \* m_ics: the preedit of each IC, without the default one
    preedits,  \* m_preedits: the preedit of each application
    refs,      \* the refs of each preedit object that exists
    focus,     \* m_icFocus
    mode,      \* m_icMode
    pc,        \* what each thread is in the middle of
    arg,       \* the id its request is about
    ic,        \* the IC* it got
    handles,   \* the ids each application holds for ICs of its own
    stale      \* the ids it holds from a daemon process that crashed

daemonVars == <<icid, ics, preedits, refs, mode>>
threadVars == <<pc, arg, ic>>
clientVars == <<handles, stale>>
vars == <<icid, ics, preedits, refs, focus, mode, pc, arg, ic, handles, stale>>

EmptyMap == [x \in {} |-> 0]

AllIdle == [th \in Threads |-> "idle"]
NoIds   == [th \in Threads |-> 0]

\* ICManager() and init(), which reads the configured mode.
Init ==
    /\ icid = 0 /\ focus = 0
    /\ ics = EmptyMap /\ preedits = EmptyMap /\ refs = EmptyMap
    /\ mode \in {0, 1}
    /\ pc = AllIdle /\ arg = NoIds /\ ic = NoIds
    /\ handles = [a \in Apps |-> {}] /\ stale = [a \in Apps |-> {}]
-----------------------------------------------------------------------------
(* X_Bug is X with a plausible bug: the checks are repeated with each in the  *)
(* place of X, to see that they can fail.                                    *)

Put(f, x, v) == [y \in DOMAIN f \cup {x} |-> IF y = x THEN v ELSE f[y]]

IsLive(i) == i \in DOMAIN ics

\* ICManager::get: an id that is not known gets the default IC.
Get(i) == IF IsLive(i) THEN i ELSE Default

NewId_Late == icid
NewId == icid + 1

PreeditOf_Own(a) == NewId
\* The preedit a new IC gets: the application's, a new one, or in mode 1 the global one.
PreeditOf(a) == IF mode = 1 THEN Default
                ELSE IF a \in DOMAIN preedits THEN preedits[a] ELSE NewId

AddRef_OnlyNew(p) ==
    refs' = IF p = Default \/ p \in DOMAIN refs THEN refs ELSE Put(refs, p, 1)
AddRef(p) ==
    refs' = IF p = Default THEN refs
            ELSE Put(refs, p, IF p \in DOMAIN refs THEN refs[p] + 1 ELSE 1)

add(a) ==
    /\ icid' = icid + 1
    /\ ics' = Put(ics, NewId, PreeditOf(a))
    /\ preedits' = IF mode = 1 THEN preedits ELSE Put(preedits, a, PreeditOf(a))
    /\ AddRef(PreeditOf(a))
    /\ focus' = NewId

releasePreedit(p) ==
    \/ /\ p = Default
       /\ UNCHANGED <<preedits, refs>>
    \/ /\ p # Default /\ refs[p] > 1
       /\ refs' = [refs EXCEPT ![p] = @ - 1]
       /\ UNCHANGED preedits
    \/ /\ p # Default /\ refs[p] = 1
       /\ refs' = Restrict(refs, DOMAIN refs \ {p})
       /\ preedits' = Restrict(preedits, {a \in DOMAIN preedits : preedits[a] # p})

destroy_KeepsEntry(i) ==
    IF IsLive(i) THEN releasePreedit(ics[i]) /\ UNCHANGED ics
                 ELSE UNCHANGED <<ics, preedits, refs>>
destroy(i) ==
    \/ /\ IsLive(i)
       /\ releasePreedit(ics[i])
       /\ ics' = Restrict(ics, DOMAIN ics \ {i})
    \/ /\ ~IsLive(i)
       /\ UNCHANGED <<ics, preedits, refs>>
-----------------------------------------------------------------------------
Idle(th) == pc[th] = "idle"
Holds(a, i) == i \in handles[a] \cup stale[a]

\* CreateInputContext of D-Bus, XIM_CREATE_IC of XIM; the application gets the id.
CreateIC(a) ==
    /\ Idle(Thread(a)) /\ icid < MaxIc
    /\ add(a)
    /\ handles' = [handles EXCEPT ![a] = @ \cup {NewId}]
    /\ UNCHANGED <<mode, threadVars, stale>>

DestroyIC(a, i) ==
    /\ Idle(Thread(a)) /\ Holds(a, i)
    /\ destroy(i)
    /\ handles' = [handles EXCEPT ![a] = @ \ {i}]
    /\ stale' = [stale EXCEPT ![a] = @ \ {i}]
    /\ UNCHANGED <<icid, focus, mode, threadVars>>

\* Every request that looks an IC up and then works on it: keys, cursor, reset.  The
\* XIM ones leave the default IC alone.
GetIC(a, i) ==
    LET th == Thread(a) IN
    /\ Idle(th) /\ Holds(a, i)
    /\ th = "xim" => IsLive(i)
    /\ ic' = [ic EXCEPT ![th] = Get(i)]
    /\ pc' = [pc EXCEPT ![th] = "use"]
    /\ UNCHANGED <<daemonVars, focus, arg, clientVars>>

UseIC(th) ==
    /\ pc[th] = "use"
    /\ pc' = [pc EXCEPT ![th] = "idle"]
    /\ ic' = [ic EXCEPT ![th] = Default]
    /\ UNCHANGED <<daemonVars, focus, arg, clientVars>>

\* focusIn: "There are many foucus event", the IC that has the focus returns early.
FocusIn(a, i) ==
    LET th == Thread(a) IN
    /\ Idle(th) /\ Holds(a, i) /\ focus # i
    /\ th = "xim" => IsLive(i)
    /\ arg' = [arg EXCEPT ![th] = i]
    /\ pc' = [pc EXCEPT ![th] = "focusGet"]
    /\ UNCHANGED <<daemonVars, focus, ic, clientVars>>

FocusInGet(th) ==
    /\ pc[th] = "focusGet"
    /\ ic' = [ic EXCEPT ![th] = Get(arg[th])]
    /\ pc' = [pc EXCEPT ![th] = "focusUse"]
    /\ UNCHANGED <<daemonVars, focus, arg, clientVars>>

\* guiReload and guiShowCandidate of the IC's preedit, then the assignment.
FocusInUse(th) ==
    /\ pc[th] = "focusUse"
    /\ focus' = arg[th]
    /\ pc' = [pc EXCEPT ![th] = "idle"]
    /\ arg' = [arg EXCEPT ![th] = 0] /\ ic' = [ic EXCEPT ![th] = Default]
    /\ UNCHANGED <<daemonVars, clientVars>>

FocusOut(a, i) ==
    LET th == Thread(a) IN
    /\ Idle(th) /\ Holds(a, i) /\ focus = i
    /\ pc' = [pc EXCEPT ![th] = "focusClear"]
    /\ UNCHANGED <<daemonVars, focus, arg, ic, clientVars>>

FocusOutClear(th) ==
    /\ pc[th] = "focusClear"
    /\ focus' = 0
    /\ pc' = [pc EXCEPT ![th] = "idle"]
    /\ UNCHANGED <<daemonVars, arg, ic, clientVars>>

\* GuiMessage, a click on the tray, for the IC that has the focus: getFocus() reads
\* m_icFocus and only then calls get.
GuiMessage ==
    /\ Idle("dbus")
    /\ arg' = [arg EXCEPT !["dbus"] = focus]
    /\ pc' = [pc EXCEPT !["dbus"] = "guiGet"]
    /\ UNCHANGED <<daemonVars, focus, ic, clientVars>>

GuiMessageGet ==
    /\ pc["dbus"] = "guiGet"
    /\ ic' = [ic EXCEPT !["dbus"] = Get(arg["dbus"])]
    /\ arg' = [arg EXCEPT !["dbus"] = 0]
    /\ pc' = [pc EXCEPT !["dbus"] = "use"]
    /\ UNCHANGED <<daemonVars, focus, clientVars>>

\* A thread is about to follow an IC* to an IC that was deleted.
Dangling(th) == pc[th] \in {"use", "focusUse"} /\ ic[th] # Default /\ ~IsLive(ic[th])

\* The daemon dies, of a dangling pointer or of anything else, and is started again.
\* XIM clients lose their connection, and the Qt plug-in drops its id when the service
\* disappears; the GTK module goes on with the ids it has.
Crash ==
    /\ Crashes \/ \E th \in Threads : Dangling(th)
    /\ icid' = 0 /\ focus' = 0
    /\ ics' = EmptyMap /\ preedits' = EmptyMap /\ refs' = EmptyMap
    /\ mode' \in {0, 1}
    /\ pc' = AllIdle /\ arg' = NoIds /\ ic' = NoIds
    /\ handles' = [a \in Apps |-> {}]
    /\ stale' = [a \in Apps |-> IF a \in KeepsIds THEN stale[a] \cup handles[a] ELSE {}]

Requests(a) ==
    \/ CreateIC(a)
    \/ \E i \in 1..MaxIc : DestroyIC(a, i) \/ GetIC(a, i) \/ FocusIn(a, i) \/ FocusOut(a, i)

Steps(th) == UseIC(th) \/ FocusInGet(th) \/ FocusInUse(th) \/ FocusOutClear(th)

Next ==
    \/ \E a \in Apps : Requests(a)
    \/ \E th \in Threads : Steps(th)
    \/ GuiMessage \/ GuiMessageGet
    \/ Crash

Spec == Init /\ [][Next]_vars
-----------------------------------------------------------------------------
Users(p) == {i \in DOMAIN ics : ics[i] = p}

\* The type of every variable of ICManager.
TypeOK ==
    /\ icid \in 0..MaxIc
    /\ DOMAIN ics \subseteq 1..icid /\ ics \in [DOMAIN ics -> 0..icid]
    /\ DOMAIN preedits \subseteq Apps /\ preedits \in [DOMAIN preedits -> 1..icid]
    /\ DOMAIN refs \subseteq 1..icid /\ refs \in [DOMAIN refs -> Nat]
    /\ focus \in 0..MaxIc
    /\ mode \in {0, 1}
    /\ pc \in [Threads -> {"idle", "use", "focusGet", "focusUse", "focusClear", "guiGet"}]
    /\ arg \in [Threads -> 0..MaxIc] /\ ic \in [Threads -> 0..MaxIc]
    /\ handles \in [Apps -> SUBSET (1..MaxIc)] /\ stale \in [Apps -> SUBSET (1..MaxIc)]

\* A preedit object exists as long as an IC uses it: its refs is the number of those
\* ICs, no IC points to a deleted one, and m_preedits lists each of them once.
RefsExact ==
    /\ DOMAIN refs = {preedits[a] : a \in DOMAIN preedits}
    /\ IsInjective(preedits)
    /\ \A p \in DOMAIN refs : refs[p] = Cardinality(Users(p)) /\ refs[p] > 0
    /\ \A i \in DOMAIN ics : ics[i] = Default \/ ics[i] \in DOMAIN refs

\* "One preedit per App (default)", "One preedit per OS" (IC.cpp:3-4): two ICs of one
\* application share its preedit, two applications share one only in mode 1.
OnePreeditPerApp ==
    \A a, b \in Apps : \A i \in handles[a], j \in handles[b] :
        IsLive(i) /\ IsLive(j) => (ics[i] = ics[j] <=> a = b \/ mode = 1)

\* An application acts on ICs of its own: an id it was given by this daemon process is
\* that of a live IC and of no other application, until it destroys it.  (Here no
\* application keeps ids of an earlier process.)
HandlesAreLive ==
    /\ \A a \in Apps : \A i \in handles[a] : IsLive(i)
    /\ \A a, b \in Apps : a # b => handles[a] \cap handles[b] = {}
    /\ DOMAIN ics = UNION {handles[a] : a \in Apps}

\* "If alphad crash, using the default IC for existing ics" (IC.cpp:117).
StaleGetsDefault ==
    \A a \in Apps : \A i \in stale[a] : Get(i) = Default
=============================================================================
