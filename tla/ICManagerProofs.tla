-------------------------- MODULE ICManagerProofs --------------------------
(***************************************************************************)
(* What TLAPS proves of ICManager, for any applications, any number of ICs *)
(* and any use of ids left over from a daemon that crashed.                *)
(***************************************************************************)
EXTENDS ICManager, FiniteSetTheorems, TLAPS

USE DEF daemonVars, threadVars, clientVars, Default

\* A new entry of a map.
LEMMA PutFact ==
    ASSUME NEW f, NEW x, NEW v
    PROVE  /\ DOMAIN Put(f, x, v) = DOMAIN f \cup {x}
           /\ Put(f, x, v)[x] = v
           /\ \A y \in DOMAIN f : y # x => Put(f, x, v)[y] = f[y]
BY DEF Put

\* A new entry of a map keeps its type.
LEMMA PutType ==
    ASSUME NEW S, NEW T, NEW f \in [S -> T], NEW x, NEW v \in T
    PROVE  Put(f, x, v) \in [DOMAIN Put(f, x, v) -> T]
BY DEF Put

\* The ids that ICs can have are bounded, so the ICs that use a preedit can be counted.
LEMMA UsersFinite ==
    ASSUME TypeOK, NEW p PROVE IsFiniteSet(Users(p))
<1>1. IsFiniteSet(1..icid)
    <2>1. icid \in Int
        BY ConstantsAssumption DEF TypeOK
    <2> QED BY <2>1, FS_Interval
<1>2. Users(p) \in SUBSET (1..icid)
    BY DEF TypeOK, Users
<1> QED BY <1>1, <1>2, FS_Subset
-----------------------------------------------------------------------------
\* The preedit that a new IC gets has a legal name.
LEMMA PreeditOfType ==
    ASSUME TypeOK, NEW a \in Apps
    PROVE  /\ PreeditOf(a) \in 0..NewId
           /\ mode # 1 => PreeditOf(a) \in 1..NewId
BY ConstantsAssumption DEF TypeOK, PreeditOf, NewId

\* add keeps the types of the maps.
LEMMA AddType ==
    ASSUME TypeOK, NEW a \in Apps, icid < MaxIc, add(a)
    PROVE  /\ icid' \in 0..MaxIc /\ focus' \in 0..MaxIc
           /\ DOMAIN ics' \subseteq 1..icid' /\ ics' \in [DOMAIN ics' -> 0..icid']
           /\ DOMAIN preedits' \subseteq Apps /\ preedits' \in [DOMAIN preedits' -> 1..icid']
           /\ DOMAIN refs' \subseteq 1..icid' /\ refs' \in [DOMAIN refs' -> Nat]
<1> USE ConstantsAssumption
<1> DEFINE p == PreeditOf(a)
<1>0. icid \in Nat /\ MaxIc \in Nat /\ NewId = icid + 1 /\ icid' = NewId
    BY DEF TypeOK, NewId, add
<1>1. p \in 0..NewId /\ (mode # 1 => p \in 1..NewId)
    BY PreeditOfType
<1>2. icid' \in 0..MaxIc /\ focus' \in 0..MaxIc
    BY <1>0 DEF add
<1>3. DOMAIN ics' \subseteq 1..icid' /\ ics' \in [DOMAIN ics' -> 0..icid']
    <2>1. ics' = Put(ics, NewId, p)
        BY DEF add
    <2>2. ics \in [DOMAIN ics -> 0..NewId]
        BY <1>0 DEF TypeOK
    <2>3. Put(ics, NewId, p) \in [DOMAIN Put(ics, NewId, p) -> 0..NewId]
        BY <1>1, <2>2, PutType
    <2>4. DOMAIN Put(ics, NewId, p) \subseteq 1..NewId
        <3>1. DOMAIN Put(ics, NewId, p) = DOMAIN ics \cup {NewId}
            BY PutFact
        <3> QED BY <1>0, <3>1 DEF TypeOK
    <2> QED BY <1>0, <2>1, <2>3, <2>4
<1>4. DOMAIN preedits' \subseteq Apps /\ preedits' \in [DOMAIN preedits' -> 1..icid']
    <2>1. preedits \in [DOMAIN preedits -> 1..NewId] /\ DOMAIN preedits \subseteq Apps
        BY <1>0 DEF TypeOK
    <2>2. CASE mode = 1
        BY <1>0, <2>1, <2>2 DEF add
    <2>3. CASE mode # 1
        <3>1. preedits' = Put(preedits, a, p)
            BY <2>3 DEF add
        <3>2. Put(preedits, a, p) \in [DOMAIN Put(preedits, a, p) -> 1..NewId]
            BY <1>1, <2>1, <2>3, PutType
        <3>3. DOMAIN Put(preedits, a, p) = DOMAIN preedits \cup {a}
            BY PutFact
        <3> QED BY <1>0, <2>1, <3>1, <3>2, <3>3
    <2> QED BY <2>2, <2>3
<1>5. DOMAIN refs' \subseteq 1..icid' /\ refs' \in [DOMAIN refs' -> Nat]
    <2>1. refs \in [DOMAIN refs -> Nat] /\ DOMAIN refs \subseteq 1..NewId
        BY <1>0 DEF TypeOK
    <2>2. CASE p = 0
        BY <1>0, <2>1, <2>2 DEF add, AddRef
    <2>3. CASE p # 0
        <3> DEFINE n == IF p \in DOMAIN refs THEN refs[p] + 1 ELSE 1
        <3>1. refs' = Put(refs, p, n)
            BY <2>3 DEF add, AddRef
        <3>2. n \in Nat
            BY <2>1
        <3> HIDE DEF n
        <3>3. Put(refs, p, n) \in [DOMAIN Put(refs, p, n) -> Nat]
            BY <2>1, <3>2, PutType
        <3>4. DOMAIN Put(refs, p, n) = DOMAIN refs \cup {p}
            BY PutFact
        <3>5. p \in 1..NewId
            BY <1>0, <1>1, <2>3
        <3> QED BY <1>0, <2>1, <3>1, <3>3, <3>4, <3>5
    <2> QED BY <2>2, <2>3
<1> QED BY <1>2, <1>3, <1>4, <1>5

\* destroy keeps the types of the maps.
LEMMA DestroyType ==
    ASSUME TypeOK, NEW i, destroy(i)
    PROVE  /\ DOMAIN ics' \subseteq 1..icid /\ ics' \in [DOMAIN ics' -> 0..icid]
           /\ DOMAIN preedits' \subseteq Apps /\ preedits' \in [DOMAIN preedits' -> 1..icid]
           /\ DOMAIN refs' \subseteq 1..icid /\ refs' \in [DOMAIN refs' -> Nat]
<1>1. CASE ~IsLive(i)
    BY <1>1 DEF destroy, TypeOK
<1>2. CASE IsLive(i)
    <2>1. ics' = Restrict(ics, DOMAIN ics \ {i}) /\ releasePreedit(ics[i])
        BY <1>2 DEF destroy
    <2>2. DOMAIN ics' \subseteq 1..icid /\ ics' \in [DOMAIN ics' -> 0..icid]
        BY <2>1 DEF Restrict, TypeOK
    <2>3. DOMAIN preedits' \subseteq Apps /\ preedits' \in [DOMAIN preedits' -> 1..icid]
        BY <2>1 DEF releasePreedit, Restrict, TypeOK
    <2>4. DOMAIN refs' \subseteq 1..icid /\ refs' \in [DOMAIN refs' -> Nat]
        BY <2>1 DEF releasePreedit, Restrict, TypeOK
    <2> QED BY <2>2, <2>3, <2>4
<1> QED BY <1>1, <1>2

\* Every variable keeps its type.
THEOREM TypeCorrect == Spec => []TypeOK
<1>1. Init => TypeOK
    <2> SUFFICES ASSUME Init PROVE TypeOK
        OBVIOUS
    <2>1. icid = 0 /\ DOMAIN ics = {} /\ DOMAIN preedits = {} /\ DOMAIN refs = {}
        BY DEF Init, EmptyMap
    <2>2. /\ ics \in [{} -> 0..icid] /\ preedits \in [{} -> 1..icid] /\ refs \in [{} -> Nat]
        BY DEF Init, EmptyMap
    <2> QED BY <2>1, <2>2, ConstantsAssumption DEF Init, TypeOK, AllIdle, NoIds
<1>2. TypeOK /\ [Next]_vars => TypeOK'
    <2> SUFFICES ASSUME TypeOK, [Next]_vars PROVE TypeOK'
        OBVIOUS
    <2>0. \A a \in Apps : Thread(a) \in Threads
        BY DEF Thread, Threads
    <2> USE ConstantsAssumption
    <2>1. ASSUME NEW a \in Apps, CreateIC(a) PROVE TypeOK'
        <3>1. icid < MaxIc /\ add(a)
            BY <2>1 DEF CreateIC
        <3>2. handles' \in [Apps -> SUBSET (1..MaxIc)]
            BY <2>1, <3>1 DEF CreateIC, NewId, TypeOK
        <3> QED BY <2>1, <3>1, <3>2, AddType DEF CreateIC, TypeOK
    <2>2. ASSUME NEW a \in Apps, NEW i \in 1..MaxIc, DestroyIC(a, i) PROVE TypeOK'
        <3>1. destroy(i)
            BY <2>2 DEF DestroyIC
        <3>2. /\ handles' \in [Apps -> SUBSET (1..MaxIc)]
              /\ stale' \in [Apps -> SUBSET (1..MaxIc)]
            BY <2>2 DEF DestroyIC, TypeOK
        <3> QED BY <2>2, <3>1, <3>2, DestroyType DEF DestroyIC, TypeOK
    <2>3. ASSUME NEW a \in Apps, NEW i \in 1..MaxIc, GetIC(a, i) PROVE TypeOK'
        BY <2>0, <2>3 DEF GetIC, Get, TypeOK
    <2>4. ASSUME NEW a \in Apps, NEW i \in 1..MaxIc, FocusIn(a, i) \/ FocusOut(a, i)
          PROVE  TypeOK'
        BY <2>0, <2>4 DEF FocusIn, FocusOut, TypeOK
    <2>5. ASSUME NEW th \in Threads, Steps(th) PROVE TypeOK'
        BY <2>5 DEF Steps, UseIC, FocusInGet, FocusInUse, FocusOutClear, Get, TypeOK
    <2>6. CASE GuiMessage \/ GuiMessageGet
        BY <2>6 DEF GuiMessage, GuiMessageGet, Get, TypeOK, Threads
    <2>7. CASE Crash
        <3>1. icid' = 0 /\ DOMAIN ics' = {} /\ DOMAIN preedits' = {} /\ DOMAIN refs' = {}
            BY <2>7 DEF Crash, EmptyMap
        <3>2. /\ ics' \in [{} -> 0..icid'] /\ preedits' \in [{} -> 1..icid']
              /\ refs' \in [{} -> Nat]
            BY <2>7 DEF Crash, EmptyMap
        <3>3. /\ handles' \in [Apps -> SUBSET (1..MaxIc)]
              /\ stale' \in [Apps -> SUBSET (1..MaxIc)]
            BY <2>7 DEF Crash, TypeOK
        <3>4. /\ focus' \in 0..MaxIc /\ mode' \in {0, 1} /\ icid' \in 0..MaxIc
            BY <2>7 DEF Crash
        <3>5. /\ arg' \in [Threads -> 0..MaxIc] /\ ic' \in [Threads -> 0..MaxIc]
              /\ pc' \in [Threads -> {"idle", "use", "focusGet", "focusUse", "focusClear",
                                      "guiGet"}]
            BY <2>7 DEF Crash, AllIdle, NoIds
        <3> QED BY <3>1, <3>2, <3>3, <3>4, <3>5 DEF TypeOK
    <2>8. CASE UNCHANGED vars
        BY <2>8 DEF vars, TypeOK
    <2> QED BY <2>1, <2>2, <2>3, <2>4, <2>5, <2>6, <2>7, <2>8 DEF Next, Requests
<1> QED BY <1>1, <1>2, PTL DEF Spec
-----------------------------------------------------------------------------
\* Only add, destroy and a crash change what the invariants are about.
LEMMA WhatChanges ==
    ASSUME [Next]_vars
    PROVE  \/ \E a \in Apps : CreateIC(a)
           \/ \E a \in Apps : \E i \in 1..MaxIc : DestroyIC(a, i)
           \/ Crash
           \/ UNCHANGED <<icid, ics, preedits, refs, mode, handles, stale>>
BY DEF Next, Requests, GetIC, FocusIn, FocusOut, Steps, UseIC, FocusInGet, FocusInUse,
   FocusOutClear, GuiMessage, GuiMessageGet, vars

\* add counts the new IC among the users of its preedit.
LEMMA AddRefs ==
    ASSUME TypeOK, RefsExact, NEW a \in Apps, add(a)
    PROVE  RefsExact'
<1> PICK n, p : n = NewId /\ p = PreeditOf(a)
    OBVIOUS
<1>0. icid \in Nat /\ n = icid + 1
    BY ConstantsAssumption DEF TypeOK, NewId
<1>1. /\ n \notin DOMAIN ics /\ n \notin DOMAIN refs /\ n # 0
      /\ \A b \in DOMAIN preedits : preedits[b] # n
      /\ \A i \in DOMAIN ics : ics[i] # n
    BY <1>0 DEF TypeOK
<1>2. ics' = Put(ics, n, p) /\ AddRef(p)
    BY DEF add
<1>3. /\ DOMAIN ics' = DOMAIN ics \cup {n} /\ ics'[n] = p
      /\ \A i \in DOMAIN ics : ics'[i] = ics[i]
    BY <1>1, <1>2 DEF Put
<1>4. Users(p)' = Users(p) \cup {n} /\ \A q : q # p => Users(q)' = Users(q)
    BY <1>1, <1>3 DEF Users
<1>5. n \notin Users(p)
    BY <1>1 DEF Users
<1>6. \A b \in DOMAIN preedits : preedits[b] # 0
    BY <1>0 DEF TypeOK
<1>7. CASE p = 0
    <2>1. refs' = refs
        BY <1>2, <1>7 DEF AddRef
    <2>2. mode = 1
        BY <1>1, <1>6, <1>7 DEF PreeditOf
    <2>3. preedits' = preedits
        BY <2>2 DEF add
    <2>4. \A q \in DOMAIN refs : q # 0
        BY <1>6 DEF RefsExact
    <2> QED BY <1>3, <1>4, <1>7, <2>1, <2>3, <2>4 DEF RefsExact
<1>8. CASE p # 0 /\ p \in DOMAIN refs
    <2>1. p = preedits[a] /\ a \in DOMAIN preedits /\ mode # 1
        BY <1>1, <1>8 DEF PreeditOf
    <2>2. preedits' = Put(preedits, a, p)
        BY <2>1 DEF add
    <2>3. DOMAIN preedits' = DOMAIN preedits /\ \A b \in DOMAIN preedits : preedits'[b] = preedits[b]
        BY <2>1, <2>2 DEF Put
    <2>4. refs' = Put(refs, p, refs[p] + 1)
        BY <1>2, <1>8 DEF AddRef
    <2>5. /\ DOMAIN refs' = DOMAIN refs /\ refs'[p] = refs[p] + 1
          /\ \A q \in DOMAIN refs : q # p => refs'[q] = refs[q]
        BY <1>8, <2>4 DEF Put
    <2>6. Cardinality(Users(p)') = refs[p] + 1
        BY <1>4, <1>5, <1>8, UsersFinite, FS_AddElement DEF RefsExact
    <2>7. refs[p] \in Nat
        BY <1>8 DEF TypeOK
    <2>8. \A q \in DOMAIN refs' : refs'[q] = Cardinality(Users(q)') /\ refs'[q] > 0
        <3>1. ASSUME NEW q \in DOMAIN refs', q # p
              PROVE  refs'[q] = Cardinality(Users(q)') /\ refs'[q] > 0
            <4>1. Users(q)' = Users(q) /\ refs'[q] = refs[q] /\ q \in DOMAIN refs
                BY <1>4, <2>5, <3>1
            <4> QED BY <4>1 DEF RefsExact
        <3> QED BY <2>5, <2>6, <2>7, <3>1
    <2>9. \A i \in DOMAIN ics' : ics'[i] = 0 \/ ics'[i] \in DOMAIN refs'
        BY <1>3, <1>8, <2>5 DEF RefsExact
    <2>10. DOMAIN refs' = {preedits'[b] : b \in DOMAIN preedits'} /\ IsInjective(preedits')
        BY <2>3, <2>5 DEF RefsExact, IsInjective
    <2> QED BY <2>8, <2>9, <2>10 DEF RefsExact
<1>9. CASE p # 0 /\ p \notin DOMAIN refs
    <2>1. p = n /\ mode # 1 /\ a \notin DOMAIN preedits
        BY <1>9 DEF PreeditOf, RefsExact
    <2>2. preedits' = Put(preedits, a, n)
        BY <2>1 DEF add
    <2>3. /\ DOMAIN preedits' = DOMAIN preedits \cup {a} /\ preedits'[a] = n
          /\ \A b \in DOMAIN preedits : preedits'[b] = preedits[b]
        BY <2>1, <2>2 DEF Put
    <2>4. refs' = Put(refs, n, 1)
        BY <1>2, <1>9, <2>1 DEF AddRef
    <2>5. /\ DOMAIN refs' = DOMAIN refs \cup {n} /\ refs'[n] = 1
          /\ \A q \in DOMAIN refs : refs'[q] = refs[q]
        BY <1>1, <2>4 DEF Put
    <2>6. Users(n)' = {n}
        BY <1>1, <1>4, <2>1 DEF Users
    <2>7. Cardinality(Users(n)') = 1
        BY <2>6, FS_Singleton
    <2>8. ASSUME NEW q \in DOMAIN refs' PROVE refs'[q] = Cardinality(Users(q)') /\ refs'[q] > 0
        <3>1. CASE q = n
            BY <2>5, <2>7, <3>1
        <3>2. CASE q # n
            <4>1. q \in DOMAIN refs /\ refs'[q] = refs[q]
                BY <2>5, <3>2
            <4>2. Users(q)' = Users(q)
                BY <1>4, <2>1, <3>2
            <4> QED BY <4>1, <4>2 DEF RefsExact
        <3> QED BY <3>1, <3>2
    <2>9. \A i \in DOMAIN ics' : ics'[i] = 0 \/ ics'[i] \in DOMAIN refs'
        BY <1>3, <2>1, <2>5 DEF RefsExact
    <2>10. DOMAIN refs' = {preedits'[b] : b \in DOMAIN preedits'}
        BY <2>3, <2>5 DEF RefsExact
    <2>11. IsInjective(preedits')
        BY <1>1, <2>3 DEF RefsExact, IsInjective
    <2> QED BY <2>8, <2>9, <2>10, <2>11 DEF RefsExact
<1> QED BY <1>7, <1>8, <1>9

\* destroy no longer counts the IC, and deletes a preedit with its last user.
LEMMA DestroyRefs ==
    ASSUME TypeOK, RefsExact, NEW i, destroy(i)
    PROVE  RefsExact'
<1>1. CASE ~IsLive(i)
    BY <1>1 DEF destroy, RefsExact, Users
<1>2. CASE IsLive(i)
    <2> PICK p : p = ics[i]
        OBVIOUS
    <2>1. ics' = Restrict(ics, DOMAIN ics \ {i}) /\ releasePreedit(p)
        BY <1>2 DEF destroy
    <2>2. DOMAIN ics' = DOMAIN ics \ {i} /\ \A j \in DOMAIN ics' : ics'[j] = ics[j]
        BY <2>1 DEF Restrict
    <2>3. Users(p)' = Users(p) \ {i} /\ \A q : q # p => Users(q)' = Users(q)
        BY <2>2 DEF Users
    <2>4. i \in Users(p)
        BY <1>2 DEF Users, IsLive
    <2>5. \A q \in DOMAIN refs : q # 0
        BY DEF TypeOK
    <2>6. p = 0 \/ p \in DOMAIN refs
        BY <1>2 DEF RefsExact, IsLive
    <2>7. Cardinality(Users(p)') = Cardinality(Users(p)) - 1
        BY <2>3, <2>4, UsersFinite, FS_RemoveElement
    <2>8. CASE p = 0
        BY <2>1, <2>2, <2>3, <2>5, <2>8 DEF releasePreedit, RefsExact
    <2>9. CASE p # 0 /\ refs[p] > 1
        <3>1. refs' = [refs EXCEPT ![p] = @ - 1] /\ preedits' = preedits
            BY <2>1, <2>9 DEF releasePreedit
        <3>2. p \in DOMAIN refs /\ refs[p] \in Nat
            BY <2>6, <2>9 DEF TypeOK
        <3>3. /\ DOMAIN refs' = DOMAIN refs /\ refs'[p] = refs[p] - 1
              /\ \A q \in DOMAIN refs : q # p => refs'[q] = refs[q]
            BY <3>1, <3>2
        <3>4. \A q \in DOMAIN refs' : refs'[q] = Cardinality(Users(q)') /\ refs'[q] > 0
            BY <2>3, <2>7, <2>9, <3>2, <3>3 DEF RefsExact
        <3> QED BY <2>2, <3>1, <3>3, <3>4 DEF RefsExact
    <2>10. CASE p # 0 /\ refs[p] = 1
        <3>1. /\ refs' = Restrict(refs, DOMAIN refs \ {p})
              /\ preedits' = Restrict(preedits, {a \in DOMAIN preedits : preedits[a] # p})
            BY <2>1, <2>10 DEF releasePreedit
        <3>2. DOMAIN refs' = DOMAIN refs \ {p} /\ \A q \in DOMAIN refs' : refs'[q] = refs[q]
            BY <3>1 DEF Restrict
        <3>3. /\ DOMAIN preedits' = {a \in DOMAIN preedits : preedits[a] # p}
              /\ \A a \in DOMAIN preedits' : preedits'[a] = preedits[a]
            BY <3>1 DEF Restrict
        <3>4. Users(p)' = {}
            <4>1. Cardinality(Users(p)') = 0
                BY <2>6, <2>7, <2>10 DEF RefsExact
            <4>2. IsFiniteSet(Users(p)')
                BY <2>3, UsersFinite, FS_RemoveElement
            <4> QED BY <4>1, <4>2, FS_EmptySet
        <3>5. \A q \in DOMAIN refs' : refs'[q] = Cardinality(Users(q)') /\ refs'[q] > 0
            BY <2>3, <3>2 DEF RefsExact
        <3>6. \A j \in DOMAIN ics' : ics'[j] = 0 \/ ics'[j] \in DOMAIN refs'
            <4>1. \A j \in DOMAIN ics' : ics'[j] # p
                BY <3>4 DEF Users
            <4> QED BY <2>2, <3>2, <4>1 DEF RefsExact
        <3>7. DOMAIN refs' = {preedits'[a] : a \in DOMAIN preedits'}
            BY <3>2, <3>3 DEF RefsExact
        <3>8. IsInjective(preedits')
            BY <3>3 DEF RefsExact, IsInjective
        <3> QED BY <3>5, <3>6, <3>7, <3>8 DEF RefsExact
    <2> QED BY <2>1, <2>8, <2>9, <2>10 DEF releasePreedit
<1> QED BY <1>1, <1>2

\* The refs of every preedit object is the number of ICs that use it, and no IC points
\* to a deleted one, whatever the threads and the applications do.
THEOREM RefsExactHolds == Spec => []RefsExact
<1>1. Init => RefsExact
    BY DEF Init, RefsExact, EmptyMap, IsInjective
<1>2. TypeOK /\ RefsExact /\ [Next]_vars => RefsExact'
    <2> SUFFICES ASSUME TypeOK, RefsExact, [Next]_vars PROVE RefsExact'
        OBVIOUS
    <2>1. ASSUME NEW a \in Apps, CreateIC(a) PROVE RefsExact'
        BY <2>1, AddRefs DEF CreateIC
    <2>2. ASSUME NEW a \in Apps, NEW i \in 1..MaxIc, DestroyIC(a, i) PROVE RefsExact'
        BY <2>2, DestroyRefs DEF DestroyIC
    <2>3. CASE Crash
        BY <2>3 DEF Crash, RefsExact, EmptyMap, IsInjective
    <2>4. CASE UNCHANGED <<icid, ics, preedits, refs, mode, handles, stale>>
        BY <2>4 DEF RefsExact, Users
    <2> QED BY <2>1, <2>2, <2>3, <2>4, WhatChanges
<1> QED BY <1>1, <1>2, TypeCorrect, PTL DEF Spec
-----------------------------------------------------------------------------
\* Which preedit the live ICs of an application have, and which ids were given out.
OwnPreedit ==
    /\ \A a \in Apps : \A i \in handles[a] : i <= icid
    /\ \A a, b \in Apps : a # b => handles[a] \cap handles[b] = {}
    /\ \A a \in Apps : \A i \in handles[a] : IsLive(i) =>
        \/ mode = 1 /\ ics[i] = Default
        \/ mode = 0 /\ a \in DOMAIN preedits /\ ics[i] = preedits[a]

\* add gives a new id and the application's own preedit.
LEMMA AddOwn ==
    ASSUME TypeOK, OwnPreedit, NEW a \in Apps, CreateIC(a)
    PROVE  OwnPreedit'
<1> PICK n, p : n = NewId /\ p = PreeditOf(a)
    OBVIOUS
<1>0. icid \in Nat /\ n = icid + 1 /\ icid' = n /\ mode' = mode
    BY ConstantsAssumption DEF TypeOK, NewId, CreateIC, add
<1>1. \A b \in Apps : \A i \in handles[b] : i <= icid /\ i \in Int
    BY DEF OwnPreedit, TypeOK
<1>2. n \notin DOMAIN ics
    BY <1>0 DEF TypeOK
<1>3. /\ DOMAIN ics' = DOMAIN ics \cup {n} /\ ics'[n] = p
      /\ \A i \in DOMAIN ics : ics'[i] = ics[i]
    BY <1>2 DEF CreateIC, add, Put
<1>4. /\ handles'[a] = handles[a] \cup {n}
      /\ \A b \in Apps : b # a => handles'[b] = handles[b]
    BY DEF CreateIC, TypeOK
<1>5. /\ \A b \in DOMAIN preedits : b \in DOMAIN preedits' /\ preedits'[b] = preedits[b]
      /\ mode = 0 => a \in DOMAIN preedits' /\ p = preedits'[a]
      /\ mode = 1 => p = 0
    <2>1. CASE mode = 1
        BY <2>1 DEF CreateIC, add, PreeditOf
    <2>2. CASE mode # 1
        BY <2>2 DEF CreateIC, add, Put, PreeditOf
    <2> QED BY <2>1, <2>2
<1>6. \A b \in Apps : \A i \in handles'[b] : i <= icid'
    BY <1>0, <1>1, <1>4
<1>7. ASSUME NEW b \in Apps, NEW c \in Apps, b # c PROVE handles'[b] \cap handles'[c] = {}
    <2>1. n \notin handles[b] /\ n \notin handles[c]
        BY <1>0, <1>1
    <2> QED BY <1>4, <1>7, <2>1 DEF OwnPreedit
<1>8. ASSUME NEW b \in Apps, NEW i \in handles'[b], i \in DOMAIN ics'
      PROVE  \/ mode' = 1 /\ ics'[i] = 0
             \/ mode' = 0 /\ b \in DOMAIN preedits' /\ ics'[i] = preedits'[b]
    <2>1. CASE i = n
        <3>1. b = a
            BY <1>0, <1>1, <1>4, <2>1
        <3>2. mode \in {0, 1}
            BY DEF TypeOK
        <3> QED BY <1>0, <1>3, <1>5, <2>1, <3>1, <3>2
    <2>2. CASE i # n
        <3>1. i \in handles[b] /\ i \in DOMAIN ics /\ ics'[i] = ics[i]
            BY <1>3, <1>4, <1>8, <2>2
        <3>2. \/ mode = 1 /\ ics[i] = 0
              \/ mode = 0 /\ b \in DOMAIN preedits /\ ics[i] = preedits[b]
            BY <3>1 DEF OwnPreedit, IsLive
        <3> QED BY <1>0, <1>5, <3>1, <3>2
    <2> QED BY <2>1, <2>2
<1> QED BY <1>6, <1>7, <1>8 DEF OwnPreedit, IsLive

\* destroy takes an application's preedit away only with the last IC that uses it.
LEMMA DestroyOwn ==
    ASSUME TypeOK, RefsExact, OwnPreedit, NEW c \in Apps, NEW k, DestroyIC(c, k)
    PROVE  OwnPreedit'
<1>0. RefsExact' /\ mode' = mode /\ icid' = icid
    BY DestroyRefs DEF DestroyIC
<1>1. \A a \in Apps : handles'[a] \subseteq handles[a]
    BY DEF DestroyIC, TypeOK
<1>2. DOMAIN ics' \subseteq DOMAIN ics /\ \A i \in DOMAIN ics' : ics'[i] = ics[i]
    BY DEF DestroyIC, destroy, Restrict
<1>3. /\ DOMAIN preedits' \subseteq DOMAIN preedits
      /\ \A a \in DOMAIN preedits' : preedits'[a] = preedits[a]
    BY DEF DestroyIC, destroy, releasePreedit, Restrict
<1>4. ASSUME NEW a \in Apps, NEW i \in handles'[a], i \in DOMAIN ics'
      PROVE  \/ mode = 1 /\ ics'[i] = 0
             \/ mode = 0 /\ a \in DOMAIN preedits' /\ ics'[i] = preedits'[a]
    <2>1. CASE mode = 1
        BY <1>1, <1>2, <1>4, <2>1 DEF OwnPreedit, IsLive
    <2>2. CASE mode # 1
        <3>1. mode = 0 /\ a \in DOMAIN preedits /\ ics'[i] = preedits[a]
            BY <1>1, <1>2, <1>4, <2>2 DEF OwnPreedit, IsLive
        <3>2. preedits[a] # 0
            BY <3>1, ConstantsAssumption DEF TypeOK
        <3>3. PICK b \in DOMAIN preedits' : preedits'[b] = preedits[a]
            BY <1>0, <1>4, <3>1, <3>2 DEF RefsExact
        <3>4. b = a
            BY <1>3, <3>1, <3>3 DEF RefsExact, IsInjective
        <3> QED BY <3>1, <3>3, <3>4
    <2> QED BY <2>1, <2>2
<1>5. \A a \in Apps : \A i \in handles'[a] : i <= icid
    BY <1>1 DEF OwnPreedit
<1>6. \A a, b \in Apps : a # b => handles'[a] \cap handles'[b] = {}
    BY <1>1 DEF OwnPreedit
<1> QED BY <1>0, <1>4, <1>5, <1>6 DEF OwnPreedit, IsLive

\* In mode 0 the live ICs of an application share one preedit and those of two
\* applications never do, also when ICs were destroyed with ids from an earlier daemon;
\* in mode 1 all share the default one.
THEOREM OnePreeditPerAppHolds == Spec => []OnePreeditPerApp
<1>1. Init => OwnPreedit
    BY DEF Init, OwnPreedit
<1>2. TypeOK /\ RefsExact /\ OwnPreedit /\ [Next]_vars => OwnPreedit'
    <2> SUFFICES ASSUME TypeOK, RefsExact, OwnPreedit, [Next]_vars PROVE OwnPreedit'
        OBVIOUS
    <2>1. CASE Crash
        BY <2>1 DEF Crash, OwnPreedit
    <2>2. CASE UNCHANGED <<icid, ics, preedits, refs, mode, handles, stale>>
        BY <2>2 DEF OwnPreedit, IsLive
    <2> QED BY <2>1, <2>2, AddOwn, DestroyOwn, WhatChanges
<1>3. TypeOK /\ RefsExact /\ OwnPreedit => OnePreeditPerApp
    BY DEF TypeOK, RefsExact, OwnPreedit, OnePreeditPerApp, IsInjective
<1> QED BY <1>1, <1>2, <1>3, TypeCorrect, RefsExactHolds, PTL DEF Spec
-----------------------------------------------------------------------------
NoneStale == \A a \in Apps : stale[a] = {}

\* When no application keeps ids over a crash, every id that was given out is that of a
\* live IC of that application alone until it is destroyed, and there is no other IC.
THEOREM HandlesAreLiveHolds ==
    ASSUME KeepsIds = {}
    PROVE  Spec => []HandlesAreLive
<1>1. Init => HandlesAreLive /\ NoneStale
    BY DEF Init, HandlesAreLive, NoneStale, EmptyMap
<1>2. TypeOK /\ HandlesAreLive /\ NoneStale /\ [Next]_vars => HandlesAreLive' /\ NoneStale'
    <2> SUFFICES ASSUME TypeOK, HandlesAreLive, NoneStale, [Next]_vars
                 PROVE  HandlesAreLive' /\ NoneStale'
        OBVIOUS
    <2> USE DEF IsLive
    <2>1. ASSUME NEW a \in Apps, CreateIC(a) PROVE HandlesAreLive' /\ NoneStale'
        <3> PICK n : n = NewId
            OBVIOUS
        <3>1. n \notin DOMAIN ics
            BY ConstantsAssumption DEF TypeOK, NewId
        <3>2. \A b \in Apps : n \notin handles[b]
            BY <3>1 DEF HandlesAreLive
        <3>3. DOMAIN ics' = DOMAIN ics \cup {n}
            BY <2>1 DEF CreateIC, add, Put
        <3>4. /\ handles'[a] = handles[a] \cup {n} /\ stale' = stale
              /\ \A b \in Apps : b # a => handles'[b] = handles[b]
            BY <2>1 DEF CreateIC, TypeOK
        <3>5. \A b \in Apps : \A i \in handles'[b] : i \in DOMAIN ics'
            BY <3>3, <3>4 DEF HandlesAreLive
        <3>6. \A b, c \in Apps : b # c => handles'[b] \cap handles'[c] = {}
            BY <3>2, <3>4 DEF HandlesAreLive
        <3>7. DOMAIN ics' = UNION {handles'[b] : b \in Apps}
            BY <3>3, <3>4 DEF HandlesAreLive
        <3> QED BY <3>4, <3>5, <3>6, <3>7 DEF HandlesAreLive, NoneStale
    <2>2. ASSUME NEW a \in Apps, NEW i \in 1..MaxIc, DestroyIC(a, i)
          PROVE  HandlesAreLive' /\ NoneStale'
        <3>1. i \in handles[a] /\ i \in DOMAIN ics
            BY <2>2 DEF DestroyIC, Holds, HandlesAreLive, NoneStale
        <3>2. DOMAIN ics' = DOMAIN ics \ {i}
            BY <2>2, <3>1 DEF DestroyIC, destroy, Restrict
        <3>3. /\ handles'[a] = handles[a] \ {i}
              /\ \A b \in Apps : b # a => handles'[b] = handles[b] /\ i \notin handles[b]
            BY <2>2, <3>1 DEF DestroyIC, TypeOK, HandlesAreLive
        <3>4. \A b \in Apps : \A j \in handles'[b] : j \in DOMAIN ics'
            BY <3>2, <3>3 DEF HandlesAreLive
        <3>5. \A b, c \in Apps : b # c => handles'[b] \cap handles'[c] = {}
            BY <3>3 DEF HandlesAreLive
        <3>6. DOMAIN ics' = UNION {handles'[b] : b \in Apps}
            BY <3>2, <3>3 DEF HandlesAreLive
        <3>7. NoneStale'
            BY <2>2 DEF DestroyIC, NoneStale, TypeOK
        <3> QED BY <3>4, <3>5, <3>6, <3>7 DEF HandlesAreLive
    <2>3. CASE Crash
        BY <2>3 DEF Crash, HandlesAreLive, NoneStale, EmptyMap
    <2>4. CASE UNCHANGED <<icid, ics, preedits, refs, mode, handles, stale>>
        BY <2>4 DEF HandlesAreLive, NoneStale
    <2> QED BY <2>1, <2>2, <2>3, <2>4, WhatChanges
<1> QED BY <1>1, <1>2, TypeCorrect, PTL DEF Spec
=============================================================================
