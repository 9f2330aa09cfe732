-------------------------------- MODULE UserDB --------------------------------
(***************************************************************************)
(* The database of the phrases that the user taught the program: the       *)
(* m_usrPhDB of PY, an IndexTreeWriter without duplicate keys that works   *)
(* on a file, usr ("user_phrase-utf8.imdb"), with a backup of it, ok       *)
(* ("..._ok").  An entry is a key with one byte of data, its priority.     *)
(*                                                                         *)
(* In memory there are the tree of keys, the priorities that were added    *)
(* since the file was read (tmp) and changed priorities that were not yet  *)
(* written into the file (cache).  Every function of PY holds m_phraseCS   *)
(* from its start to its end; a step here is a key that is looked at, or a *)
(* copy of a file, so that the process may die between two of them.        *)
(***************************************************************************)
EXTENDS Integers, Sequences, FiniteSets, SequencesExt

CONSTANTS Phrases,     \* phrases that are learned or chosen
          KeysOf,      \* of each of them, its keys: a pinyin of its first character, and itself
          SysKeys,     \* the keys that the phrase database of the system has
          MaxEntry,    \* MAX_USRDB_ENTRY
          DefaultPri,  \* DEFAULT_PRIORITY
          MaxPri,      \* MAX_PRIORITY
          CacheMax,    \* MAX_CACHE_TH
          FdLimit,     \* descriptors that the process may still open at its start
          MaxData      \* bound on the bytes of data with which a phrase is still learned

Keys == UNION {{KeysOf[p][i] : i \in 1..Len(KeysOf[p])} : p \in Phrases}

\* A key of which another one is the beginning has its node below the other's.
Extends(long, short) == IsStrictPrefix(short, long)

ASSUME KeysAssumption == \A p \in Phrases : KeysOf[p] \in Seq(Keys) /\ KeysOf[p] # <<>>
ASSUME PriAssumption == DefaultPri \in 1..MaxPri /\ MaxPri \in Nat
ASSUME BoundAssumption ==
    MaxEntry \in Nat /\ CacheMax \in Nat /\ FdLimit \in Nat /\ MaxData \in Nat

VARIABLES
    usr, ok,   \* the two files
    locs,      \* the keys in m_indexTree, and the locations of their priorities
    zero,      \* those that have a zero node, the child that says "this is a key too"
    dataLen,   \* m_inxDataLen
    inx,       \* the data area of m_inxFile: of the file usr, or of a scratch file
    open,      \* m_inxFile is usr
    tmp,       \* m_dataTmpFile
    cache,     \* m_updateCache
    total,     \* m_totalEntry
    dirty,     \* m_bDirty
    pc,        \* "off", or what the one that holds m_phraseCS does; "run": nobody does
    back,      \* where write() returns to
    out,       \* the file that write() copies over usr
    todo,      \* keys that addToUsrDB or onCommit still has to do
    pri,       \* the priority that onCommit stores
    updated,   \* its local update
    fds,       \* descriptors that the process may still open
    forgot,    \* since its start, it dropped keys or failed to copy a file
    stale      \* since its start, it emptied the tree but not the cache

files  == <<usr, ok>>
tree   == <<locs, zero, dataLen, tmp, total>>
memory == <<tree, inx, open, cache>>
local  == <<todo, pri, updated>>
ghosts == <<forgot, stale>>
vars == <<files, memory, dirty, pc, back, out, local, fds, ghosts>>

Empty == [k \in {} |-> 0]

\* A file that does not exist, one whose copy was not finished, and a database:
\* f_size says how long data was when the header was written.
NoFile == [kind |-> "none", locs |-> Empty, data |-> <<>>, f_size |-> 0, total |-> 0]
Part   == [NoFile EXCEPT !.kind = "part"]
Database(l, d, t) == [kind |-> "db", locs |-> l, data |-> d, f_size |-> Len(d), total |-> t]

\* IndexTree::load compares the length of the file with its header.
Loadable(f) == f.kind = "db" /\ f.f_size = Len(f.data)

Init ==
    /\ usr = NoFile /\ ok = NoFile
    /\ locs = Empty /\ zero = {} /\ dataLen = 0 /\ tmp = <<>> /\ total = 0
    /\ inx = <<>> /\ open = FALSE /\ cache = Empty /\ dirty = FALSE
    /\ pc = "off" /\ back = "run" /\ out = NoFile
    /\ todo = <<>> /\ pri = DefaultPri /\ updated = FALSE
    /\ fds = FdLimit
    /\ forgot = FALSE /\ stale = FALSE
-----------------------------------------------------------------------------
(* X_Bug is X with a plausible bug: the checks are repeated with each in the  *)
(* place of X, to see that they can fail.                                    *)

\* The tree as it is read from a file: each key with children has its zero node.
Loaded(f) ==
    /\ locs' = f.locs
    /\ zero' = {k \in DOMAIN f.locs : \E x \in DOMAIN f.locs : Extends(x, k)}
    /\ dataLen' = Len(f.data) /\ inx' = f.data /\ open' = TRUE
    /\ tmp' = <<>> /\ total' = f.total

\* open(): nothing in the tree, and a scratch file.
Fresh ==
    /\ locs' = Empty /\ zero' = {} /\ dataLen' = 0 /\ inx' = <<>> /\ open' = FALSE
    /\ tmp' = <<>> /\ total' = 0

Load(f) == IF Loadable(f) THEN Loaded(f) ELSE Fresh

\* lookup does not find a key that has children but no zero node.
Visible(k) == k \in DOMAIN locs /\ (k \in zero \/ \A x \in DOMAIN locs : ~Extends(x, k))

\* dataitem
Value_Uncached(k) ==
    LET l == locs[k] IN
    IF l < dataLen THEN inx[l + 1] ELSE tmp[l - dataLen + 1]
Value(k) ==
    LET l == locs[k] IN
    IF l >= dataLen THEN tmp[l - dataLen + 1]
    ELSE IF l \in DOMAIN cache THEN cache[l] ELSE inx[l + 1]

\* The data area after sync wrote the priorities c into it; past its end are zeros.
WithCache(c) ==
    [i \in 1..Len(inx) \cup UNION {1..(l + 1) : l \in DOMAIN c} |->
        IF i - 1 \in DOMAIN c THEN c[i - 1] ELSE IF i \in 1..Len(inx) THEN inx[i] ELSE 0]

\* fwrite to m_inxFile.
InPlace(d) ==
    /\ inx' = d
    /\ usr' = IF open THEN [usr EXCEPT !.data = d] ELSE usr

\* IndexTreeWriter::update of a key that lookup finds.
Update(k, p) ==
    LET l == locs[k]
        c == [x \in DOMAIN cache \cup {l} |-> IF x = l THEN p ELSE cache[x]] IN
    IF l >= dataLen
    THEN tmp' = [tmp EXCEPT ![l - dataLen + 1] = p] /\ UNCHANGED <<cache, inx, usr>>
    ELSE IF Cardinality(DOMAIN c) > CacheMax
         THEN InPlace(WithCache(c)) /\ cache' = Empty /\ UNCHANGED tmp
         ELSE cache' = c /\ UNCHANGED <<tmp, inx, usr>>

Add_NoBase(k) ==
    /\ locs' = [x \in DOMAIN locs \cup {k} |-> IF x \in DOMAIN locs THEN locs[x] ELSE Len(tmp)]
    /\ tmp' = Append(tmp, DefaultPri)
    /\ total' = total + 1 /\ dirty' = TRUE
    /\ UNCHANGED <<zero, dataLen>>
\* IndexTreeWriter::add.  A key that the tree has is ignored, after its data was
\* appended and the entry counted.
Add(k) ==
    /\ locs' = [x \in DOMAIN locs \cup {k} |->
                    IF x \in DOMAIN locs THEN locs[x] ELSE dataLen + Len(tmp)]
    /\ tmp' = Append(tmp, DefaultPri)
    /\ total' = total + 1 /\ dirty' = TRUE
    /\ UNCHANGED <<zero, dataLen>>

Merged_NoZeroNodes(l, d, t, n) ==
    Database([k \in {x \in DOMAIN l : \A y \in DOMAIN l : ~Extends(y, x)} |-> l[k]], d \o t, n)
Merged_HeaderFirst(l, d, t, n) == [Database(l, d \o t, n) EXCEPT !.f_size = Len(d)]
\* What write() puts together in /tmp: tree l, the data d of m_inxFile and t of tmp.
Merged(l, d, t, n) == Database(l, d \o t, n)

\* write() until the copy, when fds descriptors are free.  It opens one file before it
\* looks at m_bDirty, and forgets it if there is nothing to do or no second one.  With
\* less than two nothing is saved any more, and one or none makes no difference.
BeginWrite(isDirty, file, to) ==
    \/ /\ fds >= 2 /\ isDirty
       /\ pc' = "save" /\ back' = to /\ out' = file /\ UNCHANGED fds
    \/ /\ fds >= 2 /\ ~isDirty
       /\ pc' = to /\ fds' = fds - 1 /\ UNCHANGED <<back, out>>
    \/ /\ fds < 2
       /\ pc' = to /\ UNCHANGED <<fds, back, out>>
-----------------------------------------------------------------------------
(* PY::initialization *)

Start_BacksUpAnything ==
    /\ pc = "off"
    /\ Load(usr) /\ pc' = "backup"
    /\ fds' = FdLimit /\ cache' = Empty /\ dirty' = FALSE
    /\ UNCHANGED <<files, back, out, local, ghosts>>
Start ==
    /\ pc = "off"
    /\ Load(usr)
    /\ pc' = IF Loadable(usr) THEN "backup" ELSE IF ok.kind # "none" THEN "restore" ELSE "run"
    /\ IF pc' = "run" THEN /\ usr' = NoFile /\ ok' = NoFile
                           /\ forgot' = FALSE /\ stale' = FALSE
                      ELSE UNCHANGED <<files, forgot, stale>>
    /\ fds' = FdLimit /\ cache' = Empty /\ dirty' = FALSE
    /\ UNCHANGED <<back, out, local>>

BackupDone ==
    /\ pc = "backup"
    /\ ok' = usr
    /\ pc' = "run" /\ forgot' = FALSE /\ stale' = FALSE
    /\ UNCHANGED <<usr, memory, dirty, back, out, local, fds>>

RestoreDone_KeepsFile ==
    /\ pc = "restore"
    /\ Load(ok)
    /\ pc' = "run" /\ forgot' = FALSE /\ stale' = FALSE
    /\ UNCHANGED <<files, cache, dirty, back, out, local, fds>>
RestoreDone ==
    /\ pc = "restore"
    /\ IF Loadable(ok) THEN usr' = ok /\ ok' = ok ELSE usr' = NoFile /\ ok' = NoFile
    /\ Load(ok)
    /\ pc' = "run" /\ forgot' = FALSE /\ stale' = FALSE
    /\ UNCHANGED <<cache, dirty, back, out, local, fds>>
-----------------------------------------------------------------------------
(* PY::addUserPhrase, on an executor of the task manager. *)

NeedsCleanup == total > MaxEntry
CanLearn == pc = "run" /\ Len(inx) + Len(tmp) <= MaxData

\* getIndexList lists the keys that lookup finds.
Listed == {k \in DOMAIN locs : Visible(k)}
Keep == MaxEntry \div 2

EntriesKept_NotReset == total + Keep
\* m_totalEntry after clear() and the additions.
EntriesKept == Keep

\* The first Keep of the keys, those of the highest priorities; among equal ones any, for
\* the order of the tree.
IsBest(order) ==
    /\ \A i, j \in 1..Keep : i # j => order[i] # order[j]
    /\ \A i \in 1..Keep, k \in Listed :
           Value(k) > Value(order[i]) => \E j \in 1..(i - 1) : order[j] = k

Learn(p) ==
    /\ CanLearn /\ ~NeedsCleanup
    /\ pc' = "learn" /\ todo' = KeysOf[p]
    /\ UNCHANGED <<files, memory, dirty, back, out, pri, updated, fds, ghosts>>

\* The tree and tmp are emptied and filled again with the best keys; then write().
\* m_updateCache stays as it is, with locations of the old file.
Cleanup(p) ==
    /\ CanLearn /\ NeedsCleanup
    /\ \E order \in [1..Keep -> Listed] :
           /\ IsBest(order)
           /\ locs' = [k \in {order[i] : i \in 1..Keep} |->
                           (CHOOSE i \in 1..Keep : order[i] = k) - 1]
           /\ tmp' = [i \in 1..Keep |-> Value(order[i])]
    /\ zero' = {} /\ dataLen' = 0 /\ inx' = <<>> /\ open' = FALSE
    /\ total' = EntriesKept /\ dirty' = (Keep > 0 \/ dirty)
    /\ BeginWrite(dirty', Merged(locs', <<>>, tmp', total'), "learn")
    /\ todo' = KeysOf[p]
    /\ forgot' = TRUE /\ stale' = (stale \/ cache # Empty)
    /\ UNCHANGED <<files, cache, pri, updated>>

\* If the list is shorter than that, its end is passed: the process dies, at best.
Die ==
    /\ pc' = "off"
    /\ locs' = Empty /\ zero' = {} /\ dataLen' = 0 /\ inx' = <<>> /\ open' = FALSE
    /\ tmp' = <<>> /\ total' = 0 /\ cache' = Empty /\ dirty' = FALSE
    /\ back' = "run" /\ out' = NoFile
    /\ todo' = <<>> /\ pri' = DefaultPri /\ updated' = FALSE
    /\ fds' = FdLimit

CleanupPastEnd ==
    /\ CanLearn /\ NeedsCleanup /\ Cardinality(Listed) < Keep
    /\ Die
    /\ UNCHANGED <<files, ghosts>>

\* A reading of the phrase: one more for a key that is found, or a new key.
LearnKey ==
    /\ pc = "learn"
    /\ LET k == Head(todo) IN
       IF Visible(k)
       THEN /\ IF Value(k) < MaxPri THEN Update(k, Value(k) + 1)
                                    ELSE UNCHANGED <<tmp, cache, inx, usr>>
            /\ UNCHANGED <<locs, zero, dataLen, total, dirty>>
       ELSE /\ IF k \in SysKeys THEN UNCHANGED <<tree, dirty>> ELSE Add(k)
            /\ UNCHANGED <<cache, inx, usr>>
    /\ todo' = Tail(todo)
    /\ pc' = IF Len(todo) = 1 THEN "run" ELSE "learn"
    /\ UNCHANGED <<ok, open, back, out, pri, updated, fds, ghosts>>
-----------------------------------------------------------------------------
(* PY::onCommit, on the thread of the key. *)

NextPri_Wraps(v) == v + 1
NextPri(v) == IF v < MaxPri THEN v + 1 ELSE MaxPri

\* v is the priority that the item had when it was looked up.
OnCommit(p, v) ==
    /\ pc = "run"
    /\ pc' = "commit" /\ todo' = KeysOf[p] /\ pri' = NextPri(v) /\ updated' = FALSE
    /\ UNCHANGED <<files, memory, dirty, back, out, fds, ghosts>>

CommitKey ==
    /\ pc = "commit" /\ todo # <<>>
    /\ LET k == Head(todo) IN
       /\ IF Visible(k) THEN Update(k, pri) ELSE UNCHANGED <<tmp, cache, inx, usr>>
       /\ updated' = (updated \/ Visible(k) \/ k \in SysKeys)
    /\ todo' = Tail(todo)
    /\ UNCHANGED <<ok, locs, zero, dataLen, total, open, dirty, pc, back, out, pri, fds, ghosts>>

CommitEnd ==
    /\ pc = "commit" /\ todo = <<>>
    /\ pc' = "run" /\ pri' = DefaultPri /\ updated' = FALSE
    /\ UNCHANGED <<files, memory, dirty, back, out, todo, fds, ghosts>>

Older(v) == IF v > 1 THEN v - 1 ELSE v

\* Each REFRESH_PRIORITY_TH commits, here at any of them: decreasePhrasePriority.
CommitAges ==
    /\ pc = "commit" /\ todo = <<>> /\ updated
    /\ LET d == WithCache(cache) IN
       InPlace([i \in DOMAIN d |-> IF i <= dataLen THEN Older(d[i]) ELSE d[i]])
    /\ tmp' = [i \in DOMAIN tmp |-> Older(tmp[i])]
    /\ cache' = Empty
    /\ pc' = "run" /\ pri' = DefaultPri /\ updated' = FALSE
    /\ UNCHANGED <<ok, locs, zero, dataLen, total, open, dirty, back, out, todo, fds, ghosts>>
-----------------------------------------------------------------------------
(* syncUserPhrases, every minute and at the end: sync, then write. *)

Sync(to) ==
    /\ pc = "run"
    /\ InPlace(WithCache(cache)) /\ cache' = Empty
    /\ BeginWrite(dirty, Merged(locs, inx', tmp, total), to)
    /\ UNCHANGED <<ok, tree, open, dirty, local, ghosts>>

SyncJob == Sync("run")
Quit == Sync("off")

SaveDone_KeepsDirty ==
    /\ pc = "save"
    /\ usr' = out /\ Load(out)
    /\ pc' = back /\ back' = "run" /\ out' = NoFile
    /\ UNCHANGED <<ok, cache, dirty, local, fds, ghosts>>
\* copy_file is done, and the new file is loaded.
SaveDone ==
    /\ pc = "save"
    /\ usr' = out /\ dirty' = FALSE /\ Load(out)
    /\ pc' = back /\ back' = "run" /\ out' = NoFile
    /\ UNCHANGED <<ok, cache, local, fds, ghosts>>

\* copy_file throws, usr being cut short: load fails, keeps the file open, and starts
\* with an empty tree, which m_bDirty says must be saved.
SaveFail ==
    /\ pc = "save"
    /\ usr' = Part /\ Fresh
    /\ pc' = back /\ back' = "run" /\ out' = NoFile
    /\ fds' = fds - 1 /\ forgot' = TRUE
    /\ UNCHANGED <<ok, cache, dirty, local, stale>>

\* The process dies, in the middle of a copy if it makes one.  What stdio and the cache
\* hold is lost; what was written stays.
Crash ==
    /\ pc # "off"
    /\ usr' \in IF pc \in {"save", "restore"} THEN {usr, Part} ELSE {usr}
    /\ ok' \in IF pc = "backup" THEN {ok, Part} ELSE {ok}
    /\ Die
    /\ UNCHANGED <<forgot, stale>>

Saving == SaveDone \/ SaveFail

Next ==
    \/ Start \/ BackupDone \/ RestoreDone
    \/ \E p \in Phrases : Learn(p) \/ Cleanup(p)
    \/ CleanupPastEnd \/ LearnKey
    \/ \E p \in Phrases, v \in 1..MaxPri : OnCommit(p, v)
    \/ CommitKey \/ CommitEnd \/ CommitAges
    \/ SyncJob \/ Quit \/ Saving
    \/ Crash

Spec == Init /\ [][Next]_vars

\* What follows, whoever holds m_phraseCS, unless he copies a file over usr.
GoesOn == LearnKey \/ CommitKey \/ CommitEnd \/ CommitAges \/ BackupDone \/ RestoreDone

\* The minute's job runs again and again and is not starved of m_phraseCS, and who has
\* begun to save, to learn or to commit goes on.  The disk is not full for ever.
Fairness == SF_vars(SyncJob) /\ SF_vars(SaveDone) /\ WF_vars(GoesOn)

FairSpec == Spec /\ Fairness
-----------------------------------------------------------------------------
Bytes == 0..MaxPri
IsTree(l) == DOMAIN l \subseteq Keys /\ l \in [DOMAIN l -> Nat]
IsFile(f) ==
    /\ f = [kind |-> f.kind, locs |-> f.locs, data |-> f.data, f_size |-> f.f_size,
            total |-> f.total]
    /\ f.kind \in {"none", "part", "db"} /\ IsTree(f.locs)
    /\ f.data \in Seq(Bytes) /\ f.f_size \in Nat /\ f.total \in Nat

\* The type of every variable of UserDB.
TypeOK ==
    /\ IsFile(usr) /\ IsFile(ok) /\ IsFile(out)
    /\ IsTree(locs) /\ zero \subseteq Keys /\ total \in Nat
    /\ dataLen \in Nat /\ inx \in Seq(Bytes) /\ tmp \in Seq(Bytes)
    /\ DOMAIN cache \subseteq Nat /\ cache \in [DOMAIN cache -> Bytes]
    /\ open \in BOOLEAN /\ dirty \in BOOLEAN
    /\ pc \in {"off", "backup", "restore", "run", "save", "learn", "commit"}
    /\ back \in {"run", "learn", "off"}
    /\ todo \in Seq(Keys) /\ pri \in 1..MaxPri /\ updated \in BOOLEAN
    /\ fds \in 0..FdLimit
    /\ forgot \in BOOLEAN /\ stale \in BOOLEAN

\* Whatever copy is interrupted or fails, one of the two files can be loaded at the
\* next start, once there was a backup (PY.cpp:51-73).
BackupGood == ok.kind # "none" => Loadable(ok) \/ Loadable(usr)

\* Where the priorities of a tree are: each key has a place of its own, in the data.
OwnPlaces(l, len) ==
    /\ \A k \in DOMAIN l : l[k] < len
    /\ \A j, k \in DOMAIN l : l[j] = l[k] => j = k

\* Two keys never share a byte, nor does one lie past the end, in memory or in a file,
\* although keys that are added twice leave bytes behind (IndexTreeWriter.cpp:106).
NoAlias ==
    /\ OwnPlaces(locs, dataLen + Len(tmp))
    /\ \A f \in {usr, ok, out} : f.kind = "db" => OwnPlaces(f.locs, Len(f.data))

\* update and sync write into the file in place, and never past its end: its length is
\* what its header says, or the next start would drop the file (IndexTree.cpp:74).  The
\* exception is a cleanup with priorities in m_updateCache (PY.cpp:690).
FileExact == usr.kind = "db" /\ ~stale => Loadable(usr)

\* The backup has no key that the file lost, and the file none that the memory lost,
\* unless there was a cleanup (PY.cpp:686) or a copy that failed.
NothingForgotten ==
    ~forgot =>
        /\ Loadable(ok) /\ Loadable(usr) => DOMAIN ok.locs \subseteq DOMAIN usr.locs
        /\ pc \notin {"off", "restore"} /\ usr.kind = "db" => DOMAIN usr.locs \subseteq DOMAIN locs

\* The cleanup comes in time: the database is never larger than MAX_USRDB_ENTRY and the
\* readings of a phrase, and m_totalEntry counts each key at least once.
Capacity ==
    pc # "off" =>
        /\ total <= MaxEntry \/ \E p \in Phrases : total <= MaxEntry + Len(KeysOf[p])
        /\ Cardinality(DOMAIN locs) <= total

\* Only a commit, a lesson or the aging changes the priority of a key, and a commit or
\* a lesson that of its own key only: it survives the cache, sync, write and load.
\* The exception is again a cleanup with priorities in m_updateCache.
KeepsValues ==
    \A k \in DOMAIN locs \cap DOMAIN locs' :
        pc # "off" /\ ~stale' /\ Value(k)' # Value(k) =>
            \/ pc \in {"learn", "commit"} /\ todo # <<>> /\ k = Head(todo)
            \/ pc = "commit" /\ todo = <<>>
ValuesKept == [][KeepsValues]_vars

\* What the database is to those who use it.  A file has a map if it can be loaded.
InUse  == ~stale /\ pc \notin {"off", "backup", "restore"}
Known  == IF InUse THEN [k \in DOMAIN locs |-> Value(k)] ELSE Empty
Content(f) == [k \in DOMAIN f.locs |-> f.data[f.locs[k] + 1]]
MapsOf(f)  == IF ~stale /\ Loadable(f) THEN {Content(f)} ELSE {}

Promise == INSTANCE PhraseStore WITH
    up <- InUse, known <- Known, saved <- MapsOf(usr), backup <- MapsOf(ok), muddled <- stale

\* Through the cache, the data of the two places, write in three steps, deaths and
\* copies that fail, the database is a map that is saved and found again (PhraseStore).
IsPhraseStore == Promise!Spec

\* What was learned is saved, although a copy may fail, as long as the process has
\* descriptors for the files of write() (IndexTreeWriter.cpp:239-253).
SavedUnlessStuck == []<>(~dirty \/ fds < 2 \/ pc = "off")
=============================================================================
