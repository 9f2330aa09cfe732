# AlphaIM in TLA+

AlphaIM is a pinyin input method: a daemon (`src/src`) that turns keys into
Chinese text, client modules for GTK and Qt that talk to it over D-Bus, an XIM
server for X clients, and a tray program. These modules model the daemon's
logic. TLC checks them on small instances, TLAPS proves the central invariants
for every value of the constants. `PROJECT.json` lists the runs, the mutants
(each property is also checked to fail on a plausible bug), the source lines of
every definition, the findings, the hazards and the theorems.

## 1. The system

| Part | State | Operations | Talks to |
| --- | --- | --- | --- |
| Task manager (`TaskManager.cpp`) | queue of tasks by start time, the one task handed over, `m_bRunning` | `addTask`, `deleteTask`, `Task::abort`, `stop`; threads `schedule`, `execute` | any thread adds tasks: `SlowJob` (every minute: save user phrases and configuration), `PY::addUserPhraseAsync` |
| Condition variable (`ThdCond.cpp`) | waiting threads, `m_unblock` | `waitEvent`, `setEvent`, `unblockAll`, `consume`, `produce` | used by the task manager and the message queue |
| Message queue, SysMessager | list of messages, the thread's `m_reqAbort` | `push`, `pop`, `stop` | pushed to by the D-Bus and XIM threads, sent out to the tray over D-Bus |
| Input context registry (`IC.cpp`) | ICs by id, preedit objects by application and their `refs`, the focused id, the mode | `add`, `get`, `destroy`, `focusIn`, `focusOut`, tray messages | D-Bus thread, XIM thread |
| Preedit (`IMPreedit.cpp`, `X11IMPreedit.cpp`) | input, selected text, items, pages, modes | one per key | pinyin engine, tray (through the queue), client (commit) |
| Pinyin engine (`PY.cpp`, `UsrPhrase.cpp`) | phrase databases, caches, user phrases to be saved | `lookup`, `onCommit`, `addUserPhrase`, `syncUserPhrases` | preedit, task manager, index tree |
| Index tree (`lib/indextree`) | file and in-memory additions | `add`, `write`, `load`, `lookup` | pinyin engine |
| D-Bus service (`DBusDaemon.cpp`, `DBusICSrv.cpp`) | the connection | requests, signals `CommitText`, `Message` | clients, tray |
| XIM server (`protocol/xim`) | time of the last event | XIM requests, forwarded events | X clients |
| Clients (`protocol/gtk`, `protocol/qt`) | their ids, focus, pending key | key filter, focus, reconnect | D-Bus service |
| Configuration, tray, logging, parsing | settings and a dirty flag; windows | setters, `writeXml` | all |

What is hard here: the main thread (XIM), the D-Bus thread, SysMessager, the
scheduler and two executors share these objects, with locks that cover some of
the accesses only; condition variables do not remember events; the daemon may
die while clients go on with what they hold; and a composition is a long-lived
state that some thirty keys change in any order. What makes each part correct:

- *Task manager*: a task object has one owner; no task runs early, out of order,
  twice or never.
- *Message queue*: every message is handled once, in order; the thread can be
  stopped.
- *Registry*: an object exists as long as it is referred to; applications do
  not see each other's contexts.
- *Preedit*: what is shown is what a key selects; letters are neither lost nor
  doubled until they are committed.
- *Engine, index tree, configuration*: what was learned or set survives, in the
  file and in memory.
- *Clients*: a key is handled once; a commit reaches the context it was typed in.

## 2. The modules

| Module | Models | Checked by | Proved in |
| --- | --- | --- | --- |
| `ThdCond` | the condition variable, instantiated by the two below | through them | through them |
| `Timer` | what a task manager promises (abstract) | as a property of the next one | |
| `TaskManager` | scheduler, executors, callers | `MCTaskManager`, three runs | `TaskManagerProofs` |
| `ICManager` | registry, its D-Bus and XIM threads, crashes | `MCICManager`, two runs | `ICManagerProofs` |
| `Preedit` | one preedit and its keys | `MCPreedit`, three runs | `PreeditProofs` |
| `Mailbox` | what a message queue promises (abstract) | as a property of the next one | |
| `MessageQueue` | queue, its two locks, SysMessager | `MCMessageQueue`, one run | `MessageQueueProofs` |
| `PhraseStore` | what a database of phrases promises (abstract) | as a property of the next one | |
| `UserDB` | the database of learned phrases, its backup, deaths and failed copies | `MCUserDB`, one run | `UserDBProofs` |
| `KeyEvents` | a key from the GTK module through the D-Bus thread to a text; focus, tray, lost replies | `MCKeyEvents`, two runs | `KeyEventsProofs` |
| `SeqLemmas` | lemmas about sequences, their concatenation, and finite sets of numbers, for the proofs | | itself |

In each module a comment names the variable of the program behind each
variable, an action is named for the function or the step of a loop that it
models, and definitions `X_Bug` are plausible bugs, used by the mutants only.

**Grain.** In `TaskManager` and `MessageQueue` a thread's label is the place
where it next touches shared state, and what happens under one lock is one
step. So the gap between `getTaskNumber()` and `waitEvent()`
(`TaskManager.cpp:240-241`), or between `canConsume` and the wait, is there. In
`ICManager`, `add`, `get` and `destroy` are one step each (they hold `m_cs`);
following the `IC*` that `get` returned, and reading and writing `m_icFocus`,
are steps of their own. In `Preedit` a whole key is one step: without mode 1
one thread serves a preedit object.

**`TaskManager`.** Start times are relative to the clock. A task's state
(`obj`) says whether the C++ object exists, so that use after delete and leaks
are visible. `front()` of an empty list and what follows is the step to
`"crashed"`, which ends all threads. `addTask` takes its time stamp before the
lock: the delay that is left when it has the lock is any number up to the one
asked for. `stop`, `deleteTask` and spurious wake-ups can be switched off,
because two properties hold only without them and the daemon calls neither
function. `Timer` is what is left for a caller: a task waits, is out, is an
executor's, has begun, waits again or is gone. The mapping takes `taskQueue` for the
tasks that wait, the hand of
`schedule()` and `m_curTask` together for the one that is out (`Taken`), and the
executors past the check of `m_bAborted` for those that have begun. It is
closed by the first step of `stop()` and by the crash: afterwards `m_curTask` and
the queue may be read as they are deleted, and nothing is promised.

**`ICManager`.** `handles` and `stale` are the clients' side: the ids they hold
from this daemon process, and from one that died (`KeepsIds`: the GTK module
does, the Qt plug-in does not, an X client loses its connection).

**`Preedit`.** A letter is one with which a pinyin can start, or not; an item
is the number of letters that it stands for and the width of its text;
`Results` is the set of answers of the lookup, any of which may come at any
time, because the user's phrases change the answer. `m_ci` is kept as the
letters behind its pieces; so a text that is lost is a word missing from `out`.
Reading `m_items` past its end has all outcomes that an old item, fresh memory
or a fault can produce. The quotation marks that alternate, and the candidate
string itself, are left out.

**`MessageQueue` and `Mailbox`.** The refinement mapping of `Mailbox` puts the
message being processed back at the front of the queue; the box is open until
the thread ended.

**`UserDB`.** One `m_phraseCS` serializes everything, so the interleaving that
matters is that of the functions with the death of the process, which may come
between two keys and in the middle of every copy. A file is a tree of keys with
the places of their priorities, the priorities, and the length that the header
gives; `load` compares the two. `locs`, `zero`, `tmp` and `cache` are
`m_indexTree` (with the zero nodes that make the beginning of another key
visible), `m_dataTmpFile` and `m_updateCache`. `pc` says what the holder of the
lock is doing; a phrase is learned or committed key by key. When the process
dies, what stdio and the cache hold is lost and what was written stays: a
failure of power, where the order of the writes matters, is not modelled, for
the code calls no `fsync`. What happens after a read past the end of the
cleanup's list is undefined; the model takes the death of the process. The
counter that triggers the aging of priorities is left out: any commit may age.
Two variables remember what excuses the code's exceptions:
- `forgot`: a cleanup, or a copy that failed. After the latter the memory is
  empty and still dirty, so the next minute writes an empty database over the
  file, and the next start copies that over the backup.
- `stale`: a cleanup while `m_updateCache` had entries. They are of the old
  file; the next `sync` writes them over other priorities, or past the end of
  the file, which the next start then rejects and replaces by the backup.

`PhraseStore` is the same database for those who learn, commit and type: a map
of keys to priorities (`known`), and the maps in the file and in its backup, if
they can be loaded. The mapping reads a priority as `dataitem` does, from `tmp`,
`cache` or the file; an in-place write must then put all changed priorities into
the file's map at once, `SaveDone` must not change what is known, and the start
takes what is saved, or else the backup, or else there was neither. While `stale`
is set nothing is promised (`muddled`), up to the next start.

Three things are as in the code, and no property says otherwise: a key with
longer keys below it but no zero node is not found until the next save, so it
may be added, and counted, twice; `write()` loses a descriptor each time it is
called and has nothing to do, once a minute (with the usual limit of 1024, after
17 hours nothing is saved any more); the first session makes no backup.

**`KeyEvents`.** A press and a release are two requests. `handleKey` answers
the press with `imWants` and does nothing; `doHandleKey` acts at the release.
The GTK module gives a press that is not wanted to the widget, asks only while
`g_im_active` is set, and learns of the preedit's state from the replies. Each
process waits in one call at a time; the D-Bus thread takes one request after
another from `inbox`, which may go on after the client stopped waiting (`late`).
`CommitText` reaches each process at a time of its own (`left`), and every
context there looks at `g_ic_focus`. Of the preedit it has what keys are told
apart by: on, Chinese, Chinese punctuation, something composed, `m_preModKey`.
What a key does to it is any of the outcomes that `Preedit` has for that class
of keys. `Reset` does nothing in the daemon (`IMPreedit.cpp:228`) and is left
out, like the press of Shift. The other side of the interface, what the user
sees, is in `held` (what became of each press that has no release yet, `void`
if the state changed since), `behind` (a process that no reply told of the last
change: after a tray click or a lost reply), `stolen` (`add()` set `m_icFocus`
before the new context had the focus) and `chorded` (the processes whose
preedit saw a key released since Shift went down; it belongs to one hold of
Shift and is counted in the order of the requests, as the daemon sees them).

## 3. The runs

| Run | Instance | What it shows |
| --- | --- | --- |
| `task_safety` | 2 tasks (1 repeating), 2 executors, delays 0-1, stop, delete, spurious wake-ups; 450,000 states | implements `Timer`; one owner, never early, earliest first, handed over once |
| `task_live` | 2 tasks, 1 executor, stop; 73,000 states | the front exists; a task that is handed over is taken; a picked one is handed over; every queued task is served as long as tasks keep coming; stop releases the threads that were blocked |
| `task_lost` (violation) | as before | a task that is added just before the wait is not scheduled (finding 1) |
| `ic` | 2 D-Bus applications, 1 XIM client, 4 ICs, crashes; 185,000 states | exact reference counts, sharing of preedits, ids that are alive |
| `ic_stale` (violation) | 2 applications that keep their ids, 2 ICs | an id from before a crash is another client's (finding 2) |
| `preedit` | inputs up to 3 letters, compositions up to 4, four kinds of lookup result, real page width; 47,000 states | composing means input, exact pages, nine keys suffice, text is kept |
| `preedit_digit` (violation) | as before | the item that ends a composition drops the letters before it (finding 3) |
| `preedit_window` (violation) | as before | the window keeps items of an older lookup (finding 4) |
| `userdb` | 2 phrases, one the beginning of the other and with two readings; 3 keys, cache of 1 entry, cleanup above 4, 2 priorities, 3 descriptors, deaths and failed copies at any time; 704,000 states | implements `PhraseStore`; one of the two files is always good; keys and priorities survive the cache, save and load; places are exact; the size has its bound; what was learned is saved while there are descriptors |
| `keyevents` | 2 processes with one context each, the user types in one; letters, digits (with Shift punctuation), `ForwardKeys` and Shift, 2 keys down, 2 requests or texts under way, 1 lost reply or click, both modes; 1,050,000 states | processes know the state, the focus settles, keys are taken once, text arrives once, chords do not switch |
| `keyevents_once` (violation) | as before, with Space | a key with Shift is taken twice (finding 5) |
| `message_queue` | 2 pushing threads, 3 messages each, stop; 79,000 states | implements `Mailbox`, no lost wake-up, every message handled, stop returns |

**Bounds.** Two tasks are enough for one to be queued while the other is
handed over or run, two executors for one to miss an event that the other gets
(liveness has one, which is the harder case for a missed event); a delay of one
tick separates due from not due. Four ICs let two applications have two each,
and every id be created after another was destroyed. In `Preedit` inputs of
three letters have a leading non-pinyin letter, an item and a rest; four
letters in all let `IM_INPUT_MAX` (here 3) be hit with text already selected;
the lookup results give one page, several pages, and a page of eight items,
the most that fit. Three messages of each thread let one be queued, one in hand
and one handled. The named bounds are `MaxDelay`, `MaxIc`, `InputMax` (a
constant of the code, 40), `MaxText`, `MaxPush`; in `UserDB` `MaxData` (the
bytes of data with which a phrase is still learned) and the code's own limits
made small, `MaxEntry`, `CacheMax`, `MaxPri`, `FdLimit`: a cache of one makes the
second update write in place, four entries are one less than it takes to have
keys counted twice and a cleanup, and two phrases of which one begins with the
other are enough for a key to lose and get its zero node. In `KeyEvents`
`Keys`, `Typed`, `MaxHeld`, `MaxPending`, `MaxFaults`: two keys down overlap as
in fast typing; the three classes of keys are one that is always used, one whose
use depends on the state, and one that never is (all that is proved holds for
all seven classes); two requests let one that nobody waits for any more be followed
by another, and a second process is there to share the preedit (mode 1), take
the focus and listen to the signals. One more bound is in its guards: the
display does not move the focus while a process has keys left to handle.

**Deadlock** is checked where the system never stops. `TaskManager` may stop
(after `stop()` or a crash), and so may `MessageQueue` (after `stop()`, or when
`MaxPush` is used up). `UserDB` and `KeyEvents` never stop.

**Fairness.** Weak fairness for each thread of the program: the kernel
schedules it again, and time passes. None for callers: nobody must add a task,
push or press a key. `QueuedIsServed` assumes, in its own statement, that tasks
keep being added: that is what makes up for an event that was missed, and
`task_lost` shows that without it the task stays. `SavedUnlessStuck` assumes
that the minute's job gets `m_phraseCS` again and again (strong fairness of
`SyncJob`: the lock is held for moments only), that the disk is not full for
ever (strong fairness of `SaveDone`), and that who holds the lock goes on; the
user learns and commits what and when he likes, and the process may die.
`StopReleasesBlocked` speaks of threads that were blocked when `unblockAll` came; a thread that blocks later
sleeps on, which is why no property says that `TaskManager::stop` returns.
SysMessager's `stop` is different: it goes through the queue and does return.

## 4. What is proved

All proofs are checked with tlapm to the last leaf. They hold for every value
of the constants that meets the named assumptions of the module: finite or
infinite sets of tasks, applications and producers, any input limit and width.

- `TaskManagerProofs`: `TypeCorrect`; `HandedOverOnceHolds` (`schedule()` sets
  `m_curTask` only after it saw it empty: the invariant is that it stays empty
  until the hand-over); `FrontExistsHolds`, under `~Spurious` and `~Deletes`,
  which are necessary: TLC finds the crash with either of them. The invariant:
  from the pick on the queue is not empty, and a wake-up means a task or
  `m_unblock`. `EarliestFirstHolds`, from a queue that stays sorted (`Sorted`:
  the insertion of `addTask` and every removal keep the order);
  `OneOwnerHolds`, from the places of each task object (`Owners`) and the
  scheduler's part in it (`HandInv`, `Busy`); `NeverEarlyHolds` on top of these.
  `ImplementsTimer`, from all of them: that the task which `schedule()` takes is
  the first of those that wait needs `Sorted`, that a task begins at one executor
  only needs `Owners`, and that the place for the one that is out is free needs
  `HandInv`. Each step of a thread is one step of `Timer` or none.
- `ICManagerProofs`: `TypeCorrect`, `RefsExactHolds`, `OnePreeditPerAppHolds`,
  `HandlesAreLiveHolds`. The ids that clients hold and the ICs that exist are
  the same sets (if no client keeps ids over a crash), each preedit object is
  that of one application, and its count is the size of the set of ICs that
  point to it; a step that adds or removes an IC changes one of these sets by
  one element.
- `PreeditProofs`: `TypeCorrect`, `ComposingHasInputHolds`,
  `PagesExactHolds`, `NineKeysSufficeHolds`, `TextKeptHolds`. The inductive invariant adds that
  the ends of the pages increase and that each was computed by the loop of
  `page()`; nine keys suffice because of `WidthAssumption`: nine of the
  shortest items, with their padding, are wider than the window (9 * 9 > 72).
  `TextKept` is about the concatenation of the words that were selected:
  `SeqLemmas` shows how `FlattenSeq`, a recursive function, grows by a last word and
  shrinks by it (`SetInduction` is the induction over a set of numbers that takes
  no operator), and a key moves letters over the border between words and input.
- `MessageQueueProofs`: `TypeCorrect`, `NoLostWakeupHolds`,
  `ImplementsMailbox`. The mutex that is held from `canConsume` to the wait
  makes a push in between keep its event until the thread waits. For the
  refinement, `MSG_QUIT` is in the box from the first step of `stop()` until
  the thread ends.

- `UserDBProofs`: `TypeCorrect`, `BackupGoodHolds`, `NoAliasHolds`,
  `FileExactHolds`, `NothingForgottenHolds`, `ValuesKeptHolds`, `CapacityHolds`,
  for any phrases, limits and number of deaths. The invariant has four parts: what memory and the
  open file are to each other (`Local`; `InMemory` adds that cached locations
  are inside of the file unless `stale`, and that the file under way is the
  memory), which of the files is good at each `pc` (`OnDisk`), and which keys
  are in which of them (`Kept`). For `Capacity` there is a second one, `Sized`: each
  file is within the bound as well, and there is room for the rest of a lesson.
  `ImplementsPhraseStore` needs one fact more, `FileTree`: while the file is open
  its keys have the same places in the memory. Then a write in place, which
  empties the cache, leaves in the file the priorities that are known
  (`FileIsWritten`), a load reads them back (`MapIsContent`), and by `ValuesKept`
  everything else leaves the map alone.
- `KeyEventsProofs`: `TypeCorrect`; `ActiveAgreesHolds`, from `CallsExact` (a
  request that is not late is the one its process waits for, and the only one)
  and `AllAgree` (a reply under way tells the state); `FocusExactHolds`, from
  `FocusSettled` (with the focus, either `m_icFocus` is right or a FocusIn is in
  the queue with no FocusOut of the same context behind it);
  `TakenOnceIfSteadyHolds`, from `Right` (what became of each press is what
  `imWants` says now, or it is void, in the widget and in the queue);
  `TextArrivesHolds`, from `TextsRight` (a text of a calm focus was taken by its
  context if its process saw it, and by no other); `ChordNeverSwitchesHolds`,
  from the order of the requests: in the queue the release of a hold of Shift ends
  it (`HoldEnds`), so a key that was released in the hold is noted in
  `m_preModKey` from then until that release is served (`ChordNoted`).

The abstract modules come with the mapping in the module that implements them
(`Promise == INSTANCE ... WITH`), and the proof of a refinement has one lemma for
each action or group of actions, which names the abstract step or shows that
nothing abstract changes.

**Only model-checked**: liveness (`HandOverTaken`, `PickLeadsToHand`,
`QueuedIsServed`, `StopReleasesBlocked`, `Delivered`, `StopReturns`,
`SavedUnlessStuck`), which the prover does not reach. Every other property that
a passing run checks is a theorem as well.

## 5. Findings

1. `TaskManager.cpp:240`: an event between the count and the wait is lost.
2. `IC.cpp:196`: ids start again after a crash, so an old id is not the default
   IC's, as `IC.cpp:117` says, but another client's.
3. `IMPreedit.cpp:65`: `m_input` is emptied before its first letters are taken.
4. `IMPreedit.cpp:258`: `m_uiItems` keeps items that `m_items` does not have.
5. `X11IMPreedit.cpp:116`: what `imWants` says of a press is not what
   `doHandleKey` does at the release: Shift+Space or Shift+Return while something
   is composed goes to the widget and commits as well, against the reply's
   meaning (`DBusICSrv.cpp:163-164`); Home or a key of `ForwardKeys` is then kept
   from the widget at its press, and forwarded as a release only.

## 6. Not modelled, and the plan

Done: (1) `TaskManager`, (2) `ICManager`, (3) `Preedit`, (4) `MessageQueue`,
(5) `UserDB`, (6) `KeyEvents`, each with its proofs; `TaskManager`, `MessageQueue`
and `UserDB` implement `Timer`, `Mailbox` and `PhraseStore`. What a
continuation would take up, in this order:

7. *What is learned* (`UsrPhrase.cpp`): the runs of Chinese characters that a
   text repeats. `UserDB` learns any phrase at any time, so its results hold
   for whatever `flush()` returns.
8. *Life of the daemon*: `Thread` (start against early end), `DBusDaemon`
   (setup, listen, finish, abort), `Configure` (one lock and a dirty flag, which
   `writeXml` clears before a `SaveFile` that may fail).
9. *XIM key events*: forwarded events and the guard against loops
   (`XIMSrv.cpp`); the Qt plug-in, which has no check of the id in its
   `commitText`.
10. A `TaskManager` with start times modulo a small word, for the comparison
    that wraps after 49.7 days; ids of 16 bits for XIM.
11. The tray: what it shows against the preedit that has the focus.

Simplifications of single modules that a reader should know:
- `UserDB`: the minute's job may run before `PY::initialization` is done, which
  is harmless and left out; descriptors that the start itself loses are a
  constant; the scratch files in `/tmp` have fixed names and a full disk may cut
  them short unnoticed, neither is modelled; nor are the caches of candidates.
- `KeyEvents`: `-` and `=` are both punctuation and paging keys and are left out
  as a class; so is Shift_R (it is in `Preedit`); NumLock and CapsLock, with
  which `imWants` refuses letters; the truncation of key symbols to a character
  in `mapCNPun`. The chord Ctrl+Space is one event.

Left out for good: the vendored libraries (`lib/sqlite3`, `lib/tinyxml2`,
`lib/IMdkit`), which are more than nine tenths of the repository's lines, the
offline tools that build dictionaries, logging, text conversion and parsing,
window layout and cursor rectangles; the ranking of candidates, which is a
matter of taste and not of correctness.
