----------------------------- MODULE PhraseStore -----------------------------
(***************************************************************************)
(* What the database of the user's phrases promises to those who learn,    *)
(* commit and type phrases, of whom none knows a cache, a location or a    *)
(* length: a map of keys to priorities, that is saved as a whole, and      *)
(* found again at the next start, or else the backup of the last one.      *)
(* A file holds one map, and none when it is missing or cut short.         *)
(***************************************************************************)
EXTENDS Integers

CONSTANTS Keys, DefaultPri, MaxPri

VARIABLES up,       \* the database is in use
          known,    \* the keys and their priorities, as long as it is
          saved,    \* the map of the file
          backup,   \* the map of the backup
          muddled   \* nothing is promised until the next start

vars == <<up, known, saved, backup, muddled>>

Empty == [k \in {} |-> 0]
Maps  == UNION {[S -> 0..MaxPri] : S \in SUBSET Keys}

Init == ~up /\ known = Empty /\ saved = {} /\ backup = {} /\ ~muddled

\* The file, and a new backup of it.
Open ==
    /\ ~muddled /\ ~up /\ up'
    /\ saved = {known'} /\ backup' = saved
    /\ UNCHANGED <<saved, muddled>>

\* The backup, if there is no file.
Restore ==
    /\ ~muddled /\ ~up /\ up'
    /\ saved = {} /\ backup = {known'} /\ saved' = backup
    /\ UNCHANGED <<backup, muddled>>

\* With neither of them.
Create ==
    /\ ~muddled /\ ~up /\ up'
    /\ saved = {} /\ backup = {} /\ known' = Empty
    /\ UNCHANGED <<saved, backup, muddled>>

\* The file has the priorities of m in the place of its own.
Written(m) == {[k \in DOMAIN f |-> IF k \in DOMAIN m THEN m[k] ELSE f[k]] : f \in saved}

\* A change of priorities, that the file may have at once, for all that were changed.
Change(m) ==
    /\ ~muddled /\ up
    /\ known' = m /\ saved' \in {saved, Written(m)}
    /\ UNCHANGED <<up, backup, muddled>>

Raise(k) == known[k] < MaxPri /\ Change([known EXCEPT ![k] = @ + 1])

Learn(k) ==
    /\ ~muddled /\ up /\ k \notin DOMAIN known
    /\ known' = [x \in DOMAIN known \cup {k} |-> IF x = k THEN DefaultPri ELSE known[x]]
    /\ UNCHANGED <<up, saved, backup, muddled>>

Commit(k, p) == Change([known EXCEPT ![k] = p])

Older(v) == IF v > 1 THEN v - 1 ELSE v
Age == Change([k \in DOMAIN known |-> Older(known[k])])

Flush == Change(known)

\* The file is what is known, and the database stays in use or is closed.
Save ==
    /\ ~muddled /\ up
    /\ saved' = {known}
    /\ \/ up' /\ UNCHANGED known
       \/ ~up' /\ known' = Empty
    /\ UNCHANGED <<backup, muddled>>

\* The file is lost: what is known now is nothing.
Fail ==
    /\ ~muddled /\ up
    /\ saved' = {} /\ known' = Empty /\ up' \in BOOLEAN
    /\ UNCHANGED <<backup, muddled>>

\* There were too many keys.
Forget ==
    /\ ~muddled /\ up
    /\ DOMAIN known' \subseteq DOMAIN known /\ \A k \in DOMAIN known' : known'[k] = known[k]
    /\ known' = [k \in DOMAIN known' |-> known'[k]]
    /\ UNCHANGED <<up, saved, backup, muddled>>

\* The database is closed, with all that was changed in the file or not, or dies, and
\* with it the file that was being copied.
Down ==
    /\ ~muddled /\ up /\ ~up'
    /\ known' = Empty /\ saved' \in {saved, Written(known), {}}
    /\ UNCHANGED <<backup, muddled>>

\* A backup that does not come to its end; there is the file.
Interrupted ==
    /\ ~muddled /\ ~up /\ saved # {}
    /\ backup' = {}
    /\ UNCHANGED <<up, known, saved, muddled>>

Muddle ==
    /\ up /\ muddled'
    /\ ~up' /\ known' = Empty /\ saved' = {} /\ backup' = {}

\* The next start takes what it finds.
Recover ==
    /\ muddled /\ ~muddled' /\ up'
    /\ known' \in Maps
    /\ saved' = backup'
    /\ saved' = {known'} \/ (saved' = {} /\ known' = Empty)

Next ==
    \/ Open \/ Restore \/ Create
    \/ \E k \in DOMAIN known : Raise(k) \/ \E p \in 1..MaxPri : Commit(k, p)
    \/ \E k \in Keys : Learn(k)
    \/ Age \/ Flush \/ Save \/ Fail \/ Forget \/ Down
    \/ Interrupted \/ Muddle \/ Recover

Spec == Init /\ [][Next]_vars
=============================================================================
