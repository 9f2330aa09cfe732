----------------------------- MODULE Preedit -----------------------------
(***************************************************************************)
(* One preedit object: what a key does to the text being composed, and to  *)
(* the candidate window (X11IMPreedit.cpp, IMPreedit.cpp).                 *)
(*                                                                         *)
(* A letter is "p" when a pinyin can start with it and "i" when none does. *)
(* The pinyin lookup skips the leading letters of the second kind; each    *)
(* item it returns stands for the next klen letters, and only the length   *)
(* of its text matters here.  Results are the answers it may give, any of  *)
(* them at any time: the user's phrases change them.  The text that the    *)
(* user already selected is kept as the letters that it stands for.        *)
(***************************************************************************)
EXTENDS Integers, Sequences, FiniteSets, SequencesExt

CONSTANTS Results,       \* what the lookup may return: [items, cand]
          InputMax,      \* IM_INPUT_MAX
          PageMaxItems,  \* IM_PAGE_MAX_ITEMS
          UiMax,         \* m_uiStringMax
          Padding,       \* padding in page()
          MaxText        \* bound on the letters of one composition

\* An item: its klen letters, and the bytes of its text and of all items before it.
Items   == [klen : Nat \ {0}, upto : Nat]
MinHan  == 3   \* MIN_HAN_U8BYTES
Upto(its, k) == IF k = 0 THEN 0 ELSE its[k].upto
Fits(r, len) == \A k \in DOMAIN r.items : r.items[k].klen <= len

ASSUME ResultsAssumption ==
    /\ \A r \in Results :
        /\ r.items \in Seq(Items) /\ r.items # <<>>
        /\ \A k \in DOMAIN r.items : Upto(r.items, k) >= Upto(r.items, k - 1) + MinHan
        /\ r.cand \in Nat /\ r.cand >= MinHan
    /\ \E r \in Results : Fits(r, 1)

ASSUME BoundsAssumption ==
    /\ InputMax \in Nat \ {0} /\ PageMaxItems \in Nat \ {0} /\ MaxText \in Nat
    /\ UiMax \in Nat /\ Padding \in Nat

\* IM_PAGE_MAX_ITEMS is 9 and the keys 2..9 select 8 items: it is the width of a page
\* that keeps the ninth away.
ASSUME WidthAssumption ==
    Padding + MinHan + 8 * (MinHan + Padding) > UiMax

Letters == {"i", "p"}
Mods    == {0, 1}   \* no modifier, Shift
Keys2to9 == 2..9

VARIABLES
    bTrigger, bCN, bCNPun,  \* on, Chinese, Chinese punctuation
    bStart,     \* composing
    input,      \* m_input: the letters not selected for yet
    ci,         \* m_ci: letters skipped, and items selected (m_ciItems)
    items,      \* m_items
    cand,       \* the length of m_candidate, in bytes
    curPage,    \* m_curPage
    pageWin,    \* m_pageWin: "exclusive page ends"
    shown,      \* the items in m_uiItems
    preModKey,  \* m_preModKey
    out         \* the texts that the last key committed to the client, one after another

windowVars == <<items, cand, curPage, pageWin, shown>>
textVars   == <<input, ci>>
modeVars   == <<bTrigger, bCN, bCNPun>>
vars == <<modeVars, bStart, textVars, windowVars, preModKey, out>>

\* m_bStart is not initialised, here nor before the first doTriggerOn.
Init ==
    /\ bTrigger = FALSE /\ bCN = TRUE /\ bCNPun = TRUE
    /\ bStart \in BOOLEAN
    /\ input = <<>> /\ ci = <<>>
    /\ items = <<>> /\ cand = 0 /\ curPage = 0 /\ pageWin = <<>> /\ shown = <<>>
    /\ preModKey = 0 /\ out = <<>>

Composing == bTrigger /\ bStart
-----------------------------------------------------------------------------
(* X_Bug is X with a plausible bug: the checks are repeated with each in the  *)
(* place of X, to see that they can fail.                                    *)

CiText == [k \in DOMAIN ci |-> ci[k].key]

\* The letters of the composition in the order of the window: m_ci, then m_input.
Text == FlattenSeq(Append(CiText, input))

\* n letters come before the first pinyin.
IsLead(s, n) == (\A k \in 1..n : s[k] = "i") /\ (n < Len(s) => s[n + 1] # "i")

\* The page that starts after item from is too wide for the window when it ends with item k.
Full_NoPadding(its, c, from, k) ==
    Padding + c + (Upto(its, k) - Upto(its, from)) > UiMax
Full(its, c, from, k) ==
    Padding + c + (Upto(its, k) - Upto(its, from)) + Padding * (k - from) > UiMax

IsPageEnd(its, c, from, e) ==
    /\ e <= Len(its) /\ e <= from + PageMaxItems
    /\ \A k \in from + 1 .. e - 1 : ~Full(its, c, from, k)
    /\ e = Len(its) \/ e = from + PageMaxItems \/ Full(its, c, from, e)

\* Where page pg starts: after this item.
StartOf(win, pg) == IF pg <= 1 THEN 0 ELSE win[pg - 1]

ShowPage_Recomputes(its, c, win, pg) ==
    \E e \in StartOf(win, pg) + 1 .. Len(its) :
        /\ IsPageEnd(its, c, StartOf(win, pg), e)
        /\ pageWin' = Append(win, e)
        /\ curPage' = pg
        /\ shown' = SubSeq(its, StartOf(win, pg) + 1, e)
\* page(pg) for a page there is: its end is computed the first time.
ShowPage(its, c, win, pg) ==
    \E w \in {win} \cup {Append(win, e) : e \in StartOf(win, pg) + 1 .. Len(its)} :
        /\ IF pg <= Len(win) THEN w = win
           ELSE w # win /\ IsPageEnd(its, c, StartOf(win, pg), w[pg])
        /\ pageWin' = w
        /\ curPage' = pg
        /\ shown' = SubSeq(its, StartOf(w, pg) + 1, w[pg])

\* m_candidate = lookup(in), then page(1).  With no items the page is empty, and
\* m_uiItems is left as it is.
Lookup(in) ==
    /\ input' = in
    /\ \/ /\ IsLead(in, Len(in))
          /\ items' = <<>> /\ cand' = Len(in) /\ curPage' = 0 /\ pageWin' = <<>>
          /\ UNCHANGED shown
       \/ \E n \in 0..Len(in) - 1 : \E r \in {x \in Results : Fits(x, Len(in) - n)} :
            /\ IsLead(in, n)
            /\ items' = r.items
            /\ cand' = n + r.cand
            /\ ShowPage(r.items, n + r.cand, <<>>, 1)

\* clear()
Clear ==
    /\ bStart' = FALSE /\ input' = <<>> /\ ci' = <<>>
    /\ items' = <<>> /\ cand' = 0 /\ curPage' = 0 /\ pageWin' = <<>> /\ shown' = <<>>

Raw(s)  == IF s = <<>> THEN <<>> ELSE <<[sel |-> FALSE, key |-> s]>>
Sel(s)  == <<[sel |-> TRUE, key |-> s]>>

add_NoLimit(c) == Lookup(Append(input, c))
\* add: a letter too many is ignored.
add(c) ==
    \/ Len(input) < InputMax /\ Lookup(Append(input, c))
    \/ Len(input) >= InputMax /\ UNCHANGED <<input, windowVars>>

doSwitchCE_KeepsInput == bCN' = ~bCN /\ bCNPun' = bCN' /\ UNCHANGED <<bStart, textVars, windowVars>>
doSwitchCE ==
    /\ bCN' = ~bCN /\ bCNPun' = bCN'
    /\ IF bCN THEN Clear ELSE UNCHANGED <<bStart, textVars, windowVars>>

\* The position of the item selected last, which m_ciItems.back() is.
IsLastSel(k) == ci[k].sel /\ \A j \in k + 1 .. Len(ci) : ~ci[j].sel

Unselect_KeepsCi(k) == ci' = ci /\ Lookup(ci[k].key)
\* del, second half: the item selected last becomes input again.
Unselect(k) == ci' = RemoveAt(ci, k) /\ Lookup(ci[k].key)
-----------------------------------------------------------------------------
(* Keys: doHandleKey, for a key with modifier m. *)

On  == bTrigger /\ bCN
Key(m) == preModKey' = m /\ UNCHANGED modeVars

\* OnOffKeys.  What was being composed is dropped.
OnOff ==
    /\ bTrigger' = ~bTrigger /\ out' = <<>>
    /\ \/ /\ ~bTrigger
          /\ bStart' = FALSE
          /\ UNCHANGED <<textVars, windowVars>>
       \/ bTrigger /\ Clear
    /\ UNCHANGED <<bCN, bCNPun, preModKey>>

\* A Shift key whose modifier is that of the key before it only ends a chord.
ShiftOfChord(m) ==
    /\ bTrigger /\ m = preModKey
    /\ preModKey' = 0 /\ out' = <<>>
    /\ UNCHANGED <<modeVars, bStart, textVars, windowVars>>

\* CESwitchKeys: m_input is committed, m_ci is not.
ShiftL(m) ==
    /\ bTrigger /\ m # preModKey
    /\ out' = IF input = <<>> THEN <<>> ELSE <<input>>
    /\ doSwitchCE
    /\ UNCHANGED <<bTrigger, preModKey>>

\* CEPSwitchKeys
ShiftR(m) ==
    /\ On /\ m # preModKey
    /\ bCNPun' = ~bCNPun /\ out' = <<>>
    /\ UNCHANGED <<bTrigger, bCN, preModKey, bStart, textVars, windowVars>>

\* Every key that is forwarded or has a text of its own: in English, with a modifier,
\* punctuation while nothing is composed, digit 0.
OtherKey(m) ==
    /\ bTrigger
    /\ Key(m) /\ out' = <<>>
    /\ UNCHANGED <<bStart, textVars, windowVars>>

Letter(c) ==
    /\ On /\ Len(Text) < MaxText
    /\ bStart' = TRUE
    /\ add(c)
    /\ Key(0) /\ out' = <<>>
    /\ UNCHANGED ci

\* doCommit(1): Space and Return, punctuation, digit 1.
CommitKey(m) ==
    /\ On /\ bStart
    /\ out' = Append(CiText, input)
    /\ Clear
    /\ Key(m)

CancelKey(m) ==
    /\ On /\ bStart
    /\ Clear
    /\ Key(m) /\ out' = <<>>

PageUp(m) ==
    /\ On /\ bStart
    /\ IF items = <<>> THEN UNCHANGED <<curPage, pageWin, shown>>
       ELSE ShowPage(items, cand, pageWin, IF curPage > 1 THEN curPage - 1 ELSE 1)
    /\ Key(m) /\ out' = <<>>
    /\ UNCHANGED <<bStart, textVars, items, cand>>

PageDown(m) ==
    /\ On /\ bStart
    /\ IF items = <<>> \/ StartOf(pageWin, curPage + 1) >= Len(items)
       THEN UNCHANGED <<curPage, pageWin, shown>>
       ELSE ShowPage(items, cand, pageWin, curPage + 1)
    /\ Key(m) /\ out' = <<>>
    /\ UNCHANGED <<bStart, textVars, items, cand>>

\* del, and the composition ends when nothing is left.
BackSpace(m) ==
    /\ On /\ bStart /\ input # <<>>
    /\ \/ Len(input) > 1 /\ Lookup(Front(input)) /\ UNCHANGED <<bStart, ci>>
       \/ \E k \in DOMAIN ci :
            /\ Len(input) = 1 /\ IsLastSel(k) /\ ci[k].key # <<>>
            /\ Unselect(k)
            /\ UNCHANGED bStart
       \/ /\ Len(input) = 1 /\ \A k \in DOMAIN ci : IsLastSel(k) => ci[k].key = <<>>
          /\ Clear
    /\ Key(m) /\ out' = <<>>

\* commit(i) for an item whose letters are found in the input after the first pos ones.
\* With letters left the composition goes on; else m_input is emptied, and then the
\* letters before the item are taken from it.
TakeItem(pos, len) ==
    LET next == pos + len
        key  == SubSeq(input, pos + 1, next) IN
    \/ /\ next < Len(input)
       /\ ci' = ci \o Raw(SubSeq(input, 1, pos)) \o Sel(key)
       /\ Lookup(SubSeq(input, next + 1, Len(input)))
       /\ out' = <<>> /\ UNCHANGED bStart
    \/ /\ next = Len(input)
       /\ out' = Append(CiText, key)
       /\ Clear

\* The item that digit d selects, from the first one of the page on.
Selected(d) == StartOf(pageWin, curPage) + d - 1

\* Digits 2 to 9; for one past the last item nothing happens.
Digit(d) ==
    /\ On /\ bStart /\ Selected(d) <= Len(items)
    /\ \E n \in 0..Len(input) - 1 :
        IsLead(input, n) /\ TakeItem(n, items[Selected(d)].klen)
    /\ Key(0)

DigitNoItem(d) ==
    /\ On /\ bStart /\ Selected(d) > Len(items) + 1
    /\ Key(0) /\ out' = <<>>
    /\ UNCHANGED <<bStart, textVars, windowVars>>

\* "i > m_items.size()" lets the first digit without an item through, and m_items[i]
\* reads past the end.  That is an item that was there before, whose letters are in the
\* input or not, or fresh memory, an item without letters (a bound: one in a composition),
\* or nothing that can be copied, and the process dies (a new one starts as in Init).
DigitPastEnd(d) ==
    /\ On /\ bStart /\ Selected(d) = Len(items) + 1
    /\ \/ /\ \E pos \in 0..Len(input) - 1 : \E len \in 1..Len(input) - pos : TakeItem(pos, len)
          /\ Key(0)
       \/ /\ \A k \in DOMAIN ci : ci[k].key # <<>>
          /\ TakeItem(0, 0)
          /\ Key(0)
       \/ /\ out' = Append(CiText, input) /\ Clear
          /\ Key(0)
       \/ /\ bTrigger' = FALSE /\ bCN' = TRUE /\ bCNPun' = TRUE
          /\ Clear
          /\ preModKey' = 0 /\ out' = <<>>

(* From elsewhere: the tray (handleMessage), and XIM trigger-off (close). *)

TraySwitchCE ==
    /\ doSwitchCE /\ out' = <<>>
    /\ UNCHANGED <<bTrigger, preModKey>>

TraySwitchPun ==
    /\ bCNPun' = ~bCNPun /\ out' = <<>>
    /\ UNCHANGED <<bTrigger, bCN, preModKey, bStart, textVars, windowVars>>

Close ==
    /\ Clear /\ out' = <<>>
    /\ UNCHANGED <<modeVars, preModKey>>

KeyPressed(m) ==
    \/ ShiftOfChord(m) \/ ShiftL(m) \/ ShiftR(m) \/ OtherKey(m)
    \/ CommitKey(m) \/ CancelKey(m) \/ PageUp(m) \/ PageDown(m) \/ BackSpace(m)

DigitPressed(d) == Digit(d) \/ DigitNoItem(d) \/ DigitPastEnd(d)

Next ==
    \/ OnOff
    \/ \E m \in Mods : KeyPressed(m)
    \/ \E c \in Letters : Letter(c)
    \/ \E d \in Keys2to9 : DigitPressed(d)
    \/ TraySwitchCE \/ TraySwitchPun \/ Close

Spec == Init /\ [][Next]_vars
-----------------------------------------------------------------------------
\* The type of every variable of Preedit; the input is never longer than IM_INPUT_MAX.
TypeOK ==
    /\ bTrigger \in BOOLEAN /\ bCN \in BOOLEAN /\ bCNPun \in BOOLEAN /\ bStart \in BOOLEAN
    /\ input \in Seq(Letters) /\ Len(input) <= InputMax
    /\ ci \in Seq([sel : BOOLEAN, key : Seq(Letters)])
    /\ items \in Seq(Items) /\ shown \in Seq(Items)
    /\ cand \in Nat /\ curPage \in Nat /\ pageWin \in Seq(Nat)
    /\ preModKey \in Mods
    /\ out \in Seq(Seq(Letters))

\* While something is composed there are letters not selected for yet, and the input
\* method is in Chinese mode: the BackSpace and Shift branches of doHandleKey rely on it.
\* m_bStart is garbage until the first doTriggerOn, hence Composing.
ComposingHasInput ==
    /\ Composing => bCN /\ input # <<>>
    /\ ~Composing => input = <<>> /\ ci = <<>> /\ items = <<>>

\* m_pageWin and m_curPage always index m_items: page ends increase, the current page is
\* one of them, and the window holds the items of that page, in the order of the digits.
PagesExact ==
    /\ \A k \in DOMAIN pageWin : StartOf(pageWin, k) < pageWin[k] /\ pageWin[k] <= Len(items)
    /\ curPage <= Len(pageWin)
    /\ items = <<>> <=> curPage = 0
    /\ items # <<>> =>
        shown = SubSeq(items, StartOf(pageWin, curPage) + 1, pageWin[curPage])

\* The keys 2..9 are enough for a page: no item on it is out of their reach, although
\* IM_PAGE_MAX_ITEMS is 9, because of its width (page(), IMPreedit.cpp:276).
NineKeysSuffice ==
    \A k \in DOMAIN pageWin : pageWin[k] - StartOf(pageWin, k) <= Cardinality(Keys2to9)

\* A composition that goes on loses and invents no letter: a key leaves the letters and
\* their order alone, or adds one at the end; BackSpace takes one away.
TextKept ==
    [][Composing /\ Composing' =>
        \/ Text' = Text
        \/ \E c \in Letters : Text' = Append(Text, c)
        \/ Len(Text') = Len(Text) - 1]_vars

\* A digit that ends the composition commits all of it: "Something wrong, just commit,
\* don't lose user input." (IMPreedit.cpp:74), and "invalid PY before the 'key'" goes
\* into m_ci (IMPreedit.cpp:53).
DigitCommitsAll ==
    [][\A d \in Keys2to9 : Digit(d) /\ ~bStart' => FlattenSeq(out') = Text]_vars

\* "m_items: all the items", "m_uiItems: items at ic win" (IMPreedit.cpp:244-246): what
\* the window offers is among the items that a digit selects from.
WindowShowsItems == \A k \in DOMAIN shown : \E j \in DOMAIN items : items[j] = shown[k]
=============================================================================
