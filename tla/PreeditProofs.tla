-------------------------- MODULE PreeditProofs --------------------------
(***************************************************************************)
(* What TLAPS proves of Preedit, for any answers of the lookup and any     *)
(* length of the input, of the page and of the window.                     *)
(***************************************************************************)
EXTENDS Preedit, SeqLemmas, FiniteSetTheorems, TLAPS

USE DEF windowVars, textVars, modeVars

\* The page ends in win are those that page() computes for the items its.
PageEnds(its, c, win) ==
    \A k \in DOMAIN win :
        StartOf(win, k) < win[k] /\ IsPageEnd(its, c, StartOf(win, k), win[k])

Spaced(its) == \A k \in DOMAIN its : Upto(its, k) >= Upto(its, k - 1) + MinHan

WindowType ==
    /\ items \in Seq(Items) /\ shown \in Seq(Items)
    /\ cand \in Nat /\ curPage \in Nat /\ pageWin \in Seq(Nat)

\* The window is that of the items: the inductive form of PagesExact.
WindowInv ==
    /\ curPage <= Len(pageWin)
    /\ PageEnds(items, cand, pageWin)
    /\ items = <<>> => curPage = 0 /\ pageWin = <<>>
    /\ items # <<>> =>
        /\ curPage > 0 /\ Spaced(items) /\ cand >= MinHan
        /\ shown = SubSeq(items, StartOf(pageWin, curPage) + 1, pageWin[curPage])

\* The start of a page is a number.
LEMMA StartType ==
    ASSUME NEW win \in Seq(Nat), NEW pg \in Nat, pg <= Len(win) + 1
    PROVE  StartOf(win, pg) \in Nat
<1>1. CASE pg <= 1
    BY <1>1 DEF StartOf
<1>2. CASE pg > 1
    <2>1. pg - 1 \in 1..Len(win)
        BY <1>2, LenProperties
    <2>2. win[pg - 1] \in Nat
        BY <2>1, ElementOfSeq
    <2> QED BY <1>2, <2>2 DEF StartOf
<1> QED BY <1>1, <1>2

\* What page(pg) leaves: the page shown is pg, and every page end is right.
LEMMA ShowPageCorrect ==
    ASSUME NEW its \in Seq(Items), NEW c \in Nat, NEW win \in Seq(Nat), NEW pg \in Nat \ {0},
           pg <= Len(win) + 1, PageEnds(its, c, win), ShowPage(its, c, win, pg)
    PROVE  /\ pageWin' \in Seq(Nat) /\ curPage' = pg /\ shown' \in Seq(Items)
           /\ curPage' <= Len(pageWin')
           /\ PageEnds(its, c, pageWin')
           /\ shown' = SubSeq(its, StartOf(pageWin', pg) + 1, pageWin'[pg])
<1>1. PICK w \in {win} \cup {Append(win, e) : e \in StartOf(win, pg) + 1 .. Len(its)} :
        /\ IF pg <= Len(win) THEN w = win
           ELSE w # win /\ IsPageEnd(its, c, StartOf(win, pg), w[pg])
        /\ pageWin' = w
        /\ curPage' = pg
        /\ shown' = SubSeq(its, StartOf(w, pg) + 1, w[pg])
    BY DEF ShowPage
<1>2. StartOf(win, pg) \in Nat /\ Len(win) \in Nat /\ Len(its) \in Nat
    BY StartType, LenProperties
<1>3. w \in Seq(Nat) /\ pg <= Len(w) /\ PageEnds(its, c, w)
    <2>1. CASE pg <= Len(win)
        BY <1>1, <2>1
    <2>2. CASE pg = Len(win) + 1
        <3>1. PICK e \in StartOf(win, pg) + 1 .. Len(its) : w = Append(win, e)
            BY <1>1, <1>2, <2>2
        <3>2. e \in Nat
            BY <1>2, <3>1
        <3>3. w \in Seq(Nat) /\ Len(w) = pg /\ w[pg] = e /\ \A k \in 1..Len(win) : w[k] = win[k]
            BY <1>2, <2>2, <3>1, <3>2, AppendProperties
        <3>4. ASSUME NEW k \in 1..pg
              PROVE StartOf(w, k) = StartOf(win, k)
            <4>1. k > 1 => k - 1 \in 1..Len(win)
                BY <1>2, <2>2
            <4>2. k > 1 => w[k - 1] = win[k - 1]
                BY <3>3, <4>1
            <4> QED BY <4>2 DEF StartOf
        <3>5. DOMAIN w = 1..pg /\ DOMAIN win = 1..Len(win)
            BY <3>3, LenProperties
        <3>6. ASSUME NEW k \in 1..pg
              PROVE StartOf(w, k) < w[k] /\ IsPageEnd(its, c, StartOf(w, k), w[k])
            <4>1. CASE k \in 1..Len(win)
                BY <3>3, <3>4, <3>5, <4>1 DEF PageEnds
            <4>2. CASE k = pg
                BY <1>1, <1>2, <2>2, <3>1, <3>3, <3>4, <4>2
            <4> QED BY <1>2, <2>2, <4>1, <4>2
        <3> QED BY <3>3, <3>5, <3>6 DEF PageEnds
    <2> QED BY <1>2, <2>1, <2>2
<1>4. shown' \in Seq(Items)
    <2>1. StartOf(w, pg) \in Nat
        BY <1>3, StartType, LenProperties
    <2>2. pg \in DOMAIN w /\ w[pg] \in Nat
        BY <1>3, LenProperties, ElementOfSeq
    <2>3. w[pg] <= Len(its)
        BY <1>3, <2>2 DEF PageEnds, IsPageEnd
    <2> QED BY <1>1, <2>1, <2>2, <2>3, SubSeqType, SMTT(30)
<1> QED BY <1>1, <1>3, <1>4

\* The texts of m_ci: as long as an input was.
Parts == {p \in [sel : BOOLEAN, key : Seq(Letters)] : Len(p.key) <= InputMax}

InputType == input \in Seq(Letters) /\ Len(input) <= InputMax

ModesType ==
    /\ bTrigger \in BOOLEAN /\ bCN \in BOOLEAN /\ bCNPun \in BOOLEAN /\ bStart \in BOOLEAN
    /\ preModKey \in Mods /\ out \in Seq(Seq(Letters))

TextInv == InputType /\ ci \in Seq(Parts) /\ WindowType /\ WindowInv

\* The inductive invariant.
IInv ==
    /\ TypeOK
    /\ ci \in Seq(Parts)
    /\ WindowInv
    /\ ComposingHasInput

\* A lookup for letters that there are: a window for the items it returns.
LEMMA LookupCorrect ==
    ASSUME WindowType, NEW in \in Seq(Letters), in # <<>>, Len(in) <= InputMax, Lookup(in)
    PROVE  /\ InputType' /\ input' # <<>>
           /\ WindowType' /\ WindowInv'
<1>1. input' = in /\ Len(in) \in Nat
    BY LenProperties DEF Lookup
<1>2. CASE /\ items' = <<>> /\ cand' = Len(in) /\ curPage' = 0 /\ pageWin' = <<>>
           /\ UNCHANGED shown
    <2>1. WindowType'
        BY <1>1, <1>2 DEF WindowType
    <2>2. PageEnds(items', cand', pageWin') /\ curPage' <= Len(pageWin')
        BY <1>2 DEF PageEnds
    <2>3. WindowInv'
        BY <1>2, <2>2 DEF WindowInv
    <2> QED BY <1>1, <2>1, <2>3 DEF InputType
<1>3. CASE \E n \in 0..Len(in) - 1 : \E r \in {x \in Results : Fits(x, Len(in) - n)} :
            /\ IsLead(in, n)
            /\ items' = r.items
            /\ cand' = n + r.cand
            /\ ShowPage(r.items, n + r.cand, <<>>, 1)
    <2>1. PICK n \in 0..Len(in) - 1, r \in Results :
            /\ items' = r.items
            /\ cand' = n + r.cand
            /\ ShowPage(r.items, n + r.cand, <<>>, 1)
        BY <1>3
    <2>2. r.items \in Seq(Items) /\ r.items # <<>> /\ r.cand \in Nat /\ r.cand >= MinHan
        BY ResultsAssumption
    <2>3. Spaced(r.items)
        BY ResultsAssumption DEF Spaced
    <2>4. n \in Nat /\ n + r.cand \in Nat /\ n + r.cand >= MinHan
        BY <1>1, <2>2 DEF MinHan
    <2>5. <<>> \in Seq(Nat) /\ 1 <= Len(<<>>) + 1 /\ PageEnds(r.items, n + r.cand, <<>>)
        BY DEF PageEnds
    <2>6. /\ pageWin' \in Seq(Nat) /\ curPage' = 1 /\ shown' \in Seq(Items)
          /\ curPage' <= Len(pageWin')
          /\ PageEnds(r.items, n + r.cand, pageWin')
          /\ shown' = SubSeq(r.items, StartOf(pageWin', 1) + 1, pageWin'[1])
        <3>1. PICK its, c, win, pg : its = r.items /\ c = n + r.cand /\ win = <<>> /\ pg = 1
            OBVIOUS
        <3>2. /\ its \in Seq(Items) /\ c \in Nat /\ win \in Seq(Nat) /\ pg \in Nat \ {0}
              /\ pg <= Len(win) + 1 /\ PageEnds(its, c, win)
            BY <2>2, <2>4, <2>5, <3>1
        <3>3. ShowPage(its, c, win, pg)
            BY <2>1, <3>1
        <3>4. /\ pageWin' \in Seq(Nat) /\ curPage' = pg /\ shown' \in Seq(Items)
              /\ curPage' <= Len(pageWin')
              /\ PageEnds(its, c, pageWin')
              /\ shown' = SubSeq(its, StartOf(pageWin', pg) + 1, pageWin'[pg])
            BY <3>2, <3>3, ShowPageCorrect
        <3> QED BY <3>1, <3>4
    <2>7. WindowType'
        <3>1. items' \in Seq(Items) /\ cand' \in Nat /\ curPage' \in Nat
            BY <2>1, <2>2, <2>4, <2>6
        <3> QED BY <2>6, <3>1 DEF WindowType
    <2>8. WindowInv'
        BY <2>1, <2>2, <2>3, <2>4, <2>6, SMTT(30) DEF WindowInv
    <2> QED BY <1>1, <2>7, <2>8 DEF InputType
<1> QED BY <1>2, <1>3 DEF Lookup

\* clear() leaves no text and an empty window.
LEMMA ClearCorrect ==
    ASSUME Clear
    PROVE  /\ TextInv' /\ bStart' = FALSE
           /\ input' = <<>> /\ ci' = <<>> /\ items' = <<>>
<1>1. PageEnds(items', cand', pageWin') /\ curPage' <= Len(pageWin')
    BY DEF Clear, PageEnds
<1>2. WindowInv'
    BY <1>1 DEF Clear, WindowInv
<1> QED BY <1>2, BoundsAssumption DEF Clear, TextInv, InputType, WindowType

\* Steps that leave the window alone.
LEMMA WindowKept ==
    ASSUME WindowType, WindowInv, UNCHANGED windowVars
    PROVE  WindowType' /\ WindowInv'
BY DEF WindowType, WindowInv

\* The texts of m_ci are texts.
LEMMA CiTextType ==
    ASSUME ci \in Seq(Parts)
    PROVE  CiText \in Seq(Seq(Letters))
<1>1. \A k \in DOMAIN ci : ci[k].key \in Seq(Letters)
    <2>1. \A k \in DOMAIN ci : ci[k] \in Parts
        BY LenProperties, ElementOfSeq
    <2> QED BY <2>1 DEF Parts
<1>2. DOMAIN ci = 1..Len(ci) /\ Len(ci) \in Nat
    BY LenProperties
<1>3. CiText \in [1..Len(ci) -> Seq(Letters)]
    BY <1>1, <1>2 DEF CiText
<1> QED BY <1>2, <1>3, SeqDef

\* What a step commits is one text after another.
LEMMA CommitType ==
    ASSUME ci \in Seq(Parts), NEW s \in Seq(Letters)
    PROVE  Append(CiText, s) \in Seq(Seq(Letters))
BY CiTextType, AppendProperties

\* The parts of TypeOK and of IInv.
LEMMA IInvParts == IInv <=> ModesType /\ TextInv /\ ComposingHasInput
<1>1. Parts \subseteq [sel : BOOLEAN, key : Seq(Letters)]
    BY DEF Parts
<1>2. ci \in Seq(Parts) => ci \in Seq([sel : BOOLEAN, key : Seq(Letters)])
    BY <1>1, SeqMonotonic
<1> QED BY <1>2 DEF IInv, TypeOK, ModesType, TextInv, InputType, WindowType

\* What an item that is selected leaves: a text that goes on, or none.
LEMMA TakeItemCorrect ==
    ASSUME TextInv, NEW pos \in Nat, NEW len \in Nat, TakeItem(pos, len)
    PROVE  /\ TextInv' /\ out' \in Seq(Seq(Letters))
           /\ \/ bStart' = bStart /\ input' # <<>>
              \/ bStart' = FALSE /\ input' = <<>> /\ ci' = <<>> /\ items' = <<>>
<1>1. PICK next, key, pre, rest :
        /\ next = pos + len /\ key = SubSeq(input, pos + 1, next)
        /\ pre = SubSeq(input, 1, pos) /\ rest = SubSeq(input, next + 1, Len(input))
    OBVIOUS
<1>2. next \in Nat /\ Len(input) \in Nat /\ Len(input) <= InputMax /\ InputMax \in Nat
      /\ input \in Seq(Letters)
    BY <1>1, BoundsAssumption, LenProperties DEF TextInv, InputType
<1>3. CASE /\ next < Len(input)
           /\ ci' = ci \o Raw(pre) \o Sel(key)
           /\ Lookup(rest)
           /\ out' = <<>> /\ UNCHANGED bStart
    <2>1. /\ pre \in Seq(Letters) /\ Len(pre) <= InputMax
          /\ key \in Seq(Letters) /\ Len(key) <= InputMax
        BY <1>1, <1>2, <1>3, SubSeqType, SMTT(30)
    <2>2. rest \in Seq(Letters) /\ Len(rest) = Len(input) - next
        BY <1>1, <1>2, <1>3, SubSeqType
    <2>3. rest # <<>> /\ Len(rest) <= InputMax
        BY <1>2, <1>3, <2>2
    <2>4. Raw(pre) \in Seq(Parts)
        <3>1. [sel |-> FALSE, key |-> pre] \in Parts
            BY <2>1 DEF Parts
        <3> QED BY <3>1 DEF Raw
    <2>5. Sel(key) \in Seq(Parts)
        <3>1. [sel |-> TRUE, key |-> key] \in Parts
            BY <2>1 DEF Parts
        <3> QED BY <3>1 DEF Sel
    <2>6. ci' \in Seq(Parts)
        BY <1>3, <2>4, <2>5, ConcatProperties DEF TextInv
    <2>7. InputType' /\ input' # <<>> /\ WindowType' /\ WindowInv'
        BY <1>3, <2>2, <2>3, LookupCorrect DEF TextInv
    <2> QED BY <1>3, <2>6, <2>7 DEF TextInv
<1>4. CASE next = Len(input) /\ out' = Append(CiText, key) /\ Clear
    <2>1. key \in Seq(Letters)
        BY <1>1, <1>2, <1>4, SubSeqType
    <2>2. out' \in Seq(Seq(Letters))
        BY <1>4, <2>1, CommitType DEF TextInv
    <2> QED BY <1>4, <2>2, ClearCorrect
<1> QED BY <1>1, <1>3, <1>4 DEF TakeItem

\* Steps of the window alone, to another page.
LEMMA PageCorrect ==
    ASSUME TextInv, NEW pg \in Nat \ {0}, pg <= Len(pageWin) + 1, items # <<>>,
           ShowPage(items, cand, pageWin, pg), UNCHANGED <<textVars, items, cand>>
    PROVE  TextInv'
<1>1. /\ pageWin' \in Seq(Nat) /\ curPage' = pg /\ shown' \in Seq(Items)
      /\ curPage' <= Len(pageWin')
      /\ PageEnds(items, cand, pageWin')
      /\ shown' = SubSeq(items, StartOf(pageWin', pg) + 1, pageWin'[pg])
    BY ShowPageCorrect DEF TextInv, WindowType, WindowInv
<1>2. WindowType'
    BY <1>1 DEF TextInv, WindowType
<1>3. WindowInv'
    BY <1>1 DEF TextInv, WindowInv
<1> QED BY <1>2, <1>3 DEF TextInv, InputType

\* Nothing typed and nothing shown changes.
LEMMA TextKeptInv ==
    ASSUME TextInv, UNCHANGED <<textVars, windowVars>>
    PROVE  TextInv'
BY WindowKept DEF TextInv, InputType

\* The same of the next state.
LEMMA IInvPartsNext == ModesType' /\ TextInv' /\ ComposingHasInput' => IInv'
BY IInvParts, PTL
-----------------------------------------------------------------------------
LEMMA InitInv == Init => IInv
<1> SUFFICES ASSUME Init PROVE IInv
    OBVIOUS
<1>1. WindowInv
    BY DEF Init, WindowInv, PageEnds
<1>2. TextInv
    BY <1>1, BoundsAssumption DEF Init, TextInv, InputType, WindowType
<1>3. ModesType
    <2>1. preModKey \in Mods /\ out \in Seq(Seq(Letters))
        BY DEF Init, Mods
    <2>2. /\ bTrigger \in BOOLEAN /\ bCN \in BOOLEAN /\ bCNPun \in BOOLEAN
          /\ bStart \in BOOLEAN
        BY DEF Init
    <2> QED BY <2>1, <2>2 DEF ModesType
<1>4. ComposingHasInput
    BY DEF Init, ComposingHasInput, Composing
<1> QED BY <1>2, <1>3, <1>4, IInvParts

\* A letter.
LEMMA LetterInv == ASSUME IInv, NEW c \in Letters, Letter(c) PROVE IInv'
<1>1. /\ ModesType /\ TextInv /\ ComposingHasInput /\ WindowType
      /\ input \in Seq(Letters) /\ Len(input) \in Nat
    BY IInvParts, LenProperties DEF TextInv, InputType
<1>2. InputType' /\ input' # <<>> /\ WindowType' /\ WindowInv'
    <2>1. CASE Len(input) < InputMax /\ Lookup(Append(input, c))
        <3>1. /\ Append(input, c) \in Seq(Letters) /\ Append(input, c) # <<>>
              /\ Len(Append(input, c)) <= InputMax
            BY <1>1, <2>1, BoundsAssumption
        <3> QED BY <1>1, <2>1, <3>1, LookupCorrect
    <2>2. CASE Len(input) >= InputMax /\ UNCHANGED <<input, windowVars>>
        <3>1. input # <<>>
            BY <2>2, BoundsAssumption
        <3> QED BY <1>1, <2>2, <3>1, WindowKept DEF TextInv, InputType
    <2> QED BY <2>1, <2>2 DEF Letter, add
<1>3. TextInv'
    BY <1>1, <1>2 DEF Letter, TextInv
<1>4. ModesType' /\ ComposingHasInput'
    BY <1>1, <1>2 DEF Letter, ModesType, ComposingHasInput, Composing, Key, On, Mods
<1> QED BY <1>3, <1>4, IInvPartsNext

\* BackSpace, with each of the three ways that del leaves the text.
LEMMA BackSpaceInv == ASSUME IInv, NEW m \in Mods, BackSpace(m) PROVE IInv'
<1>1. /\ ModesType /\ TextInv /\ ComposingHasInput /\ WindowType
      /\ input \in Seq(Letters) /\ Len(input) \in Nat /\ Len(input) <= InputMax
      /\ ci \in Seq(Parts) /\ InputMax \in Nat
    BY IInvParts, LenProperties, BoundsAssumption DEF TextInv, InputType
<1>2. ModesType' \/ ~(bStart' \in BOOLEAN)
    BY <1>1 DEF BackSpace, ModesType, Key
<1>3. CASE Len(input) > 1 /\ Lookup(Front(input)) /\ UNCHANGED <<bStart, ci>>
    <2>1. /\ Front(input) \in Seq(Letters) /\ Len(Front(input)) = Len(input) - 1
        BY <1>1, <1>3, SubSeqType DEF Front
    <2>2. InputType' /\ input' # <<>> /\ WindowType' /\ WindowInv'
        <3>1. Front(input) # <<>> /\ Len(Front(input)) <= InputMax
            BY <1>1, <1>3, <2>1
        <3> QED BY <1>1, <1>3, <2>1, <3>1, LookupCorrect
    <2>3. TextInv'
        BY <1>1, <1>3, <2>2 DEF TextInv
    <2>4. ModesType' /\ ComposingHasInput'
        BY <1>1, <1>2, <1>3, <2>2 DEF BackSpace, On, Key, ModesType, ComposingHasInput, Composing
    <2> QED BY <2>3, <2>4, IInvPartsNext
<1>4. ASSUME NEW k \in DOMAIN ci, ci[k].key # <<>>, Unselect(k), UNCHANGED bStart
      PROVE  IInv'
    <2>1. ci[k] \in Parts /\ k \in 1..Len(ci)
        BY <1>1, LenProperties, ElementOfSeq
    <2>2. ci[k].key \in Seq(Letters) /\ Len(ci[k].key) <= InputMax
        BY <2>1 DEF Parts
    <2>3. InputType' /\ input' # <<>> /\ WindowType' /\ WindowInv'
        BY <1>1, <1>4, <2>2, LookupCorrect DEF Unselect
    <2>4. ci' \in Seq(Parts)
        BY <1>1, <1>4, <2>1, RemoveAtType DEF Unselect
    <2>5. TextInv'
        BY <2>3, <2>4 DEF TextInv
    <2>6. ModesType' /\ ComposingHasInput'
        BY <1>1, <1>2, <1>4, <2>3 DEF BackSpace, On, Key, ModesType, ComposingHasInput, Composing
    <2> QED BY <2>5, <2>6, IInvPartsNext
<1>5. CASE Clear
    <2>1. ModesType' /\ ComposingHasInput'
        BY <1>2, <1>5, ClearCorrect DEF ComposingHasInput, Composing
    <2> QED BY <1>5, <2>1, ClearCorrect, IInvPartsNext
<1> QED BY <1>3, <1>4, <1>5 DEF BackSpace

\* Page keys.
LEMMA PageKeysInv == ASSUME IInv, NEW m \in Mods, PageUp(m) \/ PageDown(m) PROVE IInv'
<1>1. /\ ModesType /\ TextInv /\ ComposingHasInput
      /\ pageWin \in Seq(Nat) /\ Len(pageWin) \in Nat /\ curPage \in Nat /\ curPage <= Len(pageWin)
    BY IInvParts, LenProperties DEF TextInv, WindowType, WindowInv
<1>2. /\ UNCHANGED <<modeVars, bStart, textVars, items>>
      /\ preModKey' = m /\ out' = <<>>
    BY DEF PageUp, PageDown, Key
<1>3. ModesType'
    BY <1>1, <1>2 DEF ModesType
<1>4. ComposingHasInput'
    BY <1>1, <1>2 DEF ComposingHasInput, Composing
<1>5. CASE UNCHANGED <<curPage, pageWin, shown>>
    <2>1. TextInv'
        BY <1>1, <1>5, TextKeptInv DEF PageUp, PageDown
    <2> QED BY <1>3, <1>4, <2>1, IInvPartsNext
<1>6. ASSUME NEW pg \in Nat \ {0}, pg <= Len(pageWin) + 1, items # <<>>,
             ShowPage(items, cand, pageWin, pg)
      PROVE  IInv'
    <2>1. TextInv'
        BY <1>1, <1>6, PageCorrect DEF PageUp, PageDown
    <2> QED BY <1>3, <1>4, <2>1, IInvPartsNext
<1>7. CASE PageUp(m) /\ items # <<>>
    <2>1. PICK pg : pg = IF curPage > 1 THEN curPage - 1 ELSE 1
        OBVIOUS
    <2>2. pg \in Nat \ {0} /\ pg <= Len(pageWin) + 1
        BY <1>1, <2>1
    <2> QED BY <1>6, <1>7, <2>1, <2>2 DEF PageUp
<1>8. CASE PageDown(m) /\ ~(items = <<>> \/ StartOf(pageWin, curPage + 1) >= Len(items))
    <2>1. curPage + 1 \in Nat \ {0} /\ curPage + 1 <= Len(pageWin) + 1
        BY <1>1
    <2> QED BY <1>6, <1>8, <2>1 DEF PageDown
<1> QED BY <1>5, <1>7, <1>8 DEF PageUp, PageDown
-----------------------------------------------------------------------------
\* Steps that end the composition.
LEMMA EndsInv == ASSUME Clear, ModesType' PROVE IInv'
<1>1. ComposingHasInput'
    BY ClearCorrect DEF ComposingHasInput, Composing
<1> QED BY <1>1, ClearCorrect, IInvPartsNext

\* Steps that leave it alone.
LEMMA KeepsInv ==
    ASSUME IInv, UNCHANGED <<bTrigger, bStart, textVars, windowVars>>, ModesType',
           Composing => bCN'
    PROVE  IInv'
<1>1. TextInv'
    BY IInvParts, TextKeptInv
<1>2. ComposingHasInput'
    BY IInvParts DEF ComposingHasInput, Composing
<1> QED BY <1>1, <1>2, IInvPartsNext

\* Switching the language, by the Shift key or from the tray.
LEMMA SwitchInv ==
    ASSUME IInv, doSwitchCE, UNCHANGED <<bTrigger, preModKey>>, out' \in Seq(Seq(Letters))
    PROVE  IInv'
<1>1. ModesType /\ ComposingHasInput
    BY IInvParts
<1>2. bCN' \in BOOLEAN /\ bCNPun' \in BOOLEAN
    BY DEF doSwitchCE
<1>3. bStart' \in BOOLEAN
    BY <1>1, ClearCorrect DEF doSwitchCE, ModesType
<1>4. ModesType'
    BY <1>1, <1>2, <1>3 DEF ModesType
<1>5. CASE bCN
    BY <1>4, <1>5, EndsInv DEF doSwitchCE
<1>6. CASE ~bCN
    BY <1>1, <1>4, <1>6, KeepsInv DEF doSwitchCE, ComposingHasInput
<1> QED BY <1>5, <1>6

\* A step may commit nothing.
LEMMA NoTextType == <<>> \in Seq(Seq(Letters))
BY EmptySeq

\* The item that a digit selects stands for some letters.
LEMMA SelectedLen ==
    ASSUME TextInv, NEW d \in Keys2to9, Digit(d)
    PROVE  items[Selected(d)].klen \in Nat
<1>1. Selected(d) \in 1..Len(items)
    <2>1. /\ curPage \in Nat /\ curPage <= Len(pageWin) + 1 /\ pageWin \in Seq(Nat)
          /\ Len(items) \in Nat
        BY LenProperties DEF TextInv, WindowType, WindowInv
    <2>2. StartOf(pageWin, curPage) \in Nat
        BY <2>1, StartType
    <2> QED BY <2>1, <2>2 DEF Digit, Selected, Keys2to9
<1>2. items[Selected(d)] \in Items
    BY <1>1, ElementOfSeq DEF TextInv, WindowType
<1> QED BY <1>2 DEF Items

\* The digits.
LEMMA DigitInv == ASSUME IInv, NEW d \in Keys2to9, DigitPressed(d) PROVE IInv'
<1>1. /\ ModesType /\ TextInv /\ ComposingHasInput
      /\ input \in Seq(Letters) /\ Len(input) \in Nat /\ ci \in Seq(Parts)
    BY IInvParts, LenProperties DEF TextInv, InputType
<1>2. On /\ bStart
    BY DEF DigitPressed, Digit, DigitNoItem, DigitPastEnd
<1>3. ASSUME NEW pos \in Nat, NEW len \in Nat, TakeItem(pos, len), Key(0)
      PROVE  IInv'
    <2>1. /\ TextInv' /\ out' \in Seq(Seq(Letters))
          /\ \/ bStart' = bStart /\ input' # <<>>
             \/ bStart' = FALSE /\ input' = <<>> /\ ci' = <<>> /\ items' = <<>>
        BY <1>1, <1>3, TakeItemCorrect
    <2>2. preModKey' = 0 /\ UNCHANGED modeVars
        BY <1>3 DEF Key
    <2>3. bStart' \in BOOLEAN /\ preModKey' \in Mods
        BY <1>1, <2>1, <2>2 DEF ModesType, Mods
    <2>4. ModesType'
        BY <1>1, <2>1, <2>2, <2>3 DEF ModesType
    <2>5. ComposingHasInput'
        BY <1>2, <2>1, <2>2 DEF On, ComposingHasInput, Composing
    <2> QED BY <2>1, <2>4, <2>5, IInvPartsNext
<1>4. CASE Digit(d)
    <2>1. PICK n \in 0..Len(input) - 1 : TakeItem(n, items[Selected(d)].klen)
        BY <1>4 DEF Digit
    <2>3. items[Selected(d)].klen \in Nat
        BY <1>1, <1>4, SelectedLen
    <2>4. n \in Nat /\ Key(0)
        BY <1>1, <1>4 DEF Digit
    <2> QED BY <1>3, <2>1, <2>3, <2>4
<1>5. CASE DigitNoItem(d)
    <2>1. ModesType'
        BY <1>1, <1>5 DEF DigitNoItem, Key, ModesType, Mods
    <2> QED BY <1>1, <1>5, <2>1, KeepsInv DEF DigitNoItem, Key, ComposingHasInput
<1>6. CASE DigitPastEnd(d)
    <2>1. CASE \E pos \in 0..Len(input) - 1 : \E len \in 1..Len(input) - pos :
                    TakeItem(pos, len) /\ Key(0)
        BY <1>1, <1>3, <2>1
    <2>2. CASE TakeItem(0, 0) /\ Key(0)
        BY <1>3, <2>2
    <2>3. CASE out' = Append(CiText, input) /\ Clear /\ Key(0)
        <3>1. out' \in Seq(Seq(Letters)) /\ bStart' \in BOOLEAN
            BY <1>1, <2>3, CommitType, ClearCorrect
        <3>2. ModesType'
            BY <1>1, <2>3, <3>1 DEF Key, ModesType, Mods
        <3> QED BY <2>3, <3>2, EndsInv
    <2>4. CASE /\ bTrigger' = FALSE /\ bCN' = TRUE /\ bCNPun' = TRUE
               /\ Clear
               /\ preModKey' = 0 /\ out' = <<>>
        <3>1. out' \in Seq(Seq(Letters)) /\ bStart' \in BOOLEAN
            BY <2>4, NoTextType, ClearCorrect
        <3>2. ModesType'
            BY <2>4, <3>1 DEF ModesType, Mods
        <3> QED BY <2>4, <3>2, EndsInv
    <2> QED BY <1>6, <2>1, <2>2, <2>3, <2>4 DEF DigitPastEnd
<1> QED BY <1>4, <1>5, <1>6 DEF DigitPressed
-----------------------------------------------------------------------------
LEMMA NextInv == IInv /\ [Next]_vars => IInv'
<1> SUFFICES ASSUME IInv, [Next]_vars PROVE IInv'
    OBVIOUS
<1>1. ModesType /\ TextInv /\ ComposingHasInput
    BY IInvParts
<1>2. CASE OnOff
    <2>1. /\ bTrigger' \in BOOLEAN /\ bCN' = bCN /\ bCNPun' = bCNPun /\ preModKey' = preModKey
          /\ out' = <<>> /\ bStart' = FALSE
        BY <1>2, ClearCorrect DEF OnOff
    <2>2. ModesType'
        <3>1. out' \in Seq(Seq(Letters))
            BY <2>1, NoTextType
        <3> QED BY <1>1, <2>1, <3>1 DEF ModesType
    <2>3. CASE ~bTrigger /\ UNCHANGED <<textVars, windowVars>>
        <3>1. TextInv'
            BY <1>1, <2>3, TextKeptInv
        <3>2. ComposingHasInput'
            BY <1>1, <2>1, <2>3 DEF ComposingHasInput, Composing
        <3> QED BY <2>2, <3>1, <3>2, IInvPartsNext
    <2> QED BY <1>2, <2>2, <2>3, EndsInv DEF OnOff
<1>3. ASSUME NEW m \in Mods, ShiftOfChord(m) \/ ShiftR(m) \/ OtherKey(m)
      PROVE  IInv'
    <2>1. /\ UNCHANGED <<bTrigger, bCN, bStart, textVars, windowVars>>
          /\ bCNPun' \in BOOLEAN /\ preModKey' \in Mods /\ out' = <<>>
        BY <1>1, <1>3 DEF ShiftOfChord, ShiftR, OtherKey, Key, ModesType, Mods
    <2>2. ModesType'
        BY <1>1, <2>1 DEF ModesType
    <2> QED BY <1>1, <2>1, <2>2, KeepsInv DEF ComposingHasInput
<1>4. ASSUME NEW m \in Mods, ShiftL(m) PROVE IInv'
    <2>1. <<input>> \in Seq(Seq(Letters)) /\ <<>> \in Seq(Seq(Letters))
        BY <1>1 DEF TextInv, InputType
    <2>2. out' \in Seq(Seq(Letters))
        BY <1>4, <2>1 DEF ShiftL
    <2> QED BY <1>4, <2>2, SwitchInv DEF ShiftL
<1>5. ASSUME NEW m \in Mods, CommitKey(m) \/ CancelKey(m) PROVE IInv'
    <2>1. out' \in Seq(Seq(Letters))
        <3>1. input \in Seq(Letters) /\ ci \in Seq(Parts)
            BY <1>1 DEF TextInv, InputType
        <3>2. Append(CiText, input) \in Seq(Seq(Letters))
            BY <3>1, CommitType
        <3> QED BY <1>5, <3>2, NoTextType DEF CommitKey, CancelKey
    <2>2. Clear /\ preModKey' = m /\ UNCHANGED modeVars /\ bStart' \in BOOLEAN
        BY <1>5, ClearCorrect DEF CommitKey, CancelKey, Key
    <2>3. ModesType'
        BY <1>1, <2>1, <2>2 DEF ModesType
    <2> QED BY <2>2, <2>3, EndsInv
<1>6. CASE TraySwitchCE
    <2>1. out' \in Seq(Seq(Letters))
        BY <1>6 DEF TraySwitchCE
    <2> QED BY <1>6, <2>1, SwitchInv DEF TraySwitchCE
<1>7. CASE TraySwitchPun
    <2>1. /\ UNCHANGED <<bTrigger, bCN, preModKey, bStart, textVars, windowVars>>
          /\ bCNPun' \in BOOLEAN /\ out' = <<>>
        BY <1>7 DEF TraySwitchPun
    <2>2. ModesType'
        BY <1>1, <2>1 DEF ModesType
    <2> QED BY <1>1, <2>1, <2>2, KeepsInv DEF ComposingHasInput
<1>8. CASE Close
    <2>1. ModesType'
        BY <1>1, <1>8, ClearCorrect DEF Close, ModesType
    <2> QED BY <1>8, <2>1, EndsInv DEF Close
<1>9. CASE UNCHANGED vars
    <2>1. ModesType'
        BY <1>1, <1>9 DEF vars, ModesType
    <2> QED BY <1>1, <1>9, <2>1, KeepsInv DEF vars, ComposingHasInput
<1>10. ASSUME NEW m \in Mods, KeyPressed(m) PROVE IInv'
    BY <1>3, <1>4, <1>5, <1>10, PageKeysInv, BackSpaceInv DEF KeyPressed
<1> QED BY <1>2, <1>6, <1>7, <1>8, <1>9, <1>10, LetterInv, DigitInv DEF Next
-----------------------------------------------------------------------------
\* The inductive invariant holds in every reachable state.
THEOREM InvariantHolds == Spec => []IInv
BY InitInv, NextInv, PTL DEF Spec

\* Every variable keeps its type, whatever the lookup answers and whatever keys are
\* pressed; the input stays within IM_INPUT_MAX (IMPreedit.cpp:165-172).
THEOREM TypeCorrect == Spec => []TypeOK
<1>1. IInv => TypeOK
    BY DEF IInv
<1> QED BY <1>1, InvariantHolds, PTL

\* While something is composed there is input, in Chinese mode (X11IMPreedit.cpp:161-193).
THEOREM ComposingHasInputHolds == Spec => []ComposingHasInput
<1>1. IInv => ComposingHasInput
    BY DEF IInv
<1> QED BY <1>1, InvariantHolds, PTL

\* The page ends and the current page always index m_items, and the window shows that
\* page (IMPreedit.cpp:248-289).
THEOREM PagesExactHolds == Spec => []PagesExact
<1>1. IInv => PagesExact
    BY DEF IInv, WindowInv, PagesExact, PageEnds, IsPageEnd, TypeOK
<1> QED BY <1>1, InvariantHolds, PTL

\* Eight items are as wide as the window: each has the width of a Chinese character at least.
LEMMA EightAreWide ==
    ASSUME NEW its \in Seq(Items), NEW from \in Nat, from + 8 <= Len(its), Spaced(its)
    PROVE  /\ Upto(its, from) \in Nat /\ Upto(its, from + 8) \in Nat
           /\ Upto(its, from + 8) - Upto(its, from) >= 8 * MinHan
<1>1. Len(its) \in Nat /\ DOMAIN its = 1..Len(its)
    BY LenProperties
<1>2. \A k \in 0..8 : Upto(its, from + k) \in Nat
    <2> SUFFICES ASSUME NEW k \in 0..8 PROVE Upto(its, from + k) \in Nat
        OBVIOUS
    <2>1. CASE from + k = 0
        BY <2>1 DEF Upto
    <2>2. CASE from + k > 0
        <3>1. from + k \in 1..Len(its)
            BY <1>1, <2>2
        <3>2. its[from + k] \in Items
            BY <3>1, ElementOfSeq
        <3> QED BY <2>2, <3>2 DEF Upto, Items
    <2> QED BY <2>1, <2>2
<1>3. \A k \in 1..8 : Upto(its, from + k) >= Upto(its, from + (k - 1)) + MinHan
    <2> SUFFICES ASSUME NEW k \in 1..8
                 PROVE  Upto(its, from + k) >= Upto(its, from + (k - 1)) + MinHan
        OBVIOUS
    <2>1. from + k \in DOMAIN its /\ (from + k) - 1 = from + (k - 1)
        BY <1>1
    <2>2. Upto(its, from + k) >= Upto(its, (from + k) - 1) + MinHan
        BY <2>1 DEF Spaced
    <2> QED BY <2>1, <2>2
<1>4. PICK u0, u1, u2, u3, u4, u5, u6, u7, u8 :
        /\ u0 = Upto(its, from) /\ u1 = Upto(its, from + 1) /\ u2 = Upto(its, from + 2)
        /\ u3 = Upto(its, from + 3) /\ u4 = Upto(its, from + 4) /\ u5 = Upto(its, from + 5)
        /\ u6 = Upto(its, from + 6) /\ u7 = Upto(its, from + 7) /\ u8 = Upto(its, from + 8)
    OBVIOUS
<1>5. /\ u0 \in Nat /\ u1 \in Nat /\ u2 \in Nat /\ u3 \in Nat /\ u4 \in Nat
      /\ u5 \in Nat /\ u6 \in Nat /\ u7 \in Nat /\ u8 \in Nat
    BY <1>2, <1>4
<1>6. /\ u1 >= u0 + MinHan /\ u2 >= u1 + MinHan /\ u3 >= u2 + MinHan /\ u4 >= u3 + MinHan
      /\ u5 >= u4 + MinHan /\ u6 >= u5 + MinHan /\ u7 >= u6 + MinHan /\ u8 >= u7 + MinHan
    BY <1>3, <1>4
<1>7. u8 - u0 >= 8 * MinHan
    BY <1>5, <1>6 DEF MinHan
<1> QED BY <1>4, <1>5, <1>7

\* No page holds more items than the keys 2 to 9 select (IMPreedit.cpp:272-282,
\* X11IMPreedit.cpp:264-269), as long as eight of the shortest fill the window.
THEOREM NineKeysSufficeHolds == Spec => []NineKeysSuffice
<1>1. IInv => NineKeysSuffice
    <2> SUFFICES ASSUME IInv, NEW k \in DOMAIN pageWin
                 PROVE  pageWin[k] - StartOf(pageWin, k) <= 8
        <3>1. Cardinality(Keys2to9) = 8
            <4>1. PICK a, b : a = 2 /\ b = 9
                OBVIOUS
            <4>2. a \in Int /\ b \in Int /\ Keys2to9 = a..b
                BY <4>1 DEF Keys2to9
            <4>3. Cardinality(Keys2to9) = IF a > b THEN 0 ELSE b - a + 1
                BY <4>2, FS_Interval
            <4> QED BY <4>1, <4>3
        <3> QED BY <3>1 DEF NineKeysSuffice
    <2>1. PICK from, e : from = StartOf(pageWin, k) /\ e = pageWin[k]
        OBVIOUS
    <2>2. /\ pageWin \in Seq(Nat) /\ items \in Seq(Items) /\ cand \in Nat
          /\ IsPageEnd(items, cand, from, e)
        BY <2>1 DEF IInv, TypeOK, WindowInv, PageEnds
    <2>3. k \in 1..Len(pageWin) /\ Len(pageWin) \in Nat /\ Len(items) \in Nat
        BY <2>2, LenProperties
    <2>4. from \in Nat /\ e \in Nat
        BY <2>1, <2>2, <2>3, StartType, ElementOfSeq
    <2>5. e <= Len(items) /\ \A j \in from + 1 .. e - 1 : ~Full(items, cand, from, j)
        BY <2>2 DEF IsPageEnd
    <2>6. ASSUME e - from > 8 PROVE FALSE
        <3>1. from + 8 <= Len(items) /\ from + 8 \in from + 1 .. e - 1
            BY <2>3, <2>4, <2>5, <2>6
        <3>2. items # <<>>
            BY <2>4, <3>1
        <3>3. Spaced(items) /\ cand >= MinHan
            BY <3>2 DEF IInv, WindowInv
        <3>4. PICK w : w = Upto(items, from + 8) - Upto(items, from)
            OBVIOUS
        <3>5. w \in Int /\ w >= 8 * MinHan
            BY <2>2, <2>4, <3>1, <3>3, <3>4, EightAreWide
        <3>6. ~(Padding + cand + w + Padding * 8 > UiMax)
            BY <2>4, <2>5, <3>1, <3>4 DEF Full
        <3> QED BY <2>2, <3>3, <3>5, <3>6, BoundsAssumption, WidthAssumption DEF MinHan
    <2> QED BY <2>1, <2>4, <2>6
<1> QED BY <1>1, InvariantHolds, PTL
-----------------------------------------------------------------------------
(* The letters of a composition.  Text is the fold of m_ci and m_input: a step is    *)
(* followed through the lemmas on FlattenSeq.                                        *)

Keys(s) == [k \in DOMAIN s |-> s[k].key]

\* The texts of some parts.
LEMMA KeysType ==
    ASSUME NEW s \in Seq(Parts)
    PROVE  /\ Keys(s) \in Seq(Seq(Letters)) /\ Len(Keys(s)) = Len(s)
           /\ \A k \in 1..Len(s) : Keys(s)[k] = s[k].key
<1>1. \A k \in DOMAIN s : s[k].key \in Seq(Letters)
    <2>1. \A k \in DOMAIN s : s[k] \in Parts
        BY LenProperties, ElementOfSeq
    <2> QED BY <2>1 DEF Parts
<1>2. DOMAIN s = 1..Len(s) /\ Len(s) \in Nat
    BY LenProperties
<1>3. Keys(s) \in [1..Len(s) -> Seq(Letters)]
    BY <1>1, <1>2 DEF Keys
<1>4. Keys(s) \in Seq(Seq(Letters))
    BY <1>2, <1>3, SeqDef
<1>5. Len(Keys(s)) = Len(s)
    <2>1. DOMAIN Keys(s) = 1..Len(s) /\ DOMAIN Keys(s) = 1..Len(Keys(s))
        BY <1>3, <1>4, LenProperties
    <2>2. Len(Keys(s)) \in Nat
        BY <1>4, LenProperties
    <2> QED BY <1>2, <2>1, <2>2
<1> QED BY <1>2, <1>4, <1>5 DEF Keys

\* The texts of parts after other parts.
LEMMA KeysConcat ==
    ASSUME NEW s \in Seq(Parts), NEW t \in Seq(Parts)
    PROVE  Keys(s \o t) = Keys(s) \o Keys(t)
<1>1. PICK u, a, b, c, m, n :
        /\ u = s \o t /\ a = Keys(s) /\ b = Keys(t) /\ c = a \o b
        /\ m = Len(s) /\ n = Len(t)
    OBVIOUS
<1>2. m \in Nat /\ n \in Nat
    BY <1>1, LenProperties
<1>3. /\ u \in Seq(Parts) /\ Len(u) = m + n
      /\ \A i \in 1..(m + n) : u[i] = IF i <= m THEN s[i] ELSE t[i - m]
    BY <1>1, ConcatProperties
<1>4. a \in Seq(Seq(Letters)) /\ Len(a) = m /\ \A i \in 1..m : a[i] = s[i].key
    BY <1>1, KeysType
<1>5. b \in Seq(Seq(Letters)) /\ Len(b) = n /\ \A i \in 1..n : b[i] = t[i].key
    BY <1>1, KeysType
<1>6. /\ c \in Seq(Seq(Letters)) /\ Len(c) = m + n
      /\ \A i \in 1..(m + n) : c[i] = IF i <= m THEN a[i] ELSE b[i - m]
    <2>1. a \in Seq(Seq(Letters))
        BY <1>4
    <2>2. b \in Seq(Seq(Letters))
        BY <1>5
    <2>3. /\ a \o b \in Seq(Seq(Letters)) /\ Len(a \o b) = Len(a) + Len(b)
          /\ \A i \in 1..(Len(a) + Len(b)) : (a \o b)[i] = IF i <= Len(a) THEN a[i] ELSE b[i - Len(a)]
        BY <2>1, <2>2, ConcatProperties
    <2> QED BY <1>1, <1>4, <1>5, <2>3
<1>7. /\ Keys(u) \in Seq(Seq(Letters)) /\ Len(Keys(u)) = m + n
      /\ \A i \in 1..(m + n) : Keys(u)[i] = u[i].key
    BY <1>3, KeysType
<1>8. ASSUME NEW i \in 1..(m + n) PROVE Keys(u)[i] = c[i]
    <2>0. Keys(u)[i] = u[i].key
        BY <1>7
    <2>1. CASE i <= m
        <3>1. u[i] = s[i]
            BY <1>3, <2>1
        <3>2. c[i] = a[i] /\ i \in 1..m
            BY <1>2, <1>6, <2>1
        <3>3. a[i] = s[i].key
            BY <1>4, <3>2
        <3> QED BY <2>0, <3>1, <3>2, <3>3
    <2>2. CASE i > m
        <3>1. u[i] = t[i - m]
            BY <1>2, <1>3, <2>2
        <3>2. c[i] = b[i - m] /\ i - m \in 1..n
            BY <1>2, <1>6, <2>2
        <3>3. b[i - m] = t[i - m].key
            BY <1>5, <3>2
        <3> QED BY <2>0, <3>1, <3>2, <3>3
    <2>3. i <= m \/ i > m
        BY <1>2
    <2> QED BY <2>1, <2>2, <2>3
<1>9. Keys(u) = c
    BY <1>6, <1>7, <1>8, SeqEqual
<1> QED BY <1>1, <1>9

\* The texts without one of the parts.
LEMMA KeysRemove ==
    ASSUME NEW s \in Seq(Parts), NEW k \in 1..Len(s)
    PROVE  Keys(RemoveAt(s, k)) = RemoveAt(Keys(s), k)
<1>1. /\ RemoveAt(s, k) \in Seq(Parts) /\ Len(RemoveAt(s, k)) = Len(s) - 1
      /\ \A i \in 1..(Len(s) - 1) : RemoveAt(s, k)[i] = IF i < k THEN s[i] ELSE s[i + 1]
    BY RemoveAtType, RemoveAtIs
<1>2. /\ Keys(RemoveAt(s, k)) \in Seq(Seq(Letters)) /\ Len(Keys(RemoveAt(s, k))) = Len(s) - 1
      /\ \A i \in 1..(Len(s) - 1) : Keys(RemoveAt(s, k))[i] = RemoveAt(s, k)[i].key
    BY <1>1, KeysType
<1>3. /\ Keys(s) \in Seq(Seq(Letters)) /\ Len(Keys(s)) = Len(s)
      /\ \A i \in 1..Len(s) : Keys(s)[i] = s[i].key
    BY KeysType
<1>4. /\ RemoveAt(Keys(s), k) \in Seq(Seq(Letters)) /\ Len(RemoveAt(Keys(s), k)) = Len(s) - 1
      /\ \A i \in 1..(Len(s) - 1) :
            RemoveAt(Keys(s), k)[i] = IF i < k THEN Keys(s)[i] ELSE Keys(s)[i + 1]
    <2>1. k \in 1..Len(Keys(s))
        BY <1>3
    <2> QED BY <1>3, <2>1, RemoveAtType, RemoveAtIs
<1>5. ASSUME NEW i \in 1..(Len(s) - 1) PROVE Keys(RemoveAt(s, k))[i] = RemoveAt(Keys(s), k)[i]
    <2>1. Len(s) \in Nat
        BY LenProperties
    <2>2. i \in 1..Len(s) /\ i + 1 \in 1..Len(s)
        BY <2>1
    <2> QED BY <1>1, <1>2, <1>3, <1>4, <2>2
<1> QED BY <1>2, <1>4, <1>5, SeqEqual

\* The text, of this state and of the next one.
LEMMA TextIs ==
    ASSUME NEW c \in Seq(Parts), NEW in \in Seq(Letters)
    PROVE  /\ FlattenSeq(Append(Keys(c), in)) = FlattenSeq(Keys(c)) \o in
           /\ FlattenSeq(Keys(c)) \in Seq(Letters)
BY KeysType, FlattenAppend, FlattenType

LEMMA TextNow ==
    ASSUME TextInv
    PROVE  /\ Text = FlattenSeq(Keys(ci)) \o input
           /\ Text \in Seq(Letters) /\ FlattenSeq(Keys(ci)) \in Seq(Letters)
           /\ Len(Text) = Len(FlattenSeq(Keys(ci))) + Len(input)
<1>1. ci \in Seq(Parts) /\ input \in Seq(Letters)
    BY DEF TextInv, InputType
<1>2. Text = FlattenSeq(Keys(ci)) \o input /\ FlattenSeq(Keys(ci)) \in Seq(Letters)
    BY <1>1, TextIs DEF Text, CiText, Keys
<1> QED BY <1>1, <1>2, ConcatProperties

LEMMA TextNext ==
    ASSUME NEW c \in Seq(Parts), NEW in \in Seq(Letters), ci' = c, input' = in
    PROVE  /\ Text' = FlattenSeq(Keys(c)) \o in
           /\ Text' \in Seq(Letters) /\ FlattenSeq(Keys(c)) \in Seq(Letters)
           /\ Len(Text') = Len(FlattenSeq(Keys(c))) + Len(in)
<1>1. Text' = FlattenSeq(Keys(c)) \o in /\ FlattenSeq(Keys(c)) \in Seq(Letters)
    BY TextIs DEF Text, CiText, Keys
<1> QED BY <1>1, ConcatProperties

\* Four texts, grouped from the left or from the right.
LEMMA Regroup ==
    ASSUME NEW S, NEW a \in Seq(S), NEW b \in Seq(S), NEW c \in Seq(S), NEW d \in Seq(S)
    PROVE  ((a \o b) \o c) \o d = a \o ((b \o c) \o d)
<1>1. PICK e \in Seq(S) : e = b \o c
    BY ConcatProperties
<1>2. (a \o b) \o c = a \o (b \o c)
    BY ConcatAssociative, SMTT(30)
<1>3. (a \o e) \o d = a \o (e \o d)
    BY ConcatAssociative, SMTT(30)
<1> QED BY <1>1, <1>2, <1>3

\* The letters of one part, and of parts after other parts.
LEMMA OneText ==
    ASSUME NEW p \in Parts
    PROVE  <<p>> \in Seq(Parts) /\ FlattenSeq(Keys(<<p>>)) = p.key
<1>1. <<p>> \in Seq(Parts) /\ Keys(<<p>>) = <<p.key>> /\ p.key \in Seq(Letters)
    BY DEF Keys, Parts
<1>2. <<p.key>> = Append(<<>>, p.key) /\ <<>> \in Seq(Seq(Letters))
    OBVIOUS
<1>3. FlattenSeq(Append(<<>>, p.key)) = FlattenSeq(<<>>) \o p.key
    BY <1>1, <1>2, FlattenAppend
<1> QED BY <1>1, <1>2, <1>3, FlattenEmpty, ConcatEmptySeq

LEMMA TextsConcat ==
    ASSUME NEW s \in Seq(Parts), NEW t \in Seq(Parts)
    PROVE  FlattenSeq(Keys(s \o t)) = FlattenSeq(Keys(s)) \o FlattenSeq(Keys(t))
BY KeysConcat, KeysType, FlattenConcat

\* What TextKept allows a step.
TextStep ==
    \/ Text' = Text
    \/ \E c \in Letters : Text' = Append(Text, c)
    \/ Len(Text') = Len(Text) - 1

\* A letter goes to the end.
LEMMA LetterText == ASSUME IInv, NEW c \in Letters, Letter(c) PROVE TextStep
<1>1. TextInv /\ input \in Seq(Letters) /\ ci \in Seq(Parts)
    BY IInvParts DEF TextInv, InputType
<1>2. ci' = ci /\ (input' = Append(input, c) \/ input' = input)
    BY DEF Letter, add, Lookup
<1>3. CASE input' = input
    BY <1>2, <1>3 DEF TextStep, Text, CiText
<1>4. CASE input' = Append(input, c)
    <2>1. PICK in : in = Append(input, c)
        OBVIOUS
    <2>2. in \in Seq(Letters)
        BY <1>1, <2>1, AppendProperties
    <2>3. Text' = FlattenSeq(Keys(ci)) \o in
        BY <1>1, <1>2, <1>4, <2>1, <2>2, TextNext
    <2>4. Text = FlattenSeq(Keys(ci)) \o input /\ FlattenSeq(Keys(ci)) \in Seq(Letters)
        BY <1>1, TextNow
    <2>5. FlattenSeq(Keys(ci)) \o Append(input, c) = Append(FlattenSeq(Keys(ci)) \o input, c)
        BY <1>1, <2>4, ConcatAppend
    <2> QED BY <2>1, <2>3, <2>4, <2>5 DEF TextStep
<1> QED BY <1>2, <1>3, <1>4

\* BackSpace takes one letter, also when an item becomes input again.
LEMMA BackSpaceText ==
    ASSUME IInv, NEW m \in Mods, BackSpace(m), bStart' # FALSE
    PROVE  TextStep
<1>1. /\ TextInv /\ input \in Seq(Letters) /\ Len(input) \in Nat /\ ci \in Seq(Parts)
      /\ Len(Text) = Len(FlattenSeq(Keys(ci))) + Len(input)
      /\ FlattenSeq(Keys(ci)) \in Seq(Letters)
    BY IInvParts, TextNow, LenProperties DEF TextInv, InputType
<1>2. Len(FlattenSeq(Keys(ci))) \in Nat
    BY <1>1, LenProperties
<1>3. CASE Len(input) > 1 /\ Lookup(Front(input)) /\ UNCHANGED <<bStart, ci>>
    <2>1. Front(input) \in Seq(Letters) /\ Len(Front(input)) = Len(input) - 1
        BY <1>1, <1>3, SubSeqType DEF Front
    <2>2. ci' = ci /\ input' = Front(input)
        BY <1>3 DEF Lookup
    <2>3. Len(Text') = Len(FlattenSeq(Keys(ci))) + Len(Front(input))
        BY <1>1, <2>1, <2>2, TextNext
    <2> QED BY <1>1, <1>2, <2>1, <2>3 DEF TextStep
<1>4. ASSUME NEW k \in DOMAIN ci, Len(input) = 1, Unselect(k)
      PROVE  TextStep
    <2>1. k \in 1..Len(ci) /\ ci[k].key \in Seq(Letters)
        <3>1. k \in 1..Len(ci)
            BY <1>1, LenProperties
        <3>2. ci[k] \in Parts
            BY <1>1, <3>1, ElementOfSeq
        <3> QED BY <3>1, <3>2 DEF Parts
    <2>2. PICK c, in : c = RemoveAt(ci, k) /\ in = ci[k].key
        OBVIOUS
    <2>3. c \in Seq(Parts) /\ in \in Seq(Letters)
        BY <1>1, <2>1, <2>2, RemoveAtType
    <2>4. ci' = c /\ input' = in
        BY <1>4, <2>2 DEF Unselect, Lookup
    <2>5. Len(Text') = Len(FlattenSeq(Keys(c))) + Len(in)
        BY <2>3, <2>4, TextNext
    <2>6. Len(FlattenSeq(Keys(ci))) = Len(FlattenSeq(Keys(c))) + Len(in)
        <3>1. Keys(ci) \in Seq(Seq(Letters)) /\ k \in 1..Len(Keys(ci)) /\ Keys(ci)[k] = in
            BY <1>1, <2>1, <2>2, KeysType
        <3>2. Keys(c) = RemoveAt(Keys(ci), k)
            BY <1>1, <2>1, <2>2, KeysRemove
        <3>3. Len(FlattenSeq(Keys(ci)))
                = Len(FlattenSeq(RemoveAt(Keys(ci), k))) + Len(Keys(ci)[k])
            BY <3>1, FlattenRemove
        <3> QED BY <3>1, <3>2, <3>3
    <2> QED BY <1>1, <1>2, <1>4, <2>5, <2>6 DEF TextStep
<1>5. CASE Clear
    BY <1>5 DEF Clear
<1> QED BY <1>3, <1>4, <1>5 DEF BackSpace

\* An item that is selected moves letters from m_input to m_ci, in their order.
LEMMA TakeItemText ==
    ASSUME IInv, NEW pos \in Nat, NEW len \in Nat, TakeItem(pos, len), bStart' # FALSE
    PROVE  TextStep
<1>1. PICK next, key, pre, rest :
        /\ next = pos + len /\ key = SubSeq(input, pos + 1, next)
        /\ pre = SubSeq(input, 1, pos) /\ rest = SubSeq(input, next + 1, Len(input))
    OBVIOUS
<1>2. /\ next < Len(input)
      /\ ci' = ci \o Raw(pre) \o Sel(key)
      /\ Lookup(rest)
    BY <1>1 DEF TakeItem, Clear
<1>3. /\ TextInv /\ next \in Nat /\ pos <= next /\ Len(input) \in Nat /\ Len(input) <= InputMax
      /\ InputMax \in Nat /\ input \in Seq(Letters) /\ ci \in Seq(Parts)
    BY <1>1, IInvParts, BoundsAssumption, LenProperties DEF TextInv, InputType
<1>4. /\ pre \in Seq(Letters) /\ Len(pre) <= InputMax
      /\ key \in Seq(Letters) /\ Len(key) <= InputMax
      /\ rest \in Seq(Letters)
    BY <1>1, <1>2, <1>3, SubSeqType, SMTT(30)
<1>5. Raw(pre) \in Seq(Parts) /\ FlattenSeq(Keys(Raw(pre))) = pre
    <2>1. CASE pre = <<>>
        <3>1. Raw(pre) = <<>> /\ Keys(<<>>) = <<>> /\ <<>> \in Seq(Parts)
            BY <2>1 DEF Raw, Keys
        <3>2. FlattenSeq(Keys(Raw(pre))) = <<>>
            BY <3>1, FlattenEmpty
        <3> QED BY <2>1, <3>1, <3>2
    <2>2. CASE pre # <<>>
        <3>1. PICK p : p = [sel |-> FALSE, key |-> pre]
            OBVIOUS
        <3>2. p \in Parts /\ p.key = pre
            BY <1>4, <3>1 DEF Parts
        <3> QED BY <1>4, <2>2, <3>1, <3>2, OneText DEF Raw
    <2> QED BY <2>1, <2>2
<1>6. Sel(key) \in Seq(Parts) /\ FlattenSeq(Keys(Sel(key))) = key
    <2>1. PICK p : p = [sel |-> TRUE, key |-> key]
        OBVIOUS
    <2>2. p \in Parts /\ p.key = key
        BY <1>4, <2>1 DEF Parts
    <2> QED BY <1>4, <2>1, <2>2, OneText DEF Sel
<1>7. PICK a, c : a = ci \o Raw(pre) /\ c = a \o Sel(key)
    OBVIOUS
<1>8. a \in Seq(Parts) /\ c \in Seq(Parts) /\ ci' = c /\ input' = rest
    <2>1. a \in Seq(Parts)
        BY <1>3, <1>5, <1>7, ConcatProperties
    <2> QED BY <1>2, <1>6, <1>7, <2>1, ConcatProperties DEF Lookup
<1>9. FlattenSeq(Keys(c)) = ((FlattenSeq(Keys(ci)) \o pre) \o key)
    <2>1. FlattenSeq(Keys(a)) = FlattenSeq(Keys(ci)) \o pre
        BY <1>3, <1>5, <1>7, TextsConcat
    <2>2. FlattenSeq(Keys(c)) = FlattenSeq(Keys(a)) \o key
        BY <1>6, <1>7, <1>8, TextsConcat, ZenonT(40)
    <2> QED BY <2>1, <2>2
<1>10. Text' = ((FlattenSeq(Keys(ci)) \o pre) \o key) \o rest
    BY <1>4, <1>8, <1>9, TextNext
<1>11. (pre \o key) \o rest = input
    <2>1. SubSeq(input, 1, pos) \o SubSeq(input, pos + 1, next) = SubSeq(input, 1, next)
        <3>1. 1 \in 1..Len(input)+1 /\ pos \in 1-1..Len(input) /\ next \in pos..Len(input)
            BY <1>2, <1>3
        <3> QED BY <1>3, <3>1, ConcatAdjacentSubSeq
    <2>2. SubSeq(input, 1, next) \o SubSeq(input, next + 1, Len(input)) = SubSeq(input, 1, Len(input))
        <3>1. 1 \in 1..Len(input)+1 /\ next \in 1-1..Len(input) /\ Len(input) \in next..Len(input)
            BY <1>2, <1>3
        <3> QED BY <1>3, <3>1, ConcatAdjacentSubSeq
    <2> QED BY <1>1, <1>3, <2>1, <2>2, SubSeqFull
<1>12. PICK t \in Seq(Letters) : t = FlattenSeq(Keys(ci)) /\ Text = t \o input
    BY <1>3, TextNow
<1>13. ((t \o pre) \o key) \o rest = t \o ((pre \o key) \o rest)
    <2>1. PICK x \in Seq(Letters), y \in Seq(Letters), z \in Seq(Letters) :
            x = pre /\ y = key /\ z = rest
        BY <1>4
    <2>2. ((t \o x) \o y) \o z = t \o ((x \o y) \o z)
        BY Regroup, SMTT(60)
    <2> QED BY <2>1, <2>2
<1> QED BY <1>10, <1>11, <1>12, <1>13 DEF TextStep

\* A step that ends with something composed did not switch the input method on.
LEMMA NextText ==
    ASSUME IInv, [Next]_vars, Composing, Composing'
    PROVE  TextStep
<1>1. bTrigger /\ bStart /\ bCN /\ bStart' # FALSE /\ bTrigger' # FALSE
    BY DEF IInv, ComposingHasInput, Composing
<1>2. TextInv /\ ci \in Seq(Parts) /\ Len(input) \in Nat
    BY IInvParts, LenProperties DEF TextInv, InputType
<1>3. ASSUME UNCHANGED textVars PROVE TextStep
    BY <1>3 DEF TextStep, Text, CiText
<1>4. CASE OnOff
    BY <1>1, <1>4 DEF OnOff
<1>5. ASSUME NEW m \in Mods, KeyPressed(m) PROVE TextStep
    <2>1. CASE ShiftOfChord(m) \/ ShiftR(m) \/ OtherKey(m) \/ PageUp(m) \/ PageDown(m)
        BY <1>3, <2>1 DEF ShiftOfChord, ShiftR, OtherKey, PageUp, PageDown
    <2>2. CASE ShiftL(m)
        BY <1>1, <2>2 DEF ShiftL, doSwitchCE, Clear
    <2>3. CASE CommitKey(m) \/ CancelKey(m)
        BY <1>1, <2>3 DEF CommitKey, CancelKey, Clear
    <2>4. CASE BackSpace(m)
        BY <1>1, <2>4, BackSpaceText
    <2> QED BY <1>5, <2>1, <2>2, <2>3, <2>4 DEF KeyPressed
<1>6. ASSUME NEW d \in Keys2to9, DigitPressed(d) PROVE TextStep
    <2>1. ASSUME Digit(d) PROVE TextStep
        <3>1. PICK n \in 0..Len(input) - 1 : TakeItem(n, items[Selected(d)].klen)
            BY <2>1 DEF Digit
        <3>2. items[Selected(d)].klen \in Nat
            BY <1>2, <2>1, SelectedLen
        <3>3. n \in Nat
            BY <1>2
        <3> QED BY <1>1, <3>1, <3>2, <3>3, TakeItemText
    <2>2. CASE DigitNoItem(d)
        BY <1>3, <2>2 DEF DigitNoItem
    <2>3. CASE DigitPastEnd(d)
        <3>1. CASE \E pos \in 0..Len(input) - 1 : \E len \in 1..Len(input) - pos :
                        TakeItem(pos, len)
            <4>1. PICK pos \in Nat, len \in Nat : TakeItem(pos, len)
                BY <1>2, <3>1
            <4> QED BY <1>1, <4>1, TakeItemText
        <3>2. CASE TakeItem(0, 0)
            BY <1>1, <3>2, TakeItemText
        <3>3. CASE Clear
            BY <1>1, <3>3 DEF Clear
        <3> QED BY <2>3, <3>1, <3>2, <3>3 DEF DigitPastEnd
    <2> QED BY <1>6, <2>1, <2>2, <2>3 DEF DigitPressed
<1>7. CASE TraySwitchCE
    BY <1>1, <1>7 DEF TraySwitchCE, doSwitchCE, Clear
<1>8. CASE TraySwitchPun
    BY <1>3, <1>8 DEF TraySwitchPun
<1>9. CASE Close
    BY <1>1, <1>9 DEF Close, Clear
<1>10. CASE UNCHANGED vars
    BY <1>3, <1>10 DEF vars
<1> QED BY <1>4, <1>5, <1>6, <1>7, <1>8, <1>9, <1>10, LetterText DEF Next

\* A composition that goes on keeps its letters in their order: it grows by one at the
\* end, or BackSpace takes one away; selecting an item only moves letters from m_input
\* to m_ci (IMPreedit.cpp:27-80, 165-197).
THEOREM TextKeptHolds == Spec => TextKept
<1>1. IInv /\ [Next]_vars =>
        [Composing /\ Composing' =>
            \/ Text' = Text
            \/ \E c \in Letters : Text' = Append(Text, c)
            \/ Len(Text') = Len(Text) - 1]_vars
    BY NextText DEF TextStep
<1> QED BY <1>1, InvariantHolds, PTL DEF Spec, TextKept
=============================================================================
