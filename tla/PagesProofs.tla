-------------------------------- MODULE PagesProofs --------------------------------
(***************************************************************************)
(* Proofs about the pages of the admin: the change list (Changelist), the  *)
(* windows that ask for related objects (Popups), the two-box selector     *)
(* (SelectFilter), the dialogs of the date fields (DatePicker) and the     *)
(* command search (CommandMenu), for any number of rows, fields, windows,  *)
(* options, dates, tabs and links.                                         *)
(***************************************************************************)
EXTENDS Changelist, Popups, SelectFilter, DatePicker, CommandMenu,
        InductionFacts, FunctionTheorems

(***************************************************************************)
(* The change list                                                         *)
(***************************************************************************)
\* The question stands only above a page whose rows are all ticked.
QuestionInv == "question" \in bar => checked = Rows /\ toggle

\* What makes ActionMatchesBar inductive.
ChangelistIInv == ChangelistTypeOK /\ QuestionInv /\ ActionMatchesBar

-----------------------------------------------------------------------------
\* There is a row.
LEMMA RowExists == 1 \in Rows /\ Rows # {} /\ NoRow \notin Rows
BY ChangelistAssumption DEF ChangelistAssumption, Rows, NoRow

\* The counter stays within the page.
LEMMA CountOfRows ==
  ASSUME NEW c, c \subseteq Rows
  PROVE  Cardinality(c) \in 0..RowCount
<1>1. IsFiniteSet(Rows) /\ Cardinality(Rows) = RowCount
  BY FS_Interval, ChangelistAssumption DEF ChangelistAssumption, Rows
<1>2. IsFiniteSet(c) /\ Cardinality(c) <= Cardinality(Rows)
  BY <1>1, FS_Subset
<1>3. Cardinality(c) \in Nat
  BY <1>2, FS_CardinalityType
<1> QED BY <1>1, <1>2, <1>3, ChangelistAssumption DEF ChangelistAssumption

\* What updateCounter leaves: b is the bar its caller left, and it may show the
\* counter on a page with all rows ticked only if the actions ran on the page before.
LEMMA Updated ==
  ASSUME NEW c, NEW b, c \subseteq Rows, b \subseteq BarParts,
         ChangelistTypeOK, checked' = c, UpdateCounter(c, b),
         c = Rows /\ "counter" \in b => ~across
  PROVE  /\ counted' \in 0..RowCount /\ toggle' \in BOOLEAN /\ across' \in BOOLEAN
         /\ bar' \subseteq BarParts
         /\ QuestionInv' /\ ActionMatchesBar'
<1> USE DEF UpdateCounter
<1>1. counted' \in 0..RowCount
  BY CountOfRows
<1>2. toggle' \in BOOLEAN /\ across' \in BOOLEAN
  BY DEF ChangelistTypeOK
<1>3. bar' \subseteq BarParts
  BY DEF ShowQuestion, Reset, BarParts
<1>4. QuestionInv'
  BY DEF QuestionInv, ShowQuestion, Reset
<1>5. ActionMatchesBar'
  <2>1. CASE c = Rows
    BY <2>1 DEF ActionMatchesBar, ShowQuestion
  <2>2. CASE c # Rows
    BY <2>2 DEF ActionMatchesBar
  <2> QED BY <2>1, <2>2
<1> QED BY <1>1, <1>2, <1>3, <1>4, <1>5

\* ChangelistIInv holds at first.
LEMMA ChangelistStart == ChangelistInit => ChangelistIInv
<1> SUFFICES ASSUME ChangelistInit PROVE ChangelistIInv
  OBVIOUS
<1> USE DEF ChangelistInit
<1>1. Cardinality({}) = 0
  BY FS_EmptySet
<1>2. ChangelistTypeOK
  <2>1. 0 \in 0..RowCount
    BY ChangelistAssumption DEF ChangelistAssumption
  <2> QED BY <2>1 DEF ChangelistTypeOK, BarParts
<1>3. QuestionInv /\ ActionMatchesBar
  BY <1>1 DEF QuestionInv, ActionMatchesBar
<1> QED BY <1>2, <1>3 DEF ChangelistIInv

\* Ticking and unticking: what the boxes, the highlight and the bar become.
LEMMA TickedRows ==
  ASSUME ChangelistIInv, NEW s, s \subseteq Rows, s # {}, NEW v \in BOOLEAN
  PROVE  /\ Ticked(s, v) \subseteq Rows /\ Lit(s, v) \subseteq Rows
         /\ CheckerBar(bar, v) \subseteq BarParts
         /\ Ticked(s, v) = Rows /\ "counter" \in CheckerBar(bar, v) => ~across
<1> USE DEF ChangelistIInv, ChangelistTypeOK, Ticked, Lit, CheckerBar
<1>1. CASE v
  BY <1>1 DEF ShowQuestion, BarParts, ActionMatchesBar
<1>2. CASE ~v
  <2>1. Ticked(s, v) # Rows
    BY <1>2
  <2> QED BY <1>2, <2>1 DEF Reset, BarParts
<1> QED BY <1>1, <1>2

\* ChangelistIInv is inductive.
LEMMA ChangelistKept ==
  ChangelistIInv /\ [ChangelistNext]_changelistVars => ChangelistIInv'
<1> SUFFICES ASSUME ChangelistIInv, [ChangelistNext]_changelistVars PROVE ChangelistIInv'
  OBVIOUS
<1>0. ChangelistTypeOK /\ QuestionInv /\ ActionMatchesBar
  BY DEF ChangelistIInv
<1>1. CASE ClickToggle
  <2>1. /\ Ticked(Rows, ~toggle) \subseteq Rows /\ Lit(Rows, ~toggle) \subseteq Rows
        /\ CheckerBar(bar, ~toggle) \subseteq BarParts
        /\ Ticked(Rows, ~toggle) = Rows /\ "counter" \in CheckerBar(bar, ~toggle) => ~across
    BY <1>0, TickedRows, RowExists DEF ChangelistTypeOK
  <2>2. /\ checked' = Ticked(Rows, ~toggle)
        /\ UpdateCounter(Ticked(Rows, ~toggle), CheckerBar(bar, ~toggle))
        /\ lit' = Lit(Rows, ~toggle)
        /\ lastChecked' = lastChecked /\ edited' = edited /\ leaving' = leaving
    BY <1>1 DEF ClickToggle
  <2>3. /\ counted' \in 0..RowCount /\ toggle' \in BOOLEAN /\ across' \in BOOLEAN
        /\ bar' \subseteq BarParts /\ QuestionInv' /\ ActionMatchesBar'
    BY <1>0, <2>1, <2>2, Updated
  <2> QED BY <1>0, <2>1, <2>2, <2>3 DEF ChangelistIInv, ChangelistTypeOK
<1>2. ASSUME NEW r \in Rows, NEW shift \in BOOLEAN, ClickRow(r, shift)
      PROVE  ChangelistIInv'
  <2> DEFINE s == Affected(r, shift)
             v == r \notin checked
  <2>1. s \subseteq Rows /\ s # {}
    <3>1. r \in s
      <4>1. r <= r
        BY DEF Rows
      <4>2. CASE lastChecked # NoRow /\ shift
        <5>1. lastChecked \in Rows
          BY <1>0, <4>2 DEF ChangelistTypeOK
        <5>2. r <= lastChecked \/ lastChecked <= r
          BY <5>1 DEF Rows
        <5> QED BY <4>1, <4>2, <5>2 DEF Affected
      <4>3. CASE ~(lastChecked # NoRow /\ shift)
        BY <4>3 DEF Affected
      <4> QED BY <4>2, <4>3
    <3>2. s \subseteq Rows
      BY DEF Affected
    <3> QED BY <3>1, <3>2
  <2>2. /\ checked' = Ticked(s, v)
        /\ UpdateCounter(Ticked(s, v), CheckerBar(bar, v))
        /\ lit' = Lit(s, v)
        /\ lastChecked' = r /\ edited' = edited /\ leaving' = leaving
    BY <1>2 DEF ClickRow
  <2>3. v \in BOOLEAN
    OBVIOUS
  <2> HIDE DEF s, v
  <2>4. /\ Ticked(s, v) \subseteq Rows /\ Lit(s, v) \subseteq Rows
        /\ CheckerBar(bar, v) \subseteq BarParts
        /\ Ticked(s, v) = Rows /\ "counter" \in CheckerBar(bar, v) => ~across
    BY <2>1, <2>3, TickedRows
  <2>5. /\ counted' \in 0..RowCount /\ toggle' \in BOOLEAN /\ across' \in BOOLEAN
        /\ bar' \subseteq BarParts /\ QuestionInv' /\ ActionMatchesBar'
    BY <1>0, <2>2, <2>4, Updated
  <2> QED BY <1>0, <2>2, <2>4, <2>5 DEF ChangelistIInv, ChangelistTypeOK
<1>3. CASE ClickAcross
  <2>1. ChangelistTypeOK'
    BY <1>0, <1>3 DEF ClickAcross, ChangelistTypeOK, ShowClear, BarParts
  <2>2. QuestionInv' /\ ActionMatchesBar'
    BY <1>0, <1>3 DEF ClickAcross, QuestionInv, ActionMatchesBar, ShowClear
  <2> QED BY <2>1, <2>2 DEF ChangelistIInv
<1>4. CASE ClickClear
  <2>0. 0 \in 0..RowCount
    BY ChangelistAssumption DEF ChangelistAssumption
  <2>1. ChangelistTypeOK'
    BY <1>0, <1>4, <2>0 DEF ClickClear, ChangelistTypeOK, Reset, BarParts
  <2>2. QuestionInv' /\ ActionMatchesBar'
    BY <1>0, <1>4, FS_EmptySet DEF ClickClear, QuestionInv, ActionMatchesBar, Reset
  <2> QED BY <2>1, <2>2 DEF ChangelistIInv
<1>5. CASE EditRow \/ RunAction \/ UNCHANGED changelistVars
  <2>1. /\ checked' = checked /\ lit' = lit /\ toggle' = toggle /\ across' = across
        /\ bar' = bar /\ counted' = counted /\ lastChecked' = lastChecked
    BY <1>5 DEF EditRow, RunAction, changelistVars
  <2>2. edited' \in BOOLEAN /\ leaving' \in BOOLEAN
    BY <1>0, <1>5 DEF EditRow, RunAction, changelistVars, ChangelistTypeOK
  <2> QED BY <1>0, <2>1, <2>2
          DEF ChangelistIInv, ChangelistTypeOK, QuestionInv, ActionMatchesBar
<1>6. CASE ComeBack
  <2>1. /\ checked' = checked /\ UpdateCounter(checked, bar) /\ lit' = lit
        /\ lastChecked' = lastChecked /\ edited' = edited /\ leaving' = FALSE
    BY <1>6 DEF ComeBack
  <2>2. /\ counted' \in 0..RowCount /\ toggle' \in BOOLEAN /\ across' \in BOOLEAN
        /\ bar' \subseteq BarParts /\ QuestionInv' /\ ActionMatchesBar'
    BY <1>0, <2>1, Updated DEF ChangelistTypeOK, ActionMatchesBar
  <2> QED BY <1>0, <2>1, <2>2 DEF ChangelistIInv, ChangelistTypeOK
<1>7. CASE ComeBackRebuilt
  <2>1. ChangelistTypeOK'
    BY <1>0, <1>7, CountOfRows
       DEF ComeBackRebuilt, ChangelistTypeOK, ShowQuestion, BarParts
  <2>2. QuestionInv' /\ ActionMatchesBar'
    BY <1>0, <1>7 DEF ComeBackRebuilt, QuestionInv, ActionMatchesBar, ShowQuestion
  <2> QED BY <2>1, <2>2 DEF ChangelistIInv
<1> QED BY <1>1, <1>2, <1>3, <1>4, <1>5, <1>6, <1>7 DEF ChangelistNext

-----------------------------------------------------------------------------
\* An action reaches objects beyond the page only while the whole page is ticked, and
\* runs on what the counter says as long as it is shown, on a page of any length and
\* after any clicks, with or without Shift, and returns to the page (actions.js).
THEOREM ActionsRunOnWhatIsShown == ChangelistSpec => []ActionMatchesBar
<1>1. ChangelistIInv => ActionMatchesBar
  BY DEF ChangelistIInv
<1> QED BY ChangelistStart, ChangelistKept, <1>1, PTL DEF ChangelistSpec

(***************************************************************************)
(* Windows that ask for related objects                                    *)
(***************************************************************************)
\* What the lists of the windows say of their levels: a popup is one level below every
\* page that has asked for it, also the page it has been taken from.
OneLevelUp ==
  \A w \in windows \cup {Main} : \A h \in related[w] \cap windows :
    info[h].level = PopupIndex(w) + 1

\* What makes EveryPopupHasItsAsker inductive.
PopupsIInv == PopupsTypeOK /\ render \in [windows \cup {Main} -> Nat]
              /\ EveryPopupHasItsAsker /\ OneLevelUp

\* The page itself is none of its popups.
LEMMA MainIsNoPopup ==
  ASSUME PopupsTypeOK
  PROVE  Main \notin windows /\ windows \subseteq Handles
<1>1. opened \in Nat /\ opened <= MaxWindows /\ MaxWindows \in Nat
  BY PopupsAssumption DEF PopupsTypeOK, PopupsAssumption
<1>2. \A h \in 1..opened : h \in 1..MaxWindows /\ h # 0
  BY <1>1
<1> QED BY <1>2 DEF PopupsTypeOK, Main, Handles

\* dismissChildPopups reaches every window below, however deep, and none of the same
\* level or above.
LEMMA ChildrenOf ==
  ASSUME PopupsIInv, NEW w \in windows \cup {Main}
  PROVE  /\ Children(w) \subseteq windows
         /\ related[w] \cap windows \subseteq Children(w)
         /\ \A x \in Children(w) : related[x] \cap windows \subseteq Children(w)
         /\ \A x \in Children(w) : info[x].level > PopupIndex(w)
<1> DEFINE N == Cardinality(Handles)
           R == [x \in windows |-> related[x] \cap windows]
           c == related[w] \cap windows
           Next1 == [T \in SUBSET windows |-> T \cup UNION {R[x] : x \in T}]
           F(g) == [n \in 0..N |->
                      IF n = 0 THEN related[w] \cap windows
                      ELSE g[n - 1] \cup UNION {related[x] \cap windows : x \in g[n - 1]}]
           within == CHOOSE g : g = F(g)
<1>1. /\ IsFiniteSet(Handles) /\ N \in Nat
      /\ IsFiniteSet(windows) /\ Cardinality(windows) <= N
  <2>1. IsFiniteSet(Handles) /\ Cardinality(Handles) \in Nat
    <3>1. 1 \in Int /\ MaxWindows \in Int
      BY PopupsAssumption DEF PopupsAssumption
    <3>2. IsFiniteSet(1..MaxWindows)
      BY <3>1, FS_Interval
    <3> QED BY <3>2, FS_CardinalityType DEF Handles
  <2>2. windows \in SUBSET Handles
    BY MainIsNoPopup DEF PopupsIInv
  <2> QED BY <2>1, <2>2, FS_Subset
<1>2. R \in [windows -> SUBSET windows] /\ c \in SUBSET windows
  OBVIOUS
<1>3. \E g \in [0..N -> SUBSET windows] :
         g[0] = c /\ \A n \in 1..N : g[n] = g[n - 1] \cup UNION {R[x] : x \in g[n - 1]}
  <2> DEFINE D == [n \in 1..N |-> Next1]
  <2>1. Next1 \in [SUBSET windows -> SUBSET windows]
    BY <1>2
  <2>2. StaysIn(D, N, SUBSET windows)
    <3> HIDE DEF Next1, N
    <3> QED BY <2>1 DEF StaysIn
  <2>3. PICK g \in [0..N -> SUBSET windows] :
          g[0] = c /\ \A n \in 1..N : g[n] = D[n][g[n - 1]]
    <3>1. PICK V, a, n, d :
            /\ V = SUBSET windows /\ a = c /\ n = N /\ d = D
            /\ n \in Nat /\ StaysIn(d, n, V) /\ a \in V
      BY <1>1, <1>2, <2>2
    <3>2. n \in Nat /\ StaysIn(d, n, V) /\ a \in V
      BY <3>1
    <3>3. PICK g \in [0..n -> V] : g[0] = a /\ \A i \in 1..n : g[i] = d[i][g[i - 1]]
      BY <3>2, Iteration
    <3> HIDE DEF D, c, N
    <3> QED BY <3>1, <3>3
  <2>4. ASSUME NEW n \in 1..N
        PROVE  g[n] = g[n - 1] \cup UNION {R[x] : x \in g[n - 1]}
    <3>1. n - 1 \in 0..N
      BY <1>1
    <3>2. g[n - 1] \in SUBSET windows
      BY <3>1
    <3>3. g[n] = Next1[g[n - 1]]
      BY <2>3
    <3> HIDE DEF R
    <3> QED BY <3>2, <3>3
  <2> QED BY <2>3, <2>4
<1>4. \E g : g = F(g)
  <2> PICK g \in [0..N -> SUBSET windows] :
         g[0] = c /\ \A n \in 1..N : g[n] = g[n - 1] \cup UNION {R[x] : x \in g[n - 1]}
    BY <1>3
  <2>1. \A n \in 1..N : UNION {R[x] : x \in g[n - 1]} = UNION {related[x] \cap windows : x \in g[n - 1]}
    <3> SUFFICES ASSUME NEW n \in 1..N
                 PROVE  UNION {R[x] : x \in g[n - 1]} = UNION {related[x] \cap windows : x \in g[n - 1]}
      OBVIOUS
    <3>1. g[n - 1] \in SUBSET windows
      BY <1>1
    <3> QED BY <3>1
  <2>2. g = F(g)
    <3> HIDE DEF R
    <3> QED BY <1>1, <2>1
  <2> QED BY <2>2
<1>5. within = F(within)
  <2> HIDE DEF F
  <2> QED BY <1>4
<1>6. Children(w) = within[N]
  BY DEF Children
<1>7. /\ DOMAIN within = 0..N
      /\ within[0] = c
      /\ \A n \in 1..N : within[n] = within[n - 1]
                           \cup UNION {related[x] \cap windows : x \in within[n - 1]}
  <2>1. PICK g : g = within
    OBVIOUS
  <2> HIDE DEF within
  <2>2. g = F(g)
    BY <1>5, <2>1
  <2>3. DOMAIN g = 0..N /\ g[0] = c
    BY <1>1, <2>2
  <2>4. \A n \in 1..N : g[n] = g[n - 1] \cup UNION {related[x] \cap windows : x \in g[n - 1]}
    BY <1>1, <2>2
  <2> QED BY <2>1, <2>3, <2>4
<1>8. \A n \in 0..N : within[n] \in SUBSET windows
  <2> DEFINE S == {n \in 0..N : within[n] \in SUBSET windows}
  <2>1. 0 \in S
    <3>1. 0 \in 0..N
      BY <1>1
    <3> HIDE DEF within, N
    <3> QED BY <1>2, <1>7, <3>1
  <2>2. ASSUME NEW n \in 0..(N - 1), n \in S
        PROVE  n + 1 \in S
    <3>1. n + 1 \in 1..N /\ (n + 1) - 1 = n /\ n + 1 \in 0..N
      BY <1>1
    <3>2. within[n + 1] = within[n] \cup UNION {related[x] \cap windows : x \in within[n]}
      BY <1>7, <3>1
    <3> HIDE DEF within
    <3> QED BY <2>2, <3>1, <3>2
  <2> HIDE DEF S, N
  <2>3. \A n \in 0..N : n \in S
    BY <1>1, <2>1, <2>2, Induction
  <2> QED BY <2>3 DEF S
<1>9. /\ within \in [0..N -> SUBSET windows]
      /\ \A n \in 1..N : within[n] = within[n - 1] \cup UNION {R[x] : x \in within[n - 1]}
  <2> HIDE DEF within
  <2>1. within \in [0..N -> SUBSET windows]
    BY <1>5, <1>8
  <2>2. ASSUME NEW n \in 1..N
        PROVE  within[n] = within[n - 1] \cup UNION {R[x] : x \in within[n - 1]}
    <3>1. n - 1 \in 0..N
      BY <1>1
    <3>2. PICK T \in SUBSET windows : T = within[n - 1]
      BY <1>8, <3>1
    <3>3. UNION {R[x] : x \in T} = UNION {related[x] \cap windows : x \in T}
      OBVIOUS
    <3> HIDE DEF R
    <3> QED BY <1>7, <3>2, <3>3
  <2> QED BY <2>1, <2>2
<1>10. /\ within[0] \subseteq within[N]
       /\ \A x \in within[N] : R[x] \subseteq within[N]
       /\ \A A : within[0] \subseteq A /\ (\A x \in A \cap windows : R[x] \subseteq A)
                   => within[N] \subseteq A
  <2> HIDE DEF within, R, N
  <2> QED BY <1>1, <1>2, <1>9, Reached
<1>11. within[N] \subseteq windows
  <2> HIDE DEF within, N
  <2>1. N \in 0..N
    BY <1>1
  <2> QED BY <1>8, <2>1
<1>12. \A x \in within[N] : related[x] \cap windows \subseteq within[N]
  <2> HIDE DEF within
  <2> QED BY <1>10, <1>11
<1>13. \A x \in within[N] : info[x].level > PopupIndex(w)
  <2> DEFINE A == {x \in windows : info[x].level > PopupIndex(w)}
  <2>1. /\ PopupIndex(w) \in Nat
        /\ \A x \in windows : PopupIndex(x) = info[x].level /\ info[x].level \in Nat
    BY MainIsNoPopup DEF PopupsIInv, PopupsTypeOK, PopupIndex, Info
  <2>2. c \subseteq A
    BY <2>1 DEF PopupsIInv, OneLevelUp
  <2>3. \A x \in A \cap windows : R[x] \subseteq A
    BY <2>1 DEF PopupsIInv, OneLevelUp
  <2>4. within[N] \subseteq A
    <3> HIDE DEF within, A, R
    <3> QED BY <1>7, <1>10, <2>2, <2>3
  <2> QED BY <2>4
<1>14. c \subseteq within[N]
  <2> HIDE DEF within, c
  <2> QED BY <1>7, <1>10
<1> HIDE DEF within
<1> QED BY <1>6, <1>11, <1>12, <1>13, <1>14

\* The levels of the windows are numbers, the main page's is 0.
LEMMA Levels ==
  ASSUME PopupsIInv
  PROVE  /\ Main \notin windows /\ windows \subseteq Handles
         /\ \A x \in windows : PopupIndex(x) = info[x].level /\ info[x].level \in Nat
         /\ \A w \in windows \cup {Main} : PopupIndex(w) \in Nat
BY MainIsNoPopup DEF PopupsIInv, PopupsTypeOK, PopupIndex, Info

\* When a page goes, every window that is left was asked for by a page that stays.
LEMMA UnloadKeeps ==
  ASSUME PopupsIInv, NEW w \in windows \cup {Main}, NEW closing, closing \subseteq windows \cap {w},
         Unload(w, closing), opened' = opened,
         render' \in [windows' \cup {Main} -> Nat],
         \A x \in windows' \cup {Main} : x # w => render'[x] = render[x]
  PROVE  /\ windows' \subseteq 1..opened'
         /\ DOMAIN info' = windows'
         /\ \A h \in windows' : info'[h] \in Info
         /\ related' \in [windows' \cup {Main} -> SUBSET windows']
         /\ DOMAIN render' = windows' \cup {Main}
         /\ EveryPopupHasItsAsker'
         /\ OneLevelUp'
<1> PICK gone : gone = closing \cup Children(w)
  OBVIOUS
<1>1. /\ related[w] \cap windows \subseteq gone
      /\ \A x \in Children(w) : related[x] \cap windows \subseteq gone
      /\ gone \subseteq windows
  BY ChildrenOf
<1>2. /\ windows' = windows \ gone
      /\ \A x \in windows' : info'[x] = info[x]
      /\ DOMAIN info' = windows'
      /\ DOMAIN related' = windows' \cup {Main}
      /\ \A x \in windows' \cup {Main} :
           related'[x] = IF x = w THEN {} ELSE related[x] \ gone
  BY DEF Unload, Restrict
<1>3. \A x \in windows' \cup {Main} : PopupIndex(x)' = PopupIndex(x)
  BY <1>2 DEF PopupIndex
<1>4. related' \in [windows' \cup {Main} -> SUBSET windows']
  <2>1. \A x \in windows' \cup {Main} : related'[x] \subseteq windows'
    <3>1. related \in [windows \cup {Main} -> SUBSET windows]
      BY DEF PopupsIInv, PopupsTypeOK
    <3>2. \A x \in windows' \cup {Main} : related[x] \subseteq windows
      BY <1>2, <3>1
    <3> QED BY <1>2, <3>2
  <2>2. related' = [x \in windows' \cup {Main} |-> IF x = w THEN {} ELSE related[x] \ gone]
    BY DEF Unload
  <2> QED BY <2>1, <2>2
<1>5. EveryPopupHasItsAsker'
  <2> SUFFICES ASSUME NEW h \in windows'
               PROVE  LET o == info'[h].opener
                      IN /\ o \in windows' \cup {Main}
                         /\ h \in related'[o]
                         /\ info'[h].asked = render'[o]
                         /\ info'[h].level = (IF o = Main THEN 0 ELSE info'[o].level) + 1
    BY DEF EveryPopupHasItsAsker, PopupIndex
  <2> PICK o : o = info[h].opener
    OBVIOUS
  <2>1. /\ h \in windows /\ h \notin gone
        /\ info'[h] = info[h]
    BY <1>2
  <2>2. /\ o \in windows \cup {Main}
        /\ h \in related[o]
        /\ info[h].asked = render[o]
        /\ info[h].level = PopupIndex(o) + 1
    BY <2>1 DEF PopupsIInv, EveryPopupHasItsAsker
  <2>3. o # w /\ o \notin gone
    BY <1>1, <2>1, <2>2
  <2>4. o \in windows' \cup {Main}
    BY <1>2, <2>2, <2>3
  <2>5. h \in related'[o]
    BY <1>2, <2>1, <2>2, <2>3, <2>4
  <2> QED BY <1>3, <2>1, <2>2, <2>3, <2>4, <2>5 DEF PopupIndex
<1>6. OneLevelUp'
  <2> SUFFICES ASSUME NEW v \in windows' \cup {Main}, NEW x \in related'[v] \cap windows'
               PROVE  info'[x].level = PopupIndex(v)' + 1
    BY DEF OneLevelUp
  <2>1. v \in windows \cup {Main} /\ x \in related[v] \cap windows /\ info'[x] = info[x]
    BY <1>2
  <2> QED BY <1>3, <2>1 DEF PopupsIInv, OneLevelUp
<1>7. windows' \subseteq 1..opened' /\ \A h \in windows' : info'[h] \in Info
  BY <1>2 DEF PopupsIInv, PopupsTypeOK
<1> QED BY <1>2, <1>4, <1>5, <1>6, <1>7

\* A click opens a window or takes one over, which then has no popups of its own.
LEMMA ShowKeeps ==
  ASSUME PopupsIInv, NEW w \in windows \cup {Main}, NEW f \in Fields, NEW kind \in Kinds,
         NEW object \in Objects \cup {None}, Show(w, f, kind, object)
  PROVE  /\ opened' \in 0..MaxWindows
         /\ windows' \subseteq 1..opened'
         /\ DOMAIN info' = windows'
         /\ \A h \in windows' : info'[h] \in Info
         /\ related' \in [windows' \cup {Main} -> SUBSET windows']
         /\ render' \in [windows' \cup {Main} -> Nat]
         /\ EveryPopupHasItsAsker'
         /\ OneLevelUp'
<1> DEFINE level == PopupIndex(w) + 1
           Asked == [field |-> f, level |-> level, opener |-> w, asked |-> render[w],
                     kind |-> kind, object |-> object]
           Gone(h) == IF h \in windows THEN Children(h) ELSE {}
           Left(h) == (windows \cup {h}) \ Gone(h)
<1>1. PICK h \in IF Named(f, level) # {} THEN Named(f, level) ELSE {opened + 1} \cap Handles :
        /\ windows' = Left(h)
        /\ opened' = IF h \in windows THEN opened ELSE h
        /\ info' = [x \in Left(h) |-> IF x = h THEN Asked ELSE info[x]]
        /\ related' = [x \in Left(h) \cup {Main} |->
                         IF x = h THEN {}
                         ELSE [related EXCEPT ![w] = @ \cup {h}][x] \ Gone(h)]
        /\ render' = [x \in Left(h) \cup {Main} |->
                        IF x \in DOMAIN render THEN render[x] ELSE 0]
  BY DEF Show
<1> PICK gone : gone = Gone(h)
  OBVIOUS
<1>2. \/ h \in windows /\ info[h].level = level
      \/ h \notin windows /\ h = opened + 1 /\ h \in Handles
  <2>1. opened \in Nat /\ windows \subseteq 1..opened
    BY DEF PopupsIInv, PopupsTypeOK
  <2>2. opened + 1 \notin windows
    BY <2>1
  <2> QED BY <1>1, <2>2 DEF Named
<1>3. /\ gone \subseteq windows /\ h \notin gone /\ w \notin gone /\ w # h
      /\ \A x \in gone : related[x] \cap windows \subseteq gone
      /\ h \in windows => related[h] \cap windows \subseteq gone
  <2>1. CASE h \in windows
    <3>1. /\ gone \subseteq windows
          /\ related[h] \cap windows \subseteq gone
          /\ \A x \in gone : related[x] \cap windows \subseteq gone
          /\ \A x \in gone : info[x].level > PopupIndex(h)
      BY <2>1, ChildrenOf
    <3> HIDE DEF Gone
    <3>2. PopupIndex(h) = PopupIndex(w) + 1
      BY <1>2, <2>1, Levels
    <3>3. h \notin gone /\ w \notin gone /\ w # h
      BY <2>1, <3>1, <3>2, Levels
    <3> QED BY <3>1, <3>3
  <2>2. CASE h \notin windows
    <3>1. h # Main
      BY <1>2, <2>2 DEF Handles, Main
    <3> QED BY <2>2, <3>1
  <2> QED BY <2>1, <2>2
<1>4. /\ windows' = (windows \cup {h}) \ gone
      /\ info' = [x \in windows' |-> IF x = h THEN Asked ELSE info[x]]
      /\ DOMAIN info' = windows'
      /\ h \in windows' /\ w \in windows' \cup {Main} /\ h # Main
  <2>1. h # Main
    BY <1>2, Levels DEF Handles, Main
  <2> QED BY <1>1, <1>3, <2>1
<1>5. /\ DOMAIN related' = windows' \cup {Main}
      /\ related'[h] = {}
      /\ related'[w] = (related[w] \cup {h}) \ gone
      /\ \A x \in windows' \cup {Main} : x # h /\ x # w => related'[x] = related[x] \ gone
  <2>1. DOMAIN related = windows \cup {Main}
    BY DEF PopupsIInv, PopupsTypeOK
  <2>2. related' = [x \in windows' \cup {Main} |->
                      IF x = h THEN {} ELSE [related EXCEPT ![w] = @ \cup {h}][x] \ gone]
    BY <1>1
  <2>3. \A x : x \in windows' \cup {Main} /\ x # h => x \in windows \cup {Main}
    BY <1>4
  <2> HIDE DEF Gone, Left
  <2> QED BY <1>3, <1>4, <2>1, <2>2, <2>3
<1>6. /\ render' \in [windows' \cup {Main} -> Nat]
      /\ \A x \in (windows \cup {Main}) \ gone : render'[x] = render[x]
  <2>1. render \in [windows \cup {Main} -> Nat]
    BY DEF PopupsIInv
  <2>2. render' = [x \in windows' \cup {Main} |-> IF x \in DOMAIN render THEN render[x] ELSE 0]
    BY <1>1
  <2>3. \A x \in (windows \cup {Main}) \ gone : x \in windows' \cup {Main}
    BY <1>4
  <2> HIDE DEF Gone, Left
  <2> QED BY <2>1, <2>2, <2>3
<1>7. /\ info'[h] = Asked
      /\ \A x \in windows' : x # h => x \in windows /\ x \notin gone /\ info'[x] = info[x]
      /\ \A x \in windows' \cup {Main} : x # h => PopupIndex(x)' = PopupIndex(x)
  <2>1. info'[h] = Asked /\ \A x \in windows' : x # h => info'[x] = info[x]
    BY <1>4
  <2>2. \A x \in windows' : x # h => x \in windows /\ x \notin gone
    BY <1>4
  <2> QED BY <2>1, <2>2 DEF PopupIndex
<1>8. PopupIndex(w) \in Nat /\ PopupIndex(h)' = level
  BY <1>4, <1>7, Levels DEF PopupIndex
<1> HIDE DEF Gone, Left
<1>9. opened' \in 0..MaxWindows /\ windows' \subseteq 1..opened'
  <2>1. opened \in 0..MaxWindows /\ windows \subseteq 1..opened
    BY DEF PopupsIInv, PopupsTypeOK
  <2>2. CASE h \in windows
    BY <1>1, <1>4, <2>1, <2>2
  <2>3. CASE h \notin windows
    <3>1. h = opened + 1 /\ h \in 1..MaxWindows /\ opened' = h
      BY <1>1, <1>2, <2>3 DEF Handles
    <3>2. \A x \in windows \cup {h} : x \in 1..h
      BY <2>1, <3>1
    <3>3. h \in 0..MaxWindows
      BY <3>1, PopupsAssumption DEF PopupsAssumption
    <3> QED BY <1>4, <3>1, <3>2, <3>3
  <2> QED BY <2>2, <2>3
<1>10. \A x \in windows' : info'[x] \in Info
  <2>1. w \in Handles \cup {Main} /\ render[w] \in Nat
    BY Levels DEF PopupsIInv
  <2>2. Asked \in Info
    BY <1>8, <2>1 DEF Info
  <2> HIDE DEF Asked
  <2> QED BY <1>7, <2>2 DEF PopupsIInv, PopupsTypeOK
<1>11. related' \in [windows' \cup {Main} -> SUBSET windows']
  <2>1. related \in [windows \cup {Main} -> SUBSET windows]
    BY DEF PopupsIInv, PopupsTypeOK
  <2>2. \A x \in windows' \cup {Main} : related'[x] \subseteq windows'
    BY <1>4, <1>5, <1>7, <2>1
  <2>3. related' = [x \in windows' \cup {Main} |-> related'[x]]
    BY <1>1, <1>5
  <2> QED BY <2>2, <2>3
<1>12. EveryPopupHasItsAsker'
  <2> SUFFICES ASSUME NEW x \in windows'
               PROVE  LET o == info'[x].opener
                      IN /\ o \in windows' \cup {Main}
                         /\ x \in related'[o]
                         /\ info'[x].asked = render'[o]
                         /\ info'[x].level = (IF o = Main THEN 0 ELSE info'[o].level) + 1
    BY DEF EveryPopupHasItsAsker, PopupIndex
  <2>1. CASE x = h
    <3>1. /\ info'[h].opener = w /\ info'[h].asked = render[w] /\ info'[h].level = PopupIndex(w) + 1
      BY <1>7
    <3>2. w \in (windows \cup {Main}) \ gone /\ PopupIndex(w)' = PopupIndex(w)
      BY <1>3, <1>4, <1>7, Levels
    <3> QED BY <1>4, <1>5, <1>6, <1>3, <2>1, <3>1, <3>2 DEF PopupIndex
  <2>2. CASE x # h
    <3> PICK o : o = info[x].opener
      OBVIOUS
    <3>1. x \in windows /\ x \notin gone /\ info'[x] = info[x]
      BY <1>7, <2>2
    <3>2. /\ o \in windows \cup {Main}
          /\ x \in related[o]
          /\ info[x].asked = render[o]
          /\ info[x].level = PopupIndex(o) + 1
      BY <3>1 DEF PopupsIInv, EveryPopupHasItsAsker
    <3>3. o \notin gone /\ o # h
      BY <1>3, <1>4, <3>1, <3>2
    <3>4. o \in windows' \cup {Main} /\ x \in related'[o]
      BY <1>4, <1>5, <3>1, <3>2, <3>3
    <3> QED BY <1>6, <1>7, <3>1, <3>2, <3>3, <3>4 DEF PopupIndex
  <2> QED BY <2>1, <2>2
<1>13. OneLevelUp'
  <2> SUFFICES ASSUME NEW v \in windows' \cup {Main}, NEW x \in related'[v] \cap windows'
               PROVE  info'[x].level = PopupIndex(v)' + 1
    BY DEF OneLevelUp
  <2>1. v # h /\ PopupIndex(v)' = PopupIndex(v) /\ v \in windows \cup {Main}
    BY <1>4, <1>5, <1>7
  <2>2. info'[h].level = PopupIndex(w) + 1
    BY <1>7
  <2>3. CASE x = h /\ v = w
    BY <2>1, <2>2, <2>3
  <2>4. CASE x = h /\ v # w
    <3>1. h \in related[v]
      BY <1>5, <2>1, <2>4
    <3>2. h \in windows /\ info[h].level = level
      BY <1>2, <2>1, <3>1 DEF PopupsIInv, PopupsTypeOK
    <3>3. info[h].level = PopupIndex(v) + 1
      BY <2>1, <3>1, <3>2 DEF PopupsIInv, OneLevelUp
    <3> QED BY <2>1, <2>2, <2>4, <3>2, <3>3
  <2>5. CASE x # h
    <3>1. x \in related[v] \cap windows /\ info'[x] = info[x]
      BY <1>5, <1>7, <2>1, <2>5
    <3> QED BY <2>1, <3>1 DEF PopupsIInv, OneLevelUp
  <2> QED BY <2>3, <2>4, <2>5
<1> QED BY <1>4, <1>6, <1>9, <1>10, <1>11, <1>12, <1>13

\* What the fields of the main page hold.
FieldsInv ==
  /\ exist \subseteq Objects
  /\ options \in [Fields -> SUBSET Objects]
  /\ chosen \in [Fields -> Objects \cup {None}]
  /\ linked \in [Fields -> Objects \cup {None}]
  /\ LinksFollowChoice

\* An answer, a new rendering and a choice leave the links at what is chosen.
LEMMA FieldsKept ==
  ASSUME FieldsInv, NEW f \in Fields, NEW object \in Objects \cup {None},
         \/ AddToFields(f) \/ ChangeInFields(f) \/ DeleteFromFields(f, object)
         \/ object \in options[f] \cup {None} /\ chosen' = [chosen EXCEPT ![f] = object]
            /\ Follow({f}) /\ UNCHANGED <<exist, options>>
         \/ /\ options' = [g \in Fields |-> exist]
            /\ chosen' = [g \in Fields |-> IF chosen[g] \in exist THEN chosen[g] ELSE None]
            /\ Follow(Fields)
            /\ UNCHANGED exist
         \/ UNCHANGED pageVars
  PROVE  FieldsInv'
<1> USE DEF FieldsInv, LinksFollowChoice, Follow
<1>1. CASE AddToFields(f)
  BY <1>1 DEF AddToFields
<1>2. CASE ChangeInFields(f)
  BY <1>2 DEF ChangeInFields
<1>3. CASE DeleteFromFields(f, object)
  BY <1>3 DEF DeleteFromFields
<1>4. CASE /\ object \in options[f] \cup {None} /\ chosen' = [chosen EXCEPT ![f] = object]
           /\ Follow({f}) /\ UNCHANGED <<exist, options>>
  BY <1>4
<1>5. CASE /\ options' = [g \in Fields |-> exist]
           /\ chosen' = [g \in Fields |-> IF chosen[g] \in exist THEN chosen[g] ELSE None]
           /\ Follow(Fields)
           /\ UNCHANGED exist
  BY <1>5
<1>6. CASE UNCHANGED pageVars
  BY <1>6 DEF pageVars
<1> QED BY <1>1, <1>2, <1>3, <1>4, <1>5, <1>6

\* The invariant of all ten variables.
PopupsInv == PopupsIInv /\ LinksFollowChoice

\* The popups and the fields have each their part of it.
LEMMA PopupsParts ==
  PopupsInv <=> /\ FieldsInv
                /\ opened \in 0..MaxWindows /\ renders \in 0..MaxRenders
                /\ windows \subseteq 1..opened
                /\ DOMAIN info = windows
                /\ \A h \in windows : info[h] \in Info
                /\ related \in [windows \cup {Main} -> SUBSET windows]
                /\ render \in [windows \cup {Main} -> Nat]
                /\ EveryPopupHasItsAsker
                /\ OneLevelUp
BY DEF PopupsInv, PopupsIInv, PopupsTypeOK, FieldsInv

\* PopupsInv holds at first.
LEMMA PopupsStart == PopupsInit => PopupsInv
<1> SUFFICES ASSUME PopupsInit PROVE PopupsInv
  OBVIOUS
<1>1. FieldsInv
  BY DEF PopupsInit, FieldsInv, LinksFollowChoice
<1>2. /\ opened \in 0..MaxWindows /\ renders \in 0..MaxRenders
      /\ windows = {} /\ DOMAIN info = {}
      /\ related \in [{Main} -> SUBSET {}]
      /\ render \in [{Main} -> Nat]
  BY PopupsAssumption DEF PopupsInit, PopupsAssumption
<1> QED BY <1>1, <1>2, PopupsParts DEF EveryPopupHasItsAsker, OneLevelUp

\* PopupsInv is inductive.
LEMMA PopupsKept == PopupsInv /\ [PopupsNext]_popupVars => PopupsInv'
<1> SUFFICES ASSUME PopupsInv, [PopupsNext]_popupVars PROVE PopupsInv'
  OBVIOUS
<1>1. PopupsIInv /\ FieldsInv
  BY PopupsParts DEF PopupsInv
<1>2. ASSUME NEW w \in windows \cup {Main}, Render(w)
      PROVE  PopupsInv'
  <2>1. /\ Unload(w, {}) /\ opened' = opened /\ renders' \in 0..MaxRenders
    BY <1>1, <1>2, PopupsAssumption DEF Render, PopupsIInv, PopupsTypeOK, PopupsAssumption
  <2>2. windows' \subseteq windows
    BY <2>1 DEF Unload
  <2>3. /\ render' \in [windows' \cup {Main} -> Nat]
        /\ \A x \in windows' \cup {Main} : x # w => render'[x] = render[x]
    <3>1. render \in [windows \cup {Main} -> Nat]
      BY <1>1 DEF PopupsIInv
    <3>2. Restrict(render, windows' \cup {Main}) \in [windows' \cup {Main} -> Nat]
      BY <2>2, <3>1 DEF Restrict
    <3>3. render' = [Restrict(render, windows' \cup {Main}) EXCEPT ![w] = @ + 1]
      BY <1>2 DEF Render
    <3>4. \A x \in windows' \cup {Main} : Restrict(render, windows' \cup {Main})[x] = render[x]
      BY DEF Restrict
    <3> PICK r, W : r = Restrict(render, windows' \cup {Main}) /\ W = windows' \cup {Main}
      OBVIOUS
    <3>5. r \in [W -> Nat] /\ render' = [r EXCEPT ![w] = @ + 1]
      BY <3>2, <3>3
    <3>6. render' \in [W -> Nat] /\ \A x \in W : x # w => render'[x] = r[x]
      <4> DEFINE Now(x) == IF x = w THEN r[x] + 1 ELSE r[x]
      <4>1. \A x \in W : Now(x) \in Nat /\ (x # w => Now(x) = r[x])
        <5>1. \A x \in W : r[x] \in Nat
          BY <3>5
        <5> QED BY <5>1
      <4>2. render' = [x \in W |-> Now(x)]
        BY <3>5
      <4> HIDE DEF Now
      <4> QED BY <4>1, <4>2
    <3> QED BY <3>4, <3>6
  <2>4. FieldsInv'
    <3>1. CASE w = Main
      <4>1. /\ options' = [f \in Fields |-> exist]
            /\ chosen' = [f \in Fields |-> IF chosen[f] \in exist THEN chosen[f] ELSE None]
            /\ Follow(Fields)
            /\ UNCHANGED exist
        BY <1>2, <3>1 DEF Render
      <4> QED BY <1>1, <4>1 DEF FieldsInv, LinksFollowChoice, Follow
    <3>2. CASE w # Main
      <4>1. UNCHANGED pageVars
        BY <1>2, <3>2 DEF Render
      <4> QED BY <1>1, <4>1 DEF FieldsInv, LinksFollowChoice, pageVars
    <3> QED BY <3>1, <3>2
  <2>5. opened' \in 0..MaxWindows
    BY <1>1, <2>1 DEF PopupsIInv, PopupsTypeOK
  <2>6. /\ windows' \subseteq 1..opened'
        /\ DOMAIN info' = windows'
        /\ \A x \in windows' : info'[x] \in Info
        /\ related' \in [windows' \cup {Main} -> SUBSET windows']
        /\ DOMAIN render' = windows' \cup {Main}
        /\ EveryPopupHasItsAsker'
        /\ OneLevelUp'
    BY <1>1, <2>1, <2>3, UnloadKeeps
  <2> QED BY <1>1, <2>1, <2>3, <2>4, <2>5, <2>6
          DEF PopupsInv, PopupsIInv, PopupsTypeOK, FieldsInv
<1>3. ASSUME NEW w \in windows \cup {Main}, NEW f \in Fields, ClickLink(w, f)
      PROVE  PopupsInv'
  <2>1. PICK kind \in Kinds, object \in Objects \cup {None} : Show(w, f, kind, object)
    BY <1>1, <1>3 DEF ClickLink, Kinds, FieldsInv
  <2>2. FieldsInv' /\ renders' \in 0..MaxRenders
    <3>1. UNCHANGED <<renders, pageVars>>
      BY <2>1 DEF Show
    <3> QED BY <1>1, <3>1 DEF FieldsInv, LinksFollowChoice, pageVars, PopupsIInv, PopupsTypeOK
  <2>3. /\ opened' \in 0..MaxWindows
        /\ render' \in [windows' \cup {Main} -> Nat]
        /\ windows' \subseteq 1..opened'
        /\ DOMAIN info' = windows'
        /\ \A x \in windows' : info'[x] \in Info
        /\ related' \in [windows' \cup {Main} -> SUBSET windows']
        /\ EveryPopupHasItsAsker'
        /\ OneLevelUp'
    BY <1>1, <2>1, ShowKeeps
  <2> QED BY <2>2, <2>3 DEF PopupsInv, PopupsIInv, PopupsTypeOK, FieldsInv
<1>4. ASSUME NEW h \in windows, Answer(h) \/ CloseWindow(h)
      PROVE  PopupsInv'
  <2>1. /\ Unload(h, {h}) /\ opened' = opened /\ renders' = renders
        /\ render' = Restrict(render, windows' \cup {Main})
    BY <1>4 DEF Answer, CloseWindow
  <2>2. windows' \subseteq windows
    BY <2>1 DEF Unload
  <2>3. /\ render' \in [windows' \cup {Main} -> Nat]
        /\ \A x \in windows' \cup {Main} : x # h => render'[x] = render[x]
    BY <1>1, <2>1, <2>2 DEF PopupsIInv, Restrict
  <2>4. info[h] \in Info /\ opened' \in 0..MaxWindows /\ renders' \in 0..MaxRenders
    BY <1>1, <2>1 DEF PopupsIInv, PopupsTypeOK
  <2>5. PICK f \in Fields, object \in Objects \cup {None} :
          AddToFields(f) \/ ChangeInFields(f) \/ DeleteFromFields(f, object)
          \/ UNCHANGED pageVars
    <3>1. /\ info[h].field \in Fields /\ info[h].object \in Objects \cup {None}
          /\ info[h].kind \in Kinds
      BY <2>4 DEF Info
    <3>2. CASE CloseWindow(h)
      BY <3>1, <3>2 DEF CloseWindow
    <3>3. CASE Answer(h) /\ info[h].opener # Main
      BY <3>1, <3>3 DEF Answer
    <3>4. CASE Answer(h) /\ info[h].opener = Main /\ info[h].kind = "add"
      BY <3>1, <3>4 DEF Answer
    <3>5. CASE Answer(h) /\ info[h].opener = Main /\ info[h].kind = "change"
      BY <3>1, <3>5 DEF Answer
    <3>6. CASE Answer(h) /\ info[h].opener = Main /\ info[h].kind = "delete"
      BY <3>1, <3>6 DEF Answer
    <3> QED BY <1>4, <3>1, <3>2, <3>3, <3>4, <3>5, <3>6 DEF Kinds
  <2>6. FieldsInv'
    BY <1>1, <2>5, FieldsKept
  <2>7. /\ windows' \subseteq 1..opened'
        /\ DOMAIN info' = windows'
        /\ \A x \in windows' : info'[x] \in Info
        /\ related' \in [windows' \cup {Main} -> SUBSET windows']
        /\ DOMAIN render' = windows' \cup {Main}
        /\ EveryPopupHasItsAsker'
        /\ OneLevelUp'
    BY <1>1, <2>1, <2>3, UnloadKeeps
  <2> QED BY <1>1, <2>3, <2>4, <2>6, <2>7
          DEF PopupsInv, PopupsIInv, PopupsTypeOK, FieldsInv
<1>5. ASSUME NEW f \in Fields, NEW object \in Objects \cup {None}, Choose(f, object)
      PROVE  PopupsInv'
  <2>1. FieldsInv'
    BY <1>1, <1>5, FieldsKept DEF Choose
  <2>2. UNCHANGED <<windows, opened, info, related, render, renders>>
    BY <1>5 DEF Choose
  <2> QED BY <1>1, <2>1, <2>2, PopupsParts
          DEF PopupsIInv, PopupsTypeOK, PopupsInv, FieldsInv, EveryPopupHasItsAsker,
              OneLevelUp, PopupIndex
<1>6. CASE UNCHANGED popupVars
  BY <1>6 DEF popupVars, PopupsInv, PopupsIInv, PopupsTypeOK, LinksFollowChoice,
              EveryPopupHasItsAsker, OneLevelUp, PopupIndex
<1> QED BY <1>2, <1>3, <1>4, <1>5, <1>6 DEF PopupsNext

\* However popups open, take each other over, close and answer, none outlives the page
\* that asked for it, and its opener knows it and is one level up.
THEOREM PopupsHaveTheirAskers == PopupsSpec => []EveryPopupHasItsAsker
<1>1. PopupsInv => EveryPopupHasItsAsker
  BY DEF PopupsInv, PopupsIInv
<1> QED BY <1>1, PopupsStart, PopupsKept, PTL DEF PopupsSpec

\* The links beside a field lead to what it chooses, and it offers that.
THEOREM LinksAreCurrent == PopupsSpec => []LinksFollowChoice
<1>1. PopupsInv => LinksFollowChoice
  BY DEF PopupsInv
<1> QED BY <1>1, PopupsStart, PopupsKept, PTL DEF PopupsSpec

(***************************************************************************)
(* The two-box selector                                                    *)
(***************************************************************************)
\* Whoever is placed by the number of those before has a place of one's own.
LEMMA Ranks ==
  ASSUME NEW n \in Nat, NEW P \in [1..n -> SUBSET (1..n)],
         \A i \in 1..n : i \notin P[i],
         \A i, j \in 1..n : i = j \/ i \in P[j] \/ j \in P[i],
         \A i, j \in 1..n : i \in P[j] => P[i] \subseteq P[j]
  PROVE  \E r \in Bijection(1..n, 1..n) : \A i \in 1..n : r[i] = Cardinality(P[i]) + 1
<1>1. IsFiniteSet(1..n) /\ Cardinality(1..n) = n
  BY FS_Interval
<1>2. ASSUME NEW i \in 1..n
      PROVE  /\ IsFiniteSet(P[i]) /\ Cardinality(P[i]) \in Nat
             /\ Cardinality(P[i]) + 1 \in 1..n
  <2>1. P[i] \in SUBSET (1..n) /\ P[i] # 1..n
    OBVIOUS
  <2>2. IsFiniteSet(P[i]) /\ Cardinality(P[i]) <= n /\ Cardinality(P[i]) # n
    BY <1>1, <2>1, FS_Subset
  <2>3. Cardinality(P[i]) \in Nat
    BY <2>2, FS_CardinalityType
  <2> QED BY <2>2, <2>3
<1>3. ASSUME NEW i \in 1..n, NEW j \in 1..n, i \in P[j]
      PROVE  Cardinality(P[i]) # Cardinality(P[j])
  <2>1. P[i] \in SUBSET P[j] /\ P[i] # P[j]
    BY <1>3
  <2> QED BY <1>2, <2>1, FS_Subset
<1> DEFINE r == [i \in 1..n |-> Cardinality(P[i]) + 1]
<1>4. r \in [1..n -> 1..n]
  BY <1>2
<1>5. \A i, j \in 1..n : r[i] = r[j] => i = j
  <2> SUFFICES ASSUME NEW i \in 1..n, NEW j \in 1..n, r[i] = r[j]
               PROVE  i = j
    OBVIOUS
  <2>1. Cardinality(P[i]) = Cardinality(P[j])
    <3>1. Cardinality(P[i]) \in Nat /\ Cardinality(P[j]) \in Nat
      BY <1>2
    <3>2. r[i] = Cardinality(P[i]) + 1 /\ r[j] = Cardinality(P[j]) + 1
      OBVIOUS
    <3> QED BY <3>1, <3>2
  <2> HIDE DEF r
  <2> QED BY <1>3, <2>1
<1>6. \A i \in 1..n : r[i] = Cardinality(P[i]) + 1
  OBVIOUS
<1> HIDE DEF r
<1>7. r \in Injection(1..n, 1..n)
  BY <1>4, <1>5, Fun_IsInj
<1>8. r \in Surjection(1..n, 1..n)
  BY <1>1, <1>7, FS_Injection
<1>9. r \in Bijection(1..n, 1..n)
  BY <1>7, <1>8, Fun_IsBij
<1> QED BY <1>6, <1>9

\* A list of the elements of a finite set, each once.
LEMMA SetListed ==
  ASSUME NEW S, IsFiniteSet(S)
  PROVE  /\ SetToSeq(S) \in Seq(S)
         /\ \A i, j \in 1..Len(SetToSeq(S)) : SetToSeq(S)[i] = SetToSeq(S)[j] => i = j
         /\ \A x \in S : \E i \in 1..Len(SetToSeq(S)) : SetToSeq(S)[i] = x
<1> DEFINE n == Cardinality(S)
           IsList(f) == f \in [1..n -> S] /\ IsInjective(f)
<1>1. n \in Nat /\ ExistsBijection(1..n, S)
  BY FS_CardinalityType
<1>2. \E f : IsList(f)
  <2>1. PICK f : f \in Bijection(1..n, S)
    BY <1>1 DEF ExistsBijection
  <2>2. f \in [1..n -> S] /\ \A a, b \in 1..n : f[a] = f[b] => a = b
    BY <2>1 DEF Bijection, Injection, IsInjective
  <2> QED BY <2>2 DEF IsInjective
<1>3. SetToSeq(S) = CHOOSE f : IsList(f)
  BY DEF SetToSeq
<1>4. PICK f : f = SetToSeq(S) /\ IsList(f)
  <2> HIDE DEF IsList
  <2> QED BY <1>2, <1>3
<1>5. f \in [1..n -> S] /\ \A a, b \in 1..n : f[a] = f[b] => a = b
  BY <1>4 DEF IsInjective
<1> HIDE DEF IsList
<1>6. f \in Surjection(1..n, S)
  <2>1. f \in Injection(1..n, S)
    BY <1>5, Fun_IsInj
  <2>2. Cardinality(1..n) = n
    BY <1>1, FS_Interval
  <2> QED BY <2>1, <2>2, FS_Injection
<1>7. \A x \in S : \E i \in 1..n : f[i] = x
  BY <1>6 DEF Surjection
<1> HIDE DEF n
<1>8. f \in Seq(S) /\ Len(f) = n
  BY <1>1, <1>5, SeqDef
<1> QED BY <1>4, <1>5, <1>7, <1>8

\* What is left of a list without the entry at i.
LEMMA RemoveAtEntries ==
  ASSUME NEW S, NEW s \in Seq(S), NEW i \in 1..Len(s)
  PROVE  /\ RemoveAt(s, i) \in Seq(S)
         /\ Len(RemoveAt(s, i)) = Len(s) - 1
         /\ \A k \in 1..(Len(s) - 1) : RemoveAt(s, i)[k] = IF k < i THEN s[k] ELSE s[k + 1]
<1> DEFINE a == SubSeq(s, 1, i - 1)
           b == SubSeq(s, i + 1, Len(s))
           h == a \o b
<1> PICK L : L = Len(s)
  OBVIOUS
<1>1. L \in Nat /\ i \in 1..L
  OBVIOUS
<1>2. RemoveAt(s, i) = h
  BY DEF RemoveAt
<1>3. /\ a \in Seq(S) /\ Len(a) = i - 1
      /\ \A k \in 1..(i - 1) : a[k] = s[k]
  <2>1. \A k \in 1..(i - 1) : s[k] \in S
    BY <1>1
  <2>2. /\ SubSeq(s, 1, i - 1) \in Seq(S)
        /\ Len(SubSeq(s, 1, i - 1)) = IF 1 <= i - 1 THEN i - 1 - 1 + 1 ELSE 0
        /\ \A k \in 1..(i - 1 - 1 + 1) : SubSeq(s, 1, i - 1)[k] = s[1 + k - 1]
    BY <1>1, <2>1, SubSeqProperties
  <2>3. (IF 1 <= i - 1 THEN i - 1 - 1 + 1 ELSE 0) = i - 1 /\ i - 1 - 1 + 1 = i - 1
    BY <1>1
  <2>4. \A k \in 1..(i - 1) : 1 + k - 1 = k
    BY <1>1
  <2> QED BY <2>2, <2>3, <2>4
<1>4. /\ b \in Seq(S) /\ Len(b) = L - i
      /\ \A k \in 1..(L - i) : b[k] = s[i + k]
  <2>1. \A k \in (i + 1)..L : s[k] \in S
    BY <1>1
  <2>2. /\ SubSeq(s, i + 1, L) \in Seq(S)
        /\ Len(SubSeq(s, i + 1, L)) = IF i + 1 <= L THEN L - (i + 1) + 1 ELSE 0
        /\ \A k \in 1..(L - (i + 1) + 1) : SubSeq(s, i + 1, L)[k] = s[(i + 1) + k - 1]
    BY <1>1, <2>1, SubSeqProperties
  <2>3. (IF i + 1 <= L THEN L - (i + 1) + 1 ELSE 0) = L - i /\ L - (i + 1) + 1 = L - i
    BY <1>1
  <2>4. \A k \in 1..(L - i) : (i + 1) + k - 1 = i + k
    BY <1>1
  <2> QED BY <2>2, <2>3, <2>4
<1> HIDE DEF a, b
<1>5. /\ h \in Seq(S) /\ Len(h) = L - 1
      /\ \A k \in 1..(L - 1) : h[k] = IF k <= i - 1 THEN a[k] ELSE b[k - (i - 1)]
  <2>1. /\ a \o b \in Seq(S) /\ Len(a \o b) = Len(a) + Len(b)
        /\ \A k \in 1..(Len(a) + Len(b)) :
             (a \o b)[k] = IF k <= Len(a) THEN a[k] ELSE b[k - Len(a)]
    BY <1>3, <1>4, ConcatProperties
  <2>2. Len(a) = i - 1 /\ Len(b) = L - i /\ (i - 1) + (L - i) = L - 1
    BY <1>1, <1>3, <1>4
  <2> QED BY <2>1, <2>2
<1> HIDE DEF h
<1>6. ASSUME NEW k \in 1..(L - 1)
      PROVE  h[k] = IF k < i THEN s[k] ELSE s[k + 1]
  <2>1. CASE k < i
    <3>1. k \in 1..(i - 1) /\ k <= i - 1
      BY <1>1, <2>1
    <3> QED BY <1>3, <1>5, <2>1, <3>1
  <2>2. CASE ~(k < i)
    <3>1. k - (i - 1) \in 1..(L - i) /\ i + (k - (i - 1)) = k + 1 /\ ~(k <= i - 1)
      BY <1>1, <2>2
    <3> QED BY <1>4, <1>5, <2>2, <3>1
  <2> QED BY <2>1, <2>2
<1> QED BY <1>2, <1>5, <1>6

\* What a box lists.
Item == [value : Options, displayed : BOOLEAN]
Box(q) == /\ q \in Seq(Item)
          /\ \A i, j \in 1..Len(q) : q[i].value = q[j].value => i = j

\* An entry has an option, and keeps it when it is flagged anew.
LEMMA Items ==
  /\ \A e \in Item : e.value \in Options
  /\ \A o \in Options : Entry(o) \in Item /\ Entry(o).value = o
  /\ \A e \in Item, b \in BOOLEAN :
       /\ [e EXCEPT !.displayed = b] \in Item
       /\ [e EXCEPT !.displayed = b].value = e.value
       /\ [e EXCEPT !.displayed = b].displayed = b
BY DEF Item, Entry

\* The entries of a box and their options.
LEMMA BoxShape ==
  ASSUME NEW q, Box(q)
  PROVE  /\ Len(q) \in Nat /\ DOMAIN q = 1..Len(q)
         /\ \A i \in 1..Len(q) : q[i] \in Item /\ q[i].value \in Options /\ q[i].value \in Values(q)
         /\ Values(q) \subseteq Options
         /\ \A o \in Values(q) : \E i \in 1..Len(q) : q[i].value = o
<1>1. q \in Seq(Item)
  BY DEF Box
<1>2. Len(q) \in Nat /\ DOMAIN q = 1..Len(q) /\ \A i \in 1..Len(q) : q[i] \in Item
  BY <1>1
<1>3. \A i \in 1..Len(q) : q[i].value \in Options
  BY <1>2, Items
<1>4. Values(q) = {q[i].value : i \in 1..Len(q)}
  BY <1>2 DEF Values
<1> QED BY <1>2, <1>3, <1>4

\* The options of h are those of q at the positions p, none of them twice.
TakenFrom(h, q, p) ==
  /\ h \in Seq(Item)
  /\ p \in [1..Len(h) -> 1..Len(q)]
  /\ \A k \in 1..Len(h) : h[k].value = q[p[k]].value
  /\ \A k, m \in 1..Len(h) : p[k] = p[m] => k = m

\* A list of some of a box's options, each once, is a box.
LEMMA BoxOf ==
  ASSUME NEW q, Box(q), NEW h, NEW p, TakenFrom(h, q, p)
  PROVE  Box(h) /\ Values(h) = {q[p[k]].value : k \in 1..Len(h)}
<1>1. \A k, m \in 1..Len(h) : h[k].value = h[m].value => k = m
  <2> SUFFICES ASSUME NEW k \in 1..Len(h), NEW m \in 1..Len(h), h[k].value = h[m].value
               PROVE  k = m
    OBVIOUS
  <2>1. p[k] \in 1..Len(q) /\ p[m] \in 1..Len(q) /\ q[p[k]].value = q[p[m]].value
    BY DEF TakenFrom
  <2>2. \A i, j \in 1..Len(q) : q[i].value = q[j].value => i = j
    BY DEF Box
  <2>3. p[k] = p[m]
    BY <2>1, <2>2
  <2> QED BY <2>3 DEF TakenFrom
<1>2. Box(h)
  BY <1>1 DEF Box, TakenFrom
<1>3. DOMAIN h = 1..Len(h)
  BY <1>2, BoxShape
<1> QED BY <1>2, <1>3 DEF Values, TakenFrom

\* The options of a box that its filter hides.
Unseen(q) == {q[i].value : i \in {j \in DOMAIN q : ~q[j].displayed}}

\* In a list with all entries of a box but those of the options in O, what was hidden
\* is hidden.
LEMMA UnseenTaken ==
  ASSUME NEW q, Box(q), NEW h, NEW O, DOMAIN h = 1..Len(h),
         \A i \in 1..Len(q) : q[i].value \notin O => \E k \in 1..Len(h) : h[k] = q[i]
  PROVE  Unseen(q) \ O \subseteq Unseen(h)
<1> SUFFICES ASSUME NEW o \in Unseen(q) \ O
             PROVE  o \in Unseen(h)
  OBVIOUS
<1>1. DOMAIN q = 1..Len(q)
  BY BoxShape
<1>2. PICK i \in 1..Len(q) : ~q[i].displayed /\ o = q[i].value
  BY <1>1 DEF Unseen
<1>3. PICK k \in 1..Len(h) : h[k] = q[i]
  BY <1>2
<1>4. ~h[k].displayed /\ h[k].value = o
  BY <1>2, <1>3
<1> QED BY <1>4 DEF Unseen

\* filter: the same options, flagged anew.
LEMMA BoxFiltered ==
  ASSUME NEW q, Box(q), NEW t
  PROVE  /\ Box(Filtered(q, t)) /\ Values(Filtered(q, t)) = Values(q)
         /\ DOMAIN Filtered(q, t) = 1..Len(q)
         /\ \A i \in 1..Len(q) : /\ Filtered(q, t)[i].value = q[i].value
                                 /\ Filtered(q, t)[i].displayed = (q[i].value \in Matches[t])
<1> DEFINE h == Filtered(q, t)
           New(i) == [q[i] EXCEPT !.displayed = q[i].value \in Matches[t]]
           p == [i \in 1..Len(q) |-> i]
<1>1. Len(q) \in Nat /\ DOMAIN q = 1..Len(q) /\ \A i \in 1..Len(q) : q[i] \in Item
  BY BoxShape
<1>2. \A i \in 1..Len(q) : /\ New(i) \in Item /\ New(i).value = q[i].value
                           /\ New(i).displayed = (q[i].value \in Matches[t])
  <2> SUFFICES ASSUME NEW i \in 1..Len(q)
               PROVE  /\ New(i) \in Item /\ New(i).value = q[i].value
                      /\ New(i).displayed = (q[i].value \in Matches[t])
    OBVIOUS
  <2>1. (q[i].value \in Matches[t]) \in BOOLEAN
    OBVIOUS
  <2>2. q[i] \in Item
    BY <1>1
  <2> QED BY <2>1, <2>2, Items
<1>3. h = [i \in 1..Len(q) |-> New(i)]
  BY <1>1 DEF Filtered
<1> HIDE DEF New, h
<1>4. h \in Seq(Item) /\ Len(h) = Len(q) /\ DOMAIN h = 1..Len(q)
      /\ \A i \in 1..Len(q) : h[i] = New(i)
  <2>1. h \in [1..Len(q) -> Item]
    BY <1>2, <1>3
  <2> QED BY <1>1, <1>3, <2>1, SeqDef
<1>5. /\ p \in [1..Len(h) -> 1..Len(q)]
      /\ \A k \in 1..Len(h) : p[k] = k /\ h[k].value = q[p[k]].value
  BY <1>2, <1>4
<1> HIDE DEF p
<1>6. Box(h) /\ Values(h) = {q[p[k]].value : k \in 1..Len(h)}
  <2>1. TakenFrom(h, q, p)
    BY <1>4, <1>5 DEF TakenFrom
  <2> QED BY <2>1, BoxOf
<1>7. Values(h) = Values(q)
  BY <1>1, <1>4, <1>5, <1>6 DEF Values
<1> QED BY <1>2, <1>4, <1>6, <1>7 DEF h

\* add_to_cache.
LEMMA BoxAppended ==
  ASSUME NEW q, Box(q), NEW o \in Options \ Values(q)
  PROVE  /\ Box(Append(q, Entry(o))) /\ Values(Append(q, Entry(o))) = Values(q) \cup {o}
         /\ Unseen(q) \subseteq Unseen(Append(q, Entry(o)))
<1> PICK e : e = Entry(o) /\ e \in Item /\ e.value = o
  BY Items
<1> PICK h : h = Append(q, e)
  OBVIOUS
<1>1. /\ q \in Seq(Item) /\ Len(q) \in Nat /\ DOMAIN q = 1..Len(q)
      /\ \A i, j \in 1..Len(q) : q[i].value = q[j].value => i = j
      /\ \A i \in 1..Len(q) : q[i].value # o
  BY BoxShape DEF Box
<1>2. /\ h \in Seq(Item) /\ Len(h) = Len(q) + 1 /\ DOMAIN h = 1..(Len(q) + 1)
      /\ \A i \in 1..Len(q) : h[i] = q[i]
      /\ h[Len(q) + 1] = e
  BY <1>1, AppendProperties
<1>3. \A i \in 1..(Len(q) + 1) : i \in 1..Len(q) \/ i = Len(q) + 1
  BY <1>1
<1>4. \A i, j \in 1..Len(h) : h[i].value = h[j].value => i = j
  <2> SUFFICES ASSUME NEW i \in 1..Len(h), NEW j \in 1..Len(h), h[i].value = h[j].value
               PROVE  i = j
    OBVIOUS
  <2>1. CASE i \in 1..Len(q) /\ j \in 1..Len(q)
    BY <1>1, <1>2, <2>1
  <2>2. CASE i \notin 1..Len(q) \/ j \notin 1..Len(q)
    BY <1>1, <1>2, <1>3, <2>2
  <2> QED BY <2>1, <2>2
<1>5. Values(h) = Values(q) \cup {o}
  <2>1. Values(h) = {h[i].value : i \in 1..(Len(q) + 1)} /\ Values(q) = {q[i].value : i \in 1..Len(q)}
    BY <1>1, <1>2 DEF Values
  <2>2. \A i \in 1..Len(q) : i \in 1..(Len(q) + 1)
    BY <1>1
  <2>3. Len(q) + 1 \in 1..(Len(q) + 1)
    BY <1>1
  <2> QED BY <1>2, <1>3, <2>1, <2>2, <2>3
<1>6. Unseen(q) \subseteq Unseen(h)
  <2>1. \A i \in 1..Len(q) : i \in 1..Len(h) /\ h[i] = q[i]
    BY <1>1, <1>2
  <2>2. Unseen(q) \ {} \subseteq Unseen(h)
    BY <1>2, <2>1, UnseenTaken
  <2> QED BY <2>2
<1> QED BY <1>2, <1>4, <1>5, <1>6 DEF Box

\* delete_from_cache, for an option that is in the box.
LEMMA BoxDeleted ==
  ASSUME NEW q, Box(q), NEW o \in Values(q)
  PROVE  /\ Box(DeleteFromCache(q, o)) /\ Values(DeleteFromCache(q, o)) = Values(q) \ {o}
         /\ Unseen(q) \ {o} \subseteq Unseen(DeleteFromCache(q, o))
<1>1. /\ q \in Seq(Item) /\ Len(q) \in Nat /\ DOMAIN q = 1..Len(q)
      /\ \A i, j \in 1..Len(q) : q[i].value = q[j].value => i = j
      /\ Values(q) = {q[i].value : i \in 1..Len(q)}
  BY BoxShape DEF Box, Values
<1> DEFINE First(i) == q[i].value = o /\ \A j \in 1..(i - 1) : q[j].value # o
           i == CHOOSE k \in DOMAIN q : First(k)
<1>2. i \in 1..Len(q) /\ q[i].value = o
  <2>1. PICK k \in 1..Len(q) : q[k].value = o
    BY BoxShape
  <2>2. \A j \in 1..(k - 1) : j \in 1..Len(q) /\ j # k
    BY <1>1
  <2>3. First(k)
    BY <1>1, <2>1, <2>2
  <2>4. i \in DOMAIN q /\ First(i)
    <3> HIDE DEF First
    <3> QED BY <1>1, <2>3
  <2> QED BY <1>1, <2>4
<1>3. DeleteFromCache(q, o) = RemoveAt(q, i)
  <2>1. q # <<>>
    BY <1>1, <1>2
  <2> QED BY <2>1 DEF DeleteFromCache
<1> HIDE DEF i
<1> PICK h : h = RemoveAt(q, i)
  OBVIOUS
<1> DEFINE p == [k \in 1..Len(h) |-> IF k < i THEN k ELSE k + 1]
<1>4. /\ h \in Seq(Item) /\ Len(h) = Len(q) - 1 /\ Len(h) \in Nat
      /\ \A k \in 1..(Len(q) - 1) : h[k] = IF k < i THEN q[k] ELSE q[k + 1]
  <2>0. q \in Seq(Item) /\ i \in 1..Len(q)
    BY <1>1, <1>2
  <2>1. /\ h \in Seq(Item) /\ Len(h) = Len(q) - 1
        /\ \A k \in 1..(Len(q) - 1) : h[k] = IF k < i THEN q[k] ELSE q[k + 1]
    BY <2>0, RemoveAtEntries
  <2>2. Len(q) - 1 \in Nat
    BY <1>1, <1>2
  <2> QED BY <2>1, <2>2
<1>5. /\ p \in [1..Len(h) -> 1..Len(q)]
      /\ \A k \in 1..Len(h) : h[k] = q[p[k]]
      /\ \A k, m \in 1..Len(h) : p[k] = p[m] => k = m
      /\ \A k \in 1..Len(h) : p[k] # i
  BY <1>1, <1>2, <1>4
<1>6. \A k \in 1..Len(q) : k # i => \E m \in 1..Len(h) : p[m] = k
  <2> SUFFICES ASSUME NEW k \in 1..Len(q), k # i
               PROVE  \E m \in 1..Len(h) : p[m] = k
    OBVIOUS
  <2>1. CASE k < i
    <3>1. k \in 1..Len(h) /\ p[k] = k
      BY <1>1, <1>2, <1>4, <2>1
    <3> QED BY <3>1
  <2>2. CASE k > i
    <3>1. k - 1 \in 1..Len(h) /\ p[k - 1] = k
      BY <1>1, <1>2, <1>4, <2>2
    <3> QED BY <3>1
  <2> QED BY <1>1, <1>2, <2>1, <2>2
<1> HIDE DEF p
<1>7. Box(h) /\ Values(h) = {q[p[k]].value : k \in 1..Len(h)}
  <2>1. TakenFrom(h, q, p)
    BY <1>4, <1>5 DEF TakenFrom
  <2> QED BY <2>1, BoxOf
<1>8. Values(h) = Values(q) \ {o}
  <2>1. ASSUME NEW k \in 1..Len(h)
        PROVE  q[p[k]].value \in Values(q) \ {o}
    BY <1>1, <1>2, <1>5
  <2>2. ASSUME NEW v \in Values(q) \ {o}
        PROVE  \E k \in 1..Len(h) : q[p[k]].value = v
    <3>1. PICK k \in 1..Len(q) : q[k].value = v
      BY <1>1
    <3> QED BY <1>2, <1>6, <3>1
  <2> QED BY <1>7, <2>1, <2>2
<1>9. Unseen(q) \ {o} \subseteq Unseen(h)
  <2>1. DOMAIN h = 1..Len(h)
    BY <1>4
  <2>2. ASSUME NEW k \in 1..Len(q), q[k].value \notin {o}
        PROVE  \E m \in 1..Len(h) : h[m] = q[k]
    <3>1. PICK m \in 1..Len(h) : p[m] = k
      BY <1>2, <1>6, <2>2
    <3> QED BY <1>5, <3>1
  <2> QED BY <2>1, <2>2, UnseenTaken
<1> QED BY <1>3, <1>7, <1>8, <1>9

\* Every option has a place of its own.
LEMMA Places ==
  /\ \A o \in Options : Place[o] \in Nat
  /\ \A o, x \in Options : Place[o] = Place[x] => o = x
<1> DEFINE new == SetToSeq(NewOptions)
           all == OptionList \o new
           At(o) == CHOOSE i \in DOMAIN all : all[i] = o
<1>1. OptionList \in Seq(Range(OptionList)) /\ IsFiniteSet(NewOptions)
  BY SelectAssumption DEF SelectAssumption
<1>2. /\ OptionList \in Seq(Options)
      /\ \A o \in Range(OptionList) : \E i \in 1..Len(OptionList) : OptionList[i] = o
  <2>1. Range(OptionList) \subseteq Options
    BY DEF Options
  <2>2. DOMAIN OptionList = 1..Len(OptionList)
    BY <1>1
  <2>3. \A i \in 1..Len(OptionList) : OptionList[i] \in Options
    BY <2>1, <2>2 DEF Range
  <2>4. OptionList \in Seq(Options)
    BY <1>1, <2>3
  <2> QED BY <2>2, <2>4 DEF Range
<1>3. /\ new \in Seq(Options)
      /\ \A o \in NewOptions : \E i \in 1..Len(new) : new[i] = o
  <2>1. NewOptions \subseteq Options
    BY DEF Options
  <2>2. new \in Seq(NewOptions) /\ \A o \in NewOptions : \E i \in 1..Len(new) : new[i] = o
    BY <1>1, SetListed
  <2> HIDE DEF new
  <2>3. new \in Seq(Options)
    BY <2>1, <2>2
  <2> QED BY <2>2, <2>3
<1> HIDE DEF new
<1>4. /\ all \in Seq(Options) /\ Len(all) = Len(OptionList) + Len(new)
      /\ \A i \in 1..(Len(OptionList) + Len(new)) :
           all[i] = IF i <= Len(OptionList) THEN OptionList[i] ELSE new[i - Len(OptionList)]
  BY <1>2, <1>3, ConcatProperties
<1> HIDE DEF all
<1>5. Len(OptionList) \in Nat /\ Len(new) \in Nat /\ DOMAIN all = 1..Len(all)
  BY <1>2, <1>3, <1>4
<1>6. ASSUME NEW o \in Options
      PROVE  \E i \in DOMAIN all : all[i] = o
  <2>1. CASE o \in Range(OptionList)
    <3>1. PICK i \in 1..Len(OptionList) : OptionList[i] = o
      BY <1>2, <2>1
    <3>2. i \in 1..(Len(OptionList) + Len(new)) /\ i <= Len(OptionList)
      BY <1>5
    <3> QED BY <1>4, <1>5, <3>1, <3>2
  <2>2. CASE o \in NewOptions
    <3>1. PICK i \in 1..Len(new) : new[i] = o
      BY <1>3, <2>2
    <3>2. /\ Len(OptionList) + i \in 1..(Len(OptionList) + Len(new))
          /\ ~(Len(OptionList) + i <= Len(OptionList))
          /\ (Len(OptionList) + i) - Len(OptionList) = i
      BY <1>5
    <3>3. all[Len(OptionList) + i] = o
      BY <1>4, <3>1, <3>2
    <3> QED BY <1>4, <1>5, <3>2, <3>3
  <2> QED BY <2>1, <2>2 DEF Options
<1>7. \A o \in Options : At(o) \in DOMAIN all /\ all[At(o)] = o
  BY <1>6
<1>8. Place = [o \in Options |-> At(o)]
  BY DEF Place, all, new
<1> HIDE DEF At
<1>9. \A o \in Options : Place[o] = At(o) /\ At(o) \in Nat
  BY <1>5, <1>7, <1>8
<1> QED BY <1>7, <1>9

\* sort: the same options.
LEMMA BoxSorted ==
  ASSUME NEW q, Box(q)
  PROVE  /\ Box(Sorted(q)) /\ Values(Sorted(q)) = Values(q)
         /\ Unseen(q) \subseteq Unseen(Sorted(q))
<1> SUFFICES ASSUME Values(q) \cap Grouped # {}
             PROVE  /\ Box(Sorted(q)) /\ Values(Sorted(q)) = Values(q)
                    /\ Unseen(q) \subseteq Unseen(Sorted(q))
  BY DEF Sorted
<1> DEFINE n == Len(q)
           Earlier(i) == {j \in DOMAIN q : IF j < i THEN ~Before(q[i], q[j])
                                           ELSE Before(q[j], q[i])}
           P == [i \in 1..n |-> Earlier(i)]
<1>1. /\ n \in Nat /\ DOMAIN q = 1..n
      /\ \A i \in 1..n : q[i] \in Item /\ q[i].value \in Options
      /\ \A i, j \in 1..n : q[i].value = q[j].value => i = j
  BY BoxShape DEF Box
<1>2. /\ \A i, j \in 1..n : i = j \/ Before(q[i], q[j]) \/ Before(q[j], q[i])
      /\ \A i, j \in 1..n : ~(Before(q[i], q[j]) /\ Before(q[j], q[i]))
      /\ \A i, j, k \in 1..n : Before(q[i], q[j]) /\ Before(q[j], q[k]) => Before(q[i], q[k])
  <2> DEFINE At(i) == Place[q[i].value]
  <2>1. \A i \in 1..n : At(i) \in Nat
    BY <1>1, Places
  <2>2. \A i, j \in 1..n : At(i) = At(j) => i = j
    BY <1>1, Places
  <2>3. \A i, j \in 1..n :
          Before(q[i], q[j]) <=> \/ q[i].value \notin Grouped /\ q[j].value \in Grouped
                                 \/ /\ q[i].value \in Grouped <=> q[j].value \in Grouped
                                    /\ At(i) < At(j)
    BY DEF Before
  <2> HIDE DEF At, n
  <2> QED BY <2>1, <2>2, <2>3
<1>3. \A i, j \in 1..n : j \in P[i] <=> Before(q[j], q[i])
  <2> SUFFICES ASSUME NEW i \in 1..n, NEW j \in 1..n
               PROVE  j \in Earlier(i) <=> Before(q[j], q[i])
    OBVIOUS
  <2>1. j \in Earlier(i) <=> IF j < i THEN ~Before(q[i], q[j]) ELSE Before(q[j], q[i])
    BY <1>1
  <2>2. j < i => i # j
    BY <1>1
  <2> HIDE DEF Earlier
  <2> QED BY <1>2, <2>1, <2>2
<1>4. P \in [1..n -> SUBSET (1..n)]
  BY <1>1
<1>5. \A i \in 1..n : P[i] = Earlier(i)
  OBVIOUS
<1> HIDE DEF P
<1>6. PICK r \in Bijection(1..n, 1..n) : \A i \in 1..n : r[i] = Cardinality(P[i]) + 1
  <2>1. \A i \in 1..n : i \notin P[i]
    BY <1>2, <1>3
  <2>2. \A i, j \in 1..n : i = j \/ i \in P[j] \/ j \in P[i]
    BY <1>2, <1>3
  <2>3. \A i, j \in 1..n : i \in P[j] => P[i] \subseteq P[j]
    <3> SUFFICES ASSUME NEW i \in 1..n, NEW j \in 1..n, i \in P[j], NEW k \in P[i]
                 PROVE  k \in P[j]
      OBVIOUS
    <3>1. k \in 1..n
      BY <1>4
    <3> QED BY <1>2, <1>3, <3>1
  <2>4. n \in Nat
    BY <1>1
  <2> HIDE DEF n
  <2> QED BY <1>4, <2>1, <2>2, <2>3, <2>4, Ranks
<1>7. /\ \A i \in 1..n : r[i] \in 1..n
      /\ \A i, j \in 1..n : r[i] = r[j] => i = j
      /\ \A k \in 1..n : \E i \in 1..n : r[i] = k
  BY <1>6 DEF Bijection, Injection, Surjection, IsInjective
<1> DEFINE p == [k \in 1..n |-> CHOOSE i \in DOMAIN q : Cardinality(Earlier(i)) + 1 = k]
<1>8. \A k \in 1..n : p[k] \in 1..n /\ r[p[k]] = k
  <2> SUFFICES ASSUME NEW k \in 1..n PROVE p[k] \in 1..n /\ r[p[k]] = k
    OBVIOUS
  <2> HIDE DEF Earlier
  <2>1. \E i \in 1..n : Cardinality(Earlier(i)) + 1 = k
    <3>1. PICK i \in 1..n : r[i] = k
      BY <1>7
    <3>2. r[i] = Cardinality(Earlier(i)) + 1
      BY <1>5, <1>6
    <3> QED BY <3>1, <3>2
  <2>2. p[k] \in 1..n /\ Cardinality(Earlier(p[k])) + 1 = k
    BY <1>1, <2>1
  <2> HIDE DEF p
  <2> QED BY <1>5, <1>6, <2>2
<1>9. Sorted(q) = [k \in 1..n |-> q[p[k]]]
  <2>1. Sorted(q) = [k \in DOMAIN q |->
                       q[CHOOSE i \in DOMAIN q : Cardinality(Earlier(i)) + 1 = k]]
    BY DEF Sorted
  <2> HIDE DEF Earlier
  <2> QED BY <1>1, <2>1
<1> HIDE DEF p, Earlier
<1> PICK h : h = Sorted(q)
  OBVIOUS
<1>10. h \in Seq(Item) /\ Len(h) = n /\ DOMAIN h = 1..n /\ \A k \in 1..n : h[k] = q[p[k]]
  <2>1. h \in [1..n -> Item] /\ \A k \in 1..n : h[k] = q[p[k]]
    BY <1>1, <1>8, <1>9
  <2> QED BY <1>1, <2>1, SeqDef
<1>11. p \in [1..n -> 1..n]
  <2>1. p = [k \in 1..n |-> p[k]]
    BY DEF p
  <2> QED BY <1>8, <2>1
<1>12. TakenFrom(h, q, p)
  <2>1. \A k, m \in 1..n : p[k] = p[m] => k = m
    BY <1>8
  <2> QED BY <1>10, <1>11, <2>1 DEF TakenFrom
<1>13. Box(h) /\ Values(h) = {q[p[k]].value : k \in 1..n}
  BY <1>10, <1>12, BoxOf
<1>14. \A i \in 1..n : p[r[i]] = i
  BY <1>7, <1>8
<1>15. Values(q) = {q[i].value : i \in 1..n}
  BY <1>1 DEF Values
<1>16. Values(h) = Values(q)
  <2>1. \A k \in 1..n : q[p[k]].value \in Values(q)
    BY <1>8, <1>15
  <2>2. \A i \in 1..n : q[i].value \in Values(h)
    <3> SUFFICES ASSUME NEW i \in 1..n PROVE q[i].value \in Values(h)
      OBVIOUS
    <3>1. r[i] \in 1..n /\ p[r[i]] = i
      BY <1>7, <1>14
    <3> QED BY <1>13, <3>1
  <2> QED BY <1>13, <1>15, <2>1, <2>2
<1>17. Unseen(q) \subseteq Unseen(h)
  <2>1. \A i \in 1..n : r[i] \in 1..n /\ h[r[i]] = q[i]
    BY <1>7, <1>10, <1>14
  <2>2. Unseen(q) \ {} \subseteq Unseen(h)
    BY <1>10, <2>1, UnseenTaken
  <2> QED BY <2>2
<1> QED BY <1>13, <1>16, <1>17

-----------------------------------------------------------------------------
\* Both boxes hold options, no option is in both or twice in one, and none that the
\* server has listed is missing.
Boxes(c) == c \in [Sides -> Seq(Item)] /\ \A s \in Sides : Box(c[s])
Conserved(c) ==
  /\ Boxes(c)
  /\ \A s \in Sides : Values(c[s]) \cap Values(c[Other(s)]) = {}
  /\ \A o \in Range(OptionList) : \E s \in Sides : o \in Values(c[s])

\* There are two sides.
LEMMA TwoSides ==
  \A s \in Sides : /\ Other(s) \in Sides /\ Other(s) # s /\ Other(Other(s)) = s
                   /\ \A x \in Sides : x = s \/ x = Other(s)
BY DEF Sides, Other

\* Boxes that hold the same options, or more of them, are as good.
LEMMA Remade ==
  ASSUME NEW c, Conserved(c), NEW s \in Sides, NEW d, Boxes(d),
         Values(d[s]) \cap Values(d[Other(s)]) = {},
         Values(c[s]) \cup Values(c[Other(s)]) \subseteq Values(d[s]) \cup Values(d[Other(s)])
  PROVE  Conserved(d)
<1>1. Other(s) \in Sides /\ Other(s) # s /\ Other(Other(s)) = s
      /\ \A x \in Sides : x = s \/ x = Other(s)
  BY TwoSides
<1>2. \A x \in Sides : Values(d[x]) \cap Values(d[Other(x)]) = {}
  BY <1>1
<1>3. \A o \in Range(OptionList) : \E x \in Sides : o \in Values(d[x])
  <2> SUFFICES ASSUME NEW o \in Range(OptionList)
               PROVE  \E x \in Sides : o \in Values(d[x])
    OBVIOUS
  <2>1. PICK x \in Sides : o \in Values(c[x])
    BY DEF Conserved, Boxes
  <2>2. o \in Values(d[s]) \cup Values(d[Other(s)])
    BY <1>1, <2>1
  <2> QED BY <1>1, <2>2
<1> QED BY <1>2, <1>3 DEF Conserved

\* Nothing but some options of one box has moved from c to d.
Keeps(c, d, s, moved) ==
  /\ Conserved(d)
  /\ Values(c[s]) \ moved \subseteq Values(d[s])
  /\ Unseen(c[s]) \ moved \subseteq Unseen(d[s])
  /\ Values(c[Other(s)]) \subseteq Values(d[Other(s)])
  /\ Unseen(c[Other(s)]) \subseteq Unseen(d[Other(s)])

\* move_to_cache takes one option over, and leaves the rest where it is.
LEMMA OneMoved ==
  ASSUME NEW c, Conserved(c), NEW s \in Sides, NEW o
  PROVE  Keeps(c, MoveOne(c, s, o), s, {o})
<1>1. CASE o \notin Values(c[s])
  BY <1>1 DEF MoveOne, Keeps
<1>2. CASE o \in Values(c[s])
  <2> DEFINE a == DeleteFromCache(c[s], o)
             b == Append(c[Other(s)], Entry(o))
  <2>1. /\ Other(s) \in Sides /\ Other(s) # s
        /\ Box(c[s]) /\ Box(c[Other(s)]) /\ Values(c[s]) \cap Values(c[Other(s)]) = {}
        /\ c \in [Sides -> Seq(Item)]
    BY TwoSides DEF Conserved, Boxes
  <2>2. o \in Options \ Values(c[Other(s)])
    BY <1>2, <2>1, BoxShape
  <2>3. /\ Box(a) /\ Values(a) = Values(c[s]) \ {o}
        /\ Unseen(c[s]) \ {o} \subseteq Unseen(a)
    BY <1>2, <2>1, BoxDeleted
  <2>4. /\ Box(b) /\ Values(b) = Values(c[Other(s)]) \cup {o}
        /\ Unseen(c[Other(s)]) \subseteq Unseen(b)
    BY <2>1, <2>2, BoxAppended
  <2>5. MoveOne(c, s, o) = [c EXCEPT ![Other(s)] = b, ![s] = a]
    BY <1>2, <2>1 DEF MoveOne
  <2> HIDE DEF a, b
  <2>6. /\ Values(a) \cap Values(b) = {}
        /\ Values(c[s]) \cup Values(c[Other(s)]) \subseteq Values(a) \cup Values(b)
    BY <2>1, <2>3, <2>4
  <2> PICK d : d = MoveOne(c, s, o)
    OBVIOUS
  <2>7. d \in [Sides -> Seq(Item)] /\ d[s] = a /\ d[Other(s)] = b
    <3>1. a \in Seq(Item) /\ b \in Seq(Item)
      BY <2>3, <2>4 DEF Box
    <3>2. d = [c EXCEPT ![Other(s)] = b, ![s] = a]
      BY <2>5
    <3> QED BY <2>1, <3>1, <3>2
  <2>8. Boxes(d)
    BY <2>3, <2>4, <2>7, TwoSides DEF Boxes
  <2>9. Conserved(d)
    BY <2>6, <2>7, <2>8, Remade
  <2> QED BY <2>3, <2>4, <2>7, <2>9 DEF Keeps
<1> QED BY <1>1, <1>2

\* A sequence of them takes over no more than what it names.
LEMMA AllMoved ==
  ASSUME NEW c, Conserved(c), NEW s \in Sides, NEW X, NEW going \in Seq(X)
  PROVE  Keeps(c, MoveAll(c, s, going), s, {going[n] : n \in 1..Len(going)})
<1> DEFINE N == Len(going)
           gone == {going[n] : n \in 1..N}
           F(g) == [n \in 0..N |-> IF n = 0 THEN c ELSE MoveOne(g[n - 1], s, going[n])]
           after == CHOOSE g : g = F(g)
           V == {v \in [Sides -> Seq(Item)] : Keeps(c, v, s, gone)}
           D == [n \in 1..N |-> [v \in V |-> MoveOne(v, s, going[n])]]
<1>1. N \in Nat
  OBVIOUS
<1>2. c \in V
  BY DEF Keeps, Conserved, Boxes
<1>3. ASSUME NEW v \in V, NEW n \in 1..N
      PROVE  MoveOne(v, s, going[n]) \in V
  <2>1. Conserved(v) /\ Keeps(c, v, s, gone)
    BY DEF Keeps
  <2>2. Keeps(v, MoveOne(v, s, going[n]), s, {going[n]})
    BY <2>1, OneMoved
  <2>3. going[n] \in gone
    OBVIOUS
  <2> HIDE DEF gone
  <2>4. Keeps(c, MoveOne(v, s, going[n]), s, gone)
    BY <2>1, <2>2, <2>3 DEF Keeps
  <2>5. MoveOne(v, s, going[n]) \in [Sides -> Seq(Item)]
    BY <2>4 DEF Keeps, Conserved, Boxes
  <2> QED BY <2>4, <2>5
<1> HIDE DEF V, N, gone
<1>4. \A n \in 1..N : \A v \in V : D[n][v] = MoveOne(v, s, going[n])
  OBVIOUS
<1>5. StaysIn(D, N, V)
  <2> HIDE DEF D
  <2> QED BY <1>3, <1>4 DEF StaysIn
<1> HIDE DEF D
<1>6. PICK g \in [0..N -> V] : g[0] = c /\ \A n \in 1..N : g[n] = D[n][g[n - 1]]
  BY <1>1, <1>2, <1>5, Iteration
<1>7. \A n \in 1..N : n - 1 \in 0..N /\ n \in 0..N /\ n # 0
  BY <1>1
<1>8. g = F(g)
  <2> DEFINE At(n) == IF n = 0 THEN c ELSE MoveOne(g[n - 1], s, going[n])
  <2>1. \A n \in 1..N : g[n] = MoveOne(g[n - 1], s, going[n])
    BY <1>4, <1>6, <1>7
  <2>2. \A n \in 0..N : n = 0 \/ n \in 1..N
    BY <1>1
  <2>3. \A n \in 0..N : g[n] = At(n)
    BY <1>6, <1>7, <2>1, <2>2
  <2>4. F(g) = [n \in 0..N |-> At(n)]
    OBVIOUS
  <2> HIDE DEF F, At
  <2> QED BY <1>6, <2>3, <2>4
<1>9. after = F(after)
  <2> HIDE DEF F
  <2> QED BY <1>8
<1> PICK u : u = after
  OBVIOUS
<1> HIDE DEF after
<1>10. u[0] = c /\ \A n \in 1..N : u[n] = MoveOne(u[n - 1], s, going[n])
  <2>1. u = F(u)
    BY <1>9
  <2>2. 0 \in 0..N
    BY <1>1
  <2> QED BY <1>7, <2>1, <2>2
<1>11. u[N] \in V
  <2> DEFINE In == {n \in 0..N : u[n] \in V}
  <2>1. 0 \in In
    BY <1>1, <1>2, <1>10
  <2>2. ASSUME NEW n \in 0..(N - 1), n \in In
        PROVE  n + 1 \in In
    <3>1. n + 1 \in 1..N /\ n + 1 \in 0..N /\ (n + 1) - 1 = n
      BY <1>1
    <3> QED BY <1>3, <1>10, <2>2, <3>1
  <2> HIDE DEF In
  <2>3. \A n \in 0..N : n \in In
    BY <1>1, <2>1, <2>2, Induction
  <2>4. N \in 0..N
    BY <1>1
  <2> QED BY <2>3, <2>4 DEF In
<1>12. MoveAll(c, s, going) = u[N]
  BY DEF MoveAll, after, N
<1> QED BY <1>11, <1>12 DEF V, gone, N

\* The <option>s of a box are the displayed entries of its cache.
LEMMA ShownValues ==
  ASSUME NEW c, NEW s, Box(c[s])
  PROVE  /\ Shown(c, s) \in Seq(Options)
         /\ \A k \in 1..Len(Shown(c, s)) : \E i \in 1..Len(c[s]) :
              c[s][i].displayed /\ Shown(c, s)[k] = c[s][i].value
         /\ \A i \in 1..Len(c[s]) : c[s][i].displayed =>
              \E k \in 1..Len(Shown(c, s)) : Shown(c, s)[k] = c[s][i].value
<1> PICK q : q = c[s]
  OBVIOUS
<1> DEFINE I == {i \in 1..Len(q) : q[i].displayed}
<1>1. /\ q \in Seq(Item) /\ DOMAIN q = 1..Len(q)
      /\ \A i \in 1..Len(q) : q[i] \in Item /\ q[i].value \in Options
  BY BoxShape DEF Box
<1>2. I \in SUBSET (1..Len(q))
  OBVIOUS
<1>3. \A i \in 1..Len(q) : i \in I <=> q[i].displayed
  OBVIOUS
<1>4. Displayed(q) = Kept(q, I)
  BY <1>1 DEF Displayed
<1> HIDE DEF I
<1>5. Displayed(q) \in Seq(Item) /\ \E p : ComesFrom(Displayed(q), q, I, p)
  BY <1>1, <1>2, <1>4, KeptEntries
<1> PICK e : e = Displayed(q)
  OBVIOUS
<1>6. PICK p : ComesFrom(e, q, I, p)
  BY <1>5
<1>7. /\ \A k \in 1..Len(e) : p[k] \in I /\ e[k] = q[p[k]]
      /\ \A i \in I : \E k \in 1..Len(e) : p[k] = i
  BY <1>6 DEF ComesFrom
<1>8. e \in Seq(Item) /\ Len(e) \in Nat /\ DOMAIN e = 1..Len(e)
      /\ \A k \in 1..Len(e) : e[k] \in Item
  BY <1>5
<1> PICK h : h = Shown(c, s)
  OBVIOUS
<1>9. h = [k \in 1..Len(e) |-> e[k].value]
  BY <1>8 DEF Shown
<1>10. h \in [1..Len(e) -> Options]
  BY <1>8, <1>9, Items
<1>11. h \in Seq(Options) /\ Len(h) = Len(e) /\ \A k \in 1..Len(e) : h[k] = e[k].value
  BY <1>8, <1>9, <1>10, SeqDef
<1>12. \A k \in 1..Len(h) : \E i \in 1..Len(q) : q[i].displayed /\ h[k] = q[i].value
  <2> SUFFICES ASSUME NEW k \in 1..Len(h)
               PROVE  \E i \in 1..Len(q) : q[i].displayed /\ h[k] = q[i].value
    OBVIOUS
  <2>1. k \in 1..Len(e)
    BY <1>11
  <2>2. p[k] \in I /\ p[k] \in 1..Len(q) /\ h[k] = q[p[k]].value
    BY <1>2, <1>7, <1>11, <2>1
  <2> QED BY <1>3, <2>2
<1>13. ASSUME NEW i \in 1..Len(q), q[i].displayed
       PROVE  \E k \in 1..Len(h) : h[k] = q[i].value
  <2>1. PICK k \in 1..Len(e) : p[k] = i
    BY <1>3, <1>7, <1>13
  <2> QED BY <1>7, <1>11, <2>1
<1> QED BY <1>11, <1>12, <1>13

\* What goes over is visible.
LEMMA Going ==
  ASSUME NEW c, NEW s, Box(c[s]), NEW S
  PROVE  /\ Among(Shown(c, s), S) \in Seq(Options)
         /\ \A n \in 1..Len(Among(Shown(c, s), S)) : \E i \in 1..Len(c[s]) :
              c[s][i].displayed /\ Among(Shown(c, s), S)[n] = c[s][i].value
<1> PICK v : v = Shown(c, s) /\ v \in Seq(Options)
  BY ShownValues
<1> DEFINE I == {i \in DOMAIN v : v[i] \in S}
<1>1. I \in SUBSET (1..Len(v))
  OBVIOUS
<1>2. Among(v, S) = Kept(v, I)
  BY DEF Among
<1> HIDE DEF I
<1>3. Among(v, S) \in Seq(Options) /\ \E p : ComesFrom(Among(v, S), v, I, p)
  BY <1>1, <1>2, KeptEntries
<1>4. \A n \in 1..Len(Among(v, S)) : \E k \in 1..Len(v) : Among(v, S)[n] = v[k]
  BY <1>1, <1>3 DEF ComesFrom
<1> QED BY <1>3, <1>4, ShownValues

\* move: whatever is to go over, what the filter hides stays, and so does what is in
\* the other box.
LEMMA MovedKeeps ==
  ASSUME NEW c, Conserved(c), NEW s \in Sides, NEW S
  PROVE  /\ Conserved(Moved(c, s, S))
         /\ \A i \in 1..Len(c[s]) :
              ~c[s][i].displayed => c[s][i].value \in Values(Moved(c, s, S)[s])
         /\ Values(c[Other(s)]) \subseteq Values(Moved(c, s, S)[Other(s)])
         /\ \A x \in Sides : Unseen(c[x]) \subseteq Unseen(Moved(c, s, S)[x])
<1> PICK going : going = Among(Shown(c, s), S)
  OBVIOUS
<1> DEFINE gone == {going[n] : n \in 1..Len(going)}
           d == MoveAll(c, s, going)
           b == Sorted(d[Other(s)])
<1>1. Box(c[s]) /\ Other(s) \in Sides /\ Other(s) # s
  BY TwoSides DEF Conserved, Boxes
<1>2. /\ going \in Seq(Options)
      /\ \A n \in 1..Len(going) : \E i \in 1..Len(c[s]) :
           c[s][i].displayed /\ going[n] = c[s][i].value
  BY <1>1, Going
<1>3. Keeps(c, d, s, gone)
  BY <1>2, AllMoved
<1>4. \A i \in 1..Len(c[s]) :
        ~c[s][i].displayed => c[s][i].value \in Values(c[s]) \ gone
  <2> SUFFICES ASSUME NEW i \in 1..Len(c[s]), ~c[s][i].displayed, c[s][i].value \in gone
               PROVE  FALSE
    BY <1>1, BoxShape
  <2>1. PICK n \in 1..Len(going) : c[s][i].value = going[n]
    OBVIOUS
  <2>2. PICK j \in 1..Len(c[s]) : c[s][j].displayed /\ going[n] = c[s][j].value
    BY <1>2
  <2>3. i = j
    BY <1>1, <2>1, <2>2 DEF Box
  <2> QED BY <2>2, <2>3
<1> HIDE DEF d, gone
<1>5. /\ Conserved(d) /\ d \in [Sides -> Seq(Item)] /\ Box(d[s]) /\ Box(d[Other(s)])
      /\ Values(d[s]) \cap Values(d[Other(s)]) = {}
  BY <1>1, <1>3 DEF Keeps, Conserved, Boxes
<1>6. Box(b) /\ Values(b) = Values(d[Other(s)]) /\ Unseen(d[Other(s)]) \subseteq Unseen(b)
  BY <1>5, BoxSorted
<1>7. Moved(c, s, S) = [d EXCEPT ![Other(s)] = b]
  BY DEF Moved, d
<1> HIDE DEF b
<1> PICK m : m = Moved(c, s, S)
  OBVIOUS
<1>8. m \in [Sides -> Seq(Item)] /\ m[s] = d[s] /\ m[Other(s)] = b
  BY <1>1, <1>5, <1>6, <1>7 DEF Box
<1>9. Boxes(m)
  BY <1>5, <1>6, <1>8, TwoSides DEF Boxes
<1>10. Conserved(m)
  BY <1>5, <1>6, <1>8, <1>9, Remade
<1>11. \A x \in Sides : Unseen(c[x]) \subseteq Unseen(m[x])
  <2>1. Unseen(c[s]) \subseteq Unseen(c[s]) \ gone
    <3>1. DOMAIN c[s] = 1..Len(c[s])
      BY <1>1, BoxShape
    <3> QED BY <1>4, <3>1 DEF Unseen
  <2>2. Unseen(c[s]) \subseteq Unseen(m[s])
    BY <1>3, <1>8, <2>1 DEF Keeps
  <2>3. Unseen(c[Other(s)]) \subseteq Unseen(m[Other(s)])
    BY <1>3, <1>6, <1>8 DEF Keeps
  <2> QED BY <2>2, <2>3, TwoSides
<1> QED BY <1>3, <1>4, <1>6, <1>8, <1>10, <1>11 DEF Keeps

\* Boxes with the same options, flagged anew.
LEMMA Reflagged ==
  ASSUME NEW c, Conserved(c), NEW d \in [Sides -> Seq(Item)],
         \A s \in Sides : Box(d[s]) /\ Values(d[s]) = Values(c[s])
  PROVE  Conserved(d)
BY TwoSides DEF Conserved, Boxes

\* refresh_filtered_selects hides and shows, and moves nothing.
LEMMA RefilteredKeeps ==
  ASSUME NEW c, Conserved(c)
  PROVE  /\ Conserved(Refiltered(c))
         /\ \A s \in Sides : Values(Refiltered(c)[s]) = Values(c[s])
<1> PICK d : d = Refiltered(c)
  OBVIOUS
<1>1. \A s \in Sides : Box(Filtered(c[s], text[s])) /\ Values(Filtered(c[s], text[s])) = Values(c[s])
  BY BoxFiltered DEF Conserved, Boxes
<1>2. \A s \in Sides : Filtered(c[s], text[s]) \in Seq(Item)
  BY <1>1 DEF Box
<1>3. d \in [Sides -> Seq(Item)] /\ \A s \in Sides : d[s] = Filtered(c[s], text[s])
  BY <1>2 DEF Refiltered
<1> QED BY <1>1, <1>3, Reflagged

\* The same for one box.
LEMMA FilteredKeeps ==
  ASSUME NEW c, Conserved(c), NEW s \in Sides, NEW t
  PROVE  /\ Conserved([c EXCEPT ![s] = Filtered(@, t)])
         /\ [c EXCEPT ![s] = Filtered(@, t)][s] = Filtered(c[s], t)
         /\ \A x \in Sides : Values([c EXCEPT ![s] = Filtered(@, t)][x]) = Values(c[x])
<1> PICK d : d = [c EXCEPT ![s] = Filtered(@, t)]
  OBVIOUS
<1>1. Box(Filtered(c[s], t)) /\ Values(Filtered(c[s], t)) = Values(c[s])
  BY BoxFiltered DEF Conserved, Boxes
<1>2. Filtered(c[s], t) \in Seq(Item) /\ c \in [Sides -> Seq(Item)]
  BY <1>1 DEF Box, Conserved, Boxes
<1>3. d \in [Sides -> Seq(Item)] /\ \A x \in Sides : d[x] = IF x = s THEN Filtered(c[s], t) ELSE c[x]
  BY <1>2
<1>4. \A x \in Sides : Box(d[x]) /\ Values(d[x]) = Values(c[x])
  BY <1>1, <1>3 DEF Conserved, Boxes
<1>5. Conserved(d)
  BY <1>3, <1>4, Reflagged
<1> QED BY <1>3, <1>4, <1>5

\* The page as the server sends it: what is chosen on one side, the rest on the other.
LEMMA PageBoxes ==
  ASSUME NEW made \in SUBSET NewOptions, NEW picked
  PROVE  /\ Conserved(Page(made, picked))
         /\ \A s \in Sides : Values(Page(made, picked)[s])
                               = {o \in Range(OptionList) \cup made : o \in picked <=> s = "to"}
<1> DEFINE new == SetToSeq(made)
           listed == OptionList \o new
           I(s) == {i \in DOMAIN listed : listed[i] \in picked <=> s = "to"}
           k(s) == Kept(listed, I(s))
<1>1. /\ OptionList \in Seq(Options) /\ DOMAIN OptionList = 1..Len(OptionList)
      /\ Len(OptionList) \in Nat
      /\ \A i, j \in 1..Len(OptionList) : OptionList[i] = OptionList[j] => i = j
      /\ Range(OptionList) = {OptionList[i] : i \in 1..Len(OptionList)}
      /\ NewOptions \cap Range(OptionList) = {}
  <2>1. OptionList \in Seq(Range(OptionList)) /\ IsInjective(OptionList)
        /\ NewOptions \cap Range(OptionList) = {}
    BY SelectAssumption DEF SelectAssumption
  <2>2. DOMAIN OptionList = 1..Len(OptionList) /\ Len(OptionList) \in Nat
    BY <2>1
  <2>3. Range(OptionList) = {OptionList[i] : i \in 1..Len(OptionList)}
    BY <2>2 DEF Range
  <2>4. \A i, j \in 1..Len(OptionList) : OptionList[i] = OptionList[j] => i = j
    BY <2>1, <2>2 DEF IsInjective
  <2>5. Range(OptionList) \subseteq Options
    BY DEF Options
  <2>6. OptionList \in Seq(Options)
    BY <2>1, <2>3, <2>5
  <2> QED BY <2>1, <2>2, <2>3, <2>4, <2>6
<1>2. /\ new \in Seq(Options) /\ Len(new) \in Nat
      /\ \A i \in 1..Len(new) : new[i] \in made
      /\ \A i, j \in 1..Len(new) : new[i] = new[j] => i = j
      /\ \A o \in made : \E i \in 1..Len(new) : new[i] = o
  <2>1. IsFiniteSet(made)
    BY SelectAssumption, FS_Subset DEF SelectAssumption
  <2>2. new \in Seq(made)
        /\ (\A i, j \in 1..Len(new) : new[i] = new[j] => i = j)
        /\ \A o \in made : \E i \in 1..Len(new) : new[i] = o
    BY <2>1, SetListed
  <2> HIDE DEF new
  <2>3. made \subseteq Options
    BY DEF Options
  <2>4. new \in Seq(Options)
    BY <2>2, <2>3
  <2> QED BY <2>2, <2>4
<1> HIDE DEF new
<1> PICK a \in Nat, b \in Nat : a = Len(OptionList) /\ b = Len(new)
  BY <1>1, <1>2
<1>3. /\ listed \in Seq(Options) /\ Len(listed) = a + b /\ DOMAIN listed = 1..(a + b)
      /\ \A i \in 1..(a + b) : listed[i] = IF i <= a THEN OptionList[i] ELSE new[i - a]
  <2>1. /\ listed \in Seq(Options) /\ Len(listed) = a + b
        /\ \A i \in 1..(a + b) : listed[i] = IF i <= a THEN OptionList[i] ELSE new[i - a]
    BY <1>1, <1>2, ConcatProperties
  <2> QED BY <2>1
<1> HIDE DEF listed
<1>4. \A i \in 1..(a + b) : \/ i \in 1..a /\ i <= a
                            \/ ~(i <= a) /\ i - a \in 1..b
  OBVIOUS
<1>5. \A i \in 1..(a + b) : listed[i] \in Range(OptionList) \cup made
  BY <1>1, <1>2, <1>3, <1>4
<1>6. \A i, j \in 1..(a + b) : listed[i] = listed[j] => i = j
  <2> SUFFICES ASSUME NEW i \in 1..(a + b), NEW j \in 1..(a + b), listed[i] = listed[j]
               PROVE  i = j
    OBVIOUS
  <2>1. CASE i <= a /\ j <= a
    BY <1>1, <1>3, <1>4, <2>1
  <2>2. CASE ~(i <= a) /\ ~(j <= a)
    <3>1. i - a = j - a
      BY <1>2, <1>3, <1>4, <2>2
    <3> QED BY <3>1
  <2>3. ASSUME NEW x \in 1..(a + b), NEW y \in 1..(a + b), x <= a, ~(y <= a)
        PROVE  listed[x] # listed[y]
    <3>1. listed[x] \in Range(OptionList)
      BY <1>1, <1>3, <1>4, <2>3
    <3>2. listed[y] \in NewOptions
      BY <1>2, <1>3, <1>4, <2>3
    <3> QED BY <1>1, <3>1, <3>2
  <2> QED BY <2>1, <2>2, <2>3
<1>7. \A o \in Range(OptionList) \cup made : \E i \in 1..(a + b) : listed[i] = o
  <2> SUFFICES ASSUME NEW o \in Range(OptionList) \cup made
               PROVE  \E i \in 1..(a + b) : listed[i] = o
    OBVIOUS
  <2>1. CASE o \in Range(OptionList)
    <3>1. PICK i \in 1..a : OptionList[i] = o
      BY <1>1, <2>1
    <3>2. i \in 1..(a + b) /\ i <= a
      OBVIOUS
    <3> QED BY <1>3, <3>1, <3>2
  <2>2. CASE o \in made
    <3>1. PICK i \in 1..b : new[i] = o
      BY <1>2, <2>2
    <3>2. a + i \in 1..(a + b) /\ ~(a + i <= a) /\ (a + i) - a = i
      OBVIOUS
    <3>3. listed[a + i] = o
      BY <1>3, <3>1, <3>2
    <3> QED BY <3>2, <3>3
  <2> QED BY <2>1, <2>2
<1> DEFINE q(s) == [i \in DOMAIN k(s) |-> Entry(k(s)[i])]
<1>8. ASSUME NEW s \in Sides
      PROVE  Box(q(s)) /\ Values(q(s))
                            = {o \in Range(OptionList) \cup made : o \in picked <=> s = "to"}
  <2> PICK J : J = I(s)
    OBVIOUS
  <2>1. J \in SUBSET (1..Len(listed))
        /\ \A i \in 1..(a + b) : i \in J <=> (listed[i] \in picked <=> s = "to")
    BY <1>3
  <2> PICK l : l = k(s)
    OBVIOUS
  <2>2. l \in Seq(Options) /\ \E p : ComesFrom(l, listed, J, p)
    BY <1>3, <2>1, KeptEntries
  <2> HIDE DEF I, k
  <2>3. PICK p : ComesFrom(l, listed, J, p)
    BY <2>2
  <2>4. /\ \A j \in 1..Len(l) : p[j] \in J /\ p[j] \in 1..(a + b) /\ l[j] = listed[p[j]]
        /\ \A j, m \in 1..Len(l) : j < m => p[j] < p[m]
        /\ \A i \in J : \E j \in 1..Len(l) : p[j] = i
    BY <1>3, <2>1, <2>3 DEF ComesFrom
  <2>5. Len(l) \in Nat /\ DOMAIN l = 1..Len(l) /\ \A j \in 1..Len(l) : l[j] \in Options
    BY <2>2
  <2>6. \A j, m \in 1..Len(l) : l[j] = l[m] => j = m
    <3> SUFFICES ASSUME NEW j \in 1..Len(l), NEW m \in 1..Len(l), l[j] = l[m]
                 PROVE  j = m
      OBVIOUS
    <3>1. p[j] \in 1..(a + b) /\ p[j] = p[m]
      <4>1. /\ p[j] \in 1..(a + b) /\ p[m] \in 1..(a + b)
            /\ listed[p[j]] = listed[p[m]]
        BY <2>4
      <4> QED BY <1>6, <4>1
    <3>2. ~(p[j] < p[m]) /\ ~(p[m] < p[j])
      BY <3>1
    <3>3. ~(j < m) /\ ~(m < j)
      BY <2>4, <3>2
    <3> QED BY <2>5, <3>3
  <2> PICK h : h = q(s)
    OBVIOUS
  <2>7. h = [j \in 1..Len(l) |-> Entry(l[j])]
    BY <2>5
  <2>8. \A j \in 1..Len(l) : Entry(l[j]) \in Item /\ Entry(l[j]).value = l[j]
    BY <2>5, Items
  <2>9. h \in [1..Len(l) -> Item] /\ \A j \in 1..Len(l) : h[j].value = l[j]
    BY <2>7, <2>8
  <2>10. h \in Seq(Item) /\ Len(h) = Len(l) /\ DOMAIN h = 1..Len(l)
    BY <2>5, <2>7, <2>9, SeqDef
  <2>11. Box(h)
    BY <2>6, <2>9, <2>10 DEF Box
  <2>12. Values(h) = {l[j] : j \in 1..Len(l)}
    BY <2>9, <2>10 DEF Values
  <2>13. \A j \in 1..Len(l) :
           l[j] \in {o \in Range(OptionList) \cup made : o \in picked <=> s = "to"}
    <3> SUFFICES ASSUME NEW j \in 1..Len(l)
                 PROVE  /\ l[j] \in Range(OptionList) \cup made
                        /\ l[j] \in picked <=> s = "to"
      OBVIOUS
    <3>1. p[j] \in 1..(a + b) /\ p[j] \in J /\ l[j] = listed[p[j]]
      BY <2>4
    <3> QED BY <1>5, <2>1, <3>1
  <2>14. ASSUME NEW o \in Range(OptionList) \cup made, o \in picked <=> s = "to"
         PROVE  o \in Values(h)
    <3>1. PICK i \in 1..(a + b) : listed[i] = o
      BY <1>7
    <3>2. i \in J
      BY <2>1, <2>14, <3>1
    <3> QED BY <2>4, <2>12, <3>1, <3>2
  <2>15. Values(h) = {o \in Range(OptionList) \cup made : o \in picked <=> s = "to"}
    BY <2>12, <2>13, <2>14
  <2> QED BY <2>11, <2>15
<1>9. Page(made, picked) = [s \in Sides |-> q(s)]
  BY DEF Page, listed, new
<1> HIDE DEF q
<1> PICK c : c = Page(made, picked)
  OBVIOUS
<1>10. \A s \in Sides : c[s] = q(s)
  BY <1>9
<1>11. Boxes(c)
  <2>1. \A s \in Sides : q(s) \in Seq(Item)
    BY <1>8 DEF Box
  <2> QED BY <1>8, <1>9, <1>10, <2>1 DEF Boxes
<1>12. \A s \in Sides : Values(c[s]) = {o \in Range(OptionList) \cup made : o \in picked <=> s = "to"}
  BY <1>8, <1>10
<1>13. \A s \in Sides : Values(c[s]) \cap Values(c[Other(s)]) = {}
  BY <1>12, TwoSides DEF Sides
<1>14. \A o \in Range(OptionList) : \E s \in Sides : o \in Values(c[s])
  BY <1>12 DEF Sides
<1> QED BY <1>11, <1>12, <1>13, <1>14 DEF Conserved

-----------------------------------------------------------------------------
\* What makes OptionsConserved and SubmitsAllChosen inductive.
SelectInv ==
  /\ Conserved(cache)
  /\ marked \in [Sides -> SUBSET Options]
  /\ SubmitsAllChosen

\* What the filter hides stays on its side.
Stays(c, d) ==
  \A s \in Sides : \A i \in DOMAIN c[s] :
    ~c[s][i].displayed => c[s][i].value \in Values(d[s])

\* Nothing has moved, or only what is visible of one box.
LEMMA NothingMoved ==
  ASSUME NEW c, Conserved(c), NEW d, \A s \in Sides : Values(c[s]) \subseteq Values(d[s])
  PROVE  Stays(c, d)
<1>1. \A s \in Sides : Box(c[s])
  BY DEF Conserved, Boxes
<1>2. \A s \in Sides : \A i \in DOMAIN c[s] : c[s][i].value \in Values(c[s])
  BY DEF Values
<1> QED BY <1>2 DEF Stays

\* move takes what is visible, whatever the other box receives.
LEMMA MovedStays ==
  ASSUME NEW c, Conserved(c), NEW s \in Sides, NEW S, NEW d,
         \A x \in Sides : Values(Moved(c, s, S)[x]) \subseteq Values(d[x])
  PROVE  Stays(c, d)
<1> PICK m : m = Moved(c, s, S)
  OBVIOUS
<1>1. /\ \A i \in 1..Len(c[s]) : ~c[s][i].displayed => c[s][i].value \in Values(m[s])
      /\ Values(c[Other(s)]) \subseteq Values(m[Other(s)])
  BY MovedKeeps
<1>2. \A x \in Sides : DOMAIN c[x] = 1..Len(c[x])
  BY BoxShape DEF Conserved, Boxes
<1>3. \A i \in DOMAIN c[Other(s)] : c[Other(s)][i].value \in Values(m[Other(s)])
  BY <1>1 DEF Values
<1>4. Other(s) \in Sides /\ \A x \in Sides : x = s \/ x = Other(s)
  BY TwoSides
<1> QED BY <1>1, <1>2, <1>3, <1>4 DEF Stays

\* Highlights are options.
LEMMA MarkedOptions ==
  ASSUME NEW c, Conserved(c), NEW s \in Sides
  PROVE  /\ Range(Shown(c, s)) \subseteq Options
         /\ \A i : MarkAt(c, s, i) \subseteq Options
<1>1. Shown(c, s) \in Seq(Options)
  BY ShownValues DEF Conserved, Boxes
<1>2. \A i \in DOMAIN Shown(c, s) : Shown(c, s)[i] \in Options
  BY <1>1
<1> QED BY <1>2 DEF Range, MarkAt

\* The page as it is first opened.
LEMMA SelectStart == SelectInit => SelectInv
<1> SUFFICES ASSUME SelectInit PROVE SelectInv
  OBVIOUS
<1>1. PICK picked \in SUBSET Range(OptionList) : Opened(Page({}, picked))
  BY DEF SelectInit
<1>2. Conserved(Page({}, picked))
  BY PageBoxes
<1>3. cache = Page({}, picked) /\ marked = Nothing /\ submitted = FALSE
  BY <1>1 DEF Opened
<1> QED BY <1>2, <1>3 DEF SelectInv, Nothing, SubmitsAllChosen

\* What a handler makes of the boxes.
LEMMA CacheKept ==
  ASSUME SelectInv, [SelectNext]_selectVars
  PROVE  Conserved(cache') /\ Stays(cache, cache')
<1>1. Conserved(cache) /\ cache \in [Sides -> Seq(Item)]
  BY DEF SelectInv, Conserved, Boxes
<1>2. ASSUME UNCHANGED cache
      PROVE  Conserved(cache') /\ Stays(cache, cache')
  BY <1>1, <1>2, NothingMoved
<1>3. ASSUME NEW s \in Sides, NEW S, cache' = Moved(cache, s, S)
      PROVE  Conserved(cache') /\ Stays(cache, cache')
  BY <1>1, <1>3, MovedKeeps, MovedStays
<1>4. ASSUME NEW s \in Sides, NEW S, cache' = Refiltered(Moved(cache, s, S))
      PROVE  Conserved(cache') /\ Stays(cache, cache')
  <2>1. Conserved(Moved(cache, s, S))
    BY <1>1, MovedKeeps
  <2>2. /\ Conserved(cache')
        /\ \A x \in Sides : Values(cache'[x]) = Values(Moved(cache, s, S)[x])
    BY <1>4, <2>1, RefilteredKeeps
  <2> QED BY <1>1, <2>2, MovedStays
<1>5. ASSUME NEW s \in Sides, NEW t, cache' = [cache EXCEPT ![s] = Filtered(@, t)]
      PROVE  Conserved(cache') /\ Stays(cache, cache')
  <2>1. /\ Conserved(cache')
        /\ \A x \in Sides : Values(cache'[x]) = Values(cache[x])
    BY <1>1, <1>5, FilteredKeeps
  <2> QED BY <1>1, <2>1, NothingMoved
<1>6. ASSUME NEW s \in Sides, NEW o \in NewOptions, AddRelated(s, o)
      PROVE  Conserved(cache') /\ Stays(cache, cache')
  <2> PICK d : d = cache'
    OBVIOUS
  <2>1. /\ o \in Options /\ \A x \in Sides : o \notin Values(cache[x])
        /\ d = [cache EXCEPT ![s] = Append(@, Entry(o))]
    BY <1>6 DEF AddRelated, Options, Sides
  <2>2. Other(s) \in Sides /\ Other(s) # s /\ \A x \in Sides : x = s \/ x = Other(s)
    BY TwoSides
  <2>3. /\ Box(Append(cache[s], Entry(o)))
        /\ Values(Append(cache[s], Entry(o))) = Values(cache[s]) \cup {o}
    BY <1>1, <2>1, BoxAppended DEF Conserved, Boxes
  <2>4. /\ d \in [Sides -> Seq(Item)]
        /\ d[s] = Append(cache[s], Entry(o)) /\ d[Other(s)] = cache[Other(s)]
    BY <1>1, <2>1, <2>2, <2>3 DEF Box
  <2>5. Boxes(d)
    BY <1>1, <2>2, <2>3, <2>4 DEF Conserved, Boxes
  <2>6. Values(cache[s]) \cap Values(cache[Other(s)]) = {}
    BY <1>1 DEF Conserved
  <2>7. /\ Values(d[s]) \cap Values(d[Other(s)]) = {}
        /\ Values(cache[s]) \cup Values(cache[Other(s)])
             \subseteq Values(d[s]) \cup Values(d[Other(s)])
    <3>1. o \notin Values(cache[Other(s)])
      BY <2>1, <2>2
    <3> QED BY <2>3, <2>4, <2>6, <3>1
  <2>8. Conserved(d)
    BY <1>1, <2>5, <2>7, Remade
  <2>9. \A x \in Sides : Values(cache[x]) \subseteq Values(d[x])
    BY <2>2, <2>3, <2>4
  <2> QED BY <1>1, <2>8, <2>9, NothingMoved
<1>7. ASSUME Reopen
      PROVE  Conserved(cache') /\ Stays(cache, cache')
  <2> DEFINE made == NewOptions \cap (Values(cache["from"]) \cup Values(cache["to"]))
             picked == marked["to"]
  <2>1. picked = Values(cache["to"]) /\ cache' = Page(made, picked)
    BY <1>7 DEF Reopen, SelectInv, SubmitsAllChosen
  <2>2. made \in SUBSET NewOptions
    OBVIOUS
  <2> HIDE DEF made, picked
  <2> PICK d : d = Page(made, picked)
    OBVIOUS
  <2>3. /\ Conserved(d)
        /\ \A s \in Sides :
             Values(d[s]) = {o \in Range(OptionList) \cup made : o \in picked <=> s = "to"}
    BY <2>2, PageBoxes
  <2>4. ASSUME NEW s \in Sides, NEW o \in Values(cache[s])
        PROVE  o \in Values(d[s])
    <3>1. o \in Options
      BY <1>1, BoxShape DEF Conserved, Boxes
    <3>2. o \in Values(cache["to"]) <=> s = "to"
      BY <1>1 DEF Conserved, Sides, Other
    <3>3. o \in Range(OptionList) \cup made
      BY <3>1 DEF Options, made, Sides
    <3> QED BY <2>1, <2>3, <3>2, <3>3
  <2> QED BY <1>1, <2>1, <2>3, <2>4, NothingMoved
<1>8. ASSUME NEW b, NEW s \in Sides, NEW S, Press(b, s, S)
      PROVE  Conserved(cache') /\ Stays(cache, cache')
  BY <1>4, <1>8 DEF Press
<1>9. "from" \in Sides /\ "to" \in Sides
  BY DEF Sides
<1>10. CASE PressButton
  BY <1>8, <1>9, <1>10 DEF PressButton
<1>11. CASE ClearWarning \/ Submit
  BY <1>5, <1>9, <1>11 DEF ClearWarning, Submit
<1>12. ASSUME NEW s \in Sides, NEW S, Mark(s, S)
       PROVE  Conserved(cache') /\ Stays(cache, cache')
  BY <1>2, <1>12 DEF Mark
<1>13. ASSUME NEW s \in Sides, DoubleClick(s) \/ Enter(s)
       PROVE  Conserved(cache') /\ Stays(cache, cache')
  BY <1>3, <1>13 DEF DoubleClick, Enter
<1>14. ASSUME NEW s \in Sides, ArrowAcross(s)
       PROVE  Conserved(cache') /\ Stays(cache, cache')
  BY <1>4, <1>14 DEF ArrowAcross
<1>15. ASSUME NEW s \in Sides, (\E t \in Texts : Type(s, t)) \/ ArrowAlong(s)
       PROVE  Conserved(cache') /\ Stays(cache, cache')
  BY <1>2, <1>15 DEF Type, ArrowAlong
<1>16. ASSUME NEW s \in Sides, KeyUp(s)
       PROVE  Conserved(cache') /\ Stays(cache, cache')
  BY <1>5, <1>16 DEF KeyUp
<1>17. CASE UNCHANGED selectVars
  BY <1>2, <1>17 DEF selectVars
<1> QED BY <1>6, <1>7, <1>10, <1>11, <1>12, <1>13, <1>14, <1>15, <1>16, <1>17 DEF SelectNext

\* What is highlighted remains a set of options.
LEMMA MarkedKept ==
  ASSUME SelectInv, [SelectNext]_selectVars
  PROVE  marked' \in [Sides -> SUBSET Options]
<1>1. Conserved(cache) /\ marked \in [Sides -> SUBSET Options]
  BY DEF SelectInv
<1>2. Conserved(cache')
  BY CacheKept
<1>3. "from" \in Sides /\ "to" \in Sides
  BY DEF Sides
<1>4. Nothing \in [Sides -> SUBSET Options]
  BY DEF Nothing
<1>5. \A s \in Sides : Range(Shown(cache, s)) \subseteq Options /\ \A i : MarkAt(cache, s, i) \subseteq Options
  BY <1>1, MarkedOptions
<1> PICK d : d = cache'
  OBVIOUS
<1>6. \A s \in Sides : Range(Shown(d, s)) \subseteq Options /\ \A i : MarkAt(d, s, i) \subseteq Options
  BY <1>2, MarkedOptions
<1>7. ASSUME NEW m \in [Sides -> SUBSET Options], NEW s \in Sides, NEW S \in SUBSET Options
      PROVE  [m EXCEPT ![s] = S] \in [Sides -> SUBSET Options]
  OBVIOUS
<1>8. ASSUME NEW s \in Sides, NEW S \in SUBSET Options, Mark(s, S)
      PROVE  marked' \in [Sides -> SUBSET Options]
  BY <1>1, <1>7, <1>8 DEF Mark
<1>9. ASSUME NEW s \in Sides, DoubleClick(s)
      PROVE  marked' \in [Sides -> SUBSET Options]
  BY <1>4, <1>9 DEF DoubleClick
<1>10. ASSUME NEW s \in Sides, NEW t \in Texts, Type(s, t)
       PROVE  marked' \in [Sides -> SUBSET Options]
  BY <1>1, <1>10 DEF Type
<1>11. ASSUME NEW s \in Sides, Enter(s)
       PROVE  marked' \in [Sides -> SUBSET Options]
  <2>1. MarkAt(d, s, 1) \in SUBSET Options
    BY <1>6
  <2>2. marked' = [Nothing EXCEPT ![s] = MarkAt(d, s, 1)]
    BY <1>11 DEF Enter
  <2> QED BY <1>4, <1>7, <2>1, <2>2
<1>12. ASSUME NEW s \in Sides, ArrowAcross(s)
       PROVE  marked' \in [Sides -> SUBSET Options]
  <2>1. PICK i : marked' = [Nothing EXCEPT ![s] = MarkAt(d, s, i)]
    BY <1>12 DEF ArrowAcross
  <2>2. MarkAt(d, s, i) \in SUBSET Options
    BY <1>6
  <2> QED BY <1>4, <1>7, <2>1, <2>2
<1>13. ASSUME NEW s \in Sides, ArrowAlong(s)
       PROVE  marked' \in [Sides -> SUBSET Options]
  <2>1. PICK i : marked' = [marked EXCEPT ![s] = MarkAt(cache, s, i)]
    BY <1>13 DEF ArrowAlong
  <2>2. MarkAt(cache, s, i) \in SUBSET Options
    BY <1>5
  <2> QED BY <1>1, <1>7, <2>1, <2>2
<1>14. ASSUME NEW s \in Sides, KeyUp(s)
       PROVE  marked' \in [Sides -> SUBSET Options]
  <2>1. PICK i : marked' = [marked EXCEPT ![s] = MarkAt(d, s, i)]
    BY <1>14 DEF KeyUp
  <2>2. MarkAt(d, s, i) \in SUBSET Options
    BY <1>6
  <2> QED BY <1>1, <1>7, <2>1, <2>2
<1>15. ASSUME NEW s \in Sides, NEW o \in NewOptions, AddRelated(s, o)
       PROVE  marked' \in [Sides -> SUBSET Options]
  BY <1>1, <1>7, <1>15 DEF AddRelated
<1>16. CASE PressButton \/ Reopen
  BY <1>4, <1>16 DEF PressButton, Press, Reopen
<1>17. CASE ClearWarning
  BY <1>1, <1>3, <1>7, <1>17 DEF ClearWarning
<1>18. CASE Submit
  <2>1. marked' = [marked EXCEPT !["to"] = Range(Shown(d, "to"))]
    BY <1>18 DEF Submit
  <2>2. Range(Shown(d, "to")) \in SUBSET Options
    BY <1>3, <1>6
  <2> QED BY <1>1, <1>3, <1>7, <2>1, <2>2
<1>19. CASE UNCHANGED selectVars
  BY <1>1, <1>19 DEF selectVars
<1> QED BY <1>8, <1>9, <1>10, <1>11, <1>12, <1>13, <1>14, <1>15, <1>16, <1>17, <1>18, <1>19
        DEF SelectNext

\* When nothing is hidden, the <option>s are all there is.
LEMMA AllShown ==
  ASSUME NEW c, NEW s, Box(c[s]), \A i \in 1..Len(c[s]) : c[s][i].displayed
  PROVE  Range(Shown(c, s)) = Values(c[s])
<1>1. /\ Shown(c, s) \in Seq(Options)
      /\ \A k \in 1..Len(Shown(c, s)) : \E i \in 1..Len(c[s]) : Shown(c, s)[k] = c[s][i].value
      /\ \A i \in 1..Len(c[s]) : \E k \in 1..Len(Shown(c, s)) : Shown(c, s)[k] = c[s][i].value
  <2>1. /\ Shown(c, s) \in Seq(Options)
        /\ \A k \in 1..Len(Shown(c, s)) : \E i \in 1..Len(c[s]) :
             c[s][i].displayed /\ Shown(c, s)[k] = c[s][i].value
        /\ \A i \in 1..Len(c[s]) : c[s][i].displayed =>
             \E k \in 1..Len(Shown(c, s)) : Shown(c, s)[k] = c[s][i].value
    BY ShownValues
  <2> QED BY <2>1
<1>2. DOMAIN c[s] = 1..Len(c[s]) /\ DOMAIN Shown(c, s) = 1..Len(Shown(c, s))
  BY <1>1, BoxShape
<1>3. Range(Shown(c, s)) = {Shown(c, s)[k] : k \in 1..Len(Shown(c, s))}
  BY <1>2 DEF Range
<1>4. Values(c[s]) = {c[s][i].value : i \in 1..Len(c[s])}
  BY <1>2 DEF Values
<1> QED BY <1>1, <1>3, <1>4

\* select_all takes the filter back before it highlights, so it highlights all.
LEMMA AllSubmitted ==
  ASSUME SelectInv, Submit
  PROVE  marked'["to"] = Values(cache'["to"])
<1>1. "to" \in Sides /\ Box(cache["to"]) /\ cache \in [Sides -> Seq(Item)]
      /\ marked \in [Sides -> SUBSET Options]
  BY DEF SelectInv, Conserved, Boxes, Sides
<1>2. PICK d : d = cache'
  OBVIOUS
<1>3. PICK o : o = cache["to"]
  OBVIOUS
<1>4. d["to"] = Filtered(o, Blank) /\ marked'["to"] = Range(Shown(d, "to"))
  BY <1>1, <1>2, <1>3 DEF Submit
<1>5. Box(o)
  BY <1>1, <1>3
<1>6. /\ Box(d["to"]) /\ DOMAIN d["to"] = 1..Len(o)
      /\ \A i \in 1..Len(o) : /\ d["to"][i].value = o[i].value
                              /\ d["to"][i].displayed = (o[i].value \in Matches[Blank])
  BY <1>4, <1>5, BoxFiltered
<1>7. \A i \in 1..Len(o) : o[i].value \in Matches[Blank]
  BY <1>5, BoxShape, SelectAssumption DEF SelectAssumption, Options
<1>8. DOMAIN d["to"] = 1..Len(d["to"])
  BY <1>6, BoxShape
<1>9. \A i \in 1..Len(d["to"]) : d["to"][i].displayed
  BY <1>6, <1>7, <1>8
<1>10. Range(Shown(d, "to")) = Values(d["to"])
  BY <1>6, <1>9, AllShown
<1> QED BY <1>2, <1>4, <1>10

\* SelectInv is inductive.
LEMMA SelectKept ==
  ASSUME SelectInv, [SelectNext]_selectVars
  PROVE  SelectInv'
<1>1. Conserved(cache')
  BY CacheKept
<1>2. marked' \in [Sides -> SUBSET Options]
  BY MarkedKept
<1>3. SubmitsAllChosen'
  <2>1. CASE UNCHANGED selectVars
    BY <2>1 DEF SelectInv, SubmitsAllChosen, selectVars
  <2>2. CASE Submit
    BY <2>2, AllSubmitted DEF SubmitsAllChosen
  <2>3. CASE Reopen
    BY <2>3 DEF Reopen, SubmitsAllChosen
  <2>4. ASSUME NEW s \in Sides, ~submitted,
               \/ \E S \in SUBSET Options : Mark(s, S)
               \/ DoubleClick(s)
               \/ \E t \in Texts : Type(s, t)
               \/ Enter(s)
               \/ ArrowAcross(s)
               \/ ArrowAlong(s)
               \/ KeyUp(s)
               \/ \E o \in NewOptions : AddRelated(s, o)
        PROVE  ~submitted'
    BY <2>4 DEF Mark, DoubleClick, Type, Enter, ArrowAcross, ArrowAlong, KeyUp, AddRelated
  <2>5. CASE ~submitted /\ (PressButton \/ ClearWarning)
    BY <2>5 DEF PressButton, Press, ClearWarning, SubmitsAllChosen
  <2> QED BY <2>1, <2>2, <2>3, <2>4, <2>5 DEF SelectNext, SubmitsAllChosen
<1> QED BY <1>1, <1>2, <1>3 DEF SelectInv

\* Boxes without an option in common hold each of theirs once.
LEMMA BoxesOnce ==
  ASSUME NEW a, Box(a), NEW b, Box(b), Values(a) \cap Values(b) = {}
  PROVE  /\ Values(a) \cup Values(b) \subseteq Values(a \o b)
         /\ Len(a \o b) = Cardinality(Values(a \o b))
<1>1. /\ a \in Seq(Item) /\ Len(a) \in Nat /\ DOMAIN a = 1..Len(a)
      /\ b \in Seq(Item) /\ Len(b) \in Nat /\ DOMAIN b = 1..Len(b)
  BY BoxShape DEF Box
<1>2. PICK m \in Nat, n \in Nat : m = Len(a) /\ n = Len(b)
  BY <1>1
<1>3. PICK both : both = a \o b
  OBVIOUS
<1>4. /\ both \in Seq(Item) /\ Len(both) = m + n
      /\ \A i \in 1..(m + n) : both[i] = IF i <= m THEN a[i] ELSE b[i - m]
  BY <1>1, <1>2, <1>3, ConcatProperties
<1>5. DOMAIN both = 1..(m + n)
  BY <1>4
<1>6. /\ \A i \in 1..m : i \in 1..(m + n) /\ both[i] = a[i]
      /\ \A i \in 1..n : m + i \in 1..(m + n) /\ both[m + i] = b[i]
  <2>1. ASSUME NEW i \in 1..m
        PROVE  i \in 1..(m + n) /\ i <= m
    BY <1>2
  <2>2. ASSUME NEW i \in 1..n
        PROVE  m + i \in 1..(m + n) /\ ~(m + i <= m) /\ (m + i) - m = i
    BY <1>2
  <2> QED BY <1>4, <2>1, <2>2
<1>7. Values(a) = {a[i].value : i \in 1..m} /\ Values(b) = {b[i].value : i \in 1..n}
  BY <1>1, <1>2 DEF Values
<1>8. Values(both) = {both[i].value : i \in 1..(m + n)}
  BY <1>5 DEF Values
<1>9. Values(a) \cup Values(b) \subseteq Values(both)
  <2>1. \A i \in 1..m : a[i].value \in Values(both)
    BY <1>6, <1>8
  <2>2. \A i \in 1..n : b[i].value \in Values(both)
    BY <1>6, <1>8
  <2> QED BY <1>7, <2>1, <2>2
<1>10. ASSUME NEW i \in 1..(m + n)
       PROVE  \/ i \in 1..m /\ both[i].value = a[i].value
              \/ i - m \in 1..n /\ both[i].value = b[i - m].value /\ i \notin 1..m
  <2>1. CASE i <= m
    BY <1>2, <1>6, <2>1
  <2>2. CASE ~(i <= m)
    <3>1. i - m \in 1..n /\ m + (i - m) = i /\ i \notin 1..m
      BY <1>2, <2>2
    <3> QED BY <1>6, <3>1
  <2> QED BY <2>1, <2>2
<1>11. /\ \A i, j \in 1..m : a[i].value = a[j].value => i = j
       /\ \A i, j \in 1..n : b[i].value = b[j].value => i = j
  BY <1>2 DEF Box
<1>12. \A i, j \in 1..(m + n) : both[i].value = both[j].value => i = j
  <2> SUFFICES ASSUME NEW i \in 1..(m + n), NEW j \in 1..(m + n), both[i].value = both[j].value
               PROVE  i = j
    OBVIOUS
  <2>1. CASE i \in 1..m /\ j \in 1..m
    BY <1>6, <1>11, <2>1
  <2>2. CASE i \notin 1..m /\ j \notin 1..m
    <3>1. i - m = j - m
      BY <1>10, <1>11, <2>2
    <3> QED BY <1>2, <3>1
  <2>3. ASSUME NEW x \in 1..(m + n), NEW y \in 1..(m + n), x \in 1..m, y \notin 1..m
        PROVE  both[x].value # both[y].value
    <3>1. both[x].value \in Values(a)
      BY <1>6, <1>7, <2>3
    <3>2. both[y].value \in Values(b)
      BY <1>7, <1>10, <2>3
    <3> QED BY <3>1, <3>2
  <2> QED BY <2>1, <2>2, <2>3
<1>13. Cardinality(Values(both)) = m + n
  <2> DEFINE V(i) == both[i].value
             f == [i \in 1..(m + n) |-> V(i)]
  <2>1. Values(both) = {V(i) : i \in 1..(m + n)}
    BY <1>8
  <2>2. \A i, j \in 1..(m + n) : V(i) = V(j) => i = j
    BY <1>12
  <2> HIDE DEF V
  <2>3. f \in Bijection(1..(m + n), Values(both))
    BY <2>1, <2>2 DEF Bijection, Injection, Surjection, IsInjective
  <2>4. ExistsBijection(1..(m + n), Values(both))
    BY <2>3 DEF ExistsBijection
  <2> QED BY <1>2, <2>4, FS_CountingElements
<1> QED BY <1>3, <1>4, <1>9, <1>13

\* The options of both boxes, each once.
LEMMA ConservedOptions == SelectInv => OptionsConserved
<1> SUFFICES ASSUME SelectInv PROVE OptionsConserved
  OBVIOUS
<1>1. PICK a, b : a = cache["from"] /\ b = cache["to"]
  OBVIOUS
<1>2. /\ Box(a) /\ Box(b) /\ Values(a) \cap Values(b) = {}
      /\ Range(OptionList) \subseteq Values(a) \cup Values(b)
  BY <1>1 DEF SelectInv, Conserved, Boxes, Sides, Other
<1>3. /\ Values(a) \cup Values(b) \subseteq Values(a \o b)
      /\ Len(a \o b) = Cardinality(Values(a \o b))
  BY <1>2, BoxesOnce
<1> QED BY <1>1, <1>2, <1>3 DEF OptionsConserved

\* The step that SelectKept makes, for every state.
LEMMA SelectAlways == SelectSpec => []SelectInv
<1>1. SelectInit => SelectInv
  BY SelectStart
<1>2. SelectInv /\ [SelectNext]_selectVars => SelectInv'
  BY SelectKept
<1> QED BY <1>1, <1>2, PTL DEF SelectSpec

\* However buttons, double clicks, keys and filters are mixed, the two boxes hold each
\* of the field's options once (SelectBox.move, delete_from_cache).
THEOREM OptionsAreConserved == SelectSpec => []OptionsConserved
BY SelectAlways, ConservedOptions, PTL

\* What the form sends is everything in the chosen box, the options that the filter
\* hides included (the submit handler of SelectFilter.init).
THEOREM FormsSubmitAllChosen == SelectSpec => []SubmitsAllChosen
<1>1. SelectInv => SubmitsAllChosen
  BY DEF SelectInv
<1> QED BY <1>1, SelectAlways, PTL

\* No handler moves an option that the filter hides.
THEOREM HiddenOptionsStay == SelectSpec => HiddenStays
<1>1. SelectInv /\ [SelectNext]_selectVars =>
        \/ \A s \in Sides : \A i \in DOMAIN cache[s] :
             ~cache[s][i].displayed => cache[s][i].value \in Values(cache'[s])
        \/ UNCHANGED selectVars
  BY CacheKept DEF Stays
<1> QED BY <1>1, SelectAlways, PTL DEF SelectSpec, HiddenStays

-----------------------------------------------------------------------------
\* The number of hidden options is how many entries there are less than <option>s.
LEMMA HiddenCount ==
  ASSUME NEW c, NEW s, Box(c[s])
  PROVE  /\ IsFiniteSet(Unseen(c[s])) /\ Cardinality(Unseen(c[s])) \in Nat
         /\ Hidden(c, s) = Cardinality(Unseen(c[s]))
         /\ Cardinality(Unseen(c[s])) <= Len(c[s])
<1>1. PICK q : q = c[s] /\ Box(q)
  OBVIOUS
<1>2. /\ q \in Seq(Item) /\ DOMAIN q = 1..Len(q) /\ Len(q) \in Nat
      /\ \A i, j \in 1..Len(q) : q[i].value = q[j].value => i = j
  BY <1>1, BoxShape DEF Box
<1>3. PICK n \in Nat : n = Len(q)
  BY <1>2
<1> DEFINE I == {i \in 1..n : q[i].displayed}
           J == {i \in 1..n : ~q[i].displayed}
<1>4. I \in SUBSET (1..n) /\ J = (1..n) \ I /\ (1..n) \cap I = I
  OBVIOUS
<1>5. Displayed(q) = Kept(q, I) /\ Unseen(q) = {q[i].value : i \in J}
  BY <1>2, <1>3 DEF Displayed, Unseen
<1>6. J \subseteq 1..n
  OBVIOUS
<1> HIDE DEF I, J
<1>7. PICK k : k = Kept(q, I)
  OBVIOUS
<1>8. k \in Seq(Item) /\ Len(k) \in Nat /\ \E p : ComesFrom(k, q, I, p)
  <2>1. Kept(q, I) \in Seq(Item) /\ \E p : ComesFrom(Kept(q, I), q, I, p)
    BY <1>2, <1>3, <1>4, KeptEntries
  <2> QED BY <1>7, <2>1
<1>9. Cardinality(I) = Len(k)
  <2>1. PICK m \in Nat : m = Len(k)
    BY <1>8
  <2>2. PICK p : ComesFrom(k, q, I, p)
    BY <1>8
  <2>3. /\ p \in [1..m -> I]
        /\ \A j, l \in 1..m : j < l => p[j] < p[l]
        /\ \A i \in I : \E j \in 1..m : p[j] = i
    BY <2>1, <2>2 DEF ComesFrom
  <2>4. \A j \in 1..m : p[j] \in 1..n
    BY <1>4, <2>3
  <2>5. \A j, l \in 1..m : p[j] = p[l] => j = l
    BY <2>3, <2>4
  <2>6. p \in Bijection(1..m, I)
    BY <2>3, <2>5 DEF Bijection, Injection, Surjection, IsInjective
  <2>7. ExistsBijection(1..m, I)
    BY <2>6 DEF ExistsBijection
  <2> QED BY <2>1, <2>7, FS_CountingElements
<1>10. IsFiniteSet(1..n) /\ Cardinality(1..n) = n
  BY FS_Interval
<1>11. IsFiniteSet(J) /\ Cardinality(J) = n - Len(k)
  <2>1. /\ IsFiniteSet((1..n) \ I)
        /\ Cardinality((1..n) \ I) = Cardinality(1..n) - Cardinality((1..n) \cap I)
    BY <1>10, FS_Difference
  <2> QED BY <1>4, <1>9, <1>10, <2>1
<1>12. Cardinality(J) \in Nat /\ Cardinality(J) <= n
  <2>1. J \in SUBSET (1..n)
    BY <1>6
  <2> QED BY <1>10, <1>11, <2>1, FS_Subset, FS_CardinalityType
<1>13. IsFiniteSet(Unseen(q)) /\ Cardinality(Unseen(q)) = Cardinality(J)
  <2> DEFINE V(i) == q[i].value
             f == [i \in J |-> V(i)]
  <2>1. Unseen(q) = {V(i) : i \in J}
    BY <1>5
  <2>2. \A i, j \in J : V(i) = V(j) => i = j
    BY <1>2, <1>3, <1>6
  <2> HIDE DEF V
  <2>3. f \in Bijection(J, Unseen(q))
    BY <2>1, <2>2 DEF Bijection, Injection, Surjection, IsInjective
  <2>4. ExistsBijection(J, Unseen(q))
    BY <2>3 DEF ExistsBijection
  <2> QED BY <1>11, <2>4, FS_Bijection
<1>14. Hidden(c, s) = n - Len(k)
  BY <1>1, <1>3, <1>5, <1>7 DEF Hidden
<1> QED BY <1>1, <1>3, <1>11, <1>12, <1>13, <1>14

\* What is highlighted is visible.
InSight(c, m) == \A s \in Sides : m[s] \subseteq Range(Shown(c, s))

\* The highlight is set in one box, and right in the other.
LEMMA LitAt ==
  ASSUME NEW d, NEW m \in [Sides -> SUBSET Options], NEW s \in Sides, NEW S,
         S \subseteq Range(Shown(d, s)),
         \A x \in Sides : x # s => m[x] \subseteq Range(Shown(d, x))
  PROVE  InSight(d, [m EXCEPT ![s] = S])
<1>1. \A x \in Sides : [m EXCEPT ![s] = S][x] = IF x = s THEN S ELSE m[x]
  OBVIOUS
<1> QED BY <1>1 DEF InSight

\* A highlighted position is one of those there are.
LEMMA MarkIsShown ==
  ASSUME NEW c, NEW s, NEW i
  PROVE  MarkAt(c, s, i) \subseteq Range(Shown(c, s))
BY DEF MarkAt, Range

\* Whichever handler runs, what is highlighted stands in its box and is visible.
LEMMA LitKept ==
  ASSUME SelectInv, InSight(cache, marked), [SelectNext]_selectVars
  PROVE  InSight(cache', marked')
<1>1. PICK d : d = cache'
  OBVIOUS
<1>2. cache \in [Sides -> Seq(Item)] /\ marked \in [Sides -> SUBSET Options]
  BY DEF SelectInv, Conserved, Boxes
<1>3. Nothing \in [Sides -> SUBSET Options] /\ \A x \in Sides : Nothing[x] = {}
  BY DEF Nothing
<1>4. "from" \in Sides /\ "to" \in Sides
  BY DEF Sides
<1>5. ASSUME NEW m \in [Sides -> SUBSET Options], NEW s \in Sides, NEW S,
             marked' = [m EXCEPT ![s] = S], S \subseteq Range(Shown(d, s)),
             \A x \in Sides : x # s => m[x] \subseteq Range(Shown(d, x))
      PROVE  InSight(cache', marked')
  BY <1>1, <1>5, LitAt
<1>6. ASSUME marked' = Nothing
      PROVE  InSight(cache', marked')
  BY <1>3, <1>6 DEF InSight
<1>7. ASSUME NEW s \in Sides, NEW i, marked' = [Nothing EXCEPT ![s] = MarkAt(d, s, i)]
      PROVE  InSight(cache', marked')
  <2>1. MarkAt(d, s, i) \subseteq Range(Shown(d, s))
    BY MarkIsShown
  <2>2. \A x \in Sides : x # s => Nothing[x] \subseteq Range(Shown(d, x))
    BY <1>3
  <2> QED BY <1>3, <1>5, <1>7, <2>1, <2>2
\* One box is changed, and highlighted anew.
<1>8. ASSUME NEW s \in Sides, NEW q, NEW S, marked' = [marked EXCEPT ![s] = S],
             d = [cache EXCEPT ![s] = q], S \subseteq Range(Shown(d, s))
      PROVE  InSight(cache', marked')
  <2>1. \A x \in Sides : x # s => d[x] = cache[x]
    BY <1>2, <1>8
  <2>2. \A x \in Sides : x # s => Shown(d, x) = Shown(cache, x)
    BY <2>1 DEF Shown
  <2>3. \A x \in Sides : x # s => marked[x] \subseteq Range(Shown(d, x))
    BY <2>2 DEF InSight
  <2> QED BY <1>2, <1>5, <1>8, <2>3
\* No box is changed.
<1>9. ASSUME NEW s \in Sides, NEW S, marked' = [marked EXCEPT ![s] = S],
             d = cache, S \subseteq Range(Shown(d, s))
      PROVE  InSight(cache', marked')
  <2>1. \A x \in Sides : x # s => marked[x] \subseteq Range(Shown(d, x))
    BY <1>9 DEF InSight
  <2> QED BY <1>2, <1>5, <1>9, <2>1
<1>10. ASSUME UNCHANGED <<cache, marked>>
       PROVE  InSight(cache', marked')
  BY <1>10
<1>11. ASSUME NEW s \in Sides, NEW S, Mark(s, S)
       PROVE  InSight(cache', marked')
  BY <1>1, <1>9, <1>11 DEF Mark
<1>12. ASSUME NEW s \in Sides, NEW t, DoubleClick(s) \/ Type(s, t)
       PROVE  InSight(cache', marked')
  BY <1>6, <1>10, <1>12 DEF DoubleClick, Type
<1>13. ASSUME NEW s \in Sides, Enter(s)
       PROVE  InSight(cache', marked')
  BY <1>1, <1>7, <1>13 DEF Enter
<1>14. ASSUME NEW s \in Sides, ArrowAcross(s)
       PROVE  InSight(cache', marked')
  <2>1. PICK i : marked' = [Nothing EXCEPT ![s] = MarkAt(d, s, i)]
    BY <1>1, <1>14 DEF ArrowAcross
  <2> QED BY <1>7, <2>1
<1>15. ASSUME NEW s \in Sides, ArrowAlong(s)
       PROVE  InSight(cache', marked')
  <2>1. PICK i : marked' = [marked EXCEPT ![s] = MarkAt(cache, s, i)]
    BY <1>15 DEF ArrowAlong
  <2>2. d = cache
    BY <1>1, <1>15 DEF ArrowAlong
  <2>3. MarkAt(cache, s, i) \subseteq Range(Shown(d, s))
    BY <2>2, MarkIsShown
  <2> QED BY <1>9, <2>1, <2>2, <2>3
<1>16. ASSUME NEW s \in Sides, KeyUp(s)
       PROVE  InSight(cache', marked')
  <2>1. PICK i : marked' = [marked EXCEPT ![s] = MarkAt(d, s, i)]
    BY <1>1, <1>16 DEF KeyUp
  <2>2. PICK q : d = [cache EXCEPT ![s] = q]
    BY <1>1, <1>16 DEF KeyUp
  <2>3. MarkAt(d, s, i) \subseteq Range(Shown(d, s))
    BY MarkIsShown
  <2> QED BY <1>8, <2>1, <2>2, <2>3
<1>17. ASSUME NEW s \in Sides, NEW o, AddRelated(s, o)
       PROVE  InSight(cache', marked')
  <2>1. PICK q : d = [cache EXCEPT ![s] = q]
    BY <1>1, <1>17 DEF AddRelated
  <2>2. PICK S : S = {}
    OBVIOUS
  <2>3. marked' = [marked EXCEPT ![s] = S] /\ S \subseteq Range(Shown(d, s))
    BY <1>17, <2>2 DEF AddRelated
  <2> QED BY <1>8, <2>1, <2>3
<1>18. CASE PressButton \/ Reopen
  BY <1>6, <1>18 DEF PressButton, Press, Reopen
<1>19. CASE ClearWarning
  <2>1. PICK q : d = [cache EXCEPT !["to"] = q]
    BY <1>1, <1>19 DEF ClearWarning
  <2>2. marked' = [marked EXCEPT !["to"] = {}]
    BY <1>19 DEF ClearWarning
  <2>3. PICK s \in Sides : s = "to"
    BY <1>4
  <2>4. PICK S : S = {}
    OBVIOUS
  <2>5. d = [cache EXCEPT ![s] = q] /\ marked' = [marked EXCEPT ![s] = S]
    BY <2>1, <2>2, <2>3, <2>4
  <2>6. S \subseteq Range(Shown(d, s))
    BY <2>4
  <2> QED BY <1>8, <2>5, <2>6
<1>20. CASE Submit
  <2>1. PICK q : d = [cache EXCEPT !["to"] = q]
    BY <1>1, <1>20 DEF Submit
  <2>2. marked' = [marked EXCEPT !["to"] = Range(Shown(d, "to"))]
    BY <1>1, <1>20 DEF Submit
  <2>3. PICK s \in Sides : s = "to"
    BY <1>4
  <2>4. PICK S : S = Range(Shown(d, s))
    OBVIOUS
  <2>5. d = [cache EXCEPT ![s] = q] /\ marked' = [marked EXCEPT ![s] = S]
    BY <2>1, <2>2, <2>3, <2>4
  <2> QED BY <1>8, <2>4, <2>5
<1>21. CASE UNCHANGED selectVars
  BY <1>10, <1>21 DEF selectVars
<1> QED BY <1>11, <1>12, <1>13, <1>14, <1>15, <1>16, <1>17, <1>18, <1>19, <1>20, <1>21
        DEF SelectNext

\* The number announced is at most how many options of the chosen box are hidden now:
\* moves take none of these away, and each filtering announces anew. select_all shows
\* all of them before the form goes, and announces nothing.
Announces ==
  /\ announced \in Nat
  /\ announced <= IF submitted THEN Len(cache["to"]) ELSE Cardinality(Unseen(cache["to"]))

\* The announced number is taken from a box just filtered, or of one that has since only
\* received and given what is visible.
LEMMA AnnouncedKept ==
  ASSUME SelectInv, submitted \in BOOLEAN, Announces, [SelectNext]_selectVars
  PROVE  Announces'
<1>1. PICK d : d = cache'
  OBVIOUS
<1>2. "to" \in Sides /\ Conserved(cache) /\ Conserved(d)
  BY <1>1, CacheKept DEF SelectInv, Sides
<1>3. Box(cache["to"]) /\ Box(d["to"]) /\ cache \in [Sides -> Seq(Item)]
  BY <1>2 DEF Conserved, Boxes
<1>4. /\ IsFiniteSet(Unseen(d["to"])) /\ Cardinality(Unseen(d["to"])) \in Nat
      /\ Hidden(d, "to") = Cardinality(Unseen(d["to"]))
  BY <1>3, HiddenCount
<1>5. /\ Cardinality(Unseen(cache["to"])) \in Nat /\ Len(cache["to"]) \in Nat
      /\ Cardinality(Unseen(cache["to"])) <= Len(cache["to"])
  BY <1>3, HiddenCount, BoxShape
<1>6. ASSUME ~submitted', announced' = Hidden(d, "to")
      PROVE  Announces'
  BY <1>1, <1>4, <1>6 DEF Announces
<1>7. ASSUME ~submitted, ~submitted', announced' = announced,
             Unseen(cache["to"]) \subseteq Unseen(d["to"])
      PROVE  Announces'
  <2>1. Unseen(cache["to"]) \in SUBSET Unseen(d["to"])
    BY <1>7
  <2>2. Cardinality(Unseen(cache["to"])) <= Cardinality(Unseen(d["to"]))
    BY <1>4, <2>1, FS_Subset
  <2>3. announced \in Nat /\ announced <= Cardinality(Unseen(cache["to"]))
    BY <1>7 DEF Announces
  <2>4. announced <= Cardinality(Unseen(d["to"]))
    BY <1>4, <1>5, <2>2, <2>3
  <2> QED BY <1>1, <1>7, <2>3, <2>4 DEF Announces
<1>8. ASSUME ~submitted, NEW s \in Sides, NEW S, NEW t,
             Mark(s, S) \/ Type(s, t) \/ ArrowAlong(s)
      PROVE  Announces'
  <2>1. d = cache /\ announced' = announced /\ ~submitted'
    BY <1>1, <1>8 DEF Mark, Type, ArrowAlong
  <2> QED BY <1>7, <1>8, <2>1
<1>9. ASSUME ~submitted, NEW s \in Sides, DoubleClick(s) \/ Enter(s)
      PROVE  Announces'
  <2>1. announced' = announced /\ ~submitted'
    BY <1>9 DEF DoubleClick, Enter
  <2>2. PICK S : d = Moved(cache, s, S)
    BY <1>1, <1>9 DEF DoubleClick, Enter
  <2>3. \A x \in Sides : Unseen(cache[x]) \subseteq Unseen(d[x])
    BY <1>2, <2>2, MovedKeeps
  <2> QED BY <1>2, <1>7, <1>9, <2>1, <2>3
<1>10. ASSUME ~submitted, NEW s \in Sides, ArrowAcross(s) \/ KeyUp(s)
       PROVE  Announces'
  <2>1. announced' = Hidden(d, "to") /\ ~submitted'
    BY <1>1, <1>10 DEF ArrowAcross, KeyUp
  <2> QED BY <1>6, <2>1
<1>11. ASSUME ~submitted, NEW s \in Sides, NEW o \in NewOptions, AddRelated(s, o)
       PROVE  Announces'
  <2>1. announced' = announced /\ ~submitted'
    BY <1>11 DEF AddRelated
  <2>2. d = [cache EXCEPT ![s] = Append(@, Entry(o))]
    BY <1>1, <1>11 DEF AddRelated
  <2>3. CASE s = "to"
    <3>1. d["to"] = Append(cache["to"], Entry(o))
      BY <1>2, <1>3, <2>2, <2>3
    <3>2. o \in Options \ Values(cache["to"])
      BY <1>11 DEF AddRelated, Options
    <3>3. Unseen(cache["to"]) \subseteq Unseen(d["to"])
      BY <1>3, <3>1, <3>2, BoxAppended
    <3> QED BY <1>7, <1>11, <2>1, <3>3
  <2>4. CASE s # "to"
    <3>1. d["to"] = cache["to"]
      BY <1>2, <1>3, <2>2, <2>4
    <3> QED BY <1>7, <1>11, <2>1, <3>1
  <2> QED BY <2>3, <2>4
<1>12. ASSUME ~submitted, PressButton \/ ClearWarning
       PROVE  Announces'
  <2>1. announced' = Hidden(d, "to") /\ ~submitted'
    BY <1>1, <1>12 DEF PressButton, Press, ClearWarning
  <2> QED BY <1>6, <2>1
<1>13. ASSUME ~submitted, Submit
       PROVE  Announces'
  <2>1. announced' = announced /\ submitted'
    BY <1>13 DEF Submit
  <2>2. d["to"] = Filtered(cache["to"], Blank)
    BY <1>1, <1>2, <1>3, <1>13 DEF Submit
  <2>3. Len(d["to"]) = Len(cache["to"])
    <3>1. DOMAIN Filtered(cache["to"], Blank) = 1..Len(cache["to"])
      BY <1>3, BoxFiltered
    <3>2. DOMAIN d["to"] = 1..Len(d["to"]) /\ Len(d["to"]) \in Nat
      BY <1>3, BoxShape
    <3>3. 1..Len(d["to"]) = 1..Len(cache["to"])
      BY <2>2, <3>1, <3>2
    <3> QED BY <1>5, <3>2, <3>3
  <2>4. announced \in Nat /\ announced <= Cardinality(Unseen(cache["to"]))
    BY <1>13 DEF Announces
  <2>5. announced <= Len(d["to"])
    BY <1>5, <2>3, <2>4
  <2> QED BY <1>1, <2>1, <2>4, <2>5 DEF Announces
<1>14. CASE Reopen
  <2>1. announced' = 0 /\ ~submitted'
    BY <1>14 DEF Reopen
  <2> QED BY <1>1, <1>4, <2>1 DEF Announces
<1>15. CASE UNCHANGED selectVars
  BY <1>15 DEF selectVars, Announces
<1> QED BY <1>8, <1>9, <1>10, <1>11, <1>12, <1>13, <1>14, <1>15 DEF SelectNext

\* The types of the selector, with what makes them inductive.
SelectTyped ==
  /\ SelectInv
  /\ InSight(cache, marked)
  /\ Announces
  /\ text \in [Sides -> Texts]
  /\ buttons \subseteq {"add", "remove", "add_all", "remove_all"}
  /\ keyDown \subseteq Sides
  /\ submitted \in BOOLEAN

\* refresh_icons enables buttons that there are.
LEMMA EnabledButtons ==
  \A c, m : Enabled(c, m) \subseteq {"add", "remove", "add_all", "remove_all"}
BY DEF Enabled

\* The page as it is first opened.
LEMMA SelectTypedStart == SelectInit => SelectTyped
<1> SUFFICES ASSUME SelectInit PROVE SelectTyped
  OBVIOUS
<1>1. PICK picked : Opened(Page({}, picked))
  BY DEF SelectInit
<1>2. SelectInv /\ "to" \in Sides
  BY SelectStart DEF Sides
<1>3. InSight(cache, marked)
  BY <1>1 DEF Opened, InSight, Nothing
<1>4. Announces
  <2>1. Box(cache["to"])
    BY <1>2 DEF SelectInv, Conserved, Boxes
  <2>2. Cardinality(Unseen(cache["to"])) \in Nat
    BY <2>1, HiddenCount
  <2> QED BY <1>1, <2>2 DEF Opened, Announces
<1>5. text \in [Sides -> Texts]
  BY <1>1, SelectAssumption DEF Opened, SelectAssumption
<1>6. buttons \subseteq {"add", "remove", "add_all", "remove_all"}
  BY <1>1, EnabledButtons DEF Opened
<1>7. keyDown \subseteq Sides /\ submitted \in BOOLEAN
  BY <1>1 DEF Opened
<1> QED BY <1>2, <1>3, <1>4, <1>5, <1>6, <1>7 DEF SelectTyped

\* SelectTyped is inductive.
LEMMA SelectTypedKept ==
  ASSUME SelectTyped, [SelectNext]_selectVars
  PROVE  SelectTyped'
<1>1. /\ SelectInv /\ InSight(cache, marked) /\ Announces
      /\ text \in [Sides -> Texts] /\ keyDown \subseteq Sides /\ submitted \in BOOLEAN
      /\ buttons \subseteq {"add", "remove", "add_all", "remove_all"}
  BY DEF SelectTyped
<1>2. SelectInv' /\ InSight(cache', marked') /\ Announces'
  BY <1>1, SelectKept, LitKept, AnnouncedKept
<1>3. Blank \in Texts /\ "to" \in Sides
  BY SelectAssumption DEF SelectAssumption, Sides
<1>4. text' \in [Sides -> Texts]
  <2>1. ASSUME NEW s \in Sides, NEW t \in Texts, Type(s, t)
        PROVE  text' \in [Sides -> Texts]
    BY <1>1, <2>1 DEF Type
  <2>2. CASE ClearWarning \/ Reopen
    BY <1>1, <1>3, <2>2 DEF ClearWarning, Reopen
  <2>3. CASE UNCHANGED text
    BY <1>1, <2>3
  <2> QED BY <2>1, <2>2, <2>3 DEF SelectNext, Mark, DoubleClick, Enter, ArrowAcross,
              ArrowAlong, KeyUp, AddRelated, PressButton, Press, Submit, selectVars
<1>5. keyDown' \subseteq Sides
  BY <1>1 DEF SelectNext, Mark, DoubleClick, Type, Enter, ArrowAcross, ArrowAlong, KeyUp,
       AddRelated, PressButton, Press, ClearWarning, Submit, Reopen, selectVars
<1>6. submitted' \in BOOLEAN
  BY <1>1 DEF SelectNext, Mark, DoubleClick, Type, Enter, ArrowAcross, ArrowAlong, KeyUp,
       AddRelated, PressButton, Press, ClearWarning, Submit, Reopen, selectVars
<1>7. buttons' \subseteq {"add", "remove", "add_all", "remove_all"}
  <2>1. CASE UNCHANGED buttons
    BY <1>1, <2>1
  <2>2. ASSUME NEW c, NEW m, buttons' = Enabled(c, m)
        PROVE  buttons' \subseteq {"add", "remove", "add_all", "remove_all"}
    BY <2>2, EnabledButtons
  <2>3. \/ UNCHANGED buttons
        \/ \E c, m : buttons' = Enabled(c, m)
    BY DEF SelectNext, Mark, DoubleClick, Type, Enter, ArrowAcross, ArrowAlong, KeyUp,
       AddRelated, PressButton, Press, ClearWarning, Submit, Reopen, selectVars
  <2> QED BY <2>1, <2>2, <2>3
<1> QED BY <1>2, <1>4, <1>5, <1>6, <1>7 DEF SelectTyped

\* Caches hold options with a flag, highlights are visible options, and no more options
\* are announced as hidden than the chosen box has.
THEOREM SelectorIsTyped == SelectSpec => []SelectTypeOK
<1>1. SelectTyped => SelectTypeOK
  <2> SUFFICES ASSUME SelectTyped PROVE SelectTypeOK
    OBVIOUS
  <2>1. Box(cache["to"]) /\ cache \in [Sides -> Seq(Item)]
    BY DEF SelectTyped, SelectInv, Conserved, Boxes, Sides
  <2>2. announced \in 0..Len(cache["to"])
    <3>1. /\ Cardinality(Unseen(cache["to"])) \in Nat /\ Len(cache["to"]) \in Nat
          /\ Cardinality(Unseen(cache["to"])) <= Len(cache["to"])
      BY <2>1, HiddenCount, BoxShape
    <3> QED BY <3>1 DEF SelectTyped, Announces
  <2> QED BY <2>1, <2>2 DEF SelectTyped, SelectTypeOK, InSight, Item
<1>2. SelectInit => SelectTyped
  BY SelectTypedStart
<1>3. SelectTyped /\ [SelectNext]_selectVars => SelectTyped'
  BY SelectTypedKept
<1> QED BY <1>1, <1>2, <1>3, PTL DEF SelectSpec

(***************************************************************************)
(* The dialogs of the date fields                                          *)
(***************************************************************************)
\* A year and a month.
CalendarMonth == Int \X (1..12)

\* Its parts.
LEMMA MonthShape ==
  ASSUME NEW m \in CalendarMonth
  PROVE  m[1] \in Int /\ m[2] \in 1..12 /\ m = <<m[1], m[2]>>
BY DEF CalendarMonth

\* The first days of the years are as far apart as isLeapYear says.
LEMMA YearLength ==
  ASSUME NEW y \in Int
  PROVE  /\ YearStart(y) \in Int
         /\ YearStart(y + 1) - YearStart(y) = IF IsLeapYear(y) THEN 366 ELSE 365
<1>1. y \div 4 - (y - 1) \div 4 = IF y % 4 = 0 THEN 1 ELSE 0
  OBVIOUS
<1>2. y \div 100 - (y - 1) \div 100 = IF y % 100 = 0 THEN 1 ELSE 0
  OBVIOUS
<1>3. y \div 400 - (y - 1) \div 400 = IF y % 400 = 0 THEN 1 ELSE 0
  OBVIOUS
<1>4. (y % 400 = 0 => y % 100 = 0) /\ (y % 100 = 0 => y % 4 = 0)
  OBVIOUS
<1>5. /\ (y - 1) \div 4 \in Int /\ (y - 1) \div 100 \in Int /\ (y - 1) \div 400 \in Int
      /\ y \div 4 \in Int /\ y \div 100 \in Int /\ y \div 400 \in Int
  OBVIOUS
<1>6. /\ YearStart(y) = 365 * (y - 1) + (y - 1) \div 4 - (y - 1) \div 100 + (y - 1) \div 400
      /\ YearStart(y + 1) = 365 * y + y \div 4 - y \div 100 + y \div 400
  <2>1. (y + 1) - 1 = y
    OBVIOUS
  <2> QED BY <2>1 DEF YearStart
<1>7. YearStart(y) \in Int
  BY <1>5, <1>6
<1>8. YearStart(y + 1) - YearStart(y)
        = 365 + (y \div 4 - (y - 1) \div 4) - (y \div 100 - (y - 1) \div 100)
              + (y \div 400 - (y - 1) \div 400)
  BY <1>5, <1>6
<1> QED BY <1>1, <1>2, <1>3, <1>4, <1>7, <1>8 DEF IsLeapYear

\* getDaysInMonth agrees with the day count of Date.
LEMMA MonthLength ==
  ASSUME NEW m \in CalendarMonth
  PROVE  /\ MonthStart(m) \in Int
         /\ DaysInMonth(m) \in 28..31
         /\ MonthStart(NextMonth(m)) = MonthStart(m) + DaysInMonth(m)
         /\ NextMonth(m) \in CalendarMonth
         /\ PreviousMonth(m) \in CalendarMonth
         /\ NextMonth(PreviousMonth(m)) = m
         /\ Labels(m) = <<PreviousMonth(m), NextMonth(m)>>
<1> PICK y \in Int, k \in 1..12 : m = <<y, k>>
  BY MonthShape
<1> PICK s \in Int, t \in Int : s = YearStart(y) /\ t = YearStart(y + 1)
  BY YearLength
<1>1. t - s = IF IsLeapYear(y) THEN 366 ELSE 365
  BY YearLength
<1>2. /\ MonthStart(m) = s + DaysBefore[k] + (IF k > 2 /\ t - s = 366 THEN 1 ELSE 0)
      /\ DaysInMonth(m) = CASE k \in {1, 3, 5, 7, 8, 10, 12} -> 31
                            [] k \in {4, 6, 9, 11} -> 30
                            [] k = 2 /\ IsLeapYear(y) -> 29
                            [] OTHER -> 28
  BY DEF MonthStart, DaysInMonth
<1>3. DaysInMonth(m) = IF k \in {4, 6, 9, 11} THEN 30 ELSE IF k # 2 THEN 31
                       ELSE IF IsLeapYear(y) THEN 29 ELSE 28
  BY <1>2
<1>4. NextMonth(m) = IF k = 12 THEN <<y + 1, 1>> ELSE <<y, k + 1>>
  BY DEF NextMonth
<1>5. PreviousMonth(m) = IF k = 1 THEN <<y - 1, 12>> ELSE <<y, k - 1>>
  BY DEF PreviousMonth
<1>6. DaysInMonth(m) \in 28..31 /\ MonthStart(m) \in Int
  <2>1. DaysBefore[k] \in Int
    BY DEF DaysBefore
  <2> QED BY <1>2, <1>3, <2>1
<1>7. NextMonth(m) \in CalendarMonth /\ PreviousMonth(m) \in CalendarMonth
  BY <1>4, <1>5 DEF CalendarMonth
<1>8. MonthStart(NextMonth(m)) = MonthStart(m) + DaysInMonth(m)
  <2>1. CASE k = 12
    <3>1. MonthStart(NextMonth(m)) = t + DaysBefore[1] + 0
      <4>1. NextMonth(m)[1] = y + 1 /\ NextMonth(m)[2] = 1 /\ ~(1 > 2)
        BY <1>4, <2>1
      <4> QED BY <4>1 DEF MonthStart
    <3> QED BY <1>1, <1>2, <1>3, <2>1, <3>1 DEF DaysBefore
  <2>2. CASE k \in 1..11
    <3>1. MonthStart(NextMonth(m)) = s + DaysBefore[k + 1]
                                       + (IF k + 1 > 2 /\ t - s = 366 THEN 1 ELSE 0)
      BY <1>4, <2>2 DEF MonthStart
    <3> QED BY <1>1, <1>2, <1>3, <2>2, <3>1 DEF DaysBefore
  <2> QED BY <2>1, <2>2
<1>9. NextMonth(PreviousMonth(m)) = m
  BY <1>5 DEF NextMonth
<1>10. Labels(m) = <<PreviousMonth(m), NextMonth(m)>>
  BY <1>4, <1>5 DEF Labels
<1> QED BY <1>6, <1>7, <1>8, <1>9, <1>10

\* A day beside a month, too, is a day of the month that it falls in.
LEMMA NormalisedIsDate ==
  ASSUME NEW m \in CalendarMonth, NEW day \in 0..32
  PROVE  LET date == Normalised(m, day)
         IN /\ date \in Int \X (1..12) \X (1..31)
            /\ MonthOf(date) \in CalendarMonth
            /\ date[3] \in 1..DaysInMonth(MonthOf(date))
<1> PICK p, n : p = PreviousMonth(m) /\ n = NextMonth(m)
  OBVIOUS
<1>1. p \in CalendarMonth /\ n \in CalendarMonth
  BY MonthLength
<1> DEFINE number == MonthStart(m) + day - 1
           Holds(x) == MonthStart(x) <= number /\ number < MonthStart(NextMonth(x))
           in == CHOOSE x \in {p, m, n} : Holds(x)
<1>2. \A x \in {p, m, n} : /\ x \in CalendarMonth /\ MonthStart(x) \in Int
                           /\ DaysInMonth(x) \in 28..31
                           /\ MonthStart(NextMonth(x)) = MonthStart(x) + DaysInMonth(x)
  BY <1>1, MonthLength
<1>3. NextMonth(p) = m /\ NextMonth(m) = n
  BY MonthLength
<1>4. number \in Int
  BY <1>2
<1>5. \E x \in {p, m, n} : Holds(x)
  <2> PICK a \in Int, b \in Int, c \in Int, d \in Int :
        a = MonthStart(p) /\ b = MonthStart(m) /\ c = MonthStart(n)
        /\ d = MonthStart(NextMonth(n))
    BY <1>2
  <2>1. b - a \in 28..31 /\ c - b \in 28..31 /\ d - c \in 28..31
    <3> PICK i \in 28..31, j \in 28..31, k \in 28..31 :
          i = DaysInMonth(p) /\ j = DaysInMonth(m) /\ k = DaysInMonth(n)
      BY <1>2
    <3>1. b = a + i /\ c = b + j /\ d = c + k
      BY <1>2, <1>3
    <3>2. b - a = i /\ c - b = j /\ d - c = k
      BY <3>1
    <3> QED BY <3>2
  <2>2. number = b + day - 1
    OBVIOUS
  <2>3. (a <= number /\ number < b) \/ (b <= number /\ number < c) \/ (c <= number /\ number < d)
    BY <2>1, <2>2
  <2> QED BY <1>3, <2>3
<1>6. in \in {p, m, n} /\ Holds(in)
  <2> HIDE DEF Holds
  <2> QED BY <1>5
<1>7. Normalised(m, day) = <<in[1], in[2], number - MonthStart(in) + 1>>
  BY DEF Normalised
<1> PICK x : x = in
  OBVIOUS
<1> HIDE DEF in
<1>8. /\ x \in CalendarMonth /\ x = <<x[1], x[2]>> /\ x[1] \in Int /\ x[2] \in 1..12
      /\ MonthStart(x) \in Int /\ DaysInMonth(x) \in 28..31
      /\ MonthStart(x) <= number /\ number < MonthStart(x) + DaysInMonth(x)
  BY <1>2, <1>6, MonthShape
<1>9. /\ number - MonthStart(x) + 1 \in 1..DaysInMonth(x)
      /\ number - MonthStart(x) + 1 \in 1..31
  BY <1>4, <1>8
<1> HIDE DEF number
<1>10. MonthOf(Normalised(m, day)) = x
  BY <1>7, <1>8 DEF MonthOf
<1> QED BY <1>7, <1>8, <1>9, <1>10

\* A weekday is what remains of a count of days, whatever weeks are taken off before.
LEMMA WeeksFallOff ==
  ASSUME NEW a \in Int, NEW b \in Int
  PROVE  ((a % 7) + b) % 7 = (a + b) % 7
OBVIOUS

\* draw puts every day under its weekday.
LEMMA DaysUnderWeekdays ==
  ASSUME NEW m \in CalendarMonth, NEW day \in 1..31
  PROVE  HeaderOf(ColumnOf(StartingPos(m), day)) = Weekday(MonthStart(m) + day - 1)
<1> PICK s \in Int, f \in 0..6 : s = MonthStart(m) /\ f = FirstDayOfWeek
  BY MonthLength, DatePickerAssumption DEF DatePickerAssumption
<1>1. StartingPos(m) = (s + (1 - f)) % 7
  BY DEF StartingPos, Weekday
<1>2. ColumnOf(StartingPos(m), day) = (s + (1 - f) + (day - 1)) % 7
  BY <1>1, WeeksFallOff DEF ColumnOf
<1>3. HeaderOf(ColumnOf(StartingPos(m), day)) = (s + (1 - f) + (day - 1) + f) % 7
  BY <1>2, WeeksFallOff DEF HeaderOf
<1> QED BY <1>3 DEF Weekday

\* The dates and months that the picker holds are dates and months.
DateShapes ==
  /\ value \in {Empty, Garbled} \cup Int \X (1..12) \X (1..31)
  /\ shown.month \in CalendarMonth
  /\ \A d \in {shown.today, today} : /\ d \in Int \X (1..12) \X (1..31)
                                    /\ d[3] <= DaysInMonth(MonthOf(d))
  /\ selected = NoDate \/ selected[3] \in 1..DaysInMonth(MonthOf(selected))
  /\ (version = "filter" \/ ~calendarOpen) => focusDay = 0

\* What makes OpenDialogIsCurrent inductive.
DatePickerInv == DatePickerTypeOK /\ DateShapes /\ OpenDialogIsCurrent

\* The parts of a date; none of the three texts that are no date is one.
LEMMA DateParts ==
  ASSUME NEW d \in Int \X (1..12) \X (1..31)
  PROVE  /\ d[1] \in Int /\ d[2] \in 1..12 /\ d[3] \in 1..31 /\ d = <<d[1], d[2], d[3]>>
         /\ MonthOf(d) \in CalendarMonth
         /\ d # Empty /\ d # Garbled /\ d # NoDate
<1>1. d[1] \in Int /\ d[2] \in 1..12 /\ d[3] \in 1..31 /\ d = <<d[1], d[2], d[3]>>
  OBVIOUS
<1> QED BY <1>1 DEF MonthOf, CalendarMonth, Empty, Garbled, NoDate

\* DatePickerInv holds at first.
LEMMA DatePickerStart == DatePickerInit => DatePickerInv
<1> SUFFICES ASSUME DatePickerInit PROVE DatePickerInv
  OBVIOUS
<1>1. /\ FirstToday \in Int \X (1..12) \X (1..31)
      /\ FirstToday[3] <= DaysInMonth(MonthOf(FirstToday))
      /\ TypedDates \subseteq Int \X (1..12) \X (1..31)
      /\ MaxNights \in Nat
  BY DatePickerAssumption DEF DatePickerAssumption
<1>2. DateShapes
  BY <1>1, DateParts DEF DatePickerInit, AddCalendar, Sheet, DateShapes
<1>3. DatePickerTypeOK
  <2>1. /\ version \in {"form", "filter"}
        /\ calendarOpen = FALSE /\ clockOpen = FALSE
        /\ navLabels = <<>> /\ nights = 0 /\ 0 \in 0..MaxNights
        /\ focusDay = 0 /\ today = FirstToday
    BY <1>1 DEF DatePickerInit, AddCalendar, AddClock
  <2>2. value \in {Empty, Garbled} \/ (value[2] \in 1..12 /\ value[3] \in 1..31)
    BY <1>2, DateParts DEF DateShapes
  <2>3. /\ shown.month[2] \in 1..12 /\ DaysInMonth(shown.month) \in 28..31
        /\ DaysInMonth(MonthOf(today)) \in 28..31 /\ today[3] \in 1..31
    <3>1. shown.month \in CalendarMonth /\ today \in Int \X (1..12) \X (1..31)
      BY <1>2 DEF DateShapes
    <3>2. MonthOf(today) \in CalendarMonth /\ today[3] \in 1..31
      BY <3>1, DateParts
    <3> QED BY <3>1, <3>2, MonthShape, MonthLength
  <2>4. today[3] \in 1..DaysInMonth(MonthOf(today)) /\ 0 \in 0..DaysInMonth(shown.month)
    <3>1. today[3] <= DaysInMonth(MonthOf(today))
      BY <1>1, <2>1
    <3> PICK i \in 28..31, j \in 28..31, k \in 1..31 :
          i = DaysInMonth(MonthOf(today)) /\ j = DaysInMonth(shown.month) /\ k = today[3]
      BY <2>3
    <3> QED BY <3>1
  <2> QED BY <1>2, <2>1, <2>2, <2>3, <2>4 DEF DatePickerTypeOK, DateShapes
<1>4. OpenDialogIsCurrent
  BY DEF DatePickerInit, AddCalendar, OpenDialogIsCurrent
<1> QED BY <1>2, <1>3, <1>4 DEF DatePickerInv

\* What the calendar shows after a step that draws no sheet.
LEMMA SameSheet ==
  ASSUME DatePickerInv,
         UNCHANGED <<version, shown, selected, navLabels, today, nights>>,
         value' \in {Empty, Garbled} \cup Int \X (1..12) \X (1..31),
         calendarOpen' \in BOOLEAN, clockOpen' \in BOOLEAN,
         focusDay' \in 0..DaysInMonth(shown.month),
         (version = "filter" \/ ~calendarOpen') => focusDay' = 0,
         version = "form" /\ calendarOpen' => calendarOpen /\ value' = value
  PROVE  DatePickerInv'
<1>1. DateShapes'
  BY DEF DatePickerInv, DateShapes
<1>2. value' \in {Empty, Garbled} \/ (value'[2] \in 1..12 /\ value'[3] \in 1..31)
  BY DateParts
<1>3. DatePickerTypeOK'
  BY <1>2 DEF DatePickerInv, DatePickerTypeOK
<1>4. OpenDialogIsCurrent'
  BY DEF DatePickerInv, OpenDialogIsCurrent
<1> QED BY <1>1, <1>3, <1>4 DEF DatePickerInv

\* A sheet is drawn, and in the form's dialog labelled.
LEMMA SheetDrawn ==
  ASSUME DatePickerInv, NEW m \in CalendarMonth,
         shown' = Sheet(m) \/ (shown' = shown /\ m = shown.month),
         selected' = selected \/ selected'[3] \in 1..DaysInMonth(MonthOf(selected')),
         UNCHANGED <<version, value, today, nights, clockOpen>>,
         calendarOpen' \in BOOLEAN,
         focusDay' \in 0..DaysInMonth(m),
         (version = "filter" \/ ~calendarOpen') => focusDay' = 0,
         navLabels' \in {navLabels, <<>>} \/ navLabels' = Labels(m),
         version = "form" /\ calendarOpen' =>
           /\ navLabels' = Labels(m)
           /\ value \notin {Empty, Garbled} => selected' = Normalised(MonthOf(value), value[3])
  PROVE  DatePickerInv'
<1>1. shown'.month = m /\ shown'.today \in {shown.today, today}
  BY DEF Sheet
<1>2. DateShapes'
  BY <1>1 DEF DatePickerInv, DateShapes
<1>3. DatePickerTypeOK'
  <2>1. m[2] \in 1..12
    BY MonthShape
  <2>2. Labels(m)[1][2] \in 1..12 /\ Labels(m)[2][2] \in 1..12
    <3>1. PreviousMonth(m)[2] \in 1..12 /\ NextMonth(m)[2] \in 1..12
      BY MonthLength, MonthShape
    <3>2. Labels(m) = <<PreviousMonth(m), NextMonth(m)>>
      BY MonthLength
    <3> QED BY <3>1, <3>2
  <2>3. navLabels' = <<>> \/ \A i \in 1..2 : navLabels'[i][2] \in 1..12
    BY <2>2 DEF DatePickerInv, DatePickerTypeOK
  <2> QED BY <1>1, <1>2, <2>1, <2>3 DEF DatePickerInv, DatePickerTypeOK, DateShapes
<1>4. OpenDialogIsCurrent'
  BY <1>1, MonthLength DEF OpenDialogIsCurrent
<1> QED BY <1>2, <1>3, <1>4 DEF DatePickerInv

\* DatePickerInv is inductive.
LEMMA DatePickerKept == DatePickerInv /\ [DatePickerNext]_pickerVars => DatePickerInv'
<1> SUFFICES ASSUME DatePickerInv, [DatePickerNext]_pickerVars PROVE DatePickerInv'
  OBVIOUS
<1>1. /\ value \in {Empty, Garbled} \cup Int \X (1..12) \X (1..31)
      /\ shown.month \in CalendarMonth
      /\ today \in Int \X (1..12) \X (1..31) /\ MonthOf(today) \in CalendarMonth
      /\ today[3] \in 1..31 /\ today[3] <= DaysInMonth(MonthOf(today))
      /\ version \in {"form", "filter"} /\ calendarOpen \in BOOLEAN /\ clockOpen \in BOOLEAN
      /\ focusDay \in 0..DaysInMonth(shown.month) /\ DaysInMonth(shown.month) \in 28..31
      /\ 0 \in 0..DaysInMonth(shown.month)
      /\ TypedDates \subseteq Int \X (1..12) \X (1..31) /\ MaxNights \in Nat
  <2>1. /\ value \in {Empty, Garbled} \cup Int \X (1..12) \X (1..31)
        /\ shown.month \in CalendarMonth
        /\ today \in Int \X (1..12) \X (1..31)
        /\ today[3] <= DaysInMonth(MonthOf(today))
        /\ version \in {"form", "filter"} /\ calendarOpen \in BOOLEAN /\ clockOpen \in BOOLEAN
        /\ focusDay \in 0..DaysInMonth(shown.month)
    BY DEF DatePickerInv, DatePickerTypeOK, DateShapes
  <2>2. /\ MonthOf(today) \in CalendarMonth /\ today[3] \in 1..31
        /\ DaysInMonth(shown.month) \in 28..31
    BY <2>1, MonthLength, DateParts
  <2>3. 0 \in 0..DaysInMonth(shown.month)
    BY <2>2
  <2>4. TypedDates \subseteq Int \X (1..12) \X (1..31) /\ MaxNights \in Nat
    BY DatePickerAssumption DEF DatePickerAssumption
  <2> QED BY <2>1, <2>2, <2>3, <2>4
<1>2. ASSUME NEW v \in TypedDates \cup {Empty, Garbled}, TypeDate(v)
      PROVE  DatePickerInv'
  <2>1. value' \in {Empty, Garbled} \cup Int \X (1..12) \X (1..31)
    BY <1>1, <1>2 DEF TypeDate
  <2>2. version = "form" => ~calendarOpen
    BY <1>2 DEF TypeDate, PageInReach
  <2> QED BY <1>1, <1>2, <2>1, <2>2, SameSheet DEF TypeDate, DatePickerInv, DateShapes
<1>3. ASSUME OpenCalendar
      PROVE  DatePickerInv'
  <2> DEFINE isDate == value \notin {Empty, Garbled}
             date == Normalised(MonthOf(value), value[3])
             m == IF isDate THEN MonthOf(date) ELSE shown.month
  <2>1. isDate => /\ MonthOf(date) \in CalendarMonth
                  /\ date[3] \in 1..DaysInMonth(MonthOf(date))
    <3> SUFFICES ASSUME isDate
                 PROVE  /\ MonthOf(date) \in CalendarMonth
                        /\ date[3] \in 1..DaysInMonth(MonthOf(date))
      OBVIOUS
    <3>1. value \in Int \X (1..12) \X (1..31)
      BY <1>1
    <3>2. MonthOf(value) \in CalendarMonth /\ value[3] \in 0..32
      BY <3>1, DateParts
    <3> QED BY <3>2, NormalisedIsDate
  <2>2. m \in CalendarMonth
    BY <1>1, <2>1
  <2>3. /\ shown' = IF isDate THEN Sheet(MonthOf(date)) ELSE shown
        /\ selected' = IF isDate THEN date ELSE selected
        /\ calendarOpen' = TRUE
        /\ UNCHANGED <<version, value, clockOpen, today, nights>>
    BY <1>3 DEF OpenCalendar
  <2> HIDE DEF date
  <2>4. /\ shown' = Sheet(m) \/ (shown' = shown /\ m = shown.month)
        /\ selected' = selected \/ selected'[3] \in 1..DaysInMonth(MonthOf(selected'))
        /\ isDate => selected' = date
        /\ shown'.month = m /\ shown'.today \in {shown.today, today}
    BY <2>1, <2>3 DEF Sheet
  <2>5. selected' = NoDate \/ selected'[3] \in 1..DaysInMonth(MonthOf(selected'))
    BY <2>4 DEF DatePickerInv, DateShapes
  <2> HIDE DEF isDate, m
  <2>6. CASE version = "form"
    <3>1. /\ navLabels' = Labels(m)
          /\ focusDay' = IF selected' # NoDate /\ MonthOf(selected') = shown'.month
                         THEN selected'[3]
                         ELSE IF MonthOf(shown'.today) = shown'.month
                              THEN shown'.today[3] ELSE 1
      BY <1>3, <2>4, <2>6 DEF OpenCalendar
    <3>2. /\ shown'.today \in Int \X (1..12) \X (1..31)
          /\ shown'.today[3] <= DaysInMonth(MonthOf(shown'.today))
      BY <2>4 DEF DatePickerInv, DateShapes
    <3>3. focusDay' \in 0..DaysInMonth(m)
      <4>1. DaysInMonth(m) \in 28..31 /\ shown'.today[3] \in 1..31
        BY <2>2, <3>2, MonthLength, DateParts
      <4> QED BY <2>4, <2>5, <3>1, <3>2, <4>1
    <3>4. value \notin {Empty, Garbled} => selected' = Normalised(MonthOf(value), value[3])
      BY <2>4 DEF isDate, date
    <3>5. version = "filter" => focusDay' = 0
      BY <2>6
    <3> QED BY <2>2, <2>3, <2>4, <3>1, <3>3, <3>4, <3>5, SheetDrawn
  <2>7. CASE version = "filter"
    <3>1. UNCHANGED <<navLabels, focusDay>> /\ focusDay = 0
      BY <1>3, <2>7 DEF OpenCalendar, DatePickerInv, DateShapes
    <3>2. DaysInMonth(m) \in 28..31
      BY <2>2, MonthLength
    <3>3. focusDay' \in 0..DaysInMonth(m)
      BY <3>1, <3>2
    <3> QED BY <2>2, <2>3, <2>4, <2>7, <3>1, <3>3, SheetDrawn
  <2> QED BY <1>1, <2>6, <2>7
<1>4. ASSUME NEW m \in {PreviousMonth(shown.month), NextMonth(shown.month)}, Turn(m)
      PROVE  DatePickerInv'
  <2>1. m \in CalendarMonth
    BY <1>1, MonthLength
  <2>2. 0 \in 0..DaysInMonth(m)
    BY <2>1, MonthLength
  <2>3. version = "form" /\ calendarOpen =>
          (value \notin {Empty, Garbled} => selected = Normalised(MonthOf(value), value[3]))
    BY DEF DatePickerInv, OpenDialogIsCurrent
  <2> QED BY <1>1, <1>4, <2>1, <2>2, <2>3, SheetDrawn DEF Turn
<1>5. ASSUME NEW step \in {-7, -1, 1, 7}, ArrowKey(step)
      PROVE  DatePickerInv'
  <2>1. focusDay' \in 0..DaysInMonth(shown.month)
    <3>1. CASE focusDay = 0
      BY <1>1, <1>5, <3>1 DEF ArrowKey
    <3>2. CASE focusDay # 0
      <4>1. focusDay' \in 1..DaysInMonth(shown.month)
        BY <1>5, <3>2 DEF ArrowKey
      <4> QED BY <1>1, <4>1
    <3> QED BY <3>1, <3>2
  <2> QED BY <1>1, <1>5, <2>1, SameSheet DEF ArrowKey
<1>6. ASSUME NEW day, PickDay(day)
      PROVE  DatePickerInv'
  <2>1. day \in 1..31 /\ shown.month[1] \in Int /\ shown.month[2] \in 1..12
    BY <1>1, <1>6, MonthShape DEF PickDay
  <2>2. value' \in Int \X (1..12) \X (1..31)
    BY <1>6, <2>1 DEF PickDay
  <2> QED BY <1>1, <1>6, <2>2, SameSheet DEF PickDay, Shut
<1>7. ASSUME NEW offset \in -1..1, QuickLink(offset)
      PROVE  DatePickerInv'
  <2>1. today[3] + offset \in 0..32
    BY <1>1
  <2>2. value' \in Int \X (1..12) \X (1..31)
    BY <1>1, <1>7, <2>1, NormalisedIsDate DEF QuickLink
  <2> QED BY <1>1, <1>7, <2>2, SameSheet DEF QuickLink, Shut
<1>8. ASSUME DismissCalendar \/ Escape
      PROVE  DatePickerInv'
  BY <1>1, <1>8, SameSheet DEF DismissCalendar, Escape, Shut
<1>9. ASSUME OpenClock \/ PickHour \/ DismissClock
      PROVE  DatePickerInv'
  <2>1. (version = "filter" \/ ~calendarOpen) => focusDay = 0
    BY DEF DatePickerInv, DateShapes
  <2>2. /\ UNCHANGED <<version, value, shown, selected, calendarOpen, focusDay, navLabels,
                      today, nights>>
        /\ clockOpen' \in BOOLEAN
    BY <1>9 DEF OpenClock, PickHour, DismissClock
  <2> QED BY <1>1, <2>1, <2>2, SameSheet
<1>10. ASSUME Reinit
       PROVE  DatePickerInv'
  <2>1. MonthOf(today) \in CalendarMonth /\ ~calendarOpen
    BY <1>1, <1>10 DEF Reinit, PageInReach
  <2>2. /\ shown' = Sheet(MonthOf(today)) /\ selected' = NoDate /\ navLabels' = <<>>
        /\ UNCHANGED <<version, value, calendarOpen, focusDay, clockOpen, today, nights>>
    BY <1>10 DEF Reinit
  <2>3. shown'.month = MonthOf(today) /\ shown'.today = today
    BY <2>2 DEF Sheet
  <2>4. DateShapes'
    BY <1>1, <2>1, <2>2, <2>3 DEF DateShapes, DatePickerInv
  <2>5. focusDay = 0
    BY <2>1 DEF DatePickerInv, DateShapes
  <2>6. DatePickerTypeOK'
    <3>1. DaysInMonth(MonthOf(today)) \in 28..31 /\ MonthOf(today)[2] \in 1..12
      BY <2>1, MonthLength, MonthShape
    <3>2. 0 \in 0..DaysInMonth(MonthOf(today))
      BY <3>1
    <3> QED BY <2>2, <2>3, <2>4, <2>5, <3>1, <3>2 DEF DateShapes, DatePickerTypeOK, DatePickerInv
  <2>7. OpenDialogIsCurrent'
    BY <2>1, <2>2 DEF OpenDialogIsCurrent
  <2> QED BY <2>4, <2>6, <2>7 DEF DatePickerInv
<1>11. ASSUME Midnight
       PROVE  DatePickerInv'
  <2>1. today[3] + 1 \in 0..32
    BY <1>1
  <2>2. /\ today' \in Int \X (1..12) \X (1..31)
        /\ today'[3] \in 1..DaysInMonth(MonthOf(today'))
        /\ MonthOf(today') \in CalendarMonth
    BY <1>1, <1>11, <2>1, NormalisedIsDate DEF Midnight
  <2>3. today'[3] <= DaysInMonth(MonthOf(today'))
    BY <2>2, MonthLength
  <2>4. /\ UNCHANGED <<version, value, shown, selected, calendarOpen, focusDay, navLabels,
                      clockOpen>>
        /\ nights' \in 0..MaxNights
    BY <1>1, <1>11 DEF Midnight, DatePickerInv, DatePickerTypeOK
  <2>5. DateShapes'
    BY <2>2, <2>3, <2>4 DEF DatePickerInv, DateShapes
  <2>6. DatePickerTypeOK'
    BY <2>2, <2>4 DEF DatePickerInv, DatePickerTypeOK
  <2>7. OpenDialogIsCurrent'
    BY <2>4 DEF DatePickerInv, OpenDialogIsCurrent
  <2> QED BY <2>5, <2>6, <2>7 DEF DatePickerInv
<1>12. CASE UNCHANGED pickerVars
  BY <1>12 DEF pickerVars, DatePickerInv, DatePickerTypeOK, DateShapes, OpenDialogIsCurrent
<1> QED BY <1>2, <1>3, <1>4, <1>5, <1>6, <1>7, <1>8, <1>9, <1>10, <1>11, <1>12
        DEF DatePickerNext, DrawPrev, DrawNext

\* While the form's dialog is open, its mark is the date in the input, if one is there,
\* and the arrows are labelled with the months they lead to.
THEOREM DialogsAreCurrent == DatePickerSpec => []OpenDialogIsCurrent
<1>1. DatePickerInv => OpenDialogIsCurrent
  BY DEF DatePickerInv
<1> QED BY <1>1, DatePickerStart, DatePickerKept, PTL DEF DatePickerSpec

\* The keyboard stays on the days of the sheet, and what is marked, picked or shown as
\* today is a day there is, in every month and across midnights.
THEOREM PickersShowDates == DatePickerSpec => []DatePickerTypeOK
<1>1. DatePickerInv => DatePickerTypeOK
  BY DEF DatePickerInv
<1> QED BY <1>1, DatePickerStart, DatePickerKept, PTL DEF DatePickerSpec

\* Whatever month is shown, of whatever year, the sheet has its days under their
\* weekdays.
THEOREM SheetsAreMonths == DatePickerSpec => []SheetIsMonth
<1>1. DatePickerInv => SheetIsMonth
  <2> SUFFICES ASSUME DatePickerInv PROVE SheetIsMonth
    OBVIOUS
  <2>1. shown.month \in CalendarMonth
    BY DEF DatePickerInv, DateShapes
  <2>2. \A day \in 1..DaysInMonth(shown.month) : day \in 1..31
    BY <2>1, MonthLength
  <2>3. \A day \in 1..DaysInMonth(shown.month) :
          HeaderOf(ColumnOf(StartingPos(shown.month), day))
            = Weekday(MonthStart(shown.month) + day - 1)
    BY <2>1, <2>2, DaysUnderWeekdays
  <2> QED BY <2>1, <2>3, MonthLength DEF SheetIsMonth
<1> QED BY <1>1, DatePickerStart, DatePickerKept, PTL DEF DatePickerSpec

(***************************************************************************)
(* The command search                                                      *)
(***************************************************************************)
\* Whatever is done to the history, it holds records; the lists hold links.
LEMMA LinksOfHistory ==
  ASSUME NEW h \in Seq(Record)
  PROVE  /\ LinksOf(h) \in Seq(Links)
         /\ DOMAIN LinksOf(h) = 1..Len(h)
         /\ \A i \in 1..Len(h) : LinksOf(h)[i] = h[i].link /\ h[i] \in Record /\ h[i].link \in Links
<1>1. \A i \in 1..Len(h) : h[i] \in Record /\ h[i].link \in Links
  <2>1. \A i \in 1..Len(h) : h[i] \in Record
    OBVIOUS
  <2>2. \A r \in Record : r.link \in Links
    BY DEF Record
  <2> HIDE DEF Record
  <2> QED BY <2>1, <2>2
<1>2. LinksOf(h) = [i \in 1..Len(h) |-> h[i].link]
  BY DEF LinksOf
<1>3. LinksOf(h) \in [1..Len(h) -> Links]
  BY <1>1, <1>2
<1>4. Len(h) \in Nat
  OBVIOUS
<1> HIDE DEF LinksOf
<1>5. LinksOf(h) \in Seq(Links)
  BY <1>3, <1>4, SeqDef
<1> QED BY <1>1, <1>2, <1>5

\* Of the stored history, only the i-th entry is touched by writing h; its page leaves
\* if that entry is removed, or pushed out.
OnlyTouches(h, i) ==
  /\ \A j \in 1..Len(stored) : j # i => \E k \in 1..Len(h) : h[k] = stored[j]
  /\ \/ \E k \in 1..Len(h) : h[k].link = stored[i].link
     \/ h = RemoveAt(stored, i)
     \/ i = HistoryLimit /\ Len(h) = HistoryLimit

\* A history that may follow the one that is stored: no page twice, not too long, and
\* at most one entry touched.
Follows(h) ==
  /\ h \in Seq(Record)
  /\ Len(h) <= HistoryLimit
  /\ \A i, j \in 1..Len(h) : h[i].link = h[j].link => i = j
  /\ \A i \in 1..Len(stored) :
       (\A k \in 1..Len(h) : h[k] # stored[i]) => OnlyTouches(h, i)

\* What is stored.
LEMMA StoredHistory ==
  ASSUME stored \in Seq(Record), HistoryDistinct
  PROVE  /\ \A i, j \in 1..Len(stored) : stored[i].link = stored[j].link => i = j
         /\ HistoryLimit \in Nat /\ HistoryLimit >= 1
         /\ Len(stored) \in Nat /\ Len(stored) <= HistoryLimit
         /\ Follows(stored)
<1>1. \A i, j \in 1..Len(stored) : stored[i].link = stored[j].link => i = j
  <2>1. \A i, j \in DOMAIN LinksOf(stored) : LinksOf(stored)[i] = LinksOf(stored)[j] => i = j
    BY DEF HistoryDistinct, IsInjective
  <2> QED BY <2>1, LinksOfHistory
<1>2. HistoryLimit \in Nat /\ HistoryLimit >= 1 /\ Len(stored) \in Nat /\ Len(stored) <= HistoryLimit
  BY CommandMenuAssumption DEF CommandMenuAssumption, HistoryDistinct
<1> QED BY <1>1, <1>2 DEF Follows

\* addToHistory: what it puts first, what it leaves behind, and what it loses.
LEMMA AddedEntries ==
  ASSUME NEW t, NEW link \in Links, stored \in Seq(Record), HistoryDistinct
  PROVE  Follows(Added(t, link))
<1> DEFINE I == {i \in 1..Len(stored) : stored[i].link # link}
           first == [link |-> link, favorite |-> FALSE]
           others == Kept(stored, I)
           n == Len(others)
           all == <<first>> \o others
           m == IF Len(all) < HistoryLimit THEN Len(all) ELSE HistoryLimit
           h == SubSeq(all, 1, m)
<1>1. \A i, j \in 1..Len(stored) : stored[i].link = stored[j].link => i = j
  BY StoredHistory
<1>2. HistoryLimit \in Nat /\ HistoryLimit >= 1 /\ Len(stored) \in Nat /\ Len(stored) <= HistoryLimit
  BY StoredHistory
<1>3. /\ others \in Seq(Record) /\ n <= Len(stored)
      /\ \E p : ComesFrom(others, stored, I, p)
  <2>1. I \in SUBSET (1..Len(stored))
    OBVIOUS
  <2> HIDE DEF I
  <2> QED BY <2>1, KeptEntries
<1>4. h = Added(t, link)
  <2>1. Without(stored, link) = others
    <3>1. I = {i \in DOMAIN stored : stored[i].link # link}
      OBVIOUS
    <3> HIDE DEF I
    <3> QED BY <3>1 DEF Without
  <2> HIDE DEF others
  <2> QED BY <2>1 DEF Added
<1> HIDE DEF others, all, h, m, n
<1>5. others \in Seq(Record) /\ n = Len(others) /\ n \in Nat /\ n <= Len(stored) /\ n <= HistoryLimit
  <2>1. others \in Seq(Record) /\ n = Len(others) /\ n <= Len(stored)
    BY <1>3 DEF n
  <2>2. n \in Nat
    BY <2>1
  <2> QED BY <1>2, <2>1, <2>2
<1>6. PICK p \in [1..n -> I] :
        /\ \A j \in 1..n : others[j] = stored[p[j]]
        /\ \A j, k \in 1..n : j < k => p[j] < p[k]
        /\ \A i \in I : \E j \in 1..n : p[j] = i
  BY <1>3 DEF ComesFrom, n
<1>7. \A j \in 1..n : /\ p[j] \in 1..Len(stored)
                      /\ others[j] = stored[p[j]] /\ others[j].link # link
  BY <1>6
<1>8. \A j, k \in 1..n : others[j].link = others[k].link => j = k
  <2> SUFFICES ASSUME NEW j \in 1..n, NEW k \in 1..n, others[j].link = others[k].link
               PROVE  j = k
    OBVIOUS
  <2>1. p[j] \in 1..Len(stored) /\ p[k] \in 1..Len(stored) /\ stored[p[j]].link = stored[p[k]].link
    BY <1>7
  <2>2. p[j] = p[k]
    BY <1>1, <2>1
  <2>3. ~(p[j] < p[k]) /\ ~(p[k] < p[j])
    BY <2>1, <2>2
  <2>4. ~(j < k) /\ ~(k < j)
    BY <1>6, <2>3
  <2>5. j \in Nat /\ k \in Nat
    BY <1>5
  <2> QED BY <2>4, <2>5
<1>9. /\ all \in Seq(Record) /\ Len(all) = n + 1
      /\ all[1] = first
      /\ \A j \in 1..n : all[j + 1] = others[j]
  <2>1. first \in Record
    BY DEF Record
  <2> HIDE DEF first
  <2>2. <<first>> \in Seq(Record) /\ Len(<<first>>) = 1 /\ <<first>>[1] = first
    BY <2>1
  <2>3. /\ all \in Seq(Record) /\ Len(all) = 1 + n
        /\ \A i \in 1..(1 + n) : all[i] = IF i <= 1 THEN <<first>>[i] ELSE others[i - 1]
    BY <1>5, <2>2, ConcatProperties DEF all
  <2>4. 1 \in 1..(1 + n) /\ 1 + n = n + 1
    BY <1>5
  <2>5. all[1] = first
    BY <2>2, <2>3, <2>4
  <2>6. ASSUME NEW j \in 1..n
        PROVE  all[j + 1] = others[j]
    <3>1. j + 1 \in 1..(1 + n) /\ ~(j + 1 <= 1) /\ (j + 1) - 1 = j
      BY <1>5
    <3> QED BY <2>3, <3>1
  <2> QED BY <2>3, <2>4, <2>5, <2>6
<1>10. all[1].link = link
  BY <1>9
<1> HIDE DEF I, first
<1>11. \A k \in 1..Len(all) :
         k = 1 \/ (k - 1 \in 1..n /\ (k - 1) + 1 = k /\ all[k] = others[k - 1])
  <2> SUFFICES ASSUME NEW k \in 1..Len(all), k # 1
               PROVE  k - 1 \in 1..n /\ (k - 1) + 1 = k /\ all[k] = others[k - 1]
    OBVIOUS
  <2>1. k - 1 \in 1..n /\ (k - 1) + 1 = k
    BY <1>5, <1>9
  <2> QED BY <1>9, <2>1
<1>12. \A i, j \in 1..Len(all) : all[i].link = all[j].link => i = j
  <2> SUFFICES ASSUME NEW i \in 1..Len(all), NEW j \in 1..Len(all), all[i].link = all[j].link
               PROVE  i = j
    OBVIOUS
  <2>1. CASE i = 1 /\ j = 1
    BY <2>1
  <2>2. CASE (i = 1 /\ j # 1) \/ (i # 1 /\ j = 1)
    BY <1>7, <1>10, <1>11, <2>2
  <2>3. CASE i # 1 /\ j # 1
    <3>1. /\ i - 1 \in 1..n /\ j - 1 \in 1..n
          /\ others[i - 1].link = others[j - 1].link
          /\ (i - 1) + 1 = i /\ (j - 1) + 1 = j
      BY <1>11, <2>3
    <3>2. i - 1 = j - 1
      BY <1>8, <3>1
    <3> QED BY <3>1, <3>2
  <2> QED BY <2>1, <2>2, <2>3
<1>13. /\ m \in 1..Len(all) /\ m \in Nat /\ m <= HistoryLimit
       /\ m = n + 1 \/ m = HistoryLimit
  BY <1>2, <1>5, <1>9 DEF m
<1>14. h \in Seq(Record) /\ Len(h) = m /\ \A i \in 1..m : h[i] = all[i]
  <2>1. \A i \in 1..m : i \in 1..Len(all)
    BY <1>9, <1>13
  <2>2. \A i \in 1..m : all[i] \in Record
    BY <1>9, <2>1
  <2>3. 1 <= m /\ (m - 1) + 1 = m /\ \A i \in 1..m : (1 + i) - 1 = i
    BY <1>13
  <2>4. /\ h \in Seq(Record)
        /\ Len(h) = IF 1 <= m THEN (m - 1) + 1 ELSE 0
        /\ \A i \in 1..((m - 1) + 1) : h[i] = all[(1 + i) - 1]
    BY <1>13, <2>2, SubSeqProperties DEF h
  <2> QED BY <2>3, <2>4
<1>15. \A i, j \in 1..m : h[i].link = h[j].link => i = j
  <2>1. \A i \in 1..m : i \in 1..Len(all)
    BY <1>9, <1>13
  <2> QED BY <1>12, <1>14, <2>1
<1>16. n = Len(stored) => I = 1..Len(stored)
  <2> DEFINE f == [j \in 1..n |-> p[j]]
  <2>1. \A j, k \in 1..n : p[j] = p[k] => j = k
    BY <1>7, <1>8
  <2>2. f \in Bijection(1..n, I)
    BY <1>6, <2>1, Fun_IsBij
  <2>3. ExistsBijection(1..n, I)
    BY <2>2 DEF ExistsBijection
  <2>4. Cardinality(I) = n
    BY <1>5, <2>3, FS_CountingElements
  <2>5. IsFiniteSet(1..Len(stored)) /\ Cardinality(1..Len(stored)) = Len(stored)
    <3>1. Len(stored) \in Int /\ 1 \in Int /\ Len(stored) >= 0
      BY <1>2
    <3>2. /\ IsFiniteSet(1..Len(stored))
          /\ Cardinality(1..Len(stored)) = IF 1 > Len(stored) THEN 0 ELSE Len(stored) - 1 + 1
      BY <3>1, FS_Interval
    <3> QED BY <3>1, <3>2
  <2>6. I \in SUBSET (1..Len(stored))
    BY DEF I
  <2> QED BY <2>4, <2>5, <2>6, FS_Subset
<1>17. ASSUME NEW j \in I, NEW k \in 1..n, p[k] = j, k + 1 \in 1..m
       PROVE  \E x \in 1..m : h[x] = stored[j]
  BY <1>7, <1>9, <1>14, <1>17
<1>18. ASSUME NEW i \in 1..Len(stored), \A k \in 1..m : h[k] # stored[i]
       PROVE  OnlyTouches(h, i)
  <2>1. CASE stored[i].link = link
    <3>1. n < Len(stored)
      <4>1. I # 1..Len(stored)
        BY <2>1 DEF I
      <4> QED BY <1>2, <1>5, <1>16, <4>1
    <3>2. m = n + 1
      BY <1>2, <1>5, <1>9, <1>13, <3>1
    <3>3. ASSUME NEW j \in 1..Len(stored), j # i
          PROVE  \E k \in 1..m : h[k] = stored[j]
      <4>1. j \in I
        BY <1>1, <2>1, <3>3 DEF I
      <4>2. PICK k \in 1..n : p[k] = j
        BY <1>6, <4>1
      <4>3. k + 1 \in 1..m
        BY <1>5, <3>2
      <4> QED BY <1>17, <4>1, <4>2, <4>3
    <3>4. 1 \in 1..m /\ h[1].link = stored[i].link
      BY <1>10, <1>13, <1>14, <2>1
    <3> QED BY <1>14, <3>3, <3>4 DEF OnlyTouches
  <2>2. CASE stored[i].link # link
    <3>1. i \in I
      BY <2>2 DEF I
    <3>2. PICK e \in 1..n : p[e] = i
      BY <1>6, <3>1
    <3>3. e + 1 \notin 1..m
      BY <1>17, <1>18, <3>1, <3>2
    <3>4. e = n /\ m = n /\ n = Len(stored) /\ n = HistoryLimit
      BY <1>2, <1>5, <1>13, <3>3
    <3>5. I = 1..Len(stored)
      BY <1>16, <3>4
    <3>6. ASSUME NEW j \in 1..Len(stored), j # i
          PROVE  \E k \in 1..m : h[k] = stored[j]
      <4>1. PICK k \in 1..n : p[k] = j
        BY <1>6, <3>5
      <4>2. k + 1 \in 1..m
        BY <1>5, <3>2, <3>4, <3>6, <4>1
      <4> QED BY <1>17, <3>5, <4>1, <4>2
    <3>7. i = HistoryLimit
      <4>1. n \in I /\ n \in 1..n
        BY <1>2, <3>4, <3>5
      <4>2. PICK k \in 1..n : p[k] = n
        BY <1>6, <4>1
      <4>3. ~(p[k] < p[n])
        BY <1>2, <1>7, <3>4, <4>1, <4>2
      <4>4. k = n
        BY <1>5, <1>6, <4>1, <4>3
      <4> QED BY <3>2, <3>4, <4>2, <4>4
    <3> QED BY <1>14, <3>4, <3>6, <3>7 DEF OnlyTouches
  <2> QED BY <2>1, <2>2
<1> QED BY <1>4, <1>13, <1>14, <1>15, <1>18 DEF Follows

\* removeFromHistory: one entry goes.
LEMMA RemovedEntries ==
  ASSUME NEW i \in 1..Len(stored), stored \in Seq(Record), HistoryDistinct
  PROVE  Follows(RemoveAt(stored, i))
<1> DEFINE a == SubSeq(stored, 1, i - 1)
           b == SubSeq(stored, i + 1, Len(stored))
           h == a \o b
           L == Len(stored)
<1>1. /\ \A j, k \in 1..L : stored[j].link = stored[k].link => j = k
      /\ L \in Nat /\ L <= HistoryLimit /\ HistoryLimit \in Nat
      /\ i \in 1..L
  BY StoredHistory
<1>2. RemoveAt(stored, i) = h
  BY DEF RemoveAt
<1>3. /\ a \in Seq(Record) /\ Len(a) = i - 1
      /\ \A k \in 1..(i - 1) : a[k] = stored[k]
  <2>1. \A k \in 1..(i - 1) : stored[k] \in Record
    BY <1>1
  <2>2. /\ SubSeq(stored, 1, i - 1) \in Seq(Record)
        /\ Len(SubSeq(stored, 1, i - 1)) = IF 1 <= i - 1 THEN i - 1 - 1 + 1 ELSE 0
        /\ \A k \in 1..(i - 1 - 1 + 1) : SubSeq(stored, 1, i - 1)[k] = stored[1 + k - 1]
    BY <1>1, <2>1, SubSeqProperties
  <2>3. (IF 1 <= i - 1 THEN i - 1 - 1 + 1 ELSE 0) = i - 1 /\ i - 1 - 1 + 1 = i - 1
    BY <1>1
  <2>4. \A k \in 1..(i - 1) : 1 + k - 1 = k
    BY <1>1
  <2> QED BY <2>2, <2>3, <2>4
<1>4. /\ b \in Seq(Record) /\ Len(b) = L - i
      /\ \A k \in 1..(L - i) : b[k] = stored[i + k]
  <2>1. \A k \in (i + 1)..L : stored[k] \in Record
    BY <1>1
  <2>2. /\ SubSeq(stored, i + 1, L) \in Seq(Record)
        /\ Len(SubSeq(stored, i + 1, L)) = IF i + 1 <= L THEN L - (i + 1) + 1 ELSE 0
        /\ \A k \in 1..(L - (i + 1) + 1) : SubSeq(stored, i + 1, L)[k] = stored[(i + 1) + k - 1]
    BY <1>1, <2>1, SubSeqProperties
  <2>3. (IF i + 1 <= L THEN L - (i + 1) + 1 ELSE 0) = L - i /\ L - (i + 1) + 1 = L - i
    BY <1>1
  <2>4. \A k \in 1..(L - i) : (i + 1) + k - 1 = i + k
    BY <1>1
  <2> HIDE DEF L
  <2> QED BY <2>2, <2>3, <2>4 DEF L
<1> HIDE DEF a, b
<1>5. /\ h \in Seq(Record) /\ Len(h) = L - 1
      /\ \A k \in 1..(L - 1) : h[k] = IF k < i THEN stored[k] ELSE stored[k + 1]
  <2> HIDE DEF L
  <2>1. /\ h \in Seq(Record) /\ Len(h) = (i - 1) + (L - i)
        /\ \A k \in 1..((i - 1) + (L - i)) : h[k] = IF k <= i - 1 THEN a[k] ELSE b[k - (i - 1)]
    <3>1. /\ a \o b \in Seq(Record) /\ Len(a \o b) = Len(a) + Len(b)
          /\ \A k \in 1..(Len(a) + Len(b)) :
               (a \o b)[k] = IF k <= Len(a) THEN a[k] ELSE b[k - Len(a)]
      BY <1>3, <1>4, ConcatProperties
    <3>2. Len(a) = i - 1 /\ Len(b) = L - i
      BY <1>3, <1>4
    <3> QED BY <3>1, <3>2
  <2>2. (i - 1) + (L - i) = L - 1
    BY <1>1
  <2>3. ASSUME NEW k \in 1..(L - 1)
        PROVE  h[k] = IF k < i THEN stored[k] ELSE stored[k + 1]
    <3>1. CASE k < i
      <4>1. k \in 1..(i - 1) /\ k <= i - 1
        BY <1>1, <3>1
      <4> QED BY <1>3, <2>1, <2>2, <3>1, <4>1
    <3>2. CASE ~(k < i)
      <4>1. k - (i - 1) \in 1..(L - i) /\ i + (k - (i - 1)) = k + 1 /\ ~(k <= i - 1)
        BY <1>1, <3>2
      <4> QED BY <1>4, <2>1, <2>2, <3>2, <4>1
    <3> QED BY <3>1, <3>2
  <2> QED BY <2>1, <2>2, <2>3
<1> HIDE DEF h, L
<1>6. \A j, k \in 1..(L - 1) : h[j].link = h[k].link => j = k
  <2> SUFFICES ASSUME NEW j \in 1..(L - 1), NEW k \in 1..(L - 1), h[j].link = h[k].link
               PROVE  j = k
    OBVIOUS
  <2>1. /\ j \in 1..L /\ k \in 1..L /\ j + 1 \in 1..L /\ k + 1 \in 1..L
    BY <1>1
  <2>2. (IF j < i THEN j ELSE j + 1) = (IF k < i THEN k ELSE k + 1)
    BY <1>1, <1>5, <2>1
  <2> QED BY <1>1, <2>2
<1>7. \A j \in 1..L : j # i => \E k \in 1..(L - 1) : h[k] = stored[j]
  <2> SUFFICES ASSUME NEW j \in 1..L, j # i
               PROVE  \E k \in 1..(L - 1) : h[k] = stored[j]
    OBVIOUS
  <2>1. CASE j < i
    <3>1. j \in 1..(L - 1)
      BY <1>1, <2>1
    <3> QED BY <1>5, <2>1, <3>1
  <2>2. CASE j > i
    <3>1. j - 1 \in 1..(L - 1) /\ ~(j - 1 < i) /\ (j - 1) + 1 = j
      BY <1>1, <2>2
    <3> QED BY <1>5, <3>1
  <2> QED BY <1>1, <2>1, <2>2
<1>8. L - 1 <= HistoryLimit
  BY <1>1
<1>9. OnlyTouches(h, i)
  BY <1>2, <1>5, <1>7 DEF OnlyTouches, L
<1>10. \A j \in 1..L : (\A k \in 1..(L - 1) : h[k] # stored[j]) => OnlyTouches(h, j)
  BY <1>7, <1>9
<1> QED BY <1>2, <1>5, <1>6, <1>8, <1>10 DEF Follows, L

\* toggleFavorite: the favourites and the others are all there is.
LEMMA ToggledEntries ==
  ASSUME NEW i \in 1..Len(stored), stored \in Seq(Record), HistoryDistinct,
         NEW toggled, toggled = [stored EXCEPT ![i].favorite = ~@],
         NEW F, F = {j \in DOMAIN toggled : toggled[j].favorite}
  PROVE  Follows(Kept(toggled, F) \o Kept(toggled, DOMAIN toggled \ F))
<1> DEFINE L == Len(stored)
           G == (1..L) \ F
           a == Kept(toggled, F)
           b == Kept(toggled, G)
           h == a \o b
<1>1. /\ \A j, k \in 1..L : stored[j].link = stored[k].link => j = k
      /\ L \in Nat /\ L <= HistoryLimit /\ HistoryLimit \in Nat
  BY StoredHistory
<1>2. /\ toggled \in Seq(Record) /\ Len(toggled) = L /\ DOMAIN toggled = 1..L
      /\ \A j \in 1..L : toggled[j].link = stored[j].link
      /\ \A j \in 1..L : j # i => toggled[j] = stored[j]
  <2> DEFINE new == [stored[i] EXCEPT !.favorite = ~@]
  <2>1. stored[i] \in Record
    OBVIOUS
  <2>2. new \in Record /\ new.link = stored[i].link
    BY <2>1 DEF Record
  <2>3. toggled = [stored EXCEPT ![i] = new]
    OBVIOUS
  <2> HIDE DEF new
  <2>4. toggled \in Seq(Record) /\ Len(toggled) = L /\ DOMAIN toggled = 1..L
    BY <2>2, <2>3
  <2>5. \A j \in 1..L : toggled[j] = IF j = i THEN new ELSE stored[j]
    BY <2>3
  <2> QED BY <2>2, <2>4, <2>5
<1>3. F \in SUBSET (1..L) /\ G \in SUBSET (1..L) /\ F \cup G = 1..L /\ F \cap G = {}
  BY <1>2
<1> HIDE DEF G, L
<1>4. /\ a \in Seq(Record) /\ \E p : ComesFrom(a, toggled, F, p)
      /\ b \in Seq(Record) /\ \E q : ComesFrom(b, toggled, G, q)
  BY <1>2, <1>3, KeptEntries
<1>5. h = Kept(toggled, F) \o Kept(toggled, DOMAIN toggled \ F)
  BY <1>2 DEF G
<1> HIDE DEF a, b, h
<1>6. PICK p : ComesFrom(a, toggled, F, p)
  BY <1>4
<1>7. PICK q : ComesFrom(b, toggled, G, q)
  BY <1>4
<1>8. PICK m \in Nat, n \in Nat : m = Len(a) /\ n = Len(b)
  <2>1. Len(a) \in Nat /\ Len(b) \in Nat
    BY <1>4, LenProperties
  <2> QED BY <2>1
<1>9. /\ \A j \in 1..m : p[j] \in F /\ p[j] \in 1..L /\ a[j] = toggled[p[j]]
      /\ \A j \in 1..n : q[j] \in G /\ q[j] \in 1..L /\ b[j] = toggled[q[j]]
  BY <1>3, <1>6, <1>7, <1>8 DEF ComesFrom
<1>10. /\ \A j, k \in 1..m : p[j] = p[k] => j = k
       /\ \A j, k \in 1..n : q[j] = q[k] => j = k
  <2>1. ASSUME NEW j \in 1..m, NEW k \in 1..m, p[j] = p[k]
        PROVE  j = k
    <3>1. ~(p[j] < p[k]) /\ ~(p[k] < p[j])
      BY <1>1, <1>9, <2>1
    <3>2. ~(j < k) /\ ~(k < j)
      BY <1>6, <1>8, <3>1 DEF ComesFrom
    <3> QED BY <1>8, <3>2
  <2>2. ASSUME NEW j \in 1..n, NEW k \in 1..n, q[j] = q[k]
        PROVE  j = k
    <3>1. ~(q[j] < q[k]) /\ ~(q[k] < q[j])
      BY <1>1, <1>9, <2>2
    <3>2. ~(j < k) /\ ~(k < j)
      BY <1>7, <1>8, <3>1 DEF ComesFrom
    <3> QED BY <1>8, <3>2
  <2> QED BY <2>1, <2>2
<1>11. /\ h \in Seq(Record) /\ Len(h) = m + n
       /\ \A k \in 1..m : k \in 1..(m + n) /\ h[k] = a[k]
       /\ \A k \in 1..n : m + k \in 1..(m + n) /\ h[m + k] = b[k]
       /\ \A k \in 1..(m + n) : k \in 1..m \/ (k - m \in 1..n /\ m + (k - m) = k)
  <2>1. /\ h \in Seq(Record) /\ Len(h) = m + n
        /\ \A k \in 1..(m + n) : h[k] = IF k <= m THEN a[k] ELSE b[k - m]
    BY <1>4, <1>8, ConcatProperties DEF h
  <2>2. \A k \in 1..m : k \in 1..(m + n) /\ k <= m
    BY <1>8
  <2>3. \A k \in 1..n : m + k \in 1..(m + n) /\ ~(m + k <= m) /\ (m + k) - m = k
    BY <1>8
  <2>4. \A k \in 1..(m + n) : k \in 1..m \/ (k - m \in 1..n /\ m + (k - m) = k)
    BY <1>8
  <2> QED BY <2>1, <2>2, <2>3, <2>4
<1> DEFINE At(k) == IF k \in 1..m THEN p[k] ELSE q[k - m]
<1>12. \A k \in 1..(m + n) : /\ At(k) \in 1..L /\ h[k] = toggled[At(k)]
                             /\ h[k].link = stored[At(k)].link
  <2> SUFFICES ASSUME NEW k \in 1..(m + n)
               PROVE  /\ At(k) \in 1..L /\ h[k] = toggled[At(k)]
                      /\ h[k].link = stored[At(k)].link
    OBVIOUS
  <2>1. CASE k \in 1..m
    <3>1. At(k) = p[k] /\ p[k] \in 1..L /\ h[k] = toggled[p[k]]
      BY <1>9, <1>11, <2>1
    <3> HIDE DEF At
    <3> QED BY <1>2, <3>1
  <2>2. CASE k \notin 1..m
    <3>1. k - m \in 1..n /\ h[k] = b[k - m]
      <4>1. k - m \in 1..n /\ m + (k - m) = k
        BY <1>11, <2>2
      <4> QED BY <1>11, <4>1
    <3>2. At(k) = q[k - m] /\ q[k - m] \in 1..L /\ h[k] = toggled[q[k - m]]
      BY <1>9, <2>2, <3>1
    <3> HIDE DEF At
    <3> QED BY <1>2, <3>2
  <2> QED BY <2>1, <2>2
<1>13. \A j, k \in 1..(m + n) : At(j) = At(k) => j = k
  <2> SUFFICES ASSUME NEW j \in 1..(m + n), NEW k \in 1..(m + n), At(j) = At(k)
               PROVE  j = k
    OBVIOUS
  <2>1. CASE j \in 1..m /\ k \in 1..m
    BY <1>10, <2>1
  <2>2. CASE j \notin 1..m /\ k \notin 1..m
    <3>1. j - m \in 1..n /\ k - m \in 1..n /\ m + (j - m) = j /\ m + (k - m) = k
      BY <1>11, <2>2
    <3>2. j - m = k - m
      BY <1>10, <2>2, <3>1
    <3> QED BY <3>1, <3>2
  <2>3. CASE j \in 1..m /\ k \notin 1..m
    BY <1>3, <1>9, <1>11, <2>3
  <2>4. CASE j \notin 1..m /\ k \in 1..m
    BY <1>3, <1>9, <1>11, <2>4
  <2> QED BY <2>1, <2>2, <2>3, <2>4
<1>14. \A j \in 1..L : \E k \in 1..(m + n) : At(k) = j
  <2> SUFFICES ASSUME NEW j \in 1..L
               PROVE  \E k \in 1..(m + n) : At(k) = j
    OBVIOUS
  <2>1. CASE j \in F
    <3>1. PICK k \in 1..m : p[k] = j
      BY <1>6, <1>8, <2>1 DEF ComesFrom
    <3> QED BY <1>11, <3>1
  <2>2. CASE j \in G
    <3>1. PICK k \in 1..n : q[k] = j
      BY <1>7, <1>8, <2>2 DEF ComesFrom
    <3>2. m + k \in 1..(m + n) /\ m + k \notin 1..m /\ (m + k) - m = k
      BY <1>8, <1>11
    <3> QED BY <3>1, <3>2
  <2> QED BY <1>3, <2>1, <2>2
<1> HIDE DEF At
<1>15. m + n = L
  <2> DEFINE f == [k \in 1..(m + n) |-> At(k)]
  <2>1. f \in Bijection(1..(m + n), 1..L)
    BY <1>12, <1>13, <1>14, Fun_IsBij
  <2>2. ExistsBijection(1..(m + n), 1..L)
    BY <2>1 DEF ExistsBijection
  <2>3. m + n \in Nat
    BY <1>8
  <2>4. Cardinality(1..L) = m + n
    BY <2>2, <2>3, FS_CountingElements
  <2>5. Cardinality(1..L) = L
    <3>1. L \in Int /\ 1 \in Int
      BY <1>1
    <3>2. Cardinality(1..L) = IF 1 > L THEN 0 ELSE L - 1 + 1
      BY <3>1, FS_Interval
    <3> QED BY <1>1, <3>2
  <2> QED BY <2>4, <2>5
<1>16. \A j, k \in 1..(m + n) : h[j].link = h[k].link => j = k
  <2> SUFFICES ASSUME NEW j \in 1..(m + n), NEW k \in 1..(m + n), h[j].link = h[k].link
               PROVE  j = k
    OBVIOUS
  <2>1. At(j) \in 1..L /\ At(k) \in 1..L /\ stored[At(j)].link = stored[At(k)].link
    BY <1>12
  <2>2. At(j) = At(k)
    BY <1>1, <2>1
  <2> QED BY <1>13, <2>2
<1>17. \A j \in 1..L : \E k \in 1..(m + n) :
         h[k].link = stored[j].link /\ (j # i => h[k] = stored[j])
  BY <1>2, <1>12, <1>14
<1>18. Len(h) = Len(stored) /\ Len(h) = m + n /\ Len(h) <= HistoryLimit
  BY <1>1, <1>11, <1>15 DEF L
<1>19. Follows(h)
  <2>1. \A j, k \in 1..Len(h) : h[j].link = h[k].link => j = k
    BY <1>16, <1>18
  <2>2. \A j \in 1..Len(stored) : \E k \in 1..Len(h) :
          h[k].link = stored[j].link /\ (j # i => h[k] = stored[j])
    BY <1>15, <1>17, <1>18
  <2>3. OnlyTouches(h, i)
    BY <2>2 DEF OnlyTouches
  <2>4. \A j \in 1..Len(stored) :
          (\A k \in 1..Len(h) : h[k] # stored[j]) => OnlyTouches(h, j)
    BY <2>2, <2>3
  <2> QED BY <1>11, <1>18, <2>1, <2>4 DEF Follows
<1> QED BY <1>5, <1>19

-----------------------------------------------------------------------------
\* What makes CommandMenuTypeOK and HistoryDistinct inductive.
CommandMenuInv ==
  /\ stored \in Seq(Record)
  /\ history \in [Tabs -> Seq(Record)]
  /\ items \in [Tabs -> Seq(Links)]
  /\ listing \in [Tabs -> {"closed", "history", "results"}]
  /\ at \in [Tabs -> Nat]
  /\ HistoryDistinct

\* CommandMenuInv holds at first.
LEMMA CommandMenuStart == CommandMenuInit => CommandMenuInv
<1> SUFFICES ASSUME CommandMenuInit PROVE CommandMenuInv
  OBVIOUS
<1> USE DEF CommandMenuInit
<1>1. <<>> \in Seq(Record) /\ <<>> \in Seq(Links) /\ Len(<<>>) = 0 /\ DOMAIN <<>> = {}
  OBVIOUS
<1>2. HistoryDistinct
  <2>1. DOMAIN LinksOf(stored) = {} /\ Len(stored) = 0
    BY <1>1 DEF LinksOf
  <2> QED BY <2>1, CommandMenuAssumption DEF CommandMenuAssumption, HistoryDistinct, IsInjective
<1> QED BY <1>1, <1>2 DEF CommandMenuInv

\* Every history that a step writes follows the one before.
LEMMA WrittenHistory ==
  ASSUME CommandMenuInv, [CommandMenuNext]_commandVars
  PROVE  Follows(stored')
<1>1. stored \in Seq(Record) /\ HistoryDistinct /\ Follows(stored)
  BY StoredHistory DEF CommandMenuInv
<1>2. CASE UNCHANGED stored
  BY <1>1, <1>2
<1>3. ASSUME NEW t \in Tabs, NEW addHistory \in BOOLEAN, NEW openInNewTab \in BOOLEAN,
             SelectItem(t, addHistory, openInNewTab), ~UNCHANGED stored
      PROVE  Follows(stored')
  <2> DEFINE link == items[t][at[t]]
  <2>1. stored' = Added(t, link)
    BY <1>3 DEF SelectItem
  <2>2. link \in Links
    <3>1. items[t] \in Seq(Links) /\ at[t] \in DOMAIN items[t]
      BY <1>3 DEF SelectItem, CommandMenuInv
    <3> QED BY <3>1
  <2> HIDE DEF link
  <2> QED BY <1>1, <2>1, <2>2, AddedEntries
<1>4. ASSUME NEW t \in Tabs, NEW i, RemoveFromHistory(t, i), ~UNCHANGED stored
      PROVE  Follows(stored')
  <2>1. i \in 1..Len(stored) /\ stored' = RemoveAt(stored, i)
    BY <1>1, <1>4 DEF RemoveFromHistory, Write
  <2> QED BY <1>1, <2>1, RemovedEntries
<1>5. ASSUME NEW t \in Tabs, NEW i, ToggleFavorite(t, i)
      PROVE  Follows(stored')
  <2> DEFINE toggled == [stored EXCEPT ![i].favorite = ~@]
             F == {j \in DOMAIN toggled : toggled[j].favorite}
  <2>1. i \in 1..Len(stored)
    BY <1>1, <1>5 DEF ToggleFavorite
  <2>2. stored' = Kept(toggled, F) \o Kept(toggled, DOMAIN toggled \ F)
    BY <1>5 DEF ToggleFavorite, Write
  <2> QED BY <1>1, <2>1, <2>2, ToggledEntries
<1> QED BY <1>2, <1>3, <1>4, <1>5
        DEF CommandMenuNext, LoadTab, HandleOpen, HandleClear, HandleContentLoaded, Step,
            commandVars

\* What a tab redraws are links.
LEMMA RedrawnLinks ==
  ASSUME CommandMenuInv, NEW t \in Tabs, NEW h \in Seq(Record)
  PROVE  Redrawn(t, h) \in Seq(Links)
<1>1. items[t] \in Seq(Links)
  BY DEF CommandMenuInv
<1> DEFINE n == Len(items[t])
           Visible(i) == IF i \in DOMAIN h THEN h[i].link ELSE items[t][i]
<1>2. n \in Nat /\ DOMAIN items[t] = 1..n /\ \A i \in 1..n : items[t][i] \in Links
  BY <1>1
<1>3. \A i \in DOMAIN h : h[i].link \in Links
  BY LinksOfHistory
<1>4. \A i \in 1..n : Visible(i) \in Links
  BY <1>2, <1>3
<1>5. [i \in DOMAIN items[t] |-> Visible(i)] = [i \in 1..n |-> Visible(i)]
  BY <1>2
<1> HIDE DEF n, Visible
<1>6. [i \in 1..n |-> Visible(i)] \in [1..n -> Links]
  BY <1>4
<1>7. [i \in DOMAIN items[t] |-> Visible(i)] \in Seq(Links)
  BY <1>2, <1>5, <1>6, SeqDef
<1> QED BY <1>1, <1>7 DEF Redrawn, Visible

\* CommandMenuInv is inductive.
LEMMA CommandMenuKept ==
  ASSUME CommandMenuInv, [CommandMenuNext]_commandVars
  PROVE  CommandMenuInv'
<1>1. Follows(stored')
  BY WrittenHistory
<1>2. stored' \in Seq(Record)
  BY <1>1 DEF Follows
<1>3. HistoryDistinct'
  <2>1. \A i, j \in 1..Len(stored') : stored'[i].link = stored'[j].link => i = j
    BY <1>1 DEF Follows
  <2>2. /\ DOMAIN LinksOf(stored') = 1..Len(stored')
        /\ \A i \in 1..Len(stored') : LinksOf(stored')[i] = stored'[i].link
    BY <1>2, LinksOfHistory
  <2>3. IsInjective(LinksOf(stored'))
    BY <2>1, <2>2 DEF IsInjective
  <2>4. Len(stored') <= HistoryLimit
    BY <1>1 DEF Follows
  <2> QED BY <2>3, <2>4 DEF HistoryDistinct
<1> DEFINE Typed ==
             /\ history' \in [Tabs -> Seq(Record)]
             /\ items' \in [Tabs -> Seq(Links)]
             /\ listing' \in [Tabs -> {"closed", "history", "results"}]
             /\ at' \in [Tabs -> Nat]
<1>4. /\ stored \in Seq(Record)
      /\ history \in [Tabs -> Seq(Record)]
      /\ items \in [Tabs -> Seq(Links)]
      /\ listing \in [Tabs -> {"closed", "history", "results"}]
      /\ at \in [Tabs -> Nat]
  BY DEF CommandMenuInv
<1>5. \A u \in Tabs : LinksOf(history[u]) \in Seq(Links)
  BY <1>4, LinksOfHistory
<1>6. ASSUME UNCHANGED commandVars PROVE Typed
  BY <1>4, <1>6 DEF commandVars
<1>7. ASSUME NEW t \in Tabs, LoadTab(t) \/ HandleOpen(t) \/ HandleClear(t) \/ Step(t)
      PROVE  Typed
  <2>1. <<>> \in Seq(Links)
    OBVIOUS
  <2>2. CASE LoadTab(t)
    BY <1>4, <2>1, <2>2 DEF LoadTab, List
  <2>3. CASE HandleOpen(t)
    <3>1. \/ List(t, "closed", <<>>)
          \/ List(t, "history", LinksOf(history[t]))
      BY <2>3 DEF HandleOpen
    <3>2. UNCHANGED <<history, at>>
      BY <2>3 DEF HandleOpen
    <3> QED BY <1>4, <1>5, <2>1, <3>1, <3>2 DEF List
  <2>4. CASE HandleClear(t)
    BY <1>4, <2>1, <2>4 DEF HandleClear, List
  <2>5. CASE Step(t)
    <3>1. at[t] \in Nat /\ at[t] + 1 \in Nat /\ (at[t] > 1 => at[t] - 1 \in Nat)
      BY <1>4
    <3> QED BY <1>4, <2>5, <3>1 DEF Step
  <2> QED BY <1>7, <2>2, <2>3, <2>4, <2>5
<1>8. ASSUME NEW t \in Tabs, HandleContentLoaded(t)
      PROVE  Typed
  <2>1. SeqOf(Links, MaxResults) \subseteq Seq(Links)
    <3> SUFFICES ASSUME NEW s \in SeqOf(Links, MaxResults) PROVE s \in Seq(Links)
      OBVIOUS
    <3>1. PICK m \in 0..MaxResults : s \in [1..m -> Links]
      BY DEF SeqOf
    <3>2. m \in Nat
      BY CommandMenuAssumption DEF CommandMenuAssumption
    <3> QED BY <3>1, <3>2, SeqDef
  <2>2. CASE \E results \in SeqOf(Links, MaxResults) :
               /\ List(t, "results", results)
               /\ at' = [at EXCEPT ![t] = 0]
    BY <1>4, <1>8, <2>1, <2>2 DEF HandleContentLoaded, List
  <2>3. CASE /\ listing[t] = "results"
             /\ \E more \in SeqOf(Links, MaxResults) :
                  /\ Len(items[t] \o more) <= MaxResults
                  /\ items' = [items EXCEPT ![t] = @ \o more]
             /\ UNCHANGED <<listing, at>>
    <3>1. PICK more \in SeqOf(Links, MaxResults) : items' = [items EXCEPT ![t] = @ \o more]
      BY <2>3
    <3>2. items[t] \o more \in Seq(Links)
      BY <1>4, <2>1, ConcatProperties
    <3>3. items' \in [Tabs -> Seq(Links)]
      BY <1>4, <3>1, <3>2
    <3> QED BY <1>4, <1>8, <2>3, <3>3 DEF HandleContentLoaded
  <2>4. CASE /\ history[t] # <<>>
             /\ List(t, "history", LinksOf(history[t]))
             /\ at' = [at EXCEPT ![t] = 0]
    BY <1>4, <1>5, <1>8, <2>4 DEF HandleContentLoaded, List
  <2> QED BY <1>8, <2>2, <2>3, <2>4 DEF HandleContentLoaded
<1>9. ASSUME NEW t \in Tabs, NEW addHistory \in BOOLEAN, NEW openInNewTab \in BOOLEAN,
             SelectItem(t, addHistory, openInNewTab)
      PROVE  Typed
  <2>1. history' \in [Tabs -> Seq(Record)]
    BY <1>2, <1>4, <1>9 DEF SelectItem
  <2>2. Redrawn(t, history'[t]) \in Seq(Links)
    BY <2>1, RedrawnLinks
  <2>3. CASE openInNewTab
    <3>1. items' = [items EXCEPT ![t] = Redrawn(t, history'[t])] /\ UNCHANGED <<listing, at>>
      BY <1>9, <2>3 DEF SelectItem
    <3> QED BY <1>4, <2>1, <2>2, <3>1
  <2>4. CASE ~openInNewTab
    <3>1. List(t, "closed", <<>>) /\ at' = [at EXCEPT ![t] = 0]
      BY <1>9, <2>4 DEF SelectItem
    <3>2. <<>> \in Seq(Links)
      OBVIOUS
    <3> QED BY <1>4, <2>1, <3>1, <3>2 DEF List
  <2> QED BY <2>3, <2>4
<1>10. ASSUME NEW t \in Tabs, NEW i, RemoveFromHistory(t, i) \/ ToggleFavorite(t, i)
       PROVE  Typed
  <2>1. /\ Write(t, stored')
        /\ items' = [items EXCEPT ![t] = Redrawn(t, stored')]
        /\ UNCHANGED <<listing, at>>
    BY <1>10 DEF RemoveFromHistory, ToggleFavorite, Write
  <2>2. Redrawn(t, stored') \in Seq(Links)
    BY <1>2, RedrawnLinks
  <2> QED BY <1>2, <1>4, <2>1, <2>2 DEF Write
<1>11. Typed
  <2> HIDE DEF Typed
  <2> QED BY <1>6, <1>7, <1>8, <1>9, <1>10 DEF CommandMenuNext
<1> QED BY <1>2, <1>3, <1>11 DEF CommandMenuInv

\* No page is twice in the history of the command search, nor is it longer than its
\* limit, whatever the tabs do (addToHistory, removeFromHistory, toggleFavorite).
THEOREM HistoriesAreDistinct == CommandMenuSpec => []HistoryDistinct
<1>1. CommandMenuInv => HistoryDistinct
  BY DEF CommandMenuInv
<1>2. CommandMenuInv /\ [CommandMenuNext]_commandVars => CommandMenuInv'
  BY CommandMenuKept
<1> QED BY <1>1, <1>2, CommandMenuStart, PTL DEF CommandMenuSpec

\* A step of one tab changes one entry of the history at most, and a page leaves it
\* by removal of that entry or at the limit: what another tab has put or marked there in
\* between is kept (addToHistory, removeFromHistory, toggleFavorite).
THEOREM OthersAreKept == CommandMenuSpec => OthersEntriesStay
<1>1. CommandMenuInv /\ [CommandMenuNext]_commandVars => CommandMenuInv'
  BY CommandMenuKept
<1>2. ASSUME CommandMenuInv, [CommandMenuNext]_commandVars
      PROVE  [\A i \in DOMAIN stored : stored[i] \notin Range(stored') =>
                /\ \A j \in DOMAIN stored \ {i} : stored[j] \in Range(stored')
                /\ \/ stored[i].link \in Range(LinksOf(stored'))
                   \/ stored' = RemoveAt(stored, i)
                   \/ i = HistoryLimit /\ Len(stored') = HistoryLimit]_commandVars
  <2>1. PICK h \in Seq(Record) : h = stored' /\ Follows(h)
    BY <1>2, WrittenHistory DEF Follows
  <2>2. /\ \A k \in 1..Len(h) : h[k] \in Range(h)
        /\ \A k \in 1..Len(h) : h[k].link \in Range(LinksOf(h))
    <3>1. /\ DOMAIN LinksOf(h) = 1..Len(h)
          /\ \A k \in 1..Len(h) : LinksOf(h)[k] = h[k].link
      BY LinksOfHistory
    <3> QED BY <3>1 DEF Range
  <2>3. DOMAIN stored = 1..Len(stored)
    BY <1>2 DEF CommandMenuInv
  <2>4. ASSUME NEW i \in 1..Len(stored), stored[i] \notin Range(h)
        PROVE  /\ \A j \in 1..Len(stored) \ {i} : stored[j] \in Range(h)
               /\ \/ stored[i].link \in Range(LinksOf(h))
                  \/ h = RemoveAt(stored, i)
                  \/ i = HistoryLimit /\ Len(h) = HistoryLimit
    <3>1. OnlyTouches(h, i)
      BY <2>1, <2>2, <2>4 DEF Follows
    <3> QED BY <2>2, <3>1 DEF OnlyTouches
  <2> QED BY <2>1, <2>3, <2>4
<1> QED BY <1>1, <1>2, CommandMenuStart, PTL DEF CommandMenuSpec, OthersEntriesStay
===================================================================================
