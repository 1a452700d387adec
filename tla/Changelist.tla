-------------------------------- MODULE Changelist --------------------------------
(***************************************************************************)
(* The list of objects in the admin with its action bar (actions.js): the  *)
(* boxes in front of the rows, the box that stands for all of them, and   *)
(* "select all across pages", which makes an action run on every object of *)
(* the query, seen or not.                                                 *)
(***************************************************************************)
EXTENDS Naturals, FiniteSets

CONSTANT RowCount \* the rows on the page

ChangelistAssumption == RowCount \in Nat \ {0}
ASSUME ChangelistAssumption

Rows == 1..RowCount
NoRow == 0

VARIABLES
  checked,     \* the rows whose box is ticked
  lit,         \* the rows highlighted as selected
  toggle,      \* the box in the head of the table
  across,      \* the hidden input select_across
  bar,         \* the visible parts of the action bar
  counted,     \* the number the counter shows
  lastChecked, \* the row that Shift extends from
  edited,      \* list_editable_changed
  leaving      \* the action is on its way to the server

changelistVars ==
  <<checked, lit, toggle, across, bar, counted, lastChecked, edited, leaving>>

BarParts == {"question", "clear", "all", "counter"}

ShowQuestion(b) == (b \ {"clear", "all"}) \cup {"question"}
ShowClear(b) == (b \ {"question", "counter"}) \cup {"clear", "all"}
Reset(b) == (b \ {"question", "clear", "all"}) \cup {"counter"}

\* checker: the boxes in affected get the value v.
Ticked(affected, v) == IF v THEN checked \cup affected ELSE checked \ affected
Lit(affected, v) == IF v THEN lit \cup affected ELSE lit \ affected
CheckerBar(b, v) == IF v THEN ShowQuestion(b) ELSE Reset(b)

\* Mutant of UpdateCounter: clearAcross() is not called.
UpdateCounterKeeping(c, b) ==
  /\ counted' = Cardinality(c)
  /\ toggle' = (c = Rows)
  /\ across' = across
  /\ bar' = IF c = Rows THEN ShowQuestion(b) ELSE Reset(b)

\* updateCounter, with the boxes and the bar as the caller leaves them: the head's
\* box follows the rows, and unless all are ticked clearAcross() is called.
UpdateCounter(c, b) ==
  /\ counted' = Cardinality(c)
  /\ toggle' = (c = Rows)
  /\ across' = (across /\ c = Rows)
  /\ bar' = IF c = Rows THEN ShowQuestion(b) ELSE Reset(b)

\* The page is loaded; "pageshow" calls updateCounter.
ChangelistInit ==
  /\ checked = {}
  /\ lit = {}
  /\ toggle = FALSE
  /\ across = FALSE
  /\ bar = {"counter"}
  /\ counted = 0
  /\ lastChecked = NoRow
  /\ edited = FALSE
  /\ leaving = FALSE

\* A click on the head's box.
ClickToggle ==
  /\ checked' = Ticked(Rows, ~toggle)
  /\ lit' = Lit(Rows, ~toggle)
  /\ UpdateCounter(checked', CheckerBar(bar, ~toggle))
  /\ UNCHANGED <<lastChecked, edited, leaving>>

\* affectedCheckboxes: with Shift, all between the last one and this one.
Affected(r, shift) ==
  IF lastChecked # NoRow /\ shift
  THEN {x \in Rows : \/ r <= x /\ x <= lastChecked
                     \/ lastChecked <= x /\ x <= r}
  ELSE {r}

\* A click on a row's box, which flips it; the others it affects get its value.
ClickRow(r, shift) ==
  LET v == r \notin checked
  IN /\ checked' = Ticked(Affected(r, shift), v)
     /\ lit' = Lit(Affected(r, shift), v)
     /\ UpdateCounter(checked', CheckerBar(bar, v))
     /\ lastChecked' = r
     /\ UNCHANGED <<edited, leaving>>

\* "Select all objects" in the question.
ClickAcross ==
  /\ "question" \in bar
  /\ across' = TRUE
  /\ bar' = ShowClear(bar)
  /\ UNCHANGED <<checked, lit, toggle, counted, lastChecked, edited, leaving>>

\* "Clear selection".
ClickClear ==
  /\ "clear" \in bar
  /\ checked' = {}
  /\ lit' = {}
  /\ counted' = 0
  /\ toggle' = FALSE
  /\ across' = FALSE
  /\ bar' = Reset(bar)
  /\ UNCHANGED <<lastChecked, edited, leaving>>

\* A field of a row is edited in place.
EditRow ==
  /\ edited' = TRUE
  /\ UNCHANGED <<checked, lit, toggle, across, bar, counted, lastChecked, leaving>>

\* The button that runs the action; with unsaved edits it asks first, and the
\* answer may be no.
RunAction ==
  /\ leaving' \in (IF edited THEN BOOLEAN ELSE {TRUE})
  /\ UNCHANGED <<checked, lit, toggle, across, bar, counted, lastChecked, edited>>

\* The back button: the page as it was left, and "pageshow".
ComeBack ==
  /\ leaving
  /\ leaving' = FALSE
  /\ UpdateCounter(checked, bar)
  /\ UNCHANGED <<checked, lit, lastChecked, edited>>

\* The page is built anew and the browser fills in the boxes that were ticked,
\* which highlights no row. That it leaves the hidden input as the server sent it is
\* assumed of the browser: no code here resets it.
ComeBackRebuilt ==
  /\ leaving
  /\ leaving' = FALSE
  /\ counted' = Cardinality(checked)
  /\ toggle' = (checked = Rows)
  /\ across' = FALSE
  /\ bar' = IF checked = Rows THEN ShowQuestion({"counter"}) ELSE {"counter"}
  /\ lit' = {}
  /\ lastChecked' = NoRow
  /\ edited' = FALSE
  /\ UNCHANGED checked

ChangelistNext ==
  \/ /\ ~leaving
     /\ \/ ClickToggle
        \/ \E r \in Rows, shift \in BOOLEAN : ClickRow(r, shift)
        \/ ClickAcross
        \/ ClickClear
        \/ EditRow
        \/ RunAction
  \/ ComeBack
  \/ ComeBackRebuilt

ChangelistSpec == ChangelistInit /\ [][ChangelistNext]_changelistVars

(***************************************************************************)
(* Properties                                                              *)
(***************************************************************************)
\* Ticked and highlighted rows are rows, the bar shows parts it has.
ChangelistTypeOK ==
  /\ checked \subseteq Rows
  /\ lit \subseteq Rows
  /\ toggle \in BOOLEAN
  /\ across \in BOOLEAN
  /\ bar \subseteq BarParts
  /\ counted \in 0..RowCount
  /\ lastChecked \in Rows \cup {NoRow}
  /\ edited \in BOOLEAN
  /\ leaving \in BOOLEAN

\* The action runs on what the bar says: on every object of the query only while all
\* rows of the page are ticked and the head's box says so, and as long as the bar shows
\* "n of m selected", on just the n ticked rows (updateCounter, showClear, reset).
ActionMatchesBar ==
  /\ across => checked = Rows /\ toggle
  /\ "counter" \in bar => counted = Cardinality(checked) /\ ~across
================================================================================
