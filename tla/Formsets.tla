--------------------------------- MODULE Formsets ---------------------------------
(***************************************************************************)
(* Inline formsets of the admin: rows of form fields whose names carry the *)
(* row's number, and the hidden TOTAL_FORMS that tells the server how many *)
(* to read. Three scripts keep the numbers: Unfold's (app.js, inlines),    *)
(* Django's own (inlines.js, formset) and the one for crispy formsets     *)
(* (app.js, crispyFormset). A page uses one of them.                       *)
(***************************************************************************)
EXTENDS Naturals, Sequences, FiniteSets, SequencesExt

CONSTANTS
  Forms,    \* the forms there can be, saved or new
  MinForms, \* MIN_NUM_FORMS
  MaxForms  \* MAX_NUM_FORMS

FormsetsAssumption ==
  /\ MinForms \in Nat
  /\ MaxForms \in Nat
  /\ MinForms <= MaxForms
ASSUME FormsetsAssumption

Scripts == {"unfold", "django", "crispy"}

VARIABLES
  script,   \* which script serves the page
  rows,     \* the rows on the screen: form, the number in its names, whether it
            \* came from the server, whether something was typed that is not saved
  total,    \* TOTAL_FORMS
  spare,    \* inlines.js: nextIndex
  addable   \* whether the button that adds a row is visible

formsetVars == <<script, rows, total, spare, addable>>

Row == [form : Forms, index : Nat, saved : BOOLEAN, typed : BOOLEAN]

Fresh(f, i) == [form |-> f, index |-> i, saved |-> FALSE, typed |-> FALSE]
FormsOf(rs) == {rs[i].form : i \in DOMAIN rs}

\* The page as the server renders it: m saved forms and blank ones, at least the
\* minimum, numbered from 0. Unfold leaves the button visible; the other scripts
\* decide when they start.
FormsetsInit ==
  \E f \in SeqOf(Forms, MaxForms) : \E m \in 0..Len(f) :
    /\ IsInjective(f)
    /\ Len(f) >= MinForms
    /\ script \in Scripts
    /\ rows = [i \in DOMAIN f |-> [Fresh(f[i], i - 1) EXCEPT !.saved = (i <= m)]]
    /\ total = Len(f)
    /\ spare = Len(f)
    /\ addable = (script = "unfold" \/ Len(f) < MaxForms)

TypeIn(i) ==
  /\ rows' = [rows EXCEPT ![i].typed = TRUE]
  /\ UNCHANGED <<script, total, spare, addable>>

(***************************************************************************)
(* Unfold                                                                  *)
(***************************************************************************)
\* addInlineTemplateHandler: the new row takes the number of rows before it.
UnfoldAdd(f) ==
  /\ total < MaxForms
  /\ rows' = Append(rows, Fresh(f, Len(rows)))
  /\ total' = total + 1
  /\ addable' = (addable /\ total' # MaxForms)
  /\ UNCHANGED <<script, spare>>

\* Mutant of Renamed: the numbers are left as they are.
RenamedNot(i) == [rows[i] EXCEPT !.typed = FALSE]

\* The names of a row at position i that carry i - 1 are made to carry i - 2. The
\* row's HTML is built anew, which loses what was typed into it.
Renamed(i) ==
  [rows[i] EXCEPT !.index = IF @ = i - 1 THEN @ - 1 ELSE @, !.typed = FALSE]

\* deleteInlineTemplateHandler, on a row that was added on the page.
UnfoldDelete(i) ==
  /\ total # MinForms
  /\ rows' = [j \in 1..(Len(rows) - 1) |-> IF j < i THEN rows[j] ELSE Renamed(j + 1)]
  /\ total' = Len(rows')
  /\ addable' = (addable \/ total' < MaxForms)
  /\ UNCHANGED <<script, spare>>

(***************************************************************************)
(* Django                                                                  *)
(***************************************************************************)
\* addInlineClickHandler: names carry TOTAL_FORMS, the row's id carries nextIndex.
DjangoAdd(f) ==
  /\ addable
  /\ rows' = Append(rows, Fresh(f, total))
  /\ total' = total + 1
  /\ spare' = spare + 1
  /\ addable' = (total' < MaxForms)
  /\ UNCHANGED script

\* Mutant of DjangoRemovable: the buttons never go.
DjangoRemovableAlways == TRUE

\* toggleDeleteButtonVisibility: at the minimum no row can be removed.
DjangoRemovable == total > MinForms

\* inlineDeleteHandler: count, then number all rows again.
DjangoDelete(i) ==
  /\ DjangoRemovable
  /\ LET rest == RemoveAt(rows, i)
     IN rows' = [j \in DOMAIN rest |-> [rest[j] EXCEPT !.index = j - 1]]
  /\ total' = Len(rows')
  /\ spare' = spare - 1
  /\ addable' = (addable \/ total' < MaxForms)
  /\ UNCHANGED script

(***************************************************************************)
(* Crispy                                                                  *)
(***************************************************************************)
\* crispyFormsetAdd and crispyFormsetToggleAdd.
CrispyAdd(f) ==
  /\ addable
  /\ rows' = Append(rows, Fresh(f, total))
  /\ total' = total + 1
  /\ addable' = (total' < MaxForms)
  /\ UNCHANGED <<script, spare>>

\* How many rows up to position k came from the server, and how many did not.
SavedUpTo(rs, k) == Cardinality({j \in 1..k : rs[j].saved})
NewUpTo(rs, k) == Cardinality({j \in 1..k : ~rs[j].saved})

\* Mutant of Reindexed: the rows are built anew.
ReindexedAnew(rs) ==
  [j \in DOMAIN rs |->
     IF rs[j].saved THEN rs[j]
     ELSE Fresh(rs[j].form, SavedUpTo(rs, Len(rs)) + NewUpTo(rs, j - 1))]

\* crispyFormsetReindex: the rows added on the page are numbered from the count of
\* the original ones.
Reindexed(rs) ==
  [j \in DOMAIN rs |->
     IF rs[j].saved THEN rs[j]
     ELSE [rs[j] EXCEPT !.index = SavedUpTo(rs, Len(rs)) + NewUpTo(rs, j - 1)]]

\* crispyFormsetDelete, whose buttons are on rows that were added on the page.
CrispyDelete(i) ==
  /\ total > MinForms
  /\ rows' = Reindexed(RemoveAt(rows, i))
  /\ total' = total - 1
  /\ addable' = (total' < MaxForms)
  /\ UNCHANGED <<script, spare>>

\* Buttons that delete exist on rows added on the page only; a saved row has a box
\* to tick, which the server reads.
FormsetsNext ==
  \/ \E i \in DOMAIN rows : TypeIn(i)
  \/ \E f \in Forms \ FormsOf(rows) :
       \/ script = "unfold" /\ UnfoldAdd(f)
       \/ script = "django" /\ DjangoAdd(f)
       \/ script = "crispy" /\ CrispyAdd(f)
  \/ \E i \in DOMAIN rows :
       /\ ~rows[i].saved
       /\ \/ script = "unfold" /\ UnfoldDelete(i)
          \/ script = "django" /\ DjangoDelete(i)
          \/ script = "crispy" /\ CrispyDelete(i)

FormsetsSpec == FormsetsInit /\ [][FormsetsNext]_formsetVars

(***************************************************************************)
(* Properties                                                              *)
(***************************************************************************)
\* Rows are rows, and the counters count.
FormsetsTypeOK ==
  /\ script \in Scripts
  /\ rows \in Seq(Row)
  /\ total \in Nat
  /\ spare \in Nat
  /\ addable \in BOOLEAN

\* The numbers in the names run 0, 1, 2, ... down the page and TOTAL_FORMS is how
\* many there are, so that the server reads each row once and in its place, after
\* any mix of adding and deleting.
NumbersRunOn ==
  /\ total = Len(rows)
  /\ \A i \in DOMAIN rows : rows[i].index = i - 1
  /\ script = "django" => spare = total

\* The server's view: the form whose names carry i - 1, for each number it reads.
Posted ==
  [i \in 1..total |->
     rows[CHOOSE j \in DOMAIN rows : rows[j].index = i - 1].form]
Server == INSTANCE FormList WITH list <- Posted

\* Whatever script keeps the numbers, the server sees a list of forms to which one
\* is added at the end or from which one is removed, within the limits.
ServerSeesList == Server!ListSpec

\* Deleting a row keeps what was typed into others: into all of them with Django's
\* and the crispy script, into those above with Unfold's.
TypedStays ==
  [][\A i \in DOMAIN rows :
       (rows[i].typed /\ rows[i].form \in FormsOf(rows'))
         => \/ \E j \in DOMAIN rows' : rows'[j].form = rows[i].form /\ rows'[j].typed
            \/ /\ script = "unfold"
               /\ \E j \in DOMAIN rows' : rows'[j] = Renamed(i)
               /\ Len(rows') < Len(rows)]_formsetVars
================================================================================
