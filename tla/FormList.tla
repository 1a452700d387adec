--------------------------------- MODULE FormList ---------------------------------
(***************************************************************************)
(* What an inline formset promises its server: an ordered list of forms,   *)
(* to which a form is added at the end and from which one is removed, the  *)
(* others staying in order. The server reads it by number, as              *)
(* <prefix>-0-..., <prefix>-1-..., up to TOTAL_FORMS.                       *)
(***************************************************************************)
EXTENDS Naturals, Sequences, SequencesExt

CONSTANTS
  Forms,    \* the forms there can be
  MinForms, \* MIN_NUM_FORMS
  MaxForms  \* MAX_NUM_FORMS

VARIABLE list

ListInit == list \in Seq(Forms) /\ IsInjective(list)

AddForm ==
  /\ Len(list) < MaxForms
  /\ \E f \in Forms \ Range(list) : list' = Append(list, f)

RemoveForm ==
  /\ Len(list) > MinForms
  /\ \E i \in DOMAIN list : list' = RemoveAt(list, i)

ListSpec == ListInit /\ [][AddForm \/ RemoveForm]_list
================================================================================
