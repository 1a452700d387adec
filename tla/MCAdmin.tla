---------------------------------- MODULE MCAdmin ----------------------------------
(***************************************************************************)
(* An instance for TLC of the widgets of the admin's pages, and of three   *)
(* desks of the server behind them: the refund queue, password resets and  *)
(* the run-time settings.                                                  *)
(* The user works on one page.  Different pages share no state, so each    *)
(* is checked in all its states, and those of the others are as they are   *)
(* when a page is loaded.                                                   *)
(***************************************************************************)
EXTENDS SelectFilter, Changelist, Formsets, DatePicker, Popups, CommandMenu,
        Refunds, Resets, RuntimeConfig

VARIABLE page

AdminVars == <<page, selectVars, changelistVars, formsetVars, pickerVars, popupVars,
               commandVars, refundVars, resetVars, configVars>>
\* The variables of the pages, by the page they are of.
WidgetVars == <<selectVars, changelistVars, formsetVars, pickerVars, popupVars, commandVars>>
DeskVars == <<refundVars, resetVars, configVars>>

CONSTANTS optA, optB, optNew, empty, short \* options, and texts for the filters

Listed == <<optA, optB>>
Matching == (empty :> {optA, optB, optNew}) @@ (short :> {optA})

\* Months around leap days, a century that has none, and a turn of the year.
MonthsSeen == {<<1900, 2>>, <<1999, 12>>, <<2000, 1>>, <<2000, 2>>, <<2024, 2>>, <<2024, 3>>}
DatesTyped == {<<1900, 2, 28>>, <<1999, 12, 31>>, <<2000, 2, 31>>}
Loaded == <<2024, 2, 28>>

\* Captured payments of orders that are on their way, or were refused.
PaidAt == {"picked", "rejected", "failed_payment"}

\* The page of a formset that nobody looks at.
PlainPage ==
  /\ script = "unfold"
  /\ rows = [i \in 1..MinForms |-> Fresh(CHOOSE f \in Forms : TRUE, i - 1)]

AdminInit ==
  /\ page \in {"select", "changelist", "formset", "dates", "popups", "command",
              "refunds", "resets", "settings"}
  /\ SelectInit /\ (page # "select" => cache["to"] = <<>>)
  /\ ChangelistInit
  /\ FormsetsInit /\ (page # "formset" => PlainPage)
  /\ DatePickerInit /\ (page # "dates" => version = "form" /\ value = Empty)
  /\ PopupsInit /\ (page # "popups" => exist = {})
  /\ CommandMenuInit
  /\ RefundsInit /\ status \in (IF page = "refunds" THEN PaidAt ELSE {"placed"})
  /\ ResetsInit
  /\ RuntimeConfigInit

AdminNext ==
  /\ UNCHANGED page
  /\ \/ /\ page = "select" /\ SelectNext
        /\ UNCHANGED <<changelistVars, formsetVars, pickerVars, popupVars, commandVars, DeskVars>>
     \/ /\ page = "changelist" /\ ChangelistNext
        /\ UNCHANGED <<selectVars, formsetVars, pickerVars, popupVars, commandVars, DeskVars>>
     \/ /\ page = "formset" /\ FormsetsNext
        /\ UNCHANGED <<selectVars, changelistVars, pickerVars, popupVars, commandVars, DeskVars>>
     \/ /\ page = "dates" /\ DatePickerNext
        /\ UNCHANGED <<selectVars, changelistVars, formsetVars, popupVars, commandVars, DeskVars>>
     \/ /\ page = "popups" /\ PopupsNext
        /\ UNCHANGED <<selectVars, changelistVars, formsetVars, pickerVars, commandVars, DeskVars>>
     \/ /\ page = "command" /\ CommandMenuNext
        /\ UNCHANGED <<selectVars, changelistVars, formsetVars, pickerVars, popupVars, DeskVars>>
     \/ page = "refunds" /\ RefundsNext /\ UNCHANGED <<WidgetVars, resetVars, configVars>>
     \/ page = "resets" /\ ResetsNext /\ UNCHANGED <<WidgetVars, refundVars, configVars>>
     \/ page = "settings" /\ RuntimeConfigNext /\ UNCHANGED <<WidgetVars, refundVars, resetVars>>

AdminSpec == AdminInit /\ [][AdminNext]_AdminVars

\* The pages that are found are interchangeable.
AdminSymmetry == Permutations(Links)

\* The state of every page and desk has its type.
AdminTypeOK ==
  /\ SelectTypeOK
  /\ ChangelistTypeOK
  /\ FormsetsTypeOK
  /\ DatePickerTypeOK
  /\ PopupsTypeOK
  /\ CommandMenuTypeOK
  /\ RefundsTypeOK
  /\ ResetsTypeOK
  /\ RuntimeConfigTypeOK
================================================================================
