-------------------------------- MODULE DatePicker --------------------------------
(***************************************************************************)
(* The date and time fields of the admin with the calendar and the clock   *)
(* they open: calendar.js, and DateTimeShortcuts.js in two versions, the    *)
(* one of forms (modal dialogs with arrow keys and spoken labels) and the  *)
(* one of the list filters (boxes that a click elsewhere closes).          *)
(***************************************************************************)
EXTENDS Integers

CONSTANTS
  Months,     \* the months the user looks at, <<year, month>> (a bound)
  DaysTried,  \* the days of a month that are picked (a bound)
  TypedDates, \* dates typed by hand, <<year, month, day>>, the day up to 31
  FirstToday, \* the day the page is loaded
  FirstDayOfWeek, \* the locale's, 0 for Sunday
  MaxNights   \* how many midnights the page stays open (a bound)

Empty == <<>>
Garbled == <<"garbled">>
NoDate == <<>>
MonthOf(date) == <<date[1], date[2]>>

(***************************************************************************)
(* JavaScript's Date, by counting days from Monday 1 January of the year 1. *)
(***************************************************************************)
YearStart(y) == 365 * (y - 1) + (y - 1) \div 4 - (y - 1) \div 100 + (y - 1) \div 400
DaysBefore == <<0, 31, 59, 90, 120, 151, 181, 212, 243, 273, 304, 334>>
MonthStart(m) ==
  YearStart(m[1]) + DaysBefore[m[2]]
    + (IF m[2] > 2 /\ YearStart(m[1] + 1) - YearStart(m[1]) = 366 THEN 1 ELSE 0)
Weekday(n) == (n + 1) % 7

(***************************************************************************)
(* CalendarNamespace and Calendar                                          *)
(***************************************************************************)
\* Mutant of IsLeapYear: the century rule without its exception.
IsLeapYearOfCentury(y) == y % 4 = 0 /\ y % 100 # 0
IsLeapYear(y) == (y % 4 = 0 /\ y % 100 # 0) \/ y % 400 = 0
DaysInMonth(m) ==
  CASE m[2] \in {1, 3, 5, 7, 8, 10, 12} -> 31
    [] m[2] \in {4, 6, 9, 11} -> 30
    [] m[2] = 2 /\ IsLeapYear(m[1]) -> 29
    [] OTHER -> 28

\* What is typed may be a 31 February; today is a day there is.
DatePickerAssumption ==
  /\ FirstDayOfWeek \in 0..6
  /\ MaxNights \in Nat
  /\ TypedDates \cup {FirstToday} \subseteq Int \X (1..12) \X (1..31)
  /\ FirstToday[3] <= DaysInMonth(MonthOf(FirstToday))
ASSUME DatePickerAssumption

PreviousMonth(m) == IF m[2] = 1 THEN <<m[1] - 1, 12>> ELSE <<m[1], m[2] - 1>>
NextMonth(m) == IF m[2] = 12 THEN <<m[1] + 1, 1>> ELSE <<m[1], m[2] + 1>>

\* draw: the cell of the first day, counted from 0, in weeks that begin with the
\* locale's first day. Date takes a day before the first as one of the month before.
StartingPos(m) == Weekday(MonthStart(m) + (1 - FirstDayOfWeek) - 1)
ColumnOf(start, day) == (start + day - 1) % 7
HeaderOf(column) == (column + FirstDayOfWeek) % 7

\* The date a day beside a month stands for (Date.UTC, setDate).
Normalised(m, day) ==
  LET n == MonthStart(m) + day - 1
      in == CHOOSE x \in {PreviousMonth(m), m, NextMonth(m)} :
              MonthStart(x) <= n /\ n < MonthStart(NextMonth(x))
  IN <<in[1], in[2], n - MonthStart(in) + 1>>

VARIABLES
  version,      \* "form" or "filter"
  value,        \* what stands in the date input
  shown,        \* the month on the sheet, and the day that was today when it was drawn
  selected,     \* Calendar.selected
  calendarOpen,
  focusDay,     \* the day link that has the keyboard, 0 if none
  navLabels,    \* the months that the labels of the two arrows name
  clockOpen,    \* the clock; nothing depends on the hour in the time input
  today,
  nights

pickerVars == <<version, value, shown, selected, calendarOpen, focusDay, navLabels,
                clockOpen, today, nights>>

Sheet(m) == [month |-> m, today |-> today]

\* updateNavAriaLabels, by the names' positions in the year.
Labels(m) ==
  << <<IF m[2] = 1 THEN m[1] - 1 ELSE m[1], ((m[2] + 10) % 12) + 1>>,
     <<IF m[2] = 12 THEN m[1] + 1 ELSE m[1], (m[2] % 12) + 1>> >>

\* addCalendar: today's sheet, in a box that is closed.
AddCalendar ==
  /\ shown = Sheet(MonthOf(today))
  /\ selected = NoDate
  /\ calendarOpen = FALSE
  /\ focusDay = 0
  /\ navLabels = <<>>

AddClock == clockOpen = FALSE

DatePickerInit ==
  /\ version \in {"form", "filter"}
  /\ value \in TypedDates \cup {Empty}
  /\ today = FirstToday
  /\ nights = 0
  /\ AddCalendar
  /\ AddClock

\* A modal dialog keeps the rest of the page out of reach.
PageInReach == version = "filter" \/ (~calendarOpen /\ ~clockOpen)

\* The keyboard reaches the input of a filter even while its calendar is open.
TypeDate(v) ==
  /\ PageInReach
  /\ value' = v
  /\ UNCHANGED <<version, shown, selected, calendarOpen, focusDay, navLabels, clockOpen,
                 today, nights>>

\* openCalendar: the sheet of the input's date if strptime makes one of it, else
\* the sheet as it was. The form's version puts the focus on the selected day, on
\* today or on the first.
OpenCalendar ==
  /\ PageInReach
  /\ LET isDate == value \notin {Empty, Garbled}
         date == Normalised(MonthOf(value), value[3])
     IN /\ shown' = IF isDate THEN Sheet(MonthOf(date)) ELSE shown
        /\ selected' = IF isDate THEN date ELSE selected
  /\ calendarOpen' = TRUE
  /\ IF version = "form"
     THEN /\ navLabels' = Labels(shown'.month)
          /\ focusDay' = IF selected' # NoDate /\ MonthOf(selected') = shown'.month
                         THEN selected'[3]
                         ELSE IF MonthOf(shown'.today) = shown'.month
                              THEN shown'.today[3] ELSE 1
     ELSE UNCHANGED <<navLabels, focusDay>>
  /\ UNCHANGED <<version, value, clockOpen, today, nights>>

\* drawPrev, drawNext. The links on the sheet are new, so none has the focus.
Turn(m) ==
  /\ calendarOpen
  /\ m \in Months
  /\ shown' = Sheet(m)
  /\ navLabels' = IF version = "form" THEN Labels(m) ELSE navLabels
  /\ focusDay' = 0
  /\ UNCHANGED <<version, value, selected, calendarOpen, clockOpen, today, nights>>

DrawPrev == Turn(PreviousMonth(shown.month))
DrawNext == Turn(NextMonth(shown.month))

\* Mutant of ArrowKey: a bound too wide by one.
ArrowKeyBeyond(step) ==
  /\ version = "form" /\ calendarOpen
  /\ IF focusDay = 0 THEN focusDay' = 1
     ELSE /\ focusDay + step \in 1..(DaysInMonth(shown.month) + 1)
          /\ focusDay' = focusDay + step
  /\ UNCHANGED <<version, value, shown, selected, calendarOpen, navLabels, clockOpen,
                 today, nights>>

\* The arrow keys of the form's dialog; Tab may put the focus on the first day.
ArrowKey(step) ==
  /\ version = "form" /\ calendarOpen
  /\ IF focusDay = 0 THEN focusDay' = 1
     ELSE /\ focusDay + step \in 1..DaysInMonth(shown.month)
          /\ focusDay' = focusDay + step
  /\ UNCHANGED <<version, value, shown, selected, calendarOpen, navLabels, clockOpen,
                 today, nights>>

Shut == calendarOpen' = FALSE /\ focusDay' = 0

\* handleCalendarCallback: a day of the sheet, by mouse or by Enter.
PickDay(day) ==
  /\ calendarOpen
  /\ day \in 1..DaysInMonth(shown.month)
  /\ value' = <<shown.month[1], shown.month[2], day>>
  /\ Shut
  /\ UNCHANGED <<version, shown, selected, navLabels, clockOpen, today, nights>>

\* Mutant of QuickLink: the dialog stays.
QuickLinkStays(offset) ==
  /\ calendarOpen \/ (offset = 0 /\ PageInReach)
  /\ value' = Normalised(MonthOf(today), today[3] + offset)
  /\ UNCHANGED <<version, shown, selected, calendarOpen, focusDay, navLabels, clockOpen,
                 today, nights>>

\* handleCalendarQuickLink: today's link stands beside the input too.
QuickLink(offset) ==
  /\ calendarOpen \/ (offset = 0 /\ PageInReach)
  /\ value' = Normalised(MonthOf(today), today[3] + offset)
  /\ Shut
  /\ UNCHANGED <<version, shown, selected, navLabels, clockOpen, today, nights>>

\* The cancel link, or a click elsewhere in the filter's version.
DismissCalendar ==
  /\ calendarOpen
  /\ Shut
  /\ UNCHANGED <<version, value, shown, selected, navLabels, clockOpen, today, nights>>

OpenClock ==
  /\ PageInReach
  /\ clockOpen' = TRUE
  /\ UNCHANGED <<version, value, shown, selected, calendarOpen, focusDay, navLabels,
                 today, nights>>

\* handleClockQuicklink; "Now" stands beside the input too.
PickHour ==
  /\ clockOpen \/ PageInReach
  /\ clockOpen' = FALSE
  /\ UNCHANGED <<version, value, shown, selected, calendarOpen, focusDay, navLabels,
                 today, nights>>

DismissClock ==
  /\ clockOpen
  /\ clockOpen' = FALSE
  /\ UNCHANGED <<version, value, shown, selected, calendarOpen, focusDay, navLabels,
                 today, nights>>

\* Every picker on the page listens to Escape.
Escape ==
  /\ Shut
  /\ clockOpen' = FALSE
  /\ UNCHANGED <<version, value, shown, selected, navLabels, today, nights>>

\* A row is added to a formset: init gives every field of the page new pickers.
Reinit ==
  /\ version = "form" /\ PageInReach
  /\ shown' = Sheet(MonthOf(today))
  /\ selected' = NoDate
  /\ navLabels' = <<>>
  /\ UNCHANGED <<version, value, calendarOpen, focusDay, clockOpen, today, nights>>

Midnight ==
  /\ nights < MaxNights
  /\ nights' = nights + 1
  /\ today' = Normalised(MonthOf(today), today[3] + 1)
  /\ UNCHANGED <<version, value, shown, selected, calendarOpen, focusDay, navLabels,
                 clockOpen>>

DatePickerNext ==
  \/ \E v \in TypedDates \cup {Empty, Garbled} : TypeDate(v)
  \/ OpenCalendar
  \/ DrawPrev
  \/ DrawNext
  \/ \E step \in {-7, -1, 1, 7} : ArrowKey(step)
  \/ \E day \in DaysTried : PickDay(day)
  \/ \E offset \in -1..1 : QuickLink(offset)
  \/ DismissCalendar
  \/ OpenClock
  \/ PickHour
  \/ DismissClock
  \/ Escape
  \/ Reinit
  \/ Midnight

DatePickerSpec == DatePickerInit /\ [][DatePickerNext]_pickerVars

(***************************************************************************)
(* Properties                                                              *)
(***************************************************************************)
\* The sheet and the mark show dates there are, the focus is on a day of the sheet.
DatePickerTypeOK ==
  /\ version \in {"form", "filter"}
  /\ value \in {Empty, Garbled} \/ (value[2] \in 1..12 /\ value[3] \in 1..31)
  /\ shown.month[2] \in 1..12
  /\ selected = NoDate \/ selected[3] \in 1..DaysInMonth(MonthOf(selected))
  /\ calendarOpen \in BOOLEAN
  /\ focusDay \in 0..DaysInMonth(shown.month)
  /\ navLabels = <<>> \/ \A i \in 1..2 : navLabels[i][2] \in 1..12
  /\ clockOpen \in BOOLEAN
  /\ today[3] \in 1..DaysInMonth(MonthOf(today))
  /\ nights \in 0..MaxNights

\* A click writes the date it seems to: the sheet has all days of its month, each
\* under its weekday, whatever the locale's first day, in leap years, at the turn
\* of the year and of the century (getDaysInMonth and draw, against the day count).
SheetIsMonth ==
  LET first == MonthStart(shown.month)
      start == StartingPos(shown.month)
  IN /\ first + DaysInMonth(shown.month) = MonthStart(NextMonth(shown.month))
     /\ \A day \in 1..DaysInMonth(shown.month) :
          HeaderOf(ColumnOf(start, day)) = Weekday(first + day - 1)

\* While the form's dialog is open, the arrows are labelled with the months they lead
\* to, and the mark is the input's date whenever it holds one, and not one that an
\* earlier date left (with an empty or garbled input an old mark may stay).
OpenDialogIsCurrent ==
  (version = "form" /\ calendarOpen) =>
    /\ value \notin {Empty, Garbled}
         => selected = Normalised(MonthOf(value), value[3])
    /\ navLabels = <<PreviousMonth(shown.month), NextMonth(shown.month)>>
================================================================================
