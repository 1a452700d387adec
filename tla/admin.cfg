SPECIFICATION AdminSpec
CONSTANTS
  optA = optA
  optB = optB
  optNew = optNew
  empty = empty
  short = short
  OptionList <- Listed
  NewOptions = {optNew}
  Grouped = {optB}
  Texts = {empty, short}
  Blank = empty
  Matches <- Matching
  RowCount = 3
  Forms = {r1, r2, r3, r4}
  MinForms = 1
  MaxForms = 3
  Months <- MonthsSeen
  DaysTried = {29}
  TypedDates <- DatesTyped
  FirstToday <- Loaded
  FirstDayOfWeek = 6
  MaxNights = 1
  Fields = {f, g}
  MaxWindows = 3
  Objects = {x}
  None = None
  MaxRenders = 1
  Tabs = {t1, t2}
  Links = {l1, l2, l3}
  HistoryLimit = 2
  MaxResults = 1
  Claims = {c1, c2}
  Operators = {p1, p2}
  MaxMoves = 2
  MaxApprovals = 2
  Codes = {k1, k2}
  Workers = {w1, w2}
  MaxVersion = 2
  ConfigValues = {low, Default}
  Default = Default
  Ids = {i1, i2}
  Threads = {h1, h2}
  MaxRevision = 2
SYMMETRY AdminSymmetry
INVARIANTS
  AdminTypeOK
  OptionsConserved
  SubmitsAllChosen
  ActionMatchesBar
  NumbersRunOn
  SheetIsMonth
  OpenDialogIsCurrent
  EveryPopupHasItsAsker
  LinksFollowChoice
  HistoryDistinct
  RefundsBooked
  CodeSetsOnePassword
  SettingsAreCurrent
PROPERTIES
  HiddenStays
  ServerSeesList
  TypedStays
  OthersEntriesStay
