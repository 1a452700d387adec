------------------------------- MODULE SelectFilter -------------------------------
(***************************************************************************)
(* The two-box selector of the admin (SelectBox.js, SelectFilter2.js): the *)
(* options of a many-to-many field, those available in one box and those  *)
(* chosen in the other, each box behind a text filter.                     *)
(*                                                                         *)
(* Each handler runs to its end before the next event. What is free is the *)
(* order of events: a key goes down, text appears, and the handler that    *)
(* filters waits for the key to come up; the mouse may act in between.     *)
(***************************************************************************)
EXTENDS Naturals, Sequences, SequencesExt, Lists

CONSTANTS
  OptionList,  \* the field's options, in the order the server lists them
  NewOptions,  \* objects that a popup may create and add to the chosen ones
  Grouped,     \* options inside an <optgroup>
  Texts,       \* what may be typed into a filter
  Blank,       \* the empty text
  Matches      \* for each text, the options whose label has all its words

SelectAssumption ==
  /\ Blank \in Texts
  /\ Matches \in [Texts -> SUBSET (Range(OptionList) \cup NewOptions)]
  /\ Matches[Blank] = Range(OptionList) \cup NewOptions
  /\ OptionList \in Seq(Range(OptionList)) /\ IsInjective(OptionList)
  /\ IsFiniteSet(NewOptions)
  /\ NewOptions \cap Range(OptionList) = {}
ASSUME SelectAssumption

Options == Range(OptionList) \cup NewOptions
Sides == {"from", "to"}
Other(s) == IF s = "from" THEN "to" ELSE "from"

VARIABLES
  cache,     \* SelectBox.cache of both boxes
  marked,    \* the highlighted options of both boxes
  text,      \* what stands in both filter inputs
  buttons,   \* the enabled ones of the four buttons
  announced, \* the number in "%s selected options not visible"
  keyDown,   \* the filters whose input has a key down
  submitted  \* whether the form is on its way to the server

selectVars == <<cache, marked, text, buttons, announced, keyDown, submitted>>

(***************************************************************************)
(* SelectBox                                                               *)
(***************************************************************************)
Values(seq) == {seq[i].value : i \in DOMAIN seq}

\* The <option>s of a box are the displayed entries of its cache: every method
\* that writes a cache ends with redisplay().
Displayed(seq) == Kept(seq, {i \in DOMAIN seq : seq[i].displayed})
Shown(c, s) == [i \in DOMAIN Displayed(c[s]) |-> Displayed(c[s])[i].value]

Hidden(c, s) == Len(c[s]) - Len(Displayed(c[s]))

Filtered(seq, t) ==
  [i \in DOMAIN seq |-> [seq[i] EXCEPT !.displayed = seq[i].value \in Matches[t]]]

Entry(o) == [value |-> o, displayed |-> TRUE]

\* Mutant of DeleteFromCache: the position is not looked up.
DeleteFromCacheFirst(seq, o) == IF seq = <<>> THEN seq ELSE Tail(seq)

\* splice(null, 1) removes the first entry if the value is not there.
DeleteFromCache(seq, o) ==
  IF seq = <<>> THEN seq
  ELSE RemoveAt(seq, IF o \in Values(seq)
                     THEN CHOOSE i \in DOMAIN seq :
                            /\ seq[i].value = o
                            /\ \A j \in 1..(i - 1) : seq[j].value # o
                     ELSE 1)

\* The order of the labels.
Place ==
  LET all == OptionList \o SetToSeq(NewOptions)
  IN [o \in Options |-> CHOOSE i \in DOMAIN all : all[i] = o]

\* Sorted by group, then label, once an option of the box has a group.
Before(a, b) ==
  \/ a.value \notin Grouped /\ b.value \in Grouped
  \/ /\ a.value \in Grouped <=> b.value \in Grouped
     /\ Place[a.value] < Place[b.value]
Sorted(seq) ==
  LET Earlier(i) ==
        {j \in DOMAIN seq : IF j < i THEN ~Before(seq[i], seq[j]) ELSE Before(seq[j], seq[i])}
  IN IF Values(seq) \cap Grouped = {} THEN seq
     ELSE [n \in DOMAIN seq |->
             seq[CHOOSE i \in DOMAIN seq : Cardinality(Earlier(i)) + 1 = n]]

MoveOne(c, s, o) ==
  IF o \in Values(c[s])
  THEN [c EXCEPT ![Other(s)] = Append(@, Entry(o)), ![s] = DeleteFromCache(@, o)]
  ELSE c

MoveAll(c, s, going) ==
  LET after[n \in 0..Len(going)] ==
        IF n = 0 THEN c ELSE MoveOne(after[n - 1], s, going[n])
  IN after[Len(going)]

\* The values in S of a list.
Among(values, S) == Kept(values, {i \in DOMAIN values : values[i] \in S})

\* Mutant of Moved: the cache is moved, and not the <option>s.
MovedUnseen(c, s, S) ==
  LET after == MoveAll(c, s, Among([i \in DOMAIN c[s] |-> c[s][i].value], S))
  IN [after EXCEPT ![Other(s)] = Sorted(@)]

\* move() and move_all(): the <option>s of box s that are in S go to the other box.
Moved(c, s, S) ==
  LET after == MoveAll(c, s, Among(Shown(c, s), S))
  IN [after EXCEPT ![Other(s)] = Sorted(@)]

(***************************************************************************)
(* SelectFilter                                                            *)
(***************************************************************************)
\* selectedIndex, counted from 1 and 0 when nothing is highlighted.
SelectedIndex(c, s) ==
  LET at == {i \in DOMAIN Shown(c, s) : Shown(c, s)[i] \in marked[s]}
  IN IF at = {} THEN 0 ELSE CHOOSE i \in at : \A j \in at : i <= j
MarkAt(c, s, i) == IF i \in DOMAIN Shown(c, s) THEN {Shown(c, s)[i]} ELSE {}

\* refresh_icons: which buttons may be clicked.
Enabled(c, m) ==
  (IF m["from"] # {} THEN {"add"} ELSE {})
    \cup (IF m["to"] # {} THEN {"remove"} ELSE {})
    \cup (IF Shown(c, "from") # <<>> THEN {"add_all"} ELSE {})
    \cup (IF Shown(c, "to") # <<>> THEN {"remove_all"} ELSE {})

\* refresh_filtered_selects: both boxes by what stands in their inputs.
Refiltered(c) == [s \in Sides |-> Filtered(c[s], text[s])]

Nothing == [s \in Sides |-> {}]

\* The page as the server sends it, with the options in chosen selected and those
\* in made listed too: SelectBox.init of both boxes, the move of the selected ones.
Page(made, chosen) ==
  LET listed == OptionList \o SetToSeq(made)
      Box(s) == Kept(listed, {i \in DOMAIN listed : listed[i] \in chosen <=> s = "to"})
  IN [s \in Sides |-> [i \in DOMAIN Box(s) |-> Entry(Box(s)[i])]]

Opened(c) ==
  /\ cache = c
  /\ marked = Nothing
  /\ text = [s \in Sides |-> Blank]
  /\ buttons = Enabled(c, Nothing)
  /\ announced = 0
  /\ keyDown = {}
  /\ submitted = FALSE

SelectInit == \E chosen \in SUBSET Range(OptionList) : Opened(Page({}, chosen))

\* A click or Shift-click in a box, and the "change" event.
Mark(s, S) ==
  /\ S \subseteq Range(Shown(cache, s))
  /\ marked' = [marked EXCEPT ![s] = S]
  /\ buttons' = Enabled(cache, marked')
  /\ UNCHANGED <<cache, text, announced, keyDown, submitted>>

\* move_selection: the icons are refreshed before the boxes are filtered again.
Press(b, s, S) ==
  /\ b \in buttons
  /\ LET after == Moved(cache, s, S)
     IN /\ cache' = Refiltered(after)
        /\ buttons' = Enabled(after, Nothing)
        /\ announced' = Hidden(Refiltered(after), "to")
  /\ marked' = Nothing
  /\ UNCHANGED <<text, keyDown, submitted>>

PressButton ==
  \/ Press("add", "from", marked["from"])
  \/ Press("remove", "to", marked["to"])
  \/ Press("add_all", "from", Options)
  \/ Press("remove_all", "to", Options)

\* A double click moves what is highlighted, without filtering again.
DoubleClick(s) ==
  /\ marked[s] # {}
  /\ cache' = Moved(cache, s, marked[s])
  /\ marked' = Nothing
  /\ buttons' = Enabled(cache', Nothing)
  /\ UNCHANGED <<text, announced, keyDown, submitted>>

\* The warning "n selected options not visible" is clicked.
ClearWarning ==
  /\ announced > 0
  /\ text' = [text EXCEPT !["to"] = Blank]
  /\ cache' = [cache EXCEPT !["to"] = Filtered(@, Blank)]
  /\ marked' = [marked EXCEPT !["to"] = {}]
  /\ buttons' = Enabled(cache', marked')
  /\ announced' = Hidden(cache', "to")
  /\ UNCHANGED <<keyDown, submitted>>

\* A key that changes the text; what it filters waits for KeyUp.
Type(s, t) ==
  /\ text' = [text EXCEPT ![s] = t]
  /\ keyDown' = keyDown \cup {s}
  /\ UNCHANGED <<cache, marked, buttons, announced, submitted>>

\* filter_key_press, Enter: the first <option> moves, whatever was highlighted.
Enter(s) ==
  /\ cache' = Moved(cache, s, MarkAt(cache, s, 1))
  /\ marked' = [Nothing EXCEPT ![s] = MarkAt(cache', s, 1)]
  /\ keyDown' = keyDown \cup {s}
  /\ UNCHANGED <<text, buttons, announced, submitted>>

\* filter_key_down, the arrow towards the other box.
ArrowAcross(s) ==
  LET after == Refiltered(Moved(cache, s, marked[s]))
      old == SelectedIndex(cache, s)
  IN /\ cache' = after
     /\ announced' = Hidden(after, "to")
     /\ marked' = [Nothing EXCEPT
          ![s] = MarkAt(after, s, IF old = Len(Shown(after, s)) + 1 THEN old - 1 ELSE old)]
     /\ keyDown' = keyDown \cup {s}
     /\ UNCHANGED <<text, buttons, submitted>>

\* filter_key_down, down and up: the highlight wraps around. Up from no highlight
\* leaves none.
ArrowAlong(s) ==
  LET now == SelectedIndex(cache, s)
      size == Len(Shown(cache, s))
  IN /\ \E next \in {IF now = size THEN 1 ELSE now + 1,
                     IF now = 1 THEN size ELSE IF now = 0 THEN 0 ELSE now - 1} :
          marked' = [marked EXCEPT ![s] = MarkAt(cache, s, next)]
     /\ keyDown' = keyDown \cup {s}
     /\ UNCHANGED <<cache, text, buttons, announced, submitted>>

\* filter_key_up: filter by the text, keeping the highlighted position.
KeyUp(s) ==
  /\ s \in keyDown
  /\ keyDown' = keyDown \ {s}
  /\ cache' = [cache EXCEPT ![s] = Filtered(@, text[s])]
  /\ marked' = [marked EXCEPT ![s] = MarkAt(cache', s, SelectedIndex(cache, s))]
  /\ announced' = Hidden(cache', "to")
  /\ buttons' = Enabled(cache', marked')
  /\ UNCHANGED <<text, submitted>>

\* An object is created in a popup: of this field, which chooses it, or of a plain
\* select that refers to the same objects, which makes it available here. Nothing
\* else is refreshed.
AddRelated(s, o) ==
  /\ o \notin Values(cache["from"]) \cup Values(cache["to"])
  /\ cache' = [cache EXCEPT ![s] = Append(@, Entry(o))]
  /\ marked' = [marked EXCEPT ![s] = {}]
  /\ UNCHANGED <<text, buttons, announced, keyDown, submitted>>

\* Mutant of Submit: the filter is not taken back.
SubmitFiltered ==
  /\ marked' = [marked EXCEPT !["to"] = Range(Shown(cache, "to"))]
  /\ submitted' = TRUE
  /\ UNCHANGED <<cache, text, buttons, announced, keyDown>>

\* The form is submitted. select_all highlights every <option> of the chosen box,
\* and what is highlighted is what the browser sends.
Submit ==
  /\ cache' = [cache EXCEPT !["to"] = Filtered(@, Blank)]
  /\ marked' = [marked EXCEPT !["to"] = Range(Shown(cache', "to"))]
  /\ submitted' = TRUE
  /\ UNCHANGED <<text, buttons, announced, keyDown>>

\* The server saves and sends the form again.
Reopen ==
  /\ submitted
  /\ LET c == Page(NewOptions \cap (Values(cache["from"]) \cup Values(cache["to"])),
                   marked["to"])
     IN /\ cache' = c
        /\ buttons' = Enabled(c, Nothing)
  /\ marked' = Nothing
  /\ text' = [s \in Sides |-> Blank]
  /\ announced' = 0
  /\ keyDown' = {}
  /\ submitted' = FALSE

SelectNext ==
  \/ /\ ~submitted
     /\ \/ \E s \in Sides :
             \/ \E S \in SUBSET Options : Mark(s, S)
             \/ DoubleClick(s)
             \/ \E t \in Texts : Type(s, t)
             \/ Enter(s)
             \/ ArrowAcross(s)
             \/ ArrowAlong(s)
             \/ KeyUp(s)
             \/ \E o \in NewOptions : AddRelated(s, o)
        \/ PressButton
        \/ ClearWarning
        \/ Submit
  \/ Reopen

SelectSpec == SelectInit /\ [][SelectNext]_selectVars

(***************************************************************************)
(* Properties                                                              *)
(***************************************************************************)
\* Caches hold options with a flag, highlights are visible options, and the rest
\* of the widget's state has its type.
SelectTypeOK ==
  /\ cache \in [Sides -> Seq([value : Options, displayed : BOOLEAN])]
  /\ \A s \in Sides : marked[s] \subseteq Range(Shown(cache, s))
  /\ text \in [Sides -> Texts]
  /\ buttons \subseteq {"add", "remove", "add_all", "remove_all"}
  /\ announced \in 0..Len(cache["to"])
  /\ keyDown \subseteq Sides
  /\ submitted \in BOOLEAN

\* However buttons, double clicks, keys and filters are mixed, no option gets lost
\* and none is listed twice (SelectBox.move, delete_from_cache).
OptionsConserved ==
  LET both == cache["from"] \o cache["to"]
  IN /\ Range(OptionList) \subseteq Values(both)
     /\ Len(both) = Cardinality(Values(both))

\* What the form sends is everything in the chosen box, the options that the
\* filter hides included (the submit handler of SelectFilter.init).
SubmitsAllChosen ==
  submitted => marked["to"] = Values(cache["to"])

\* An option that the filter hides from the user never changes sides.
HiddenStays ==
  [][\A s \in Sides : \A i \in DOMAIN cache[s] :
       ~cache[s][i].displayed => cache[s][i].value \in Values(cache'[s])]_selectVars
================================================================================
