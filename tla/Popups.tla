---------------------------------- MODULE Popups ----------------------------------
(***************************************************************************)
(* The admin's popups (RelatedObjectLookups.js): a select field lets the   *)
(* user add, change or delete the object it refers to in a window of its   *)
(* own, whose form may open further ones. A window's name says which field *)
(* asked for it and how deep it is; asking again by the same name takes    *)
(* the window over. Of the main page the select fields are modelled, too.  *)
(***************************************************************************)
EXTENDS Naturals, FiniteSets, Functions

CONSTANTS
  Fields,     \* the ids of the select fields, the same on every page
  MaxWindows, \* how many popups are ever opened (a bound)
  Objects,    \* what the fields refer to
  None,       \* the blank choice
  MaxRenders  \* how often pages are rendered again (a bound)

PopupsAssumption ==
  /\ MaxWindows \in Nat
  /\ None \notin Objects
  /\ MaxRenders \in Nat
ASSUME PopupsAssumption

\* Windows are numbered as they are opened.
Handles == 1..MaxWindows
Main == 0

VARIABLES
  windows,  \* the popups that are open
  opened,   \* how many there have been
  info,     \* the open ones' name, opener and purpose
  related,  \* relatedWindows of every open window; closed ones are passed over
  render,   \* which rendering of its page an open window shows
  renders,
  exist,    \* the objects in the database
  options,  \* main page: what each select offers,
  chosen,   \* ... what is selected
  linked    \* ... and the object its change and delete links lead to

popupVars == <<windows, opened, info, related, render, renders, exist, options,
               chosen, linked>>
pageVars == <<exist, options, chosen, linked>>

Kinds == {"add", "change", "delete"}
Info == [field : Fields, level : Nat, opener : Handles \cup {Main}, asked : Nat,
         kind : Kinds, object : Objects \cup {None}]

\* popupIndex, from the end of the window's name.
PopupIndex(w) == IF w = Main THEN 0 ELSE info[w].level

PopupsInit ==
  /\ windows = {}
  /\ opened = 0
  /\ info = [h \in {} |-> {}]
  /\ related = [w \in {Main} |-> {}]
  /\ render = [w \in {Main} |-> 0]
  /\ renders = 0
  /\ exist \in SUBSET Objects
  /\ options = [f \in Fields |-> exist]
  /\ chosen \in [Fields -> exist \cup {None}]
  /\ linked = chosen

\* The windows that dismissChildPopups of w closes: those it has opened, and what
\* these have opened in turn.
Children(w) ==
  LET within[n \in 0..Cardinality(Handles)] ==
        IF n = 0 THEN related[w] \cap windows
        ELSE within[n - 1] \cup UNION {related[x] \cap windows : x \in within[n - 1]}
  IN within[Cardinality(Handles)]

Named(f, level) == {h \in windows : info[h].field = f /\ info[h].level = level}

\* showAdminPopup, by the browser's window.open: a window of that name is navigated,
\* which unloads its page, and has a new opener from then on.
Show(w, f, kind, object) ==
  LET level == PopupIndex(w) + 1
      Asked == [field |-> f, level |-> level, opener |-> w, asked |-> render[w],
                kind |-> kind, object |-> object]
  IN \E h \in IF Named(f, level) # {} THEN Named(f, level) ELSE {opened + 1} \cap Handles :
       LET gone == IF h \in windows THEN Children(h) ELSE {}
           open == (windows \cup {h}) \ gone
           Lists == [related EXCEPT ![w] = @ \cup {h}]
       IN /\ windows' = open
          /\ opened' = IF h \in windows THEN opened ELSE h
          /\ info' = [x \in open |-> IF x = h THEN Asked ELSE info[x]]
          /\ related' = [x \in open \cup {Main} |-> IF x = h THEN {} ELSE Lists[x] \ gone]
          /\ render' = [x \in open \cup {Main} |->
                          IF x \in DOMAIN render THEN render[x] ELSE 0]
          /\ UNCHANGED <<renders, pageVars>>

\* A click on a link beside field f; the links to an object need one.
ClickLink(w, f) ==
  \/ Show(w, f, "add", None)
  \/ \E kind \in {"change", "delete"} :
       /\ w = Main => linked[f] # None
       /\ Show(w, f, kind, IF w = Main THEN linked[f] ELSE None)

\* Mutant of Unload: the page that goes leaves its popups open.
UnloadAlone(w, closing) ==
  /\ windows' = windows \ closing
  /\ info' = Restrict(info, windows \ closing)
  /\ related' = [x \in windows' \cup {Main} |->
                   IF x = w THEN {} ELSE related[x] \ closing]

\* "unload" of the page in w, where the windows in closing go, too: its popups are
\* dismissed, and its list is gone.
Unload(w, closing) ==
  LET gone == closing \cup Children(w)
  IN /\ windows' = windows \ gone
     /\ info' = Restrict(info, windows \ gone)
     /\ related' = [x \in windows' \cup {Main} |->
                      IF x = w THEN {} ELSE related[x] \ gone]

\* "change" of the select fields in fs: updateRelatedObjectLinks.
Follow(fs) == linked' = [f \in Fields |-> IF f \in fs THEN chosen'[f] ELSE linked[f]]

\* What an answer does to the fields of the main page.
AddToFields(f) ==
  \E new \in Objects \ exist :
    /\ exist' = exist \cup {new}
    /\ options' = [g \in Fields |-> options[g] \cup {new}]
    /\ chosen' = [chosen EXCEPT ![f] = new]
    /\ Follow({f})

\* A changed object is offered under its new label. Its id, which is written into the
\* other selects as well, is the old one: no model here has a key that can be edited.
ChangeInFields(f) ==
  /\ UNCHANGED <<exist, chosen, options>>
  /\ Follow({f})

\* Mutant of DeleteFromFields: no "change" event.
DeleteFromFieldsQuietly(f, object) ==
  /\ object \in exist
  /\ exist' = exist \ {object}
  /\ options' = [options EXCEPT ![f] = @ \ {object}]
  /\ chosen' = [chosen EXCEPT ![f] = IF @ = object THEN None ELSE @]
  /\ UNCHANGED linked

\* dismissDeleteRelatedObjectPopup: the option goes from this field only, and with
\* it the choice.
DeleteFromFields(f, object) ==
  /\ object \in exist
  /\ exist' = exist \ {object}
  /\ options' = [options EXCEPT ![f] = @ \ {object}]
  /\ chosen' = [chosen EXCEPT ![f] = IF @ = object THEN None ELSE @]
  /\ Follow({f})

\* A popup's form is saved. The page it gets unloads the form and answers to the
\* opener, which forgets the popup and closes it.
Answer(h) ==
  LET i == info[h]
  IN /\ Unload(h, {h})
     /\ render' = Restrict(render, windows' \cup {Main})
     /\ IF i.opener = Main
        THEN CASE i.kind = "add" -> AddToFields(i.field)
               [] i.kind = "change" -> i.object \in exist /\ ChangeInFields(i.field)
               [] i.kind = "delete" -> DeleteFromFields(i.field, i.object)
        ELSE UNCHANGED pageVars
     /\ UNCHANGED <<opened, renders>>

\* The user closes a popup.
CloseWindow(h) ==
  /\ Unload(h, {h})
  /\ render' = Restrict(render, windows' \cup {Main})
  /\ UNCHANGED <<opened, renders, pageVars>>

\* A form is sent and comes back with errors, or the page is loaded anew: the selects
\* offer what there is, and "change" is triggered once.
Render(w) ==
  /\ renders < MaxRenders
  /\ renders' = renders + 1
  /\ Unload(w, {})
  /\ render' = [Restrict(render, windows' \cup {Main}) EXCEPT ![w] = @ + 1]
  /\ IF w = Main
     THEN /\ options' = [f \in Fields |-> exist]
          /\ chosen' = [f \in Fields |-> IF chosen[f] \in exist THEN chosen[f] ELSE None]
          /\ Follow(Fields)
          /\ UNCHANGED exist
     ELSE UNCHANGED pageVars
  /\ UNCHANGED opened

\* The user selects an option on the main page.
Choose(f, object) ==
  /\ object \in options[f] \cup {None}
  /\ chosen' = [chosen EXCEPT ![f] = object]
  /\ Follow({f})
  /\ UNCHANGED <<windows, opened, info, related, render, renders, exist, options>>

PopupsNext ==
  \/ \E w \in windows \cup {Main} : Render(w) \/ \E f \in Fields : ClickLink(w, f)
  \/ \E h \in windows : Answer(h) \/ CloseWindow(h)
  \/ \E f \in Fields, object \in Objects \cup {None} : Choose(f, object)

PopupsSpec == PopupsInit /\ [][PopupsNext]_popupVars

(***************************************************************************)
(* Properties                                                              *)
(***************************************************************************)
\* Open popups have a name, an opener and a list; fields offer and choose objects.
PopupsTypeOK ==
  /\ opened \in 0..MaxWindows
  /\ windows \subseteq 1..opened
  /\ DOMAIN info = windows
  /\ \A h \in windows : info[h] \in Info
  /\ related \in [windows \cup {Main} -> SUBSET windows]
  /\ DOMAIN render = windows \cup {Main}
  /\ renders \in 0..MaxRenders
  /\ exist \subseteq Objects
  /\ options \in [Fields -> SUBSET Objects]
  /\ chosen \in [Fields -> Objects \cup {None}]
  /\ linked \in [Fields -> Objects \cup {None}]

\* Whatever is opened, taken over by name, closed or rendered again, no popup outlives
\* the page that asked for it: the opener of an open popup still shows that page, has
\* the popup in its list, and is one level up, so that the answer finds its field.
EveryPopupHasItsAsker ==
  \A h \in windows :
    LET w == info[h].opener
    IN /\ w \in windows \cup {Main}
       /\ h \in related[w]
       /\ info[h].asked = render[w]
       /\ info[h].level = PopupIndex(w) + 1

\* The change and delete links beside a field lead to the object it chooses, which
\* it offers, however answers and the user's own choices mix.
LinksFollowChoice ==
  \A f \in Fields : /\ linked[f] = chosen[f]
                    /\ chosen[f] \in options[f] \cup {None}
================================================================================
