-------------------------------- MODULE CommandMenu --------------------------------
(***************************************************************************)
(* The command search of the admin (app.js, searchCommand): a list of       *)
(* results, or of what was picked before. That history is in localStorage,  *)
(* which all tabs share; each tab shows the copy it read or wrote last.     *)
(* A handler runs to its end before another tab's begins.                  *)
(***************************************************************************)
EXTENDS Naturals, Sequences, SequencesExt, Lists

CONSTANTS
  Tabs,          \* the tabs that have the admin open
  Links,         \* the pages that can be found
  HistoryLimit,  \* 10 in the code
  MaxResults     \* how many results the server sends (a bound)

CommandMenuAssumption == HistoryLimit \in Nat \ {0} /\ MaxResults \in Nat
ASSUME CommandMenuAssumption

VARIABLES
  stored,   \* localStorage.commandHistory
  history,  \* every tab's copy of it
  listing,  \* what every tab's menu lists: nothing if it is closed
  items,    \* the links of that list, in which the keys walk
  at        \* currentIndex of every tab

commandVars == <<stored, history, listing, items, at>>

Record == [link : Links, favorite : BOOLEAN]
LinksOf(h) == [i \in DOMAIN h |-> h[i].link]

CommandMenuInit ==
  /\ stored = <<>>
  /\ history = [t \in Tabs |-> <<>>]
  /\ listing = [t \in Tabs |-> "closed"]
  /\ items = [t \in Tabs |-> <<>>]
  /\ at = [t \in Tabs |-> 0]

Open(t) == listing[t] # "closed"

List(t, what, links) ==
  /\ listing' = [listing EXCEPT ![t] = what]
  /\ items' = [items EXCEPT ![t] = links]

\* The tab is loaded anew, or goes to another page of the admin.
LoadTab(t) ==
  /\ history' = [history EXCEPT ![t] = stored]
  /\ List(t, "closed", <<>>)
  /\ at' = [at EXCEPT ![t] = 0]
  /\ UNCHANGED stored

\* handleOpen, which closes, too: the position stays.
HandleOpen(t) ==
  /\ IF Open(t) THEN List(t, "closed", <<>>)
                ELSE List(t, "history", LinksOf(history[t]))
  /\ UNCHANGED <<stored, history, at>>

\* handleOutsideClick, and handleClear with nothing to clear.
HandleClear(t) ==
  /\ Open(t)
  /\ List(t, "closed", <<>>)
  /\ at' = [at EXCEPT ![t] = 0]
  /\ UNCHANGED <<stored, history>>

\* handleContentLoaded, for new results or for more of them. An empty response
\* brings the history back.
HandleContentLoaded(t) ==
  /\ Open(t)
  /\ \/ \E results \in SeqOf(Links, MaxResults) :
          /\ List(t, "results", results)
          /\ at' = [at EXCEPT ![t] = 0]
     \/ /\ listing[t] = "results"
        /\ \E more \in SeqOf(Links, MaxResults) :
             /\ Len(items[t] \o more) <= MaxResults
             /\ items' = [items EXCEPT ![t] = @ \o more]
        /\ UNCHANGED <<listing, at>>
     \/ /\ history[t] # <<>>
        /\ List(t, "history", LinksOf(history[t]))
        /\ at' = [at EXCEPT ![t] = 0]
  /\ UNCHANGED <<stored, history>>

\* nextItem, prevItem.
Step(t) ==
  /\ Open(t)
  /\ \/ at[t] < Len(items[t]) /\ at' = [at EXCEPT ![t] = @ + 1]
     \/ at[t] > 1 /\ at' = [at EXCEPT ![t] = @ - 1]
  /\ UNCHANGED <<stored, history, listing, items>>

\* The list elements that a tab keeps show its copy of the history, as far as it goes.
Redrawn(t, h) ==
  IF listing[t] = "history"
  THEN [i \in DOMAIN items[t] |-> IF i \in DOMAIN h THEN h[i].link ELSE items[t][i]]
  ELSE items[t]

Write(t, h) ==
  /\ stored' = h
  /\ history' = [history EXCEPT ![t] = h]

\* Mutant of Added: the link is not looked for.
AddedAgain(t, link) ==
  LET all == <<[link |-> link, favorite |-> FALSE]>> \o stored
  IN SubSeq(all, 1, IF Len(all) < HistoryLimit THEN Len(all) ELSE HistoryLimit)

Without(h, link) == Kept(h, {i \in DOMAIN h : h[i].link # link})

\* Mutant of Added: what this tab shows is taken for what is stored.
AddedToCopy(t, link) ==
  LET others == Without(history[t], link)
      all == <<[link |-> link, favorite |-> FALSE]>> \o others
  IN SubSeq(all, 1, IF Len(all) < HistoryLimit THEN Len(all) ELSE HistoryLimit)

\* addToHistory: the link comes first, and is no favourite any more.
Added(t, link) ==
  LET others == Without(stored, link)
      all == <<[link |-> link, favorite |-> FALSE]>> \o others
  IN SubSeq(all, 1, IF Len(all) < HistoryLimit THEN Len(all) ELSE HistoryLimit)

\* selectItem: the page opens in another tab, or in this one. A position that is not
\* in the list is an error that changes nothing.
SelectItem(t, addHistory, openInNewTab) ==
  /\ Open(t)
  /\ at[t] \in DOMAIN items[t]
  /\ LET h == Added(t, items[t][at[t]])
     IN /\ stored' = IF addHistory THEN h ELSE stored
        /\ history' = IF addHistory \/ ~openInNewTab
                      THEN [history EXCEPT ![t] = stored'] ELSE history
        /\ IF openInNewTab
           THEN /\ items' = [items EXCEPT ![t] = Redrawn(t, history'[t])]
                /\ UNCHANGED <<listing, at>>
           ELSE /\ List(t, "closed", <<>>)
                /\ at' = [at EXCEPT ![t] = 0]

\* removeFromHistory: the position is one of this tab's copy, the entry that goes is
\* the one stored there.
RemoveFromHistory(t, i) ==
  /\ Open(t)
  /\ i \in DOMAIN history[t]
  /\ LET h == IF i \in DOMAIN stored THEN RemoveAt(stored, i) ELSE stored
     IN /\ Write(t, h)
        /\ items' = [items EXCEPT ![t] = Redrawn(t, h)]
  /\ UNCHANGED <<listing, at>>

\* toggleFavorite: favourites come first, else the order stays.
ToggleFavorite(t, i) ==
  /\ Open(t)
  /\ i \in DOMAIN history[t] \cap DOMAIN stored
  /\ LET toggled == [stored EXCEPT ![i].favorite = ~@]
         favorites == {j \in DOMAIN toggled : toggled[j].favorite}
         h == Kept(toggled, favorites) \o Kept(toggled, DOMAIN toggled \ favorites)
     IN /\ Write(t, h)
        /\ items' = [items EXCEPT ![t] = Redrawn(t, h)]
  /\ UNCHANGED <<listing, at>>

CommandMenuNext ==
  \E t \in Tabs :
    \/ LoadTab(t)
    \/ HandleOpen(t)
    \/ HandleClear(t)
    \/ HandleContentLoaded(t)
    \/ Step(t)
    \/ \E addHistory, openInNewTab \in BOOLEAN : SelectItem(t, addHistory, openInNewTab)
    \/ \E i \in 1..HistoryLimit : RemoveFromHistory(t, i) \/ ToggleFavorite(t, i)

CommandMenuSpec == CommandMenuInit /\ [][CommandMenuNext]_commandVars

(***************************************************************************)
(* Properties                                                              *)
(***************************************************************************)
\* Histories hold records, positions are counted from 1.
CommandMenuTypeOK ==
  /\ stored \in Seq(Record)
  /\ \A t \in Tabs : /\ history[t] \in Seq(Record)
                     /\ items[t] \in Seq(Links)
                     /\ listing[t] \in {"closed", "history", "results"}
                     /\ at[t] \in Nat

\* Whatever the tabs do with copies that have grown old, no page is twice in the
\* history, and it is never longer than its limit (addToHistory).
HistoryDistinct ==
  IsInjective(LinksOf(stored)) /\ Len(stored) <= HistoryLimit

\* One tab never undoes what others have put into the history or marked in it: a step
\* changes one entry at most, and a page leaves it only if that entry alone is removed,
\* or if it is the oldest of a history that stays as long as its limit.
OthersEntriesStay ==
  [][\A i \in DOMAIN stored : stored[i] \notin Range(stored') =>
       /\ \A j \in DOMAIN stored \ {i} : stored[j] \in Range(stored')
       /\ \/ stored[i].link \in Range(LinksOf(stored'))
          \/ stored' = RemoveAt(stored, i)
          \/ i = HistoryLimit /\ Len(stored') = HistoryLimit]_commandVars
====================================================================================
