----------------------------- MODULE OrderVersions -----------------------------
(***************************************************************************)
(* What services.transition promises of an order's status when requests    *)
(* overlap.  It is not the linear lifecycle: a request applies the map to   *)
(* a version it has read, which need not be the latest any more, so the    *)
(* statuses that requests have given it form trees whose edges are the     *)
(* map's.  A tree is rooted at the placing of the order, or at a status    *)
(* that support has put it in by hand; the current status is the node that *)
(* was added last.                                                         *)
(***************************************************************************)
EXTENDS OrderStates

CONSTANT Orders

VARIABLES current,   \* the latest status of each order
          versions,  \* every status that placing it or a request has given it
          decreed    \* every status that support has put it in

vars == <<current, versions, decreed>>

Init ==
  /\ current = [o \in Orders |-> "placed"]
  /\ versions = [o \in Orders |-> {}]
  /\ decreed = [o \in Orders |-> {}]

Create(o) ==
  /\ versions[o] = {}
  /\ versions' = [versions EXCEPT ![o] = {current[o]}]
  /\ UNCHANGED <<current, decreed>>

\* A status by hand, any one, which is no version but may be read as one.
Decree(o) ==
  /\ versions[o] # {}
  /\ \E t \in Statuses : /\ current' = [current EXCEPT ![o] = t]
                          /\ decreed' = [decreed EXCEPT ![o] = @ \cup {t}]
  /\ UNCHANGED versions

\* One step of the map from a version, or two in one transaction (pickup).
Extend(o) ==
  \E s \in versions[o] \cup decreed[o], t \in Statuses :
    /\ Can(s, t)
    /\ UNCHANGED decreed
    /\ \/ /\ current' = [current EXCEPT ![o] = t]
          /\ versions' = [versions EXCEPT ![o] = @ \cup {t}]
       \/ \E u \in Statuses :
            /\ Can(t, u)
            /\ current' = [current EXCEPT ![o] = u]
            /\ versions' = [versions EXCEPT ![o] = @ \cup {t, u}]

Next == \E o \in Orders : Create(o) \/ Extend(o) \/ Decree(o)

Spec == Init /\ [][Next]_vars
================================================================================
