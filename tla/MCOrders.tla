-------------------------------- MODULE MCOrders --------------------------------
(***************************************************************************)
(* Orders for TLC, with the mapping to OrderVersions (proved correct in    *)
(* OrdersProofs).                                                          *)
(***************************************************************************)
EXTENDS Orders, TLC

\* Workers are interchangeable: no operator tells them apart.
WorkerSymmetry == Permutations(Workers)

\* The statuses that requests have given an order are those of its audit rows,
\* and those that support has put it in those of the admin's log.
Versions == INSTANCE OrderVersions
              WITH current  <- [o \in Orders |-> row[o].status],
                   versions <- [o \in Orders |-> {events[o][i].to : i \in DOMAIN events[o]}],
                   decreed  <- [o \in Orders |-> {edits[o][i].status : i \in DOMAIN edits[o]}]

\* The code implements the trees of versions: each status a request gives an order
\* is a legal successor of a status it has had.
ExtendsAVersion == Versions!Spec
================================================================================
