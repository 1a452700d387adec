------------------------------- MODULE Processes -------------------------------
(***************************************************************************)
(* The processes that handle messages and requests of one order at a time: *)
(* runs of pump_outbox, and workers of the web server.                     *)
(***************************************************************************)
EXTENDS Naturals, FiniteSets

CONSTANTS Pumps,      \* runs of pump_outbox that may overlap
          Web,        \* web workers
          Nobody,     \* value of a free row lock, and of "no courier"
          MaxCrashes  \* bound on the crashes of a process

ASSUME ProcessesAssumption ==
  /\ Nobody \notin Pumps \cup Web
  /\ Pumps \cap Web = {}
  /\ IsFiniteSet(Pumps \cup Web)
  /\ MaxCrashes \in Nat
================================================================================
