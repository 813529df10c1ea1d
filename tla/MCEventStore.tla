---------------------------- MODULE MCEventStore ----------------------------
(***************************************************************************)
(* An instance of EventStore: months of two events each.                   *)
(***************************************************************************)
EXTENDS EventStore, TLC

MonthPairs(v) == (v + 1) \div 2
Symmetry == Permutations(Passes) \cup Permutations(Callers)
=============================================================================
