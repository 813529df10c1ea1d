------------------------- MODULE MCSagaCoordinator --------------------------
(***************************************************************************)
(* Instances of SagaCoordinator: the sagas of one tenant.                  *)
(***************************************************************************)
EXTENDS SagaCoordinator, TLC

CONSTANT tenant

OneTenant == [s \in Sagas |-> tenant]

\* Runs are alike: they begin in the order of their numbers.
InTurn ==
  \A r \in Runs : pc[r] = "new" /\ pc'[r] # "new" => \A q \in 1..r - 1 : pc[q] # "new"
OrderedSpec == Init /\ [][Next /\ InTurn]_vars /\ \A r \in Runs : WF_vars(Run(r))
=============================================================================
