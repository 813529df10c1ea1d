------------------------- MODULE MCTwoPhaseDeposit --------------------------
(***************************************************************************)
(* Instances of TwoPhaseDeposit.  Weights are distinct powers of two, so   *)
(* that a balance tells which deposits it is made of.                      *)
(***************************************************************************)
EXTENDS TwoPhaseDeposit

CONSTANTS t1, t2, t3, b1

OneBin == [t \in Tx |-> b1]
Weights == [c \in Callers |-> CASE c = t1 -> 1 [] c = t2 -> 2 [] OTHER -> 4]

(***************************************************************************)
(* What a comment of the source says, refuted by a run.                    *)
(***************************************************************************)
Quiet ==
  /\ \A t \in Tx : pc[t] \in Returned \cup {"idle"} /\ ~Pending(t)
  /\ \A w \in Workers : at[w] = "scan" /\ todo[w] = {}

\* two_phase_deposit.ts:29: a failed deposit is rolled back and the balance
\* restored, so that a bin at rest holds what was confirmed for it.
RollbackRestoresBalance ==
  Quiet => \A b \in Bins : balance[b] = confirmed[b]
=============================================================================
