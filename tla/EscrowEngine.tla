---------------------------- MODULE EscrowEngine ----------------------------
(***************************************************************************)
(* The in-memory escrow records of settlement/escrow-engine.ts.  Each      *)
(* operation runs to its end when it is called and returns ok or err: the  *)
(* formula XOk says that X returns ok, X what it does to the records.      *)
(* "none" stands for a record that is not in the map, too.                 *)
(***************************************************************************)
CONSTANT Escrows
VARIABLE escrow

EscrowStatus == {"none", "held", "verified", "released", "reversed"}

EscrowTypeOK == escrow \in [Escrows -> EscrowStatus]

SetStatus(e, s) == escrow' = [escrow EXCEPT ![e] = s]

\* A compensation: it moves one status back and leaves every other alone.
Revert(e, from, to) == SetStatus(e, IF escrow[e] = from THEN to ELSE escrow[e])

\* Mutant: release does not look at the status.
EngineReleaseAlwaysOk(e) == TRUE

EngineReleaseOk(e) == escrow[e] = "verified"
EngineRelease(e) == SetStatus(e, "released")
ReverseRelease(e) == Revert(e, "released", "reversed")
=============================================================================
