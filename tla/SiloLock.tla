------------------------------ MODULE SiloLock ------------------------------
(***************************************************************************)
(* The advisory lock of a silo bin as its callers see it                   *)
(* (inventory/silo_lock.ts): one holder per bin, given up by               *)
(* releaseSiloBinLock or by the end of the holder's database session.      *)
(***************************************************************************)
CONSTANTS Bins, Callers, NoCaller

ASSUME NoCallerAssumption == NoCaller \notin Callers

VARIABLE holder        \* who holds the advisory lock of each bin

LockTypeOK == holder \in [Bins -> Callers \cup {NoCaller}]

LockInit == holder = [b \in Bins |-> NoCaller]

\* Mutant: a lock shared by its callers.
AcquireShared(c, b) == holder' = [holder EXCEPT ![b] = c]

\* pg_advisory_lock returns before statement_timeout.
Acquire(c, b) ==
  /\ holder[b] = NoCaller
  /\ holder' = [holder EXCEPT ![b] = c]

\* pg_advisory_lock is cancelled by statement_timeout: somebody has the lock.
AcquireTimesOut(b) ==
  /\ holder[b] # NoCaller
  /\ UNCHANGED holder

\* pg_advisory_unlock, or the session of holder c ends.
Release(c, b) ==
  holder' = [holder EXCEPT ![b] = IF @ = c THEN NoCaller ELSE @]
=============================================================================
