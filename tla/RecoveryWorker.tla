--------------------------- MODULE RecoveryWorker ---------------------------
(***************************************************************************)
(* The background worker that resolves timed-out rows                      *)
(* (core/state/recovery_worker.ts).  A sweep works on the rows its SELECT  *)
(* returned, which may have been decided since; each await of resolve() is *)
(* a step of its own.  The onRollback callback belongs to the flow whose   *)
(* row it is: a composing module adds its effect to Restore.               *)
(***************************************************************************)
EXTENDS PendingStore, SorobanNetwork

CONSTANTS Workers,       \* worker instances, one per server process
          HasSubmitter,  \* FALSE: built with submitter = null
          NoTx

ASSUME WorkerAssumption == HasSubmitter \in BOOLEAN /\ NoTx \notin Tx

VARIABLES todo,          \* rows of the sweep not yet looked at
          cur,           \* the row resolve() is working on
          at             \* where resolve() is

workerVars == <<todo, cur, at>>

WorkerTypeOK ==
  /\ todo \in [Workers -> SUBSET [tx : Tx, hashed : BOOLEAN]]
  /\ cur \in [Workers -> Tx \cup {NoTx}]
  /\ at \in [Workers -> {"scan", "commit", "mark", "restore"}]
  /\ \A w \in Workers : at[w] # "scan" => cur[w] \in Tx

WorkerInit ==
  /\ todo = [w \in Workers |-> {}]
  /\ cur = [w \in Workers |-> NoTx]
  /\ at = [w \in Workers |-> "scan"]

\* resolve() is over, one way or another; its errors are swallowed.
NextRow(w) ==
  /\ cur' = [cur EXCEPT ![w] = NoTx]
  /\ at' = [at EXCEPT ![w] = "scan"]
  /\ UNCHANGED todo

\* tick() while no sweep is running; findTimedOut.
Tick(w) ==
  /\ at[w] = "scan" /\ todo[w] = {}
  /\ todo' = [todo EXCEPT ![w] = FindTimedOut]
  /\ UNCHANGED <<cur, at, row, hash, expired>>

\* resolve() up to its first write: with a recorded hash the ledger decides,
\* without one it is a rollback.  A PENDING transaction waits for a later tick.
Resolve(w) == \E r \in todo[w] :
  /\ at[w] = "scan"
  /\ todo' = [todo EXCEPT ![w] = @ \ {r}]
  /\ \E reply \in IF r.hashed /\ HasSubmitter
                  THEN StatusReplies(r.tx) ELSE {"NOT_FOUND"} :
       \/ /\ reply = "PENDING"
          /\ UNCHANGED <<cur, at>>
       \/ /\ reply # "PENDING"
          /\ cur' = [cur EXCEPT ![w] = r.tx]
          /\ at' = [at EXCEPT ![w] = IF reply = "SUCCESS" THEN "commit"
                                                          ELSE "mark"]
  /\ UNCHANGED storeVars

\* markCommitted on SUCCESS; it throws when the row is no longer pending.
CommitRow(w) ==
  /\ at[w] = "commit"
  /\ \/ MarkCommitted(cur[w])
     \/ ~Pending(cur[w]) /\ UNCHANGED storeVars
  /\ NextRow(w)

\* markRolledBack, which does not say whether it changed the row.
MarkRow(w) ==
  /\ at[w] = "mark"
  /\ MarkRolledBack(cur[w])
  /\ at' = [at EXCEPT ![w] = "restore"]
  /\ UNCHANGED <<todo, cur>>

\* onRollback(row) returns.
Restore(w) ==
  /\ at[w] = "restore"
  /\ NextRow(w)
  /\ UNCHANGED storeVars

\* A statement or the callback throws: the catch of tick() swallows it.
ResolveFails(w) ==
  /\ at[w] # "scan"
  /\ NextRow(w)
  /\ UNCHANGED storeVars

\* The process of the worker dies.
WorkerCrash(w) ==
  /\ todo' = [todo EXCEPT ![w] = {}]
  /\ cur' = [cur EXCEPT ![w] = NoTx]
  /\ at' = [at EXCEPT ![w] = "scan"]
  /\ UNCHANGED storeVars
=============================================================================
