---------------------------- MODULE PendingStore ----------------------------
(***************************************************************************)
(* The pending_transactions table behind the TransactionCoordinator        *)
(* (core/state/pending_store.ts, core/state/transaction_controller.ts).    *)
(* A row is named by the transaction that creates it: prepare() draws a    *)
(* fresh UUID, so no transaction owns two rows.  Every operator below is   *)
(* one SQL statement; the modules that EXTEND this one say who issues it   *)
(* and when.                                                               *)
(***************************************************************************)
EXTENDS Transactions

VARIABLES row,         \* status column; "none": the row is not there
          hash,        \* transactions whose row has a soroban_hash
          expired      \* transactions whose row is past timeout_at

storeVars == <<row, hash, expired>>

RowStatus == {"none", "pending", "committed", "rolled_back"}

StoreTypeOK ==
  /\ row \in [Tx -> RowStatus]
  /\ hash \subseteq Tx
  /\ expired \subseteq Tx

StoreInit ==
  /\ row = [t \in Tx |-> "none"]
  /\ hash = {}
  /\ expired = {}

Pending(t) == row[t] = "pending"

\* Mutant: insert() without its SELECT.
PendingOfUnchecked(c) == {}

\* The SELECT ... FOR UPDATE of insert(): the rows that block a new one.
PendingOf(c) == {t \in Tx : CargoOf[t] = c /\ Pending(t)}

\* The INSERT and COMMIT of insert().
InsertRow(t) ==
  /\ row' = [row EXCEPT ![t] = "pending"]
  /\ UNCHANGED <<hash, expired>>

\* Mutant: markCommitted without status = 'pending'.
MarkCommittedAnyRow(t) ==
  /\ row[t] # "none"
  /\ row' = [row EXCEPT ![t] = "committed"]
  /\ hash' = hash \cup {t}
  /\ UNCHANGED expired

\* markCommitted, when its WHERE clause matches the row.
MarkCommitted(t) ==
  /\ Pending(t)
  /\ row' = [row EXCEPT ![t] = "committed"]
  /\ hash' = hash \cup {t}
  /\ UNCHANGED expired

\* Mutant: markRolledBack without status = 'pending'.
MarkRolledBackAnyRow(t) ==
  /\ row' = [row EXCEPT ![t] = "rolled_back"]
  /\ UNCHANGED <<hash, expired>>

\* markRolledBack: no error when the WHERE clause matches nothing.
MarkRolledBack(t) ==
  /\ row' = [row EXCEPT ![t] = IF @ = "pending" THEN "rolled_back" ELSE @]
  /\ UNCHANGED <<hash, expired>>

\* setSorobanHash looks at the row's key only.
SetSorobanHash(t) ==
  /\ row[t] # "none"
  /\ hash' = hash \cup {t}
  /\ UNCHANGED <<row, expired>>

\* timeout_at, written by prepare(), passes.
Expire(t) ==
  /\ Pending(t)
  /\ t \notin expired
  /\ expired' = expired \cup {t}
  /\ UNCHANGED <<row, hash>>

\* Mutant: the worker looks for submitted rows only.
FindTimedOutHashed ==
  {[tx |-> t, hashed |-> TRUE] : t \in {u \in expired \cap hash : Pending(u)}}

\* findTimedOut, with the soroban_hash column the worker goes on to use.
FindTimedOut ==
  {[tx |-> t, hashed |-> t \in hash] : t \in {u \in expired : Pending(u)}}
=============================================================================
